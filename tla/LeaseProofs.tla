---------------------------- MODULE LeaseProofs -----------------------------
(***************************************************************************)
(* What networks promise about addresses holds for any VMs, networks and   *)
(* NICs, where no network replaces another: no address is held twice, who  *)
(* holds one is remembered, and only a network that is full refuses one.   *)
(***************************************************************************)
EXTENDS NetworkLeases, WellFoundedInduction, TLAPS

\* No name is used for a second network while the first is there, and no oid
\* is given again: SELECT MAX(oid) forgets the networks that were dropped.
NothingReplaced ==
  \A s \in Scenarios : "reuse" \notin s /\ ~ {"drop", "restart"} \subseteq s

\* Networks of different names have addresses of their own.
BlocksApart ==
  \A t, u \in Templates : t.name # u.name => t.block \cap u.block = {}

-----------------------------------------------------------------------------
(* The invariant                                                           *)

Leased == [network : {a.network : a \in Wanted}, vnid : Oids, ip : IPs]

Types ==
  /\ scenario \in Scenarios
  /\ lastOID \in Oids \cup {-1}
  /\ nets \in [Oids -> Templates \cup {NoNet}]
  /\ rows \in [Oids -> [IPs -> Holders]] /\ leases \in [Oids -> [IPs -> Holders]]
  /\ cached \in [Oids -> {"no", "valid", "dropped"}]
  /\ DOMAIN kind = Oids /\ DOMAIN current = Oids
  /\ DOMAIN phase = VMs
  /\ todo \in [VMs -> Seq(Wanted)]
  /\ nics \in [VMs -> Seq(Leased)]

\* The leases a network has when it is next looked at.
memory == [n \in Oids |-> IF cached[n] = "valid" THEN leases[n] ELSE rows[n]]

There(n) == nets[n] # NoNet

\* The row of an address and the lease of it in memory, of a network that is
\* there: only its own addresses have one, those of a FIXED network always, and
\* those of a RANGED network only while they are held.
GoodLease(net, ip, row, lease) ==
  /\ row # NoRow \/ lease # NoRow => ip \in net.block
  /\ net.type = "FIXED" => (row = NoRow <=> lease = NoRow) /\ (ip \in net.ips => row # NoRow)
  /\ net.type = "RANGED" => row # Free /\ lease # Free

Network(n) ==
  /\ cached[n] = "valid" => There(n) /\ kind[n] = nets[n]
  /\ cached[n] = "dropped" => ~ There(n)
  /\ ~ There(n) => rows[n] = None
  /\ n > lastOID => ~ There(n) /\ cached[n] = "no"
  /\ n <= lastOID /\ "drop" \notin scenario => There(n)
  /\ There(n) => \A ip \in IPs : GoodLease(nets[n], ip, rows[n][ip], memory[n][ip])

NamesApart == \A n, m \in Oids : There(n) /\ There(m) /\ nets[n].name = nets[m].name => n = m

\* Who has a lease is known, and nobody has one of a network that never was.
Known ==
  \A v \in VMs, n \in Oids, ip \in IPs :
    Holds(v, n, ip) => n <= lastOID /\ (There(n) => rows[n][ip] = v /\ memory[n][ip] = v)

\* When nothing fails, memory and table agree, and who is in them has a lease.
Exact ==
  \A n \in Oids : /\ memory[n] = rows[n]
                  /\ \A ip \in IPs, v \in VMs : rows[n][ip] = v => Holds(v, n, ip)

Inv ==
  /\ Types /\ NamesApart /\ AddressHeldOnce /\ Known
  /\ \A n \in Oids : Network(n)
  /\ scenario \cap {"restart", "error"} = {} => Exact

-----------------------------------------------------------------------------
(* Looking at a network                                                    *)

LEMMA Constants ==
  /\ Oids \subseteq Nat /\ IPs \subseteq Nat /\ NoIp \notin IPs
  /\ \A t \in Templates : /\ t.type = "FIXED" \/ t.type = "RANGED"
                          /\ t.ips \subseteq t.block /\ t.block \subseteq IPs
  /\ Free \notin VMs /\ NoRow \notin VMs /\ Free # NoRow /\ NoNet \notin Templates
  /\ \A s \in Scenarios : s \subseteq {"reuse", "drop", "restart", "error"}
  /\ \A l \in NicLists : l \in Seq(Wanted)
  /\ VMs \subseteq Holders /\ Free \in Holders /\ NoRow \in Holders
<1> USE NetworkLeasesAssumption DEF NetworkLeasesAssumption
<1>1. \A t \in Templates : t.block \subseteq IPs
  BY DEF IPs
<1>2. IPs \subseteq Nat
  BY DEF IPs
<1>3. VMs \subseteq Holders /\ Free \in Holders /\ NoRow \in Holders
  BY DEF Holders
<1> QED BY <1>1, <1>2, <1>3

LEMMA SmallestIs ==
  ASSUME NEW S, S \subseteq Nat, S # {}
  PROVE  Smallest(S) \in S
<1>1. PICK n \in S : \A m \in S : ~ (<<m, n>> \in OpToRel(<, Nat))
  BY NatLessThanWellFounded, WFMin
<1>2. \A m \in S : ~ (m < n)
  BY <1>1 DEF OpToRel
<1>3. n \in S /\ \A m \in S : n <= m
  BY <1>2
<1> QED BY <1>3 DEF Smallest

LEMMA MemoryType ==
  ASSUME Types, NEW n \in Oids
  PROVE  memory[n] \in [IPs -> Holders] /\ rows[n] \in [IPs -> Holders]
BY DEF Types, memory

LEMMA LoadedIs ==
  ASSUME Inv, NEW n \in Oids, CanGet(n)
  PROVE  /\ There(n) /\ nets[n] \in Templates
         /\ Loaded(n).kind = nets[n] /\ Loaded(n).leases = memory[n]
<1>1. There(n) /\ (cached[n] = "valid" => kind[n] = nets[n])
  BY DEF Inv, Network, CanGet, There
<1>2. nets[n] \in Templates
  BY <1>1 DEF There, Inv, Types
<1>3. CASE cached[n] = "valid"
  BY <1>1, <1>2, <1>3 DEF Loaded, memory
<1>4. CASE cached[n] # "valid"
  BY <1>1, <1>2, <1>4 DEF Loaded, memory
<1> QED BY <1>3, <1>4

LEMMA FirstFreeIs ==
  ASSUME Inv, NEW n \in Oids, CanGet(n)
  PROVE  IF FirstFree(n) = NoIp
           THEN \A ip \in nets[n].ips : ~ Available(Loaded(n), ip)
           ELSE FirstFree(n) \in nets[n].ips /\ Available(Loaded(n), FirstFree(n))
<1> DEFINE free == {ip \in nets[n].ips : Available(Loaded(n), ip)}
           ahead == {ip \in free : ip >= Loaded(n).current}
<1>1. FirstFree(n) = IF free = {} THEN NoIp ELSE Smallest(IF ahead # {} THEN ahead ELSE free)
  BY LoadedIs DEF FirstFree
<1>2. free \subseteq IPs /\ free \subseteq Nat /\ NoIp \notin free /\ ahead \subseteq free
  BY LoadedIs, Constants
<1> HIDE DEF ahead
<1>3. free # {} => FirstFree(n) \in free
  <2> HIDE DEF free
  <2>1. CASE ahead # {}
    <3>1. ahead \subseteq Nat
      BY <1>2
    <3>2. Smallest(ahead) \in ahead
      BY <2>1, <3>1, SmallestIs
    <3> QED BY <1>1, <1>2, <2>1, <3>2
  <2>2. CASE ahead = {}
    BY <1>1, <1>2, <2>2, SmallestIs
  <2> QED BY <2>1, <2>2
<1> QED BY <1>1, <1>2, <1>3

\* An address of a network that is there has no row in another.
LEMMA OnlyHere ==
  ASSUME Inv, BlocksApart, NEW n \in Oids, There(n), NEW ip \in nets[n].block, ip \in IPs,
         NEW m \in Oids, m # n
  PROVE  rows[m][ip] = NoRow
<1>1. nets \in [Oids -> Templates \cup {NoNet}]
  BY DEF Inv, Types
<1>2. CASE There(m)
  <2>1. nets[n] \in Templates /\ nets[m] \in Templates
    BY <1>1, <1>2 DEF There
  <2>2. nets[n].name # nets[m].name
    BY <1>2 DEF Inv, NamesApart
  <2>3. ip \notin nets[m].block
    BY <2>1, <2>2 DEF BlocksApart
  <2> QED BY <1>2, <2>3 DEF Inv, Network, GoodLease
<1>3. CASE ~ There(m)
  BY <1>3 DEF Inv, Network, None
<1> QED BY <1>2, <1>3

\* Network n gets a table and leases in memory.
Sets(n, table, held) ==
  /\ rows' = [rows EXCEPT ![n] = table]
  /\ leases' = [leases EXCEPT ![n] = held]
  /\ cached' = [cached EXCEPT ![n] = "valid"]
  /\ kind' = [kind EXCEPT ![n] = nets[n]]
  /\ DOMAIN current' = Oids
  /\ UNCHANGED <<scenario, lastOID, nets>>

LEMMA KeepSets ==
  ASSUME Inv, NEW n \in Oids, CanGet(n), NEW held, NEW next, Keep(n, held, next),
         NEW table, rows' = [rows EXCEPT ![n] = table], UNCHANGED <<scenario, lastOID, nets>>
  PROVE  Sets(n, table, held)
BY LoadedIs DEF Keep, Sets, Inv, Types

LEMMA SetsRows ==
  ASSUME Types, NEW n \in Oids, NEW table, NEW held, Sets(n, table, held)
  PROVE  /\ rows'[n] = table /\ memory'[n] = held
         /\ \A m \in Oids : m # n => rows'[m] = rows[m] /\ memory'[m] = memory[m]
BY DEF Types, Sets, memory

LEMMA SetsNetworks ==
  ASSUME Inv, NEW n \in Oids, There(n),
         NEW table \in [IPs -> Holders], NEW held \in [IPs -> Holders], Sets(n, table, held),
         \A ip \in IPs : GoodLease(nets[n], ip, table[ip], held[ip]),
         DOMAIN phase' = VMs, todo' \in [VMs -> Seq(Wanted)], nics' \in [VMs -> Seq(Leased)]
  PROVE  Types' /\ NamesApart' /\ \A m \in Oids : Network(m)'
<1>1. Types /\ NamesApart /\ \A m \in Oids : Network(m)
  BY DEF Inv
<1>2. Types'
  BY <1>1 DEF Types, Sets
<1>3. NamesApart'
  BY <1>1 DEF NamesApart, There, Sets
<1>4. rows'[n] = table /\ memory'[n] = held /\ cached'[n] = "valid" /\ kind'[n] = nets[n]
  BY <1>1 DEF Types, Sets, memory
<1>5. \A m \in Oids : m # n => /\ rows'[m] = rows[m] /\ memory'[m] = memory[m]
                               /\ cached'[m] = cached[m] /\ kind'[m] = kind[m]
  BY <1>1 DEF Types, Sets, memory
<1>6. nets' = nets /\ lastOID' = lastOID /\ scenario' = scenario
  BY DEF Sets
<1>7. Network(n)'
  <2>1. There(n)' /\ (n <= lastOID \/ ~ n > lastOID)
    BY <1>1, <1>6 DEF There, Network
  <2>2. \A ip \in IPs : GoodLease(nets[n], ip, rows[n][ip], memory[n][ip])'
    BY <1>4, <1>6 DEF GoodLease
  <2>3. ~ (n > lastOID)
    BY <1>1 DEF Network
  <2> QED BY <1>4, <1>6, <2>1, <2>2, <2>3 DEF Network
<1>8. ASSUME NEW m \in Oids, m # n PROVE Network(m)'
  BY <1>1, <1>5, <1>6, <1>8 DEF Network, There, GoodLease
<1> QED BY <1>2, <1>3, <1>4, <1>5, <1>7, <1>8

\* One address of network n gets a row and a lease in memory.
LEMMA OneRow ==
  ASSUME Types, NEW n \in Oids, NEW ip \in IPs, NEW table, NEW held, Sets(n, table, held),
         \A o \in IPs : o # ip => table[o] = rows[n][o] /\ held[o] = memory[n][o]
  PROVE  /\ rows'[n][ip] = table[ip] /\ memory'[n][ip] = held[ip]
         /\ \A m \in Oids, o \in IPs :
              ~ (m = n /\ o = ip) => rows'[m][o] = rows[m][o] /\ memory'[m][o] = memory[m][o]
<1>1. rows'[n] = table /\ memory'[n] = held
  BY SetsRows
<1>2. \A m \in Oids : m # n => rows'[m] = rows[m] /\ memory'[m] = memory[m]
  BY SetsRows
<1> QED BY <1>1, <1>2

LEMMA Agree ==
  ASSUME Types', NEW n \in Oids, \A ip \in IPs : memory'[n][ip] = rows'[n][ip]
  PROVE  memory'[n] = rows'[n]
BY DEF Types, memory

-----------------------------------------------------------------------------
(* Leases are taken and released                                           *)

\* An address that is available becomes v's, in the table and in memory.
LEMMA LeaseSets ==
  ASSUME Inv, BlocksApart, NEW n \in Oids, CanGet(n), NEW v \in VMs, NEW next,
         NEW ip \in nets[n].block, Available(Loaded(n), ip), Lease(n, ip, v, next),
         UNCHANGED <<scenario, lastOID, nets>>
  PROVE  /\ ip \in IPs /\ memory[n][ip] \notin VMs
         /\ Sets(n, [rows[n] EXCEPT ![ip] = v], [memory[n] EXCEPT ![ip] = v])
         /\ GoodLease(nets[n], ip, v, v)
<1>1. /\ There(n) /\ nets[n] \in Templates
      /\ Loaded(n).kind = nets[n] /\ Loaded(n).leases = memory[n]
  BY LoadedIs
<1>2. /\ ip \in IPs /\ (nets[n].type = "FIXED" \/ nets[n].type = "RANGED")
      /\ v # NoRow /\ v # Free /\ Free # NoRow
  BY <1>1, Constants
<1>3. GoodLease(nets[n], ip, rows[n][ip], memory[n][ip])
  BY <1>1, <1>2 DEF Inv, Network
<1>4. \/ memory[n][ip] = Free
      \/ memory[n][ip] = NoRow /\ nets[n].type = "RANGED"
  BY <1>1 DEF Available
<1>5. /\ rows \in [Oids -> [IPs -> Holders]] /\ memory[n] \in [IPs -> Holders]
      /\ rows[n] \in [IPs -> Holders]
  BY MemoryType DEF Inv, Types
<1>6. CASE nets[n].type = "FIXED"
  <2>1. UpdateRows(ip, v) /\ Keep(n, [memory[n] EXCEPT ![ip] = v], next)
    BY <1>1, <1>6 DEF Lease
  <2>2. rows[n][ip] # NoRow
    BY <1>2, <1>3, <1>4, <1>6 DEF GoodLease
  <2>3. rows' = [rows EXCEPT ![n] = [rows[n] EXCEPT ![ip] = v]]
    <3>1. \A m \in Oids : m # n => rows[m][ip] = NoRow
      BY <1>1, <1>2, OnlyHere
    <3> QED BY <1>5, <2>1, <2>2, <3>1 DEF UpdateRows
  <2> QED BY <1>2, <1>4, <1>6, <2>1, <2>3, Constants, KeepSets DEF GoodLease
<1>7. CASE nets[n].type = "RANGED"
  <2>1. memory[n][ip] = NoRow
    BY <1>3, <1>4, <1>7 DEF GoodLease
  <2>2. Keep(n, [memory[n] EXCEPT ![ip] = v], next) /\ rows' = [rows EXCEPT ![n][ip] = v]
    <3>1. nets[n].type # "FIXED"
      BY <1>7
    <3>2. [memory[n] EXCEPT ![ip] = IF @ = NoRow THEN v ELSE @] = [memory[n] EXCEPT ![ip] = v]
      BY <2>1
    <3> QED BY <1>1, <3>1, <3>2 DEF Lease, ReplaceRow
  <2>3. rows' = [rows EXCEPT ![n] = [rows[n] EXCEPT ![ip] = v]]
    BY <2>2
  <2> QED BY <1>2, <1>4, <1>7, <2>2, <2>3, Constants, KeepSets DEF GoodLease
<1> QED BY <1>2, <1>6, <1>7

\* A lease is given back: to nobody, if no statement fails.
LEMMA ReleaseSets ==
  ASSUME Inv, BlocksApart, NEW n \in Oids, CanGet(n), NEW v \in VMs, NEW ip \in IPs,
         rows[n][ip] = v, memory[n][ip] = v, Release(n, ip), UNCHANGED <<scenario, lastOID, nets>>
  PROVE  \E row, held \in Holders :
           /\ Sets(n, [rows[n] EXCEPT ![ip] = row], [memory[n] EXCEPT ![ip] = held])
           /\ GoodLease(nets[n], ip, row, held)
           /\ "error" \notin scenario => row = held /\ row \notin VMs
<1>1. /\ There(n) /\ nets[n] \in Templates
      /\ Loaded(n).kind = nets[n] /\ Loaded(n).leases = memory[n]
  BY LoadedIs
<1>2. /\ nets[n].type = "FIXED" \/ nets[n].type = "RANGED"
      /\ v # NoRow /\ v # Free /\ Free # NoRow /\ Free \notin VMs /\ NoRow \notin VMs
      /\ VMs \subseteq Holders /\ Free \in Holders /\ NoRow \in Holders
  BY <1>1, Constants
<1>3. ip \in nets[n].block /\ GoodLease(nets[n], ip, v, v)
  BY <1>1, <1>2 DEF Inv, Network, GoodLease
<1>4. /\ rows \in [Oids -> [IPs -> Holders]] /\ memory[n] \in [IPs -> Holders]
      /\ rows[n] \in [IPs -> Holders]
  BY MemoryType DEF Inv, Types
<1>5. /\ [rows[n] EXCEPT ![ip] = v] = rows[n] /\ [memory[n] EXCEPT ![ip] = v] = memory[n]
      /\ [rows EXCEPT ![n] = rows[n]] = rows
  BY <1>4
<1>6. CASE nets[n].type = "FIXED"
  <2>1. /\ Keep(n, [memory[n] EXCEPT ![ip] = Free], Loaded(n).current)
        /\ UpdateRows(ip, Free) \/ ("error" \in scenario /\ UNCHANGED rows)
    BY <1>1, <1>2, <1>6 DEF Release
  <2>2. CASE UpdateRows(ip, Free)
    <3>1. \A m \in Oids : m # n => rows[m][ip] = NoRow
      BY <1>1, <1>3, OnlyHere
    <3>2. rows' = [rows EXCEPT ![n] = [rows[n] EXCEPT ![ip] = Free]]
      BY <1>2, <1>4, <2>2, <3>1 DEF UpdateRows
    <3>3. Sets(n, [rows[n] EXCEPT ![ip] = Free], [memory[n] EXCEPT ![ip] = Free])
      BY <2>1, <3>2, KeepSets
    <3>4. GoodLease(nets[n], ip, Free, Free)
      BY <1>2, <1>3, <1>6 DEF GoodLease
    <3> QED BY <1>2, <3>3, <3>4
  <2>3. CASE "error" \in scenario /\ UNCHANGED rows
    <3>1. Sets(n, [rows[n] EXCEPT ![ip] = v], [memory[n] EXCEPT ![ip] = Free])
      BY <1>5, <2>1, <2>3, KeepSets
    <3>2. GoodLease(nets[n], ip, v, Free)
      BY <1>2, <1>3, <1>6 DEF GoodLease
    <3> QED BY <1>2, <2>3, <3>1, <3>2
  <2> QED BY <2>1, <2>2, <2>3
<1>7. CASE nets[n].type = "RANGED"
  <2>1. \/ /\ Keep(n, [memory[n] EXCEPT ![ip] = NoRow], Loaded(n).current)
           /\ rows' = [rows EXCEPT ![n][ip] = NoRow]
        \/ /\ "error" \in scenario
           /\ Keep(n, memory[n], Loaded(n).current) /\ UNCHANGED rows
    <3>1. nets[n].type # "FIXED"
      BY <1>7
    <3> QED BY <1>1, <1>2, <3>1 DEF Release, ReplaceRow
  <2>2. CASE Keep(n, [memory[n] EXCEPT ![ip] = NoRow], Loaded(n).current)
             /\ rows' = [rows EXCEPT ![n][ip] = NoRow]
    <3>1. rows' = [rows EXCEPT ![n] = [rows[n] EXCEPT ![ip] = NoRow]]
      BY <2>2
    <3>2. Sets(n, [rows[n] EXCEPT ![ip] = NoRow], [memory[n] EXCEPT ![ip] = NoRow])
      BY <2>2, <3>1, KeepSets
    <3>3. GoodLease(nets[n], ip, NoRow, NoRow)
      BY <1>2, <1>7 DEF GoodLease
    <3> QED BY <1>2, <3>2, <3>3
  <2>3. CASE "error" \in scenario /\ Keep(n, memory[n], Loaded(n).current) /\ UNCHANGED rows
    <3>1. Sets(n, [rows[n] EXCEPT ![ip] = v], [memory[n] EXCEPT ![ip] = v])
      BY <1>5, <2>3, KeepSets
    <3> QED BY <1>2, <1>3, <2>3, <3>1
  <2> QED BY <2>1, <2>2, <2>3
<1> QED BY <1>2, <1>6, <1>7

-----------------------------------------------------------------------------
(* Steps                                                                   *)

\* A NIC has a vnid and an address.
LEMMA NicType ==
  ASSUME Types, NEW v \in VMs
  PROVE  /\ nics[v] \in Seq(Leased) /\ Len(nics[v]) \in Nat
         /\ \A i \in 1..Len(nics[v]) : nics[v][i].vnid \in Oids /\ nics[v][i].ip \in IPs
<1>1. nics[v] \in Seq(Leased)
  BY DEF Types
<1>2. \A i \in 1..Len(nics[v]) : nics[v][i] \in Leased
  BY <1>1
<1> QED BY <1>1, <1>2 DEF Leased

LEMMA HeldOnce ==
  ASSUME AddressHeldOnce, NEW v \in VMs, NEW w \in VMs,
         NEW i \in 1..Len(nics[v]), NEW j \in 1..Len(nics[w]),
         nics[v][i].vnid = nics[w][j].vnid, nics[v][i].ip = nics[w][j].ip
  PROVE  v = w /\ i = j
BY Zenon DEF AddressHeldOnce

\* A network is looked at, and no lease is taken.
LEMMA LookStep ==
  ASSUME Inv, NEW n \in Oids, There(n), Sets(n, rows[n], memory[n]),
         DOMAIN phase' = VMs, todo' \in [VMs -> Seq(Wanted)], nics' = nics
  PROVE  Inv'
<1>1. Types /\ (\A ip \in IPs : GoodLease(nets[n], ip, rows[n][ip], memory[n][ip]))
  BY DEF Inv, Network
<1>2. rows[n] \in [IPs -> Holders] /\ memory[n] \in [IPs -> Holders] /\ nics' \in [VMs -> Seq(Leased)]
  BY <1>1, MemoryType DEF Types
<1>3. /\ Types' /\ NamesApart' /\ \A m \in Oids : Network(m)'
      /\ \A m \in Oids : rows'[m] = rows[m] /\ memory'[m] = memory[m]
  <2>1. rows'[n] = rows[n] /\ memory'[n] = memory[n]
    BY <1>1, SetsRows
  <2>2. \A m \in Oids : m # n => rows'[m] = rows[m] /\ memory'[m] = memory[m]
    BY <1>1, SetsRows
  <2>3. Types' /\ NamesApart' /\ \A m \in Oids : Network(m)'
    BY <1>1, <1>2, SetsNetworks
  <2> QED BY <2>1, <2>2, <2>3
<1>4. UNCHANGED <<scenario, lastOID, nets>>
  BY DEF Sets
<1>5. AddressHeldOnce'
  <2>1. AddressHeldOnce
    BY DEF Inv
  <2> QED BY <2>1 DEF AddressHeldOnce
<1>6. Known'
  BY <1>3, <1>4 DEF Known, Inv, There, Holds, NicsOf
<1>7. Exact => Exact'
  BY <1>3 DEF Exact, Holds, NicsOf
<1> QED BY <1>3, <1>4, <1>5, <1>6, <1>7 DEF Inv

\* VMs keep their NICs, or lose all.
LEMMA NicsKept ==
  ASSUME AddressHeldOnce, \A v \in VMs : nics'[v] = nics[v] \/ nics'[v] = <<>>
  PROVE  AddressHeldOnce' /\ \A v \in VMs, n \in Oids, ip \in IPs : Holds(v, n, ip)' => Holds(v, n, ip)
<1>1. AddressHeldOnce'
  <2> SUFFICES ASSUME NEW v \in VMs, NEW w \in VMs,
                      NEW i \in 1..Len(nics'[v]), NEW j \in 1..Len(nics'[w]),
                      nics'[v][i].vnid = nics'[w][j].vnid /\ nics'[v][i].ip = nics'[w][j].ip
               PROVE  v = w /\ i = j
    BY DEF AddressHeldOnce
  <2>1. nics'[v] = nics[v] /\ nics'[w] = nics[w]
    OBVIOUS
  <2>2. /\ i \in 1..Len(nics[v]) /\ j \in 1..Len(nics[w])
        /\ nics[v][i].vnid = nics[w][j].vnid /\ nics[v][i].ip = nics[w][j].ip
    BY <2>1
  <2> QED BY <2>2, HeldOnce
<1>2. \A v \in VMs, n \in Oids, ip \in IPs : Holds(v, n, ip)' => Holds(v, n, ip)
  BY DEF Holds, NicsOf
<1> QED BY <1>1, <1>2

\* No network changes, and no VM loses its NICs but when something fails.
LEMMA FewerNics ==
  ASSUME Inv, UNCHANGED netVars,
         DOMAIN phase' = VMs, todo' \in [VMs -> Seq(Wanted)], nics' \in [VMs -> Seq(Leased)],
         \A v \in VMs : nics'[v] = nics[v] \/ (nics'[v] = <<>> /\ "error" \in scenario)
  PROVE  Inv'
<1>1. UNCHANGED <<scenario, lastOID, nets, rows, cached, kind, leases, current>> /\ Types
  BY DEF netVars, Inv
<1>2. Types'
  BY <1>1 DEF Types
<1>3. NamesApart' /\ (\A n \in Oids : Network(n)') /\ \A n \in Oids : memory'[n] = memory[n]
  BY <1>1 DEF Inv, NamesApart, Network, There, memory, GoodLease
<1>4. AddressHeldOnce' /\ \A v \in VMs, n \in Oids, ip \in IPs : Holds(v, n, ip)' => Holds(v, n, ip)
  BY NicsKept DEF Inv
<1>5. Known'
  BY <1>1, <1>3, <1>4 DEF Known, Inv, There
<1>6. scenario \cap {"restart", "error"} = {} /\ Exact => Exact'
  <2> SUFFICES ASSUME scenario \cap {"restart", "error"} = {}, Exact PROVE Exact'
    OBVIOUS
  <2>1. \A v \in VMs : nics'[v] = nics[v]
    OBVIOUS
  <2>2. nics' = nics
    BY <1>1, <2>1 DEF Types
  <2> QED BY <1>1, <1>3, <2>2 DEF Exact, Holds, NicsOf
<1> QED BY <1>1, <1>2, <1>3, <1>4, <1>5, <1>6 DEF Inv

\* A VM gets a NIC with an address nobody holds.
LEMMA NicAdded ==
  ASSUME Types, AddressHeldOnce, NEW v \in VMs, NEW new \in Leased,
         \A w \in VMs : ~ Holds(w, new.vnid, new.ip),
         nics' \in [VMs -> Seq(Leased)], nics'[v] = Append(nics[v], new),
         \A w \in VMs : w # v => nics'[w] = nics[w]
  PROVE  /\ AddressHeldOnce'
         /\ \A w \in VMs, m \in Oids, o \in IPs :
              Holds(w, m, o)' <=> Holds(w, m, o) \/ (w = v /\ m = new.vnid /\ o = new.ip)
<1>1. nics[v] \in Seq(Leased)
  BY NicType
<1>2. /\ Len(nics[v]) \in Nat /\ Len(nics'[v]) = Len(nics[v]) + 1
      /\ nics'[v][Len(nics[v]) + 1] = new
      /\ \A i \in 1..Len(nics[v]) : nics'[v][i] = nics[v][i]
  BY <1>1
<1>3. \A w \in VMs : \A i \in 1..Len(nics'[w]) :
        \/ i \in 1..Len(nics[w]) /\ nics'[w][i] = nics[w][i]
        \/ w = v /\ i = Len(nics[v]) + 1 /\ nics'[w][i] = new
  BY <1>2
<1>4. ASSUME NEW w \in VMs, NEW m \in Oids, NEW o \in IPs
      PROVE  Holds(w, m, o)' <=> Holds(w, m, o) \/ (w = v /\ m = new.vnid /\ o = new.ip)
  <2>1. Holds(w, m, o)' <=> \E i \in 1..Len(nics'[w]) : nics'[w][i].vnid = m /\ nics'[w][i].ip = o
    BY DEF Holds, NicsOf
  <2>2. Holds(w, m, o) <=> \E i \in 1..Len(nics[w]) : nics[w][i].vnid = m /\ nics[w][i].ip = o
    BY DEF Holds, NicsOf
  <2>3. Holds(w, m, o)' => Holds(w, m, o) \/ (w = v /\ m = new.vnid /\ o = new.ip)
    BY <1>3, <2>1, <2>2
  <2>4. Holds(w, m, o) => Holds(w, m, o)'
    <3>1. CASE w = v
      <4>1. \A i \in 1..Len(nics[v]) : i \in 1..Len(nics'[v]) /\ nics'[v][i] = nics[v][i]
        BY <1>2
      <4> QED BY <2>1, <2>2, <3>1, <4>1
    <3>2. CASE w # v
      <4>1. nics'[w] = nics[w]
        BY <3>2
      <4> QED BY <2>1, <2>2, <4>1
    <3> QED BY <3>1, <3>2
  <2>5. w = v /\ m = new.vnid /\ o = new.ip => Holds(w, m, o)'
    <3>1. Len(nics[v]) + 1 \in 1..Len(nics'[v])
      BY <1>2
    <3> QED BY <1>2, <2>1, <3>1
  <2> QED BY <2>3, <2>4, <2>5
<1>5. AddressHeldOnce'
  <2> SUFFICES ASSUME NEW w \in VMs, NEW u \in VMs,
                      NEW i \in 1..Len(nics'[w]), NEW j \in 1..Len(nics'[u]),
                      nics'[w][i].vnid = nics'[u][j].vnid /\ nics'[w][i].ip = nics'[u][j].ip
               PROVE  w = u /\ i = j
    BY DEF AddressHeldOnce
  <2>1. \A x \in VMs : \A k \in 1..Len(nics[x]) :
          ~ (nics[x][k].vnid = new.vnid /\ nics[x][k].ip = new.ip)
    BY DEF Holds, NicsOf
  <2>2. CASE /\ i \in 1..Len(nics[w]) /\ nics'[w][i] = nics[w][i]
             /\ j \in 1..Len(nics[u]) /\ nics'[u][j] = nics[u][j]
    <3>1. nics[w][i].vnid = nics[u][j].vnid /\ nics[w][i].ip = nics[u][j].ip
      BY <2>2
    <3>2. i \in 1..Len(nics[w]) /\ j \in 1..Len(nics[u]) /\ AddressHeldOnce
      BY <2>2
    <3> QED BY ONLY <3>1, <3>2, w \in VMs, u \in VMs, HeldOnce
  <2>3. CASE i \in 1..Len(nics[w]) /\ nics'[w][i] = nics[w][i] /\ nics'[u][j] = new
    BY <2>1, <2>3
  <2>4. CASE j \in 1..Len(nics[u]) /\ nics'[u][j] = nics[u][j] /\ nics'[w][i] = new
    BY <2>1, <2>4
  <2> QED BY <1>3, <2>2, <2>3, <2>4
<1> QED BY <1>4, <1>5

\* The networks when an address that is available becomes v's.
LEMMA TakenRows ==
  ASSUME Inv, BlocksApart, NEW n \in Oids, CanGet(n), NEW v \in VMs, NEW next,
         NEW ip \in nets[n].block, Available(Loaded(n), ip), Lease(n, ip, v, next),
         UNCHANGED <<scenario, lastOID, nets>>,
         DOMAIN phase' = VMs, todo' \in [VMs -> Seq(Wanted)], nics' \in [VMs -> Seq(Leased)]
  PROVE  /\ Types' /\ NamesApart' /\ \A m \in Oids : Network(m)'
         /\ rows'[n][ip] = v /\ memory'[n][ip] = v
         /\ \A m \in Oids, o \in IPs :
              ~ (m = n /\ o = ip) => rows'[m][o] = rows[m][o] /\ memory'[m][o] = memory[m][o]
<1>1. /\ ip \in IPs /\ There(n) /\ v \in Holders /\ GoodLease(nets[n], ip, v, v)
      /\ Sets(n, [rows[n] EXCEPT ![ip] = v], [memory[n] EXCEPT ![ip] = v])
  BY LeaseSets, LoadedIs, Constants
<1>2. Types /\ \A o \in IPs : GoodLease(nets[n], o, rows[n][o], memory[n][o])
  BY <1>1 DEF Inv, Network
<1>3. rows[n] \in [IPs -> Holders] /\ memory[n] \in [IPs -> Holders]
  BY <1>2, MemoryType
<1> PICK table, held : table = [rows[n] EXCEPT ![ip] = v] /\ held = [memory[n] EXCEPT ![ip] = v]
  OBVIOUS
<1>4. /\ table \in [IPs -> Holders] /\ held \in [IPs -> Holders] /\ table[ip] = v /\ held[ip] = v
      /\ \A o \in IPs : o # ip => table[o] = rows[n][o] /\ held[o] = memory[n][o]
      /\ Sets(n, table, held) /\ GoodLease(nets[n], ip, table[ip], held[ip])
  BY <1>1, <1>3
<1>5. Types' /\ NamesApart' /\ \A m \in Oids : Network(m)'
  <2>1. \A o \in IPs : GoodLease(nets[n], o, table[o], held[o])
    BY <1>2, <1>4
  <2> QED BY <1>1, <1>4, <2>1, SetsNetworks
<1>6. /\ rows'[n][ip] = v /\ memory'[n][ip] = v
      /\ \A m \in Oids, o \in IPs :
           ~ (m = n /\ o = ip) => rows'[m][o] = rows[m][o] /\ memory'[m][o] = memory[m][o]
  <2>1. n \in Oids /\ ip \in IPs /\ Types
    BY <1>1, <1>2
  <2>2. rows'[n][ip] = table[ip] /\ memory'[n][ip] = held[ip]
    BY ONLY <1>4, <2>1, OneRow
  <2>3. \A m \in Oids, o \in IPs :
          ~ (m = n /\ o = ip) => rows'[m][o] = rows[m][o] /\ memory'[m][o] = memory[m][o]
    BY ONLY <1>4, <2>1, OneRow
  <2> QED BY <1>4, <2>2, <2>3
<1> QED BY <1>5, <1>6

\* A VM gets a NIC with a lease.
LEMMA TakenStep ==
  ASSUME Inv, BlocksApart, NEW n \in Oids, CanGet(n), NEW v \in VMs, NEW next,
         NEW ip \in nets[n].block, Available(Loaded(n), ip), Lease(n, ip, v, next),
         UNCHANGED <<scenario, lastOID, nets>>,
         DOMAIN phase' = VMs, todo' \in [VMs -> Seq(Wanted)],
         NEW new \in Leased, new.vnid = n, new.ip = ip, nics' \in [VMs -> Seq(Leased)],
         nics'[v] = Append(nics[v], new), \A w \in VMs : w # v => nics'[w] = nics[w]
  PROVE  Inv'
<1>1. /\ Types' /\ NamesApart' /\ \A m \in Oids : Network(m)'
      /\ rows'[n][ip] = v /\ memory'[n][ip] = v
      /\ \A m \in Oids, o \in IPs :
           ~ (m = n /\ o = ip) => rows'[m][o] = rows[m][o] /\ memory'[m][o] = memory[m][o]
  BY TakenRows
<1>2. ip \in IPs /\ memory[n][ip] \notin VMs /\ There(n)
  BY LeaseSets, LoadedIs
<1>3. Types /\ AddressHeldOnce /\ Known /\ UNCHANGED <<scenario, lastOID, nets>>
  BY DEF Inv
<1>4. \A w \in VMs : ~ Holds(w, n, ip)
  BY <1>2, <1>3 DEF Known
<1>5. /\ AddressHeldOnce'
      /\ \A w \in VMs, m \in Oids, o \in IPs :
           Holds(w, m, o)' <=> Holds(w, m, o) \/ (w = v /\ m = n /\ o = ip)
  BY <1>3, <1>4, NicAdded
<1>6. n <= lastOID
  BY <1>2, Constants DEF Inv, Network, Types
<1>7. Known'
  <2> SUFFICES ASSUME NEW w \in VMs, NEW m \in Oids, NEW o \in IPs, Holds(w, m, o)'
               PROVE  m <= lastOID' /\ (There(m)' => rows'[m][o] = w /\ memory'[m][o] = w)
    BY DEF Known
  <2>1. There(m)' <=> There(m)
    BY <1>3 DEF There
  <2>2. CASE Holds(w, m, o)
    <3>1. /\ m <= lastOID /\ (There(m) => rows[m][o] = w /\ memory[m][o] = w)
          /\ ~ (m = n /\ o = ip)
      BY <1>3, <1>4, <2>2 DEF Known
    <3> QED BY <1>1, <1>3, <2>1, <3>1
  <2>3. CASE w = v /\ m = n /\ o = ip
    BY <1>1, <1>3, <1>6, <2>3
  <2> QED BY <1>5, <2>2, <2>3
<1>8. Exact => Exact'
  <2> SUFFICES ASSUME Exact, NEW m \in Oids
               PROVE  /\ memory'[m] = rows'[m]
                      /\ \A o \in IPs, w \in VMs : rows'[m][o] = w => Holds(w, m, o)'
    BY DEF Exact
  <2>1. \A o \in IPs : memory'[m][o] = rows'[m][o]
    <3>1. memory[m] = rows[m]
      BY DEF Exact
    <3>2. ASSUME NEW o \in IPs PROVE memory'[m][o] = rows'[m][o]
      <4>1. CASE m = n /\ o = ip
        BY <1>1, <4>1
      <4>2. CASE ~ (m = n /\ o = ip)
        <5>1. rows'[m][o] = rows[m][o] /\ memory'[m][o] = memory[m][o]
          BY <1>1, <4>2
        <5> QED BY <3>1, <5>1
      <4> QED BY <4>1, <4>2
    <3> QED BY <3>2
  <2>2. memory'[m] = rows'[m]
    BY <1>1, <2>1, Agree
  <2>3. ASSUME NEW o \in IPs, NEW w \in VMs, rows'[m][o] = w PROVE Holds(w, m, o)'
    <3>1. CASE m = n /\ o = ip
      BY <1>1, <1>5, <2>3, <3>1
    <3>2. CASE ~ (m = n /\ o = ip)
      <4>1. rows[m][o] = w
        BY <1>1, <2>3, <3>2
      <4>2. Holds(w, m, o)
        BY <4>1 DEF Exact
      <4> QED BY <1>5, <4>2
    <3> QED BY <3>1, <3>2
  <2> QED BY <2>2, <2>3
<1> QED BY <1>1, <1>3, <1>5, <1>7, <1>8 DEF Inv

LEMMA TailIs ==
  ASSUME NEW S, NEW s \in Seq(S), s # <<>>
  PROVE  /\ Len(Tail(s)) = Len(s) - 1 /\ Len(s) \in Nat /\ Len(s) # 0
         /\ \A i \in 1..(Len(s) - 1) : Tail(s)[i] = s[i + 1]
OBVIOUS

\* A VM loses its first NIC, and no other.
LEMMA FirstNicGone ==
  ASSUME Types, AddressHeldOnce, NEW v \in VMs, nics[v] # <<>>,
         nics' = [nics EXCEPT ![v] = Tail(@)]
  PROVE  /\ nics' \in [VMs -> Seq(Leased)] /\ AddressHeldOnce'
         /\ \A w \in VMs, m \in Oids, o \in IPs :
              Holds(w, m, o)' <=>
                Holds(w, m, o) /\ ~ (w = v /\ m = Head(nics[v]).vnid /\ o = Head(nics[v]).ip)
<1>1. /\ nics[v] \in Seq(Leased) /\ Len(nics[v]) \in Nat /\ 1 \in 1..Len(nics[v])
      /\ Head(nics[v]) = nics[v][1]
  <2>1. nics[v] \in Seq(Leased)
    BY NicType
  <2> QED BY <2>1
<1>2. nics' \in [VMs -> Seq(Leased)]
  BY <1>1 DEF Types
<1>3. /\ \A w \in VMs : w # v => nics'[w] = nics[w]
      /\ nics'[v] = Tail(nics[v])
  BY DEF Types
<1>4. /\ Len(nics'[v]) = Len(nics[v]) - 1
      /\ \A i \in 1..(Len(nics[v]) - 1) : nics'[v][i] = nics[v][i + 1]
  BY <1>1, <1>3, TailIs
<1>5. /\ \A i \in 1..Len(nics'[v]) : i + 1 \in 1..Len(nics[v]) /\ nics'[v][i] = nics[v][i + 1]
      /\ \A i \in 1..Len(nics[v]) : i # 1 => i - 1 \in 1..Len(nics'[v]) /\ nics'[v][i - 1] = nics[v][i]
  <2>1. ASSUME NEW i \in 1..Len(nics[v]), i # 1
        PROVE  i - 1 \in 1..Len(nics'[v]) /\ nics'[v][i - 1] = nics[v][i]
    <3>1. i - 1 \in 1..(Len(nics[v]) - 1) /\ (i - 1) + 1 = i
      BY <1>1, <2>1
    <3> QED BY <1>4, <3>1
  <2> QED BY <1>1, <1>4, <2>1
<1>6. AddressHeldOnce'
  <2> SUFFICES ASSUME NEW w \in VMs, NEW u \in VMs,
                      NEW i \in 1..Len(nics'[w]), NEW j \in 1..Len(nics'[u]),
                      nics'[w][i].vnid = nics'[u][j].vnid /\ nics'[w][i].ip = nics'[u][j].ip
               PROVE  w = u /\ i = j
    BY DEF AddressHeldOnce
  <2> DEFINE k == IF w = v THEN i + 1 ELSE i
             l == IF u = v THEN j + 1 ELSE j
  <2>1. k \in 1..Len(nics[w]) /\ nics'[w][i] = nics[w][k]
    BY <1>3, <1>5
  <2>2. l \in 1..Len(nics[u]) /\ nics'[u][j] = nics[u][l]
    BY <1>3, <1>5
  <2>3. w = u /\ k = l
    <3> HIDE DEF k, l
    <3>1. nics[w][k].vnid = nics[u][l].vnid /\ nics[w][k].ip = nics[u][l].ip
      BY <2>1, <2>2
    <3> QED BY <2>1, <2>2, <3>1, HeldOnce
  <2> QED BY <2>3
<1>7. ASSUME NEW w \in VMs, NEW m \in Oids, NEW o \in IPs
      PROVE  Holds(w, m, o)' <=>
               Holds(w, m, o) /\ ~ (w = v /\ m = Head(nics[v]).vnid /\ o = Head(nics[v]).ip)
  <2>1. Holds(w, m, o)' <=> \E i \in 1..Len(nics'[w]) : nics'[w][i].vnid = m /\ nics'[w][i].ip = o
    BY DEF Holds, NicsOf
  <2>2. Holds(w, m, o) <=> \E i \in 1..Len(nics[w]) : nics[w][i].vnid = m /\ nics[w][i].ip = o
    BY DEF Holds, NicsOf
  <2>3. CASE w # v
    BY <1>3, <2>1, <2>2, <2>3
  <2>4. CASE w = v
    <3>1. ASSUME NEW i \in 1..Len(nics'[v]), nics'[v][i].vnid = m, nics'[v][i].ip = o
          PROVE  ~ (m = nics[v][1].vnid /\ o = nics[v][1].ip) /\ Holds(w, m, o)
      <4>1. i + 1 \in 1..Len(nics[v]) /\ nics[v][i + 1].vnid = m /\ nics[v][i + 1].ip = o
        BY <1>5, <3>1
      <4>2. i + 1 # 1
        OBVIOUS
      <4>3. ~ (m = nics[v][1].vnid /\ o = nics[v][1].ip)
        BY <1>1, <4>1, <4>2, HeldOnce
      <4> QED BY <2>2, <2>4, <4>1, <4>3
    <3>2. ASSUME NEW i \in 1..Len(nics[v]), nics[v][i].vnid = m, nics[v][i].ip = o,
                 ~ (m = nics[v][1].vnid /\ o = nics[v][1].ip)
          PROVE  Holds(w, m, o)'
      <4>1. i # 1
        BY <3>2
      <4>2. i - 1 \in 1..Len(nics'[v]) /\ nics'[v][i - 1].vnid = m /\ nics'[v][i - 1].ip = o
        BY <1>5, <3>2, <4>1
      <4> QED BY <2>1, <2>4, <4>2
    <3> QED BY <1>1, <2>1, <2>2, <2>4, <3>1, <3>2
  <2> QED BY <2>3, <2>4
<1> QED BY <1>2, <1>6, <1>7

\* One turn of release_network_leases.
LEMMA ReleaseStep ==
  ASSUME Inv, BlocksApart, NEW v \in VMs, ReleaseNic(v)
  PROVE  Inv'
<1> DEFINE n == Head(nics[v]).vnid
           ip == Head(nics[v]).ip
<1>1. /\ nics[v] # <<>> /\ nics' = [nics EXCEPT ![v] = Tail(@)]
      /\ UNCHANGED <<scenario, lastOID, nets, phase, todo>>
      /\ IF CanGet(n) THEN Release(n, ip) ELSE UNCHANGED <<rows, cached, kind, leases, current>>
  BY DEF ReleaseNic
<1>2. Types /\ AddressHeldOnce /\ Known /\ NamesApart
  BY DEF Inv
<1>3. /\ nics' \in [VMs -> Seq(Leased)] /\ AddressHeldOnce'
      /\ \A w \in VMs, m \in Oids, o \in IPs :
           Holds(w, m, o)' <=> Holds(w, m, o) /\ ~ (w = v /\ m = n /\ o = ip)
  BY <1>1, <1>2, FirstNicGone
<1>4. n \in Oids /\ ip \in IPs /\ Holds(v, n, ip)
  <2>1. 1 \in 1..Len(nics[v]) /\ Head(nics[v]) = nics[v][1]
    <3>1. nics[v] \in Seq(Leased)
      BY <1>2, NicType
    <3> QED BY <1>1, <3>1
  <2> QED BY <1>2, <2>1, NicType DEF Holds, NicsOf
<1>5. DOMAIN phase' = VMs /\ todo' \in [VMs -> Seq(Wanted)]
  BY <1>1, <1>2 DEF Types
<1> PICK net, a : net = n /\ a = ip
  OBVIOUS
<1> SUFFICES ASSUME net \in Oids, a \in IPs, Holds(v, net, a),
                    \A w \in VMs, m \in Oids, o \in IPs :
                      Holds(w, m, o)' <=> Holds(w, m, o) /\ ~ (w = v /\ m = net /\ o = a),
                    IF CanGet(net) THEN Release(net, a)
                    ELSE UNCHANGED <<rows, cached, kind, leases, current>>
             PROVE  Inv'
  BY <1>1, <1>3, <1>4
<1> HIDE DEF n, ip
<1>6. CASE CanGet(net)
  <2>1. There(net) /\ rows[net][a] = v /\ memory[net][a] = v
    BY <1>2, <1>6, LoadedIs DEF Known
  <2>2. PICK row, held \in Holders :
          /\ Sets(net, [rows[net] EXCEPT ![a] = row], [memory[net] EXCEPT ![a] = held])
          /\ GoodLease(nets[net], a, row, held)
          /\ "error" \notin scenario => row = held /\ row \notin VMs
    BY <1>1, <1>6, <2>1, ReleaseSets
  <2>5. /\ Types' /\ NamesApart' /\ \A m \in Oids : Network(m)'
        /\ rows'[net][a] = row /\ memory'[net][a] = held
        /\ \A m \in Oids, o \in IPs :
             ~ (m = net /\ o = a) => rows'[m][o] = rows[m][o] /\ memory'[m][o] = memory[m][o]
    <3> PICK table, lease : table = [rows[net] EXCEPT ![a] = row] /\ lease = [memory[net] EXCEPT ![a] = held]
      OBVIOUS
    <3>1. rows[net] \in [IPs -> Holders] /\ memory[net] \in [IPs -> Holders]
      BY <1>2, MemoryType
    <3>2. /\ table \in [IPs -> Holders] /\ lease \in [IPs -> Holders]
          /\ table[a] = row /\ lease[a] = held
          /\ \A o \in IPs : o # a => table[o] = rows[net][o] /\ lease[o] = memory[net][o]
          /\ Sets(net, table, lease) /\ GoodLease(nets[net], a, table[a], lease[a])
      BY <2>2, <3>1
    <3>3. Types' /\ NamesApart' /\ \A m \in Oids : Network(m)'
      <4>1. \A o \in IPs : GoodLease(nets[net], o, rows[net][o], memory[net][o])
        BY <2>1 DEF Inv, Network
      <4>2. \A o \in IPs : GoodLease(nets[net], o, table[o], lease[o])
        BY <3>2, <4>1
      <4>3. /\ Inv /\ net \in Oids /\ There(net) /\ Sets(net, table, lease)
            /\ table \in [IPs -> Holders] /\ lease \in [IPs -> Holders]
            /\ DOMAIN phase' = VMs /\ todo' \in [VMs -> Seq(Wanted)] /\ nics' \in [VMs -> Seq(Leased)]
        BY <1>3, <1>5, <2>1, <3>2
      <4> QED BY ONLY <4>2, <4>3, SetsNetworks
    <3>4. /\ rows'[net][a] = row /\ memory'[net][a] = held
          /\ \A m \in Oids, o \in IPs :
               ~ (m = net /\ o = a) => rows'[m][o] = rows[m][o] /\ memory'[m][o] = memory[m][o]
      BY <1>2, <3>2, OneRow
    <3> QED BY <3>3, <3>4
  <2>6. Known'
    <3> SUFFICES ASSUME NEW w \in VMs, NEW m \in Oids, NEW o \in IPs, Holds(w, m, o)'
                 PROVE  m <= lastOID' /\ (There(m)' => rows'[m][o] = w /\ memory'[m][o] = w)
      BY DEF Known
    <3>1. Holds(w, m, o) /\ ~ (w = v /\ m = net /\ o = a)
      OBVIOUS
    <3>2. m <= lastOID /\ (There(m) => rows[m][o] = w /\ memory[m][o] = w)
      BY <1>2, <3>1 DEF Known
    <3>3. ~ (m = net /\ o = a)
      BY <2>1, <3>1, <3>2
    <3> QED BY <1>1, <2>5, <3>2, <3>3 DEF There
  <2>7. scenario \cap {"restart", "error"} = {} /\ Exact => Exact'
    <3> SUFFICES ASSUME scenario \cap {"restart", "error"} = {}, Exact, NEW m \in Oids
                 PROVE  /\ memory'[m] = rows'[m]
                        /\ \A o \in IPs, w \in VMs : rows'[m][o] = w => Holds(w, m, o)'
      BY DEF Exact
    <3>1. row = held /\ row \notin VMs
      BY <2>2
    <3>2. memory'[m] = rows'[m]
      BY <2>5, <3>1, Agree DEF Exact
    <3> QED BY <2>5, <3>1, <3>2 DEF Exact
  <2> QED BY <1>1, <1>3, <2>5, <2>6, <2>7 DEF Inv
<1>7. CASE ~ CanGet(net)
  <2>1. UNCHANGED <<scenario, lastOID, nets, rows, cached, kind, leases, current>>
    BY <1>1, <1>7
  <2>2. ~ There(net)
    BY <1>7 DEF Inv, Types, Network, CanGet, There
  <2>3. Types'
    BY <1>2, <1>3, <1>5, <2>1 DEF Types
  <2>4. NamesApart' /\ (\A m \in Oids : Network(m)') /\ \A m \in Oids : memory'[m] = memory[m]
    BY <2>1 DEF Inv, NamesApart, Network, There, memory, GoodLease
  <2>5. Known'
    BY <1>2, <2>1, <2>4 DEF Known, There
  <2>6. Exact => Exact'
    <3>1. rows[net][a] \notin VMs
      BY <2>2, Constants DEF Inv, Network, None
    <3> QED BY <2>1, <2>4, <3>1 DEF Exact
  <2> QED BY <1>3, <2>1, <2>3, <2>4, <2>5, <2>6 DEF Inv
<1> QED BY <1>6, <1>7

LEMMA UndoIs ==
  ASSUME Types, NEW v \in VMs, Undo(v)
  PROVE  /\ DOMAIN phase' = VMs /\ todo' \in [VMs -> Seq(Wanted)]
         /\ nics' = nics /\ nics' \in [VMs -> Seq(Leased)]
<1>1. <<>> \in Seq(Wanted)
  OBVIOUS
<1> QED BY <1>1 DEF Types, Undo

\* A network is asked for a lease, and has none to give.
LEMMA RefusedStep ==
  ASSUME Inv, NEW v \in VMs, NEW n \in Oids, CanGet(n), NEW ip, NoLease(n, ip), Undo(v),
         UNCHANGED <<scenario, lastOID, nets, rows>>
  PROVE  Inv'
<1>1. There(n) /\ Loaded(n).leases = memory[n] /\ Types
  BY LoadedIs DEF Inv
<1>2. PICK next : Keep(n, memory[n], next)
  BY <1>1 DEF NoLease, NothingFree
<1>3. rows' = [rows EXCEPT ![n] = rows[n]]
  BY <1>1 DEF Types
<1>4. Sets(n, rows[n], memory[n])
  BY <1>2, <1>3, KeepSets
<1> QED BY <1>1, <1>4, LookStep, UndoIs

\* One turn of get_network_leases.
LEMMA TakeLeaseStep ==
  ASSUME Inv, BlocksApart, NEW v \in VMs, TakeLease(v)
  PROVE  Inv'
<1> DEFINE nic == Head(todo[v])
<1>1. Types /\ nic \in Wanted /\ Tail(todo[v]) \in Seq(Wanted)
  <2>1. todo[v] \in Seq(Wanted) /\ todo[v] # <<>>
    BY DEF Inv, Types, TakeLease
  <2> QED BY <2>1 DEF Inv
<1>2. PICK n \in Oids :
        \/ ~ CanGet(n) /\ Undo(v) /\ UNCHANGED netVars
        \/ CanGet(n) /\ NoLease(n, nic.ip) /\ Undo(v) /\ UNCHANGED <<scenario, lastOID, nets, rows>>
        \/ /\ CanGet(n)
           /\ \E ip \in IPs :
                /\ \/ nic.ip = NoIp /\ ip = FirstFree(n) /\ GetLease(n, v)
                   \/ nic.ip = ip /\ SetLease(n, ip, v)
                /\ nics' = [nics EXCEPT ![v] =
                     Append(@, [network |-> nic.network, vnid |-> n, ip |-> ip])]
           /\ todo' = [todo EXCEPT ![v] = Tail(@)]
           /\ UNCHANGED <<scenario, lastOID, nets, phase>>
  BY DEF TakeLease, Named
<1> HIDE DEF nic
<1>3. CASE ~ CanGet(n) /\ Undo(v) /\ UNCHANGED netVars
  BY <1>1, <1>3, UndoIs, FewerNics
<1>4. CASE CanGet(n) /\ NoLease(n, nic.ip) /\ Undo(v) /\ UNCHANGED <<scenario, lastOID, nets, rows>>
  BY <1>4, RefusedStep
<1>5. ASSUME CanGet(n), NEW ip \in IPs,
             \/ nic.ip = NoIp /\ ip = FirstFree(n) /\ GetLease(n, v)
             \/ nic.ip = ip /\ SetLease(n, ip, v),
             nics' = [nics EXCEPT ![v] =
               Append(@, [network |-> nic.network, vnid |-> n, ip |-> ip])],
             todo' = [todo EXCEPT ![v] = Tail(@)], UNCHANGED <<scenario, lastOID, nets, phase>>
      PROVE  Inv'
  <2>1. nets[n] \in Templates /\ Loaded(n).kind = nets[n] /\ nets[n].ips \subseteq nets[n].block
    BY <1>5, LoadedIs, Constants
  <2>2. /\ ip \in nets[n].block /\ Available(Loaded(n), ip)
        /\ \E next : Lease(n, ip, v, next)
    <3>1. CASE ip = FirstFree(n) /\ GetLease(n, v)
      BY <1>5, <2>1, <3>1, FirstFreeIs DEF GetLease
    <3>2. CASE SetLease(n, ip, v)
      BY <2>1, <3>2 DEF SetLease, MayHave
    <3> QED BY <1>5, <3>1, <3>2
  <2>3. PICK next : Lease(n, ip, v, next)
    BY <2>2
  <2>4. DOMAIN phase' = VMs /\ todo' \in [VMs -> Seq(Wanted)]
    BY <1>1, <1>5 DEF Types
  <2>5. PICK new : new = [network |-> nic.network, vnid |-> n, ip |-> ip]
    OBVIOUS
  <2>6. new \in Leased /\ new.vnid = n /\ new.ip = ip
    BY <1>1, <2>5 DEF Leased
  <2>7. /\ nics' \in [VMs -> Seq(Leased)] /\ nics'[v] = Append(nics[v], new)
        /\ \A w \in VMs : w # v => nics'[w] = nics[w]
    BY <1>1, <1>5, <2>5, <2>6, NicType DEF Types
  <2> QED BY <1>5, <2>2, <2>3, <2>4, <2>6, <2>7, TakenStep
<1> QED BY <1>2, <1>3, <1>4, <1>5

-----------------------------------------------------------------------------
(* Networks are created, dropped, evicted and loaded again                 *)

LEMMA CreateStep ==
  ASSUME Inv, NothingReplaced, NEW t \in Templates, CreateNetwork(t)
  PROVE  Inv'
<1> DEFINE n == lastOID + 1
<1>1. /\ n \in Oids /\ lastOID' = n
      /\ {o \in Oids : nets[o] # NoNet /\ nets[o].name = t.name} = {} \/ "reuse" \in scenario
      /\ nets' = [o \in Oids |-> IF o = n THEN t
                                 ELSE IF o \in {m \in Oids : nets[m] # NoNet /\ nets[m].name = t.name}
                                 THEN NoNet ELSE nets[o]]
      /\ rows' = [rows EXCEPT ![n] =
                    [ip \in IPs |-> IF t.type = "FIXED" /\ ip \in t.ips THEN Free ELSE @[ip]]]
      /\ UNCHANGED <<scenario, cached, kind, leases, current, phase, todo, nics>>
  BY DEF CreateNetwork, vmVars
<1>2. Types /\ NamesApart /\ Known /\ AddressHeldOnce /\ \A m \in Oids : Network(m)
  BY DEF Inv
<1>3. lastOID \in Int /\ Oids \subseteq Nat
  BY <1>2, Constants DEF Types
<1> PICK new : new = n
  OBVIOUS
<1>4. new \in Oids /\ new > lastOID /\ lastOID' = new /\ new = lastOID + 1
  BY <1>1, <1>3
<1>5. ~ There(new) /\ cached[new] = "no" /\ rows[new] = None
  BY <1>2, <1>4 DEF Network
<1>6. \A m \in Oids : There(m) => nets[m].name # t.name
  <2>1. "reuse" \notin scenario
    BY <1>2 DEF NothingReplaced, Types
  <2> QED BY <1>1, <2>1 DEF There
<1>7. nets'[new] = t /\ \A m \in Oids : m # new => nets'[m] = nets[m]
  <2>1. {m \in Oids : nets[m] # NoNet /\ nets[m].name = t.name} = {}
    BY <1>6 DEF There
  <2> QED BY <1>1, <1>4, <2>1
<1>8. /\ \A ip \in IPs : rows'[new][ip] = IF t.type = "FIXED" /\ ip \in t.ips THEN Free ELSE NoRow
      /\ \A m \in Oids : m # new => rows'[m] = rows[m]
      /\ \A m \in Oids : memory'[m] = IF m = new THEN rows'[m] ELSE memory[m]
  <2>1. /\ rows'[new] = [ip \in IPs |-> IF t.type = "FIXED" /\ ip \in t.ips THEN Free ELSE rows[new][ip]]
        /\ \A m \in Oids : m # new => rows'[m] = rows[m]
    BY <1>1, <1>2, <1>4 DEF Types
  <2>2. \A ip \in IPs : rows[new][ip] = NoRow
    BY <1>5 DEF None
  <2>3. \A m \in Oids : memory'[m] = IF m = new THEN rows'[m] ELSE memory[m]
    BY <1>1, <1>5, <2>1 DEF memory
  <2> QED BY <2>1, <2>2, <2>3
<1> HIDE DEF n
<1>9. Types'
  <2>1. nets' \in [Oids -> Templates \cup {NoNet}]
    <3>1. \A m \in Oids : nets'[m] \in Templates \cup {NoNet}
      BY <1>2, <1>7 DEF Types
    <3> QED BY <1>1, <3>1
  <2>2. rows' \in [Oids -> [IPs -> Holders]]
    <3>1. [ip \in IPs |-> IF t.type = "FIXED" /\ ip \in t.ips THEN Free ELSE rows[new][ip]]
            \in [IPs -> Holders]
      BY <1>2, <1>4, Constants DEF Types
    <3> QED BY <1>1, <1>2, <1>4, <3>1 DEF Types
  <2> QED BY <1>1, <1>2, <1>4, <2>1, <2>2 DEF Types
<1>10. NamesApart'
  <2> SUFFICES ASSUME NEW k \in Oids, NEW m \in Oids,
                      nets'[k] # NoNet, nets'[m] # NoNet, nets'[k].name = nets'[m].name
               PROVE  k = m
    BY DEF NamesApart, There
  <2> QED BY <1>2, <1>6, <1>7 DEF NamesApart, There
<1>11. ASSUME NEW m \in Oids PROVE Network(m)'
  <2>1. CASE m = new
    <3>1. \A ip \in IPs : GoodLease(t, ip, rows'[new][ip], memory'[new][ip])
      <4>1. t.ips \subseteq t.block /\ (t.type = "FIXED" \/ t.type = "RANGED") /\ Free # NoRow
        BY Constants
      <4>2. \A ip \in IPs : memory'[new][ip] = rows'[new][ip]
        BY <1>4, <1>8
      <4>3. \A ip \in IPs : /\ t.type = "FIXED" => rows'[new][ip] = IF ip \in t.ips THEN Free ELSE NoRow
                            /\ t.type = "RANGED" => rows'[new][ip] = NoRow
        BY <1>8
      <4> QED BY <4>1, <4>2, <4>3 DEF GoodLease
    <3>2. nets'[m] = t /\ t # NoNet /\ cached'[m] = "no" /\ ~ (m > lastOID')
      BY <1>1, <1>3, <1>4, <1>5, <1>7, <2>1, Constants
    <3>3. \A ip \in IPs : GoodLease(nets'[m], ip, rows'[m][ip], memory'[m][ip])
      BY <2>1, <3>1, <3>2
    <3> QED BY <3>2, <3>3 DEF Network, There
  <2>2. CASE m # new
    <3>1. Network(m) /\ nets'[m] = nets[m] /\ rows'[m] = rows[m] /\ memory'[m] = memory[m]
      BY <1>2, <1>7, <1>8, <2>2
    <3>2. (m > lastOID' => m > lastOID) /\ (m <= lastOID' => m <= lastOID)
      BY <1>3, <1>4, <2>2
    <3> QED BY <1>1, <3>1, <3>2 DEF Network, There
  <2> QED BY <2>1, <2>2
<1>12. AddressHeldOnce' /\ \A v \in VMs, m \in Oids, o \in IPs : Holds(v, m, o)' <=> Holds(v, m, o)
  BY <1>1, <1>2, NicsKept DEF Holds, NicsOf
<1>13. Known'
  <2> SUFFICES ASSUME NEW w \in VMs, NEW m \in Oids, NEW o \in IPs, Holds(w, m, o)'
               PROVE  m <= lastOID' /\ (There(m)' => rows'[m][o] = w /\ memory'[m][o] = w)
    BY DEF Known
  <2>1. m <= lastOID /\ (There(m) => rows[m][o] = w /\ memory[m][o] = w)
    BY <1>2, <1>12 DEF Known
  <2>2. m <= lastOID' /\ m # new
    BY <1>3, <1>4, <2>1
  <2> QED BY <1>7, <1>8, <2>1, <2>2 DEF There
<1>14. Exact => Exact'
  <2> SUFFICES ASSUME Exact, NEW m \in Oids
               PROVE  /\ memory'[m] = rows'[m]
                      /\ \A o \in IPs, w \in VMs : rows'[m][o] = w => Holds(w, m, o)'
    BY DEF Exact
  <2>1. CASE m = new
    <3>1. \A o \in IPs : rows'[m][o] \notin VMs
      BY <1>8, <2>1, Constants
    <3> QED BY <1>8, <2>1, <3>1
  <2>2. CASE m # new
    BY <1>8, <1>12, <2>2 DEF Exact
  <2> QED BY <2>1, <2>2
<1> QED BY <1>1, <1>9, <1>10, <1>11, <1>12, <1>13, <1>14 DEF Inv

\* What is true of a network with its object is true of it without: the table
\* is what it is loaded from.
LEMMA RowsAlone ==
  ASSUME Inv, NEW n \in Oids, There(n)
  PROVE  \A ip \in IPs : GoodLease(nets[n], ip, rows[n][ip], rows[n][ip])
BY DEF Inv, Network, GoodLease

LEMMA EvictStep ==
  ASSUME Inv, NEW n \in Oids, Evict(n)
  PROVE  Inv'
<1>1. /\ cached' = [cached EXCEPT ![n] = "no"] /\ cached[n] # "no"
      /\ kind' = [m \in Oids |-> IF m \in {n} THEN NoNet ELSE kind[m]]
      /\ leases' = [m \in Oids |-> IF m \in {n} THEN None ELSE leases[m]]
      /\ current' = [m \in Oids |-> IF m \in {n} THEN 0 ELSE current[m]]
      /\ UNCHANGED <<scenario, lastOID, nets, rows, phase, todo, nics>>
  BY DEF Evict, Unloaded, vmVars
<1>2. Types /\ NamesApart /\ Known /\ AddressHeldOnce /\ \A m \in Oids : Network(m)
  BY DEF Inv
<1>3. None \in [IPs -> Holders]
  BY Constants DEF None
<1>4. Types'
  <2>1. leases' \in [Oids -> [IPs -> Holders]]
    BY <1>1, <1>2, <1>3 DEF Types
  <2>2. cached' \in [Oids -> {"no", "valid", "dropped"}]
    BY <1>1, <1>2 DEF Types
  <2> QED BY <1>1, <1>2, <2>1, <2>2 DEF Types
<1>5. /\ cached'[n] = "no" /\ memory'[n] = rows[n]
      /\ \A m \in Oids : m # n => /\ cached'[m] = cached[m] /\ kind'[m] = kind[m]
                                  /\ memory'[m] = memory[m]
  BY <1>1, <1>2 DEF Types, memory
<1>6. NamesApart' /\ AddressHeldOnce' /\ \A m \in Oids : There(m)' <=> There(m)
  BY <1>1, <1>2 DEF NamesApart, AddressHeldOnce, There
<1>7. ASSUME NEW m \in Oids PROVE Network(m)'
  <2>1. CASE m = n
    <3>1. There(n) => \A ip \in IPs : GoodLease(nets[n], ip, rows[n][ip], memory'[n][ip])
      BY <1>5, RowsAlone
    <3> QED BY <1>1, <1>2, <1>5, <2>1, <3>1 DEF Network, There
  <2>2. CASE m # n
    BY <1>1, <1>2, <1>5, <2>2 DEF Network, There
  <2> QED BY <2>1, <2>2
<1>8. \A v \in VMs, m \in Oids, o \in IPs : Holds(v, m, o)' <=> Holds(v, m, o)
  BY <1>1 DEF Holds, NicsOf
<1>9. Known'
  BY <1>1, <1>2, <1>5, <1>6, <1>8 DEF Known
<1>10. Exact => Exact'
  BY <1>1, <1>5, <1>8 DEF Exact
<1> QED BY <1>1, <1>4, <1>6, <1>7, <1>9, <1>10 DEF Inv

LEMMA DropStep ==
  ASSUME Inv, NEW n \in Oids, DropNetwork(n)
  PROVE  Inv'
<1>1. /\ "drop" \in scenario /\ CanGet(n)
      /\ nets' = [nets EXCEPT ![n] = NoNet]
      /\ rows' = [rows EXCEPT ![n] = None]
      /\ cached' = [cached EXCEPT ![n] = "dropped"]
      /\ kind' = [m \in Oids |-> IF m \in {n} THEN NoNet ELSE kind[m]]
      /\ leases' = [m \in Oids |-> IF m \in {n} THEN None ELSE leases[m]]
      /\ current' = [m \in Oids |-> IF m \in {n} THEN 0 ELSE current[m]]
      /\ UNCHANGED <<scenario, lastOID, phase, todo, nics>>
  BY DEF DropNetwork, Unloaded, vmVars
<1>2. Types /\ NamesApart /\ Known /\ AddressHeldOnce /\ \A m \in Oids : Network(m)
  BY DEF Inv
<1>3. None \in [IPs -> Holders] /\ \A ip \in IPs : None[ip] \notin VMs
  BY Constants DEF None
<1>4. Types'
  <2>1. leases' \in [Oids -> [IPs -> Holders]] /\ rows' \in [Oids -> [IPs -> Holders]]
    BY <1>1, <1>2, <1>3 DEF Types
  <2>2. cached' \in [Oids -> {"no", "valid", "dropped"}] /\ nets' \in [Oids -> Templates \cup {NoNet}]
    BY <1>1, <1>2 DEF Types
  <2> QED BY <1>1, <1>2, <2>1, <2>2 DEF Types
<1>5. /\ cached'[n] = "dropped" /\ nets'[n] = NoNet /\ rows'[n] = None /\ memory'[n] = None
      /\ \A m \in Oids : m # n => /\ cached'[m] = cached[m] /\ kind'[m] = kind[m] /\ nets'[m] = nets[m]
                                  /\ rows'[m] = rows[m] /\ memory'[m] = memory[m]
  BY <1>1, <1>2 DEF Types, memory
<1>6. NamesApart' /\ AddressHeldOnce'
  <2>1. \A m \in Oids : There(m)' => There(m) /\ nets'[m] = nets[m]
    BY <1>5 DEF There
  <2>2. NamesApart'
    BY <1>2, <2>1 DEF NamesApart
  <2>3. AddressHeldOnce'
    BY <1>1, <1>2, NicsKept
  <2> QED BY <2>2, <2>3
<1>7. ASSUME NEW m \in Oids PROVE Network(m)'
  <2>1. CASE m = n
    <3>1. ~ (n > lastOID)
      BY <1>1, <1>2, LoadedIs DEF Network
    <3> QED BY <1>1, <1>5, <2>1, <3>1 DEF Network, There
  <2>2. CASE m # n
    BY <1>1, <1>2, <1>5, <2>2 DEF Network, There
  <2> QED BY <2>1, <2>2
<1>8. \A v \in VMs, m \in Oids, o \in IPs : Holds(v, m, o)' <=> Holds(v, m, o)
  BY <1>1 DEF Holds, NicsOf
<1>9. Known'
  <2> SUFFICES ASSUME NEW w \in VMs, NEW m \in Oids, NEW o \in IPs, Holds(w, m, o)'
               PROVE  m <= lastOID' /\ (There(m)' => rows'[m][o] = w /\ memory'[m][o] = w)
    BY DEF Known
  <2>1. m <= lastOID /\ (There(m) => rows[m][o] = w /\ memory[m][o] = w)
    BY <1>2, <1>8 DEF Known
  <2> QED BY <1>1, <1>5, <2>1 DEF There
<1>10. Exact => Exact'
  <2> SUFFICES ASSUME Exact, NEW m \in Oids
               PROVE  /\ memory'[m] = rows'[m]
                      /\ \A o \in IPs, w \in VMs : rows'[m][o] = w => Holds(w, m, o)'
    BY DEF Exact
  <2>1. CASE m = n
    BY <1>3, <1>5, <2>1
  <2>2. CASE m # n
    BY <1>5, <1>8, <2>2 DEF Exact
  <2> QED BY <2>1, <2>2
<1> QED BY <1>1, <1>4, <1>6, <1>7, <1>9, <1>10 DEF Inv

\* The last oid is read from the table, which has every network there was.
LEMMA RestartStep ==
  ASSUME Inv, NothingReplaced, Restart
  PROVE  Inv'
<1> DEFINE known == {n \in Oids : nets[n] # NoNet}
<1>1. /\ "restart" \in scenario
      /\ lastOID' = IF known = {} THEN -1 ELSE CHOOSE n \in known : \A o \in known : o <= n
      /\ cached' = [n \in Oids |-> "no"]
      /\ kind' = [n \in Oids |-> NoNet]
      /\ leases' = [n \in Oids |-> None]
      /\ current' = [n \in Oids |-> 0]
      /\ DOMAIN phase' = VMs
      /\ todo' = [v \in VMs |-> <<>>]
      /\ nics' = [v \in VMs |-> IF phase[v] = "live" THEN nics[v] ELSE <<>>]
      /\ UNCHANGED <<scenario, nets, rows>>
  BY DEF Restart, Unloaded
<1>2. Types /\ NamesApart /\ Known /\ AddressHeldOnce /\ \A m \in Oids : Network(m)
  BY DEF Inv
<1>3. known = {n \in Oids : n <= lastOID}
  <2>1. "drop" \notin scenario
    BY <1>1, <1>2 DEF NothingReplaced, Types
  <2>2. \A n \in Oids : There(n) <=> n <= lastOID
    <3>1. \A n \in Oids : n > lastOID \/ n <= lastOID
      BY <1>2, Constants DEF Types
    <3>2. \A n \in Oids : n <= lastOID => ~ (n > lastOID)
      BY <1>2, Constants DEF Types
    <3> QED BY <1>2, <2>1, <3>1, <3>2 DEF Network
  <2> QED BY <2>2 DEF There
<1>4. lastOID' = lastOID
  <2>1. Oids \subseteq Nat /\ lastOID \in Oids \cup {-1}
    BY <1>2, Constants DEF Types
  <2>2. CASE lastOID = -1
    <3>1. \A n \in Oids : ~ (n <= lastOID)
      BY <2>1, <2>2
    <3>2. known = {}
      BY <1>3, <3>1
    <3> HIDE DEF known
    <3> QED BY <1>1, <2>2, <3>2
  <2>3. CASE lastOID \in Oids
    <3>1. lastOID \in known /\ \A o \in known : o <= lastOID
      BY <1>3, <2>1, <2>3
    <3>2. known # {} /\ \A n \in known : n \in Int
      BY <1>3, <2>1, <3>1
    <3> HIDE DEF known
    <3>3. lastOID' \in known /\ \A o \in known : o <= lastOID'
      BY <1>1, <3>1, <3>2
    <3>4. lastOID' <= lastOID /\ lastOID <= lastOID' /\ lastOID \in Int /\ lastOID' \in Int
      BY <3>1, <3>2, <3>3
    <3> QED BY <3>4
  <2> QED BY <2>1, <2>2, <2>3
<1> HIDE DEF known
<1>5. None \in [IPs -> Holders] /\ <<>> \in Seq(Wanted) /\ <<>> \in Seq(Leased)
  BY Constants DEF None
<1>6. Types'
  <2>1. leases' \in [Oids -> [IPs -> Holders]]
    BY <1>1, <1>5
  <2>2. nics' \in [VMs -> Seq(Leased)]
    BY <1>1, <1>2, <1>5 DEF Types
  <2> QED BY <1>1, <1>2, <1>4, <1>5, <2>1, <2>2 DEF Types
<1>7. \A n \in Oids : /\ (There(n)' <=> There(n)) /\ nets'[n] = nets[n] /\ rows'[n] = rows[n]
                      /\ cached'[n] = "no" /\ memory'[n] = rows[n]
  BY <1>1 DEF There, memory
<1>8. NamesApart'
  BY <1>2, <1>7 DEF NamesApart
<1>9. ASSUME NEW n \in Oids PROVE Network(n)'
  <2>1. There(n) => \A ip \in IPs : GoodLease(nets[n], ip, rows[n][ip], rows[n][ip])
    BY RowsAlone
  <2> QED BY <1>1, <1>2, <1>4, <1>7, <2>1 DEF Network
<1>10. AddressHeldOnce' /\ \A v \in VMs, n \in Oids, ip \in IPs : Holds(v, n, ip)' => Holds(v, n, ip)
  BY <1>1, <1>2, NicsKept
<1>11. Known'
  <2> SUFFICES ASSUME NEW w \in VMs, NEW m \in Oids, NEW o \in IPs, Holds(w, m, o)'
               PROVE  m <= lastOID' /\ (There(m)' => rows'[m][o] = w /\ memory'[m][o] = w)
    BY DEF Known
  <2>1. m <= lastOID /\ (There(m) => rows[m][o] = w /\ memory[m][o] = w)
    BY <1>2, <1>10 DEF Known
  <2> QED BY <1>4, <1>7, <2>1
<1> QED BY <1>1, <1>6, <1>8, <1>9, <1>10, <1>11 DEF Inv

-----------------------------------------------------------------------------
(* The invariant holds                                                     *)

LEMMA InitInv ==
  ASSUME Init
  PROVE  Inv
<1>1. /\ scenario \in Scenarios /\ lastOID = -1
      /\ nets = [n \in Oids |-> NoNet] /\ kind = nets
      /\ rows = [n \in Oids |-> None] /\ leases = rows
      /\ cached = [n \in Oids |-> "no"] /\ current = [n \in Oids |-> 0]
      /\ phase = [v \in VMs |-> "none"]
      /\ todo = [v \in VMs |-> <<>>] /\ nics = todo
  BY DEF Init
<1>2. None \in [IPs -> Holders] /\ \A ip \in IPs : None[ip] \notin VMs
  BY Constants DEF None
<1>3. Types
  <2>1. <<>> \in Seq(Wanted) /\ <<>> \in Seq(Leased)
    OBVIOUS
  <2> QED BY <1>1, <1>2, <2>1 DEF Types
<1>4. NamesApart /\ AddressHeldOnce /\ Known
  <2>1. \A v \in VMs : nics[v] = <<>>
    BY <1>1
  <2> QED BY <1>1, <2>1 DEF NamesApart, There, AddressHeldOnce, Known, Holds, NicsOf
<1>5. \A n \in Oids : Network(n)
  <2>1. \A n \in Oids : n > lastOID /\ ~ (n <= lastOID)
    BY <1>1, Constants
  <2>2. \A n \in Oids : ~ There(n) /\ cached[n] = "no" /\ rows[n] = None
    BY <1>1 DEF There
  <2> QED BY <2>1, <2>2 DEF Network
<1>6. Exact
  BY <1>1, <1>2 DEF Exact, memory
<1> QED BY <1>3, <1>4, <1>5, <1>6 DEF Inv

\* A VM begins, is inserted, ends, or has released all.
LEMMA VmStep ==
  ASSUME Inv, NEW v \in VMs,
         (\E list \in NicLists : AllocateVm(v, list)) \/ Insert(v) \/ EndVm(v) \/ Released(v)
  PROVE  Inv'
<1>1. Types /\ (\A list \in NicLists : list \in Seq(Wanted)) /\ <<>> \in Seq(Wanted) /\ <<>> \in Seq(Leased)
  BY Constants DEF Inv
<1>2. UNCHANGED netVars
  BY DEF AllocateVm, Insert, EndVm, Released
<1>3. DOMAIN phase' = VMs
  BY <1>1 DEF Types, AllocateVm, Insert, EndVm, Released, Undo
<1>4. todo' \in [VMs -> Seq(Wanted)]
  BY <1>1 DEF Types, AllocateVm, Insert, EndVm, Released, Undo
<1>5. nics' = nics \/ (nics' = [nics EXCEPT ![v] = <<>>] /\ "error" \in scenario)
  BY DEF AllocateVm, Insert, EndVm, Released, Undo
<1>6. /\ nics' \in [VMs -> Seq(Leased)]
      /\ \A w \in VMs : nics'[w] = nics[w] \/ (nics'[w] = <<>> /\ "error" \in scenario)
  BY <1>1, <1>5 DEF Types
<1> QED BY <1>2, <1>3, <1>4, <1>6, FewerNics

LEMMA NextInv ==
  ASSUME Inv, NothingReplaced, BlocksApart, [Next]_vars
  PROVE  Inv'
<1>1. ASSUME NEW t \in Templates, CreateNetwork(t) PROVE Inv'
  BY <1>1, CreateStep
<1>2. ASSUME NEW n \in Oids, DropNetwork(n) PROVE Inv'
  BY <1>2, DropStep
<1>3. ASSUME NEW n \in Oids, Evict(n) PROVE Inv'
  BY <1>3, EvictStep
<1>4. ASSUME NEW v \in VMs, NEW list \in NicLists, AllocateVm(v, list) PROVE Inv'
  BY <1>4, VmStep
<1>5. ASSUME NEW v \in VMs, Insert(v) \/ EndVm(v) \/ Released(v) PROVE Inv'
  BY <1>5, VmStep
<1>6. ASSUME NEW v \in VMs, TakeLease(v) PROVE Inv'
  BY <1>6, TakeLeaseStep
<1>7. ASSUME NEW v \in VMs, ReleaseNic(v) PROVE Inv'
  BY <1>7, ReleaseStep
<1>8. CASE Restart
  BY <1>8, RestartStep
<1>9. CASE UNCHANGED vars
  <2>1. UNCHANGED <<netVars, phase, todo, nics>>
    BY <1>9 DEF vars, vmVars
  <2> QED BY <2>1, FewerNics DEF Inv, Types
<1> QED BY <1>1, <1>2, <1>3, <1>4, <1>5, <1>6, <1>7, <1>8, <1>9 DEF Next

LEMMA SpecInv ==
  ASSUME NothingReplaced, BlocksApart
  PROVE  Spec => []Inv
<1>1. Init => Inv
  BY InitInv
<1>2. Inv /\ [Next]_vars => Inv'
  BY NextInv
<1> QED BY <1>1, <1>2, PTL DEF Spec

\* A network that refuses a VM any address has given them all to VMs.
LEMMA Refused ==
  ASSUME Inv, NEW v \in VMs, NEW n \in Oids, TakeLease(v), scenario \cap {"restart", "error"} = {},
         phase[v] = "allocating", phase'[v] = "undoing", Head(todo[v]).ip = NoIp,
         There(n), nets[n].name = Head(todo[v]).network
  PROVE  \A ip \in nets[n].ips : \E w \in VMs : Holds(w, n, ip)
<1>1. Types /\ NamesApart /\ Network(n) /\ Exact
  BY DEF Inv
<1>2. CanGet(n) /\ nets[n] \in Templates
  <2>1. cached[n] \in {"no", "valid", "dropped"} /\ cached[n] # "dropped" /\ nets[n] \in Templates
    BY <1>1 DEF Types, Network, There
  <2> QED BY <2>1 DEF CanGet, There
<1>3. Named(Head(todo[v]).network) = {n}
  <2>1. {m \in Oids : nets[m] # NoNet /\ nets[m].name = Head(todo[v]).network} = {n}
    BY <1>1 DEF NamesApart, There
  <2> QED BY <2>1 DEF Named
<1>4. NoLease(n, NoIp)
  <2>1. phase' # phase
    OBVIOUS
  <2> QED BY <1>2, <1>3, <2>1 DEF TakeLease
<1>5. FirstFree(n) = NoIp
  BY <1>4 DEF NoLease
<1>6. \A ip \in nets[n].ips : ~ Available(Loaded(n), ip)
  BY <1>2, <1>5, FirstFreeIs
<1>7. ASSUME NEW ip \in nets[n].ips PROVE \E w \in VMs : Holds(w, n, ip)
  <2>1. /\ ip \in IPs /\ (nets[n].type = "FIXED" \/ nets[n].type = "RANGED")
        /\ Loaded(n).kind = nets[n] /\ Loaded(n).leases = memory[n]
    BY <1>2, Constants, LoadedIs
  <2>2. memory[n][ip] # Free /\ ~ (memory[n][ip] = NoRow /\ nets[n].type = "RANGED")
    BY <1>6, <2>1 DEF Available
  <2>3. nets[n].type = "FIXED" => memory[n][ip] # NoRow
    BY <1>1, <2>1 DEF Network, GoodLease
  <2>4. memory[n][ip] \in Holders
    BY <1>1, <2>1, MemoryType
  <2>5. memory[n][ip] \in VMs
    BY <2>1, <2>2, <2>3, <2>4 DEF Holders
  <2>6. rows[n][ip] \in VMs
    BY <1>1, <2>5 DEF Exact
  <2> QED BY <1>1, <2>1, <2>6 DEF Exact
<1> QED BY <1>7

-----------------------------------------------------------------------------
(* Theorems                                                                *)

\* No address of a network is leased to two NICs, of one VM or of two: what
\* the get of the leases promises, however allocations, releases, errors,
\* evictions and restarts follow each other (VirtualNetworkPool.cc,
\* FixedLeases.cc, RangedLeases.cc).
THEOREM AddressesHeldOnce ==
  ASSUME NothingReplaced, BlocksApart
  PROVE  Spec => []AddressHeldOnce
<1>1. Inv => AddressHeldOnce
  BY DEF Inv
<1> QED BY <1>1, SpecInv, PTL

\* A network that is there knows who has its addresses, in the table and in
\* memory, whenever its object was evicted and loaded again.
THEOREM LeasesStay ==
  ASSUME NothingReplaced, BlocksApart
  PROVE  Spec => []LeasesRemembered
<1>1. Inv => LeasesRemembered
  <2> SUFFICES ASSUME Inv, NEW v \in VMs, NEW nic \in NicsOf(v), nets[nic.vnid] # NoNet
               PROVE  /\ rows[nic.vnid][nic.ip] = v
                      /\ cached[nic.vnid] = "valid" => leases[nic.vnid][nic.ip] = v
    BY DEF LeasesRemembered
  <2>1. PICK i \in 1..Len(nics[v]) : nic = nics[v][i]
    BY DEF NicsOf
  <2>2. nic.vnid \in Oids /\ nic.ip \in IPs /\ Holds(v, nic.vnid, nic.ip)
    BY <2>1, NicType DEF Inv, Holds
  <2>3. rows[nic.vnid][nic.ip] = v /\ memory[nic.vnid][nic.ip] = v
    BY <2>2 DEF Inv, Known, There
  <2> QED BY <2>2, <2>3 DEF memory
<1> QED BY <1>1, SpecInv, PTL

\* A VM that asks a network for any address is only refused when VMs hold all
\* of them: failed allocations, releases, evictions and the cursors of the
\* search lose none.
THEOREM FullWhenRefused ==
  ASSUME NothingReplaced, BlocksApart
  PROVE  Spec => RefusedOnlyWhenFull
<1> DEFINE Full ==
      \A v \in VMs : \A n \in Oids :
        /\ scenario \cap {"restart", "error"} = {}
        /\ phase[v] = "allocating" /\ phase'[v] = "undoing"
        /\ todo[v] # <<>> /\ Head(todo[v]).ip = NoIp
        /\ nets[n] # NoNet /\ nets[n].name = Head(todo[v]).network
        => \A ip \in nets[n].ips : \E w \in VMs : Holds(w, n, ip)
<1>1. Inv /\ [Next]_vars => [Full]_vars
  <2> SUFFICES ASSUME Inv, Next, NEW v \in VMs, NEW n \in Oids,
                      scenario \cap {"restart", "error"} = {},
                      phase[v] = "allocating", phase'[v] = "undoing",
                      todo[v] # <<>>, Head(todo[v]).ip = NoIp,
                      nets[n] # NoNet, nets[n].name = Head(todo[v]).network
               PROVE  \A ip \in nets[n].ips : \E w \in VMs : Holds(w, n, ip)
    OBVIOUS
  <2>1. phase' # phase /\ "restart" \notin scenario /\ DOMAIN phase = VMs
    BY DEF Inv, Types
  <2>2. ~ Restart /\ ~ \E t \in Templates : CreateNetwork(t)
    BY <2>1 DEF Restart, CreateNetwork, vmVars
  <2>3. ~ \E m \in Oids : DropNetwork(m) \/ Evict(m)
    BY <2>1 DEF DropNetwork, Evict, vmVars
  <2>4. PICK w \in VMs : \/ \E list \in NicLists : AllocateVm(w, list)
                         \/ TakeLease(w) \/ Insert(w) \/ EndVm(w)
                         \/ ReleaseNic(w) \/ Released(w)
    BY <2>2, <2>3 DEF Next
  <2>5. TakeLease(w) /\ w = v
    <3>1. ~ \E list \in NicLists : AllocateVm(w, list)
      BY <2>1 DEF AllocateVm
    <3>2. ~ Insert(w)
      BY <2>1 DEF Insert, Undo
    <3>3. ~ EndVm(w) /\ ~ ReleaseNic(w) /\ ~ Released(w)
      BY <2>1 DEF EndVm, ReleaseNic, Released
    <3>4. TakeLease(w) => w = v
      BY <2>1 DEF TakeLease, Undo
    <3> QED BY <2>4, <3>1, <3>2, <3>3, <3>4
  <2> QED BY <2>5, Refused DEF There
<1> HIDE DEF Full
<1>2. Spec => [][Full]_vars
  BY <1>1, SpecInv, PTL DEF Spec
<1> QED BY <1>2 DEF Full, RefusedOnlyWhenFull

=============================================================================
