-------------------------- MODULE InformationProofs --------------------------
(***************************************************************************)
(* Theorems about InformationManager: who enables and disables hosts; that *)
(* a driver that is started again is given the pipe the listener waits on; *)
(* and that a host that is MONITORING has been asked for.                  *)
(***************************************************************************)
EXTENDS InformationManager, FiniteSetTheorems, SequenceTheorems, WellFoundedInduction, TLAPS

HostsKept == state \in [Hosts -> HostStates \cup {NONE}]

\* No host changes sides.
SidesKept == \A h \in Hosts : isEnabled(state[h]) = isEnabled(state'[h])

LEMMA TouchKeeps ==
    ASSUME NEW s \in HostStates \cup {NONE}, NEW success \in BOOLEAN
    PROVE  Touch(s, success) \in HostStates \cup {NONE} /\ isEnabled(Touch(s, success)) = isEnabled(s)
BY DEF Touch, isEnabled, HostStates, NONE

LEMMA DiscoverKeeps == HostsKept /\ Discover => HostsKept' /\ SidesKept
BY DEF Discover, HostsKept, SidesKept

\* A host that is given up, asked for or has no driver was enabled, and is.
LEMMA LookAtKeeps == HostsKept /\ LookAt => HostsKept' /\ SidesKept
<1> SUFFICES ASSUME HostsKept, LookAt PROVE HostsKept' /\ SidesKept
  OBVIOUS
<1>1. \/ UNCHANGED state
      \/ \E s \in {"INIT", "MONITORING", "ERROR"} :
           state' = [state EXCEPT ![Next1] = s] /\ isEnabled(state[Next1])
  <2>1. CASE Expires(Next1) /\ Sets(Next1, "INIT")
    BY <2>1 DEF Expires, Sets, isEnabled, NONE
  <2>2. CASE Due(Next1) /\ Monitor(Next1)
    BY <2>2 DEF Due, Monitor, Sets, isEnabled
  <2>3. CASE UNCHANGED state
    BY <2>3
  <2> QED
    BY <2>1, <2>2, <2>3 DEF LookAt
<1>2. \A s \in {"INIT", "MONITORING", "ERROR"} : isEnabled(s) /\ s \in HostStates
  BY DEF isEnabled, HostStates, NONE
<1>3. CASE UNCHANGED state
  BY <1>3 DEF HostsKept, SidesKept
<1>4. ASSUME NEW s \in {"INIT", "MONITORING", "ERROR"},
             state' = [state EXCEPT ![Next1] = s], isEnabled(state[Next1])
      PROVE  HostsKept' /\ SidesKept
  <2>1. HostsKept'
    BY <1>2, <1>4 DEF HostsKept
  <2>2. ASSUME NEW h \in Hosts PROVE isEnabled(state[h]) = isEnabled(state'[h])
    <3>1. CASE h = Next1
      BY <1>2, <1>4, <3>1 DEF HostsKept, isEnabled
    <3>2. CASE h # Next1
      BY <1>4, <3>2 DEF HostsKept
    <3> QED
      BY <3>1, <3>2
  <2> QED
    BY <2>1, <2>2 DEF SidesKept
<1> QED
  BY <1>1, <1>3, <1>4

LEMMA ListenKeeps == HostsKept /\ Listen => HostsKept' /\ SidesKept
<1> SUFFICES ASSUME HostsKept, Listen PROVE HostsKept' /\ SidesKept
  OBVIOUS
<1>1. CASE UNCHANGED state
  BY <1>1 DEF HostsKept, SidesKept
<1>2. ASSUME NEW h \in Hosts, NEW success \in BOOLEAN, Protocol(h, success)
      PROVE  HostsKept' /\ SidesKept
  <2>1. state' = [state EXCEPT ![h] = Touch(state[h], success)]
    BY <1>2 DEF Protocol, Sets
  <2>2. Touch(state[h], success) \in HostStates \cup {NONE}
    BY TouchKeeps DEF HostsKept
  <2>3. isEnabled(Touch(state[h], success)) = isEnabled(state[h])
    BY TouchKeeps DEF HostsKept
  <2> QED
    BY <2>1, <2>2, <2>3 DEF HostsKept, SidesKept
<1> QED
  BY <1>1, <1>2 DEF Listen, hostVars

LEMMA UsersKeep == HostsKept /\ Users => HostsKept'
BY DEF HostsKept, Users, HostEnable, HostDelete, Sets, HostStates, NONE

LEMMA NextKeeps == HostsKept /\ [Next]_vars => HostsKept' /\ (SidesKept \/ Users)
<1> SUFFICES ASSUME HostsKept, [Next]_vars PROVE HostsKept' /\ (SidesKept \/ Users)
  OBVIOUS
<1>1. CASE Discover
  BY <1>1, DiscoverKeeps
<1>2. CASE LookAt
  BY <1>2, LookAtKeeps
<1>3. CASE Listen
  BY <1>3, ListenKeeps
<1>4. CASE UNCHANGED hostVars
  BY <1>4 DEF hostVars, HostsKept, SidesKept
<1>5. CASE Users
  BY <1>5, UsersKeep
<1> QED
  BY <1>1, <1>2, <1>3, <1>4, <1>5 DEF Next, vars

\* Whatever drivers answer, however late, and however often they end: only a
\* user takes a host out of DISABLED or into it (Host::touch).
THEOREM OnlyUsersEver == Spec => OnlyUsersEnable
<1>1. Init => HostsKept
  BY DEF Init, HostsKept, HostStates
<1>2. HostsKept /\ [Next]_vars => HostsKept'
  BY NextKeeps
<1>3. HostsKept /\ [Next]_vars =>
        [\A h \in Hosts : isEnabled(state[h]) # isEnabled(state'[h]) => Users]_vars
  BY NextKeeps DEF SidesKept
<1> QED
  BY <1>1, <1>2, <1>3, PTL DEF Spec, OnlyUsersEnable

-----------------------------------------------------------------------------
(* The descriptors.  Those of a driver are in use and nobody else's; a driver *)
(* that is started is given the second and the third that are free, one      *)
(* above the other.                                                          *)

N == Cardinality(Drivers)

LEMMA Least ==
    ASSUME NEW F, F \subseteq Nat, F # {}
    PROVE  \E x \in F : \A y \in F : x <= y
<1>1. PICK x \in F : \A y \in F : ~ (<<y, x>> \in OpToRel(<, Nat))
  BY NatLessThanWellFounded, WFMin
<1>2. \A y \in F : ~ (y < x)
  BY <1>1 DEF OpToRel
<1> QED
  BY <1>2

Below(F, d) == {e \in F : e < d}

LEMMA Ranked ==
    ASSUME NEW F, F \subseteq Nat, IsFiniteSet(F), Cardinality(F) >= 3, NEW i \in 1..3
    PROVE  \E d \in F : Cardinality(Below(F, d)) = i - 1
<1>1. F # {}
  BY FS_EmptySet
<1>2. PICK x \in F : \A y \in F : x <= y
  BY <1>1, Least
<1>3. IsFiniteSet(F \ {x}) /\ Cardinality(F \ {x}) = Cardinality(F) - 1
  BY FS_RemoveElement
<1>4. Cardinality(F) \in Nat
  BY FS_CardinalityType
<1>5. F \ {x} # {}
  BY <1>3, <1>4, FS_EmptySet
<1>6. PICK y \in F \ {x} : \A z \in F \ {x} : y <= z
  BY <1>5, Least
<1>7. IsFiniteSet((F \ {x}) \ {y}) /\ Cardinality((F \ {x}) \ {y}) = Cardinality(F) - 2
  <2>1. /\ IsFiniteSet((F \ {x}) \ {y})
        /\ Cardinality((F \ {x}) \ {y}) = Cardinality(F \ {x}) - 1
    BY <1>3, <1>6, FS_RemoveElement
  <2> QED
    BY <1>3, <1>4, <2>1
<1>8. (F \ {x}) \ {y} # {}
  BY <1>4, <1>7, FS_EmptySet
<1>9. PICK z \in (F \ {x}) \ {y} : \A w \in (F \ {x}) \ {y} : z <= w
  BY <1>8, Least
<1>10. Below(F, x) = {}
  <2>1. \A e \in F : ~ (e < x)
    BY <1>2
  <2> QED
    BY <2>1 DEF Below
<1>11. Below(F, y) = {x}
  <2>1. \A e \in F : e < y <=> e = x
    BY <1>2, <1>6
  <2> QED
    BY <2>1 DEF Below
<1>12. Below(F, z) = {x} \cup {y}
  <2>1. \A e \in F : e < z <=> e = x \/ e = y
    BY <1>2, <1>6, <1>9
  <2> QED
    BY <1>6, <2>1 DEF Below
<1>13. Cardinality({x} \cup {y}) = 2
  <2>1. IsFiniteSet({x}) /\ Cardinality({x}) = 1 /\ y \notin {x}
    BY <1>6, FS_Singleton
  <2>2. Cardinality({x} \cup {y}) = Cardinality({x}) + 1
    BY <2>1, FS_AddElement
  <2> QED
    BY <2>1, <2>2
<1>14. Cardinality(Below(F, x)) = 0 /\ Cardinality(Below(F, y)) = 1 /\ Cardinality(Below(F, z)) = 2
  BY <1>10, <1>11, <1>12, <1>13, FS_EmptySet, FS_Singleton
<1>15. i = 1 \/ i = 2 \/ i = 3
  OBVIOUS
<1> QED
  BY <1>14, <1>15

\* Who has fewer below it is below.
LEMMA RankOrders ==
    ASSUME NEW F, F \subseteq Nat, IsFiniteSet(F), NEW a \in F, NEW b \in F,
           Cardinality(Below(F, a)) < Cardinality(Below(F, b))
    PROVE  a < b
<1> SUFFICES ASSUME ~ (a < b) PROVE FALSE
  OBVIOUS
<1>1. Below(F, b) \subseteq Below(F, a)
  <2>1. \A e \in F : e < b => e < a
    OBVIOUS
  <2> QED
    BY <2>1 DEF Below
<1>2. Below(F, a) \subseteq F
  BY DEF Below
<1>3. IsFiniteSet(Below(F, a))
  BY <1>2, FS_Subset
<1>4. /\ Cardinality(Below(F, b)) <= Cardinality(Below(F, a))
      /\ Cardinality(Below(F, a)) \in Nat /\ Cardinality(Below(F, b)) \in Nat
  BY <1>1, <1>3, FS_Subset, FS_CardinalityType
<1> QED
  BY <1>4

\* And the other way round, so that two with as many below them are one.
LEMMA RankGrows ==
    ASSUME NEW F, F \subseteq Nat, IsFiniteSet(F), NEW a \in F, NEW b \in F, a < b
    PROVE  Cardinality(Below(F, a)) < Cardinality(Below(F, b))
<1>1. Below(F, a) \cup {a} \subseteq Below(F, b) /\ a \notin Below(F, a) /\ Below(F, b) \subseteq F
  <2>1. \A e \in F : e < a => e < b
    OBVIOUS
  <2>2. ~ (a < a)
    OBVIOUS
  <2> QED
    BY <2>1, <2>2 DEF Below
<1>2. IsFiniteSet(Below(F, b)) /\ Below(F, a) \subseteq Below(F, b)
  BY <1>1, FS_Subset
<1>3. IsFiniteSet(Below(F, a))
  BY <1>2, FS_Subset
<1>4. Cardinality(Below(F, a) \cup {a}) = Cardinality(Below(F, a)) + 1
  BY <1>1, <1>3, FS_AddElement
<1>5. Cardinality(Below(F, a) \cup {a}) <= Cardinality(Below(F, b))
  BY <1>1, <1>2, FS_Subset
<1> QED
  BY <1>2, <1>3, <1>4, <1>5, FS_CardinalityType

LEMMA Numbers ==
    /\ N \in Nat /\ MaxOthers \in Nat /\ IsFiniteSet(Drivers)
    /\ Descriptors = 0..(2 * N + 3 + MaxOthers)
    /\ IsFiniteSet(Descriptors) /\ Cardinality(Descriptors) = 2 * N + 4 + MaxOthers
<1>1. N \in Nat /\ MaxOthers \in Nat /\ IsFiniteSet(Drivers)
  BY MadAssumption, FS_CardinalityType DEF MadAssumption, N
<1>2. Descriptors = 0..(2 * N + 3 + MaxOthers)
  BY DEF Descriptors, N
<1>3. \A n \in Int : IsFiniteSet(0..n) /\ Cardinality(0..n) = IF 0 > n THEN 0 ELSE n - 0 + 1
  BY FS_Interval
<1>4. 2 * N + 3 + MaxOthers \in Nat
  BY <1>1
<1> QED
  BY <1>1, <1>2, <1>3, <1>4

LEMMA Positions == IsFiniteSet(1..N) /\ Cardinality(1..N) = N
<1>1. N \in Nat
  BY Numbers
<1>2. \A n \in Int : IsFiniteSet(1..n) /\ Cardinality(1..n) = IF 1 > n THEN 0 ELSE n - 1 + 1
  BY FS_Interval
<1>3. IsFiniteSet(1..N) /\ Cardinality(1..N) = IF 1 > N THEN 0 ELSE N - 1 + 1
  BY <1>1, <1>2
<1> QED
  BY <1>1, <1>3

LEMMA LowestFreeIs ==
    ASSUME NEW set, Cardinality(Descriptors \ set) >= 3, NEW i \in 1..3
    PROVE  /\ LowestFree(set, i) \in Descriptors \ set
           /\ Cardinality(Below(Descriptors \ set, LowestFree(set, i))) = i - 1
<1> DEFINE F == Descriptors \ set
<1>1. F \subseteq Nat /\ IsFiniteSet(F)
  BY Numbers, FS_Subset
<1>2. \E d \in F : Cardinality(Below(F, d)) = i - 1
  BY <1>1, Ranked
<1>3. \E d \in Descriptors : d \notin set /\ Cardinality({e \in F : e < d}) = i - 1
  BY <1>2 DEF Below
<1> QED
  BY <1>3 DEF LowestFree, Below

\* The descriptors of a driver that is started.
LEMMA Started ==
    ASSUME NEW set, Cardinality(Descriptors \ set) >= 3
    PROVE  /\ StartWr(set) \in Descriptors \ set /\ StartRd(set) \in Descriptors \ set
           /\ StartWr(set) # 0 /\ StartWr(set) < StartRd(set)
<1> DEFINE F == Descriptors \ set
<1>1. F \subseteq Nat /\ IsFiniteSet(F)
  BY Numbers, FS_Subset
<1>2. StartWr(set) \in F /\ Cardinality(Below(F, StartWr(set))) = 1
  BY LowestFreeIs DEF StartWr
<1>3. StartRd(set) \in F /\ Cardinality(Below(F, StartRd(set))) = 2
  BY LowestFreeIs DEF StartRd
<1>4. StartWr(set) < StartRd(set)
  BY <1>1, <1>2, <1>3, RankOrders
<1>5. StartWr(set) # 0
  <2>1. Below(F, 0) = {}
    BY <1>1 DEF Below
  <2> QED
    BY <1>2, <2>1, FS_EmptySet
<1> QED
  BY <1>2, <1>3, <1>4, <1>5

\* The drivers that are there.
Mads == {mads[i] : i \in DOMAIN mads}

Loaded ==
    /\ mads \in Seq(Drivers) /\ IsInjective(mads)
    /\ rd \in [Drivers -> Nat] /\ wr \in [Drivers -> Nat]
    /\ fds = [i \in 1..N |-> 2 * i]

Opened ==
    /\ others \subseteq used /\ used \subseteq Descriptors
    /\ Cardinality(others) <= MaxOthers
    /\ \A x \in used \ others : \E d \in Drivers : x = rd[d] \/ x = wr[d]

Owned ==
    /\ \A d \in Mads : /\ wr[d] # 0 /\ wr[d] < rd[d]
                       /\ rd[d] \in used \ others /\ wr[d] \in used \ others
    /\ \A d, e \in Mads : d # e => rd[d] # rd[e] /\ wr[d] # wr[e] /\ rd[d] # wr[e]

PipesInv == Loaded /\ Opened /\ Owned

\* There is always a descriptor left for a file and the pipes of a driver.
LEMMA Room ==
    ASSUME Loaded, Opened, NEW set \in SUBSET used
    PROVE  Cardinality(Descriptors \ set) >= 3
<1> DEFINE R == {rd[d] : d \in Drivers}
           W == {wr[d] : d \in Drivers}
<1>1. IsFiniteSet(R) /\ Cardinality(R) <= N /\ IsFiniteSet(W) /\ Cardinality(W) <= N
  <2>1. rd \in Surjection(Drivers, R)
    BY DEF Loaded, Surjection
  <2>2. wr \in Surjection(Drivers, W)
    BY DEF Loaded, Surjection
  <2> HIDE DEF R, W
  <2> QED
    BY <2>1, <2>2, Numbers, FS_Surjection DEF N
<1>2. used \subseteq Descriptors /\ others \subseteq used /\ Cardinality(others) <= MaxOthers
  BY DEF Opened
<1>3. set \subseteq others \cup (R \cup W)
  BY DEF Opened
<1> HIDE DEF R, W
<1>4. IsFiniteSet(others) /\ IsFiniteSet(set)
  BY <1>2, Numbers, FS_Subset
<1>5. IsFiniteSet(R \cup W) /\ Cardinality(R \cup W) <= 2 * N
  <2>1. /\ IsFiniteSet(R \cup W) /\ IsFiniteSet(R \cap W)
        /\ Cardinality(R \cup W) = Cardinality(R) + Cardinality(W) - Cardinality(R \cap W)
    BY <1>1, FS_Union, FS_Intersection
  <2>2. /\ Cardinality(R) \in Nat /\ Cardinality(W) \in Nat
        /\ Cardinality(R \cap W) \in Nat
    BY <1>1, <2>1, FS_CardinalityType
  <2> QED
    BY <1>1, <2>1, <2>2, Numbers
<1>6. /\ IsFiniteSet(others \cup (R \cup W))
      /\ Cardinality(others \cup (R \cup W)) <= MaxOthers + 2 * N
  <2>1. /\ IsFiniteSet(others \cup (R \cup W)) /\ IsFiniteSet(others \cap (R \cup W))
        /\ Cardinality(others \cup (R \cup W)) =
             Cardinality(others) + Cardinality(R \cup W) - Cardinality(others \cap (R \cup W))
    BY <1>4, <1>5, FS_Union, FS_Intersection
  <2>2. /\ Cardinality(others) \in Nat /\ Cardinality(R \cup W) \in Nat
        /\ Cardinality(others \cap (R \cup W)) \in Nat
    BY <1>4, <1>5, <2>1, FS_CardinalityType
  <2> QED
    BY <1>2, <1>5, <2>1, <2>2, Numbers
<1>7. Cardinality(set) \in Nat /\ Cardinality(set) <= MaxOthers + 2 * N
  <2>1. Cardinality(set) <= Cardinality(others \cup (R \cup W))
    BY <1>3, <1>6, FS_Subset
  <2> QED
    BY <1>4, <1>6, <2>1, FS_CardinalityType, Numbers
<1>8. Cardinality(Descriptors) = Cardinality(set) + Cardinality(Descriptors \ set)
  <2>1. IsFiniteSet(Descriptors \ set)
    BY Numbers, FS_Subset
  <2>2. Descriptors = set \cup (Descriptors \ set) /\ set \cap (Descriptors \ set) = {}
    BY <1>2
  <2>3. Cardinality(Descriptors) =
          Cardinality(set) + Cardinality(Descriptors \ set) - Cardinality({})
    BY <1>4, <2>1, <2>2, FS_Union
  <2>4. Cardinality(Descriptors \ set) \in Nat
    BY <2>1, FS_CardinalityType
  <2> QED
    BY <1>7, <2>3, <2>4, FS_EmptySet
<1>9. Cardinality(Descriptors \ set) \in Nat
  BY Numbers, FS_Subset, FS_CardinalityType
<1> QED
  BY <1>7, <1>8, <1>9, Numbers

LEMMA InitPipes == MadInit => PipesInv /\ FdsArePipes
<1> SUFFICES ASSUME MadInit PROVE PipesInv /\ FdsArePipes
  OBVIOUS
<1>1. PICK ds \in SetToSeqs(Drivers) :
        LET at(d) == CHOOSE i \in DOMAIN ds : ds[i] = d
        IN  /\ mads = ds
            /\ wr = [d \in Drivers |-> 2 * at(d) - 1]
            /\ rd = [d \in Drivers |-> 2 * at(d)]
            /\ fds = [i \in DOMAIN ds |-> rd[ds[i]]]
            /\ used = 1..(2 * Len(ds))
            /\ others = {}
  BY DEF MadInit
<1> DEFINE at(d) == CHOOSE i \in DOMAIN ds : ds[i] = d
<1>2. /\ ds \in [1..N -> Drivers]
      /\ \A i, j \in 1..N : i # j => ds[i] # ds[j]
  BY DEF SetToSeqs, N
<1>3. ds \in Injection(1..N, Drivers) /\ IsFiniteSet(1..N) /\ Cardinality(1..N) = N
  <2>1. DOMAIN ds = 1..N
    BY <1>2
  <2>2. \A a, b \in DOMAIN ds : ds[a] = ds[b] => a = b
    BY <1>2, <2>1
  <2>3. ds \in Injection(1..N, Drivers)
    BY <1>2, <2>2 DEF Injection, IsInjective
  <2> QED
    BY <2>3, Positions
<1>4. ds \in Surjection(1..N, Drivers)
  BY <1>3, Numbers, FS_Injection DEF N
<1>5. \A d \in Drivers : at(d) \in 1..N /\ ds[at(d)] = d
  BY <1>2, <1>4 DEF Surjection
<1>6. \A i \in 1..N : at(ds[i]) = i
  BY <1>2, <1>5
<1>7. ds \in Seq(Drivers) /\ Len(ds) = N /\ DOMAIN ds = 1..N
  BY <1>2, Numbers, IsASeq
<1>8. /\ mads = ds /\ others = {} /\ used = 1..(2 * N)
      /\ wr = [d \in Drivers |-> 2 * at(d) - 1]
      /\ rd = [d \in Drivers |-> 2 * at(d)]
      /\ fds = [i \in DOMAIN ds |-> rd[ds[i]]]
  BY <1>1, <1>7
<1> HIDE DEF at
<1>9. fds = [i \in 1..N |-> 2 * i]
  BY <1>2, <1>6, <1>7, <1>8
<1>10. rd \in [Drivers -> Nat] /\ wr \in [Drivers -> Nat]
  BY <1>5, <1>8, Numbers
<1>11. Loaded
  BY <1>2, <1>7, <1>8, <1>9, <1>10 DEF Loaded, IsInjective
<1>12. Opened
  <2>1. Cardinality(others) <= MaxOthers
    BY <1>8, FS_EmptySet, Numbers
  <2>2. used \subseteq Descriptors
    BY <1>8, Numbers
  <2>3. ASSUME NEW x \in used PROVE \E d \in Drivers : x = rd[d] \/ x = wr[d]
    <3>1. PICK k \in 1..N : x = 2 * k \/ x = 2 * k - 1
      <4>1. x \in 1..(2 * N)
        BY <1>8
      <4> DEFINE k == (x + 1) \div 2
      <4>2. k \in 1..N /\ (x = 2 * k \/ x = 2 * k - 1)
        BY <4>1, Numbers
      <4> QED
        BY <4>2
    <3>2. ds[k] \in Drivers /\ rd[ds[k]] = 2 * k /\ wr[ds[k]] = 2 * k - 1
      BY <1>2, <1>6, <1>8
    <3> QED
      BY <3>1, <3>2
  <2> QED
    BY <1>8, <2>1, <2>2, <2>3 DEF Opened
<1>13. Owned
  <2>1. \A d \in Mads : d \in Drivers /\ \E i \in 1..N : at(d) = i
    BY <1>2, <1>5, <1>7, <1>8 DEF Mads
  <2>2. \A d \in Drivers : rd[d] = 2 * at(d) /\ wr[d] = 2 * at(d) - 1
    BY <1>8
  <2>3. ASSUME NEW d \in Mads
        PROVE  /\ wr[d] # 0 /\ wr[d] < rd[d]
               /\ rd[d] \in used \ others /\ wr[d] \in used \ others
    BY <1>8, <2>1, <2>2, Numbers
  <2>4. ASSUME NEW d \in Mads, NEW e \in Mads, d # e
        PROVE  rd[d] # rd[e] /\ wr[d] # wr[e] /\ rd[d] # wr[e]
    <3>1. at(d) \in 1..N /\ at(e) \in 1..N /\ at(d) # at(e)
      BY <1>5, <2>1, <2>4
    <3> QED
      BY <2>1, <2>2, <3>1
  <2> QED
    BY <2>3, <2>4 DEF Owned
<1>14. FdsArePipes
  BY <1>8 DEF FdsArePipes
<1> QED
  BY <1>11, <1>12, <1>13, <1>14 DEF PipesInv

LEMMA RemoveAtIs ==
    ASSUME NEW S, NEW s \in Seq(S), NEW i \in DOMAIN s
    PROVE  /\ RemoveAt(s, i) \in Seq(S)
           /\ DOMAIN RemoveAt(s, i) = 1..(Len(s) - 1)
           /\ \A j \in 1..(Len(s) - 1) :
                RemoveAt(s, i)[j] = IF j < i THEN s[j] ELSE s[j + 1]
<1> DEFINE a == SubSeq(s, 1, i - 1)
           b == SubSeq(s, i + 1, Len(s))
<1>1. i \in 1..Len(s) /\ Len(s) \in Nat
  BY LenProperties
<1>2. /\ a \in Seq(S) /\ Len(a) = i - 1
      /\ \A j \in 1..(i - 1) : a[j] = s[j]
  BY <1>1, SubSeqProperties
<1>3. /\ b \in Seq(S) /\ Len(b) = Len(s) - i
      /\ \A j \in 1..(Len(s) - i) : b[j] = s[i + j]
  BY <1>1, SubSeqProperties
<1>4. RemoveAt(s, i) = a \o b
  BY DEF RemoveAt
<1> HIDE DEF a, b
<1>5. /\ RemoveAt(s, i) \in Seq(S) /\ Len(RemoveAt(s, i)) = Len(s) - 1
      /\ \A j \in 1..(Len(s) - 1) :
           RemoveAt(s, i)[j] = IF j <= i - 1 THEN a[j] ELSE b[j - (i - 1)]
  <2>1. /\ a \o b \in Seq(S) /\ Len(a \o b) = Len(a) + Len(b)
        /\ \A j \in 1..(Len(a) + Len(b)) :
             (a \o b)[j] = IF j <= Len(a) THEN a[j] ELSE b[j - Len(a)]
    BY <1>2, <1>3, ConcatProperties
  <2>2. Len(a) + Len(b) = Len(s) - 1
    BY <1>1, <1>2, <1>3
  <2> QED
    BY <1>2, <1>4, <2>1, <2>2
<1>6. ASSUME NEW j \in 1..(Len(s) - 1)
      PROVE  RemoveAt(s, i)[j] = IF j < i THEN s[j] ELSE s[j + 1]
  <2>1. CASE j < i
    BY <1>1, <1>2, <1>5, <2>1
  <2>2. CASE ~ (j < i)
    <3>1. j - (i - 1) \in 1..(Len(s) - i) /\ i + (j - (i - 1)) = j + 1 /\ ~ (j <= i - 1)
      BY <1>1, <2>2
    <3>2. RemoveAt(s, i)[j] = b[j - (i - 1)]
      BY <1>5, <3>1
    <3>3. b[j - (i - 1)] = s[i + (j - (i - 1))]
      BY <1>3, <3>1
    <3> QED
      BY <2>2, <3>1, <3>2, <3>3
  <2> QED
    BY <2>1, <2>2
<1> QED
  BY <1>5, <1>6, LenProperties

\* Another thread opens a file or closes it.
LEMMA OthersKeepPipes == PipesInv /\ (OthersOpen \/ OthersClose) => PipesInv'
<1> SUFFICES ASSUME PipesInv, OthersOpen \/ OthersClose PROVE PipesInv'
  OBVIOUS
<1> USE DEF PipesInv
<1>1. UNCHANGED <<mads, fds, rd, wr>>
  BY DEF OthersOpen, OthersClose
<1>2. Loaded' /\ Mads' = Mads
  BY <1>1 DEF Loaded, Mads
<1>3. IsFiniteSet(others) /\ Cardinality(others) \in Nat
  BY Numbers, FS_Subset, FS_CardinalityType DEF Opened
<1>4. CASE OthersOpen
  <2> DEFINE x == LowestFree(used, 1)
  <2>1. x \in Descriptors \ used
    <3>1. Cardinality(Descriptors \ used) >= 3
      BY Room
    <3>2. 1 \in 1..3
      OBVIOUS
    <3> QED
      BY <3>1, <3>2, LowestFreeIs
  <2>2. used' = used \cup {x} /\ others' = others \cup {x} /\ Cardinality(others) < MaxOthers
    BY <1>4 DEF OthersOpen
  <2> HIDE DEF x
  <2>3. Cardinality(others') <= MaxOthers
    <3>1. x \notin others
      BY <2>1 DEF Opened
    <3>2. Cardinality(others') = Cardinality(others) + 1
      BY <1>3, <2>2, <3>1, FS_AddElement
    <3> QED
      BY <1>3, <2>2, <3>2, Numbers
  <2>4. used' \ others' = used \ others
    BY <2>1, <2>2 DEF Opened
  <2>5. Opened'
    BY <1>1, <2>1, <2>2, <2>3, <2>4 DEF Opened
  <2>6. Owned'
    BY <1>1, <1>2, <2>4 DEF Owned
  <2> QED
    BY <1>2, <2>5, <2>6
<1>5. CASE OthersClose
  <2>1. PICK x \in others : used' = used \ {x} /\ others' = others \ {x}
    BY <1>5 DEF OthersClose
  <2>2. Cardinality(others') <= MaxOthers
    <3>1. Cardinality(others') = Cardinality(others) - 1
      BY <1>3, <2>1, FS_RemoveElement
    <3> QED
      BY <1>3, <3>1, Numbers DEF Opened
  <2>3. used' \ others' = used \ others
    BY <2>1 DEF Opened
  <2>4. Opened'
    BY <1>1, <2>1, <2>2, <2>3 DEF Opened
  <2>5. Owned'
    BY <1>1, <1>2, <2>3 DEF Owned
  <2> QED
    BY <1>2, <2>4, <2>5
<1> QED
  BY <1>4, <1>5

\* A driver is started again, with descriptors that nobody uses.
LEMMA ReloadKeepsPipes == PipesInv /\ Listening /\ Reload /\ UNCHANGED <<fds, others>> => PipesInv'
<1> SUFFICES ASSUME PipesInv, Listening, Reload, UNCHANGED <<fds, others>> PROVE PipesInv'
  OBVIOUS
<1> USE DEF PipesInv
<1> DEFINE d == Mad
           rest == used \ {rd[d], wr[d]}
           r == StartRd(rest)
           w == StartWr(rest)
<1>1. d \in Mads /\ d \in Drivers
  <2>1. Position \in DOMAIN mads /\ mads \in Seq(Drivers)
    BY DEF Listening, Loaded
  <2>2. mads[Position] \in Drivers
    BY <2>1, LenProperties, ElementOfSeq
  <2> QED
    BY <2>1, <2>2 DEF Mad, Mads
<1>2. /\ rd' = [rd EXCEPT ![d] = r] /\ wr' = [wr EXCEPT ![d] = w]
      /\ used' = rest \cup {r, w} /\ UNCHANGED <<mads, fds, others>>
  BY DEF Reload
<1>3. /\ r \in Descriptors \ rest /\ w \in Descriptors \ rest /\ w # 0 /\ w < r
  BY Room, Started
<1>4. r \in Nat /\ w \in Nat /\ r # w
  BY <1>3, Numbers
<1>5. rd[d] \in used \ others /\ wr[d] \in used \ others
  BY <1>1 DEF Owned
<1>6. others \subseteq rest /\ rest \subseteq used
  BY <1>5 DEF Opened
<1>7. rd \in [Drivers -> Nat] /\ wr \in [Drivers -> Nat]
  BY DEF Loaded
<1> HIDE DEF d, rest, r, w
<1>8. /\ rd'[d] = r /\ wr'[d] = w
      /\ \A e \in Drivers \ {d} : rd'[e] = rd[e] /\ wr'[e] = wr[e]
      /\ rd' \in [Drivers -> Nat] /\ wr' \in [Drivers -> Nat]
  BY <1>1, <1>2, <1>4, <1>7
<1>9. Loaded'
  BY <1>2, <1>8 DEF Loaded
<1>10. Opened'
  <2>1. used' \subseteq Descriptors /\ others' \subseteq used' /\ Cardinality(others') <= MaxOthers
    BY <1>2, <1>3, <1>6 DEF Opened
  <2>2. ASSUME NEW x \in used' \ others' PROVE \E e \in Drivers : x = rd'[e] \/ x = wr'[e]
    <3>1. CASE x \in {r, w}
      BY <1>1, <1>8, <3>1
    <3>2. CASE x \in rest
      <4>1. x \in used \ others /\ x # rd[d] /\ x # wr[d]
        BY <1>2, <2>2, <3>2 DEF rest
      <4>2. PICK e \in Drivers : x = rd[e] \/ x = wr[e]
        BY <4>1 DEF Opened
      <4> QED
        BY <1>8, <4>1, <4>2
    <3> QED
      BY <1>2, <2>2, <3>1, <3>2
  <2> QED
    BY <2>1, <2>2 DEF Opened
<1>11. Mads' = Mads /\ Mads \subseteq Drivers
  <2>1. Mads \subseteq Drivers
    BY LenProperties, ElementOfSeq DEF Mads, Loaded
  <2> QED
    BY <1>2, <2>1 DEF Mads
\* The pipes of the others are among what is in use.
<1>12. \A e \in Mads \ {d} : rd[e] \in rest \ others /\ wr[e] \in rest \ others
  BY <1>1 DEF Owned, rest
<1>13. \A e \in Mads \ {d} : rd'[e] = rd[e] /\ wr'[e] = wr[e]
  BY <1>8, <1>11
<1>14. Owned'
  <2>1. ASSUME NEW e \in Mads
        PROVE  /\ wr'[e] # 0 /\ wr'[e] < rd'[e]
               /\ rd'[e] \in used' \ others' /\ wr'[e] \in used' \ others'
    <3>1. CASE e = d
      BY <1>2, <1>3, <1>6, <1>8, <3>1
    <3>2. CASE e # d
      BY <1>2, <1>12, <1>13, <3>2 DEF Owned
    <3> QED
      BY <3>1, <3>2
  <2>2. ASSUME NEW e \in Mads, NEW f \in Mads, e # f
        PROVE  rd'[e] # rd'[f] /\ wr'[e] # wr'[f] /\ rd'[e] # wr'[f]
    <3>1. CASE e # d /\ f # d
      BY <1>13, <2>2, <3>1 DEF Owned
    <3>2. CASE e = d
      BY <1>3, <1>8, <1>12, <1>13, <2>2, <3>2
    <3>3. CASE f = d
      BY <1>3, <1>8, <1>12, <1>13, <2>2, <3>3
    <3> QED
      BY <3>1, <3>2, <3>3
  <2> QED
    BY <1>11, <2>1, <2>2 DEF Owned
<1> QED
  BY <1>9, <1>10, <1>14

\* A driver that does not start again is erased, and its pipes are closed.
LEMMA FailKeepsPipes ==
    PipesInv /\ Listening /\ ReloadFails /\ UNCHANGED <<fds, others>> => PipesInv'
<1> SUFFICES ASSUME PipesInv, Listening, ReloadFails, UNCHANGED <<fds, others>> PROVE PipesInv'
  OBVIOUS
<1> USE DEF PipesInv
<1> DEFINE p == Position
           d == mads[p]
<1>1. p \in DOMAIN mads /\ mads \in Seq(Drivers) /\ DOMAIN mads = 1..Len(mads) /\ Len(mads) \in Nat
  BY LenProperties DEF Listening, Loaded
<1>2. /\ mads' = RemoveAt(mads, p) /\ used' = used \ {rd[d], wr[d]}
      /\ UNCHANGED <<rd, wr, fds, others>>
  BY DEF ReloadFails, Mad
<1> HIDE DEF p
<1>3. /\ mads' \in Seq(Drivers) /\ DOMAIN mads' = 1..(Len(mads) - 1)
      /\ \A j \in 1..(Len(mads) - 1) : mads'[j] = IF j < p THEN mads[j] ELSE mads[j + 1]
  BY <1>1, <1>2, RemoveAtIs
<1>4. \A i, j \in DOMAIN mads : mads[i] = mads[j] => i = j
  BY DEF Loaded, IsInjective
<1>5. \A j \in DOMAIN mads' :
        \E k \in DOMAIN mads : mads'[j] = mads[k] /\ k # p /\ k = IF j < p THEN j ELSE j + 1
  BY <1>1, <1>3
<1>6. IsInjective(mads')
  <2>1. ASSUME NEW i \in DOMAIN mads', NEW j \in DOMAIN mads', mads'[i] = mads'[j] PROVE i = j
    <3>1. PICK k \in DOMAIN mads : mads'[i] = mads[k] /\ k = IF i < p THEN i ELSE i + 1
      BY <1>5
    <3>2. PICK l \in DOMAIN mads : mads'[j] = mads[l] /\ l = IF j < p THEN j ELSE j + 1
      BY <1>5
    <3>3. k = l
      BY <1>4, <2>1, <3>1, <3>2
    <3> QED
      BY <1>1, <1>3, <3>1, <3>2, <3>3
  <2> QED
    BY <2>1 DEF IsInjective
<1>7. Loaded'
  BY <1>2, <1>3, <1>6 DEF Loaded
<1>8. \A e \in Mads' : e \in Mads /\ e # d
  BY <1>1, <1>4, <1>5 DEF Mads
<1>9. d \in Mads
  BY <1>1 DEF Mads
<1>10. rd[d] \in used \ others /\ wr[d] \in used \ others
  BY <1>9 DEF Owned
<1>11. Opened'
  BY <1>2, <1>10 DEF Opened
<1>12. Owned'
  <2>1. \A e \in Mads' : /\ rd[e] # rd[d] /\ wr[e] # wr[d] /\ rd[e] # wr[d] /\ wr[e] # rd[d]
                         /\ wr[e] # 0 /\ wr[e] < rd[e]
                         /\ rd[e] \in used \ others /\ wr[e] \in used \ others
    BY <1>8, <1>9 DEF Owned
  <2>2. \A e \in Mads' : rd[e] \in used' \ others /\ wr[e] \in used' \ others
    BY <1>2, <2>1
  <2> QED
    BY <1>2, <1>8, <2>1, <2>2 DEF Owned
<1> QED
  BY <1>7, <1>11, <1>12

LEMMA PipesKept == PipesInv /\ [Next]_vars => PipesInv'
<1> SUFFICES ASSUME PipesInv, [Next]_vars PROVE PipesInv'
  OBVIOUS
<1>1. CASE UNCHANGED <<mads, fds, rd, wr, used, others>>
  BY <1>1 DEF PipesInv, Loaded, Opened, Owned, Mads
<1>2. CASE OthersOpen \/ OthersClose
  BY <1>2, OthersKeepPipes
<1>3. CASE Recover
  BY <1>3, ReloadKeepsPipes, FailKeepsPipes DEF Recover
<1> QED
  BY <1>1, <1>2, <1>3
  DEF Next, vars, madVars, Discover, LookAt, Listen, Select, Protocol, Receive, Processes,
      DriverAnswers, DriverDies, Users, HostEnable, HostDelete

LEMMA SameRank ==
    ASSUME NEW F, F \subseteq Nat, IsFiniteSet(F), NEW a \in F, NEW b \in F,
           Cardinality(Below(F, a)) = Cardinality(Below(F, b))
    PROVE  a = b
<1>1. a \in Nat /\ b \in Nat
  OBVIOUS
<1>2. Cardinality(Below(F, a)) \in Nat
  <2>1. Below(F, a) \subseteq F
    BY DEF Below
  <2> QED
    BY <2>1, FS_Subset, FS_CardinalityType
<1>3. ~ (a < b)
  <2> SUFFICES ASSUME a < b PROVE FALSE
    OBVIOUS
  <2>1. Cardinality(Below(F, a)) < Cardinality(Below(F, b))
    BY RankGrows
  <2> QED
    BY <1>2, <2>1
<1>4. ~ (b < a)
  <2> SUFFICES ASSUME b < a PROVE FALSE
    OBVIOUS
  <2>1. Cardinality(Below(F, b)) < Cardinality(Below(F, a))
    BY RankGrows
  <2> QED
    BY <1>2, <2>1
<1> QED
  BY <1>1, <1>3, <1>4

\* Where the pipes are those fds has, and nobody else has a file open, the pipes
\* of the i-th driver are 2 i - 1 and 2 i, whatever has been restarted before.
LEMMA PipesInOrder ==
    ASSUME PipesInv, FdsArePipes, others = {}
    PROVE  /\ DOMAIN mads = 1..N
           /\ \A i \in 1..N : rd[mads[i]] = 2 * i /\ wr[mads[i]] = 2 * i - 1
           /\ used = 1..(2 * N)
<1> USE DEF PipesInv
<1>1. mads \in Seq(Drivers) /\ \A i, j \in DOMAIN mads : mads[i] = mads[j] => i = j
  BY DEF Loaded, IsInjective
<1>2. DOMAIN mads = 1..N /\ \A i \in 1..N : rd[mads[i]] = 2 * i
  <2>1. fds = [i \in 1..N |-> 2 * i] /\ fds = [i \in DOMAIN mads |-> rd[mads[i]]]
    BY DEF Loaded, FdsArePipes
  <2> QED
    BY <2>1
<1>3. mads \in [1..N -> Drivers]
  <2>1. mads \in [1..Len(mads) -> Drivers] /\ DOMAIN mads = 1..Len(mads)
    BY <1>1, LenProperties
  <2> QED
    BY <1>2, <2>1
<1>4. \A i \in 1..N : mads[i] \in Mads /\ wr[mads[i]] \in Nat
  BY <1>2, <1>3 DEF Mads, Loaded
<1>5. \A i \in 1..N : wr[mads[i]] = 2 * i - 1
  <2> DEFINE B == {i \in 1..N : wr[mads[i]] # 2 * i - 1}
  <2> SUFFICES ASSUME B # {} PROVE FALSE
    OBVIOUS
  <2>1. B \subseteq Nat
    OBVIOUS
  <2>2. PICK i \in B : \A j \in B : i <= j
    BY <2>1, Least
  <2> DEFINE w == wr[mads[i]]
  <2>3. i \in 1..N /\ w \in Nat /\ w # 0 /\ w < 2 * i /\ w # 2 * i - 1
    BY <1>2, <1>4 DEF Owned
  <2>4. PICK k \in 1..(i - 1) : w = 2 * k \/ w = 2 * k - 1
    <3> HIDE DEF w, B
    <3>1. (w + 1) \div 2 \in 1..(i - 1)
      BY <2>3, Numbers
    <3>2. w = 2 * ((w + 1) \div 2) \/ w = 2 * ((w + 1) \div 2) - 1
      BY <2>3
    <3> QED
      BY <3>1, <3>2
  <2>5. k \in 1..N /\ k # i /\ k \notin B
    BY <2>2, <2>3, <2>4, Numbers
  <2>6. rd[mads[k]] = 2 * k /\ wr[mads[k]] = 2 * k - 1
    BY <1>2, <2>5
  <2>7. mads[k] # mads[i] /\ mads[k] \in Mads /\ mads[i] \in Mads
    BY <1>1, <1>2, <1>4, <2>3, <2>5
  <2>8. rd[mads[k]] # w /\ wr[mads[k]] # w
    BY <2>7 DEF Owned
  <2> QED
    BY <2>4, <2>6, <2>8
<1>6. \A d \in Drivers : \E i \in 1..N : mads[i] = d
  <2>1. mads \in Injection(1..N, Drivers)
    BY <1>1, <1>2, <1>3 DEF Injection, IsInjective
  <2>2. IsFiniteSet(1..N) /\ Cardinality(1..N) = N
    BY Positions
  <2>3. mads \in Surjection(1..N, Drivers)
    BY <2>1, <2>2, Numbers, FS_Injection DEF N
  <2> QED
    BY <2>3 DEF Surjection
<1>7. ASSUME NEW x PROVE x \in used <=> x \in 1..(2 * N)
  <2>1. ASSUME x \in used PROVE x \in 1..(2 * N)
    <3>1. PICK d \in Drivers : x = rd[d] \/ x = wr[d]
      BY <2>1 DEF Opened
    <3>2. PICK i \in 1..N : mads[i] = d
      BY <1>6
    <3>3. x = 2 * i \/ x = 2 * i - 1
      BY <1>2, <1>5, <3>1, <3>2
    <3> QED
      BY <3>3, Numbers
  <2>2. ASSUME x \in 1..(2 * N) PROVE x \in used
    <3>1. (x + 1) \div 2 \in 1..N
      BY <2>2, Numbers
    <3>2. x = 2 * ((x + 1) \div 2) \/ x = 2 * ((x + 1) \div 2) - 1
      BY <2>2, Numbers
    <3>3. PICK i \in 1..N : x = 2 * i \/ x = 2 * i - 1
      BY <3>1, <3>2
    <3>4. rd[mads[i]] \in used /\ wr[mads[i]] \in used
      BY <1>4 DEF Owned
    <3> QED
      BY <1>2, <1>5, <3>3, <3>4
  <2> QED
    BY <2>1, <2>2
<1>8. used = 1..(2 * N)
  BY <1>7
<1> QED
  BY <1>2, <1>5, <1>8

\* So a driver that is started again is given the descriptor it had.
LEMMA SamePipe ==
    ASSUME PipesInv, FdsArePipes, others = {}, Listening
    PROVE  StartRd(used \ {rd[Mad], wr[Mad]}) = rd[Mad]
<1> DEFINE k == Position
           rest == used \ {rd[Mad], wr[Mad]}
           F == Descriptors \ rest
           b == StartRd(rest)
<1>1. k \in 1..N /\ Mad = mads[k]
  BY PipesInOrder DEF Listening, Mad
<1>2. rd[Mad] = 2 * k /\ wr[Mad] = 2 * k - 1 /\ used = 1..(2 * N)
  BY <1>1, PipesInOrder
<1> HIDE DEF k
<1>3. rest = 1..(2 * N) \ {2 * k, 2 * k - 1}
  BY <1>2
<1>4. F \subseteq Nat /\ IsFiniteSet(F)
  BY Numbers, FS_Subset
<1>5. b \in F /\ Cardinality(Below(F, b)) = 2
  <2>1. Cardinality(Descriptors \ rest) >= 3
    BY Room DEF PipesInv
  <2>2. 3 \in 1..3
    OBVIOUS
  <2> HIDE DEF rest
  <2> QED
    BY <2>1, <2>2, LowestFreeIs DEF StartRd
<1>6. 2 * k \in F /\ Cardinality(Below(F, 2 * k)) = 2
  <2>1. \A e \in Nat : e \in F <=> e <= 2 * N + 3 + MaxOthers /\ (e = 0 \/ e > 2 * N \/ e = 2 * k \/ e = 2 * k - 1)
    BY <1>1, <1>3, Numbers
  <2>2. 2 * k \in F
    BY <1>1, <2>1, Numbers
  <2>3. \A e : e \in Below(F, 2 * k) <=> e \in {0} \cup {2 * k - 1}
    <3>1. ASSUME NEW e \in F, e < 2 * k PROVE e \in {0} \cup {2 * k - 1}
      BY <1>1, <1>4, <2>1, <3>1, Numbers
    <3>2. 0 \in F /\ 2 * k - 1 \in F /\ 0 < 2 * k /\ 2 * k - 1 < 2 * k
      BY <1>1, <2>1, Numbers
    <3> QED
      BY <3>1, <3>2 DEF Below
  <2>4. Below(F, 2 * k) = {0} \cup {2 * k - 1}
    BY <2>3
  <2>5. Cardinality({0} \cup {2 * k - 1}) = 2
    <3>0. 2 * k - 1 # 0
      BY <1>1, Numbers
    <3>1. IsFiniteSet({0}) /\ Cardinality({0}) = 1 /\ 2 * k - 1 \notin {0}
      BY <3>0, FS_Singleton
    <3>2. Cardinality({0} \cup {2 * k - 1}) = Cardinality({0}) + 1
      BY <3>1, FS_AddElement
    <3> QED
      BY <3>1, <3>2
  <2> QED
    BY <2>2, <2>4, <2>5
<1> HIDE DEF F, b
<1>7. b = 2 * k
  BY <1>4, <1>5, <1>6, SameRank
<1> QED
  BY <1>2, <1>7 DEF b

\* However many drivers a manager has and however often they end: where fds has
\* the pipes of the drivers and nobody else has a file open, a driver that is
\* started again is given the descriptor the listener waits on (Mad::start,
\* MadManager::listener).
THEOREM RestartsKeepPipes == Spec => RestartKeepsPipes
<1> DEFINE Keeps == FdsArePipes /\ others = {} /\ mads' = mads => FdsArePipes'
<1>1. Init => PipesInv
  BY InitPipes DEF Init
<1>2. PipesInv /\ [Next]_vars => PipesInv'
  BY PipesKept
<1>3. PipesInv /\ [Next]_vars => [Keeps]_madVars
  <2> SUFFICES ASSUME PipesInv, [Next]_vars, FdsArePipes, others = {}, mads' = mads
               PROVE  FdsArePipes'
    OBVIOUS
  <2>1. CASE UNCHANGED <<fds, rd>>
    BY <2>1 DEF FdsArePipes
  <2>2. CASE Recover
    <3>1. Listening /\ UNCHANGED fds
      BY <2>2 DEF Recover
    <3>2. rd' = [rd EXCEPT ![Mad] = rd[Mad]] \/ UNCHANGED rd
      BY <2>2, <3>1, SamePipe DEF Recover, Reload, ReloadFails
    <3>3. \A d : rd'[d] = rd[d]
      BY <3>2 DEF PipesInv, Loaded
    <3> QED
      BY <3>1, <3>3 DEF FdsArePipes
  <2> QED
    BY <2>1, <2>2
    DEF Next, vars, madVars, Discover, LookAt, Listen, Select, Protocol, Receive, Processes,
        DriverAnswers, DriverDies, OthersOpen, OthersClose, Users, HostEnable, HostDelete
<1>4. RestartKeepsPipes <=> [][Keeps]_madVars
  BY DEF RestartKeepsPipes
<1> HIDE DEF Keeps
<1> QED
  BY <1>1, <1>2, <1>3, <1>4, PTL DEF Spec

-----------------------------------------------------------------------------
(* What has been asked.  Until a driver ends or stalls, no driver is started  *)
(* again: the listener comes to a driver only when a message of it can be     *)
(* read.                                                                      *)

Queued == requests \in [Drivers -> Bags] /\ answers \in [Drivers -> Bags]

ReadyToRead ==
    ready \subseteq DOMAIN mads /\ \A i \in ready : answers[mads[i]] # Nothing

MonitoringAsked ==
    \A h \in Hosts : state[h] = "MONITORING" => HasMad(im_mad[h]) /\ Asked(h) > 0

Early == FdsArePipes /\ alive = Drivers /\ Queued /\ ReadyToRead /\ MonitoringAsked

EarlyInv == deaths \in Nat /\ (deaths = 0 => Early)

LEMMA MadIsOne ==
    ASSUME PipesInv
    PROVE  /\ \A i \in DOMAIN mads : mads[i] \in Drivers /\ mads[i] \in Mads
           /\ \A d : HasMad(d) => d \in Drivers /\ d \in Mads
           /\ \A i, j \in DOMAIN mads : mads[i] = mads[j] => i = j
<1>1. mads \in Seq(Drivers) /\ \A i, j \in DOMAIN mads : mads[i] = mads[j] => i = j
  BY DEF PipesInv, Loaded, IsInjective
<1>2. \A i \in DOMAIN mads : mads[i] \in Drivers
  BY <1>1, LenProperties, ElementOfSeq
<1> QED
  BY <1>1, <1>2 DEF Mads, HasMad

LEMMA AskedIsNat ==
    ASSUME Queued, NEW h \in Hosts, im_mad[h] \in Drivers
    PROVE  requests[im_mad[h]][h] \in Nat /\ answers[im_mad[h]][h] \in Nat
BY InformationAssumption DEF InformationAssumption, Queued, Bags

\* Where nothing happens to the drivers, no host starts MONITORING.
LEMMA HostsKeepEarly ==
    ASSUME Early, UNCHANGED <<mads, fds, rd, alive, requests, answers, ready>>,
           \A h \in Hosts : state'[h] = "MONITORING" => state[h] = "MONITORING"
    PROVE  Early'
<1>1. FdsArePipes' /\ alive' = Drivers /\ Queued' /\ ReadyToRead'
  BY DEF Early, FdsArePipes, Queued, ReadyToRead, Nothing
<1>2. MonitoringAsked'
  BY DEF Early, MonitoringAsked, HasMad, Asked
<1> QED
  BY <1>1, <1>2 DEF Early

\* A host is asked for: its driver is there, and lives.
LEMMA LookAtKeepsEarly == PipesInv /\ HostsKept /\ Early /\ LookAt => Early'
<1> SUFFICES ASSUME PipesInv, HostsKept, Early, LookAt PROVE Early'
  OBVIOUS
<1> DEFINE h == Next1
           d == im_mad[h]
<1>1. UNCHANGED <<mads, fds, rd, alive, answers, ready>>
  BY DEF LookAt
<1>2. CASE Expires(h) /\ Sets(h, "INIT") /\ UNCHANGED requests
  <2>1. \A g \in Hosts : state'[g] = "MONITORING" => state[g] = "MONITORING"
    BY <1>2 DEF Sets, HostsKept
  <2> QED
    BY <1>1, <1>2, <2>1, HostsKeepEarly
<1>3. CASE UNCHANGED <<state, requests>>
  BY <1>1, <1>3, HostsKeepEarly
<1>4. CASE ~ HasMad(d) /\ Sets(h, "ERROR") /\ UNCHANGED requests
  <2>1. \A g \in Hosts : state'[g] = "MONITORING" => state[g] = "MONITORING"
    BY <1>4 DEF Sets, HostsKept
  <2> QED
    BY <1>1, <1>4, <2>1, HostsKeepEarly
<1>5. CASE h \in Hosts /\ HasMad(d) /\ Write(d, h) /\ Sets(h, "MONITORING")
  <2>1. h \in Messages /\ d \in Drivers /\ d \in alive
    BY <1>5, MadIsOne, InformationAssumption DEF InformationAssumption, Early
  <2>2. requests' = [requests EXCEPT ![d][h] = @ + 1]
    BY <1>5, <2>1 DEF Write
  <2>3. Queued /\ Queued'
    BY <1>1, <2>1, <2>2 DEF Early, Queued, Bags
  <2>4. \A e \in Drivers : \A m \in Messages : requests'[e][m] >= requests[e][m]
    BY <2>1, <2>2, <2>3 DEF Queued, Bags
  <2>5. requests'[d][h] = requests[d][h] + 1
    BY <2>1, <2>2, <2>3 DEF Queued, Bags
  <2>6. ASSUME NEW g \in Hosts, state'[g] = "MONITORING"
        PROVE  HasMad(im_mad[g])' /\ Asked(g)' > 0
    <3>1. CASE g = h
      <4>1. requests[d][h] \in Nat /\ answers[d][h] \in Nat
        BY <1>5, <2>1, <2>3, AskedIsNat
      <4> QED
        BY <1>1, <1>5, <2>5, <3>1, <4>1 DEF Asked, HasMad
    <3>2. CASE g # h
      <4>1. state[g] = "MONITORING"
        BY <1>5, <2>6, <3>2 DEF Sets, HostsKept
      <4>2. HasMad(im_mad[g]) /\ Asked(g) > 0
        BY <4>1 DEF Early, MonitoringAsked
      <4>3. im_mad[g] \in Drivers /\ g \in Messages
        BY <4>2, MadIsOne, InformationAssumption DEF InformationAssumption
      <4>4. /\ requests[im_mad[g]][g] \in Nat /\ answers[im_mad[g]][g] \in Nat
            /\ requests'[im_mad[g]][g] \in Nat
        BY <2>3, <4>3 DEF Queued, Bags
      <4>5. requests'[im_mad[g]][g] >= requests[im_mad[g]][g]
        BY <2>4, <4>3
      <4> QED
        BY <1>1, <4>2, <4>4, <4>5 DEF Asked, HasMad
    <3> QED
      BY <3>1, <3>2
  <2>7. FdsArePipes' /\ alive' = Drivers /\ ReadyToRead'
    BY <1>1 DEF Early, FdsArePipes, ReadyToRead, Nothing
  <2> QED
    BY <2>3, <2>6, <2>7 DEF Early, MonitoringAsked
\* Of what is no host nothing is kept.
<1>6. CASE h \notin Hosts /\ HasMad(d) /\ Write(d, h) /\ Sets(h, "MONITORING")
  <2>1. h \notin Messages /\ d \in Drivers
    BY <1>6, MadIsOne, InformationAssumption DEF InformationAssumption
  <2>2. requests \in [Drivers -> Bags]
    BY DEF Early, Queued
  <2>3. state' = state
    BY <1>6 DEF Sets, HostsKept
  <2>4. requests' = requests
    <3>1. CASE d \in alive
      <4>1. requests' = [requests EXCEPT ![d] = [requests[d] EXCEPT ![h] = @ + 1]]
        BY <1>6, <3>1 DEF Write
      <4>2. [requests[d] EXCEPT ![h] = @ + 1] = requests[d]
        BY <2>1, <2>2 DEF Bags
      <4> QED
        BY <2>1, <2>2, <4>1, <4>2
    <3> QED
      BY <1>6, <3>1 DEF Write
  <2> QED
    BY <1>1, <2>3, <2>4, HostsKeepEarly
<1> QED
  BY <1>2, <1>3, <1>4, <1>5, <1>6 DEF LookAt, Monitor

\* A driver has written an answer to what it was asked.
LEMMA AnswersKeepEarly ==
    PipesInv /\ Early /\ (\E d \in Drivers : DriverAnswers(d)) /\ UNCHANGED hostVars => Early'
<1> SUFFICES ASSUME PipesInv, Early, NEW d \in Drivers, DriverAnswers(d), UNCHANGED hostVars
             PROVE  Early'
  OBVIOUS
<1>1. PICK m \in Messages :
        /\ requests[d][m] > 0
        /\ requests' = [requests EXCEPT ![d][m] = @ - 1]
        /\ answers' = [answers EXCEPT ![d][m] = @ + 1]
  BY DEF DriverAnswers
<1>2. UNCHANGED <<mads, fds, rd, alive, ready, state>>
  BY DEF DriverAnswers, hostVars
<1>3. Queued
  BY DEF Early
<1>4. Queued'
  BY <1>1, <1>3 DEF Queued, Bags
<1>5. \A e \in Drivers : \A n \in Messages :
        /\ requests'[e][n] + answers'[e][n] = requests[e][n] + answers[e][n]
        /\ answers'[e][n] >= answers[e][n]
  BY <1>1, <1>3 DEF Queued, Bags
<1>6. ReadyToRead'
  <2>1. ASSUME NEW i \in ready PROVE i \in DOMAIN mads /\ answers'[mads[i]] # Nothing
    <3>1. i \in DOMAIN mads /\ answers[mads[i]] # Nothing /\ mads[i] \in Drivers
      BY MadIsOne DEF Early, ReadyToRead
    <3>2. PICK n \in Messages : answers[mads[i]][n] # 0
      BY <1>3, <3>1 DEF Queued, Bags, Nothing
    <3>3. answers[mads[i]][n] \in Nat /\ answers'[mads[i]][n] \in Nat
      BY <1>3, <1>4, <3>1 DEF Queued, Bags
    <3>4. answers'[mads[i]][n] # 0
      BY <1>5, <3>1, <3>2, <3>3
    <3> QED
      BY <3>1, <3>4 DEF Nothing
  <2> QED
    BY <1>2, <2>1 DEF ReadyToRead, Nothing
<1>7. MonitoringAsked'
  <2>1. ASSUME NEW h \in Hosts, state[h] = "MONITORING"
        PROVE  HasMad(im_mad[h]) /\ requests'[im_mad[h]][h] + answers'[im_mad[h]][h] > 0
    <3>1. HasMad(im_mad[h]) /\ Asked(h) > 0
      BY <2>1 DEF Early, MonitoringAsked
    <3>2. im_mad[h] \in Drivers /\ h \in Messages
      BY <3>1, MadIsOne, InformationAssumption DEF InformationAssumption
    <3> QED
      BY <1>5, <3>1, <3>2 DEF Asked
  <2> QED
    BY <1>2, <2>1 DEF MonitoringAsked, HasMad, Asked
<1> QED
  BY <1>2, <1>4, <1>6, <1>7 DEF Early, FdsArePipes

\* What is ready is the pipe of a driver that has written.
LEMMA SelectKeepsEarly == PipesInv /\ Early /\ Select /\ UNCHANGED hostVars => Early'
<1> SUFFICES ASSUME PipesInv, Early, Select, UNCHANGED hostVars PROVE Early'
  OBVIOUS
<1>1. UNCHANGED <<mads, fds, rd, alive, requests, answers, state>>
  BY DEF Select, hostVars
<1>2. DOMAIN fds = DOMAIN mads /\ \A i \in DOMAIN mads : fds[i] = rd[mads[i]]
  BY DEF Early, FdsArePipes
<1>3. \A i \in DOMAIN fds : fds[i] \notin others
  <2>1. \A d \in Mads : rd[d] \notin others
    BY DEF PipesInv, Owned
  <2> QED
    BY <1>2, <2>1, MadIsOne
<1>4. ready' = ReadyNow
  BY <1>3 DEF Select
<1>5. ASSUME NEW i \in ReadyNow PROVE i \in DOMAIN mads /\ answers[mads[i]] # Nothing
  <2>1. i \in DOMAIN fds /\ Readable(fds[i])
    BY DEF ReadyNow
  <2>2. PICK d \in Drivers : HasMad(d) /\ rd[d] = fds[i] /\ (answers[d] # Nothing \/ d \notin alive)
    BY <2>1 DEF Readable
  <2>3. mads[i] \in Mads /\ d \in Mads /\ rd[mads[i]] = rd[d]
    BY <1>2, <2>1, <2>2, MadIsOne
  <2>4. mads[i] = d
    BY <2>3 DEF PipesInv, Owned
  <2> QED
    BY <1>2, <2>1, <2>2, <2>4 DEF Early
<1>6. ReadyToRead'
  BY <1>1, <1>4, <1>5 DEF ReadyToRead, Nothing
<1> QED
  BY <1>1, <1>6 DEF Early, FdsArePipes, Queued, MonitoringAsked, HasMad, Asked

\* The place the listener comes to.
LEMMA PositionIsReady == PipesInv /\ ready # {} /\ ready \subseteq DOMAIN mads => Position \in ready
<1> SUFFICES ASSUME PipesInv, ready # {}, ready \subseteq DOMAIN mads PROVE Position \in ready
  OBVIOUS
<1>1. ready \subseteq Nat
  BY LenProperties DEF PipesInv, Loaded
<1>2. \E i \in ready : \A j \in ready : i <= j
  BY <1>1, Least
<1> QED
  BY <1>2 DEF Position

\* A message is read, and its host is MONITORING no more.
LEMMA ProtocolKeepsEarly ==
    PipesInv /\ HostsKept /\ Early /\ (\E h \in Hosts, success \in BOOLEAN : Protocol(h, success))
      => Early'
<1> SUFFICES ASSUME PipesInv, HostsKept, Early, NEW h \in Hosts, NEW success \in BOOLEAN,
                    Protocol(h, success)
             PROVE  Early'
  OBVIOUS
<1> DEFINE p == Position
           d == mads[p]
<1>1. /\ UNCHANGED <<mads, fds, rd, alive, requests>>
      /\ answers[d][h] > 0 /\ answers' = [answers EXCEPT ![d][h] = @ - 1]
      /\ ready' = ready \ {p} /\ state' = [state EXCEPT ![h] = Touch(state[h], success)]
      /\ ready # {}
  BY DEF Protocol, Receive, Listening, Mad, Sets
<1>2. Queued /\ ready \subseteq DOMAIN mads /\ \A i \in ready : answers[mads[i]] # Nothing
  BY DEF Early, ReadyToRead
<1>3. p \in ready /\ p \in DOMAIN mads /\ d \in Drivers /\ h \in Messages
  BY <1>1, <1>2, PositionIsReady, MadIsOne, InformationAssumption DEF InformationAssumption
<1> HIDE DEF p
<1>4. Queued'
  BY <1>1, <1>2, <1>3 DEF Queued, Bags
<1>5. ReadyToRead'
  <2>1. \A i \in ready \ {p} : mads[i] # d /\ mads[i] \in Drivers
    BY <1>2, <1>3, MadIsOne
  <2>2. \A i \in ready \ {p} : answers'[mads[i]] = answers[mads[i]]
    BY <1>1, <1>2, <2>1 DEF Queued
  <2> QED
    BY <1>1, <1>2, <2>2 DEF ReadyToRead, Nothing
<1>6. MonitoringAsked'
  <2>1. Touch(state[h], success) # "MONITORING"
    BY DEF Touch, HostsKept, HostStates, isEnabled, NONE
  <2>2. ASSUME NEW g \in Hosts, state'[g] = "MONITORING"
        PROVE  HasMad(im_mad[g]) /\ requests'[im_mad[g]][g] + answers'[im_mad[g]][g] > 0
    <3>1. g # h /\ state[g] = "MONITORING"
      BY <1>1, <2>1, <2>2 DEF HostsKept
    <3>2. HasMad(im_mad[g]) /\ Asked(g) > 0
      BY <3>1 DEF Early, MonitoringAsked
    <3>3. im_mad[g] \in Drivers /\ g \in Messages
      BY <3>2, MadIsOne, InformationAssumption DEF InformationAssumption
    <3>4. answers'[im_mad[g]][g] = answers[im_mad[g]][g]
      BY <1>1, <1>2, <1>3, <3>1, <3>3 DEF Queued, Bags
    <3> QED
      BY <1>1, <3>2, <3>4 DEF Asked
  <2> QED
    BY <1>1, <2>2 DEF MonitoringAsked, HasMad, Asked
<1> QED
  BY <1>1, <1>4, <1>5, <1>6 DEF Early, FdsArePipes

\* A driver is started again only when it has ended, or stalled in a message.
LEMMA RecoverEndsEarly ==
    PipesInv /\ EarlyInv /\ Recover => deaths' \in Nat /\ deaths' # 0
<1> SUFFICES ASSUME PipesInv, EarlyInv, Recover PROVE deaths' \in Nat /\ deaths' # 0
  OBVIOUS
<1>1. CASE answers[Mad] # Nothing /\ deaths' = deaths + 1
  BY <1>1 DEF EarlyInv
<1>2. CASE answers[Mad] = Nothing /\ UNCHANGED deaths
  <2>1. CASE deaths = 0
    <3>1. ready # {} /\ ReadyToRead
      BY <2>1 DEF Recover, Listening, EarlyInv, Early
    <3>2. Position \in ready
      BY <3>1, PositionIsReady DEF ReadyToRead
    <3> QED
      BY <1>2, <3>1, <3>2 DEF ReadyToRead, Mad
  <2> QED
    BY <1>2, <2>1 DEF EarlyInv
<1> QED
  BY <1>1, <1>2 DEF Recover

LEMMA EarlyKept == PipesInv /\ HostsKept /\ EarlyInv /\ [Next]_vars => EarlyInv'
<1> SUFFICES ASSUME PipesInv, HostsKept, EarlyInv, [Next]_vars PROVE EarlyInv'
  OBVIOUS
<1>1. CASE Recover
  BY <1>1, RecoverEndsEarly DEF EarlyInv
<1>2. CASE \E d \in Drivers : DriverDies(d)
  BY <1>2 DEF DriverDies, EarlyInv
<1>3. CASE LookAt
  BY <1>3, LookAtKeepsEarly DEF EarlyInv, LookAt
<1>4. CASE (\E d \in Drivers : DriverAnswers(d)) /\ UNCHANGED hostVars
  BY <1>4, AnswersKeepEarly DEF EarlyInv, DriverAnswers
<1>5. CASE Select /\ UNCHANGED hostVars
  BY <1>5, SelectKeepsEarly DEF EarlyInv, Select
<1>6. CASE \E h \in Hosts, success \in BOOLEAN : Protocol(h, success)
  BY <1>6, ProtocolKeepsEarly DEF EarlyInv, Protocol, Receive
<1>7. CASE Discover \/ ((OthersOpen \/ OthersClose) /\ UNCHANGED hostVars) \/ UNCHANGED vars
  <2>1. UNCHANGED <<mads, fds, rd, alive, requests, answers, ready, deaths, state>>
    BY <1>7 DEF Discover, OthersOpen, OthersClose, hostVars, vars, madVars
  <2> QED
    BY <2>1, HostsKeepEarly DEF EarlyInv
<1>8. CASE Users
  <2>1. UNCHANGED <<mads, fds, rd, alive, requests, answers, ready, deaths>>
    BY <1>8 DEF Users, HostEnable, HostDelete, madVars
  <2>2. \A h \in Hosts : state'[h] = "MONITORING" => state[h] = "MONITORING"
    BY <1>8 DEF Users, HostEnable, HostDelete, Sets, HostsKept, NONE
  <2> QED
    BY <2>1, <2>2, HostsKeepEarly DEF EarlyInv
<1> QED
  BY <1>1, <1>2, <1>3, <1>4, <1>5, <1>6, <1>7, <1>8 DEF Next, Listen, Processes

\* However many hosts and drivers there are: until a driver ends or stalls, a
\* host that is MONITORING has been asked for, and its answer can still come
\* (InformationManager::timer_action, MadManager::listener).
THEOREM MonitoringHasBeenAsked == Spec => []MonitoringIsAsked
<1>1. Init => PipesInv /\ HostsKept /\ EarlyInv
  <2> SUFFICES ASSUME Init PROVE PipesInv /\ HostsKept /\ EarlyInv
    OBVIOUS
  <2>1. PipesInv /\ FdsArePipes
    BY InitPipes DEF Init
  <2>2. HostsKept /\ MonitoringAsked
    BY DEF Init, HostsKept, HostStates, MonitoringAsked
  <2>3. alive = Drivers /\ Queued /\ ReadyToRead /\ deaths = 0
    <3>1. /\ alive = Drivers /\ ready = {} /\ deaths = 0
          /\ requests = [d \in Drivers |-> Nothing] /\ answers = requests
      BY DEF Init, MadInit
    <3>2. Nothing \in Bags
      BY DEF Nothing, Bags
    <3> QED
      BY <3>1, <3>2 DEF Queued, ReadyToRead
  <2> QED
    BY <2>1, <2>2, <2>3 DEF EarlyInv, Early
<1>2. PipesInv /\ HostsKept /\ EarlyInv /\ [Next]_vars => (PipesInv /\ HostsKept /\ EarlyInv)'
  BY PipesKept, NextKeeps, EarlyKept
<1>3. EarlyInv => MonitoringIsAsked
  BY DEF EarlyInv, Early, MonitoringAsked, MonitoringIsAsked
<1> QED
  BY <1>1, <1>2, <1>3, PTL DEF Spec
=============================================================================
