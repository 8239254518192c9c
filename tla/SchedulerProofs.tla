--------------------------- MODULE SchedulerProofs ---------------------------
(***************************************************************************)
(* What the scheduler promises its hosts holds for any VMs, hosts, CPU,    *)
(* requirements, ranks and bounds.                                         *)
(*                                                                         *)
(* The properties compare counters with sums over sets of VMs, and sums    *)
(* are recursive: the first part shows, by induction over the subsets of   *)
(* a finite set, that the sum of the model is one, whatever element it     *)
(* takes first.                                                            *)
(***************************************************************************)
EXTENDS Scheduler, FiniteSetTheorems, TLAPS

-----------------------------------------------------------------------------
(* Induction.  The set of what is shown stands for the predicate.          *)

\* A set of numbers that has 0 and, with a number, the next has them all.
LEMMA Numbers ==
  ASSUME NEW T \in SUBSET Nat, 0 \in T, \A n \in T : n + 1 \in T
  PROVE  T = Nat
<1> SUFFICES ASSUME Nat \ T # {} PROVE FALSE
  OBVIOUS
<1>1. PICK n \in Nat \ T : \A m \in Nat \ T : ~ (<<m, n>> \in OpToRel(<, Nat))
  <2> Nat \ T \subseteq Nat
    OBVIOUS
  <2> QED BY WFMin, NatLessThanWellFounded
<1>2. n - 1 \in Nat /\ n - 1 < n /\ (n - 1) + 1 = n
  <2>1. n \in Nat /\ n # 0
    OBVIOUS
  <2> QED BY <2>1
<1>3. <<n - 1, n>> \in OpToRel(<, Nat)
  BY <1>1, <1>2 DEF OpToRel
<1>4. n - 1 \in T
  BY <1>1, <1>2, <1>3
<1>5. n \in T
  BY <1>2, <1>4
<1> QED BY <1>1, <1>5

\* The same for the subsets of a finite set.
LEMMA Subsets ==
  ASSUME NEW S, IsFiniteSet(S), NEW Good \in SUBSET SUBSET S,
         \A T \in SUBSET S : (\A U \in SUBSET T : U # T => U \in Good) => T \in Good
  PROVE  S \in Good
<1> DEFINE Bad == (SUBSET S) \ Good
<1> SUFFICES ASSUME Bad # {} PROVE FALSE
  OBVIOUS
<1>1. FiniteSubsetsOf(S) = SUBSET S
  BY FS_FiniteSubsetsOfFinite
<1>2. PICK T \in Bad : \A U \in Bad : ~ (<<U, T>> \in StrictSubsetOrdering(S))
  <2>1. IsWellFoundedOn(StrictSubsetOrdering(S), SUBSET S)
    <3>1. IsWellFoundedOn(StrictSubsetOrdering(S), FiniteSubsetsOf(S))
      BY FS_StrictSubsetOrderingWellFounded, Zenon
    <3> QED BY <1>1, <3>1, Zenon
  <2>2. Bad \subseteq SUBSET S
    OBVIOUS
  <2> HIDE DEF Bad
  <2> QED BY <2>1, <2>2, WFMin
<1>3. \A U \in SUBSET T : U # T => U \in Good
  BY <1>2 DEF StrictSubsetOrdering
<1> QED BY <1>2, <1>3

-----------------------------------------------------------------------------
(* Sums                                                                    *)

\* What MapThenSumSet takes first.
First(S) == CHOOSE x \in S : TRUE

\* Adds(f, S): on the subsets of S, f is the sum that MapThenSumSet defines.
Adds(f, S) ==
  f = [s \in SUBSET S |-> IF s = {} THEN 0 ELSE Cpu(First(s)) + f[s \ {First(s)}]]

LEMMA CpuType == \A v \in VMs : Cpu(v) \in Nat
BY ClusterAssumption DEF ClusterAssumption, Cpu

LEMMA SumIsChosen == ASSUME NEW S PROVE CpuOf(S) = (CHOOSE f : Adds(f, S))[S]
BY DEF CpuOf, MapThenSumSet, MapThenFoldSet, First, Adds

\* There is such a function: by induction on the size up to which it is right.
LEMMA SumExists ==
  ASSUME NEW S, IsFiniteSet(S)
  PROVE  \E f : Adds(f, S)
<1> DEFINE UpTo(f, n) ==
      f = [s \in SUBSET S |-> IF s = {} \/ Cardinality(s) > n THEN 0
                              ELSE Cpu(First(s)) + f[s \ {First(s)}]]
           Sizes == {n \in Nat : \E f : UpTo(f, n)}
<1>1. \A s \in SUBSET S :
        /\ IsFiniteSet(s) /\ Cardinality(s) \in Nat /\ Cardinality(s) <= Cardinality(S)
        /\ Cardinality(s) = 0 <=> s = {}
        /\ s # {} => First(s) \in s /\ Cardinality(s \ {First(s)}) = Cardinality(s) - 1
  <2> TAKE s \in SUBSET S
  <2>1. IsFiniteSet(s) /\ Cardinality(s) <= Cardinality(S)
    BY FS_Subset
  <2>2. s # {} => First(s) \in s
    BY DEF First
  <2> QED BY <2>1, <2>2, FS_CardinalityType, FS_EmptySet, FS_RemoveElement
<1>2. 0 \in Sizes
  <2> DEFINE z == [s \in SUBSET S |-> 0]
  <2>1. UpTo(z, 0)
    BY <1>1
  <2> QED BY <2>1
<1>3. \A n \in Sizes : n + 1 \in Sizes
  <2> SUFFICES ASSUME NEW n \in Nat, NEW f, UpTo(f, n) PROVE n + 1 \in Sizes
    OBVIOUS
  <2> DEFINE g == [s \in SUBSET S |-> IF s = {} \/ Cardinality(s) > n + 1 THEN 0
                                      ELSE Cpu(First(s)) + f[s \ {First(s)}]]
  <2>1. \A s \in SUBSET S : Cardinality(s) <= n => g[s] = f[s]
    <3> SUFFICES ASSUME NEW s \in SUBSET S, Cardinality(s) <= n PROVE g[s] = f[s]
      OBVIOUS
    <3>1. Cardinality(s) \in Nat
      BY <1>1
    <3>2. f[s] = IF s = {} \/ Cardinality(s) > n THEN 0 ELSE Cpu(First(s)) + f[s \ {First(s)}]
      OBVIOUS
    <3>3. g[s] = IF s = {} \/ Cardinality(s) > n + 1 THEN 0 ELSE Cpu(First(s)) + f[s \ {First(s)}]
      OBVIOUS
    <3> HIDE DEF g
    <3> QED BY <3>1, <3>2, <3>3
  <2>2. \A s \in SUBSET S : s # {} /\ Cardinality(s) <= n + 1 =>
          f[s \ {First(s)}] = g[s \ {First(s)}]
    <3> SUFFICES ASSUME NEW s \in SUBSET S, s # {}, Cardinality(s) <= n + 1
                 PROVE  f[s \ {First(s)}] = g[s \ {First(s)}]
      OBVIOUS
    <3>1. s \ {First(s)} \in SUBSET S /\ Cardinality(s \ {First(s)}) <= n
      BY <1>1
    <3> HIDE DEF g
    <3> QED BY <3>1, <2>1
  <2>3. UpTo(g, n + 1)
    <3>1. \A s \in SUBSET S :
            (IF s = {} \/ Cardinality(s) > n + 1 THEN 0 ELSE Cpu(First(s)) + f[s \ {First(s)}])
            = (IF s = {} \/ Cardinality(s) > n + 1 THEN 0 ELSE Cpu(First(s)) + g[s \ {First(s)}])
      <4> TAKE s \in SUBSET S
      <4>1. Cardinality(s) \in Nat
        BY <1>1
      <4>2. s # {} /\ ~ (Cardinality(s) > n + 1) => f[s \ {First(s)}] = g[s \ {First(s)}]
        <5> HIDE DEF g, UpTo, Sizes
        <5> QED BY <4>1, <2>2
      <4> HIDE DEF g, UpTo, Sizes
      <4> QED BY <4>2, Zenon
    <3> QED BY <3>1, Zenon
  <2> n + 1 \in Nat
    OBVIOUS
  <2> HIDE DEF g, UpTo
  <2> QED BY <2>3
<1>4. Sizes = Nat
  <2> Sizes \in SUBSET Nat
    OBVIOUS
  <2> HIDE DEF Sizes
  <2> QED BY <1>2, <1>3, Numbers
<1>5. Cardinality(S) \in Nat
  BY FS_CardinalityType
<1>6. PICK f : UpTo(f, Cardinality(S))
  BY <1>4, <1>5
<1>7. Adds(f, S)
  <2>1. \A s \in SUBSET S : ~ (Cardinality(s) > Cardinality(S))
    <3> HIDE DEF UpTo
    <3> SUFFICES ASSUME NEW s \in SUBSET S PROVE ~ (Cardinality(s) > Cardinality(S))
      OBVIOUS
    <3> Cardinality(s) \in Nat /\ Cardinality(s) <= Cardinality(S)
      BY <1>1
    <3> QED BY <1>5
  <2>2. \A s \in SUBSET S :
          (IF s = {} \/ Cardinality(s) > Cardinality(S) THEN 0 ELSE Cpu(First(s)) + f[s \ {First(s)}])
          = (IF s = {} THEN 0 ELSE Cpu(First(s)) + f[s \ {First(s)}])
    BY <2>1
  <2> QED BY <2>2, <1>6, Zenon DEF Adds
<1> QED BY <1>7

\* Such functions agree where both are defined.
LEMMA SumsAgree ==
  ASSUME NEW S, NEW T, IsFiniteSet(S), T \subseteq S, NEW f, NEW g, Adds(f, S), Adds(g, T)
  PROVE  f[T] = g[T]
<1> DEFINE Good == {U \in SUBSET T : f[U] = g[U]}
<1>1. ASSUME NEW U \in SUBSET T, \A W \in SUBSET U : W # U => W \in Good
      PROVE  U \in Good
  <2>1. CASE U = {}
    BY <2>1 DEF Adds
  <2>2. CASE U # {}
    <3> DEFINE W == U \ {First(U)}
    <3>1. First(U) \in U
      BY <2>2 DEF First
    <3>2. W \in SUBSET U /\ W # U
      BY <3>1
    <3>3. f[W] = g[W]
      BY <1>1, <3>2
    <3>4. f[U] = Cpu(First(U)) + f[W] /\ g[U] = Cpu(First(U)) + g[W]
      BY <2>2 DEF Adds
    <3> QED BY <3>3, <3>4
  <2> QED BY <2>1, <2>2
<1>2. IsFiniteSet(T)
  BY FS_Subset
<1>3. Good \in SUBSET SUBSET T
  OBVIOUS
<1>4. T \in Good
  <2> HIDE DEF Good
  <2> QED BY <1>1, <1>2, <1>3, Subsets
<1> QED BY <1>4

LEMMA SumOfNone == CpuOf({}) = 0
<1>1. Adds(CHOOSE f : Adds(f, {}), {})
  BY SumExists, FS_EmptySet
<1> QED BY <1>1, SumIsChosen DEF Adds

LEMMA SumOfFirst ==
  ASSUME NEW S, IsFiniteSet(S), S # {}
  PROVE  First(S) \in S /\ CpuOf(S) = Cpu(First(S)) + CpuOf(S \ {First(S)})
<1> DEFINE T == S \ {First(S)}
<1>1. First(S) \in S
  BY DEF First
<1>2. IsFiniteSet(T)
  BY FS_RemoveElement
<1>3. PICK f : f = (CHOOSE e : Adds(e, S)) /\ Adds(f, S)
  BY SumExists
<1>4. PICK g : g = (CHOOSE e : Adds(e, T)) /\ Adds(g, T)
  BY <1>2, SumExists
<1>5. f[T] = g[T]
  BY <1>3, <1>4, SumsAgree
<1>6. f[S] = Cpu(First(S)) + f[T]
  BY <1>3 DEF Adds
<1> QED BY <1>1, <1>3, <1>4, <1>5, <1>6, SumIsChosen

LEMMA SumType ==
  ASSUME NEW S, IsFiniteSet(S), S \subseteq VMs
  PROVE  CpuOf(S) \in Nat
<1> DEFINE Good == {T \in SUBSET S : CpuOf(T) \in Nat}
<1>1. ASSUME NEW T \in SUBSET S, \A U \in SUBSET T : U # T => U \in Good
      PROVE  T \in Good
  <2>1. CASE T = {}
    BY <2>1, SumOfNone
  <2>2. CASE T # {}
    <3>1. IsFiniteSet(T)
      BY FS_Subset
    <3>2. First(T) \in T /\ CpuOf(T) = Cpu(First(T)) + CpuOf(T \ {First(T)})
      BY <2>2, <3>1, SumOfFirst
    <3>3. Cpu(First(T)) \in Nat
      BY <3>2, CpuType
    <3>4. CpuOf(T \ {First(T)}) \in Nat
      BY <1>1, <3>2
    <3> QED BY <3>2, <3>3, <3>4
  <2> QED BY <2>1, <2>2
<1>2. Good \in SUBSET SUBSET S
  OBVIOUS
<1> HIDE DEF Good
<1>3. S \in Good
  BY <1>1, <1>2, Subsets
<1> QED BY <1>3 DEF Good

\* Whatever element the sum begins with: it is that of the others and of any one.
LEMMA SumWithout ==
  ASSUME NEW S, IsFiniteSet(S), S \subseteq VMs
  PROVE  \A v \in S : CpuOf(S) = Cpu(v) + CpuOf(S \ {v})
<1> DEFINE Good == {T \in SUBSET S : \A v \in T : CpuOf(T) = Cpu(v) + CpuOf(T \ {v})}
<1>1. ASSUME NEW T \in SUBSET S, \A U \in SUBSET T : U # T => U \in Good
      PROVE  T \in Good
  <2> SUFFICES ASSUME NEW v \in T PROVE CpuOf(T) = Cpu(v) + CpuOf(T \ {v})
    OBVIOUS
  <2> DEFINE c == First(T)
  <2>1. IsFiniteSet(T)
    BY FS_Subset
  <2>2. c \in T /\ CpuOf(T) = Cpu(c) + CpuOf(T \ {c})
    BY <2>1, SumOfFirst
  <2>3. CASE v = c
    BY <2>2, <2>3
  <2>4. CASE v # c
    <3> HIDE DEF c
    <3>1. CpuOf(T \ {c}) = Cpu(v) + CpuOf((T \ {c}) \ {v})
      BY <1>1, <2>2, <2>4
    <3>2. CpuOf(T \ {v}) = Cpu(c) + CpuOf((T \ {v}) \ {c})
      BY <1>1, <2>2, <2>4
    <3>3. CpuOf((T \ {c}) \ {v}) = CpuOf((T \ {v}) \ {c})
      <4>1. (T \ {c}) \ {v} = (T \ {v}) \ {c}
        OBVIOUS
      <4> QED BY <4>1
    <3>4. Cpu(c) \in Nat /\ Cpu(v) \in Nat
      BY <2>2, CpuType
    <3>5. CpuOf((T \ {c}) \ {v}) \in Nat
      <4>1. IsFiniteSet((T \ {c}) \ {v})
        BY <2>1, FS_RemoveElement
      <4> QED BY <4>1, SumType
    <3> HIDE DEF Good
    <3>6. CpuOf(T) = Cpu(c) + (Cpu(v) + CpuOf((T \ {c}) \ {v}))
      BY <2>2, <3>1
    <3>7. CpuOf(T \ {v}) = Cpu(c) + CpuOf((T \ {c}) \ {v})
      BY <3>2, <3>3
    <3> QED BY <3>6, <3>7, <3>4, <3>5
  <2> QED BY <2>3, <2>4
<1>2. Good \in SUBSET SUBSET S
  OBVIOUS
<1> HIDE DEF Good
<1>3. S \in Good
  BY <1>1, <1>2, Subsets
<1> QED BY <1>3 DEF Good

\* More VMs ask for at least as much.
LEMMA SumOfFewer ==
  ASSUME NEW S, IsFiniteSet(S), S \subseteq VMs
  PROVE  \A T \in SUBSET S : CpuOf(T) <= CpuOf(S)
<1> DEFINE Good == {W \in SUBSET S : \A T \in SUBSET W : CpuOf(T) <= CpuOf(W)}
<1>1. ASSUME NEW W \in SUBSET S, \A U \in SUBSET W : U # W => U \in Good
      PROVE  W \in Good
  <2> SUFFICES ASSUME NEW T \in SUBSET W PROVE CpuOf(T) <= CpuOf(W)
    OBVIOUS
  <2>1. IsFiniteSet(W) /\ CpuOf(W) \in Nat
    BY FS_Subset, SumType
  <2>2. CASE T = W
    BY <2>1, <2>2
  <2>3. CASE T # W
    <3>1. PICK v \in W : v \notin T
      BY <2>3
    <3>2. CpuOf(T) <= CpuOf(W \ {v})
      BY <1>1, <3>1
    <3>3. CpuOf(W) = Cpu(v) + CpuOf(W \ {v})
      BY <2>1, SumWithout
    <3>4. Cpu(v) \in Nat
      BY CpuType
    <3>5. CpuOf(W \ {v}) \in Nat /\ CpuOf(T) \in Nat
      <4>1. IsFiniteSet(W \ {v}) /\ IsFiniteSet(T)
        BY <2>1, FS_Subset
      <4> QED BY <4>1, SumType
    <3> QED BY <3>2, <3>3, <3>4, <3>5
  <2> QED BY <2>2, <2>3
<1>2. Good \in SUBSET SUBSET S
  OBVIOUS
<1> HIDE DEF Good
<1>3. S \in Good
  BY <1>1, <1>2, Subsets
<1> QED BY <1>3 DEF Good
-----------------------------------------------------------------------------
(* The invariant                                                           *)

LEMMA ClusterTypeStep ==
  ASSUME ClusterTypeOK, ClusterNext \/ UNCHANGED clusterVars
  PROVE  ClusterTypeOK'
<1> USE DEF ClusterTypeOK
<1>1. ASSUME NEW v \in VMs, Charge(v) PROVE ClusterTypeOK'
  <2>1. Cpu(v) \in Nat
    BY CpuType
  <2>2. share' \in [Hosts -> [max : Nat, free : Nat, usage : Int]]
    <3>1. CASE hid[v] \in Hosts
      <4>1. share[hid[v]].usage + Cpu(v) \in Int
        BY <2>1, <3>1
      <4> QED BY <1>1, <3>1, <4>1 DEF Charge, AddShare
    <3>2. CASE hid[v] \notin Hosts
      BY <1>1, <3>2 DEF Charge
    <3> QED BY <3>1, <3>2
  <2> QED BY <1>1, <2>2 DEF Charge
<1>2. ASSUME NEW v \in VMs, Leave(v) PROVE ClusterTypeOK'
  <2>1. Cpu(v) \in Nat
    BY CpuType
  <2>2. share' \in [Hosts -> [max : Nat, free : Nat, usage : Int]]
    <3>1. CASE hid[v] \in Hosts
      <4>1. share[hid[v]].usage - Cpu(v) \in Int
        BY <2>1, <3>1
      <4> QED BY <1>2, <3>1, <4>1 DEF Leave, DelShare
    <3>2. CASE hid[v] \notin Hosts
      BY <1>2, <3>2 DEF Leave
    <3> QED BY <3>1, <3>2
  <2> QED BY <1>2, <2>2 DEF Leave, States
<1>3. ASSUME NEW v \in VMs, Resume(v) PROVE ClusterTypeOK'
  <2>1. user' \in 0..MaxUser
    BY <1>3, ClusterAssumption DEF Resume, UserRequest, ClusterAssumption
  <2> QED BY <1>3, <2>1 DEF Resume, States
<1>4. ASSUME NEW v \in VMs, NEW h \in Hosts, DeployByHand(v, h) PROVE ClusterTypeOK'
  <2>1. user' \in 0..MaxUser
    BY <1>4, ClusterAssumption DEF DeployByHand, UserRequest, ClusterAssumption
  <2> QED BY <1>4, <2>1 DEF DeployByHand, DeployCall, Deploys, States
<1>5. ASSUME NEW h \in Hosts, Report PROVE reports' \in 0..MaxReports
  BY <1>5, ClusterAssumption DEF Report, ClusterAssumption
<1>6. ASSUME NEW h \in Hosts, NEW success \in BOOLEAN, Monitored(h, success) PROVE ClusterTypeOK'
  <2>1. Touch(hstate[h], success) \in HostStates \cup {NONE}
    BY <1>6 DEF Monitored, InPool, Touch, HostStates, NONE, isEnabled
  <2>2. Total[h] \in Nat /\ Free \subseteq Nat
    BY ClusterAssumption DEF ClusterAssumption
  <2>3. share' \in [Hosts -> [max : Nat, free : Nat, usage : Int]]
    BY <1>6, <2>2 DEF Monitored, UpdateInfo
  <2> QED BY <1>5, <1>6, <2>1, <2>3 DEF Monitored
<1>7. ASSUME NEW h \in Hosts, NEW enable \in BOOLEAN, HostEnable(h, enable) PROVE ClusterTypeOK'
  BY <1>5, <1>7 DEF HostEnable, HostStates
<1>8. ASSUME NEW h \in Hosts, HostDelete(h) PROVE ClusterTypeOK'
  BY <1>5, <1>8 DEF HostDelete, EmptyShare
<1>9. CASE UNCHANGED clusterVars
  BY <1>9 DEF clusterVars
<1> QED BY <1>1, <1>2, <1>3, <1>4, <1>6, <1>7, <1>8, <1>9 DEF ClusterNext

LEMMA CallType ==
  ASSUME ClusterTypeOK, NEW v \in VMs, NEW h \in Hosts, Call(v, h)
  PROVE  ClusterTypeOK'
BY DEF ClusterTypeOK, Call, DeployCall, Deploys, States

LEMMA TypeStep == TypeOK /\ [Next]_vars => TypeOK'
<1> SUFFICES ASSUME TypeOK, [Next]_vars PROVE TypeOK'
  OBVIOUS
<1> USE DEF TypeOK
<1>1. CASE ClusterNext /\ UNCHANGED schedVars
  BY <1>1, ClusterTypeStep DEF schedVars
<1>2. CASE SetUpHosts
  BY <1>2, ClusterTypeStep, SchedulerAssumption DEF SetUpHosts, GiveUp, Fails, Enabled
<1>3. CASE SetUpVMs
  BY <1>3, ClusterTypeStep, SchedulerAssumption DEF SetUpVMs, GiveUp, Fails
<1>4. CASE Match \/ RoundEnds
  BY <1>4, ClusterTypeStep DEF Match, RoundEnds
<1>5. ASSUME NEW h \in Hosts, LoadHost(h) PROVE TypeOK'
  <2>1. share[h] \in [max : Nat, free : Nat, usage : Int]
    BY DEF ClusterTypeOK
  <2>2. DOMAIN copies' \subseteq Hosts
    BY <1>5 DEF LoadHost
  <2>3. \A g \in DOMAIN copies' : copies'[g] \in [max : Nat, free : Nat, usage : Int]
    BY <1>5, <2>1 DEF LoadHost
  <2> QED BY <1>5, <2>2, <2>3, ClusterTypeStep DEF LoadHost
<1>6. ASSUME NEW v \in VMs, Dispatch(v) PROVE TypeOK'
  <2>1. Cpu(v) \in Nat
    BY CpuType
  <2>2. Best(v) \subseteq DOMAIN copies /\ Best(v) \subseteq Hosts
    BY DEF Best
  <2>3. ClusterTypeOK'
    BY <1>6, <2>2, CallType, ClusterTypeStep DEF Dispatch
  <2>4. \/ copies' = copies
        \/ \E h \in DOMAIN copies : copies' = [copies EXCEPT ![h] = AddShare(@, Cpu(v))]
    BY <1>6, <2>2 DEF Dispatch
  <2>5. /\ DOMAIN copies' \subseteq Hosts
        /\ \A g \in DOMAIN copies' : copies'[g] \in [max : Nat, free : Nat, usage : Int]
    BY <2>1, <2>4 DEF AddShare
  <2>6. errors' \in 0..MaxErrors /\ pending' \subseteq VMs
    BY <1>6, SchedulerAssumption DEF Dispatch, Fails
  <2> QED BY <1>6, <2>3, <2>5, <2>6 DEF Dispatch
<1>7. CASE UNCHANGED vars
  BY <1>7, ClusterTypeStep DEF vars, schedVars
<1> QED BY <1>1, <1>2, <1>3, <1>4, <1>5, <1>6, <1>7 DEF Next, Round, Oned

\* The VMs of the scheduler's choice that are on their hosts or on their way.
Chosen == (charged \cup promised) \ byHand

\* A VM that is active or suspended has a host; VMs are charged one at a time.
Placed ==
  /\ IsFiniteSet(charged) /\ IsFiniteSet(promised)
  /\ \A v \in VMs : state[v] \in {"ACTIVE", "SUSPENDED"} => hid[v] \in Hosts

\* A host has been reported on, and has all it has, or it has not.
Maxima == \A h \in Hosts : share[h].max \in {0, Total[h]}

\* Until the round dispatches, nothing of its choice is on its way.
RoundIsPrompt ==
  /\ phase \in {"hosts", "load"} => promised \subseteq byHand
  /\ phase = "hosts" => DOMAIN copies = {}

\* The copy of a host counts at least the VMs of the scheduler's choice, and
\* gives the host no more room than it has.
CopiesCover ==
  phase \in {"hosts", "load", "dispatch"} =>
    \A h \in DOMAIN copies :
      InPool(h) => /\ CpuOf(On(h, Chosen)) <= copies[h].usage
                   /\ copies[h].max <= share[h].max

Inv ==
  /\ TypeOK /\ Placed /\ Maxima /\ HostUsage
  /\ LcmIsPrompt => RoundIsPrompt /\ CopiesCover /\ SchedulerFits

Share == [max : Nat, free : Nat, usage : Int]

\* What a host has and has free is reported; what its VMs use is not.
LEMMA UpdateInfoReports ==
  ASSUME NEW s \in Share, NEW max \in Nat, NEW free \in Nat
  PROVE  /\ UpdateInfo(s, max, free) \in Share
         /\ UpdateInfo(s, max, free).max = max
         /\ UpdateInfo(s, max, free).usage = s.usage
BY DEF Share, UpdateInfo

LEMMA InitInv == Init => Inv
<1> SUFFICES ASSUME Init PROVE Inv
  OBVIOUS
<1> USE DEF Init, ClusterInit
<1>1. share \in [Hosts -> [max : Nat, free : Nat, usage : Int]]
      /\ \A h \in Hosts : share[h].max \in {0, Total[h]} /\ share[h].usage = 0
  <2>1. EmptyShare \in Share /\ EmptyShare.max = 0 /\ EmptyShare.usage = 0
    BY DEF EmptyShare, Share
  <2>2. \A h \in Hosts : Total[h] \in Nat
    BY ClusterAssumption DEF ClusterAssumption
  <2>3. \A h \in Hosts : LET new == UpdateInfo(EmptyShare, Total[h], Total[h])
                         IN  new \in Share /\ new.max = Total[h] /\ new.usage = 0
    BY <2>1, <2>2, UpdateInfoReports
  <2> HIDE DEF Share
  <2>4. share \in [Hosts -> Share]
    BY <2>1, <2>3
  <2> QED BY <2>1, <2>3, <2>4 DEF Share
<1>2. TypeOK
  <2>1. 0 \in 0..MaxUser /\ 0 \in 0..MaxReports /\ 0 \in 0..MaxErrors
    BY ClusterAssumption, SchedulerAssumption DEF ClusterAssumption
  <2>2. hstate \in [Hosts -> HostStates \cup {NONE}]
    BY DEF HostStates
  <2> QED BY <1>1, <2>1, <2>2 DEF TypeOK, ClusterTypeOK, States
<1>3. \A h \in Hosts : On(h, charged) = {} /\ On(h, Chosen) = {}
  BY DEF On, Chosen
<1>4. Placed
  BY FS_EmptySet DEF Placed
<1>5. HostUsage
  BY <1>1, <1>3, SumOfNone DEF HostUsage
<1>6. SchedulerFits
  <2>1. \A h \in Hosts : Total[h] \in Nat
    BY ClusterAssumption DEF ClusterAssumption
  <2>2. \A h \in Hosts : CpuOf(On(h, (charged \cup promised) \ byHand)) = 0
    BY <1>3, SumOfNone DEF Chosen
  <2> QED BY <1>1, <2>1, <2>2 DEF SchedulerFits
<1> QED BY <1>1, <1>2, <1>4, <1>5, <1>6 DEF Inv, Maxima, RoundIsPrompt, CopiesCover

-----------------------------------------------------------------------------
(* Steps of oned                                                           *)

LEMMA PlacedStep ==
  ASSUME TypeOK, Placed, ClusterNext
  PROVE  Placed'
<1> USE DEF TypeOK, ClusterTypeOK, Placed
<1>1. \A v \in VMs : IsFiniteSet(charged \cup {v}) /\ IsFiniteSet(promised \cup {v})
                     /\ IsFiniteSet(charged \ {v}) /\ IsFiniteSet(promised \ {v})
  BY FS_AddElement, FS_RemoveElement
<1>2. ASSUME NEW v \in VMs, Charge(v) PROVE Placed'
  BY <1>1, <1>2 DEF Charge
<1>3. ASSUME NEW v \in VMs, Leave(v) PROVE Placed'
  BY <1>1, <1>3 DEF Leave
<1>4. ASSUME NEW v \in VMs, Resume(v) PROVE Placed'
  BY <1>1, <1>4 DEF Resume
<1>5. ASSUME NEW v \in VMs, NEW h \in Hosts, DeployByHand(v, h) PROVE Placed'
  BY <1>1, <1>5 DEF DeployByHand, DeployCall
<1>6. ASSUME NEW h \in Hosts, \/ \E success \in BOOLEAN : Monitored(h, success)
                             \/ \E enable \in BOOLEAN : HostEnable(h, enable)
                             \/ HostDelete(h)
      PROVE  Placed'
  BY <1>6 DEF Monitored, HostEnable, HostDelete
<1> QED BY <1>2, <1>3, <1>4, <1>5, <1>6 DEF ClusterNext

\* oned does not put VMs of the scheduler's choice anywhere, nor takes from a
\* host what it has; a host that is deleted stays so.
LEMMA OnedTakesAway ==
  ASSUME TypeOK, Placed, Maxima, ClusterNext
  PROVE  /\ \A h \in Hosts : On(h, Chosen)' \subseteq On(h, Chosen)
         /\ \A h \in Hosts : InPool(h)' =>
              InPool(h) /\ share'[h].max \in {share[h].max, Total[h]}
         /\ Maxima'
         /\ promised \subseteq byHand => promised' \subseteq byHand'
<1> USE DEF TypeOK, ClusterTypeOK, Chosen, On, InPool, Maxima
<1>1. ASSUME NEW v \in VMs, Charge(v)
      PROVE  \A h \in Hosts : share'[h].max = share[h].max
  BY <1>1 DEF Charge, AddShare
<1>2. ASSUME NEW v \in VMs, Leave(v)
      PROVE  \A h \in Hosts : share'[h].max = share[h].max
  BY <1>2 DEF Leave, DelShare
<1>3. CASE \E v \in VMs : Charge(v)
  BY <1>1, <1>3 DEF Charge
<1>4. CASE \E v \in VMs : Leave(v)
  <2> PICK v \in VMs : Leave(v)
    BY <1>4
  <2>1. \A h \in Hosts : On(h, Chosen)' \subseteq On(h, Chosen)
    BY DEF Leave
  <2>2. \A h \in Hosts : share'[h].max = share[h].max
    BY <1>2
  <2>3. promised \subseteq byHand => promised' \subseteq byHand'
    BY DEF Leave
  <2>4. hstate' = hstate
    BY DEF Leave
  <2> HIDE DEF On, Chosen, TypeOK
  <2> QED BY <2>1, <2>2, <2>3, <2>4
<1>5. CASE \E v \in VMs : Resume(v)
  BY <1>5 DEF Resume
<1>6. CASE \E v \in VMs, h \in Hosts : DeployByHand(v, h)
  BY <1>6 DEF DeployByHand, DeployCall
<1>7. CASE \E h \in Hosts, success \in BOOLEAN : Monitored(h, success)
  <2> PICK h \in Hosts, success \in BOOLEAN : Monitored(h, success)
    BY <1>7
  <2>2. \A g \in Hosts : InPool(g)' => InPool(g)
    BY DEF Monitored
  <2>3. \A g \in Hosts : share'[g].max \in {share[g].max, Total[g]}
    <3> TAKE g \in Hosts
    <3>1. share[g] \in [max : Nat, free : Nat, usage : Int]
      OBVIOUS
    <3>2. CASE g = h /\ success
      <4>1. PICK f \in Free : share'[h] = [share[h] EXCEPT !.max = Total[h], !.free = f]
        BY <3>2 DEF Monitored, UpdateInfo
      <4> QED BY <3>1, <3>2, <4>1
    <3>3. CASE ~ (g = h /\ success)
      BY <3>3 DEF Monitored
    <3> QED BY <3>2, <3>3
  <2> QED BY <2>2, <2>3 DEF Monitored
<1>8. CASE \E h \in Hosts, enable \in BOOLEAN : HostEnable(h, enable)
  BY <1>8 DEF HostEnable
<1>9. CASE \E h \in Hosts : HostDelete(h)
  BY <1>9 DEF HostDelete, EmptyShare
<1> QED BY <1>3, <1>4, <1>5, <1>6, <1>7, <1>8, <1>9 DEF ClusterNext

LEMMA OnIsFinite ==
  ASSUME TypeOK, Placed, NEW h
  PROVE  /\ IsFiniteSet(On(h, charged)) /\ On(h, charged) \subseteq VMs
         /\ IsFiniteSet(On(h, Chosen)) /\ On(h, Chosen) \subseteq VMs
<1>1. IsFiniteSet(charged \cup promised)
  BY FS_Union DEF Placed
<1>2. On(h, charged) \in SUBSET (charged \cup promised)
      /\ On(h, Chosen) \in SUBSET (charged \cup promised)
  BY DEF On, Chosen
<1> QED BY <1>1, <1>2, FS_Subset DEF TypeOK, ClusterTypeOK

\* What a host counts changes with the VMs that are charged to it.
LEMMA UsageStep ==
  ASSUME TypeOK, Placed, HostUsage, ClusterNext
  PROVE  HostUsage'
<1> USE DEF TypeOK, ClusterTypeOK, InPool
<1>1. ASSUME NEW v \in VMs, Charge(v) PROVE HostUsage'
  <2>1. hid[v] \in Hosts /\ v \notin charged
    BY <1>1 DEF Charge, Placed
  <2> SUFFICES ASSUME NEW h \in Hosts, InPool(h)
               PROVE  share'[h].usage = CpuOf(On(h, charged)')
    BY <1>1 DEF HostUsage, Charge
  <2>2. share[h].usage = CpuOf(On(h, charged))
    BY DEF HostUsage
  <2>3. CASE h # hid[v]
    <3>1. On(h, charged)' = On(h, charged)
      BY <1>1, <2>3 DEF On, Charge
    <3>2. share'[h] = share[h]
      BY <1>1, <2>1, <2>3 DEF Charge
    <3> QED BY <2>2, <3>1, <3>2
  <2>4. CASE h = hid[v]
    <3>1. On(h, charged)' = On(h, charged) \cup {v} /\ v \notin On(h, charged)
      BY <1>1, <2>1, <2>4 DEF On, Charge
    <3>2. share'[h].usage = share[h].usage + Cpu(v)
      BY <1>1, <2>1, <2>4 DEF Charge, AddShare
    <3>3. CpuOf(On(h, charged) \cup {v}) = Cpu(v) + CpuOf(On(h, charged))
      <4> DEFINE S == On(h, charged) \cup {v}
      <4>1. IsFiniteSet(S) /\ S \subseteq VMs
        BY OnIsFinite, FS_AddElement
      <4>2. S \ {v} = On(h, charged)
        BY <3>1
      <4> QED BY <4>1, <4>2, SumWithout
    <3>4. CpuOf(On(h, charged)) \in Nat /\ Cpu(v) \in Nat
      BY OnIsFinite, SumType, CpuType
    <3> QED BY <2>2, <3>1, <3>2, <3>3, <3>4
  <2> QED BY <2>3, <2>4
<1>2. ASSUME NEW v \in VMs, Leave(v) PROVE HostUsage'
  <2>1. hid[v] \in Hosts /\ v \in charged
    BY <1>2 DEF Leave, Placed
  <2> SUFFICES ASSUME NEW h \in Hosts, InPool(h)
               PROVE  share'[h].usage = CpuOf(On(h, charged)')
    BY <1>2 DEF HostUsage, Leave
  <2>2. share[h].usage = CpuOf(On(h, charged))
    BY DEF HostUsage
  <2>3. On(h, charged)' = On(h, charged) \ {v}
    BY <1>2 DEF On, Leave
  <2>4. CASE h # hid[v]
    <3>1. On(h, charged)' = On(h, charged)
      BY <2>3, <2>4 DEF On
    <3>2. share'[h] = share[h]
      BY <1>2, <2>1, <2>4 DEF Leave
    <3> QED BY <2>2, <3>1, <3>2
  <2>5. CASE h = hid[v]
    <3>1. v \in On(h, charged)
      BY <2>1, <2>5 DEF On
    <3>2. share'[h].usage = share[h].usage - Cpu(v)
      BY <1>2, <2>1, <2>5 DEF Leave, DelShare
    <3>3. CpuOf(On(h, charged)) = Cpu(v) + CpuOf(On(h, charged) \ {v})
      BY <3>1, OnIsFinite, SumWithout
    <3>4. CpuOf(On(h, charged) \ {v}) \in Nat /\ Cpu(v) \in Nat
      <4>1. IsFiniteSet(On(h, charged) \ {v}) /\ On(h, charged) \ {v} \subseteq VMs
        BY OnIsFinite, FS_RemoveElement
      <4> QED BY <4>1, SumType, CpuType
    <3> QED BY <2>2, <2>3, <3>2, <3>3, <3>4
  <2> QED BY <2>4, <2>5
<1>3. ASSUME \A h \in Hosts : InPool(h)' => /\ InPool(h) /\ share'[h].usage = share[h].usage
                                          /\ On(h, charged)' = On(h, charged)
      PROVE  HostUsage'
  BY <1>3 DEF HostUsage
<1>4. CASE \E v \in VMs : Resume(v)
  BY <1>3, <1>4 DEF Resume, On
<1>5. CASE \E v \in VMs, h \in Hosts : DeployByHand(v, h)
  BY <1>3, <1>5 DEF DeployByHand, DeployCall, Deploys, On
<1>6. CASE \E h \in Hosts, success \in BOOLEAN : Monitored(h, success)
  <2> PICK h \in Hosts, success \in BOOLEAN : Monitored(h, success)
    BY <1>6
  <2>1. \A g \in Hosts : share'[g].usage = share[g].usage
    <3> TAKE g \in Hosts
    <3>1. CASE g = h /\ success
      <4>1. PICK f \in Free : share'[h] = UpdateInfo(share[h], Total[h], f)
        BY <3>1 DEF Monitored
      <4>2. f \in Nat /\ Total[h] \in Nat
        BY ClusterAssumption DEF ClusterAssumption
      <4>3. share[h] \in Share
        BY DEF Share
      <4>4. UpdateInfo(share[h], Total[h], f).usage = share[h].usage
        <5> HIDE DEF TypeOK, ClusterTypeOK
        <5> QED BY <4>2, <4>3, UpdateInfoReports
      <4> QED BY <3>1, <4>1, <4>4
    <3>2. CASE ~ (g = h /\ success)
      BY <3>2 DEF Monitored
    <3> QED BY <3>1, <3>2
  <2> QED BY <1>3, <2>1 DEF Monitored, On
<1>7. CASE \E h \in Hosts, enable \in BOOLEAN : HostEnable(h, enable)
  BY <1>3, <1>7 DEF HostEnable, On
<1>8. CASE \E h \in Hosts : HostDelete(h)
  BY <1>3, <1>8 DEF HostDelete, On
<1> QED BY <1>1, <1>2, <1>4, <1>5, <1>6, <1>7, <1>8 DEF ClusterNext

\* What oned does leaves a host that fits fitting, and the copies on the safe side.
LEMMA OnedStep ==
  ASSUME Inv, ClusterNext, UNCHANGED schedVars
  PROVE  Inv'
<1> USE DEF Inv
<1>1. TypeOK' /\ Placed' /\ HostUsage' /\ Maxima'
  BY TypeStep, PlacedStep, UsageStep, OnedTakesAway DEF Next, Oned
<1>2. \A h \in Hosts : InPool(h)' =>
        /\ InPool(h)
        /\ CpuOf(On(h, Chosen)') <= CpuOf(On(h, Chosen))
        /\ CpuOf(On(h, Chosen)') \in Nat /\ CpuOf(On(h, Chosen)) \in Nat
        /\ share[h].max \in Nat /\ share'[h].max \in Nat /\ share'[h].max >= share[h].max
  <2> SUFFICES ASSUME NEW h \in Hosts, InPool(h)'
               PROVE  /\ InPool(h)
                      /\ CpuOf(On(h, Chosen)') <= CpuOf(On(h, Chosen))
                      /\ CpuOf(On(h, Chosen)') \in Nat /\ CpuOf(On(h, Chosen)) \in Nat
                      /\ share[h].max \in Nat /\ share'[h].max \in Nat
                      /\ share'[h].max >= share[h].max
    OBVIOUS
  <2>1. InPool(h) /\ share'[h].max \in {share[h].max, Total[h]} /\ share[h].max \in {0, Total[h]}
    BY OnedTakesAway DEF Maxima
  <2>2. Total[h] \in Nat
    BY ClusterAssumption DEF ClusterAssumption
  <2>3. On(h, Chosen)' \in SUBSET On(h, Chosen)
    BY OnedTakesAway
  <2>4. IsFiniteSet(On(h, Chosen)) /\ On(h, Chosen) \subseteq VMs
    BY OnIsFinite
  <2>5. CpuOf(On(h, Chosen)') <= CpuOf(On(h, Chosen))
    BY <2>3, <2>4, SumOfFewer
  <2>6. CpuOf(On(h, Chosen)) \in Nat
    BY <2>4, SumType
  <2>7. CpuOf(On(h, Chosen)') \in Nat
    BY <2>3, <2>4, FS_Subset, SumType
  <2> QED BY <2>1, <2>2, <2>5, <2>6, <2>7
<1>3. ASSUME LcmIsPrompt PROVE RoundIsPrompt'
  BY <1>3, OnedTakesAway DEF RoundIsPrompt, schedVars
<1>4. ASSUME LcmIsPrompt PROVE SchedulerFits'
  <2> SUFFICES ASSUME NEW h \in Hosts, InPool(h)'
               PROVE  CpuOf(On(h, Chosen)') <= share'[h].max
    BY DEF SchedulerFits, Chosen
  <2>1. CpuOf(On(h, Chosen)) <= share[h].max
    BY <1>2, <1>4 DEF SchedulerFits, Chosen
  <2> QED BY <1>2, <2>1
<1>5. ASSUME LcmIsPrompt PROVE CopiesCover'
  <2> SUFFICES ASSUME phase \in {"hosts", "load", "dispatch"},
                      NEW h \in DOMAIN copies, InPool(h)'
               PROVE  /\ CpuOf(On(h, Chosen)') <= copies[h].usage
                      /\ copies[h].max <= share'[h].max
    BY DEF CopiesCover, schedVars
  <2>1. h \in Hosts /\ copies[h].usage \in Int /\ copies[h].max \in Nat
    BY DEF TypeOK
  <2>2. CpuOf(On(h, Chosen)) <= copies[h].usage /\ copies[h].max <= share[h].max
    BY <1>2, <1>5, <2>1 DEF CopiesCover
  <2> QED BY <1>2, <2>1, <2>2
<1> QED BY <1>1, <1>3, <1>4, <1>5

-----------------------------------------------------------------------------
(* Steps of the round                                                      *)

\* A step that leaves what oned has, the copies and what is on its way as they
\* are, and does not start a round.
LEMMA QuietStep ==
  ASSUME Inv, TypeOK', UNCHANGED <<clusterVars, copies>>,
         phase' \in {phase, "idle"} \/ (phase = "load" /\ phase' = "dispatch")
         \/ (phase = "hosts" /\ phase' = "load")
  PROVE  Inv'
<1> USE DEF Inv, clusterVars
<1>1. Placed' /\ Maxima' /\ HostUsage'
  BY DEF Placed, Maxima, HostUsage, InPool, On
<1>2. ASSUME LcmIsPrompt PROVE RoundIsPrompt' /\ CopiesCover' /\ SchedulerFits'
  BY <1>2 DEF RoundIsPrompt, CopiesCover, SchedulerFits, InPool, On, Chosen
<1> QED BY <1>1, <1>2

\* A round starts with no copies, and with nothing on its way.
LEMMA SetUpStep ==
  ASSUME Inv, TypeOK', SetUpHosts
  PROVE  Inv'
<1>1. CASE GiveUp
  BY <1>1, QuietStep DEF GiveUp
<1>2. CASE ~ GiveUp
  <2> USE DEF Inv, clusterVars
  <2>1. phase' = "hosts" /\ copies' = <<>> /\ UNCHANGED clusterVars
    BY <1>2 DEF SetUpHosts
  <2>2. DOMAIN copies' = {}
    BY <2>1
  <2>3. LcmIsPrompt => promised = {}
    BY DEF SetUpHosts
  <2>4. Placed' /\ Maxima' /\ HostUsage'
    BY <2>1 DEF Placed, Maxima, HostUsage, InPool, On
  <2>5. ASSUME LcmIsPrompt PROVE RoundIsPrompt' /\ CopiesCover' /\ SchedulerFits'
    BY <2>1, <2>2, <2>3, <2>5 DEF RoundIsPrompt, CopiesCover, SchedulerFits, InPool, On, Chosen
  <2> QED BY <2>4, <2>5
<1> QED BY <1>1, <1>2

LEMMA RoundEndsStep ==
  ASSUME Inv, TypeOK', RoundEnds
  PROVE  Inv'
<1> USE DEF Inv, clusterVars, RoundEnds
<1>1. Placed' /\ Maxima' /\ HostUsage'
  BY DEF Placed, Maxima, HostUsage, InPool, On
<1>2. ASSUME LcmIsPrompt PROVE RoundIsPrompt' /\ CopiesCover' /\ SchedulerFits'
  BY <1>2 DEF RoundIsPrompt, CopiesCover, SchedulerFits, InPool, On, Chosen
<1> QED BY <1>1, <1>2

\* A copy is read when all VMs of the scheduler's choice are charged.
LEMMA LoadStep ==
  ASSUME Inv, TypeOK', NEW h \in Hosts, LoadHost(h)
  PROVE  Inv'
<1> USE DEF Inv
<1>1. UNCHANGED <<clusterVars, phase>> /\ phase = "load"
  BY DEF LoadHost
<1>2. Placed' /\ Maxima' /\ HostUsage' /\ (SchedulerFits => SchedulerFits')
  BY <1>1 DEF Placed, Maxima, HostUsage, SchedulerFits, InPool, On, clusterVars
<1>3. ASSUME LcmIsPrompt PROVE RoundIsPrompt'
  BY <1>1, <1>3 DEF RoundIsPrompt, clusterVars
<1>4. ASSUME LcmIsPrompt PROVE CopiesCover'
  <2> SUFFICES ASSUME NEW g \in DOMAIN copies', InPool(g)
               PROVE  /\ CpuOf(On(g, Chosen)) <= copies'[g].usage
                      /\ copies'[g].max <= share[g].max
    BY <1>1 DEF CopiesCover, InPool, On, Chosen, clusterVars
  <2>1. CASE g = h
    <3>1. copies'[h] = share[h] /\ h \in DOMAIN copies'
      BY <2>1 DEF LoadHost
    <3>2. On(h, Chosen) \in SUBSET On(h, charged)
      BY <1>1, <1>4 DEF RoundIsPrompt, On, Chosen
    <3>3. CpuOf(On(h, Chosen)) <= CpuOf(On(h, charged))
      BY <3>2, OnIsFinite, SumOfFewer
    <3>4. share[h].usage = CpuOf(On(h, charged))
      BY <2>1 DEF HostUsage
    <3>5. share[h].max \in Nat
      BY DEF TypeOK, ClusterTypeOK
    <3> QED BY <2>1, <3>1, <3>3, <3>4, <3>5
  <2>2. CASE g # h
    <3>1. g \in DOMAIN copies /\ copies'[g] = copies[g]
      BY <2>2 DEF LoadHost
    <3>2. g \in Hosts
      BY <3>1 DEF TypeOK
    <3> QED BY <1>1, <1>4, <3>1, <3>2 DEF CopiesCover
  <2> QED BY <2>1, <2>2
<1> QED BY <1>2, <1>3, <1>4

\* One more VM on a host.
LEMMA SumWithOneMore ==
  ASSUME NEW S, IsFiniteSet(S), S \subseteq VMs, NEW v \in VMs, NEW T, T \subseteq S \cup {v}
  PROVE  /\ CpuOf(S) \in Nat /\ Cpu(v) \in Nat /\ CpuOf(T) \in Nat
         /\ CpuOf(T) <= CpuOf(S) + Cpu(v)
<1> DEFINE W == S \cup {v}
<1>1. IsFiniteSet(W) /\ W \subseteq VMs
  BY FS_AddElement
<1>2. CpuOf(W) = Cpu(v) + CpuOf(W \ {v})
  BY <1>1, SumWithout
<1>3. CpuOf(S) \in Nat /\ Cpu(v) \in Nat
  BY SumType, CpuType
<1>4. CpuOf(W \ {v}) <= CpuOf(S) /\ CpuOf(W \ {v}) \in Nat
  <2>1. W \ {v} \in SUBSET S
    OBVIOUS
  <2>2. IsFiniteSet(W \ {v}) /\ W \ {v} \subseteq VMs
    BY <1>1, FS_Subset
  <2> QED BY <2>1, <2>2, SumOfFewer, SumType
<1>5. CpuOf(T) <= CpuOf(W)
  <2> T \in SUBSET W
    OBVIOUS
  <2> HIDE DEF W
  <2> QED BY <1>1, SumOfFewer
<1>6. CpuOf(T) \in Nat
  <2> IsFiniteSet(T) /\ T \subseteq VMs
    BY <1>1, FS_Subset
  <2> QED BY SumType
<1> QED BY <1>2, <1>3, <1>4, <1>5, <1>6

\* A VM goes to its host only if the copy has room for it, and the copy is
\* charged whether oned does what it is asked or not.
LEMMA DispatchStep ==
  ASSUME Inv, TypeOK', NEW v \in VMs, Dispatch(v)
  PROVE  Inv'
<1> USE DEF Inv
<1>1. phase = "dispatch" /\ phase' = phase
  BY DEF Dispatch
<1>2. CASE UNCHANGED <<clusterVars, copies>>
  BY <1>1, <1>2, QuietStep
<1>3. ASSUME NEW h \in Best(v),
             copies' = [copies EXCEPT ![h] = AddShare(@, Cpu(v))],
             Call(v, h) \/ UNCHANGED clusterVars
      PROVE  Inv'
  <2>1. h \in DOMAIN copies /\ h \in Hosts /\ Fits(v, h)
    BY DEF Best, TypeOK
  <2>2. UNCHANGED <<hstate, share, charged, byHand>>
    BY <1>3 DEF Call, clusterVars
  <2>3. \/ UNCHANGED <<hid, state, promised>>
        \/ /\ state[v] = "PENDING" /\ v \notin charged \cup promised
           /\ hid' = [hid EXCEPT ![v] = h] /\ promised' = promised \cup {v}
           /\ state' = [state EXCEPT ![v] = "ACTIVE"]
    BY <1>3 DEF Call, DeployCall, Deploys, clusterVars, TypeOK, ClusterTypeOK
  <2>4. Placed'
    <3>1. IsFiniteSet(promised \cup {v})
      BY FS_AddElement DEF Placed
    <3> QED BY <2>1, <2>2, <2>3, <3>1 DEF Placed, TypeOK, ClusterTypeOK
  <2>5. \A g \in Hosts : On(g, charged)' = On(g, charged)
    BY <2>2, <2>3 DEF On, TypeOK, ClusterTypeOK
  <2>6. Maxima' /\ HostUsage'
    BY <2>2, <2>5 DEF Maxima, HostUsage, InPool
  <2>7. \A g \in Hosts : On(g, Chosen)' \subseteq On(g, Chosen) \cup (IF g = h THEN {v} ELSE {})
    BY <2>2, <2>3 DEF On, Chosen, TypeOK, ClusterTypeOK
  <2>8. LcmIsPrompt => RoundIsPrompt'
    BY <1>1 DEF RoundIsPrompt
  <2>9. ASSUME LcmIsPrompt, NEW g \in Hosts, InPool(g)
        PROVE  /\ CpuOf(On(g, Chosen)') <= share[g].max
               /\ g \in DOMAIN copies =>
                    /\ CpuOf(On(g, Chosen)') <= copies'[g].usage
                    /\ copies'[g].max <= share[g].max
    <3>1. share[g].max \in Nat
      BY DEF TypeOK, ClusterTypeOK
    <3>2. CpuOf(On(g, Chosen)) <= share[g].max
      BY <2>9 DEF SchedulerFits, Chosen
    <3>3. g \in DOMAIN copies => /\ CpuOf(On(g, Chosen)) <= copies[g].usage
                                 /\ copies[g].max <= share[g].max
                                 /\ copies[g] \in Share
      BY <1>1, <2>9 DEF CopiesCover, TypeOK, Share
    <3>4. CASE g = h
      <4>1. /\ CpuOf(On(g, Chosen)) \in Nat /\ Cpu(v) \in Nat /\ CpuOf(On(g, Chosen)') \in Nat
            /\ CpuOf(On(g, Chosen)') <= CpuOf(On(g, Chosen)) + Cpu(v)
        BY <2>7, <3>4, OnIsFinite, SumWithOneMore
      <4>2. Cpu(v) <= copies[g].max - copies[g].usage
        BY <2>1, <3>4 DEF Fits, TestShare
      <4>3. copies[g].max \in Nat /\ copies[g].usage \in Int
        BY <2>1, <3>3, <3>4 DEF Share
      <4>4. copies'[g].usage = copies[g].usage + Cpu(v) /\ copies'[g].max = copies[g].max
        BY <1>3, <2>1, <3>3, <3>4 DEF AddShare, Share
      <4> QED BY <2>1, <3>1, <3>3, <3>4, <4>1, <4>2, <4>3, <4>4
    <3>5. CASE g # h
      <4>1. On(g, Chosen)' \in SUBSET On(g, Chosen)
        BY <2>7, <3>5
      <4>2. CpuOf(On(g, Chosen)') <= CpuOf(On(g, Chosen))
        BY <4>1, OnIsFinite, SumOfFewer
      <4>3. CpuOf(On(g, Chosen)) \in Nat /\ CpuOf(On(g, Chosen)') \in Nat
        BY <4>1, OnIsFinite, FS_Subset, SumType
      <4>4. g \in DOMAIN copies => copies'[g] = copies[g]
        BY <1>3, <3>5
      <4>5. g \in DOMAIN copies => copies[g].usage \in Int
        BY <3>3 DEF Share
      <4> QED BY <3>1, <3>2, <3>3, <4>2, <4>3, <4>4, <4>5
    <3> QED BY <3>4, <3>5
  <2>10. DOMAIN copies' = DOMAIN copies /\ DOMAIN copies \subseteq Hosts
    BY <1>3 DEF TypeOK
  <2>11. ASSUME LcmIsPrompt PROVE CopiesCover' /\ SchedulerFits'
    <3>1. \A g : InPool(g)' <=> InPool(g)
      BY <2>2 DEF InPool
    <3>2. SchedulerFits'
      BY <2>2, <2>9, <2>11, <3>1 DEF SchedulerFits, Chosen
    <3>3. CopiesCover'
      BY <2>2, <2>9, <2>10, <2>11, <3>1 DEF CopiesCover
    <3> QED BY <3>2, <3>3
  <2> QED BY <2>4, <2>6, <2>8, <2>11
<1> QED BY <1>2, <1>3 DEF Dispatch

LEMMA InvStep == Inv /\ [Next]_vars => Inv'
<1> SUFFICES ASSUME Inv, [Next]_vars PROVE Inv'
  OBVIOUS
<1>1. TypeOK'
  BY TypeStep DEF Inv
<1>2. CASE Oned
  BY <1>2, OnedStep DEF Oned
<1>3. CASE SetUpHosts
  BY <1>1, <1>3, SetUpStep
<1>4. CASE SetUpVMs
  BY <1>1, <1>4, QuietStep DEF SetUpVMs, GiveUp
<1>5. CASE Match
  BY <1>1, <1>5, QuietStep DEF Match
<1>6. CASE RoundEnds
  BY <1>1, <1>6, RoundEndsStep
<1>7. CASE \E h \in Hosts : LoadHost(h)
  BY <1>1, <1>7, LoadStep
<1>8. CASE \E v \in VMs : Dispatch(v)
  BY <1>1, <1>8, DispatchStep
<1>9. CASE UNCHANGED vars
  BY <1>1, <1>9, QuietStep DEF vars, schedVars
<1> QED BY <1>2, <1>3, <1>4, <1>5, <1>6, <1>7, <1>8, <1>9 DEF Next, Round

-----------------------------------------------------------------------------
(* The theorems                                                            *)

\* What a host counts as used is the sum of what the VMs that are charged to it
\* have asked for, whoever deployed, suspended, resumed or ended them and whatever
\* its driver reports: add_capacity and del_capacity, update_info.
THEOREM UsageIsExact == Spec => []HostUsage
<1>1. Inv => HostUsage
  BY DEF Inv
<1> QED BY InitInv, InvStep, <1>1, PTL DEF Spec

\* If the Life-cycle Manager has charged the VMs of a round when the next one
\* starts, no host ever holds more VMs of the scheduler's choice than it has room
\* for: whatever users and drivers do while a round looks at its copies, and
\* whichever calls oned refuses or leaves unanswered.
THEOREM HostsFit == ASSUME LcmIsPrompt PROVE Spec => []SchedulerFits
<1>1. Inv => SchedulerFits
  BY DEF Inv
<1> QED BY InitInv, InvStep, <1>1, PTL DEF Spec

=============================================================================
