--------------------------- MODULE MCNetworkLeases --------------------------
(***************************************************************************)
(* Instances of NetworkLeases for TLC.                                     *)
(***************************************************************************)
EXTENDS NetworkLeases, TLC

Fixed(name, ips) == [name |-> name, type |-> "FIXED", ips |-> ips, block |-> ips]
Ranged(name, ips, block) == [name |-> name, type |-> "RANGED", ips |-> ips, block |-> block]

\* Networks with addresses of their own, and two with one in common.
Apart == {Fixed("net_a", {1, 2}), Ranged("net_b", {4, 5}, 3..6)}
Alike == {Fixed("net_a", {1}), Fixed("net_b", {1, 2})}

AnyOf(name) == [network |-> name, ip |-> NoIp]
One(name, ip) == [network |-> name, ip |-> ip]

\* One NIC or two, on one network or on both, with an address or without.
Nic1 == {<<AnyOf("net_a")>>, <<AnyOf("net_b")>>}
Nic2 == {<<AnyOf("net_a")>>, <<AnyOf("net_b"), AnyOf("net_a")>>, <<One("net_a", 2), AnyOf("net_a")>>,
         <<One("net_b", 6), One("net_b", 4)>>}

TwoOids == 0..1
ThreeOids == 0..2
Interchangeable == Permutations(VMs)
=============================================================================
