---------------------------- MODULE MCOpenNebula ----------------------------
(***************************************************************************)
(* Instances of OpenNebula for TLC.                                        *)
(***************************************************************************)
EXTENDS OpenNebula, TLC

\* Every operation; a restart sends a VM in BOOT a second DEPLOY, the answer
\* of which is attributed to whatever the VM does next.
WithoutRestart == Operations \ {"restart"}

\* Nothing tells two hosts, or two VMs, apart: sound for safety.
Interchangeable == Permutations(Hosts) \cup Permutations(VMs)
=============================================================================
