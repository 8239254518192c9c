------------------------ MODULE MCInformationManager ------------------------
(***************************************************************************)
(* Instances of InformationManager for TLC.                                *)
(***************************************************************************)
EXTENDS InformationManager, TLC

CONSTANTS d1, d2

\* The hosts up to 2 are of one driver, the others of the other; or all of one.
MadOfHost == [h \in Hosts |-> IF h < 3 THEN d1 ELSE d2]
OneMad == [h \in Hosts |-> d1]
=============================================================================
