-------------------------------- MODULE MCEngine ------------------------------
(***************************************************************************)
(* One service here, and one on another device.                            *)
(***************************************************************************)
EXTENDS Engine

CONSTANTS d1, d2, s1

MCTheirs == [n \in {s1} |-> d1]
===============================================================================
