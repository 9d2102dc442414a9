-------------------------- MODULE MCSecurityAccess --------------------------
(***************************************************************************)
(* SecurityAccess with two levels, two seeds, two attempts and a clock     *)
(* that runs past two lockouts.                                            *)
(***************************************************************************)
EXTENDS SecurityAccess

MCLevels == {1, 3}
MCSeeds == {0, 1}
\* XOR with the mask 1
MCKeyOf == [s \in MCSeeds |-> 1 - s]
=============================================================================
