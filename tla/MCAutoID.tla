------------------------------ MODULE MCAutoID ------------------------------
(* Instances of AutoID for TLC. *)
EXTENDS AutoID, TLC

CONSTANTS a, b

\* Servers only differ in name.
Symmetry == Permutations(Server)
=============================================================================
