--------------------------- MODULE MCCachedTable ---------------------------
(* Small instances of CachedTable for TLC. *)
EXTENDS CachedTable, TLC

Symmetric == Permutations(Node)
=============================================================================
