------------------------- MODULE MCSchemaValidator -------------------------
(* A small instance of SchemaValidator for TLC. *)
EXTENDS SchemaValidator

Symmetric == Permutations(Table) \cup Permutations(Action)
=============================================================================
