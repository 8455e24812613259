--------------------------- MODULE MCPersistence ----------------------------
(* Instances of Persistence: lots are interchangeable. *)
EXTENDS Persistence, TLC

Symmetry == Permutations(Lots)
=============================================================================
