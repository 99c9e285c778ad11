--------------------------- MODULE MCCapacityStore ---------------------------
(* Model checking CapacityStore: symmetry of the identities. *)
EXTENDS CapacityStore, TLC

Symmetry ==
    Permutations(Controllers) \union Permutations(Sessions) \union Permutations(Invocations)
=============================================================================
