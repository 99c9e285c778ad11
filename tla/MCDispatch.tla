----------------------------- MODULE MCDispatch -----------------------------
(* Model checking Dispatch: symmetry of the identities. *)
EXTENDS Dispatch, TLC

Symmetry ==
    Permutations(Controllers) \union Permutations(Sessions) \union Permutations(Invocations)
=============================================================================
