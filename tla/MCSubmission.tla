---------------------------- MODULE MCSubmission ----------------------------
(* Model checking Submission: symmetry of the identities. *)
EXTENDS Submission, TLC

Symmetry == Permutations(Controllers) \union Permutations(Invocations)
=============================================================================
