------------------------ MODULE MCActivitySubmission ------------------------
(* Instances of ActivitySubmission for TLC.                                 *)
EXTENDS ActivitySubmission, TLC

Symmetry == Permutations(Requests)
=============================================================================
