---------------------------- MODULE MCLockOrder ----------------------------
(* Three connections, enough for a circle that no two of them close alone.    *)
EXTENDS LockOrder, TLC

ClientSymmetry == Permutations(Clients)
=============================================================================
