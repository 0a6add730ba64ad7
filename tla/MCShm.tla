------------------------------- MODULE MCShm -------------------------------
(* Instances of Shm for TLC. *)
EXTENDS Shm, TLC

CONSTANTS b1, b2

BlockSymmetry == Permutations(Blocks)
============================================================================
