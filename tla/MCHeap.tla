------------------------------- MODULE MCHeap -------------------------------
(* Memory alone, for TLC: a request meets a free block of exactly its size. *)
EXTENDS Memory

CONSTANT p1

\* Memory for four frames: low memory, one the kernel is in, and two to use.
MCMemMap == {[base |-> 0, end |-> 8], [base |-> 15, end |-> 60]}
MCLoaded == {[base |-> 20, end |-> 27]}
=============================================================================
