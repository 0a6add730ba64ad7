------------------------------ MODULE MCInput ------------------------------
(* Input for TLC: the pointer stands still or moves one count to the right. *)
EXTENDS Input

SmallMoves == {<<0, 0>>, <<1, 0>>}
============================================================================
