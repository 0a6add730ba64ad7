---------------------------- MODULE EventPolicy ----------------------------
(***************************************************************************)
(* The policy shared by the two event queues of the system, the input ring *)
(* (input/event.c) and the per-window ring of the GUI service              *)
(* (gfx/gui_srv.c), as an operator on sequences: merge a low-value event   *)
(* into a youngest one of its kind, give up a low-value event when full,   *)
(* else the oldest.                                                        *)
(***************************************************************************)
EXTENDS Naturals, Sequences

Low(e) == e.id \in {"mousemove", "paint"}

\* A low-value event replaces a youngest event of the same kind.
Merges(q, e) == q # <<>> /\ Low(e) /\ q[Len(q)].id = e.id

Without(q, i) == [j \in 1..(Len(q) - 1) |-> IF j < i THEN q[j] ELSE q[j + 1]]

\* The event given up when the queue is full.
Victim(q) ==
  LET low == {i \in 1..Len(q) : Low(q[i])}
  IN  IF low = {} THEN 1 ELSE CHOOSE i \in low : \A j \in low : i <= j

Enqueue(q, e, capacity) ==
  IF Merges(q, e) THEN [q EXCEPT ![Len(q)] = e]
  ELSE IF Len(q) >= capacity THEN Append(Without(q, Victim(q)), e)
  ELSE Append(q, e)
=============================================================================
