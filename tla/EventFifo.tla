----------------------------- MODULE EventFifo -----------------------------
(***************************************************************************)
(* What the input event queue promises (input/event.h): a bounded FIFO     *)
(* whose pressure is taken by motion and paint events first.  The ring of  *)
(* input/event.c is shown to implement it.                                 *)
(***************************************************************************)
EXTENDS EventPolicy

CONSTANT Capacity

VARIABLES queue,      \* the retained events, oldest first
          taken       \* the event last handed to the consumer

Put(e) == queue' = Enqueue(queue, e, Capacity) /\ UNCHANGED taken

Take ==
  /\ queue # <<>>
  /\ taken' = Head(queue)
  /\ queue' = Tail(queue)

\* What is put in is the youngest event afterwards, whatever it is.
Init == queue = <<>>
Next == Take \/ (queue' # <<>> /\ Put(queue'[Len(queue')]))
Spec == Init /\ [][Next]_<<queue, taken>>
=============================================================================
