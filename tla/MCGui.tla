------------------------------- MODULE MCGui -------------------------------
(***************************************************************************)
(* The GUI service and the window manager, bounded in two ways: the calls  *)
(* of all applications without the buttons of the mouse, and the calls of  *)
(* one application, with one window at a time, under the mouse.            *)
(***************************************************************************)
EXTENDS Gui, TLC

CONSTANTS p1, p2, b1, b2,
  MouseHandles     \* bound on the handles given out under the mouse
VARIABLE which

BothButtons == {{}, {"L"}, {"L", "R"}}

Untouched(p) == alive[p] = "live" /\ pc[p] = "idle"
Bound ==
  CASE which = "calls" -> prev_buttons = {}
    [] which = "mouse" -> /\ g_next_handle <= MouseHandles + 1
                          /\ \A s \in Slots \ {1} : ~InUse(s)
                          /\ \A p, q \in Pids : Untouched(p) \/ Untouched(q) \/ p = q

GuiInit == which \in {"calls", "mouse"} /\ Init
GuiNext == Next /\ UNCHANGED which /\ Bound'
GuiSpec == GuiInit /\ [][GuiNext]_<<which, vars>>

Interchangeable == Permutations(Pids) \cup Permutations(Bufs)
=============================================================================
