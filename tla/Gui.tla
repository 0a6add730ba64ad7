-------------------------------- MODULE Gui --------------------------------
(***************************************************************************)
(* Windows: the SYS_GUI service (gfx/gui_srv.c), its window table and      *)
(* per-window event queues, on top of the window manager (gfx/wm.c), its   *)
(* pool, z-order and interaction state, used at once by application        *)
(* processes and by the desktop that routes the mouse and the keyboard.    *)
(*                                                                         *)
(* What g_gui_lock covers is one step (a preempted holder only delays the  *)
(* others).  The window manager has no lock, and a call into the service   *)
(* drops g_gui_lock between its parts: those boundaries are the steps of   *)
(* the model.  Pixels, geometry and repainting are left out: a mouse event *)
(* may hit any part of any window in the z-order.                          *)
(***************************************************************************)
EXTENDS EventPolicy, Integers, FiniteSetsExt

CONSTANTS
  Pids,        \* application processes
  Slots,       \* GUI_SRV_MAX_WINDOWS entries, 1..n
  Wins,        \* WM_MAX_WINDOWS entries of the pool, 1..n
  Bufs,        \* pixel buffers kmalloc can supply
  EVENT_Q,     \* GUI_SRV_EVENT_Q
  MaxHandle,   \* bound on g_next_handle
  MaxApps,     \* bound on the in-kernel applications launched
  Presses,     \* the button sets the mouse reports, subsets of {"L", "R"}
  Races        \* the preemption windows this instance admits, see below

(***************************************************************************)
(* Races:                                                                  *)
(*   "wm"     two processes inside wm_create_window at once                *)
(*   "fresh"  the user clicks a window before its creator has set its      *)
(*            close policy                                                 *)
(*   "stale"  a slot is reserved while the process that owned it before    *)
(*            may still use its old handle                                 *)
(*   "dangle" a window dies between the desktop's hit test and its event   *)
(*   "killed" a process is killed inside a call                            *)
(***************************************************************************)
RaceNames == {"wm", "fresh", "stale", "dangle", "killed"}

NoOne == 0

ASSUME GuiAssumption ==
  /\ IsFiniteSet(Pids) /\ NoOne \notin Pids /\ 0 \notin Bufs
  /\ IsFiniteSet(Slots) /\ Slots = 1..Cardinality(Slots)
  /\ IsFiniteSet(Wins) /\ Wins = 1..Cardinality(Wins)
  /\ EVENT_Q \in Nat \ {0} /\ MaxHandle \in Nat /\ MaxApps \in Nat
  /\ Presses \subseteq SUBSET {"L", "R"}
  /\ Races \subseteq RaceNames

VARIABLES
  g_windows, g_next_handle,
  wins,          \* win_pool and win_pool_used
  zlist,         \* z-order, bottom first
  drag_win, resize_win, prev_buttons,
  heap,          \* live pixel buffers
  alive,         \* Pids -> "live", "zombie" (dead, not reaped) or "gone"
  pc, loc,       \* each process's place in a call, and its locals
  desk,          \* the desktop's dispatch in progress
  apps           \* in-kernel applications launched so far

wm == <<wins, zlist, drag_win, resize_win, prev_buttons>>
vars == <<g_windows, g_next_handle, wins, zlist, drag_win, resize_win, prev_buttons, heap,
          alive, pc, loc, desk, apps>>

EmptySlot == [used |-> 0, handle |-> 0, owner |-> NoOne, win |-> 0, buf |-> 0,
              resizable |-> TRUE, close |-> FALSE, events |-> <<>>]
EmptyWin == [used |-> FALSE, gui |-> FALSE, active |-> FALSE, auto |-> FALSE, resz |-> FALSE,
             drag |-> FALSE]
NoLocals == [slot |-> 0, win |-> 0, buf |-> 0]
DeskIdle == [win |-> 0, evs |-> <<>>, close |-> FALSE]

\* gui_srv_init and wm_init
Init ==
  /\ g_windows = [s \in Slots |-> EmptySlot]
  /\ g_next_handle = 1
  /\ wins = [w \in Wins |-> EmptyWin]
  /\ zlist = <<>>
  /\ drag_win = 0 /\ resize_win = 0 /\ prev_buttons = {}
  /\ heap = {}
  /\ alive = [p \in Pids |-> "live"]
  /\ pc = [p \in Pids |-> "idle"]
  /\ loc = [p \in Pids |-> NoLocals]
  /\ desk = DeskIdle
  /\ apps = 0

-----------------------------------------------------------------------------
(* The window manager.  A wm is the record of its state, so that calls     *)
(* compose: [wins, z, drag, resize].                                       *)

Wm == [wins |-> wins, z |-> zlist, drag |-> drag_win, resize |-> resize_win]
SetWm(m) == wins' = m.wins /\ zlist' = m.z /\ drag_win' = m.drag /\ resize_win' = m.resize

InList(z, w) == \E i \in DOMAIN z : z[i] = w
Top(z) == IF z = <<>> THEN 0 ELSE z[Len(z)]

\* zlist_remove: a window without neighbours takes the place of both ends, so
\* removing one that is not in the list empties the list.
zlist_remove(z, w) ==
  IF InList(z, w) THEN Without(z, CHOOSE i \in DOMAIN z : z[i] = w) ELSE <<>>

Activate(ws, w, on) == IF w = 0 THEN ws ELSE [ws EXCEPT ![w].active = on]

\* wm_create_window, once it has settled on the pool entry w.
wm_create_window(m, w, gui) ==
  [m EXCEPT !.wins = [Activate(m.wins, Top(m.z), FALSE) EXCEPT
                        ![w] = [used |-> TRUE, gui |-> gui, active |-> TRUE, auto |-> TRUE,
                                resz |-> TRUE, drag |-> FALSE]],
            !.z = Append(m.z, w)]

\* A fault: the interaction state keeps pointing at the window.
wm_destroy_window_drag(m, w) ==
  LET z == zlist_remove(m.z, w)
  IN  [m EXCEPT !.z = z, !.wins = Activate([m.wins EXCEPT ![w].used = FALSE], Top(z), TRUE)]

wm_destroy_window(m, w) ==
  LET z == zlist_remove(m.z, w)
  IN  [wins   |-> Activate([m.wins EXCEPT ![w].used = FALSE], Top(z), TRUE),
       z      |-> z,
       drag   |-> IF m.drag = w THEN 0 ELSE m.drag,
       resize |-> IF m.resize = w THEN 0 ELSE m.resize]

wm_bring_to_front(m, w) ==
  IF w = Top(m.z) THEN m
  ELSE [m EXCEPT !.z = Append(zlist_remove(m.z, w), w),
                 !.wins = Activate(Activate(m.wins, Top(m.z), FALSE), w, TRUE)]

FreeWins == {w \in Wins : ~wins[w].used}
FirstOf(S) == CHOOSE x \in S : \A y \in S : x <= y

-----------------------------------------------------------------------------
(* The service.                                                            *)

InUse(s) == g_windows[s].used # 0
HasHandle(s, h) == InUse(s) /\ g_windows[s].handle = h
find_slot_by_handle(h) == IF \E s \in Slots : HasHandle(s, h)
                          THEN FirstOf({s \in Slots : HasHandle(s, h)}) ELSE 0
HasWin(s, w) == InUse(s) /\ g_windows[s].win = w
find_slot_by_wm(w) == IF \E s \in Slots : HasWin(s, w)
                      THEN FirstOf({s \in Slots : HasWin(s, w)}) ELSE 0

\* The slot of a handle its caller owns, as every call checks.
Owned(p, h) == LET s == find_slot_by_handle(h) IN IF s # 0 /\ g_windows[s].owner = p THEN s ELSE 0
Handles == 1..(g_next_handle - 1)

GuiEvent(kind, h) == [id |-> kind, window |-> h]
evt_enqueue(slot, kind) ==
  [slot EXCEPT !.events = Enqueue(@, GuiEvent(kind, slot.handle), EVENT_Q)]

Ready(p) == alive[p] = "live" /\ pc[p] = "idle"
At(p, l) == alive[p] = "live" /\ pc[p] = l
Goto(p, l) == pc' = [pc EXCEPT ![p] = l]
Return(p) == Goto(p, "idle") /\ loc' = [loc EXCEPT ![p] = NoLocals]

\* Window w may die: no event of the desktop is on its way to it.
MayDie(w) == "dangle" \in Races \/ w = 0 \/ w # desk.win

Creating == {p \in Pids : alive[p] = "live" /\ pc[p] \in {"reserved", "scanned", "made"}}

\* gui_srv_window_create, first part: reserve a slot.
CreateReserve(p) ==
  /\ Ready(p)
  /\ g_next_handle + Cardinality(Creating) <= MaxHandle
  /\ \E s \in Slots : ~InUse(s)
  /\ LET s == FirstOf({t \in Slots : ~InUse(t)})
     IN  /\ "stale" \in Races
            \/ \A o \in Pids \ {p} : g_windows[s].owner = o => alive[o] = "gone"
         /\ g_windows' = [g_windows EXCEPT ![s].used = 2]
         /\ loc' = [loc EXCEPT ![p].slot = s]
  /\ Goto(p, "reserved")
  /\ UNCHANGED <<g_next_handle, wm, heap, alive, desk, apps>>

\* wm_create_window looks for a free pool entry ...
CreateScan(p) ==
  /\ At(p, "reserved")
  /\ "wm" \in Races \/ \A q \in Pids : ~At(q, "scanned")
  /\ FreeWins # {}
  /\ loc' = [loc EXCEPT ![p].win = FirstOf(FreeWins)]
  /\ Goto(p, "scanned")
  /\ UNCHANGED <<g_windows, g_next_handle, wm, heap, alive, desk, apps>>

\* ... and the slot is given back when there is none.
CreateNoWindow(p) ==
  /\ At(p, "reserved")
  /\ FreeWins = {}
  /\ g_windows' = [g_windows EXCEPT ![loc[p].slot].used = 0]
  /\ Return(p)
  /\ UNCHANGED <<g_next_handle, wm, heap, alive, desk, apps>>

\* wm_create_window takes the entry it found.
CreateWindow(p) ==
  /\ At(p, "scanned")
  /\ SetWm(wm_create_window(Wm, loc[p].win, TRUE))
  /\ Goto(p, "made")
  /\ UNCHANGED <<g_windows, g_next_handle, prev_buttons, heap, alive, loc, desk, apps>>

\* The slot is filled in and the window gets its pixels and a PAINT event.
CreatePublish(p) ==
  /\ At(p, "made")
  /\ \E b \in Bufs \ heap :
       /\ heap' = heap \cup {b}
       /\ g_windows' = [g_windows EXCEPT ![loc[p].slot] =
            evt_enqueue([EmptySlot EXCEPT !.used = 1, !.handle = g_next_handle, !.owner = p,
                                          !.win = loc[p].win, !.buf = b], "paint")]
  /\ g_next_handle' = g_next_handle + 1
  /\ Goto(p, "flags")
  /\ UNCHANGED <<wm, alive, loc, desk, apps>>

\* No memory for the pixels: the slot is released, then the window.
CreateNoMemory(p) ==
  /\ At(p, "made")
  /\ g_windows' = [g_windows EXCEPT ![loc[p].slot] =
                     [EmptySlot EXCEPT !.handle = g_next_handle, !.owner = p]]
  /\ g_next_handle' = g_next_handle + 1
  /\ Goto(p, "undo")
  /\ UNCHANGED <<wm, heap, alive, loc, desk, apps>>

CreateUndo(p) ==
  /\ At(p, "undo")
  /\ MayDie(loc[p].win)
  /\ SetWm(wm_destroy_window(Wm, loc[p].win))
  /\ Return(p)
  /\ UNCHANGED <<g_windows, g_next_handle, prev_buttons, heap, alive, desk, apps>>

\* A fault: the window keeps the window manager's own close policy.
CreateFlags_auto(p) ==
  /\ At(p, "flags")
  /\ wins' = [wins EXCEPT ![loc[p].win].resz = g_windows[loc[p].slot].resizable]
  /\ Return(p)
  /\ UNCHANGED <<g_windows, g_next_handle, zlist, drag_win, resize_win, prev_buttons, heap,
                 alive, desk, apps>>

\* The window's flags are set from the slot: the service never closes on click.
CreateFlags(p) ==
  /\ At(p, "flags")
  /\ wins' = [wins EXCEPT ![loc[p].win].auto = FALSE,
                          ![loc[p].win].resz = g_windows[loc[p].slot].resizable]
  /\ Return(p)
  /\ UNCHANGED <<g_windows, g_next_handle, zlist, drag_win, resize_win, prev_buttons, heap,
                 alive, desk, apps>>

\* gui_srv_window_destroy clears the slot but not its handle and owner ...
Cleared(slot) == [EmptySlot EXCEPT !.handle = slot.handle, !.owner = slot.owner]

DestroyDetach(p, h) ==
  /\ Ready(p)
  /\ LET s == Owned(p, h)
     IN  /\ s # 0
         /\ loc' = [loc EXCEPT ![p] = [slot |-> 0, win |-> g_windows[s].win,
                                       buf |-> g_windows[s].buf]]
         /\ g_windows' = [g_windows EXCEPT ![s] = Cleared(@)]
  /\ Goto(p, "detached")
  /\ UNCHANGED <<g_next_handle, wm, heap, alive, desk, apps>>

\* ... then destroys the window ...
DestroyWindow(p) ==
  /\ At(p, "detached")
  /\ MayDie(loc[p].win)
  /\ IF loc[p].win = 0 THEN UNCHANGED <<wins, zlist, drag_win, resize_win>>
     ELSE SetWm(wm_destroy_window(Wm, loc[p].win))
  /\ Goto(p, "unmade")
  /\ UNCHANGED <<g_windows, g_next_handle, prev_buttons, heap, alive, loc, desk, apps>>

\* A fault: the pixels are not freed.
DestroyFree_leak(p) ==
  /\ At(p, "unmade")
  /\ Return(p)
  /\ UNCHANGED <<g_windows, g_next_handle, wm, heap, alive, desk, apps>>

\* ... and frees the pixels.
DestroyFree(p) ==
  /\ At(p, "unmade")
  /\ heap' = heap \ {loc[p].buf}
  /\ Return(p)
  /\ UNCHANGED <<g_windows, g_next_handle, wm, alive, desk, apps>>

\* gui_srv_window_set_resizable, under the lock throughout.
SetResizable(p, h, r) ==
  /\ Ready(p)
  /\ LET s == Owned(p, h)
     IN  /\ s # 0
         /\ g_windows' = [g_windows EXCEPT ![s].resizable = r]
         /\ wins' = IF g_windows[s].win = 0 THEN wins
                    ELSE [wins EXCEPT ![g_windows[s].win].resz = r]
  /\ UNCHANGED <<g_next_handle, zlist, drag_win, resize_win, prev_buttons, heap, alive, pc,
                 loc, desk, apps>>

GetEvent(p, h) ==
  /\ Ready(p)
  /\ LET s == Owned(p, h)
     IN  /\ s # 0
         /\ g_windows[s].events # <<>>
         /\ g_windows' = [g_windows EXCEPT ![s].events = Tail(@)]
  /\ UNCHANGED <<g_next_handle, wm, heap, alive, pc, loc, desk, apps>>

-----------------------------------------------------------------------------
(* Death and reaping.                                                      *)

Die(p) ==
  /\ alive[p] = "live"
  /\ pc[p] = "idle" \/ "killed" \in Races
  /\ alive' = [alive EXCEPT ![p] = "zombie"]
  /\ UNCHANGED <<g_windows, g_next_handle, wm, heap, pc, loc, desk, apps>>

Belongs(p) == {s \in Slots : InUse(s) /\ g_windows[s].owner = p}

ReapStep(p) == Belongs(p)

\* The window of slot s is destroyed, if it has one.
DropWindow(s, m) == IF g_windows[s].win = 0 THEN m ELSE wm_destroy_window(m, g_windows[s].win)

\* free_process_resources runs gui_srv_process_cleanup, which destroys one
\* window after another until the process owns none; the reaper runs with
\* interrupts off.
Reap(p) ==
  LET swept == ReapStep(p)
  IN  /\ alive[p] = "zombie"
      /\ \A s \in swept : MayDie(g_windows[s].win)
      /\ g_windows' = [s \in Slots |-> IF s \in swept THEN Cleared(g_windows[s]) ELSE g_windows[s]]
      /\ heap' = heap \ {g_windows[s].buf : s \in swept}
      /\ SetWm(FoldSet(DropWindow, Wm, swept))
      /\ alive' = [alive EXCEPT ![p] = "gone"]
      /\ UNCHANGED <<g_next_handle, prev_buttons, pc, loc, desk, apps>>

-----------------------------------------------------------------------------
(* The desktop.                                                            *)

Idle == desk = DeskIdle
Fresh(w) == \E p \in Pids : alive[p] # "gone" /\ loc[p].win = w
                           /\ pc[p] \in {"made", "flags", "undo"}
Send(w, evs) == desk' = [win |-> w, evs |-> evs, close |-> FALSE]
NoDispatch == UNCHANGED desk

\* An in-kernel application opens a window: its handler is its own, and the
\* close button destroys it.
LaunchApp ==
  /\ Idle /\ apps < MaxApps
  /\ FreeWins # {}
  /\ "wm" \in Races \/ \A q \in Pids : ~At(q, "scanned")
  /\ SetWm(wm_create_window(Wm, FirstOf(FreeWins), FALSE))
  /\ apps' = apps + 1
  /\ UNCHANGED <<g_windows, g_next_handle, prev_buttons, heap, alive, pc, loc, desk>>

Changed(b) == (b \ prev_buttons) \cup (prev_buttons \ b)
DownEdge(b) == b \ prev_buttons
UpEdge(b) == prev_buttons \ b
Mouse(b) == Idle /\ prev_buttons' = b
            /\ UNCHANGED <<g_windows, g_next_handle, heap, alive, pc, loc, apps>>

\* wm_handle_mouse while a window is being resized or dragged: the left button
\* continues it, its release ends it.
MouseResizes(b) ==
  /\ Mouse(b)
  /\ resize_win # 0
  /\ IF "L" \in b THEN Send(resize_win, <<"resize">>) /\ UNCHANGED resize_win
                  ELSE resize_win' = 0 /\ NoDispatch
  /\ UNCHANGED <<wins, zlist, drag_win>>

MouseDrags(b) ==
  /\ Mouse(b)
  /\ resize_win = 0 /\ drag_win # 0
  /\ IF "L" \in b THEN UNCHANGED <<wins, drag_win>>
                  ELSE drag_win' = 0 /\ wins' = [wins EXCEPT ![drag_win].drag = FALSE]
  /\ NoDispatch
  /\ UNCHANGED <<zlist, resize_win>>

Still == resize_win = 0 /\ drag_win = 0

\* A button goes down on window w: it comes to the front; then the part of the
\* window that was hit decides.
MousePress(b, w, part) ==
  LET m    == wm_bring_to_front(Wm, w)
      left == "L" \in DownEdge(b)
      Begin(n) == SetWm(n) /\ NoDispatch
  IN  /\ Mouse(b)
      /\ Still
      /\ DownEdge(b) # {}
      /\ InList(zlist, w)
      /\ "fresh" \in Races \/ ~Fresh(w)
      /\ CASE left /\ part = "close" ->
                SetWm(m) /\ desk' = [win |-> w, evs |-> <<"close">>, close |-> TRUE]
           [] left /\ part = "grip" /\ wins[w].resz -> Begin([m EXCEPT !.resize = w])
           [] left /\ part = "title" ->
                Begin([m EXCEPT !.drag = w, !.wins = [m.wins EXCEPT ![w].drag = TRUE]])
           [] OTHER ->
                /\ SetWm(m)
                /\ Send(w, (IF left THEN <<"mousedown", "click">> ELSE <<>>)
                           \o (IF "R" \in DownEdge(b) THEN <<"rightclick">> ELSE <<>>))

\* Otherwise a window under the pointer hears of a release or of a movement.
MouseElse(b, w) ==
  /\ Mouse(b)
  /\ Still
  /\ IF InList(zlist, w)
     THEN /\ DownEdge(b) = {}
          /\ Send(w, IF UpEdge(b) # {} THEN <<"mouseup">> ELSE <<"mousemove">>)
     ELSE NoDispatch
  /\ UNCHANGED <<wins, zlist, drag_win, resize_win>>

\* wm_handle_input sends a key to the top window.
Key(kind) ==
  /\ Idle
  /\ zlist # <<>>
  /\ Send(Top(zlist), <<kind>>)
  /\ UNCHANGED <<g_windows, g_next_handle, wm, heap, alive, pc, loc, apps>>

\* gui_window_event: a resize first reallocates the pixels (and repaints), a
\* close is remembered; then the event is queued.
Resized(slot, b) == evt_enqueue([slot EXCEPT !.buf = b], "paint")
Deliver(slot, kind) ==
  evt_enqueue(IF kind = "close" THEN [slot EXCEPT !.close = TRUE] ELSE slot, kind)

\* dispatch_to_window: the handler of whatever now lives in the pool entry.
DeskDispatch ==
  LET kind == Head(desk.evs)
      s    == find_slot_by_wm(desk.win)
  IN  /\ desk.evs # <<>>
      /\ IF ~wins[desk.win].gui \/ s = 0 THEN UNCHANGED <<g_windows, heap>>
         ELSE \/ /\ kind = "resize"
                 /\ \E b \in Bufs \ heap :
                      /\ heap' = (heap \ {g_windows[s].buf}) \cup {b}
                      /\ g_windows' = [g_windows EXCEPT ![s] = Deliver(Resized(@, b), kind)]
              \/ /\ g_windows' = [g_windows EXCEPT ![s] = Deliver(@, kind)]
                 /\ UNCHANGED heap
      /\ desk' = IF Len(desk.evs) = 1 /\ ~desk.close THEN DeskIdle
                 ELSE [desk EXCEPT !.evs = Tail(@)]
      /\ UNCHANGED <<g_next_handle, wm, alive, pc, loc, apps>>

\* After a close click: the window is destroyed if its flags (still) say so.
DeskAutoClose ==
  /\ desk.close /\ desk.evs = <<>>
  /\ IF wins[desk.win].auto THEN SetWm(wm_destroy_window(Wm, desk.win))
     ELSE UNCHANGED <<wins, zlist, drag_win, resize_win>>
  /\ desk' = DeskIdle
  /\ UNCHANGED <<g_windows, g_next_handle, prev_buttons, heap, alive, pc, loc, apps>>

-----------------------------------------------------------------------------
Parts == {"close", "grip", "title", "client"}
Create(p) == \/ CreateReserve(p) \/ CreateScan(p) \/ CreateNoWindow(p) \/ CreateWindow(p)
             \/ CreatePublish(p) \/ CreateNoMemory(p) \/ CreateUndo(p) \/ CreateFlags(p)
Destroy(p) == DestroyWindow(p) \/ DestroyFree(p) \/ \E h \in Handles : DestroyDetach(p, h)
Calls(p) == \E h \in Handles : GetEvent(p, h) \/ \E r \in BOOLEAN : SetResizable(p, h, r)
Desktop == \/ LaunchApp \/ DeskDispatch \/ DeskAutoClose
           \/ \E k \in {"key", "keyup"} : Key(k)
           \/ \E b \in Presses : \/ MouseResizes(b) \/ MouseDrags(b)
                                 \/ \E w \in Wins, part \in Parts : MousePress(b, w, part)
                                 \/ \E w \in Wins \cup {0} : MouseElse(b, w)
Next == Desktop \/ \E p \in Pids : Create(p) \/ Destroy(p) \/ Calls(p) \/ Die(p) \/ Reap(p)

Spec == Init /\ [][Next]_vars

-----------------------------------------------------------------------------
(* Properties.                                                             *)

Kinds == {"paint", "close", "key", "keyup", "resize", "mousedown", "click", "rightclick",
          "mouseup", "mousemove"}

\* Types; no queue is longer than its ring.
TypeOK ==
  /\ \A s \in Slots : LET g == g_windows[s] IN
       /\ g.used \in 0..2 /\ g.handle \in 0..MaxHandle /\ g.owner \in Pids \cup {NoOne}
       /\ g.win \in Wins \cup {0} /\ g.buf \in Bufs \cup {0}
       /\ g.resizable \in BOOLEAN /\ g.close \in BOOLEAN
       /\ Len(g.events) <= EVENT_Q
       /\ \A i \in DOMAIN g.events : g.events[i].id \in Kinds
  /\ g_next_handle \in 1..(MaxHandle + 1)
  /\ wins \in [Wins -> [used : BOOLEAN, gui : BOOLEAN, active : BOOLEAN, auto : BOOLEAN,
                        resz : BOOLEAN, drag : BOOLEAN]]
  /\ zlist \in Seq(Wins)
  /\ drag_win \in Wins \cup {0} /\ resize_win \in Wins \cup {0}
  /\ prev_buttons \subseteq {"L", "R"}
  /\ heap \subseteq Bufs
  /\ alive \in [Pids -> {"live", "zombie", "gone"}]
  /\ pc \in [Pids -> {"idle", "reserved", "scanned", "made", "flags", "undo", "detached", "unmade"}]

\* The z-order lists every window of the pool once, and nothing else: no
\* window is lost from the screen and no freed one is drawn or hit.
ZOrderComplete ==
  /\ \A w \in Wins : wins[w].used = InList(zlist, w)
  /\ \A i, j \in DOMAIN zlist : zlist[i] = zlist[j] => i = j

\* Exactly the top window has the focus.
ActiveIsTop == \A w \in Wins : InList(zlist, w) => (wins[w].active = (w = Top(zlist)))

\* A drag or a resize in progress is of a window that exists.
InteractionLives == \A w \in {drag_win, resize_win} \ {0} : InList(zlist, w)

\* Together: what the window manager points at is what its list holds,
\* although windows come and go between the events of one drag.
FocusConsistent == TypeOK /\ ActiveIsTop /\ InteractionLives

\* A window the service has handed out exists in the window manager and is
\* nobody else's.
SlotWindowLives ==
  \A s \in Slots : g_windows[s].used = 1 =>
    /\ InList(zlist, g_windows[s].win)
    /\ \A t \in Slots \ {s} : g_windows[t].used = 1 =>
         g_windows[t].win # g_windows[s].win /\ g_windows[t].handle # g_windows[s].handle

\* gui_srv.c: "reserved".  From its reservation to its publication a slot
\* belongs to its creator alone.
ReservationHeld ==
  \A p \in Creating :
    /\ g_windows[loc[p].slot].used = 2
    /\ \A q \in Creating \ {p} : loc[q].slot # loc[p].slot

\* Every live pixel buffer belongs to one window, or to the call that is about
\* to free it (or was, when its process was killed): none leaks from a call
\* that ends, none is freed while a window draws from it.
PixelsOwned ==
  /\ \A s \in Slots : g_windows[s].used = 1 => g_windows[s].buf \in heap
  /\ heap = {g_windows[s].buf : s \in {t \in Slots : g_windows[t].used = 1}}
            \cup ({loc[p].buf : p \in {q \in Pids : pc[q] \in {"detached", "unmade"}}} \ {0})
  /\ \A s, t \in Slots : (s # t /\ g_windows[s].used = 1 /\ g_windows[t].used = 1) =>
       g_windows[s].buf # g_windows[t].buf

\* A process reads events of the window it asks about only.
EventsAreOwn ==
  \A s \in Slots : \A i \in DOMAIN g_windows[s].events :
    g_windows[s].events[i].window = g_windows[s].handle

\* Outside the calls that set them, the flags of a window are what its owner
\* asked for: it never closes on a click and resizes only when allowed.
FlagsAgree ==
  \A s \in Slots :
    (/\ g_windows[s].used = 1
     /\ \A p \in Pids : alive[p] # "gone" /\ pc[p] = "flags" => loc[p].slot # s) =>
    ~wins[g_windows[s].win].auto /\ wins[g_windows[s].win].resz = g_windows[s].resizable

\* Together: the service's slots agree with the window manager's windows and
\* with the calls that are under way.
ServiceConsistent == SlotWindowLives /\ ReservationHeld /\ EventsAreOwn /\ FlagsAgree

\* wm.h: "autoclose=1 keeps legacy behavior (destroy on close click)", and the
\* service asks for 0: a click never destroys the window of an application
\* that lives and has not finished with it.
InUseBy(p, w) ==
  /\ alive[p] = "live"
  /\ \/ pc[p] \in {"made", "flags"} /\ loc[p].win = w
     \/ \E s \in Slots : HasWin(s, w) /\ g_windows[s].owner = p
ClickSpares ==
  desk.close /\ desk'= DeskIdle =>
    \A w \in Wins, p \in Pids : (wins[w].used /\ InUseBy(p, w)) => wins'[w].used
OnlyOwnerCloses == [][ClickSpares]_vars

\* A reaped process owns no window, whatever call it was killed in.
ReapedOwnNothing ==
  \A p \in Pids : alive[p] = "gone" => \A s \in Slots : g_windows[s].used = 1 => g_windows[s].owner # p

\* The service's tables, its pixel buffers and what dead processes leave agree.
ServiceSound == ServiceConsistent /\ PixelsOwned /\ ReapedOwnNothing
\* The window manager's order and focus agree.
StackingSound == FocusConsistent /\ ZOrderComplete
=============================================================================
