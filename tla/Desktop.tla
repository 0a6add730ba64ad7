------------------------------- MODULE Desktop -------------------------------
(***************************************************************************)
(* The desktop shell (gfx/desktop.c) over the window manager (gfx/wm.c):   *)
(* the main loop that takes mouse and keyboard events, the start menu, the *)
(* launcher and its search, and dirty-region compositing.                  *)
(*                                                                         *)
(* Geometry is real, in pixels, and the screen is observed at the points   *)
(* of Probes: screen[p] names what was painted last at p.  What is painted *)
(* there (colours, transparency, text, the active look of a title bar) is  *)
(* left out.  An application's call that creates, destroys or repaints a   *)
(* window is one step; Gui has the interleavings inside these calls.       *)
(*                                                                         *)
(* Interrupts move the pointer and queue events at any time; the loop      *)
(* takes one event after the other, each with the place and the buttons    *)
(* it was queued with, while it marks and paints the cursor where the      *)
(* pointer is by then.  The queue is long enough; Input has the full one.  *)
(***************************************************************************)
EXTENDS Integers, FiniteSets, SequencesExt

CONSTANTS
  W, H,                \* fb_info.width, fb_info.height
  Slots,               \* WM_MAX_WINDOWS entries of win_pool
  WM_DIRTY_MAX, DESKTOP_DIRTY_MAX,
  LAUNCHER_MAX_MATCH,
  QUERY_MAX,           \* sizeof(launcher_query) - 1
  Catalog,             \* the labels of launcher_catalog, sequences of letters
  Icons,               \* number of desktop icons
  Spawned,             \* Slots -> the rectangle its application asks for
  Probes,              \* points at which the screen is observed
  Loads                \* what the user and the applications may use: points, presses
                       \* and keys; slots, those of them that are auto (closed by
                       \* the window manager, as the in-kernel applications' are)
                       \* or of fixed size, and those that paint; and burst, the
                       \* bound on the inputs until the loop has dealt with all

VARIABLES
  d,        \* the state of desktop.c and wm.c, see Init
  mouse,    \* the driver's: cur, the pointer, and mouse_buttons_prev
  queue,    \* the input events queued
  at,       \* the loop: "drain", or "cursor" when only the cursor is left to paint
  screen,   \* Probes -> what is painted there
  spoiled,  \* Probes -> why it need not be what belongs there, "" otherwise
  burst,    \* inputs since the loop last had nothing to do
  load      \* the member of Loads of this behaviour

vars == <<d, mouse, queue, at, screen, spoiled, burst, load>>

TASKBAR_H == 46
taskbar_y == H - TASKBAR_H
SHADOW == 6
MARGIN == SHADOW + 2
NoWin == <<0, 0, 0, 0>>

-----------------------------------------------------------------------------
(* Rectangles are <<x, y, w, h>>.                                          *)

Low(a, b) == IF a < b THEN a ELSE b
High(a, b) == IF a > b THEN a ELSE b
clampi(v, lo, hi) == High(lo, Low(v, hi))
In(p, r) == r[1] <= p[1] /\ p[1] < r[1] + r[3] /\ r[2] <= p[2] /\ p[2] < r[2] + r[4]
rect_intersects(a, b) ==
  ~(a[1] + a[3] <= b[1] \/ b[1] + b[3] <= a[1] \/ a[2] + a[4] <= b[2] \/ b[2] + b[4] <= a[2])
Grow(r, m) == <<r[1] - m, r[2] - m, r[3] + 2 * m, r[4] + 2 * m>>

FullScreen == <<0, 0, W, H>>
TaskbarRect == <<0, taskbar_y, W, TASKBAR_H>>
StartButton == <<10, taskbar_y + 8, 82, 30>>
MenuRect == <<10, taskbar_y - 298, 248, 290>>
MenuItems == <<18, MenuRect[2] + 42, 232, 240>>
CursorRect(p) == <<p[1] - 1, p[2] - 1, 14, 21>>

\* launcher_update_layout
LauncherRect(matches) ==
  LET h == 38 + High(Len(matches), 1) * 28 + 14 IN <<(W - 468) \div 2, (H - h) \div 4, 468, h>>

\* add_icon: columns of as many icons as fit above the taskbar.
IconAt(i) ==
  LET col == High((H - TASKBAR_H - 44) \div 86, 1)
  IN  <<28 + ((i - 1) \div col) * 118, 26 + ((i - 1) % col) * 86>>
IconBox(i) == Grow(<<IconAt(i)[1], IconAt(i)[2], 48, 64>>, 8)

\* draw_taskbar lays out one pill of 92 pixels per window, while they fit.
PillRect(k) == <<106 + (k - 1) * 100, taskbar_y + 7, 92, 32>>
PillFits(k) == PillRect(k)[1] + 92 <= W - 162

-----------------------------------------------------------------------------
(* The dirty queue.  Its rectangles are only ever counted and merged into  *)
(* one, so it is kept as the count and the box <<x0, y0, x1, y1>>.         *)

NoDirty == [n |-> 0, box |-> <<W, H, 0, 0>>]

wm_mark_dirty_rect(s, r) ==
  LET x0 == clampi(r[1], 0, W)  x1 == clampi(r[1] + r[3], 0, W)
      y0 == clampi(r[2], 0, H)  y1 == clampi(r[2] + r[4], 0, H)
      b  == s.dirty.box
  IN  IF x1 <= x0 \/ y1 <= y0 THEN s
      ELSE IF s.dirty.n >= WM_DIRTY_MAX
      THEN [s EXCEPT !.dirty = [n |-> 1, box |-> <<0, 0, W, H>>]]
      ELSE [s EXCEPT !.dirty = [n |-> @.n + 1, box |-> <<Low(b[1], x0), Low(b[2], y0),
                                                         High(b[3], x1), High(b[4], y1)>>]]

Mark2(s, r, q) == wm_mark_dirty_rect(wm_mark_dirty_rect(s, r), q)
wm_mark_window_dirty(s, w) ==
  IF w = 0 THEN s ELSE wm_mark_dirty_rect(s, Grow(s.wins[w], MARGIN))

-----------------------------------------------------------------------------
(* The window manager.                                                     *)

Top(s) == IF s.z = <<>> THEN 0 ELSE Last(s.z)
Without(z, w) == SelectSeq(z, LAMBDA v : v # w)

\* A window on top, closable, resizable and closed by a click on its button.
wm_create_window(s, w) ==
  LET r == <<Spawned[w][1], Spawned[w][2], High(Spawned[w][3], 140), High(Spawned[w][4], 90)>>
  IN  wm_mark_window_dirty([s EXCEPT !.wins[w] = r, !.flags[w] = {"auto", "resizable"},
                                     !.z = Append(@, w)], w)

\* gui_srv_window_create then sets its own policy, which marks the window, and
\* marks it once more.
gui_srv_window_create(s, w, flags) ==
  LET t == wm_mark_window_dirty([wm_create_window(s, w) EXCEPT !.flags[w] = flags], w)
  IN  wm_mark_dirty_rect(t, t.wins[w])

wm_destroy_window(s, w) ==
  LET t == wm_mark_window_dirty(s, w)
      u == [t EXCEPT !.drag = IF @ = w THEN 0 ELSE @, !.resize = IF @ = w THEN 0 ELSE @,
                     !.z = Without(@, w)]
  IN  [wm_mark_window_dirty(u, Top(u)) EXCEPT !.wins[w] = NoWin, !.flags[w] = {}]

wm_bring_to_front(s, w) ==
  IF w = Top(s) THEN s
  ELSE wm_mark_window_dirty([wm_mark_window_dirty(s, Top(s)) EXCEPT !.z = Append(Without(@, w), w)], w)

wm_find_window_at(s, p) ==
  LET hit == SelectSeq(s.z, LAMBDA w : In(p, s.wins[w])) IN IF hit = <<>> THEN 0 ELSE Last(hit)

hit_close_btn(r, p) ==
  LET dx == p[1] - (r[1] + 16)  dy == p[2] - (r[2] + 16) IN dx * dx + dy * dy <= 121
hit_title_bar(r, p) == In(p, <<r[1], r[2], r[3], 30>>)
hit_resize_grip(r, p) == In(p, <<r[1] + r[3] - 12, r[2] + r[4] - 12, 12, 12>>)

\* A fault: the place the window left is not marked.
DragTo_new(s, p) ==
  wm_mark_window_dirty([s EXCEPT !.wins[s.drag] = <<p[1] - s.off[1], High(p[2] - s.off[2], 0),
                                                    @[3], @[4]>>], s.drag)

\* wm_handle_mouse, a drag and a resize in progress: the place the window leaves
\* and the place it takes are marked.
DragTo(s, p) ==
  LET old == s.wins[s.drag]
      t   == [s EXCEPT !.wins[s.drag] = <<p[1] - s.off[1], High(p[2] - s.off[2], 0),
                                          old[3], old[4]>>]
  IN  wm_mark_window_dirty(wm_mark_dirty_rect(t, Grow(old, MARGIN)), s.drag)

ResizeTo(s, p) ==
  LET old == s.wins[s.resize]
      t   == [s EXCEPT !.wins[s.resize] = <<old[1], old[2],
                                            High(s.start[1] + p[1] - s.start[3], 140),
                                            High(s.start[2] + p[2] - s.start[4], 90)>>]
      u   == wm_mark_window_dirty(wm_mark_dirty_rect(t, Grow(old, MARGIN)), s.resize)
  IN  wm_mark_window_dirty(u, s.resize)       \* dispatch_to_window(RESIZE)

Dispatch(s, w) == wm_mark_window_dirty(s, w)  \* the window's handler, then the mark

\* wm_handle_mouse, a button goes down on window w, which has come to the front.
RightPress(s, w, down) == IF "R" \in down THEN Dispatch(s, w) ELSE s

Press(s, w, p, down) ==
  LET r == s.wins[w]  left == "L" \in down
  IN  IF left /\ hit_close_btn(r, p)
      THEN IF "auto" \in s.flags[w] THEN wm_destroy_window(Dispatch(s, w), w) ELSE Dispatch(s, w)
      ELSE IF left /\ "resizable" \in s.flags[w] /\ hit_resize_grip(r, p)
      THEN [s EXCEPT !.resize = w, !.start = <<r[3], r[4], p[1], p[2]>>]
      ELSE IF left /\ hit_title_bar(r, p)
      THEN [s EXCEPT !.drag = w, !.off = <<p[1] - r[1], p[2] - r[2]>>]
      ELSE RightPress(IF left THEN Dispatch(Dispatch(s, w), w) ELSE s, w, down)

\* A mouse event with buttons b at p; used says whether a window took it.  The middle button changes nothing, but a change of it is no
\* movement either.
wm_handle_mouse(s, p, b) ==
  LET w    == wm_find_window_at(s, p)
      down == (b \ s.prev) \ {"M"}
      hit  == w # 0 /\ (b = s.prev \/ b \ {"M"} # s.prev \ {"M"})
      t    == IF s.resize # 0 THEN IF "L" \in b THEN ResizeTo(s, p) ELSE [s EXCEPT !.resize = 0]
              ELSE IF s.drag # 0 THEN IF "L" \in b THEN DragTo(s, p) ELSE [s EXCEPT !.drag = 0]
              ELSE IF ~hit THEN s
              ELSE IF down # {} THEN Press(wm_bring_to_front(s, w), w, p, down)
              ELSE Dispatch(s, w)                  \* MOUSE_UP or MOUSE_MOVE
  IN  [s    |-> [t EXCEPT !.prev = b],
       used |-> s.resize # 0 \/ s.drag # 0 \/ hit]

\* A key goes to the top window.  (No driver queues a wheel event.)
wm_handle_input(s, e) ==
  IF e.id \notin {"key", "keyup"} THEN wm_handle_mouse(s, e.p, e.b)
  ELSE [s |-> IF s.z = <<>> THEN s ELSE Dispatch(s, Top(s)), used |-> s.z # <<>>]

-----------------------------------------------------------------------------
(* The launcher.                                                           *)

\* fuzzy_score: the sum of the positions at which the query's letters are
\* found, in order; -1 when one is not found.
fuzzy_score(q, label) ==
  LET Step(a, i) == IF a.qi <= Len(q) /\ q[a.qi] = label[i]
                    THEN [qi |-> a.qi + 1, score |-> a.score + i - 1] ELSE a
      end == FoldLeft(Step, [qi |-> 1, score |-> 0], [i \in 1..Len(label) |-> i])
  IN  IF end.qi > Len(q) THEN end.score ELSE -1

\* One step of the insertion: entries with a greater score move up ...
Insert(list, e) ==
  LET before == SelectSeq(list, LAMBDA x : x.score <= e.score)
      after  == SelectSeq(list, LAMBDA x : x.score > e.score)
  IN  before \o <<e>> \o after

\* ... and a full list takes an entry only in place of a worse last one.
Offer(list, e) ==
  IF e.score < 0 THEN list
  ELSE IF Len(list) < LAUNCHER_MAX_MATCH THEN Insert(list, e)
  ELSE IF e.score < Last(list).score THEN Insert(Front(list), e)
  ELSE list

Apps(list) == [k \in DOMAIN list |-> list[k].app]
Ranked(q) ==
  LET scored == [i \in DOMAIN Catalog |-> [app |-> i, score |-> fuzzy_score(q, Catalog[i])]]
  IN  Apps(FoldLeft(Offer, <<>>, scored))

\* A fault: the selection is not brought back into the list.
ShowMatches_keep(s, m) ==
  [s EXCEPT !.matches = m, !.lhover = -1, !.selected = IF m = <<>> THEN -1 ELSE High(@, 0)]

ShowMatches(s, m) ==
  [s EXCEPT !.matches = m, !.lhover = -1,
            !.selected = IF m = <<>> THEN -1 ELSE clampi(@, 0, Len(m) - 1)]
launcher_update_matches(s) == ShowMatches(s, Ranked(s.query))

launcher_set_open(s, open) ==
  wm_mark_dirty_rect(
    IF ~open THEN [s EXCEPT !.open = FALSE]
    ELSE launcher_update_matches([s EXCEPT !.menu = FALSE, !.hover = -1, !.open = TRUE,
                                           !.query = <<>>, !.selected = 0, !.lhover = -1]),
    FullScreen)

launcher_hit_item(s, p) ==
  LET r   == LauncherRect(s.matches)
      row == (p[2] - r[2] - 38) \div 28
  IN  IF r[1] + 10 <= p[1] /\ p[1] < r[1] + r[3] - 10 /\ p[2] >= r[2] + 38 /\ row < Len(s.matches)
      THEN row ELSE -1

launch(s, app) == [s EXCEPT !.launched = app]

launcher_execute_selected(s) ==
  IF s.selected < 0 \/ s.selected >= Len(s.matches) THEN s
  ELSE launcher_set_open(launch(s, s.matches[s.selected + 1]), FALSE)

\* Alt arrives as keycode 56, which is also the letter 8.
ALT == "8"
launcher_handle_key(s, k) ==
  CASE k = "esc" -> launcher_set_open(s, FALSE)
    [] k = "enter" -> launcher_execute_selected(s)
    [] k = "bksp" -> IF s.query = <<>> THEN s
                     ELSE launcher_update_matches([s EXCEPT !.query = Front(@)])
    [] k = "up" -> [s EXCEPT !.selected = IF @ > 0 THEN @ - 1 ELSE @, !.lhover = -1]
    [] k = "down" -> [s EXCEPT !.selected = IF @ + 1 < Len(s.matches) THEN @ + 1 ELSE @,
                               !.lhover = -1]
    [] OTHER -> IF Len(s.query) >= QUERY_MAX THEN s
                ELSE launcher_update_matches([s EXCEPT !.query = Append(@, k)])

-----------------------------------------------------------------------------
(* desktop_run: one mouse event, one key.                                  *)

hit_icon(p) ==
  LET hit == {i \in 1..Icons : In(p, <<IconAt(i)[1], IconAt(i)[2], 48, 48>>)}
  IN  IF hit = {} THEN 0 ELSE CHOOSE i \in hit : TRUE
hit_menu_item(s, p) ==
  IF s.menu /\ In(p, MenuItems) THEN (p[2] - MenuItems[2]) \div 30 ELSE -1
hit_taskbar_pill(s, p) ==
  LET hit == {k \in DOMAIN s.pills : In(p, PillRect(k))}
  IN  IF hit = {} THEN 0 ELSE s.pills[CHOOSE k \in hit : TRUE]

\* The launcher takes every mouse event while it is open.
LauncherPress(s, li, r, p) ==
  IF li >= 0 THEN launcher_execute_selected([s EXCEPT !.selected = li])
  ELSE IF In(p, r) THEN s ELSE launcher_set_open(s, FALSE)
MarkIfOpen(s, r) == IF s.open THEN wm_mark_dirty_rect(s, r) ELSE s
LauncherMouse(s, id, p, left_down) ==
  LET li == launcher_hit_item(s, p)
      r  == LauncherRect(s.matches)
  IN  CASE id = "move" /\ li # s.lhover ->
             wm_mark_dirty_rect([s EXCEPT !.lhover = li, !.selected = IF li >= 0 THEN li ELSE @], r)
        [] left_down -> MarkIfOpen(LauncherPress(s, li, r, p), r)
        [] OTHER -> s

\* The left button goes down on the desktop: start button, menu, pills, windows,
\* icons, in this order.
IconPress(wm, icon) ==
  IF wm.used THEN wm.s
  ELSE wm_mark_dirty_rect(IF icon # 0 THEN launch(wm.s, icon) ELSE wm.s, TaskbarRect)
DesktopPress(s, e) ==
  LET p    == e.p
      mi   == hit_menu_item(s, p)
      pill == hit_taskbar_pill(s, p)
      Closed(t) == Mark2([t EXCEPT !.menu = FALSE, !.hover = -1], MenuRect, TaskbarRect)
  IN  IF In(p, StartButton)
      THEN Mark2([s EXCEPT !.menu = ~@, !.hover = -1], TaskbarRect, MenuRect)
      ELSE IF mi >= 0 THEN Closed(launch(s, mi + 1))
      ELSE IF s.menu /\ ~In(p, MenuRect) THEN Closed(s)
      ELSE IF pill # 0 THEN wm_mark_dirty_rect(wm_bring_to_front(s, pill), TaskbarRect)
      ELSE IconPress(wm_handle_input(s, e), hit_icon(p))

\* The cursor is marked where it was at the last mouse event and where the
\* pointer is now.  If it was painted at a third place, nothing marks that one:
\* stray, which the code does not have, remembers it.
CursorMarks(s, c) ==
  LET t == [s EXCEPT !.last = c,
                     !.stray = IF s.painted \in {s.last, c} THEN @ ELSE @ \cup {s.painted}]
  IN  IF s.last = c THEN wm_mark_dirty_rect(t, CursorRect(c))
      ELSE Mark2(t, CursorRect(s.last), CursorRect(c))

HoverMark(s, id, mi) ==
  IF s.menu /\ id = "move" /\ mi # s.hover
  THEN wm_mark_dirty_rect([s EXCEPT !.hover = mi], MenuRect) ELSE s
TakeMouse(s, e) ==
  LET left_down == e.id = "down" /\ "L" \in e.b
  IN  IF s.open THEN LauncherMouse(s, e.id, e.p, left_down)
      ELSE IF left_down THEN DesktopPress(s, e)
      ELSE wm_handle_input(HoverMark(s, e.id, hit_menu_item(s, e.p)), e).s
MouseEvent(s, e, c) == TakeMouse(CursorMarks(s, c), e)

KeyEvent(s0, e) ==
  LET k == e.key  down == e.id = "key"
      s == IF k = ALT THEN [s0 EXCEPT !.alt = down] ELSE s0
      NoMenu == wm_mark_dirty_rect([s EXCEPT !.menu = FALSE, !.hover = -1], MenuRect)
  IN  IF down /\ s.alt /\ k = "space"
      THEN launcher_set_open(IF s.menu THEN NoMenu ELSE s, ~s.open)
      ELSE IF s.open /\ down
      THEN LET t == launcher_handle_key(s, k) IN wm_mark_dirty_rect(t, LauncherRect(t.matches))
      ELSE IF down /\ k = "esc" /\ s.menu THEN NoMenu
      ELSE wm_handle_input(s, e).s

-----------------------------------------------------------------------------
(* Painting.                                                               *)

\* What is on the screen, bottom first.
Stack(s) ==
  <<<<"bg", 0>>>> \o [i \in 1..Icons |-> <<"icon", i>>]
  \o [k \in DOMAIN s.z |-> <<"window", s.z[k]>>] \o <<<<"taskbar", 0>>>>
  \o (IF s.menu THEN <<<<"menu", 0>>>> ELSE <<>>)
  \o (IF s.open THEN <<<<"launcher", 0>>>> ELSE <<>>)

\* fb_draw_shadow_rect: strips right of and below the window, slanted.
Shadow(r, p) ==
  \E k \in 0..(SHADOW - 1) :
    \/ p[2] = r[2] + r[4] + k /\ r[1] + SHADOW - k <= p[1] /\ p[1] < r[1] + SHADOW - k + r[3]
    \/ p[1] = r[1] + r[3] + k /\ r[2] + SHADOW - k <= p[2] /\ p[2] < r[2] + SHADOW - k + r[4]

Area(s, l) ==
  CASE l[1] = "icon" -> IconBox(l[2])
    [] l[1] = "window" -> s.wins[l[2]]
    [] l[1] = "taskbar" -> TaskbarRect
    [] l[1] = "menu" -> MenuRect
    [] l[1] = "launcher" -> LauncherRect(s.matches)
    [] OTHER -> FullScreen
Covers(s, l, p) == In(p, Area(s, l)) \/ (l[1] = "window" /\ Shadow(s.wins[l[2]], p))
Image(s, l, p) == IF In(p, Area(s, l)) THEN l ELSE <<"shadow", l[2]>>
CursorAt(c, p) == p[1] = c[1] /\ p[2] \in c[2]..(c[2] + 16)

\* redraw_dirty_regions repaints the background of region r, and every other
\* layer that touches it, whole.
Repainted(s, l, r, p) ==
  CASE l[1] = "bg" -> In(p, r)
    [] l[1] = "window" -> rect_intersects(r, Grow(Area(s, l), MARGIN))
    [] l[1] = "launcher" -> r[2] < taskbar_y
    [] OTHER -> rect_intersects(r, Area(s, l))

PaintedAt(s, r, p) == SelectSeq(Stack(s), LAMBDA l : Repainted(s, l, r, p) /\ Covers(s, l, p))
Layer(s, p) == Image(s, Last(PaintedAt(s, FullScreen, p)), p)
Belongs(s, c, p) == IF CursorAt(c, p) THEN <<"cursor", 0>> ELSE Layer(s, p)

FirstPills(s) == SelectSeq(s.z, LAMBDA w : \E k \in DOMAIN s.z : s.z[k] = w /\ PillFits(k))

\* The region: one box around all rectangles, or the whole screen when there
\* are too many.
Region(s) ==
  LET b == s.dirty.box
  IN  IF s.dirty.n > DESKTOP_DIRTY_MAX \div 2 THEN FullScreen
      ELSE <<b[1], b[2], b[3] - b[1], b[4] - b[2]>>

-----------------------------------------------------------------------------
(* Steps.                                                                  *)

Centre == <<W \div 2, H \div 2>>
Init ==
  /\ d = [wins |-> [w \in Slots |-> NoWin], flags |-> [w \in Slots |-> {}], z |-> <<>>,
          drag |-> 0, off |-> <<0, 0>>, resize |-> 0, start |-> <<0, 0, 0, 0>>, prev |-> {},
          dirty |-> NoDirty, menu |-> FALSE, hover |-> -1, open |-> FALSE, query |-> <<>>,
          matches |-> <<>>, selected |-> -1, lhover |-> -1, alt |-> FALSE, pills |-> <<>>,
          last |-> Centre, painted |-> Centre, stray |-> {}, launched |-> 0]
  /\ mouse = [cur |-> Centre, buttons |-> {}]
  /\ queue = <<>> /\ at = "drain"
  /\ screen = [p \in Probes |-> Belongs(d, Centre, p)]
  /\ spoiled = [p \in Probes |-> ""]
  /\ burst = 0
  /\ load \in Loads

Input == burst < load.burst /\ burst' = burst + 1 /\ UNCHANGED <<at, screen, spoiled, load>>

Event(id, p, b, k) == [id |-> id, p |-> p, b |-> b, key |-> k]

\* A movement takes the place of one at the end of the queue.
event_enqueue(q, e) ==
  IF e.id = "move" /\ q # <<>> /\ Last(q).id = "move" THEN Append(Front(q), e) ELSE Append(q, e)

\* The mouse's interrupt: the pointer goes to p, the buttons are b; a movement and
\* the change of each button are queued.  (A movement against the screen's edge,
\* which leaves the pointer there, is left out.)
Packet(p, b) ==
  LET Changed(x) == (x \in b) # (x \in mouse.buttons)
      Button(x, down) ==
        IF ~Changed(x) THEN <<>> ELSE <<Event(IF x \in b THEN down ELSE "up", p, b, "")>>
      moved == IF p = mouse.cur THEN <<>> ELSE <<Event("move", p, b, "")>>
  IN  /\ Input
      /\ mouse # [cur |-> p, buttons |-> b]
      /\ mouse' = [cur |-> p, buttons |-> b]
      /\ queue' = FoldLeft(event_enqueue, queue, moved \o Button("L", "down")
                            \o Button("R", "right") \o Button("M", "down"))
      /\ UNCHANGED d

\* The keyboard's interrupt.
Key(k, down) ==
  /\ Input
  /\ queue' = event_enqueue(queue, Event(IF down THEN "key" ELSE "keyup", <<0, 0>>, {}, k))
  /\ UNCHANGED <<d, mouse>>

App == Input /\ UNCHANGED <<mouse, queue>>
Policy(w) == IF w \in load.fixed THEN {} ELSE {"resizable"}
AppOpens(w) ==
  /\ App
  /\ d.wins[w] = NoWin /\ \A v \in Slots : v < w => d.wins[v] # NoWin
  /\ d' = IF w \in load.auto THEN wm_create_window(d, w) ELSE gui_srv_window_create(d, w, Policy(w))

AppCloses(w) ==
  App /\ d.wins[w] # NoWin /\ w \notin load.auto /\ d' = wm_destroy_window(d, w)

\* The application presents its client area, or a part of it (gui_srv_mark_dirty).
AppPaints(w) ==
  LET r == d.wins[w]
  IN  /\ App /\ r # NoWin
      /\ \E part \in {<<r[1] + 2, r[2] + 30, r[3] - 4, r[4] - 32>>, <<r[1] + 2, r[2] + 30, 8, 8>>} :
           d' = wm_mark_dirty_rect(d, part)

\* The loop has nothing more to do, and halts.
Rest(q, s) == burst' = IF q = <<>> /\ s.dirty.n = 0 THEN 0 ELSE burst

\* A click on the pill of a window that has been destroyed since the taskbar was
\* drawn: what it does to the z-order is outside the model.
DeadPill(e) ==
  LET pill == hit_taskbar_pill(d, e.p) IN e.id = "down" /\ pill # 0 /\ d.wins[pill] = NoWin

\* desktop_run takes an event.
Handle ==
  LET e == Head(queue)  s == [d EXCEPT !.launched = 0]
  IN  /\ at = "drain" /\ queue # <<>> /\ ~DeadPill(e)
      /\ d' = IF e.id \in {"key", "keyup"} THEN KeyEvent(s, e)
              ELSE MouseEvent(s, e, mouse.cur)
      /\ queue' = Tail(queue)
      /\ Rest(queue', d')
      /\ UNCHANGED <<mouse, at, screen, spoiled, load>>

\* redraw_dirty_regions.  A layer repainted for a region it leaves may cover one
\* above it that the region does not touch; a launcher with fewer rows leaves
\* the old ones outside its new place; a stray cursor stays.
Redraw ==
  LET r == Region(d)
      New(p) == PaintedAt(d, r, p)
      Kept(p) == ~In(p, r) /\ New(p) = <<>>
      Stray(p) == screen[p] = <<"cursor", 0>> /\ \E c \in d.stray : CursorAt(c, p)
  IN  /\ at = "drain" /\ queue = <<>> /\ d.dirty.n > 0
      /\ screen' = [p \in Probes |-> IF Kept(p) THEN screen[p] ELSE Image(d, Last(New(p)), p)]
      /\ spoiled' = [p \in Probes |->
           IF In(p, r) THEN ""
           ELSE IF ~Kept(p) THEN IF screen'[p] = Layer(d, p) THEN "" ELSE "hole"
           ELSE IF Stray(p) THEN "ghost"
           ELSE IF d.open /\ screen[p] = <<"launcher", 0>> THEN "outgrown" ELSE spoiled[p]]
      /\ d' = [d EXCEPT !.dirty = NoDirty, !.stray = {}, !.launched = 0,
                        !.pills = IF rect_intersects(r, TaskbarRect) THEN FirstPills(d) ELSE @]
      /\ at' = "cursor"
      /\ UNCHANGED <<mouse, queue, burst, load>>

\* cursor_draw, last: at the pointer, wherever it has got to.
DrawCursor ==
  /\ at = "cursor" /\ at' = "drain"
  /\ screen' = [p \in Probes |-> IF CursorAt(mouse.cur, p) THEN <<"cursor", 0>> ELSE screen[p]]
  /\ spoiled' = [p \in Probes |-> IF CursorAt(mouse.cur, p) THEN "" ELSE spoiled[p]]
  /\ d' = [d EXCEPT !.painted = mouse.cur]
  /\ Rest(queue, d')
  /\ UNCHANGED <<mouse, queue, load>>

Next ==
  \/ \E p \in load.points, b \in load.presses : Packet(p, b)
  \/ \E k \in load.keys, down \in BOOLEAN : Key(k, down)
  \/ \E w \in load.slots : AppOpens(w) \/ AppCloses(w)
  \/ \E w \in load.paints : AppPaints(w)
  \/ Handle \/ Redraw \/ DrawCursor

Spec == Init /\ [][Next]_vars

-----------------------------------------------------------------------------
(* Properties.                                                             *)

\* Whenever the loop has nothing left to do, every point of the screen shows what
\* belongs there - the cursor where the pointer is, the launcher, the menu, the
\* taskbar, the topmost window or its shadow, an icon, the background - whatever
\* windows were opened, dragged, resized, raised and closed since, wherever
\* interrupts moved the pointer between the steps of the loop, and however many
\* rectangles were queued.  Excepted are the points that a layer repainted whole
\* has covered (a "hole"), that a shrinking launcher left ("outgrown"), or of a
\* cursor that was painted at neither of the two places the next event marked
\* (a "ghost"), until they are repainted.
ScreenTrue ==
  at = "drain" /\ queue = <<>> /\ d.dirty.n = 0 =>
    \A p \in Probes : spoiled[p] = "" => screen[p] = Belongs(d, mouse.cur, p)

\* The launcher offers exactly the applications whose names contain the query,
\* the best scores first and catalog order among equals; the selected and the
\* highlighted row exist; it is never open together with the start menu.
LauncherConsistent ==
  LET Score(i) == fuzzy_score(d.query, Catalog[i])
      found == {i \in 1..Len(Catalog) : Score(i) >= 0}
      Better(i, j) == Score(i) < Score(j) \/ (Score(i) = Score(j) /\ i < j)
  IN  d.open =>
        /\ ~d.menu
        /\ Len(d.matches) = Low(Cardinality(found), LAUNCHER_MAX_MATCH)
        /\ \A k \in DOMAIN d.matches :
             /\ d.matches[k] \in found
             /\ Cardinality({i \in found : Better(i, d.matches[k])}) = k - 1
        /\ d.selected \in (IF found = {} THEN {-1} ELSE 0..(Len(d.matches) - 1))
        /\ d.lhover \in -1..(Len(d.matches) - 1)
=============================================================================
