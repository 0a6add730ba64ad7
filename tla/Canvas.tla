------------------------------- MODULE Canvas -------------------------------
(***************************************************************************)
(* A window's pixels (gfx/gui_srv.c, gfx/wm.c): the calls that draw into   *)
(* its buffer, the buffer's replacement when the window is resized, the    *)
(* marks that ask the desktop to repaint, and the copy to the screen.      *)
(*                                                                         *)
(* The application draws holding g_gui_lock, lets it go, and takes it      *)
(* again to mark; the region is queued (wm_mark_dirty_rect) with no lock   *)
(* at all.  The desktop process moves, resizes and repaints between these  *)
(* steps.  A pixel is a colour, a buffer the sequence of its rows.         *)
(***************************************************************************)
EXTENDS Integers, Sequences

CONSTANTS
  ScreenW, ScreenH,             \* fb_info
  WM_BORDER_PX, WM_TITLE_BAR_H,
  WM_DIRTY_MAX,
  MARGIN,                       \* UI_MARGIN_R + 2: a window is marked with its shadow
  FONT_WIDTH, FONT_HEIGHT,
  Glyph,                        \* the <<column, row>> a character paints
  Start,                        \* the window's rectangle <<x, y, w, h>>
  Places, Sizes,                \* where it is dragged and what it is resized to
  Draws,                        \* the calls of the application: [kind, x, y, w, h, ...]
  MaxDraws, MaxMoves            \* bounds

VARIABLES
  win,     \* the window's rectangle in the window manager
  gw,      \* [client_w, client_h, pixels]
  app,     \* what the application is about to do, <<"idle">> between two calls
  regions, \* dirty_regions and dirty_count
  screen,  \* the framebuffer
  want,    \* ghost: <<column, row>> -> colour, the picture asked for
  raced,   \* ghost: the region queue was used while a region was being added
  stray,   \* ghost: a copy went past the edges of the screen
  draws, moves

vars == <<win, gw, app, regions, screen, want, raced, stray, draws, moves>>

EMPTY == "empty"                \* 0xFF202226
Cells(r) == (r[1]..(r[1] + r[3] - 1)) \X (r[2]..(r[2] + r[4] - 1))
Screen == <<0, 0, ScreenW, ScreenH>>
Lower(a, b) == IF a < b THEN a ELSE b
Higher(a, b) == IF a > b THEN a ELSE b
Client(g) == <<0, 0, g.client_w, g.client_h>>

-----------------------------------------------------------------------------
(* Rectangles and the buffer.                                              *)

\* clip_rect_to_client and the clamp of wm_mark_dirty_rect: the part of r inside
\* b; width 0 when there is none.
Clip(r, b) ==
  LET x0 == Higher(r[1], b[1])  x1 == Lower(r[1] + r[3], b[1] + b[3])
      y0 == Higher(r[2], b[2])  y1 == Lower(r[2] + r[4], b[2] + b[4])
  IN  IF r[3] <= 0 \/ r[4] <= 0 \/ x0 >= x1 \/ y0 >= y1 THEN <<0, 0, 0, 0>>
      ELSE <<x0, y0, x1 - x0, y1 - y0>>
Nothing(r) == r[3] = 0
Meets(r, q) == ~Nothing(Clip(r, q))

wm_client_rect(w) ==
  <<w[1] + WM_BORDER_PX, w[2] + WM_BORDER_PX + WM_TITLE_BAR_H,
    w[3] - 2 * WM_BORDER_PX, w[4] - 2 * WM_BORDER_PX - WM_TITLE_BAR_H>>

At(g, c) == c[2] * g.client_w + c[1] + 1
Cell(g, i) == <<(i - 1) % g.client_w, (i - 1) \div g.client_w>>

\* The buffer after a loop that stores Colour(c) at the cells of S.
Store(g, S, Colour(_)) ==
  LET hit == {At(g, c) : c \in S}
  IN  [g EXCEPT !.pixels = [i \in DOMAIN @ |-> IF i \in hit THEN Colour(Cell(g, i)) ELSE @[i]]]

\* A fault: the old rows are read with the new width.
reallocate_client_buffer_stride(g, w, h) ==
  LET cw == Lower(w, g.client_w)  ch == Lower(h, g.client_h)
      new == [client_w |-> w, client_h |-> h, pixels |-> [i \in 1..(w * h) |-> EMPTY]]
  IN  Store(new, Cells(<<0, 0, cw, ch>>), LAMBDA c : g.pixels[Lower(At(new, c), Len(g.pixels))])

\* A resized window keeps the part that both sizes have.
reallocate_client_buffer(g, w, h) ==
  LET cw == Lower(w, g.client_w)  ch == Lower(h, g.client_h)
      new == [client_w |-> w, client_h |-> h, pixels |-> [i \in 1..(w * h) |-> EMPTY]]
  IN  Store(new, Cells(<<0, 0, cw, ch>>), LAMBDA c : g.pixels[At(g, c)])

-----------------------------------------------------------------------------
(* The drawing calls: the buffer afterwards, and the rectangle to mark.    *)

gui_srv_draw_rect(g, q) ==
  LET r == Clip(<<q.x, q.y, q.w, q.h>>, Client(g))
  IN  [g |-> Store(g, Cells(r), LAMBDA c : q.colour), r |-> r]

\* The corners are those of the visible part.
Rounded(r, radius) ==
  LET rad == Lower(Lower(Higher(radius, 0), r[3] \div 2), r[4] \div 2)
      D(v, lo, n) == IF v < lo + rad THEN lo + rad - v
                     ELSE IF v >= lo + n - rad THEN v - (lo + n - rad - 1) ELSE 0
      In(c) == LET dx == D(c[1], r[1], r[3])  dy == D(c[2], r[2], r[4])
               IN  dx = 0 \/ dy = 0 \/ dx * dx + dy * dy <= rad * rad
  IN  {c \in Cells(r) : In(c)}

gui_srv_draw_rounded_rect(g, q) ==
  LET r == Clip(<<q.x, q.y, q.w, q.h>>, Client(g))
  IN  [g |-> Store(g, Rounded(r, q.radius), LAMBDA c : q.colour), r |-> r]

\* The cells a character paints at a place of the client area.
draw_char_to_buffer(g, x, y) == {<<x + p[1], y + p[2]>> : p \in Glyph} \cap Cells(Client(g))

\* The mark is not clipped here.
gui_srv_draw_text(g, q) ==
  LET cells == UNION {draw_char_to_buffer(g, q.x + i * FONT_WIDTH, q.y) : i \in 0..(q.len - 1)}
  IN  [g |-> Store(g, cells, LAMBDA c : q.colour),
       r |-> <<q.x, q.y, q.len * FONT_WIDTH, FONT_HEIGHT>>]

\* The image is a sequence of rows of q.w pixels.
gui_srv_draw_image(g, q) ==
  LET src_x == IF q.x < 0 THEN -q.x ELSE 0
      src_y == IF q.y < 0 THEN -q.y ELSE 0
      x == Higher(q.x, 0)
      y == Higher(q.y, 0)
      w == Lower(q.w - src_x, g.client_w - x)
      h == Lower(q.h - src_y, g.client_h - y)
      Colour(c) == q.pixels[(src_y + c[2] - y) * q.w + (src_x + c[1] - x) + 1]
  IN  IF w <= 0 \/ h <= 0 THEN [g |-> g, r |-> <<0, 0, 0, 0>>]
      ELSE [g |-> Store(g, Cells(<<x, y, w, h>>), Colour), r |-> <<x, y, w, h>>]

Drawn(g, q) ==
  CASE q.kind = "rect"    -> gui_srv_draw_rect(g, q)
    [] q.kind = "rounded" -> gui_srv_draw_rounded_rect(g, q)
    [] q.kind = "text"    -> gui_srv_draw_text(g, q)
    [] q.kind = "image"   -> gui_srv_draw_image(g, q)

-----------------------------------------------------------------------------
(* What a call asks for: the shape where it was put, seen through the      *)
(* client area.                                                            *)

Shape(q, area) ==
  CASE q.kind = "rect"    -> Cells(<<q.x, q.y, q.w, q.h>>)
    [] q.kind = "rounded" -> Rounded(Clip(<<q.x, q.y, q.w, q.h>>, area), q.radius)
    [] q.kind = "text"    -> UNION {{<<q.x + i * FONT_WIDTH + p[1], q.y + p[2]>> : p \in Glyph} : i \in 0..(q.len - 1)}
    [] q.kind = "image"   -> Cells(<<q.x, q.y, q.w, q.h>>)
Ink(q, c) == IF q.kind = "image" THEN q.pixels[(c[2] - q.y) * q.w + (c[1] - q.x) + 1] ELSE q.colour

-----------------------------------------------------------------------------
(* The region queue.                                                       *)

NoRegions == [count |-> 0, at |-> [i \in 1..WM_DIRTY_MAX |-> <<0, 0, 0, 0>>]]

\* wm_mark_dirty_rect by the desktop process itself.
wm_mark_dirty_rect(q, r) ==
  LET c == Clip(r, Screen)
  IN  IF Nothing(c) THEN q
      ELSE IF q.count >= WM_DIRTY_MAX THEN [count |-> 1, at |-> [q.at EXCEPT ![1] = Screen]]
      ELSE [count |-> q.count + 1, at |-> [q.at EXCEPT ![q.count + 1] = c]]

\* A window with its shadow.
Wide(r) == <<r[1] - MARGIN, r[2] - MARGIN, r[3] + 2 * MARGIN, r[4] + 2 * MARGIN>>
wm_mark_window_dirty(q, r) == wm_mark_dirty_rect(q, Wide(r))

Adding == app[1] = "count"
Touched == raced' = (raced \/ Adding)

Init ==
  /\ win = Start
  /\ LET r == wm_client_rect(Start)
     IN  gw = [client_w |-> r[3], client_h |-> r[4], pixels |-> [i \in 1..(r[3] * r[4]) |-> EMPTY]]
  /\ app = <<"idle">>
  /\ regions = wm_mark_dirty_rect(wm_mark_window_dirty(NoRegions, Start), Start)
  /\ screen = [c \in Cells(Screen) |-> "desk"]
  /\ want = [c \in Cells(Client(gw)) |-> EMPTY]
  /\ raced = FALSE /\ stray = FALSE /\ draws = 0 /\ moves = 0

-----------------------------------------------------------------------------
(* The application.                                                        *)

\* A drawing call up to the release of the lock; one that is clipped away, and
\* no text, returns at once.
Draw(q) ==
  LET d == Drawn(gw, q)  area == Client(gw)
  IN  /\ app = <<"idle">> /\ draws < MaxDraws
      /\ gw' = d.g
      /\ want' = [c \in DOMAIN want |-> IF c \in Shape(q, area) THEN Ink(q, c) ELSE want[c]]
      /\ app' = IF Nothing(d.r) THEN <<"idle">> ELSE <<"mark", d.r>>
      /\ draws' = draws + 1
      /\ UNCHANGED <<win, regions, screen, raced, stray, moves>>

\* A fault: a rectangle that begins outside is refused, not clipped.
gui_srv_mark_dirty_refuses ==
  LET r == app[2]
      c == wm_client_rect(win)
  IN  /\ app[1] = "mark"
      /\ app' = IF r[1] < 0 \/ r[2] < 0 \/ Nothing(Clip(r, Client(gw))) THEN <<"idle">>
                ELSE <<"region", <<c[1] + r[1], c[2] + r[2], r[3], r[4]>>>>
      /\ UNCHANGED <<win, gw, regions, screen, want, raced, stray, draws, moves>>

\* gui_srv_mark_dirty up to its unlock.
gui_srv_mark_dirty ==
  LET r == Clip(app[2], Client(gw))
      c == wm_client_rect(win)
  IN  /\ app[1] = "mark"
      /\ app' = IF Nothing(r) THEN <<"idle">>
                ELSE <<"region", <<c[1] + r[1], c[2] + r[2], r[3], r[4]>>>>
      /\ UNCHANGED <<win, gw, regions, screen, want, raced, stray, draws, moves>>

\* wm_mark_dirty_rect: a region is stored behind the others ...
StoreRegion ==
  LET r == Clip(app[2], Screen)
  IN  /\ app[1] = "region"
      /\ IF Nothing(r) \/ regions.count >= WM_DIRTY_MAX
         THEN regions' = wm_mark_dirty_rect(regions, app[2]) /\ app' = <<"idle">>
         ELSE /\ regions' = [regions EXCEPT !.at[regions.count + 1] = r]
              /\ app' = <<"count", regions.count>>
      /\ UNCHANGED <<win, gw, screen, want, raced, stray, draws, moves>>

\* ... and counted: dirty_count++, on the value it has now or had then.
CountRegion ==
  /\ Adding
  /\ \E n \in {regions.count, app[2]} : regions' = [regions EXCEPT !.count = Lower(n + 1, WM_DIRTY_MAX)]
  /\ app' = <<"idle">>
  /\ UNCHANGED <<win, gw, screen, want, raced, stray, draws, moves>>

-----------------------------------------------------------------------------
(* The desktop process.                                                    *)

Marked(old, new) == wm_mark_window_dirty(wm_mark_window_dirty(regions, old), new)

Drag(p) ==
  LET to == <<p[1], Higher(p[2], 0), win[3], win[4]>>
  IN  /\ moves < MaxMoves /\ to # win
      /\ win' = to
      /\ regions' = Marked(win, to)
      /\ Touched
      /\ moves' = moves + 1
      /\ UNCHANGED <<gw, app, screen, want, stray, draws>>

\* The window takes its size, is marked, and its handler replaces the pixels,
\* unless there is no memory; the buffer then keeps its size.
Resize(s, memory) ==
  LET to == <<win[1], win[2], s[1], s[2]>>
      c  == wm_client_rect(to)
  IN  /\ moves < MaxMoves /\ to # win
      /\ win' = to
      /\ regions' = Marked(win, to)
      /\ IF memory
         THEN /\ gw' = reallocate_client_buffer(gw, c[3], c[4])
              /\ want' = [k \in Cells(<<0, 0, c[3], c[4]>>) |-> IF k \in DOMAIN want THEN want[k] ELSE EMPTY]
         ELSE UNCHANGED <<gw, want>>
      /\ Touched
      /\ moves' = moves + 1
      /\ UNCHANGED <<app, screen, stray, draws>>

\* The part of the buffer the window has room for.
Visible == <<0, 0, Lower(gw.client_w, wm_client_rect(win)[3]), Lower(gw.client_h, wm_client_rect(win)[4])>>
OnScreen(c) == <<wm_client_rect(win)[1] + c[1], wm_client_rect(win)[2] + c[2]>>

\* The regions are collected; the desktop behind them is painted, then the whole
\* window, shadow, frame and all, if one of them meets it.  gui_window_draw copies with
\* no regard to the edges of the screen.
Redraw ==
  LET R == {regions.at[i] : i \in 1..regions.count}
      back == {c \in Cells(Screen) : \E r \in R : c \in Cells(r)}
      shown == \E r \in R : Meets(r, Wide(win))
      frame == IF shown THEN Cells(Wide(win)) ELSE {}
      ink == IF shown THEN {OnScreen(c) : c \in Cells(Visible)} ELSE {}
      Pixel(c) == gw.pixels[At(gw, <<c[1] - OnScreen(<<0, 0>>)[1], c[2] - OnScreen(<<0, 0>>)[2]>>)]
  IN  /\ regions.count > 0
      /\ screen' = [c \in DOMAIN screen |-> IF c \in ink THEN Pixel(c) ELSE IF c \in frame THEN "frame"
                                            ELSE IF c \in back THEN "desk" ELSE screen[c]]
      /\ stray' = (stray \/ ~(ink \subseteq DOMAIN screen))
      /\ regions' = [regions EXCEPT !.count = 0]
      /\ Touched
      /\ UNCHANGED <<win, gw, app, want, draws, moves>>

Next ==
  \/ \E q \in Draws : Draw(q)
  \/ gui_srv_mark_dirty \/ StoreRegion \/ CountRegion
  \/ \E p \in Places : Drag(p)
  \/ \E s \in Sizes, memory \in BOOLEAN : Resize(s, memory)
  \/ Redraw

Spec == Init /\ [][Next]_vars

-----------------------------------------------------------------------------
(* Properties.                                                             *)

\* Whatever was drawn, clipped and kept through changes of the window's size, the
\* buffer holds the picture that was asked for, cell by cell: a rectangle, a
\* character or an image partly outside covers exactly its part inside, and a
\* window that shrinks and grows keeps the rest where it was.
PixelsExact ==
  /\ DOMAIN want = Cells(Client(gw))
  /\ \A c \in DOMAIN want : gw.pixels[At(gw, c)] = want[c]

\* When the application is between two calls and nothing is left to repaint, the
\* screen shows the window's pixels where the window is, however it was moved or
\* resized between the drawing, the two locks and the mark.  Two faults of the
\* code excepted: regions added without a lock while the desktop uses the queue,
\* and copies past the edge of the screen.
Presented ==
  app = <<"idle">> /\ regions.count = 0 /\ ~raced /\ ~stray
    => \A c \in Cells(Visible) : screen[OnScreen(c)] = gw.pixels[At(gw, c)]

=============================================================================
