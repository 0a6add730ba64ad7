----------------------------- MODULE MCDesktop -----------------------------
(***************************************************************************)
(* The desktop, a window's pixels and the theme, side by side: a behaviour *)
(* is of one of them.  The first two share the variables v1..v10.          *)
(***************************************************************************)
EXTENDS Theme, Integers, Sequences, TLC

CONSTANTS
  W, H, Slots, WM_DIRTY_MAX, DESKTOP_DIRTY_MAX, LAUNCHER_MAX_MATCH, QUERY_MAX, Catalog, Icons,
  Spawned, Probes, Loads,
  ScreenW, ScreenH, WM_BORDER_PX, WM_TITLE_BAR_H, FONT_WIDTH, FONT_HEIGHT, Glyph, Start,
  Places, Sizes, Draws, MaxDraws, MaxMoves

VARIABLES which, v1, v2, v3, v4, v5, v6, v7, v8, v9, v10

D == INSTANCE Desktop WITH
       d <- v1, mouse <- v2, screen <- v3, spoiled <- v4, burst <- v5, load <- v6, queue <- v7, at <- v8
C == INSTANCE Canvas WITH WM_DIRTY_MAX <- 2, MARGIN <- 1,
       win <- v1, gw <- v2, app <- v3, regions <- v4, screen <- v5, want <- v6, raced <- v7, stray <- v8,
       draws <- v9, moves <- v10

low == <<v1, v2, v3, v4, v5, v6, v7, v8>>
high == <<v9, v10>>
NoLow == v1 = "" /\ v2 = "" /\ v3 = "" /\ v4 = "" /\ v5 = "" /\ v6 = "" /\ v7 = "" /\ v8 = ""
NoHigh == v9 = "" /\ v10 = ""

AllInit ==
  /\ Init
  /\ \/ which = "desktop" /\ D!Init /\ NoHigh
     \/ which = "canvas" /\ C!Init
     \/ which = "theme" /\ NoLow /\ NoHigh
AllNext ==
  \/ which = "desktop" /\ D!Next /\ UNCHANGED <<which, vars, high>>
  \/ which = "canvas" /\ C!Next /\ UNCHANGED <<which, vars>>
  \/ which = "theme" /\ Next /\ UNCHANGED <<which, low, high>>
AllSpec == AllInit /\ [][AllNext]_<<which, vars, low, high>>

-----------------------------------------------------------------------------
(* The properties of Desktop and Canvas, where they are explained; that of *)
(* the theme, ThemeSound, is its own.                                      *)

\* After a redraw the screen shows what is there: Desktop!ScreenTrue.
DesktopScreenTrue == which = "desktop" => D!ScreenTrue
\* The launcher's rows, selection and query agree: Desktop!LauncherConsistent.
DesktopLauncherConsistent == which = "desktop" => D!LauncherConsistent
\* The buffer of a window is the picture asked for: Canvas!PixelsExact.
PixelsExact == which = "canvas" => C!PixelsExact
\* The screen shows the buffer once nothing is left to repaint: Canvas!Presented.
Presented == which = "canvas" => C!Presented

-----------------------------------------------------------------------------
(* Desktop: seven users of an 800 x 600 screen: one moves two overlapping  *)
(* windows, one resizes the second of two windows while the first, of      *)
(* fixed size, paints, one uses the start menu, one clicks the close       *)
(* button and the pill of an in-kernel application with all buttons, one   *)
(* types into the launcher, one clicks its rows, and one moves the pointer *)
(* three times without waiting for the loop.                               *)

\* Names of three applications; "t" is at the same place of the last two.
MCCatalog == <<<<"n", "e", "t">>, <<"f", "i", "l", "e">>, <<"n", "o", "t", "e">>,
               <<"a", "n", "t">>>>

MCSpawned == (1 :> <<200, 180, 240, 160>>) @@ (2 :> <<330, 240, 100, 80>>)

\* On window 1, on window 2, on both, in the shadow of window 1, under the menu,
\* in the launcher's first and last row, on the taskbar, on an icon, free.
MCProbes == {<<240, 300>>, <<460, 300>>, <<400, 300>>, <<443, 220>>, <<100, 330>>,
             <<300, 160>>, <<300, 230>>, <<300, 560>>, <<40, 380>>, <<620, 470>>}

User(points, presses, keys) ==
  [points |-> points, presses |-> presses, keys |-> keys, slots |-> {}, auto |-> {}, fixed |-> {},
   paints |-> {}, burst |-> 2]
With(user, slots, auto, fixed, paints) ==
  [user EXCEPT !.slots = slots, !.auto = auto, !.fixed = fixed, !.paints = paints]
MCLoads == {
  With(User({<<300, 190>>, <<400, 250>>, <<620, 470>>}, {{}, {"L"}}, {}), {1, 2}, {}, {}, {}),
  With(User({<<433, 333>>, <<620, 470>>}, {{}, {"L"}}, {}), {1, 2}, {}, {1}, {1}),
  With(User({<<50, 575>>, <<100, 330>>, <<130, 570>>}, {{}, {"L"}}, {"esc"}), {1}, {}, {}, {}),
  With(User({<<216, 196>>, <<130, 570>>}, {{}, {"L"}, {"R"}, {"L", "M"}}, {}), {1}, {1}, {}, {}),
  User({<<300, 160>>}, {{}}, {"8", "space", "enter", "bksp", "up", "down", "t", "e"}),
  User({<<300, 160>>, <<40, 390>>}, {{}, {"L"}}, {"8", "space", "t"}),
  [User({<<240, 290>>, <<460, 290>>, <<620, 470>>}, {{}}, {"t"}) EXCEPT !.burst = 3]}

-----------------------------------------------------------------------------
(* Canvas: shapes that lie across the edges of the client area.            *)

CanvasDraws == {
  [kind |-> "rect", x |-> 1, y |-> -1, w |-> 5, h |-> 2, colour |-> "b"],
  [kind |-> "rounded", x |-> 0, y |-> -1, w |-> 3, h |-> 4, radius |-> 5, colour |-> "b"],
  [kind |-> "text", x |-> -1, y |-> 1, len |-> 2, colour |-> "a"],
  [kind |-> "image", x |-> -1, y |-> -1, w |-> 3, h |-> 3,
   pixels |-> <<"a", "b", "c", "c", "a", "b", "b", "c", "a">>]}
CanvasGlyph == {<<0, 0>>, <<1, 1>>}
CanvasStart == <<1, 0, 5, 5>>
CanvasPlaces == {<<2, -1>>, <<-1, 0>>}
CanvasSizes == {<<4, 6>>, <<6, 5>>}

-----------------------------------------------------------------------------
(* Theme: one path has a trailing blank, so that another is its start; one *)
(* is valid only with its trailing blank.                                  *)

ThemeTrim == [p \in Paths |-> CASE p = "sp" -> "p1" [] p = "dots" -> "rel" [] OTHER -> p]
ThemeCut == [p \in Paths |-> IF p = "sp" THEN "p1" ELSE "rel"]
=============================================================================
