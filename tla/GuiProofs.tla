----------------------------- MODULE GuiProofs -----------------------------
(***************************************************************************)
(* What holds of the windows for every number of applications, slots,      *)
(* windows and pixel buffers, wherever a process is killed, as long as no  *)
(* process is preempted in the windows that Races names otherwise.         *)
(*                                                                         *)
(* First the window manager alone: what its operations make of a stack of  *)
(* windows (WmOK), the sweep of a dead process's windows included.  Then   *)
(* the service: who has which slot, window and pixel buffer at each point  *)
(* of each call.                                                           *)
(***************************************************************************)
EXTENDS Gui, TLAPS, FiniteSetTheorems, SequenceTheorems, WellFoundedInduction

-----------------------------------------------------------------------------
(* The inductive invariant: types. *)

Calling == {"idle", "reserved", "scanned", "made", "flags", "undo", "detached", "unmade"}
SlotType == [used : 0..2, handle : Nat, owner : Pids \cup {NoOne}, win : Wins \cup {0},
             buf : Bufs \cup {0}, resizable : BOOLEAN, close : BOOLEAN,
             events : Seq([id : Kinds, window : Nat])]
WinType == [used : BOOLEAN, gui : BOOLEAN, active : BOOLEAN, auto : BOOLEAN, resz : BOOLEAN,
            drag : BOOLEAN]
LocType == [slot : Slots \cup {0}, win : Wins \cup {0}, buf : Bufs \cup {0}]
DeskType == [win : Wins \cup {0}, evs : Seq(Kinds), close : BOOLEAN]
WmType == [wins : [Wins -> WinType], z : Seq(Wins), drag : Wins \cup {0}, resize : Wins \cup {0}]

Shapes ==
  /\ g_windows \in [Slots -> SlotType] /\ g_next_handle \in Nat \ {0}
  /\ Wm \in WmType /\ prev_buttons \subseteq {"L", "R"}
  /\ heap \subseteq Bufs
  /\ alive \in [Pids -> {"live", "zombie", "gone"}]
  /\ pc \in [Pids -> Calling] /\ loc \in [Pids -> LocType]
  /\ desk \in DeskType

-----------------------------------------------------------------------------
(* The inductive invariant: the window manager. *)

\* No window is twice in the list.
Once(z) == \A i, j \in DOMAIN z : z[i] = z[j] => i = j

\* The list holds the windows in use, the top one has the focus, and a drag or
\* a resize is of one of them.
WmOK(m) ==
  /\ m \in WmType
  /\ Once(m.z)
  /\ \A w \in Wins : m.wins[w].used <=> InList(m.z, w)
  /\ \A w \in Wins : InList(m.z, w) => (m.wins[w].active <=> w = Top(m.z))
  /\ m.drag # 0 => InList(m.z, m.drag)
  /\ m.resize # 0 => InList(m.z, m.resize)

-----------------------------------------------------------------------------
(* The inductive invariant: the service. *)

\* Handles are never given out twice.
HandlesFresh ==
  /\ g_next_handle + Cardinality(Creating) <= MaxHandle + 1
  /\ \A s \in Slots : g_windows[s].handle < g_next_handle
  /\ \A s, t \in Slots : g_windows[s].handle = g_windows[t].handle => s = t \/ g_windows[s].handle = 0

\* A slot that is handed out has an owner that is not reaped, a window, pixels
\* and a handle; any other has no window, no pixels and no events.
SlotsFilled ==
  \A s \in Slots :
    /\ Len(g_windows[s].events) <= EVENT_Q
    /\ g_windows[s].used = 1 =>
         /\ g_windows[s].owner \in Pids /\ alive[g_windows[s].owner] # "gone"
         /\ g_windows[s].win # 0 /\ g_windows[s].buf # 0 /\ g_windows[s].handle # 0
    /\ g_windows[s].used # 1 =>
         g_windows[s].win = 0 /\ g_windows[s].buf = 0 /\ g_windows[s].events = <<>>

\* p has reserved a slot and has not yet filled it.
Reserving(p) == alive[p] # "gone" /\ pc[p] \in {"reserved", "scanned", "made"}
\* p has filled its slot and has not yet set the window's flags.
Flagging(p) == alive[p] # "gone" /\ pc[p] = "flags"

\* A reserved slot is its creator's alone, also if an earlier owner's handle is
\* still in it; a slot in the last part of its creation is filled.
Reservations ==
  /\ \A p \in Pids : Reserving(p) => loc[p].slot \in Slots /\ g_windows[loc[p].slot].used = 2
  /\ \A p, q \in Pids : Reserving(p) /\ Reserving(q) /\ loc[p].slot = loc[q].slot => p = q
  /\ \A s \in Slots, o \in Pids : g_windows[s].used = 2 /\ g_windows[s].owner = o =>
       alive[o] = "gone" \/ (Reserving(o) /\ loc[o].slot = s)
  /\ \A p \in Pids : Flagging(p) => 
       /\ loc[p].slot \in Slots
       /\ g_windows[loc[p].slot].used = 1 /\ g_windows[loc[p].slot].owner = p
       /\ g_windows[loc[p].slot].win = loc[p].win

\* p is about to free pixels (or was when it was killed).
Freeing(p) == pc[p] \in {"detached", "unmade"}

\* Every live buffer is one slot's or one such call's.
Buffers ==
  /\ \A s \in Slots : g_windows[s].used = 1 => g_windows[s].buf \in heap
  /\ \A p \in Pids : Freeing(p) => loc[p].buf \in heap
  /\ \A b \in heap : \/ \E s \in Slots : g_windows[s].used = 1 /\ g_windows[s].buf = b
                     \/ \E p \in Pids : Freeing(p) /\ loc[p].buf = b
  /\ \A s, t \in Slots : g_windows[s].used = 1 /\ g_windows[t].used = 1 /\ g_windows[s].buf = g_windows[t].buf
       => s = t
  /\ \A p, q \in Pids : Freeing(p) /\ Freeing(q) /\ loc[p].buf = loc[q].buf => p = q
  /\ \A s \in Slots, p \in Pids : g_windows[s].used = 1 /\ Freeing(p) => g_windows[s].buf # loc[p].buf

ServiceInv == HandlesFresh /\ SlotsFilled /\ Reservations /\ Buffers /\ EventsAreOwn

-----------------------------------------------------------------------------
(* The inductive invariant: what ties the two together. *)

\* A window of the service, as it is to the window manager.
Theirs(w) == InList(zlist, w) /\ wins[w].gui
\* The call of p has a window that no slot names.
Holding(p) == alive[p] = "live" /\ pc[p] \in {"made", "undo", "detached"}

\* A slot's window, or the one a call has in hand, is in the list and nobody
\* else's; the entry found for a new window is still free, and a window on the
\* way out does not close on a click.
Windows ==
  /\ \A s \in Slots : g_windows[s].used = 1 => Theirs(g_windows[s].win)
  /\ \A p \in Pids : Holding(p) => loc[p].win \in Wins /\ Theirs(loc[p].win)
  /\ \A s, t \in Slots : g_windows[s].used = 1 /\ g_windows[t].used = 1 /\ g_windows[s].win = g_windows[t].win
       => s = t
  /\ \A p, q \in Pids : Holding(p) /\ Holding(q) /\ loc[p].win = loc[q].win => p = q
  /\ \A s \in Slots, p \in Pids : g_windows[s].used = 1 /\ Holding(p) => g_windows[s].win # loc[p].win
  /\ \A p \in Pids : At(p, "scanned") => loc[p].win \in Wins /\ ~wins[loc[p].win].used
  /\ \A p, q \in Pids : At(p, "scanned") /\ At(q, "scanned") => p = q
  /\ \A p \in Pids : At(p, "detached") => ~wins[loc[p].win].auto

\* The desktop dispatches to a window that exists, and a close click was not on
\* a window whose creation was under way.
DeskSound ==
  /\ desk.win = 0 => desk = DeskIdle
  /\ desk.win # 0 => InList(zlist, desk.win)
  /\ desk.close => ~Fresh(desk.win)

IInv == Shapes /\ WmOK(Wm) /\ ServiceInv /\ Windows /\ FlagsAgree /\ DeskSound


-----------------------------------------------------------------------------
(* Lists. *)

\* No window is number 0, which stands for none.
LEMMA NoWindowZero == 0 \notin Wins /\ 0 \notin Slots
<1>1. Cardinality(Wins) \in Nat /\ Cardinality(Slots) \in Nat
  BY GuiAssumption, FS_CardinalityType
<1>2. \A n \in Nat : 0 \notin 1..n
  OBVIOUS
<1>3. QED
  BY <1>1, <1>2, GuiAssumption, Zenon

\* The top of a list is in it.
LEMMA TopInList ==
  ASSUME NEW z \in Seq(Wins), z # <<>>
  PROVE  Len(z) \in DOMAIN z /\ Top(z) = z[Len(z)] /\ Top(z) \in Wins /\ InList(z, Top(z))
<1>1. Len(z) \in DOMAIN z
  BY EmptySeq, LenProperties
<1>2. QED
  BY <1>1 DEF Top, InList

\* Taking one place out of a list takes out its window and leaves the others.
LEMMA WithoutList ==
  ASSUME NEW z \in Seq(Wins), Once(z), NEW k \in DOMAIN z
  PROVE  /\ Without(z, k) \in Seq(Wins) /\ Once(Without(z, k))
         /\ \A v : InList(Without(z, k), v) <=> InList(z, v) /\ v # z[k]
         /\ z[k] # Top(z) => Without(z, k) # <<>> /\ Top(Without(z, k)) = Top(z)
<1> DEFINE n == Without(z, k)
           N == Len(z)
<1>1. N \in Nat /\ DOMAIN z = 1..N /\ k \in 1..N /\ \A i \in 1..N : z[i] \in Wins
  BY LenProperties
<1>2. n = [j \in 1..(N - 1) |-> IF j < k THEN z[j] ELSE z[j + 1]]
  BY DEF Without
<1>3. n \in Seq(Wins) /\ Len(n) = N - 1 /\ DOMAIN n = 1..(N - 1)
  <2>1. n \in [1..(N - 1) -> Wins] /\ N - 1 \in Nat
    BY <1>1, <1>2
  <2>2. n \in Seq(Wins)
    BY <2>1, SeqDef, Zenon
  <2>3. QED
    BY <2>1, <2>2, LenProperties
<1>4. Once(n)
  BY <1>1, <1>2, <1>3 DEF Once
<1>5. ASSUME NEW v PROVE InList(n, v) <=> InList(z, v) /\ v # z[k]
  <2>1. ASSUME InList(n, v) PROVE InList(z, v) /\ v # z[k]
    <3>1. PICK j \in 1..(N - 1) : n[j] = v
      BY <2>1, <1>3 DEF InList
    <3> DEFINE i == IF j < k THEN j ELSE j + 1
    <3>2. i \in 1..N /\ i # k /\ z[i] = v
      BY <3>1, <1>1, <1>2
    <3>3. QED
      BY <3>2, <1>1 DEF InList, Once
  <2>2. ASSUME InList(z, v), v # z[k] PROVE InList(n, v)
    <3>1. PICK i \in 1..N : z[i] = v
      BY <2>2, <1>1 DEF InList
    <3> DEFINE j == IF i < k THEN i ELSE i - 1
    <3>2. j \in 1..(N - 1) /\ n[j] = v
      BY <3>1, <2>2, <1>1, <1>2
    <3>3. QED
      BY <3>2, <1>3 DEF InList
  <2>3. QED
    BY <2>1, <2>2
<1>6. ASSUME z[k] # Top(z) PROVE n # <<>> /\ Top(n) = Top(z)
  <2>1. z # <<>> /\ Top(z) = z[N] /\ k # N
    BY <1>6, <1>1, EmptySeq DEF Top
  <2>2. N - 1 \in 1..(N - 1) /\ n[N - 1] = z[N]
    BY <2>1, <1>1, <1>2
  <2>3. n # <<>>
    BY <2>2, <1>3, EmptySeq
  <2>4. QED
    BY <2>1, <2>2, <2>3, <1>3 DEF Top
<1>7. QED
  BY <1>3, <1>4, <1>5, <1>6

LEMMA RemoveList ==
  ASSUME NEW z \in Seq(Wins), Once(z), NEW w, InList(z, w)
  PROVE  /\ zlist_remove(z, w) \in Seq(Wins) /\ Once(zlist_remove(z, w))
         /\ \A v : InList(zlist_remove(z, w), v) <=> InList(z, v) /\ v # w
         /\ w # Top(z) => zlist_remove(z, w) # <<>> /\ Top(zlist_remove(z, w)) = Top(z)
<1> DEFINE k == CHOOSE i \in DOMAIN z : z[i] = w
<1>1. k \in DOMAIN z /\ z[k] = w
  BY DEF InList
<1>2. zlist_remove(z, w) = Without(z, k)
  BY DEF zlist_remove
<1> HIDE DEF k
<1>3. /\ Without(z, k) \in Seq(Wins) /\ Once(Without(z, k))
      /\ \A v : InList(Without(z, k), v) <=> InList(z, v) /\ v # z[k]
      /\ z[k] # Top(z) => Without(z, k) # <<>> /\ Top(Without(z, k)) = Top(z)
  BY <1>1, WithoutList, Zenon
<1>4. QED
  BY <1>1, <1>2, <1>3

LEMMA AppendList ==
  ASSUME NEW z \in Seq(Wins), Once(z), NEW w \in Wins, ~InList(z, w)
  PROVE  /\ Append(z, w) \in Seq(Wins) /\ Once(Append(z, w))
         /\ \A v : InList(Append(z, w), v) <=> InList(z, v) \/ v = w
         /\ Top(Append(z, w)) = w
<1> DEFINE n == Append(z, w)
           N == Len(z)
<1>1. N \in Nat /\ DOMAIN z = 1..N
  BY LenProperties
<1>2. /\ n \in Seq(Wins) /\ Len(n) = N + 1 /\ DOMAIN n = 1..(N + 1)
      /\ \A i \in 1..N : n[i] = z[i]
      /\ n[N + 1] = w
  BY AppendProperties, LenProperties
<1> HIDE DEF n
<1>3. Once(n)
  BY <1>1, <1>2 DEF Once, InList
<1>4. \A v : InList(n, v) <=> InList(z, v) \/ v = w
  BY <1>1, <1>2 DEF InList
<1>5. Top(n) = w
  <2>1. n # <<>>
    BY <1>1, <1>2, EmptySeq
  <2>2. QED
    BY <2>1, <1>2 DEF Top
<1>6. QED
  BY <1>2, <1>3, <1>4, <1>5 DEF n

-----------------------------------------------------------------------------
(* The window manager's operations. *)

\* From m to n the windows of D go and nothing is written in another but focus.
WmLess(m, n, D) ==
  \A w \in Wins : /\ InList(n.z, w) <=> InList(m.z, w) /\ w \notin D
                  /\ n.wins[w].gui <=> m.wins[w].gui
                  /\ n.wins[w].auto <=> m.wins[w].auto
                  /\ n.wins[w].resz <=> m.wins[w].resz

\* From m to n the window w comes, the service's or not, and nothing is written
\* in another but focus.
WmMore(m, n, w, g) ==
  /\ n.wins[w].used /\ (n.wins[w].gui <=> g)
  /\ \A v \in Wins : InList(n.z, v) <=> InList(m.z, v) \/ v = w
  /\ \A v \in Wins \ {w} : /\ n.wins[v].used <=> m.wins[v].used
                           /\ n.wins[v].gui <=> m.wins[v].gui
                           /\ n.wins[v].auto <=> m.wins[v].auto
                           /\ n.wins[v].resz <=> m.wins[v].resz

\* Giving or taking the focus writes nothing else.
FocusOnly(ws, n, w, on) ==
  /\ n \in [Wins -> WinType]
  /\ \A v \in Wins : /\ n[v].used = ws[v].used /\ n[v].gui = ws[v].gui
                     /\ n[v].auto = ws[v].auto /\ n[v].resz = ws[v].resz
                     /\ v = w => n[v].active = on
                     /\ v # w => n[v].active = ws[v].active
LEMMA ActivateWin ==
  ASSUME NEW ws \in [Wins -> WinType], NEW w \in Wins \cup {0}, NEW on \in BOOLEAN
  PROVE  FocusOnly(ws, Activate(ws, w, on), w, on)
<1>1. CASE w = 0
  BY <1>1, NoWindowZero DEF Activate, FocusOnly
<1>2. CASE w # 0
  BY <1>2 DEF Activate, WinType, FocusOnly
<1>3. QED
  BY <1>1, <1>2

LEMMA CreateOK ==
  ASSUME NEW m, WmOK(m), NEW w \in Wins, ~m.wins[w].used, NEW g \in BOOLEAN
  PROVE  WmOK(wm_create_window(m, w, g)) /\ WmMore(m, wm_create_window(m, w, g), w, g)
<1> DEFINE a == Activate(m.wins, Top(m.z), FALSE)
           new == [used |-> TRUE, gui |-> g, active |-> TRUE, auto |-> TRUE, resz |-> TRUE,
                   drag |-> FALSE]
           n == wm_create_window(m, w, g)
<1>1. m \in WmType /\ m.wins \in [Wins -> WinType] /\ m.z \in Seq(Wins) /\ Once(m.z)
      /\ m.drag \in Wins \cup {0} /\ m.resize \in Wins \cup {0} /\ ~InList(m.z, w)
  BY DEF WmOK, WmType
<1>2. Top(m.z) \in Wins \cup {0}
  BY <1>1, TopInList DEF Top
<1>3. FocusOnly(m.wins, a, Top(m.z), FALSE)
  BY <1>1, <1>2, ActivateWin
<1>4. new \in WinType
  BY DEF WinType
<1> HIDE DEF a, new
<1>5. n = [wins |-> [a EXCEPT ![w] = new], z |-> Append(m.z, w), drag |-> m.drag, resize |-> m.resize]
  <2> DEFINE ws == [a EXCEPT ![w] = new]
  <2>1. n = [m EXCEPT !.wins = ws, !.z = Append(m.z, w)]
    BY Zenon DEF wm_create_window, a, new
  <2> HIDE DEF ws
  <2>2. n = [wins |-> ws, z |-> Append(m.z, w), drag |-> m.drag, resize |-> m.resize]
    BY <1>1, <2>1 DEF WmType
  <2>3. QED
    BY <2>2 DEF ws
<1> HIDE DEF n
<1>6. /\ n.z \in Seq(Wins) /\ Once(n.z) /\ Top(n.z) = w
      /\ \A v : InList(n.z, v) <=> InList(m.z, v) \/ v = w
  BY <1>1, <1>5, AppendList
<1>7. n.wins \in [Wins -> WinType] /\ n.wins[w] = new /\ \A v \in Wins \ {w} : n.wins[v] = a[v]
  BY <1>3, <1>4, <1>5 DEF FocusOnly
<1>8. n \in WmType
  BY <1>1, <1>5, <1>6, <1>7 DEF WmType, FocusOnly
<1>9. \A v \in Wins : n.wins[v].used <=> InList(n.z, v)
  BY <1>3, <1>6, <1>7 DEF WmOK, new, FocusOnly
<1>10. \A v \in Wins : InList(n.z, v) => (n.wins[v].active <=> v = Top(n.z))
  BY <1>3, <1>6, <1>7 DEF WmOK, new, FocusOnly
<1>11. (n.drag # 0 => InList(n.z, n.drag)) /\ (n.resize # 0 => InList(n.z, n.resize))
  BY <1>1, <1>5, <1>6 DEF WmOK
<1>12. WmOK(n)
  BY <1>6, <1>8, <1>9, <1>10, <1>11 DEF WmOK
<1>13. QED
  BY <1>3, <1>6, <1>7, <1>12 DEF n, new, FocusOnly, WmMore

LEMMA DestroyOK ==
  ASSUME NEW m, WmOK(m), NEW w \in Wins, InList(m.z, w)
  PROVE  WmOK(wm_destroy_window(m, w)) /\ WmLess(m, wm_destroy_window(m, w), {w})
<1> DEFINE z == zlist_remove(m.z, w)
           f == [m.wins EXCEPT ![w].used = FALSE]
           a == Activate(f, Top(z), TRUE)
           n == wm_destroy_window(m, w)
<1>1. m \in WmType /\ m.wins \in [Wins -> WinType] /\ m.z \in Seq(Wins) /\ Once(m.z)
      /\ m.drag \in Wins \cup {0} /\ m.resize \in Wins \cup {0}
  BY DEF WmOK, WmType
<1>2. /\ z \in Seq(Wins) /\ Once(z)
      /\ \A v : InList(z, v) <=> InList(m.z, v) /\ v # w
      /\ w # Top(m.z) => z # <<>> /\ Top(z) = Top(m.z)
  BY <1>1, RemoveList
<1> HIDE DEF z
<1>3. Top(z) \in Wins \cup {0} /\ (Top(z) # 0 => InList(z, Top(z)))
  BY <1>2, TopInList DEF Top
<1>4. /\ f \in [Wins -> WinType] /\ f[w].used = FALSE
      /\ \A v \in Wins : /\ v # w => f[v].used = m.wins[v].used
                         /\ f[v].gui = m.wins[v].gui /\ f[v].auto = m.wins[v].auto
                         /\ f[v].resz = m.wins[v].resz /\ f[v].active = m.wins[v].active
  BY <1>1 DEF WinType
<1> HIDE DEF f
<1>5. FocusOnly(f, a, Top(z), TRUE)
  BY <1>3, <1>4, ActivateWin
<1> HIDE DEF a
<1>6. n = [wins |-> a, z |-> z, drag |-> IF m.drag = w THEN 0 ELSE m.drag,
           resize |-> IF m.resize = w THEN 0 ELSE m.resize]
  BY DEF wm_destroy_window, z, f, a
<1> HIDE DEF n
<1>7. n \in WmType
  BY <1>1, <1>2, <1>5, <1>6 DEF WmType, FocusOnly
<1>8. \A v \in Wins : n.wins[v].used <=> InList(n.z, v)
  BY <1>2, <1>4, <1>5, <1>6 DEF WmOK, FocusOnly
<1>9. ASSUME NEW v \in Wins, InList(z, v) PROVE a[v].active <=> v = Top(z)
  <2>0. z # <<>>
    BY <1>9 DEF InList
  <2>1. InList(m.z, v) /\ v # w /\ (m.wins[v].active <=> v = Top(m.z))
    BY <1>9, <1>2 DEF WmOK
  <2>2. CASE w = Top(m.z)
    BY <2>1, <2>2, <1>2, <1>3, <1>4, <1>5, <1>9 DEF FocusOnly
  <2>3. CASE w # Top(m.z)
    BY <2>1, <2>3, <1>2, <1>4, <1>5 DEF FocusOnly
  <2>4. QED
    BY <2>2, <2>3
<1>10. (n.drag # 0 => InList(n.z, n.drag)) /\ (n.resize # 0 => InList(n.z, n.resize))
  BY <1>1, <1>2, <1>6 DEF WmOK
<1>11. WmOK(n)
  BY <1>2, <1>6, <1>7, <1>8, <1>9, <1>10 DEF WmOK
<1>12. WmLess(m, n, {w})
  BY <1>2, <1>4, <1>5, <1>6 DEF WmLess, FocusOnly
<1>13. QED
  BY <1>11, <1>12 DEF n

LEMMA FrontOK ==
  ASSUME NEW m, WmOK(m), NEW w \in Wins, InList(m.z, w)
  PROVE  WmOK(wm_bring_to_front(m, w)) /\ WmLess(m, wm_bring_to_front(m, w), {})
<1>1. m \in WmType /\ m.wins \in [Wins -> WinType] /\ m.z \in Seq(Wins) /\ Once(m.z)
      /\ m.drag \in Wins \cup {0} /\ m.resize \in Wins \cup {0}
  BY DEF WmOK, WmType
<1>2. CASE w = Top(m.z)
  BY <1>2 DEF wm_bring_to_front, WmLess
<1>3. CASE w # Top(m.z)
  <2> DEFINE z == zlist_remove(m.z, w)
             a == Activate(m.wins, Top(m.z), FALSE)
             b == Activate(a, w, TRUE)
             n == wm_bring_to_front(m, w)
  <2>1. /\ z \in Seq(Wins) /\ Once(z)
        /\ \A v : InList(z, v) <=> InList(m.z, v) /\ v # w
    BY <1>1, RemoveList
  <2> HIDE DEF z
  <2>2. /\ Append(z, w) \in Seq(Wins) /\ Once(Append(z, w)) /\ Top(Append(z, w)) = w
        /\ \A v \in Wins : InList(Append(z, w), v) <=> InList(m.z, v)
    BY <2>1, AppendList
  <2>3. Top(m.z) \in Wins
    <3>1. m.z # <<>>
      BY DEF InList
    <3>2. QED
      BY <3>1, <1>1, TopInList
  <2>4. FocusOnly(m.wins, a, Top(m.z), FALSE)
    BY <1>1, <2>3, ActivateWin
  <2> HIDE DEF a
  <2>5. FocusOnly(a, b, w, TRUE)
    BY <2>4, ActivateWin DEF FocusOnly
  <2> HIDE DEF b
  <2>6. n = [wins |-> b, z |-> Append(z, w), drag |-> m.drag, resize |-> m.resize]
    BY <1>1, <1>3 DEF wm_bring_to_front, WmType, z, a, b
  <2> HIDE DEF n
  <2>7. n \in WmType
    BY <1>1, <2>2, <2>5, <2>6 DEF WmType, FocusOnly
  <2>8. \A v \in Wins : n.wins[v].used <=> InList(n.z, v)
    BY <2>2, <2>4, <2>5, <2>6 DEF WmOK, FocusOnly
  <2>9. \A v \in Wins : InList(n.z, v) => (n.wins[v].active <=> v = Top(n.z))
    BY <2>2, <2>4, <2>5, <2>6 DEF WmOK, FocusOnly
  <2>10. (n.drag # 0 => InList(n.z, n.drag)) /\ (n.resize # 0 => InList(n.z, n.resize))
    BY <1>1, <2>2, <2>6 DEF WmOK
  <2>11. WmOK(n)
    BY <2>2, <2>6, <2>7, <2>8, <2>9, <2>10 DEF WmOK
  <2>12. WmLess(m, n, {})
    BY <2>2, <2>4, <2>5, <2>6 DEF WmLess, FocusOnly
  <2>13. QED
    BY <2>11, <2>12 DEF n
<1>4. QED
  BY <1>2, <1>3

-----------------------------------------------------------------------------
(* The sweep of a dead process's windows. *)

\* What is taken out one after another is taken out.
LEMMA LessTwice ==
  ASSUME NEW m, NEW n, NEW k, NEW D, NEW E, WmLess(m, n, D), WmLess(n, k, E)
  PROVE  WmLess(m, k, D \cup E)
BY DEF WmLess

\* A non-empty set of numbers has a least one.
LEMMA LeastNat ==
  ASSUME NEW S \in SUBSET Nat, S # {}
  PROVE  \E i \in S : \A j \in S : i <= j
<1>1. PICK i \in S : \A j \in S : ~(<<j, i>> \in OpToRel(<, Nat))
  BY NatLessThanWellFounded, WFMin, Zenon
<1>2. \A j \in S : ~(j < i)
  BY <1>1 DEF OpToRel
<1>3. QED
  BY <1>2

\* One round of the sweep of s from m, when f says what the smaller sets give.
AnyOf(s) == CHOOSE x \in s : TRUE
Round(m, f, s) == IF s = {} THEN m ELSE DropWindow(AnyOf(s), f[s \ {AnyOf(s)}])

\* The sets below size n.
Below(T, n) == {s \in SUBSET T : Cardinality(s) < n}

LEMMA FewerBelow ==
  ASSUME NEW T, IsFiniteSet(T), NEW n \in Nat, NEW s \in Below(T, n + 1), s # {}
  PROVE  AnyOf(s) \in s /\ s \ {AnyOf(s)} \in Below(T, n)
<1>1. s \in SUBSET T /\ IsFiniteSet(s) /\ Cardinality(s) < n + 1
  BY FS_Subset DEF Below
<1>2. AnyOf(s) \in s
  BY DEF AnyOf
<1>3. IsFiniteSet(s \ {AnyOf(s)}) /\ Cardinality(s \ {AnyOf(s)}) = Cardinality(s) - 1
  BY <1>1, <1>2, FS_RemoveElement
<1>4. Cardinality(s) \in Nat
  BY <1>1, FS_CardinalityType
<1>5. QED
  BY <1>1, <1>2, <1>3, <1>4 DEF Below

\* f says what the sweep of every subset of T gives.
IsSweep(f, T, m) == f = [s \in SUBSET T |-> Round(m, f, s)]

LEMMA SweepExists ==
  ASSUME NEW T, IsFiniteSet(T), NEW m
  PROVE  \E f : IsSweep(f, T, m)
<1> DEFINE Def(n) == \E f : f = [s \in Below(T, n) |-> Round(m, f, s)]
           Bad == {n \in Nat : ~Def(n)}
<1>1. Def(0)
  <2>1. Below(T, 0) = {}
    BY FS_Subset, FS_CardinalityType DEF Below
  <2> DEFINE f == [s \in {} |-> m]
  <2>2. f = [s \in Below(T, 0) |-> Round(m, f, s)]
    BY <2>1
  <2>3. QED
    BY <2>2
<1>2. ASSUME NEW n \in Nat, Def(n) PROVE Def(n + 1)
  <2>1. PICK g : g = [s \in Below(T, n) |-> Round(m, g, s)]
    BY <1>2
  <2> DEFINE h == [s \in Below(T, n + 1) |-> Round(m, g, s)]
  <2>2. \A s \in Below(T, n) : s \in Below(T, n + 1) /\ h[s] = g[s]
    <3>1. ASSUME NEW s \in Below(T, n) PROVE s \in Below(T, n + 1)
      <4>1. Cardinality(s) \in Nat
        BY FS_Subset, FS_CardinalityType DEF Below
      <4>2. QED
        BY <4>1 DEF Below
    <3>2. ASSUME NEW s \in Below(T, n) PROVE h[s] = g[s]
      <4>1. h[s] = Round(m, g, s)
        BY <3>1
      <4>2. g[s] = Round(m, g, s)
        BY <2>1, Zenon
      <4>3. QED
        BY <4>1, <4>2, Zenon
    <3>3. QED
      BY <3>1, <3>2, Zenon
  <2>3. ASSUME NEW s \in Below(T, n + 1) PROVE Round(m, g, s) = Round(m, h, s)
    <3>1. CASE s = {}
      BY <3>1 DEF Round
    <3>2. CASE s # {}
      <4>1. s \ {AnyOf(s)} \in Below(T, n)
        BY <3>2, FewerBelow
      <4>2. h[s \ {AnyOf(s)}] = g[s \ {AnyOf(s)}]
        BY <4>1, <2>2, Zenon
      <4> HIDE DEF h
      <4>3. QED
        BY <3>2, <4>2, Zenon DEF Round
    <3>3. QED
      BY <3>1, <3>2
  <2>4. h = [s \in Below(T, n + 1) |-> Round(m, h, s)]
    BY <2>3, Zenon
  <2>5. QED
    BY <2>4
<1>3. \A n \in Nat : Def(n)
  <2> HIDE DEF Def
  <2>1. SUFFICES ASSUME Bad # {} PROVE FALSE
    OBVIOUS
  <2>2. PICK n \in Bad : \A k \in Bad : n <= k
    BY <2>1, LeastNat
  <2>3. n # 0 /\ n - 1 \in Nat /\ n - 1 \notin Bad
    BY <2>2, <1>1
  <2>4. Def(n - 1) /\ (n - 1) + 1 = n
    BY <2>3, <2>2
  <2>5. Def(n)
    BY <2>3, <2>4, <1>2
  <2>6. QED
    BY <2>2, <2>5
<1>4. Cardinality(T) \in Nat
  BY FS_CardinalityType
<1>5. SUBSET T = Below(T, Cardinality(T) + 1)
  <2>1. ASSUME NEW s \in SUBSET T PROVE Cardinality(s) < Cardinality(T) + 1
    <3>1. Cardinality(s) \in Nat /\ Cardinality(s) <= Cardinality(T)
      BY FS_Subset, FS_CardinalityType
    <3>2. QED
      BY <3>1, <1>4
  <2>2. QED
    BY <2>1 DEF Below
<1>6. Def(Cardinality(T) + 1)
  <2> HIDE DEF Def
  <2>1. QED
    BY <1>3, <1>4
<1>7. PICK f : f = [s \in Below(T, Cardinality(T) + 1) |-> Round(m, f, s)]
  BY <1>6, Zenon
<1>8. IsSweep(f, T, m)
  BY <1>5, <1>7 DEF IsSweep
<1>9. QED
  BY <1>8, Zenon

\* The windows of the slots of T.
WinsOf(T) == {g_windows[s].win : s \in T} \ {0}

\* Each slot of T has a window of its own in the list, or none.
Sweepable(m, T) ==
  /\ \A s \in T : g_windows[s].win = 0 \/ (g_windows[s].win \in Wins /\ InList(m.z, g_windows[s].win))
  /\ \A s, t \in T : g_windows[s].win = g_windows[t].win => s = t \/ g_windows[s].win = 0

\* The sweep leaves a sound stack without the windows of the slots swept.
LEMMA SweepOK ==
  ASSUME NEW T, IsFiniteSet(T), NEW m, WmOK(m), Sweepable(m, T)
  PROVE  /\ WmOK(FoldSet(DropWindow, m, T))
         /\ WmLess(m, FoldSet(DropWindow, m, T), WinsOf(T))
<1> DEFINE it == CHOOSE f : f = [s \in SUBSET T |-> Round(m, f, s)]
           Good(s) == WmOK(it[s]) /\ WmLess(m, it[s], WinsOf(s))
           Bad == {n \in Nat : \E s \in SUBSET T : Cardinality(s) = n /\ ~Good(s)}
<1>1. FoldSet(DropWindow, m, T) = it[T]
  BY DEF FoldSet, MapThenFoldSet, Round, AnyOf
<1>2. it = [s \in SUBSET T |-> Round(m, it, s)]
  <2>1. \E f : IsSweep(f, T, m)
    BY SweepExists
  <2>2. QED
    BY <2>1, Zenon DEF IsSweep
<1> HIDE DEF it
<1>3. \A s \in SUBSET T : it[s] = Round(m, it, s)
  BY <1>2, Zenon
<1>4. Good({})
  <2>1. it[{}] = m
    BY <1>3 DEF Round
  <2>2. QED
    BY <2>1 DEF WmLess, WinsOf
<1>5. ASSUME NEW s \in SUBSET T, s # {}, Good(s \ {AnyOf(s)}) PROVE Good(s)
  <2> DEFINE x == AnyOf(s)
             r == s \ {x}
             w == g_windows[x].win
  <2>1. x \in s /\ x \in T
    BY <1>5 DEF AnyOf
  <2>2. it[s] = DropWindow(x, it[r])
    BY <1>3, <1>5 DEF Round
  <2>3. WmOK(it[r]) /\ WmLess(m, it[r], WinsOf(r))
    BY <1>5
  <2> HIDE DEF x
  <2>4. CASE w = 0
    <3>1. WinsOf(s) = WinsOf(r)
      BY <2>1, <2>4 DEF WinsOf
    <3>2. QED
      BY <3>1, <2>2, <2>3, <2>4 DEF DropWindow
  <2>5. CASE w # 0
    <3>1. w \in Wins /\ InList(m.z, w)
      BY <2>1, <2>5 DEF Sweepable
    <3>2. w \notin WinsOf(r)
      BY <2>1, <2>5 DEF WinsOf, Sweepable
    <3>3. InList(it[r].z, w)
      BY <3>1, <3>2, <2>3 DEF WmLess
    <3>4. it[s] = wm_destroy_window(it[r], w)
      BY <2>2, <2>5 DEF DropWindow
    <3>5. WmOK(it[s]) /\ WmLess(it[r], it[s], {w})
      BY <3>1, <3>3, <3>4, <2>3, DestroyOK
    <3>6. WinsOf(s) = WinsOf(r) \cup {w}
      BY <2>1, <2>5 DEF WinsOf
    <3>7. WmLess(m, it[s], WinsOf(r) \cup {w})
      BY <3>5, <2>3, LessTwice
    <3>8. QED
      BY <3>5, <3>6, <3>7
  <2>6. QED
    BY <2>4, <2>5
<1>6. ASSUME NEW s \in SUBSET T PROVE Good(s)
  <2> HIDE DEF Good
  <2>1. \A t \in SUBSET T : IsFiniteSet(t) /\ Cardinality(t) \in Nat
    BY FS_Subset, FS_CardinalityType
  <2>2. SUFFICES ASSUME Bad # {} PROVE FALSE
    BY <2>1
  <2>3. PICK n \in Bad : \A k \in Bad : n <= k
    BY <2>2, LeastNat
  <2>4. PICK t \in SUBSET T : Cardinality(t) = n /\ ~Good(t)
    BY <2>3
  <2>5. t # {}
    BY <2>4, <1>4
  <2> DEFINE r == t \ {AnyOf(t)}
  <2>6. AnyOf(t) \in t
    BY <2>5 DEF AnyOf
  <2>7. Cardinality(r) = n - 1 /\ Cardinality(r) \in Nat /\ r \in SUBSET T
    BY <2>1, <2>4, <2>6, FS_RemoveElement
  <2>8. Good(r)
    BY <2>3, <2>7
  <2>9. QED
    BY <2>4, <2>5, <2>8, <1>5
<1>7. QED
  BY <1>1, <1>6

-----------------------------------------------------------------------------
(* Queues and slots. *)

EventType == [id : Kinds, window : Nat]

\* Queueing keeps the ring's bound and brings in nothing but the new event.
LEMMA EnqueueKeeps ==
  ASSUME NEW q \in Seq(EventType), NEW e \in EventType, Len(q) <= EVENT_Q
  PROVE  /\ Enqueue(q, e, EVENT_Q) \in Seq(EventType)
         /\ Len(Enqueue(q, e, EVENT_Q)) <= EVENT_Q
         /\ \A i \in DOMAIN Enqueue(q, e, EVENT_Q) :
              \/ Enqueue(q, e, EVENT_Q)[i] = e
              \/ \E j \in DOMAIN q : Enqueue(q, e, EVENT_Q)[i] = q[j]
<1> DEFINE r == Enqueue(q, e, EVENT_Q)
           N == Len(q)
<1>1. N \in Nat /\ DOMAIN q = 1..N /\ EVENT_Q \in Nat \ {0} /\ \A i \in 1..N : q[i] \in EventType
  BY LenProperties, GuiAssumption
<1>2. CASE Merges(q, e)
  <2>1. r = [q EXCEPT ![N] = e]
    BY <1>2 DEF Enqueue
  <2>2. r \in [1..N -> EventType] /\ \A i \in 1..N : r[i] = e \/ r[i] = q[i]
    BY <1>1, <2>1
  <2>3. r \in Seq(EventType) /\ Len(r) = N /\ DOMAIN r = 1..N
    <3>1. r \in Seq(EventType)
      BY <2>2, <1>1, SeqDef, Zenon
    <3>2. QED
      BY <3>1, <2>2, <1>1, LenProperties
  <2>4. QED
    BY <2>2, <2>3, <1>1
<1>3. CASE ~Merges(q, e) /\ N >= EVENT_Q
  <2> DEFINE k == Victim(q)
             v == Without(q, k)
  <2>1. r = Append(v, e)
    BY <1>3 DEF Enqueue
  <2>2. k \in 1..N
    <3> DEFINE low == {i \in 1..N : Low(q[i])}
    <3>1. CASE low = {}
      BY <3>1, <1>1, <1>3 DEF Victim
    <3>2. CASE low # {}
      <4>1. \E i \in low : \A j \in low : i <= j
        <5>1. low \in SUBSET Nat
          BY <1>1
        <5> HIDE DEF low
        <5>2. QED
          BY <5>1, <3>2, LeastNat
      <4>2. k = CHOOSE i \in low : \A j \in low : i <= j
        BY <3>2 DEF Victim
      <4>3. k \in low
        <5> HIDE DEF low
        <5>1. QED
          BY <4>1, <4>2
      <4>4. QED
        BY <4>3
    <3>3. QED
      BY <3>1, <3>2
  <2> HIDE DEF k
  <2>3. v \in [1..(N - 1) -> EventType] /\ N - 1 \in Nat /\ \A i \in 1..(N - 1) : \E j \in 1..N : v[i] = q[j]
    BY <2>2, <1>1, <1>3 DEF Without
  <2>4. v \in Seq(EventType) /\ Len(v) = N - 1
    <3>1. v \in Seq(EventType)
      BY <2>3, SeqDef, Zenon
    <3>2. QED
      BY <3>1, <2>3, LenProperties
  <2> HIDE DEF v
  <2>5. /\ r \in Seq(EventType) /\ Len(r) = N /\ DOMAIN r = 1..N
        /\ \A i \in 1..(N - 1) : r[i] = v[i]
        /\ r[N] = e
    BY <2>1, <2>3, <2>4, <1>1, <1>3, AppendProperties, LenProperties
  <2>6. ASSUME NEW i \in 1..N PROVE r[i] = e \/ \E j \in 1..N : r[i] = q[j]
    <3>1. CASE i = N
      BY <2>5, <3>1
    <3>2. CASE i # N
      <4>1. i \in 1..(N - 1)
        <5>1. \A n \in Nat : \A m \in 1..n : m # n => m \in 1..(n - 1)
          OBVIOUS
        <5> HIDE DEF N, r
        <5>2. QED
          BY <1>1, <2>6, <3>2, <5>1, Zenon
      <4>2. QED
        BY <2>3, <2>5, <4>1, Zenon
    <3>3. QED
      BY <3>1, <3>2
  <2> HIDE DEF r
  <2>7. Len(r) <= EVENT_Q
    BY <2>5
  <2>8. QED
    BY <1>1, <2>5, <2>6, <2>7, Zenon DEF r
<1>4. CASE ~Merges(q, e) /\ ~(N >= EVENT_Q)
  <2>1. r = Append(q, e)
    BY <1>4 DEF Enqueue
  <2>2. /\ r \in Seq(EventType) /\ Len(r) = N + 1 /\ DOMAIN r = 1..(N + 1)
        /\ \A i \in 1..N : r[i] = q[i]
        /\ r[N + 1] = e
    BY <2>1, <1>1, AppendProperties, LenProperties
  <2>3. QED
    BY <2>2, <1>1, <1>4
<1>5. QED
  BY <1>2, <1>3, <1>4

\* A slot whose queue fits its ring and holds events of its own window.
SlotOK(g) == /\ g \in SlotType /\ Len(g.events) <= EVENT_Q
             /\ \A i \in DOMAIN g.events : g.events[i].window = g.handle

\* n is g but for its events and its close request.
EventsOnly(g, n) ==
  /\ SlotOK(n)
  /\ n.used = g.used /\ n.handle = g.handle /\ n.owner = g.owner /\ n.win = g.win
  /\ n.buf = g.buf /\ n.resizable = g.resizable

LEMMA EvtEnqueueOK ==
  ASSUME NEW g, SlotOK(g), NEW kind \in Kinds
  PROVE  EventsOnly(g, evt_enqueue(g, kind))
<1> DEFINE e == GuiEvent(kind, g.handle)
           q == Enqueue(g.events, e, EVENT_Q)
           n == evt_enqueue(g, kind)
<1>1. g \in SlotType /\ g.events \in Seq(EventType) /\ e \in EventType /\ e.window = g.handle
  BY DEF SlotOK, SlotType, EventType, GuiEvent
<1>2. /\ q \in Seq(EventType) /\ Len(q) <= EVENT_Q
      /\ \A i \in DOMAIN q : q[i] = e \/ \E j \in DOMAIN g.events : q[i] = g.events[j]
  BY <1>1, EnqueueKeeps DEF SlotOK
<1>3. n = [g EXCEPT !.events = q]
  BY DEF evt_enqueue
<1> HIDE DEF e, q, n
<1>4. /\ n \in SlotType /\ n.events = q
      /\ n.used = g.used /\ n.handle = g.handle /\ n.owner = g.owner /\ n.win = g.win
      /\ n.buf = g.buf /\ n.resizable = g.resizable
  BY <1>1, <1>2, <1>3 DEF SlotType, EventType
<1>5. \A i \in DOMAIN q : q[i].window = g.handle
  BY <1>1, <1>2 DEF SlotOK
<1>6. QED
  BY <1>2, <1>4, <1>5 DEF EventsOnly, SlotOK, n

LEMMA DeliverOK ==
  ASSUME NEW g, SlotOK(g), NEW kind \in Kinds
  PROVE  EventsOnly(g, Deliver(g, kind))
<1>1. CASE kind = "close"
  <2> DEFINE c == [g EXCEPT !.close = TRUE]
  <2>1. /\ SlotOK(c)
        /\ c.used = g.used /\ c.handle = g.handle /\ c.owner = g.owner /\ c.win = g.win
        /\ c.buf = g.buf /\ c.resizable = g.resizable
    BY DEF SlotOK, SlotType
  <2>2. Deliver(g, kind) = evt_enqueue(c, kind)
    BY <1>1 DEF Deliver
  <2> HIDE DEF c
  <2>3. EventsOnly(c, Deliver(g, kind))
    BY <2>1, <2>2, EvtEnqueueOK
  <2>4. QED
    BY <2>1, <2>3 DEF EventsOnly
<1>2. CASE kind # "close"
  <2>1. Deliver(g, kind) = evt_enqueue(g, kind)
    BY <1>2 DEF Deliver
  <2>2. QED
    BY <2>1, EvtEnqueueOK
<1>3. QED
  BY <1>1, <1>2

\* After a resize the slot has other pixels.
LEMMA ResizedOK ==
  ASSUME NEW g, SlotOK(g), NEW b \in Bufs, NEW kind \in Kinds
  PROVE  EventsOnly([g EXCEPT !.buf = b], Deliver(Resized(g, b), kind))
<1> DEFINE c == [g EXCEPT !.buf = b]
           d == Resized(g, b)
<1>1. SlotOK(c)
  BY DEF SlotOK, SlotType
<1>2. d = evt_enqueue(c, "paint")
  BY DEF Resized
<1> HIDE DEF c, d
<1>3. EventsOnly(c, d) /\ SlotOK(d)
  BY <1>1, <1>2, EvtEnqueueOK DEF EventsOnly, Kinds
<1>4. EventsOnly(d, Deliver(d, kind))
  BY <1>3, DeliverOK
<1>5. EventsOnly(c, Deliver(d, kind))
  BY <1>3, <1>4 DEF EventsOnly
<1>6. QED
  BY <1>5 DEF c, d

\* The first of a non-empty set of slots or windows is one of them.
LEMMA FirstIn ==
  ASSUME NEW S, S # {}, S \subseteq Slots \/ S \subseteq Wins
  PROVE  FirstOf(S) \in S
<1>1. S \in SUBSET Nat
  <2>1. Cardinality(Slots) \in Nat /\ Cardinality(Wins) \in Nat
    BY GuiAssumption, FS_CardinalityType
  <2>2. \A n \in Nat : 1..n \subseteq Nat
    OBVIOUS
  <2>3. Slots \subseteq Nat /\ Wins \subseteq Nat
    BY <2>1, <2>2, GuiAssumption, Zenon
  <2>4. QED
    BY <2>3
<1>2. PICK i \in S : \A j \in S : i <= j
  BY <1>1, LeastNat
<1>3. QED
  BY <1>2 DEF FirstOf

\* The slot a handle of its caller names is in use, its caller's, and has it.
LEMMA OwnedSlot ==
  ASSUME NEW p, NEW h, Owned(p, h) # 0
  PROVE  /\ Owned(p, h) \in Slots /\ InUse(Owned(p, h)) /\ g_windows[Owned(p, h)].owner = p
         /\ g_windows[Owned(p, h)].handle = h
<1> DEFINE s == find_slot_by_handle(h)
           S == {t \in Slots : HasHandle(t, h)}
<1>1. s # 0 /\ g_windows[s].owner = p /\ Owned(p, h) = s
  BY DEF Owned
<1>2. S # {} /\ s = FirstOf(S)
  BY <1>1 DEF find_slot_by_handle
<1>3. S \subseteq Slots
  OBVIOUS
<1> HIDE DEF S, s
<1>4. s \in S
  BY <1>2, <1>3, FirstIn
<1>5. QED
  BY <1>1, <1>4 DEF S, HasHandle

\* The slot found for a window is in use and has it.
LEMMA SlotOfWin ==
  ASSUME NEW w, find_slot_by_wm(w) # 0
  PROVE  find_slot_by_wm(w) \in Slots /\ InUse(find_slot_by_wm(w)) /\ g_windows[find_slot_by_wm(w)].win = w
<1> DEFINE s == find_slot_by_wm(w)
           S == {t \in Slots : HasWin(t, w)}
<1>1. S # {} /\ s = FirstOf(S) /\ S \subseteq Slots
  BY DEF find_slot_by_wm
<1> HIDE DEF S, s
<1>2. s \in S
  BY <1>1, FirstIn
<1>3. QED
  BY <1>2 DEF S, s, HasWin

-----------------------------------------------------------------------------
(* Steps in general. *)

\* No process is preempted in the windows the model can admit, but a process
\* may be killed anywhere.
NoRaces == Races \subseteq {"killed"}

\* What a call into the window manager returns is its next state.
LEMMA SetWmIs ==
  ASSUME NEW m \in WmType, SetWm(m)
  PROVE  Wm' = m
BY DEF SetWm, Wm, WmType

LEMMA WmSame ==
  ASSUME UNCHANGED <<wins, zlist, drag_win, resize_win>>
  PROVE  Wm' = Wm
BY DEF Wm

LEMMA WmOKNext ==
  ASSUME WmOK(Wm')
  PROVE  WmOK(Wm)'
BY DEF WmOK, Wm, WmType, WinType, Once, InList, Top

\* The parts of the state as the invariant's types give them.
LEMMA Typed ==
  ASSUME Shapes
  PROVE  /\ wins \in [Wins -> WinType] /\ zlist \in Seq(Wins)
         /\ drag_win \in Wins \cup {0} /\ resize_win \in Wins \cup {0}
BY DEF Shapes, Wm, WmType

\* The shapes of the window manager's part follow from WmOK.
LEMMA ShapesNext ==
  ASSUME WmOK(Wm'),
         g_windows' \in [Slots -> SlotType], g_next_handle' \in Nat \ {0},
         prev_buttons' \subseteq {"L", "R"}, heap' \subseteq Bufs,
         alive' \in [Pids -> {"live", "zombie", "gone"}],
         pc' \in [Pids -> Calling], loc' \in [Pids -> LocType], desk' \in DeskType
  PROVE  Shapes'
<1>1. Wm' \in WmType
  BY DEF WmOK
<1>2. QED
  BY <1>1 DEF Shapes, SlotType, WmType, WinType, Wm, Calling, LocType, DeskType, Kinds

\* A step that leaves the service's state alone.
LEMMA ServiceStays ==
  ASSUME ServiceInv, UNCHANGED <<g_windows, g_next_handle, heap, alive, pc, loc>>
  PROVE  ServiceInv'
<1>1. Creating' = Creating
  BY DEF Creating
<1>2. HandlesFresh'
  BY <1>1 DEF ServiceInv, HandlesFresh
<1>3. SlotsFilled'
  BY DEF ServiceInv, SlotsFilled
<1>4. Reservations'
  BY DEF ServiceInv, Reservations, Reserving, Flagging
<1>5. Buffers'
  BY DEF ServiceInv, Buffers, Freeing
<1>6. EventsAreOwn'
  BY DEF ServiceInv, EventsAreOwn
<1>7. QED
  BY <1>2, <1>3, <1>4, <1>5, <1>6 DEF ServiceInv

\* A step that takes the windows of D away, none of which a slot names any more
\* and none of which a call still has in hand.
LEMMA LessStep ==
  ASSUME IInv, WmOK(Wm'), NEW D, WmLess(Wm, Wm', D),
         \A t \in Slots : g_windows'[t].used = 1 =>
           /\ g_windows[t].used = 1 /\ g_windows'[t].win = g_windows[t].win /\ g_windows[t].win \notin D
           /\ g_windows'[t].resizable = g_windows[t].resizable,
         \A q \in Pids : Holding(q)' => Holding(q) /\ loc'[q].win = loc[q].win /\ loc[q].win \notin D,
         \A q \in Pids : At(q, "scanned")' => At(q, "scanned") /\ loc'[q].win = loc[q].win,
         \A q \in Pids : At(q, "detached")' => At(q, "detached"),
         \A q \in Pids : Flagging(q) =>
           (Flagging(q)' /\ loc'[q].slot = loc[q].slot) \/ g_windows'[loc[q].slot].used # 1
  PROVE  Windows' /\ FlagsAgree'
<1>1. \A w \in Wins : /\ InList(zlist', w) <=> InList(zlist, w) /\ w \notin D
                      /\ wins'[w].gui <=> wins[w].gui
                      /\ wins'[w].auto <=> wins[w].auto
                      /\ wins'[w].resz <=> wins[w].resz
                      /\ wins'[w].used <=> InList(zlist', w)
                      /\ wins[w].used <=> InList(zlist, w)
  BY DEF WmLess, Wm, WmOK, IInv
<1>2. \A s \in Slots : g_windows[s].used = 1 => g_windows[s].win \in Wins
  BY DEF IInv, ServiceInv, SlotsFilled, Shapes, SlotType
<1>3. \A w \in Wins \ D : Theirs(w) => InList(zlist', w) /\ wins'[w].gui
  BY <1>1 DEF Theirs
<1>4. Windows'
  <2>1. \A s \in Slots : g_windows'[s].used = 1 =>
          InList(zlist', g_windows'[s].win) /\ wins'[g_windows'[s].win].gui
    BY <1>2, <1>3 DEF IInv, Windows
  <2>2. \A q \in Pids : Holding(q)' =>
          loc'[q].win \in Wins /\ InList(zlist', loc'[q].win) /\ wins'[loc'[q].win].gui
    BY <1>3 DEF IInv, Windows
  <2>3. \A q \in Pids : At(q, "scanned")' => loc'[q].win \in Wins /\ ~wins'[loc'[q].win].used
    BY <1>1 DEF IInv, Windows
  <2>4. \A q \in Pids : At(q, "detached")' => ~wins'[loc'[q].win].auto
    BY <1>1, <2>2 DEF IInv, Windows, Holding, At
  <2>5. \A s, t \in Slots : g_windows'[s].used = 1 /\ g_windows'[t].used = 1 /\ g_windows'[s].win = g_windows'[t].win
          => s = t
    BY DEF IInv, Windows
  <2>6. \A p, q \in Pids : Holding(p)' /\ Holding(q)' /\ loc'[p].win = loc'[q].win => p = q
    BY DEF IInv, Windows
  <2>7. \A s \in Slots, p \in Pids : g_windows'[s].used = 1 /\ Holding(p)' => g_windows'[s].win # loc'[p].win
    BY DEF IInv, Windows
  <2>8. \A p, q \in Pids : At(p, "scanned")' /\ At(q, "scanned")' => p = q
    BY DEF IInv, Windows
  <2>9. QED
    BY <2>1, <2>2, <2>3, <2>4, <2>5, <2>6, <2>7, <2>8 DEF Windows, Theirs
<1>5. FlagsAgree'
  <2>1. SUFFICES ASSUME NEW s \in Slots, g_windows'[s].used = 1,
                        \A q \in Pids : Flagging(q)' => loc'[q].slot # s
                 PROVE  /\ ~wins'[g_windows'[s].win].auto
                        /\ wins'[g_windows'[s].win].resz = g_windows'[s].resizable
    BY DEF FlagsAgree, Flagging
  <2>2. \A q \in Pids : Flagging(q) => loc[q].slot # s
    BY <2>1
  <2>3. ~wins[g_windows[s].win].auto /\ wins[g_windows[s].win].resz = g_windows[s].resizable
    BY <2>1, <2>2 DEF IInv, FlagsAgree, Flagging
  <2>4. g_windows[s].win \in Wins /\ g_windows'[s].win = g_windows[s].win
        /\ g_windows'[s].resizable = g_windows[s].resizable
    BY <2>1, <1>2
  <2>5. \A w \in Wins : wins[w].resz \in BOOLEAN /\ wins'[w].resz \in BOOLEAN
    BY DEF IInv, WmOK, WmType, Wm, WinType
  <2>6. QED
    BY <2>3, <2>4, <2>5, <1>1
<1>6. QED
  BY <1>4, <1>5

\* A step during which the calls move on without changing what is the service's.
LEMMA ServiceMoves ==
  ASSUME IInv, UNCHANGED <<g_windows, g_next_handle, heap, alive>>, Creating' = Creating,
         \A q \in Pids : (Reserving(q)' <=> Reserving(q)) /\ (Freeing(q)' <=> Freeing(q)),
         \A q \in Pids : Reserving(q) => loc'[q].slot = loc[q].slot,
         \A q \in Pids : Freeing(q) => loc'[q].buf = loc[q].buf,
         \A q \in Pids : Flagging(q)' =>
           Flagging(q) /\ loc'[q].slot = loc[q].slot /\ loc'[q].win = loc[q].win
  PROVE  ServiceInv'
<1>1. HandlesFresh'
  BY DEF IInv, ServiceInv, HandlesFresh
<1>2. SlotsFilled' /\ EventsAreOwn'
  BY DEF IInv, ServiceInv, SlotsFilled, EventsAreOwn
<1>3. Reservations'
  BY DEF IInv, ServiceInv, Reservations
<1>4. Buffers'
  BY DEF IInv, ServiceInv, Buffers
<1>5. QED
  BY <1>1, <1>2, <1>3, <1>4 DEF ServiceInv

\* A step that writes flags of windows and nothing that orders them.
LEMMA FlagSet ==
  ASSUME NEW m, WmOK(m), NEW ws \in [Wins -> WinType],
         \A v \in Wins : ws[v].used = m.wins[v].used /\ ws[v].active = m.wins[v].active
  PROVE  WmOK([wins |-> ws, z |-> m.z, drag |-> m.drag, resize |-> m.resize])
<1> DEFINE n == [wins |-> ws, z |-> m.z, drag |-> m.drag, resize |-> m.resize]
<1>1. n \in WmType /\ n.wins = ws /\ n.z = m.z /\ n.drag = m.drag /\ n.resize = m.resize
  BY DEF WmType, WmOK
<1> HIDE DEF n
<1>2. WmOK(n)
  BY <1>1 DEF WmOK
<1>3. QED
  BY <1>2 DEF n

\* A step that brings the window w, for a call that takes it in hand if it is
\* to be the service's.
LEMMA MoreStep ==
  ASSUME IInv, WmOK(Wm'), NEW w \in Wins, NEW g \in BOOLEAN, ~wins[w].used,
         WmMore(Wm, Wm', w, g), UNCHANGED <<g_windows, loc>>,
         \A q \in Pids : Holding(q)' => Holding(q) \/ (g /\ loc[q].win = w),
         \A q, r \in Pids : Holding(q)' /\ Holding(r)' /\ ~Holding(q) /\ ~Holding(r) => q = r,
         \A q \in Pids : At(q, "scanned")' => At(q, "scanned") /\ loc[q].win # w,
         \A q \in Pids : At(q, "detached")' => At(q, "detached"),
         \A q \in Pids : Flagging(q) => Flagging(q)'
  PROVE  Windows' /\ FlagsAgree'
<1>1. /\ \A v \in Wins : InList(zlist', v) <=> InList(zlist, v) \/ v = w
      /\ wins'[w].gui <=> g
      /\ \A v \in Wins \ {w} : /\ wins'[v].gui <=> wins[v].gui
                               /\ wins'[v].auto <=> wins[v].auto
                               /\ wins'[v].resz <=> wins[v].resz
                               /\ wins'[v].used <=> wins[v].used
      /\ ~InList(zlist, w)
  BY DEF WmMore, Wm, WmOK, IInv
<1>2. \A s \in Slots : g_windows[s].used = 1 => g_windows[s].win \in Wins /\ g_windows[s].win # w
  BY <1>1 DEF IInv, ServiceInv, SlotsFilled, Shapes, SlotType, Windows, Theirs
<1>3. \A q \in Pids : Holding(q) => loc[q].win \in Wins /\ loc[q].win # w
  BY <1>1 DEF IInv, Windows, Theirs
<1>4. (\A v \in Wins \ {w} : Theirs(v) => Theirs(v)') /\ (g => Theirs(w)')
  BY <1>1 DEF Theirs
<1>5. Windows'
  <2>1. \A s \in Slots : g_windows'[s].used = 1 => Theirs(g_windows[s].win)'
    BY <1>2, <1>4 DEF IInv, Windows
  <2>2. \A q \in Pids : Holding(q)' => loc'[q].win \in Wins /\ Theirs(loc[q].win)'
    BY <1>3, <1>4 DEF IInv, Windows
  <2>3. \A q \in Pids : At(q, "scanned")' => loc'[q].win \in Wins /\ ~wins'[loc'[q].win].used
    BY <1>1 DEF IInv, Windows
  <2>4. \A q, r \in Pids : Holding(q)' /\ Holding(r)' /\ loc[q].win = loc[r].win => q = r
    BY <1>3 DEF IInv, Windows
  <2>5. \A s \in Slots, q \in Pids : g_windows[s].used = 1 /\ Holding(q)' => g_windows[s].win # loc[q].win
    BY <1>2 DEF IInv, Windows
  <2>6. \A q \in Pids : At(q, "detached")' => ~wins'[loc'[q].win].auto
    BY <1>1, <1>3 DEF IInv, Windows, Holding, At
  <2>7. QED
    BY <2>1, <2>2, <2>3, <2>4, <2>5, <2>6 DEF IInv, Windows, Theirs
<1>6. FlagsAgree'
  <2>1. SUFFICES ASSUME NEW s \in Slots, g_windows[s].used = 1,
                        \A q \in Pids : Flagging(q)' => loc'[q].slot # s
                 PROVE  /\ ~wins'[g_windows[s].win].auto
                        /\ wins'[g_windows[s].win].resz = g_windows[s].resizable
    BY DEF FlagsAgree, Flagging
  <2>2. \A q \in Pids : Flagging(q) => loc[q].slot # s
    BY <2>1
  <2>3. ~wins[g_windows[s].win].auto /\ wins[g_windows[s].win].resz = g_windows[s].resizable
    BY <2>1, <2>2 DEF IInv, FlagsAgree, Flagging
  <2>4. g_windows[s].win \in Wins \ {w}
    BY <2>1, <1>2
  <2>5. \A v \in Wins : wins[v].resz \in BOOLEAN /\ wins'[v].resz \in BOOLEAN
    BY DEF IInv, WmOK, WmType, Wm, WinType
  <2>6. QED
    BY <2>3, <2>4, <2>5, <1>1
<1>7. QED
  BY <1>5, <1>6

\* A step during which the desktop stands still.
LEMMA DeskStays ==
  ASSUME IInv, UNCHANGED desk,
         desk.win # 0 => InList(zlist', desk.win),
         desk.close /\ Fresh(desk.win)' => Fresh(desk.win)
  PROVE  DeskSound'
<1>1. desk.close => ~Fresh(desk.win)'
  BY DEF IInv, DeskSound
<1>2. desk'.win # 0 => InList(zlist', desk'.win)
  BY DEF IInv
<1>3. QED
  BY <1>1, <1>2 DEF IInv, DeskSound, DeskIdle

\* A step that changes neither the windows nor the calls.
LEMMA QuietStep ==
  ASSUME IInv, WmOK(Wm'), WmLess(Wm, Wm', {}),
         UNCHANGED <<g_windows, g_next_handle, heap, alive, pc, loc>>,
         prev_buttons' \subseteq {"L", "R"}, desk' \in DeskType, DeskSound'
  PROVE  IInv'
<1>1. Windows' /\ FlagsAgree'
  <2>1. \A q \in Pids : /\ Holding(q)' <=> Holding(q)
                        /\ At(q, "scanned")' <=> At(q, "scanned")
                        /\ At(q, "detached")' <=> At(q, "detached")
                        /\ Flagging(q)' <=> Flagging(q)
    BY DEF Holding, At, Flagging
  <2>2. QED
    BY <2>1, LessStep
<1>2. ServiceInv'
  BY ServiceStays DEF IInv
<1>3. Shapes'
  BY ShapesNext DEF IInv, Shapes
<1>4. WmOK(Wm)'
  BY WmOKNext
<1>5. QED
  BY <1>1, <1>2, <1>3, <1>4 DEF IInv

\* Where the desktop's events go.
LEMMA SendSound ==
  ASSUME Shapes, NEW w \in Wins, NEW evs \in Seq(Kinds), Send(w, evs), InList(zlist', w)
  PROVE  desk' \in DeskType /\ DeskSound'
BY NoWindowZero DEF Send, DeskType, DeskSound

-----------------------------------------------------------------------------
(* The desktop. *)

\* The window in hand, and its resize or drag, written alone.
LEMMA ResizeSet ==
  ASSUME NEW m, WmOK(m), NEW r \in Wins \cup {0}, r # 0 => InList(m.z, r)
  PROVE  WmOK([m EXCEPT !.resize = r]) /\ WmLess(m, [m EXCEPT !.resize = r], {})
<1>1. m \in WmType
  BY DEF WmOK
<1> DEFINE n == [m EXCEPT !.resize = r]
<1>2. n \in WmType /\ n.wins = m.wins /\ n.z = m.z /\ n.drag = m.drag /\ n.resize = r
  BY <1>1 DEF WmType
<1> HIDE DEF n
<1>3. WmOK(n) /\ WmLess(m, n, {})
  BY <1>2 DEF WmOK, WmLess
<1>4. QED
  BY <1>3 DEF n

Dragging(m, w, d, on) ==
  [wins |-> [m.wins EXCEPT ![w].drag = on], z |-> m.z, drag |-> d, resize |-> m.resize]
LEMMA DragSet ==
  ASSUME NEW m, WmOK(m), NEW w \in Wins, InList(m.z, w), NEW d \in {0, w}, NEW on \in BOOLEAN
  PROVE  WmOK(Dragging(m, w, d, on)) /\ WmLess(m, Dragging(m, w, d, on), {})
<1>1. m \in WmType
  BY DEF WmOK
<1> DEFINE ws == [m.wins EXCEPT ![w].drag = on]
           n == [wins |-> ws, z |-> m.z, drag |-> d, resize |-> m.resize]
<1>2. /\ ws \in [Wins -> WinType]
      /\ \A v \in Wins : /\ ws[v].used = m.wins[v].used /\ ws[v].gui = m.wins[v].gui
                         /\ ws[v].auto = m.wins[v].auto /\ ws[v].resz = m.wins[v].resz
                         /\ ws[v].active = m.wins[v].active
  BY <1>1 DEF WmType, WinType
<1> HIDE DEF ws
<1>3. n \in WmType /\ n.wins = ws /\ n.z = m.z /\ n.drag = d /\ n.resize = m.resize
  BY <1>1, <1>2 DEF WmType
<1> HIDE DEF n
<1>4. WmOK(n)
  BY <1>2, <1>3, NoWindowZero DEF WmOK
<1>5. WmLess(m, n, {})
  BY <1>2, <1>3 DEF WmLess
<1>6. QED
  BY <1>4, <1>5 DEF n, ws, Dragging

\* What the steps of the mouse leave alone.
LEMMA MouseLeaves ==
  ASSUME IInv, NEW b \in Presses, Mouse(b)
  PROVE  /\ UNCHANGED <<g_windows, g_next_handle, heap, alive, pc, loc>>
         /\ prev_buttons' \subseteq {"L", "R"} /\ desk = DeskIdle /\ prev_buttons' = b
BY GuiAssumption DEF Mouse, Idle

LEMMA IdleStays ==
  ASSUME IInv, desk = DeskIdle, NoDispatch
  PROVE  desk' \in DeskType /\ DeskSound'
<1>1. desk' = DeskIdle /\ desk' \in DeskType
  BY DEF NoDispatch, IInv, Shapes
<1>2. DeskIdle.win = 0 /\ DeskIdle.close = FALSE
  BY DEF DeskIdle
<1>3. QED
  BY <1>1, <1>2 DEF DeskSound

LEMMA LessNone ==
  ASSUME NEW m PROVE WmLess(m, m, {})
BY DEF WmLess

LEMMA KeyStep ==
  ASSUME IInv, NEW k \in {"key", "keyup"}, Key(k)
  PROVE  IInv'
<1>1. Top(zlist) \in Wins /\ InList(zlist, Top(zlist))
  BY Typed, TopInList DEF IInv, Key
<1>2. <<k>> \in Seq(Kinds)
  BY DEF Kinds
<1>3. UNCHANGED <<wins, zlist, drag_win, resize_win, prev_buttons>>
  BY DEF Key, wm
<1>4. desk' \in DeskType /\ DeskSound'
  BY <1>1, <1>2, <1>3, SendSound DEF Key, IInv
<1>5. Wm' = Wm
  BY <1>3, WmSame
<1>6. QED
  BY <1>3, <1>4, <1>5, LessNone, QuietStep DEF Key, IInv, Shapes

LEMMA MouseElseStep ==
  ASSUME IInv, NEW b \in Presses, NEW w \in Wins \cup {0}, MouseElse(b, w)
  PROVE  IInv'
<1>1. Mouse(b) /\ UNCHANGED <<wins, zlist, drag_win, resize_win>>
  BY DEF MouseElse
<1>2. CASE InList(zlist, w)
  <2>1. w \in Wins
    BY <1>2, Typed, NoWindowZero DEF InList, IInv
  <2>2. <<"mouseup">> \in Seq(Kinds) /\ <<"mousemove">> \in Seq(Kinds)
    BY DEF Kinds
  <2>3. PICK evs \in Seq(Kinds) : Send(w, evs)
    BY <1>2, <2>2 DEF MouseElse
  <2>4. desk' \in DeskType /\ DeskSound'
    BY <1>1, <1>2, <2>1, <2>3, SendSound DEF IInv
  <2>5. QED
    BY <1>1, <2>4, WmSame, LessNone, MouseLeaves, QuietStep DEF IInv
<1>3. CASE ~InList(zlist, w)
  <2>1. desk' \in DeskType /\ DeskSound'
    BY <1>1, <1>3, MouseLeaves, IdleStays DEF MouseElse
  <2>2. QED
    BY <1>1, <2>1, WmSame, LessNone, MouseLeaves, QuietStep DEF IInv
<1>4. QED
  BY <1>2, <1>3

LEMMA MouseResizesStep ==
  ASSUME IInv, NEW b \in Presses, MouseResizes(b)
  PROVE  IInv'
<1>1. Mouse(b) /\ UNCHANGED <<wins, zlist, drag_win>> /\ resize_win \in Wins /\ InList(zlist, resize_win)
  BY Typed DEF MouseResizes, IInv, WmOK, Wm
<1>2. CASE "L" \in b
  <2>1. <<"resize">> \in Seq(Kinds)
    BY DEF Kinds
  <2>2. Send(resize_win, <<"resize">>) /\ UNCHANGED resize_win
    BY <1>2 DEF MouseResizes
  <2>3. desk' \in DeskType /\ DeskSound'
    BY <1>1, <2>1, <2>2, SendSound DEF IInv
  <2>4. QED
    BY <1>1, <2>2, <2>3, WmSame, LessNone, MouseLeaves, QuietStep DEF IInv
<1>3. CASE "L" \notin b
  <2>1. resize_win' = 0 /\ NoDispatch
    BY <1>3 DEF MouseResizes
  <2>2. Wm' = [Wm EXCEPT !.resize = 0]
    BY <1>1, <2>1 DEF Wm
  <2>3. WmOK(Wm') /\ WmLess(Wm, Wm', {})
    BY <2>2, ResizeSet DEF IInv
  <2>4. QED
    BY <1>1, <2>1, <2>3, MouseLeaves, IdleStays, QuietStep
<1>4. QED
  BY <1>2, <1>3

LEMMA MouseDragsStep ==
  ASSUME IInv, NEW b \in Presses, MouseDrags(b)
  PROVE  IInv'
<1>1. /\ Mouse(b) /\ UNCHANGED <<zlist, resize_win>> /\ NoDispatch
      /\ drag_win \in Wins /\ InList(zlist, drag_win)
  BY Typed DEF MouseDrags, IInv, WmOK, Wm
<1>2. desk' \in DeskType /\ DeskSound'
  BY <1>1, MouseLeaves, IdleStays
<1>3. CASE "L" \in b
  <2>1. UNCHANGED <<wins, drag_win>>
    BY <1>3 DEF MouseDrags
  <2>2. QED
    BY <1>1, <1>2, <2>1, WmSame, LessNone, MouseLeaves, QuietStep DEF IInv
<1>4. CASE "L" \notin b
  <2>1. Wm' = Dragging(Wm, drag_win, 0, FALSE)
    BY <1>1, <1>4 DEF MouseDrags, Wm, Dragging
  <2>2. InList(Wm.z, drag_win)
    BY <1>1 DEF Wm
  <2>3. WmOK(Wm') /\ WmLess(Wm, Wm', {})
    BY <1>1, <2>1, <2>2, DragSet DEF IInv
  <2>4. QED
    BY <1>1, <1>2, <2>3, MouseLeaves, QuietStep
<1>5. QED
  BY <1>3, <1>4

\* A click that begins nothing but a dispatch, or a drag, or a resize.
LEMMA MousePressStep ==
  ASSUME IInv, NoRaces, NEW b \in Presses, NEW w \in Wins, NEW part \in Parts, MousePress(b, w, part)
  PROVE  IInv'
<1> DEFINE m == wm_bring_to_front(Wm, w)
           left == "L" \in DownEdge(b)
           evs == (IF left THEN <<"mousedown", "click">> ELSE <<>>)
                  \o (IF "R" \in DownEdge(b) THEN <<"rightclick">> ELSE <<>>)
           Begin(n) == SetWm(n) /\ NoDispatch
<1>1. Mouse(b) /\ InList(zlist, w) /\ ~Fresh(w)
  BY DEF MousePress, NoRaces
<1>2. InList(Wm.z, w)
  BY <1>1 DEF Wm
<1>3. WmOK(m) /\ WmLess(Wm, m, {}) /\ InList(m.z, w) /\ m \in WmType
  <2>1. WmOK(m) /\ WmLess(Wm, m, {})
    BY <1>2, FrontOK DEF IInv
  <2>2. QED
    BY <1>2, <2>1 DEF WmLess, WmOK
<1>4. \/ SetWm(m) /\ desk' = [win |-> w, evs |-> <<"close">>, close |-> TRUE]
      \/ Begin([m EXCEPT !.resize = w])
      \/ Begin([m EXCEPT !.drag = w, !.wins = [m.wins EXCEPT ![w].drag = TRUE]])
      \/ SetWm(m) /\ Send(w, evs)
  BY DEF MousePress
<1>5. evs \in Seq(Kinds)
  <2>1. <<"mousedown", "click">> \in Seq(Kinds) /\ <<"rightclick">> \in Seq(Kinds) /\ <<>> \in Seq(Kinds)
    BY DEF Kinds
  <2>2. QED
    BY <2>1, ConcatProperties
<1> HIDE DEF m, evs
<1>6. CASE SetWm(m) /\ desk' = [win |-> w, evs |-> <<"close">>, close |-> TRUE]
  <2>1. Wm' = m
    BY <1>3, <1>6, SetWmIs
  <2>2. <<"close">> \in Seq(Kinds)
    BY DEF Kinds
  <2>3. desk' \in DeskType /\ desk'.win = w
    BY <1>6, <2>2 DEF DeskType
  <2>4. InList(zlist', w)
    BY <1>3, <2>1 DEF Wm
  <2>5. ~Fresh(w)'
    BY <1>1, MouseLeaves DEF Fresh
  <2>6. ~Fresh(desk.win)'
    BY <2>3, <2>5 DEF Fresh
  <2>7. DeskSound'
    BY <2>3, <2>4, <2>6, NoWindowZero DEF DeskSound
  <2>8. QED
    BY <1>1, <1>3, <2>1, <2>3, <2>7, MouseLeaves, QuietStep
<1>7. CASE Begin([m EXCEPT !.resize = w])
  <2> DEFINE n == [m EXCEPT !.resize = w]
  <2>1. WmOK(n) /\ WmLess(m, n, {})
    BY <1>3, ResizeSet
  <2> HIDE DEF n
  <2>2. n \in WmType /\ SetWm(n) /\ NoDispatch
    BY <1>7, <2>1 DEF n, WmOK
  <2>3. WmLess(Wm, n, {})
    BY <1>3, <2>1 DEF WmLess
  <2>4. QED
    BY <1>1, <2>1, <2>2, <2>3, SetWmIs, MouseLeaves, IdleStays, QuietStep
<1>8. CASE Begin([m EXCEPT !.drag = w, !.wins = [m.wins EXCEPT ![w].drag = TRUE]])
  <2> DEFINE n == Dragging(m, w, w, TRUE)
  <2>1. WmOK(n) /\ WmLess(m, n, {})
    BY <1>3, DragSet
  <2>2. [m EXCEPT !.drag = w, !.wins = [m.wins EXCEPT ![w].drag = TRUE]] = n
    <3> DEFINE ws == [m.wins EXCEPT ![w].drag = TRUE]
    <3> HIDE DEF ws
    <3>1. [m EXCEPT !.drag = w, !.wins = ws] = [wins |-> ws, z |-> m.z, drag |-> w, resize |-> m.resize]
      <4>1. m = [wins |-> m.wins, z |-> m.z, drag |-> m.drag, resize |-> m.resize]
        BY <1>3 DEF WmType
      <4>2. PICK k : k = [m EXCEPT !.drag = w]
        OBVIOUS
      <4>3. k = [wins |-> m.wins, z |-> m.z, drag |-> w, resize |-> m.resize]
        BY <4>1, <4>2
      <4>4. [k EXCEPT !.wins = ws] = [wins |-> ws, z |-> m.z, drag |-> w, resize |-> m.resize]
        BY <4>3
      <4>5. QED
        BY <4>2, <4>4, Zenon
    <3>2. QED
      BY <3>1, Zenon DEF ws, Dragging
  <2> HIDE DEF n
  <2>3. n \in WmType /\ SetWm(n) /\ NoDispatch
    BY <1>8, <2>1, <2>2 DEF WmOK
  <2>4. WmLess(Wm, n, {})
    BY <1>3, <2>1 DEF WmLess
  <2>5. QED
    BY <1>1, <2>1, <2>3, <2>4, SetWmIs, MouseLeaves, IdleStays, QuietStep
<1>9. CASE SetWm(m) /\ Send(w, evs)
  <2>1. Wm' = m
    BY <1>3, <1>9, SetWmIs
  <2>2. InList(zlist', w)
    BY <1>3, <2>1 DEF Wm
  <2>3. desk' \in DeskType /\ DeskSound'
    BY <1>5, <1>9, <2>2, SendSound DEF IInv
  <2>4. QED
    BY <1>1, <1>3, <2>1, <2>3, MouseLeaves, QuietStep
<1>10. QED
  BY <1>4, <1>6, <1>7, <1>8, <1>9

\* What no call that lives has in hand and no slot names may go.
LEMMA DeskAutoCloseStep ==
  ASSUME IInv, DeskAutoClose
  PROVE  IInv' /\ ClickSpares
<1> DEFINE w == desk.win
<1>1. desk.close /\ desk' = DeskIdle
      /\ UNCHANGED <<g_windows, g_next_handle, prev_buttons, heap, alive, pc, loc>>
  BY DEF DeskAutoClose
<1>2. w \in Wins /\ InList(zlist, w) /\ ~Fresh(w)
  <2>1. desk # DeskIdle
    BY <1>1 DEF DeskIdle
  <2>2. QED
    BY <1>1, <2>1 DEF IInv, DeskSound, Shapes, DeskType
<1>3. desk' \in DeskType /\ DeskSound'
  <2>1. <<>> \in Seq(Kinds)
    OBVIOUS
  <2>2. QED
    BY <1>1, <2>1 DEF DeskIdle, DeskType, DeskSound
<1>4. prev_buttons' \subseteq {"L", "R"}
  BY <1>1 DEF IInv, Shapes
<1>5. CASE ~wins[w].auto
  <2>1. UNCHANGED <<wins, zlist, drag_win, resize_win>>
    BY <1>5 DEF DeskAutoClose
  <2>2. IInv'
    BY <1>1, <1>3, <1>4, <2>1, WmSame, LessNone, QuietStep DEF IInv
  <2>3. QED
    BY <2>1, <2>2 DEF ClickSpares
<1>6. CASE wins[w].auto
  <2> DEFINE n == wm_destroy_window(Wm, w)
  <2>1. WmOK(n) /\ WmLess(Wm, n, {w})
    BY <1>2, DestroyOK DEF IInv, Wm
  <2> HIDE DEF n
  <2>2. Wm' = n
    BY <1>6, <2>1, SetWmIs DEF DeskAutoClose, n, WmOK
  <2>3. ASSUME NEW s \in Slots, g_windows[s].used = 1 PROVE g_windows[s].win # w
    <3>1. SUFFICES ASSUME g_windows[s].win = w PROVE FALSE
      OBVIOUS
    <3>2. \A p \in Pids : Flagging(p) => loc[p].slot # s
      BY <1>2, <3>1 DEF Flagging, Fresh, IInv, ServiceInv, Reservations
    <3>3. QED
      BY <1>6, <2>3, <3>1, <3>2 DEF IInv, FlagsAgree, Flagging
  <2>4. ASSUME NEW p \in Pids, Holding(p) PROVE loc[p].win # w
    BY <1>2, <1>6, <2>4 DEF Holding, Fresh, At, IInv, Windows
  <2>5. \A q \in Pids : /\ Holding(q)' <=> Holding(q)
                        /\ At(q, "scanned")' <=> At(q, "scanned")
                        /\ At(q, "detached")' <=> At(q, "detached")
                        /\ Flagging(q)' <=> Flagging(q)
    BY <1>1 DEF Holding, At, Flagging
  <2>6. Windows' /\ FlagsAgree'
    BY <1>1, <2>1, <2>2, <2>3, <2>4, <2>5, LessStep
  <2>7. ServiceInv'
    BY <1>1, ServiceStays DEF IInv
  <2>8. Shapes'
    BY <1>1, <1>3, <1>4, <2>1, <2>2, ShapesNext DEF IInv, Shapes
  <2>9. IInv'
    BY <1>3, <2>1, <2>2, <2>6, <2>7, <2>8, WmOKNext DEF IInv
  <2>10. ASSUME NEW v \in Wins, NEW p \in Pids, wins[v].used, InUseBy(p, v) PROVE wins'[v].used
    <3>1. v # w
      <4>1. CASE pc[p] \in {"made", "flags"} /\ loc[p].win = v
        BY <1>2, <2>10, <4>1 DEF InUseBy, Fresh
      <4>2. CASE \E s \in Slots : HasWin(s, v) /\ g_windows[s].owner = p
        BY <2>3, <4>2, NoWindowZero DEF HasWin, InUse, IInv, ServiceInv, SlotsFilled
      <4>3. QED
        BY <2>10, <4>1, <4>2 DEF InUseBy
    <3>2. InList(Wm.z, v)
      BY <2>10 DEF IInv, WmOK, Wm
    <3>3. InList(n.z, v)
      BY <2>1, <3>1, <3>2 DEF WmLess
    <3>4. QED
      BY <2>1, <2>2, <3>3 DEF WmOK, Wm
  <2>11. QED
    BY <2>9, <2>10 DEF ClickSpares
<1>7. QED
  BY <1>5, <1>6

\* An application of the kernel takes a free window; no call has found it.
LEMMA LaunchAppStep ==
  ASSUME IInv, NoRaces, LaunchApp
  PROVE  IInv'
<1> DEFINE w == FirstOf(FreeWins)
           n == wm_create_window(Wm, w, FALSE)
<1>1. w \in Wins /\ ~wins[w].used
  <2>1. FreeWins # {} /\ FreeWins \subseteq Wins
    BY DEF LaunchApp, FreeWins
  <2>2. w \in FreeWins
    BY <2>1, FirstIn
  <2>3. QED
    BY <2>2 DEF FreeWins
<1>2. UNCHANGED <<g_windows, g_next_handle, prev_buttons, heap, alive, pc, loc, desk>>
      /\ desk = DeskIdle /\ (\A q \in Pids : ~At(q, "scanned")) /\ SetWm(n)
  BY DEF LaunchApp, NoRaces, Idle
<1> HIDE DEF w
<1>3. WmOK(n) /\ WmMore(Wm, n, w, FALSE)
  <2>1. ~Wm.wins[w].used
    BY <1>1 DEF Wm
  <2>2. QED
    BY <1>1, <2>1, CreateOK DEF IInv
<1> HIDE DEF n
<1>4. Wm' = n
  BY <1>2, <1>3, SetWmIs DEF WmOK
<1>5. \A q \in Pids : /\ Holding(q)' <=> Holding(q)
                      /\ At(q, "scanned")' <=> At(q, "scanned")
                      /\ At(q, "detached")' <=> At(q, "detached")
                      /\ Flagging(q)' <=> Flagging(q)
  BY <1>2 DEF Holding, At, Flagging
<1>6. Windows' /\ FlagsAgree'
  BY <1>1, <1>2, <1>3, <1>4, <1>5, MoreStep
<1>7. ServiceInv'
  BY <1>2, ServiceStays DEF IInv
<1>8. desk' \in DeskType /\ DeskSound'
  BY <1>2, IdleStays DEF NoDispatch
<1>9. Shapes'
  BY <1>2, <1>3, <1>4, <1>8, ShapesNext DEF IInv, Shapes
<1>10. QED
  BY <1>3, <1>4, <1>6, <1>7, <1>8, <1>9, WmOKNext DEF IInv

-----------------------------------------------------------------------------
(* The service's calls. *)

LEMMA CreatingFinite == IsFiniteSet(Creating) /\ Cardinality(Creating) \in Nat
BY GuiAssumption, FS_Subset, FS_CardinalityType DEF Creating

\* A step that gives out no handle and begins no creation.
LEMMA HandlesKept ==
  ASSUME IInv, Creating' \subseteq Creating, UNCHANGED g_next_handle,
         \A s \in Slots : g_windows'[s].handle = g_windows[s].handle
  PROVE  HandlesFresh'
<1>1. Cardinality(Creating') \in Nat /\ Cardinality(Creating') <= Cardinality(Creating)
  BY CreatingFinite, FS_Subset, FS_CardinalityType
<1>2. g_next_handle \in Nat /\ Cardinality(Creating) \in Nat /\ MaxHandle \in Nat
  BY CreatingFinite, GuiAssumption DEF IInv, Shapes
<1>3. g_next_handle' + Cardinality(Creating') <= MaxHandle + 1
  BY <1>1, <1>2 DEF IInv, ServiceInv, HandlesFresh
<1>4. QED
  BY <1>3 DEF IInv, ServiceInv, HandlesFresh

\* A creation that gives its handle to the slot s.
LEMMA HandleTaken ==
  ASSUME IInv, NEW p \in Creating, Creating' = Creating \ {p}, NEW s \in Slots,
         g_next_handle' = g_next_handle + 1, g_windows'[s].handle = g_next_handle,
         \A t \in Slots \ {s} : g_windows'[t].handle = g_windows[t].handle
  PROVE  HandlesFresh'
<1>1. Cardinality(Creating') = Cardinality(Creating) - 1
  BY CreatingFinite, FS_RemoveElement
<1>2. g_next_handle \in Nat /\ Cardinality(Creating) \in Nat /\ MaxHandle \in Nat
  BY CreatingFinite, GuiAssumption DEF IInv, Shapes
<1>3. g_next_handle' + Cardinality(Creating') <= MaxHandle + 1
  BY <1>1, <1>2 DEF IInv, ServiceInv, HandlesFresh
<1>4. \A t \in Slots : g_windows[t].handle \in Nat /\ g_windows[t].handle < g_next_handle
  BY DEF IInv, ServiceInv, HandlesFresh, Shapes, SlotType
<1>5. \A t \in Slots : g_windows'[t].handle < g_next_handle'
  BY <1>2, <1>4
<1>6. \A t, u \in Slots : g_windows'[t].handle = g_windows'[u].handle => t = u \/ g_windows'[t].handle = 0
  BY <1>2, <1>4 DEF IInv, ServiceInv, HandlesFresh
<1>7. QED
  BY <1>3, <1>5, <1>6 DEF HandlesFresh

\* What a slot is made of.
LEMMA SlotFields ==
  ASSUME IInv, NEW s \in Slots
  PROVE  /\ g_windows[s] \in SlotType /\ SlotOK(g_windows[s])
         /\ g_windows[s].used \in {0, 1, 2}
         /\ g_windows[s].used = 1 => g_windows[s].win \in Wins /\ g_windows[s].buf \in Bufs
<1>1. g_windows[s] \in SlotType
  BY DEF IInv, Shapes
<1>2. SlotOK(g_windows[s])
  BY <1>1 DEF IInv, SlotOK, ServiceInv, SlotsFilled, EventsAreOwn
<1>3. g_windows[s].used \in {0, 1, 2} /\ g_windows[s].win \in Wins \cup {0} /\ g_windows[s].buf \in Bufs \cup {0}
  BY <1>1 DEF SlotType
<1>4. QED
  BY <1>1, <1>2, <1>3 DEF IInv, ServiceInv, SlotsFilled

\* A slot with another state.
AsUsed(g, u) == [g EXCEPT !.used = u]
SameBut(g, n, u) == /\ n \in SlotType /\ n.used = u /\ n.handle = g.handle /\ n.owner = g.owner
                    /\ n.win = g.win /\ n.buf = g.buf /\ n.events = g.events
LEMMA SlotUsed ==
  ASSUME NEW g \in SlotType, NEW u \in 0..2
  PROVE  SameBut(g, AsUsed(g, u), u)
BY DEF SlotType, AsUsed, SameBut

\* The slot s is written and no other.
LEMMA SlotSet ==
  ASSUME IInv, NEW s \in Slots, NEW n \in SlotType, g_windows' = [g_windows EXCEPT ![s] = n]
  PROVE  /\ g_windows' \in [Slots -> SlotType] /\ g_windows'[s] = n
         /\ \A t \in Slots \ {s} : g_windows'[t] = g_windows[t]
BY DEF IInv, Shapes

\* A step that fills no slot and takes nothing in hand.
LEMMA WindowsKept ==
  ASSUME IInv, UNCHANGED <<wins, zlist>>,
         \A t \in Slots : g_windows'[t].used = 1 => g_windows[t].used = 1 /\ g_windows'[t].win = g_windows[t].win,
         \A q \in Pids : Holding(q)' => Holding(q) /\ loc'[q].win = loc[q].win,
         \A q \in Pids : At(q, "scanned")' => At(q, "scanned") /\ loc'[q].win = loc[q].win,
         \A q \in Pids : At(q, "detached")' => At(q, "detached") /\ loc'[q].win = loc[q].win
  PROVE  Windows'
<1>1. \A w : Theirs(w)' <=> Theirs(w)
  BY DEF Theirs
<1>2. QED
  BY <1>1 DEF IInv, Windows, Theirs

LEMMA FlagsKept ==
  ASSUME IInv, UNCHANGED wins,
         \A t \in Slots : g_windows'[t].used = 1 =>
           /\ g_windows[t].used = 1 /\ g_windows'[t].win = g_windows[t].win
           /\ g_windows'[t].resizable = g_windows[t].resizable,
         \A q \in Pids : Flagging(q) =>
           (Flagging(q)' /\ loc'[q].slot = loc[q].slot) \/ g_windows'[loc[q].slot].used # 1
  PROVE  FlagsAgree'
BY DEF IInv, FlagsAgree, Flagging

\* A step that moves no pixels.
LEMMA BuffersKept ==
  ASSUME IInv, UNCHANGED heap,
         \A t \in Slots : g_windows'[t].used = 1 <=> g_windows[t].used = 1,
         \A t \in Slots : g_windows[t].used = 1 => g_windows'[t].buf = g_windows[t].buf,
         \A q \in Pids : Freeing(q)' <=> Freeing(q),
         \A q \in Pids : Freeing(q) => loc'[q].buf = loc[q].buf
  PROVE  Buffers'
BY DEF IInv, ServiceInv, Buffers

\* A slot is reserved for a call that has none.
LEMMA CreateReserveStep ==
  ASSUME IInv, NoRaces, NEW p \in Pids, CreateReserve(p)
  PROVE  IInv'
<1> DEFINE free == {t \in Slots : ~InUse(t)}
           s == FirstOf(free)
           n == AsUsed(g_windows[s], 2)
<1>1. s \in Slots /\ g_windows[s].used = 0
  <2>1. free # {} /\ free \subseteq Slots
    BY DEF CreateReserve
  <2> HIDE DEF free
  <2>2. s \in free
    BY <2>1, FirstIn
  <2>3. QED
    BY <2>2 DEF free, InUse
<1>2. /\ alive[p] = "live" /\ pc[p] = "idle"
      /\ \A o \in Pids \ {p} : g_windows[s].owner = o => alive[o] = "gone"
      /\ g_windows' = [g_windows EXCEPT ![s].used = 2]
      /\ loc' = [loc EXCEPT ![p].slot = s]
      /\ pc' = [pc EXCEPT ![p] = "reserved"]
      /\ g_next_handle + Cardinality(Creating) <= MaxHandle
      /\ UNCHANGED <<g_next_handle, wins, zlist, drag_win, resize_win, prev_buttons, heap, alive, desk>>
  BY DEF CreateReserve, NoRaces, Ready, Goto, wm
<1> HIDE DEF s
<1>3. /\ n \in SlotType
      /\ n.used = 2 /\ n.handle = g_windows[s].handle /\ n.owner = g_windows[s].owner
      /\ n.win = g_windows[s].win /\ n.buf = g_windows[s].buf /\ n.events = g_windows[s].events
  <2>1. g_windows[s] \in SlotType
    BY <1>1, SlotFields
  <2>2. SameBut(g_windows[s], n, 2)
    BY <2>1, SlotUsed
  <2>3. QED
    BY <2>2 DEF SameBut
<1>4. g_windows' = [g_windows EXCEPT ![s] = n]
  BY <1>2 DEF AsUsed
<1> HIDE DEF n
<1>5. /\ g_windows' \in [Slots -> SlotType] /\ g_windows'[s] = n
      /\ \A t \in Slots \ {s} : g_windows'[t] = g_windows[t]
  BY <1>1, <1>3, <1>4, SlotSet
<1>6. /\ loc' \in [Pids -> LocType] /\ pc' \in [Pids -> Calling]
      /\ \A q \in Pids \ {p} : loc'[q] = loc[q] /\ pc'[q] = pc[q]
      /\ loc'[p].slot = s /\ loc'[p].win = loc[p].win /\ loc'[p].buf = loc[p].buf /\ pc'[p] = "reserved"
  BY <1>1, <1>2 DEF IInv, Shapes, LocType, Calling
<1>7. \A t \in Slots : g_windows'[t].used = 1 <=> g_windows[t].used = 1
  BY <1>1, <1>3, <1>5
<1>8. WmOK(Wm)' /\ Shapes'
  BY <1>2, <1>5, <1>6, WmSame, WmOKNext, ShapesNext DEF IInv, Shapes
<1>9. HandlesFresh'
  <2>1. Creating' = Creating \cup {p} /\ p \notin Creating
    BY <1>2, <1>6 DEF Creating
  <2>2. Cardinality(Creating') = Cardinality(Creating) + 1
    BY <2>1, CreatingFinite, FS_AddElement
  <2>3. g_next_handle \in Nat /\ Cardinality(Creating) \in Nat /\ MaxHandle \in Nat
    BY CreatingFinite, GuiAssumption DEF IInv, Shapes
  <2>4. g_next_handle' + Cardinality(Creating') <= MaxHandle + 1
    BY <1>2, <2>2, <2>3
  <2>5. \A t \in Slots : g_windows'[t].handle = g_windows[t].handle
    BY <1>3, <1>5
  <2>6. QED
    BY <1>2, <2>4, <2>5 DEF IInv, ServiceInv, HandlesFresh
<1>10. SlotsFilled'
  BY <1>1, <1>2, <1>3, <1>5 DEF IInv, ServiceInv, SlotsFilled
<1>11. Reservations'
  <2>1. \A q \in Pids : Reserving(q)' <=> Reserving(q) \/ q = p
    BY <1>2, <1>6 DEF Reserving
  <2>2. \A q \in Pids : Flagging(q)' <=> Flagging(q)
    BY <1>2, <1>6 DEF Flagging
  <2>3. ~Reserving(p) /\ ~Flagging(p)
    BY <1>2 DEF Reserving, Flagging
  <2>4. \A q \in Pids : Reserving(q) => loc[q].slot # s
    BY <1>1 DEF IInv, ServiceInv, Reservations
  <2>5. \A q \in Pids : Reserving(q)' => loc'[q].slot \in Slots /\ g_windows'[loc'[q].slot].used = 2
    BY <1>1, <1>3, <1>5, <1>6, <2>1, <2>4 DEF IInv, ServiceInv, Reservations
  <2>6. \A q, r \in Pids : Reserving(q)' /\ Reserving(r)' /\ loc'[q].slot = loc'[r].slot => q = r
    BY <1>6, <2>1, <2>4 DEF IInv, ServiceInv, Reservations
  <2>7. ASSUME NEW t \in Slots, NEW o \in Pids, g_windows'[t].used = 2, g_windows'[t].owner = o
        PROVE  alive'[o] = "gone" \/ (Reserving(o)' /\ loc'[o].slot = t)
    <3>1. CASE t = s
      BY <1>2, <1>3, <1>5, <1>6, <2>1, <2>7, <3>1
    <3>2. CASE t # s
      BY <1>2, <1>5, <1>6, <2>1, <2>3, <2>7, <3>2 DEF IInv, ServiceInv, Reservations
    <3>3. QED
      BY <3>1, <3>2
  <2>8. \A q \in Pids : Flagging(q)' =>
          /\ loc'[q].slot \in Slots
          /\ g_windows'[loc'[q].slot].used = 1 /\ g_windows'[loc'[q].slot].owner = q
          /\ g_windows'[loc'[q].slot].win = loc'[q].win
    BY <1>1, <1>3, <1>5, <1>6, <2>2, <2>3 DEF IInv, ServiceInv, Reservations
  <2>9. QED
    BY <2>5, <2>6, <2>7, <2>8 DEF Reservations
<1>12. Buffers'
  <2>1. \A q \in Pids : (Freeing(q)' <=> Freeing(q)) /\ loc'[q].buf = loc[q].buf
    BY <1>2, <1>6 DEF Freeing
  <2>2. QED
    BY <1>1, <1>2, <1>5, <1>7, <2>1, BuffersKept
<1>13. EventsAreOwn'
  BY <1>3, <1>5 DEF IInv, ServiceInv, EventsAreOwn
<1>14. Windows'
  <2>1. \A q \in Pids : /\ Holding(q)' <=> Holding(q)
                        /\ At(q, "scanned")' <=> At(q, "scanned")
                        /\ At(q, "detached")' <=> At(q, "detached")
                        /\ loc'[q].win = loc[q].win
    BY <1>2, <1>6 DEF Holding, At
  <2>2. QED
    BY <1>1, <1>2, <1>5, <1>7, <2>1, WindowsKept
<1>15. FlagsAgree'
  <2>1. \A q \in Pids : Flagging(q) => Flagging(q)' /\ loc'[q].slot = loc[q].slot
    BY <1>2, <1>6 DEF Flagging
  <2>2. QED
    BY <1>1, <1>2, <1>5, <1>7, <2>1, FlagsKept
<1>16. DeskSound'
  <2>1. Fresh(desk.win)' => Fresh(desk.win)
    BY <1>2, <1>6 DEF Fresh
  <2>2. QED
    BY <1>2, <2>1, DeskStays DEF IInv, DeskSound
<1>17. QED
  BY <1>8, <1>9, <1>10, <1>11, <1>12, <1>13, <1>14, <1>15, <1>16 DEF IInv, ServiceInv

\* What a step of one call does to the calls.
LEMMA CallMoves ==
  ASSUME IInv, NEW p \in Pids, NEW l \in Calling, NEW r \in LocType, Goto(p, l),
         loc' = [loc EXCEPT ![p] = r]
  PROVE  /\ loc' \in [Pids -> LocType] /\ pc' \in [Pids -> Calling]
         /\ \A q \in Pids \ {p} : loc'[q] = loc[q] /\ pc'[q] = pc[q]
         /\ loc'[p] = r /\ pc'[p] = l
BY DEF IInv, Shapes, Goto

LEMMA CallStays ==
  ASSUME IInv, NEW p \in Pids, NEW l \in Calling, Goto(p, l), UNCHANGED loc
  PROVE  /\ loc' \in [Pids -> LocType] /\ pc' \in [Pids -> Calling]
         /\ \A q \in Pids : loc'[q] = loc[q]
         /\ \A q \in Pids \ {p} : pc'[q] = pc[q]
         /\ pc'[p] = l
BY DEF IInv, Shapes, Goto

LEMMA NoLocalsType == NoLocals \in LocType
BY DEF NoLocals, LocType

\* The pool entry found is free, and no other call has found one.
LEMMA CreateScanStep ==
  ASSUME IInv, NoRaces, NEW p \in Pids, CreateScan(p)
  PROVE  IInv'
<1> DEFINE w == FirstOf(FreeWins)
           r == [loc[p] EXCEPT !.win = w]
<1>1. w \in Wins /\ ~wins[w].used
  <2>1. FreeWins # {} /\ FreeWins \subseteq Wins
    BY DEF CreateScan, FreeWins
  <2>2. w \in FreeWins
    BY <2>1, FirstIn
  <2>3. QED
    BY <2>2 DEF FreeWins
<1>2. /\ alive[p] = "live" /\ pc[p] = "reserved" /\ Goto(p, "scanned")
      /\ \A q \in Pids : ~At(q, "scanned")
      /\ loc' = [loc EXCEPT ![p].win = w]
      /\ UNCHANGED <<g_windows, g_next_handle, wins, zlist, drag_win, resize_win, prev_buttons, heap,
                     alive, desk>>
  BY DEF CreateScan, At, NoRaces, wm
<1> HIDE DEF w
<1>3. r \in LocType /\ r.slot = loc[p].slot /\ r.win = w /\ r.buf = loc[p].buf
  BY <1>1 DEF IInv, Shapes, LocType
<1>4. loc' = [loc EXCEPT ![p] = r] /\ "scanned" \in Calling
  BY <1>2 DEF Calling
<1> HIDE DEF r
<1>5. /\ loc' \in [Pids -> LocType] /\ pc' \in [Pids -> Calling]
      /\ \A q \in Pids \ {p} : loc'[q] = loc[q] /\ pc'[q] = pc[q]
      /\ loc'[p] = r /\ pc'[p] = "scanned"
  BY <1>2, <1>3, <1>4 DEF IInv, Shapes, Goto
<1>6. WmOK(Wm)' /\ Shapes'
  BY <1>2, <1>5, WmSame, WmOKNext, ShapesNext DEF IInv, Shapes
<1>7. ServiceInv'
  <2>1. Creating' = Creating
    BY <1>2, <1>5 DEF Creating
  <2>2. \A q \in Pids : /\ Reserving(q)' <=> Reserving(q)
                        /\ Freeing(q)' <=> Freeing(q)
                        /\ Flagging(q)' <=> Flagging(q)
    BY <1>2, <1>5 DEF Reserving, Freeing, Flagging
  <2>3. \A q \in Pids : loc'[q].slot = loc[q].slot /\ loc'[q].buf = loc[q].buf /\ (Flagging(q) => loc'[q] = loc[q])
    BY <1>2, <1>3, <1>5 DEF Flagging
  <2>4. QED
    BY <1>2, <2>1, <2>2, <2>3, ServiceMoves
<1>8. Windows'
  <2>1. \A q \in Pids : /\ Holding(q)' <=> Holding(q)
                        /\ Holding(q) => q # p
                        /\ At(q, "scanned")' <=> q = p
                        /\ At(q, "detached")' <=> At(q, "detached")
    BY <1>2, <1>5 DEF Holding, At
  <2>2. \A v : Theirs(v)' <=> Theirs(v)
    BY <1>2 DEF Theirs
  <2>3. QED
    BY <1>1, <1>2, <1>3, <1>5, <2>1, <2>2 DEF IInv, Windows, Theirs, Holding, At
<1>9. FlagsAgree'
  <2>1. \A q \in Pids : Flagging(q) => Flagging(q)' /\ loc'[q].slot = loc[q].slot
    BY <1>2, <1>5 DEF Flagging
  <2>2. QED
    BY <1>2, <2>1, FlagsKept
<1>10. DeskSound'
  <2>1. Fresh(desk.win)' => Fresh(desk.win)
    BY <1>2, <1>5 DEF Fresh
  <2>2. QED
    BY <1>2, <2>1, DeskStays DEF IInv, DeskSound
<1>11. QED
  BY <1>6, <1>7, <1>8, <1>9, <1>10 DEF IInv

\* A call gives its slot back.
LEMMA CreateNoWindowStep ==
  ASSUME IInv, NEW p \in Pids, CreateNoWindow(p)
  PROVE  IInv'
<1> DEFINE s == loc[p].slot
           n == AsUsed(g_windows[s], 0)
<1>1. /\ alive[p] = "live" /\ pc[p] = "reserved" /\ Goto(p, "idle")
      /\ loc' = [loc EXCEPT ![p] = NoLocals]
      /\ g_windows' = [g_windows EXCEPT ![s].used = 0]
      /\ UNCHANGED <<g_next_handle, wins, zlist, drag_win, resize_win, prev_buttons, heap, alive, desk>>
  BY DEF CreateNoWindow, At, Return, wm
<1>2. Reserving(p) /\ s \in Slots /\ g_windows[s].used = 2
  BY <1>1 DEF Reserving, IInv, ServiceInv, Reservations
<1> HIDE DEF s
<1>3. /\ n \in SlotType
      /\ n.used = 0 /\ n.handle = g_windows[s].handle /\ n.owner = g_windows[s].owner
      /\ n.win = g_windows[s].win /\ n.buf = g_windows[s].buf /\ n.events = g_windows[s].events
  <2>1. g_windows[s] \in SlotType
    BY <1>2, SlotFields
  <2>2. SameBut(g_windows[s], n, 0)
    BY <2>1, SlotUsed
  <2>3. QED
    BY <2>2 DEF SameBut
<1>4. g_windows' = [g_windows EXCEPT ![s] = n] /\ "idle" \in Calling
  BY <1>1 DEF Calling, AsUsed
<1> HIDE DEF n
<1>5. /\ g_windows' \in [Slots -> SlotType] /\ g_windows'[s] = n
      /\ \A t \in Slots \ {s} : g_windows'[t] = g_windows[t]
  BY <1>2, <1>3, <1>4, SlotSet
<1>6. /\ loc' \in [Pids -> LocType] /\ pc' \in [Pids -> Calling]
      /\ \A q \in Pids \ {p} : loc'[q] = loc[q] /\ pc'[q] = pc[q]
      /\ loc'[p] = NoLocals /\ pc'[p] = "idle"
  BY <1>1, <1>4, NoLocalsType, CallMoves
<1>7. \A t \in Slots : g_windows'[t].used = 1 <=> g_windows[t].used = 1
  BY <1>2, <1>3, <1>5
<1>8. WmOK(Wm)' /\ Shapes'
  BY <1>1, <1>5, <1>6, WmSame, WmOKNext, ShapesNext DEF IInv, Shapes
<1>9. HandlesFresh'
  <2>1. Creating' \subseteq Creating
    BY <1>1, <1>6 DEF Creating
  <2>2. QED
    BY <1>1, <1>3, <1>5, <2>1, HandlesKept
<1>10. SlotsFilled'
  BY <1>1, <1>2, <1>3, <1>5 DEF IInv, ServiceInv, SlotsFilled
<1>11. Reservations'
  <2>1. \A q \in Pids : Reserving(q)' <=> Reserving(q) /\ q # p
    BY <1>1, <1>6 DEF Reserving
  <2>2. \A q \in Pids : Flagging(q)' <=> Flagging(q) /\ q # p
    BY <1>1, <1>6 DEF Flagging
  <2>3. \A q \in Pids : Reserving(q)' => loc'[q].slot \in Slots /\ g_windows'[loc'[q].slot].used = 2
    BY <1>2, <1>5, <1>6, <2>1 DEF IInv, ServiceInv, Reservations, s
  <2>4. \A q, o \in Pids : Reserving(q)' /\ Reserving(o)' /\ loc'[q].slot = loc'[o].slot => q = o
    BY <1>6, <2>1 DEF IInv, ServiceInv, Reservations
  <2>5. ASSUME NEW t \in Slots, NEW o \in Pids, g_windows'[t].used = 2, g_windows'[t].owner = o
        PROVE  alive'[o] = "gone" \/ (Reserving(o)' /\ loc'[o].slot = t)
    <3>1. t # s /\ g_windows[t].used = 2 /\ g_windows[t].owner = o
      BY <1>3, <1>5, <2>5
    <3>2. QED
      BY <1>1, <1>6, <2>1, <3>1 DEF IInv, ServiceInv, Reservations, s
  <2>6. \A q \in Pids : Flagging(q)' =>
          /\ loc'[q].slot \in Slots
          /\ g_windows'[loc'[q].slot].used = 1 /\ g_windows'[loc'[q].slot].owner = q
          /\ g_windows'[loc'[q].slot].win = loc'[q].win
    BY <1>2, <1>5, <1>6, <2>2 DEF IInv, ServiceInv, Reservations
  <2>7. QED
    BY <2>3, <2>4, <2>5, <2>6 DEF Reservations
<1>12. Buffers'
  <2>1. \A q \in Pids : (Freeing(q)' <=> Freeing(q)) /\ (Freeing(q) => loc'[q].buf = loc[q].buf)
    BY <1>1, <1>6 DEF Freeing
  <2>2. QED
    BY <1>1, <1>2, <1>5, <1>7, <2>1, BuffersKept
<1>13. EventsAreOwn'
  BY <1>3, <1>5 DEF IInv, ServiceInv, EventsAreOwn
<1>14. Windows'
  <2>1. \A q \in Pids : /\ Holding(q)' => Holding(q) /\ loc'[q].win = loc[q].win
                        /\ At(q, "scanned")' => At(q, "scanned") /\ loc'[q].win = loc[q].win
                        /\ At(q, "detached")' => At(q, "detached") /\ loc'[q].win = loc[q].win
    BY <1>1, <1>6 DEF Holding, At
  <2>2. QED
    BY <1>1, <1>2, <1>5, <1>7, <2>1, WindowsKept
<1>15. FlagsAgree'
  <2>1. \A q \in Pids : Flagging(q) => Flagging(q)' /\ loc'[q].slot = loc[q].slot
    BY <1>1, <1>6 DEF Flagging
  <2>2. QED
    BY <1>1, <1>2, <1>5, <1>7, <2>1, FlagsKept
<1>16. DeskSound'
  <2>1. Fresh(desk.win)' => Fresh(desk.win)
    BY <1>1, <1>6 DEF Fresh
  <2>2. QED
    BY <1>1, <2>1, DeskStays DEF IInv, DeskSound
<1>17. QED
  BY <1>8, <1>9, <1>10, <1>11, <1>12, <1>13, <1>14, <1>15, <1>16 DEF IInv, ServiceInv

\* The window found is taken: nobody has taken it since.
LEMMA CreateWindowStep ==
  ASSUME IInv, NEW p \in Pids, CreateWindow(p)
  PROVE  IInv'
<1> DEFINE w == loc[p].win
           n == wm_create_window(Wm, w, TRUE)
<1>1. /\ alive[p] = "live" /\ pc[p] = "scanned" /\ Goto(p, "made") /\ SetWm(n)
      /\ UNCHANGED <<g_windows, g_next_handle, prev_buttons, heap, alive, loc, desk>>
  BY DEF CreateWindow, At
<1>2. w \in Wins /\ ~wins[w].used /\ \A q \in Pids : At(q, "scanned") => q = p
  BY <1>1 DEF IInv, Windows, At
<1>3. /\ loc' \in [Pids -> LocType] /\ pc' \in [Pids -> Calling]
      /\ \A q \in Pids \ {p} : pc'[q] = pc[q]
      /\ pc'[p] = "made"
  BY <1>1, CallStays DEF Calling
<1> HIDE DEF w
<1>4. WmOK(n) /\ WmMore(Wm, n, w, TRUE)
  <2>1. ~Wm.wins[w].used
    BY <1>2 DEF Wm
  <2>2. QED
    BY <1>2, <2>1, CreateOK DEF IInv
<1> HIDE DEF n
<1>5. Wm' = n
  BY <1>1, <1>4, SetWmIs DEF WmOK
<1>6. Windows' /\ FlagsAgree'
  <2>1. \A q \in Pids : /\ Holding(q)' => Holding(q) \/ q = p
                        /\ At(q, "scanned")' => FALSE
                        /\ At(q, "detached")' => At(q, "detached")
                        /\ Flagging(q) => Flagging(q)'
    BY <1>1, <1>2, <1>3 DEF Holding, At, Flagging
  <2>2. \A q \in Pids : Holding(q)' => Holding(q) \/ (TRUE /\ loc[q].win = w)
    BY <2>1 DEF w
  <2>3. QED
    BY <1>1, <1>2, <1>4, <1>5, <2>1, <2>2, MoreStep
<1>7. ServiceInv'
  <2>1. Creating' = Creating
    BY <1>1, <1>3 DEF Creating
  <2>2. \A q \in Pids : /\ Reserving(q)' <=> Reserving(q)
                        /\ Freeing(q)' <=> Freeing(q)
                        /\ Flagging(q)' <=> Flagging(q)
    BY <1>1, <1>3 DEF Reserving, Freeing, Flagging
  <2>3. QED
    BY <1>1, <2>1, <2>2, ServiceMoves
<1>8. WmOK(Wm)' /\ Shapes'
  BY <1>1, <1>3, <1>4, <1>5, WmOKNext, ShapesNext DEF IInv, Shapes
<1>9. DeskSound'
  <2>1. desk.win # 0 => desk.win \in Wins /\ desk.win # w /\ InList(zlist, desk.win)
    BY <1>2 DEF IInv, DeskSound, Shapes, DeskType, WmOK, Wm
  <2>2. desk.win # 0 => InList(zlist', desk.win)
    BY <1>4, <1>5, <2>1 DEF WmMore, Wm
  <2>3. desk.close => desk.win # 0
    BY DEF IInv, DeskSound, DeskIdle
  <2>4. desk.close /\ Fresh(desk.win)' => Fresh(desk.win)
    BY <1>1, <1>3, <2>1, <2>3 DEF Fresh, w
  <2>5. QED
    BY <1>1, <2>2, <2>4, DeskStays
<1>10. QED
  BY <1>6, <1>7, <1>8, <1>9 DEF IInv

\* The slot is filled: the window goes from the call to the slot, with new pixels.
LEMMA CreatePublishStep ==
  ASSUME IInv, NEW p \in Pids, CreatePublish(p)
  PROVE  IInv'
<1> DEFINE s == loc[p].slot
           w == loc[p].win
<1>1. PICK b \in Bufs \ heap :
        /\ heap' = heap \cup {b}
        /\ g_windows' = [g_windows EXCEPT ![s] =
             evt_enqueue([EmptySlot EXCEPT !.used = 1, !.handle = g_next_handle, !.owner = p,
                                           !.win = w, !.buf = b], "paint")]
  BY DEF CreatePublish
<1>2. /\ alive[p] = "live" /\ pc[p] = "made" /\ Goto(p, "flags") /\ g_next_handle' = g_next_handle + 1
      /\ UNCHANGED <<wins, zlist, drag_win, resize_win, prev_buttons, alive, loc, desk>>
  BY DEF CreatePublish, At, wm
<1>3. Reserving(p) /\ s \in Slots /\ g_windows[s].used = 2
  BY <1>2 DEF Reserving, IInv, ServiceInv, Reservations
<1>4. Holding(p) /\ w \in Wins /\ Theirs(w)
  BY <1>2 DEF Holding, IInv, Windows
<1>5. /\ loc' \in [Pids -> LocType] /\ pc' \in [Pids -> Calling]
      /\ \A q \in Pids \ {p} : pc'[q] = pc[q]
      /\ pc'[p] = "flags"
  BY <1>2, CallStays DEF Calling
<1>6. PICK n \in SlotType :
        /\ g_windows' = [g_windows EXCEPT ![s] = n] /\ SlotOK(n)
        /\ n.used = 1 /\ n.handle = g_next_handle /\ n.owner = p /\ n.win = w /\ n.buf = b
  <2> DEFINE e == [EmptySlot EXCEPT !.used = 1, !.handle = g_next_handle, !.owner = p, !.win = w, !.buf = b]
             n == evt_enqueue(e, "paint")
  <2>1. e = [used |-> 1, handle |-> g_next_handle, owner |-> p, win |-> w, buf |-> b,
             resizable |-> TRUE, close |-> FALSE, events |-> <<>>]
    <3>1. PICK f : f = [EmptySlot EXCEPT !.used = 1]
      OBVIOUS
    <3>2. f = [used |-> 1, handle |-> 0, owner |-> NoOne, win |-> 0, buf |-> 0, resizable |-> TRUE,
                 close |-> FALSE, events |-> <<>>]
      BY <3>1 DEF EmptySlot
    <3>3. PICK g : g = [f EXCEPT !.handle = g_next_handle]
      OBVIOUS
    <3>4. g = [used |-> 1, handle |-> g_next_handle, owner |-> NoOne, win |-> 0, buf |-> 0, resizable |-> TRUE,
                 close |-> FALSE, events |-> <<>>]
      BY <3>2, <3>3
    <3>5. PICK h : h = [g EXCEPT !.owner = p]
      OBVIOUS
    <3>6. h = [used |-> 1, handle |-> g_next_handle, owner |-> p, win |-> 0, buf |-> 0, resizable |-> TRUE,
                 close |-> FALSE, events |-> <<>>]
      BY <3>4, <3>5
    <3>7. PICK i : i = [h EXCEPT !.win = w]
      OBVIOUS
    <3>8. i = [used |-> 1, handle |-> g_next_handle, owner |-> p, win |-> w, buf |-> 0, resizable |-> TRUE,
                 close |-> FALSE, events |-> <<>>]
      BY <3>6, <3>7
    <3>9. PICK j : j = [i EXCEPT !.buf = b]
      OBVIOUS
    <3>10. j = [used |-> 1, handle |-> g_next_handle, owner |-> p, win |-> w, buf |-> b, resizable |-> TRUE,
                 close |-> FALSE, events |-> <<>>]
      BY <3>8, <3>9
    <3>11. QED
      BY <3>1, <3>3, <3>5, <3>7, <3>9, <3>10, Zenon
  <2>2. /\ e \in SlotType /\ e.used = 1 /\ e.handle = g_next_handle /\ e.owner = p /\ e.win = w
        /\ e.buf = b /\ e.events = <<>>
    <3>1. g_next_handle \in Nat /\ 1 \in 0..2 /\ <<>> \in Seq([id : Kinds, window : Nat])
      BY DEF IInv, Shapes
    <3>2. p \in Pids \cup {NoOne} /\ w \in Wins \cup {0} /\ b \in Bufs \cup {0}
      BY <1>4
    <3> HIDE DEF e, w
    <3>3. QED
      BY <2>1, <3>1, <3>2 DEF SlotType
  <2> HIDE DEF e
  <2>3. SlotOK(e)
    BY <2>2, GuiAssumption DEF SlotOK
  <2>4. EventsOnly(e, n)
    BY <2>3, EvtEnqueueOK DEF Kinds
  <2>5. n \in SlotType /\ g_windows' = [g_windows EXCEPT ![s] = n]
    BY <1>1, <2>4 DEF EventsOnly, SlotOK, e
  <2> HIDE DEF n
  <2>6. QED
    BY <2>2, <2>4, <2>5 DEF EventsOnly
<1> HIDE DEF s, w
<1>7. /\ g_windows' \in [Slots -> SlotType] /\ g_windows'[s] = n
      /\ \A t \in Slots \ {s} : g_windows'[t] = g_windows[t]
  BY <1>3, <1>6, SlotSet
<1>8. WmOK(Wm)' /\ Shapes'
  BY <1>1, <1>2, <1>5, <1>7, WmSame, WmOKNext, ShapesNext DEF IInv, Shapes
<1>9. HandlesFresh'
  <2>1. p \in Creating /\ Creating' = Creating \ {p}
    BY <1>2, <1>5 DEF Creating
  <2>2. QED
    BY <1>2, <1>3, <1>6, <1>7, <2>1, HandleTaken
<1>10. SlotsFilled'
  <2>1. g_next_handle # 0 /\ b # 0 /\ w # 0
    BY <1>4, NoWindowZero, GuiAssumption DEF IInv, Shapes
  <2>2. QED
    BY <1>2, <1>6, <1>7, <2>1 DEF IInv, ServiceInv, SlotsFilled, SlotOK
<1>11. Reservations'
  <2>1. \A q \in Pids : Reserving(q)' <=> Reserving(q) /\ q # p
    BY <1>2, <1>5 DEF Reserving
  <2>2. \A q \in Pids : Flagging(q)' <=> Flagging(q) \/ q = p
    BY <1>2, <1>5 DEF Flagging
  <2>3. \A q \in Pids : Reserving(q)' => loc'[q].slot \in Slots /\ g_windows'[loc'[q].slot].used = 2
    BY <1>2, <1>3, <1>7, <2>1 DEF IInv, ServiceInv, Reservations, s
  <2>4. \A q, o \in Pids : Reserving(q)' /\ Reserving(o)' /\ loc'[q].slot = loc'[o].slot => q = o
    BY <1>2, <2>1 DEF IInv, ServiceInv, Reservations
  <2>5. ASSUME NEW t \in Slots, NEW o \in Pids, g_windows'[t].used = 2, g_windows'[t].owner = o
        PROVE  alive'[o] = "gone" \/ (Reserving(o)' /\ loc'[o].slot = t)
    <3>1. t # s /\ g_windows[t].used = 2 /\ g_windows[t].owner = o
      BY <1>6, <1>7, <2>5
    <3>2. QED
      BY <1>2, <2>1, <3>1 DEF IInv, ServiceInv, Reservations, s
  <2>6. \A q \in Pids : Flagging(q)' =>
          /\ loc'[q].slot \in Slots
          /\ g_windows'[loc'[q].slot].used = 1 /\ g_windows'[loc'[q].slot].owner = q
          /\ g_windows'[loc'[q].slot].win = loc'[q].win
    BY <1>2, <1>3, <1>6, <1>7, <2>2 DEF IInv, ServiceInv, Reservations, s, w
  <2>7. QED
    BY <2>3, <2>4, <2>5, <2>6 DEF Reservations
<1>12. Buffers'
  <2>1. \A q \in Pids : Freeing(q)' <=> Freeing(q)
    BY <1>2, <1>5 DEF Freeing
  <2>2. \A t \in Slots : g_windows'[t].used = 1 <=> g_windows[t].used = 1 \/ t = s
    BY <1>3, <1>6, <1>7
  <2>3. \A t \in Slots : g_windows'[t].used = 1 => g_windows'[t].buf \in heap'
    BY <1>1, <1>6, <1>7 DEF IInv, ServiceInv, Buffers
  <2>4. \A q \in Pids : Freeing(q)' => loc'[q].buf \in heap'
    BY <1>1, <1>2, <2>1 DEF IInv, ServiceInv, Buffers
  <2>5. ASSUME NEW c \in heap'
        PROVE  \/ \E t \in Slots : g_windows'[t].used = 1 /\ g_windows'[t].buf = c
               \/ \E q \in Pids : Freeing(q)' /\ loc'[q].buf = c
    <3>1. CASE c = b
      BY <1>3, <1>6, <1>7, <3>1
    <3>2. CASE c # b
      BY <1>1, <1>2, <1>3, <1>7, <2>1, <3>2 DEF IInv, ServiceInv, Buffers
    <3>3. QED
      BY <3>1, <3>2
  <2>6. \A t, u \in Slots : g_windows'[t].used = 1 /\ g_windows'[u].used = 1 /\ g_windows'[t].buf = g_windows'[u].buf
          => t = u
    BY <1>1, <1>6, <1>7 DEF IInv, ServiceInv, Buffers
  <2>7. \A q, o \in Pids : Freeing(q)' /\ Freeing(o)' /\ loc'[q].buf = loc'[o].buf => q = o
    BY <1>2, <2>1 DEF IInv, ServiceInv, Buffers
  <2>8. \A t \in Slots, q \in Pids : g_windows'[t].used = 1 /\ Freeing(q)' => g_windows'[t].buf # loc'[q].buf
    BY <1>1, <1>2, <1>6, <1>7, <2>1 DEF IInv, ServiceInv, Buffers
  <2>9. QED
    BY <2>3, <2>4, <2>5, <2>6, <2>7, <2>8 DEF Buffers
<1>13. EventsAreOwn'
  BY <1>6, <1>7 DEF IInv, ServiceInv, EventsAreOwn, SlotOK
<1>14. Windows'
  <2>1. \A q \in Pids : /\ Holding(q)' <=> Holding(q) /\ q # p
                        /\ At(q, "scanned")' <=> At(q, "scanned")
                        /\ At(q, "detached")' <=> At(q, "detached")
    BY <1>2, <1>5 DEF Holding, At
  <2>2. \A v : Theirs(v)' <=> Theirs(v)
    BY <1>2 DEF Theirs
  <2>3. \A t \in Slots : g_windows'[t].used = 1 => InList(zlist', g_windows'[t].win) /\ wins'[g_windows'[t].win].gui
    BY <1>2, <1>4, <1>6, <1>7 DEF IInv, Windows, Theirs
  <2>4. \A t, u \in Slots : g_windows'[t].used = 1 /\ g_windows'[u].used = 1 /\ g_windows'[t].win = g_windows'[u].win
          => t = u
    BY <1>4, <1>6, <1>7 DEF IInv, Windows, w
  <2>5. \A t \in Slots, q \in Pids : g_windows'[t].used = 1 /\ Holding(q)' => g_windows'[t].win # loc'[q].win
    BY <1>2, <1>4, <1>6, <1>7, <2>1 DEF IInv, Windows, w
  <2>6. QED
    BY <1>2, <2>1, <2>2, <2>3, <2>4, <2>5 DEF IInv, Windows, Theirs
<1>15. FlagsAgree'
  <2>1. \A q \in Pids : Flagging(q) => Flagging(q)'
    BY <1>2, <1>5 DEF Flagging
  <2>2. Flagging(p)' /\ loc'[p].slot = s
    BY <1>2, <1>5 DEF Flagging, s
  <2>3. SUFFICES ASSUME NEW t \in Slots, g_windows'[t].used = 1,
                        \A q \in Pids : Flagging(q)' => loc'[q].slot # t
                 PROVE  /\ ~wins'[g_windows'[t].win].auto
                        /\ wins'[g_windows'[t].win].resz = g_windows'[t].resizable
    BY DEF FlagsAgree, Flagging
  <2>4. t # s /\ g_windows'[t] = g_windows[t] /\ \A q \in Pids : Flagging(q) => loc[q].slot # t
    BY <1>2, <1>7, <2>1, <2>2, <2>3
  <2>5. QED
    BY <1>2, <2>3, <2>4 DEF IInv, FlagsAgree, Flagging
<1>16. DeskSound'
  <2>1. Fresh(desk.win)' => Fresh(desk.win)
    BY <1>2, <1>5 DEF Fresh
  <2>2. QED
    BY <1>2, <2>1, DeskStays DEF IInv, DeskSound
<1>17. QED
  BY <1>8, <1>9, <1>10, <1>11, <1>12, <1>13, <1>14, <1>15, <1>16 DEF IInv, ServiceInv

\* The slot is released; the call keeps the window until it has destroyed it.
LEMMA CreateNoMemoryStep ==
  ASSUME IInv, NEW p \in Pids, CreateNoMemory(p)
  PROVE  IInv'
<1> DEFINE s == loc[p].slot
           n == [used |-> 0, handle |-> g_next_handle, owner |-> p, win |-> 0, buf |-> 0,
                 resizable |-> TRUE, close |-> FALSE, events |-> <<>>]
<1>1. /\ alive[p] = "live" /\ pc[p] = "made" /\ Goto(p, "undo") /\ g_next_handle' = g_next_handle + 1
      /\ g_windows' = [g_windows EXCEPT ![s] = [EmptySlot EXCEPT !.handle = g_next_handle, !.owner = p]]
      /\ UNCHANGED <<wins, zlist, drag_win, resize_win, prev_buttons, heap, alive, loc, desk>>
  BY DEF CreateNoMemory, At, wm
<1>2. Reserving(p) /\ s \in Slots /\ g_windows[s].used = 2
  BY <1>1 DEF Reserving, IInv, ServiceInv, Reservations
<1>3. /\ n \in SlotType /\ n.used = 0 /\ n.handle = g_next_handle /\ n.owner = p
      /\ n.win = 0 /\ n.buf = 0 /\ n.events = <<>>
  BY DEF SlotType, IInv, Shapes
<1>4. g_windows' = [g_windows EXCEPT ![s] = n]
  <2>1. [EmptySlot EXCEPT !.handle = g_next_handle, !.owner = p] = n
    <3>1. PICK f : f = [EmptySlot EXCEPT !.handle = g_next_handle]
      OBVIOUS
    <3>2. f = [used |-> 0, handle |-> g_next_handle, owner |-> NoOne, win |-> 0, buf |-> 0, resizable |-> TRUE,
                 close |-> FALSE, events |-> <<>>]
      BY <3>1 DEF EmptySlot
    <3>3. PICK g : g = [f EXCEPT !.owner = p]
      OBVIOUS
    <3>4. g = n
      BY <3>2, <3>3
    <3>5. QED
      BY <3>1, <3>3, <3>4, Zenon
  <2> HIDE DEF n
  <2>2. QED
    BY <1>1, <2>1
<1> HIDE DEF s, n
<1>5. /\ g_windows' \in [Slots -> SlotType] /\ g_windows'[s] = n
      /\ \A t \in Slots \ {s} : g_windows'[t] = g_windows[t]
  BY <1>2, <1>3, <1>4, SlotSet
<1>6. /\ loc' \in [Pids -> LocType] /\ pc' \in [Pids -> Calling]
      /\ \A q \in Pids \ {p} : pc'[q] = pc[q]
      /\ pc'[p] = "undo"
  BY <1>1, CallStays DEF Calling
<1>7. \A t \in Slots : g_windows'[t].used = 1 <=> g_windows[t].used = 1
  BY <1>2, <1>3, <1>5
<1>8. WmOK(Wm)' /\ Shapes'
  BY <1>1, <1>5, <1>6, WmSame, WmOKNext, ShapesNext DEF IInv, Shapes
<1>9. HandlesFresh'
  <2>1. p \in Creating /\ Creating' = Creating \ {p}
    BY <1>1, <1>6 DEF Creating
  <2>2. QED
    BY <1>1, <1>2, <1>3, <1>5, <2>1, HandleTaken
<1>10. SlotsFilled'
  <2>1. Len(n.events) <= EVENT_Q
    BY <1>3, GuiAssumption
  <2>2. QED
    <3>1. SUFFICES ASSUME NEW t \in Slots
                   PROVE  /\ Len(g_windows'[t].events) <= EVENT_Q
                          /\ g_windows'[t].used = 1 =>
                               /\ g_windows'[t].owner \in Pids /\ alive'[g_windows'[t].owner] # "gone"
                               /\ g_windows'[t].win # 0 /\ g_windows'[t].buf # 0 /\ g_windows'[t].handle # 0
                          /\ g_windows'[t].used # 1 =>
                               g_windows'[t].win = 0 /\ g_windows'[t].buf = 0 /\ g_windows'[t].events = <<>>
      BY DEF SlotsFilled
    <3>2. CASE t = s
      BY <1>3, <1>5, <2>1, <3>2
    <3>3. CASE t # s
      BY <1>1, <1>5, <3>3 DEF IInv, ServiceInv, SlotsFilled
    <3>4. QED
      BY <3>2, <3>3
<1>11. Reservations'
  <2>1. \A q \in Pids : Reserving(q)' <=> Reserving(q) /\ q # p
    BY <1>1, <1>6 DEF Reserving
  <2>2. \A q \in Pids : Flagging(q)' <=> Flagging(q) /\ q # p
    BY <1>1, <1>6 DEF Flagging
  <2>3. \A q \in Pids : Reserving(q)' => loc'[q].slot \in Slots /\ g_windows'[loc'[q].slot].used = 2
    BY <1>1, <1>2, <1>5, <2>1 DEF IInv, ServiceInv, Reservations, s
  <2>4. \A q, o \in Pids : Reserving(q)' /\ Reserving(o)' /\ loc'[q].slot = loc'[o].slot => q = o
    BY <1>1, <2>1 DEF IInv, ServiceInv, Reservations
  <2>5. ASSUME NEW t \in Slots, NEW o \in Pids, g_windows'[t].used = 2, g_windows'[t].owner = o
        PROVE  alive'[o] = "gone" \/ (Reserving(o)' /\ loc'[o].slot = t)
    <3>1. t # s /\ g_windows[t].used = 2 /\ g_windows[t].owner = o
      BY <1>3, <1>5, <2>5
    <3>2. QED
      BY <1>1, <2>1, <3>1 DEF IInv, ServiceInv, Reservations, s
  <2>6. \A q \in Pids : Flagging(q)' =>
          /\ loc'[q].slot \in Slots
          /\ g_windows'[loc'[q].slot].used = 1 /\ g_windows'[loc'[q].slot].owner = q
          /\ g_windows'[loc'[q].slot].win = loc'[q].win
    BY <1>1, <1>2, <1>5, <2>2 DEF IInv, ServiceInv, Reservations
  <2>7. QED
    BY <2>3, <2>4, <2>5, <2>6 DEF Reservations
<1>12. Buffers'
  <2>1. \A q \in Pids : (Freeing(q)' <=> Freeing(q)) /\ loc'[q].buf = loc[q].buf
    BY <1>1, <1>6 DEF Freeing
  <2>2. QED
    BY <1>1, <1>2, <1>5, <1>7, <2>1, BuffersKept
<1>13. EventsAreOwn'
  BY <1>3, <1>5 DEF IInv, ServiceInv, EventsAreOwn
<1>14. Windows'
  <2>1. \A q \in Pids : /\ Holding(q)' => Holding(q) /\ loc'[q].win = loc[q].win
                        /\ At(q, "scanned")' => At(q, "scanned") /\ loc'[q].win = loc[q].win
                        /\ At(q, "detached")' => At(q, "detached") /\ loc'[q].win = loc[q].win
    BY <1>1, <1>6 DEF Holding, At
  <2>2. QED
    BY <1>1, <1>2, <1>5, <1>7, <2>1, WindowsKept
<1>15. FlagsAgree'
  <2>1. \A q \in Pids : Flagging(q) => Flagging(q)' /\ loc'[q].slot = loc[q].slot
    BY <1>1, <1>6 DEF Flagging
  <2>2. QED
    BY <1>1, <1>2, <1>5, <1>7, <2>1, FlagsKept
<1>16. DeskSound'
  <2>1. Fresh(desk.win)' => Fresh(desk.win)
    BY <1>1, <1>6 DEF Fresh
  <2>2. QED
    BY <1>1, <2>1, DeskStays DEF IInv, DeskSound
<1>17. QED
  BY <1>8, <1>9, <1>10, <1>11, <1>12, <1>13, <1>14, <1>15, <1>16 DEF IInv, ServiceInv

\* A call destroys the window it has in hand: no slot names it, and no event of
\* the desktop is on its way to it.
LEMMA HandedStep ==
  ASSUME IInv, NoRaces, NEW p \in Pids, Holding(p), MayDie(loc[p].win),
         SetWm(wm_destroy_window(Wm, loc[p].win)),
         UNCHANGED <<g_windows, g_next_handle, prev_buttons, heap, alive, desk>>,
         pc' \in [Pids -> Calling], loc' \in [Pids -> LocType],
         \A q \in Pids \ {p} : loc'[q] = loc[q] /\ pc'[q] = pc[q],
         (pc[p] = "undo" /\ pc'[p] = "idle")
           \/ (pc[p] = "detached" /\ pc'[p] = "unmade" /\ loc'[p] = loc[p])
  PROVE  IInv'
<1> DEFINE w == loc[p].win
           n == wm_destroy_window(Wm, w)
<1>1. w \in Wins /\ InList(zlist, w)
  BY DEF IInv, Windows, Theirs
<1>2. WmOK(n) /\ WmLess(Wm, n, {w})
  BY <1>1, DestroyOK DEF IInv, Wm
<1> HIDE DEF n, w
<1>3. Wm' = n
  BY <1>2, SetWmIs DEF WmOK, n, w
<1>4. Windows' /\ FlagsAgree'
  <2>1. \A q \in Pids : /\ Holding(q)' => Holding(q) /\ q # p
                        /\ At(q, "scanned")' => At(q, "scanned") /\ q # p
                        /\ At(q, "detached")' => At(q, "detached")
                        /\ Flagging(q) => Flagging(q)' /\ q # p
    BY DEF Holding, At, Flagging
  <2>2. \A q \in Pids : Holding(q)' => Holding(q) /\ loc'[q].win = loc[q].win /\ loc[q].win \notin {w}
    BY <2>1 DEF IInv, Windows, w
  <2>3. \A t \in Slots : g_windows'[t].used = 1 =>
           /\ g_windows[t].used = 1 /\ g_windows'[t].win = g_windows[t].win /\ g_windows[t].win \notin {w}
           /\ g_windows'[t].resizable = g_windows[t].resizable
    BY DEF IInv, Windows, w
  <2>4. QED
    BY <1>2, <1>3, <2>1, <2>2, <2>3, LessStep
<1>5. ServiceInv'
  <2>1. Creating' = Creating
    BY DEF Creating
  <2>2. \A q \in Pids : /\ Reserving(q)' <=> Reserving(q)
                        /\ Freeing(q)' <=> Freeing(q)
                        /\ Flagging(q)' <=> Flagging(q)
    BY DEF Reserving, Freeing, Flagging
  <2>3. \A q \in Pids : Reserving(q) \/ Flagging(q) \/ Freeing(q) => loc'[q] = loc[q]
    BY DEF Reserving, Freeing, Flagging
  <2>4. QED
    BY <2>1, <2>2, <2>3, ServiceMoves
<1>6. WmOK(Wm)' /\ Shapes'
  BY <1>2, <1>3, WmOKNext, ShapesNext DEF IInv, Shapes
<1>7. DeskSound'
  <2>1. desk.win # 0 => desk.win \in Wins /\ desk.win # w /\ InList(Wm.z, desk.win)
    BY <1>1, NoWindowZero DEF MayDie, NoRaces, IInv, DeskSound, Shapes, DeskType, w, Wm
  <2>2. desk.win # 0 => InList(zlist', desk.win)
    BY <1>2, <1>3, <2>1 DEF WmLess, Wm
  <2>3. Fresh(desk.win)' => Fresh(desk.win)
    BY DEF Fresh
  <2>4. QED
    BY <2>2, <2>3, DeskStays
<1>8. QED
  BY <1>4, <1>5, <1>6, <1>7 DEF IInv

LEMMA CreateUndoStep ==
  ASSUME IInv, NoRaces, NEW p \in Pids, CreateUndo(p)
  PROVE  IInv'
<1>1. /\ alive[p] = "live" /\ pc[p] = "undo" /\ MayDie(loc[p].win) /\ Goto(p, "idle")
      /\ loc' = [loc EXCEPT ![p] = NoLocals]
      /\ SetWm(wm_destroy_window(Wm, loc[p].win))
      /\ UNCHANGED <<g_windows, g_next_handle, prev_buttons, heap, alive, desk>>
  BY DEF CreateUndo, At, Return
<1>2. Holding(p)
  BY <1>1 DEF Holding
<1>3. /\ loc' \in [Pids -> LocType] /\ pc' \in [Pids -> Calling]
      /\ \A q \in Pids \ {p} : loc'[q] = loc[q] /\ pc'[q] = pc[q]
      /\ pc'[p] = "idle"
  BY <1>1, NoLocalsType, CallMoves DEF Calling
<1>4. QED
  BY <1>1, <1>2, <1>3, HandedStep

LEMMA DestroyWindowStep ==
  ASSUME IInv, NoRaces, NEW p \in Pids, DestroyWindow(p)
  PROVE  IInv'
<1>1. /\ alive[p] = "live" /\ pc[p] = "detached" /\ MayDie(loc[p].win) /\ Goto(p, "unmade")
      /\ UNCHANGED <<g_windows, g_next_handle, prev_buttons, heap, alive, loc, desk>>
  BY DEF DestroyWindow, At
<1>2. Holding(p)
  BY <1>1 DEF Holding
<1>3. loc[p].win # 0
  BY <1>2, NoWindowZero DEF IInv, Windows
<1>4. SetWm(wm_destroy_window(Wm, loc[p].win))
  BY <1>3 DEF DestroyWindow
<1>5. /\ loc' \in [Pids -> LocType] /\ pc' \in [Pids -> Calling]
      /\ \A q \in Pids : loc'[q] = loc[q]
      /\ \A q \in Pids \ {p} : pc'[q] = pc[q]
      /\ pc'[p] = "unmade"
  BY <1>1, CallStays DEF Calling
<1>6. QED
  BY <1>1, <1>2, <1>4, <1>5, HandedStep

\* The flags of a window are written, and those of no other.
LEMMA CreateFlagsStep ==
  ASSUME IInv, NEW p \in Pids, CreateFlags(p)
  PROVE  IInv'
<1> DEFINE s == loc[p].slot
           w == loc[p].win
           r == g_windows[s].resizable
<1>1. /\ alive[p] = "live" /\ pc[p] = "flags" /\ Goto(p, "idle")
      /\ loc' = [loc EXCEPT ![p] = NoLocals]
      /\ wins' = [wins EXCEPT ![w].auto = FALSE, ![w].resz = r]
      /\ UNCHANGED <<g_windows, g_next_handle, zlist, drag_win, resize_win, prev_buttons, heap,
                     alive, desk>>
  BY DEF CreateFlags, At, Return
<1>2. Flagging(p) /\ s \in Slots /\ g_windows[s].used = 1 /\ g_windows[s].win = w
  BY <1>1 DEF Flagging, IInv, ServiceInv, Reservations
<1>3. w \in Wins /\ r \in BOOLEAN
  <2>1. g_windows[s] \in SlotType /\ g_windows[s].win \in Wins
    BY <1>2, SlotFields
  <2>2. QED
    BY <1>2, <2>1 DEF SlotType
<1> HIDE DEF s, w, r
<1>4. /\ wins' \in [Wins -> WinType]
      /\ \A v \in Wins \ {w} : wins'[v] = wins[v]
      /\ wins'[w].used = wins[w].used /\ wins'[w].active = wins[w].active /\ wins'[w].gui = wins[w].gui
      /\ wins'[w].auto = FALSE /\ wins'[w].resz = r
  <2>1. wins \in [Wins -> WinType]
    BY Typed DEF IInv
  <2>2. QED
    BY <1>1, <1>3, <2>1 DEF WinType
<1>5. /\ loc' \in [Pids -> LocType] /\ pc' \in [Pids -> Calling]
      /\ \A q \in Pids \ {p} : loc'[q] = loc[q] /\ pc'[q] = pc[q]
      /\ pc'[p] = "idle"
  BY <1>1, NoLocalsType, CallMoves DEF Calling
<1>6. WmOK(Wm')
  <2>1. Wm' = [wins |-> wins', z |-> Wm.z, drag |-> Wm.drag, resize |-> Wm.resize]
    BY <1>1 DEF Wm
  <2>2. \A v \in Wins : wins'[v].used = Wm.wins[v].used /\ wins'[v].active = Wm.wins[v].active
    BY <1>3, <1>4 DEF Wm
  <2>3. QED
    BY <1>4, <2>1, <2>2, FlagSet DEF IInv
<1>7. WmOK(Wm)' /\ Shapes'
  BY <1>1, <1>5, <1>6, WmOKNext, ShapesNext DEF IInv, Shapes
<1>8. ServiceInv'
  <2>1. Creating' = Creating
    BY <1>1, <1>5 DEF Creating
  <2>2. \A q \in Pids : /\ Reserving(q)' <=> Reserving(q)
                        /\ Freeing(q)' <=> Freeing(q)
                        /\ Flagging(q)' => Flagging(q) /\ q # p
    BY <1>1, <1>5 DEF Reserving, Freeing, Flagging
  <2>3. \A q \in Pids : Reserving(q) \/ Freeing(q) => q # p
    BY <1>1 DEF Reserving, Freeing
  <2>4. QED
    BY <1>1, <1>5, <2>1, <2>2, <2>3, ServiceMoves
<1>9. Windows'
  <2>1. \A q \in Pids : /\ Holding(q)' => Holding(q) /\ q # p
                        /\ At(q, "scanned")' => At(q, "scanned") /\ q # p
                        /\ At(q, "detached")' => At(q, "detached") /\ q # p
    BY <1>1, <1>5 DEF Holding, At
  <2>2. \A v \in Wins : /\ Theirs(v)' <=> Theirs(v)
                        /\ wins'[v].used <=> wins[v].used
                        /\ ~wins[v].auto => ~wins'[v].auto
    BY <1>1, <1>3, <1>4 DEF Theirs
  <2>3. \A t \in Slots : g_windows[t].used = 1 => g_windows[t].win \in Wins
    BY SlotFields
  <2>4. \A q \in Pids : At(q, "detached") => Holding(q)
    BY DEF At, Holding
  <2>5. \A t \in Slots : g_windows[t].used = 1 => Theirs(g_windows[t].win)'
    BY <1>1, <2>2, <2>3 DEF IInv, Windows, Theirs
  <2>6. \A q \in Pids : Holding(q)' => /\ loc'[q].win \in Wins /\ InList(zlist', loc'[q].win)
                                        /\ wins'[loc'[q].win].gui
    BY <1>1, <1>5, <2>1, <2>2 DEF IInv, Windows, Theirs
  <2>7. \A q \in Pids : /\ At(q, "scanned")' => loc'[q].win \in Wins /\ ~wins'[loc'[q].win].used
                        /\ At(q, "detached")' => ~wins'[loc'[q].win].auto
    BY <1>5, <2>1, <2>2, <2>4 DEF IInv, Windows
  <2>8. /\ \A q, o \in Pids : Holding(q)' /\ Holding(o)' /\ loc'[q].win = loc'[o].win => q = o
        /\ \A t \in Slots, q \in Pids : g_windows'[t].used = 1 /\ Holding(q)' => g_windows'[t].win # loc'[q].win
        /\ \A q, o \in Pids : At(q, "scanned")' /\ At(o, "scanned")' => q = o
    BY <1>1, <1>5, <2>1 DEF IInv, Windows
  <2>9. QED
    BY <1>1, <2>5, <2>6, <2>7, <2>8 DEF IInv, Windows, Theirs
<1>10. FlagsAgree'
  <2>1. \A q \in Pids : Flagging(q) => q = p \/ (Flagging(q)' /\ loc'[q].slot = loc[q].slot)
    BY <1>1, <1>5 DEF Flagging
  <2>2. SUFFICES ASSUME NEW t \in Slots, g_windows[t].used = 1,
                        \A q \in Pids : Flagging(q)' => loc'[q].slot # t
                 PROVE  ~wins'[g_windows[t].win].auto /\ wins'[g_windows[t].win].resz = g_windows[t].resizable
    BY <1>1 DEF FlagsAgree, Flagging
  <2>3. CASE t = s
    BY <1>2, <1>4, <2>3 DEF r
  <2>4. CASE t # s
    <3>1. \A q \in Pids : Flagging(q) => loc[q].slot # t
      BY <2>1, <2>2, <2>4 DEF s
    <3>2. g_windows[t].win # w /\ g_windows[t].win \in Wins
      BY <1>2, <2>2, <2>4, SlotFields DEF IInv, Windows
    <3>3. QED
      BY <1>4, <2>2, <3>1, <3>2 DEF IInv, FlagsAgree, Flagging
  <2>5. QED
    BY <2>3, <2>4
<1>11. DeskSound'
  <2>1. Fresh(desk.win)' => Fresh(desk.win)
    BY <1>1, <1>5 DEF Fresh
  <2>2. QED
    BY <1>1, <2>1, DeskStays DEF IInv, DeskSound
<1>12. QED
  BY <1>7, <1>8, <1>9, <1>10, <1>11 DEF IInv

\* A caller's slot is handed out, not reserved.
LEMMA OwnedIsOut ==
  ASSUME IInv, NEW p \in Pids, Ready(p), NEW h, Owned(p, h) # 0
  PROVE  /\ Owned(p, h) \in Slots /\ g_windows[Owned(p, h)].used = 1
         /\ g_windows[Owned(p, h)].owner = p
         /\ \A q \in Pids : Flagging(q) => loc[q].slot # Owned(p, h)
<1> DEFINE s == Owned(p, h)
<1>1. s \in Slots /\ g_windows[s].used # 0 /\ g_windows[s].owner = p
  BY OwnedSlot DEF InUse
<1>2. ~Reserving(p) /\ ~Flagging(p) /\ alive[p] = "live"
  BY DEF Ready, Reserving, Flagging
<1> HIDE DEF s
<1>3. g_windows[s].used = 1
  BY <1>1, <1>2, SlotFields DEF IInv, ServiceInv, Reservations
<1>4. \A q \in Pids : Flagging(q) => loc[q].slot # s
  BY <1>1, <1>2 DEF IInv, ServiceInv, Reservations
<1>5. QED
  BY <1>1, <1>3, <1>4 DEF s

\* A slot without its window and pixels, which still has its handle and owner.
LEMMA ClearedSlot ==
  ASSUME NEW g \in SlotType
  PROVE  /\ Cleared(g) \in SlotType /\ Cleared(g).used = 0 /\ Cleared(g).handle = g.handle
         /\ Cleared(g).owner = g.owner /\ Cleared(g).win = 0 /\ Cleared(g).buf = 0
         /\ Cleared(g).events = <<>>
<1> DEFINE n == [used |-> 0, handle |-> g.handle, owner |-> g.owner, win |-> 0, buf |-> 0,
                 resizable |-> TRUE, close |-> FALSE, events |-> <<>>]
<1>1. PICK f : f = [EmptySlot EXCEPT !.handle = g.handle]
  OBVIOUS
<1>2. f = [used |-> 0, handle |-> g.handle, owner |-> NoOne, win |-> 0, buf |-> 0,
           resizable |-> TRUE, close |-> FALSE, events |-> <<>>]
  BY <1>1 DEF EmptySlot
<1>3. PICK k : k = [f EXCEPT !.owner = g.owner]
  OBVIOUS
<1>4. k = n
  BY <1>2, <1>3
<1>5. Cleared(g) = n
  BY <1>1, <1>3, <1>4, Zenon DEF Cleared
<1>6. g.handle \in Nat /\ g.owner \in Pids \cup {NoOne} /\ 0 \in 0..2 /\ <<>> \in Seq([id : Kinds, window : Nat])
  BY DEF SlotType
<1>7. n \in SlotType
  BY <1>6 DEF SlotType
<1>8. QED
  BY <1>5, <1>7

\* The window and the pixels go from the slot to the call.
LEMMA DestroyDetachStep ==
  ASSUME IInv, NEW p \in Pids, NEW h, DestroyDetach(p, h)
  PROVE  IInv'
<1> DEFINE s == Owned(p, h)
           w == g_windows[s].win
           b == g_windows[s].buf
           r == [slot |-> 0, win |-> w, buf |-> b]
           n == Cleared(g_windows[s])
<1>1. /\ Ready(p) /\ s # 0 /\ Goto(p, "detached")
      /\ loc' = [loc EXCEPT ![p] = r]
      /\ g_windows' = [g_windows EXCEPT ![s] = n]
      /\ UNCHANGED <<g_next_handle, wins, zlist, drag_win, resize_win, prev_buttons, heap, alive, desk>>
  BY DEF DestroyDetach, wm
<1>2. /\ s \in Slots /\ g_windows[s].used = 1 /\ g_windows[s].owner = p
      /\ \A q \in Pids : Flagging(q) => loc[q].slot # s
  BY <1>1, OwnedIsOut
<1> HIDE DEF s
<1>3. g_windows[s] \in SlotType /\ w \in Wins /\ b \in Bufs
  BY <1>2, SlotFields
<1>4. /\ n \in SlotType /\ n.used = 0 /\ n.handle = g_windows[s].handle /\ n.owner = p
      /\ n.win = 0 /\ n.buf = 0 /\ n.events = <<>>
  BY <1>2, <1>3, ClearedSlot
<1> HIDE DEF n, w, b
<1>5. r \in LocType /\ r.win = w /\ r.buf = b
  BY <1>3 DEF LocType
<1> HIDE DEF r
<1>6. /\ g_windows' \in [Slots -> SlotType] /\ g_windows'[s] = n
      /\ \A t \in Slots \ {s} : g_windows'[t] = g_windows[t]
  BY <1>1, <1>2, <1>4, SlotSet
<1>7. /\ loc' \in [Pids -> LocType] /\ pc' \in [Pids -> Calling]
      /\ \A q \in Pids \ {p} : loc'[q] = loc[q] /\ pc'[q] = pc[q]
      /\ loc'[p] = r /\ pc'[p] = "detached"
  BY <1>1, <1>5 DEF IInv, Shapes, Goto, Calling
<1>8. \A t \in Slots : g_windows'[t].used = 1 <=> g_windows[t].used = 1 /\ t # s
  BY <1>2, <1>4, <1>6
<1>9. WmOK(Wm)' /\ Shapes'
  BY <1>1, <1>6, <1>7, WmSame, WmOKNext, ShapesNext DEF IInv, Shapes
<1>10. alive[p] = "live" /\ pc[p] = "idle"
  BY <1>1 DEF Ready
<1>11. HandlesFresh'
  <2>1. Creating' \subseteq Creating
    BY <1>1, <1>7 DEF Creating
  <2>2. QED
    BY <1>1, <1>4, <1>6, <2>1, HandlesKept
<1>12. SlotsFilled'
  <2>1. Len(n.events) <= EVENT_Q
    BY <1>4, GuiAssumption
  <2>2. SUFFICES ASSUME NEW t \in Slots
                 PROVE  /\ Len(g_windows'[t].events) <= EVENT_Q
                        /\ g_windows'[t].used = 1 =>
                             /\ g_windows'[t].owner \in Pids /\ alive'[g_windows'[t].owner] # "gone"
                             /\ g_windows'[t].win # 0 /\ g_windows'[t].buf # 0 /\ g_windows'[t].handle # 0
                        /\ g_windows'[t].used # 1 =>
                             g_windows'[t].win = 0 /\ g_windows'[t].buf = 0 /\ g_windows'[t].events = <<>>
    BY DEF SlotsFilled
  <2>3. CASE t = s
    BY <1>4, <1>6, <2>1, <2>3
  <2>4. CASE t # s
    BY <1>1, <1>6, <2>4 DEF IInv, ServiceInv, SlotsFilled
  <2>5. QED
    BY <2>3, <2>4
<1>13. Reservations'
  <2>1. \A q \in Pids : (Reserving(q)' <=> Reserving(q)) /\ (Reserving(q) => q # p)
    BY <1>1, <1>7, <1>10 DEF Reserving
  <2>2. \A q \in Pids : (Flagging(q)' <=> Flagging(q)) /\ (Flagging(q) => q # p)
    BY <1>1, <1>7, <1>10 DEF Flagging
  <2>3. \A q \in Pids : Reserving(q)' => loc'[q].slot \in Slots /\ g_windows'[loc'[q].slot].used = 2
    BY <1>2, <1>6, <1>7, <2>1 DEF IInv, ServiceInv, Reservations
  <2>4. \A q, o \in Pids : Reserving(q)' /\ Reserving(o)' /\ loc'[q].slot = loc'[o].slot => q = o
    BY <1>7, <2>1 DEF IInv, ServiceInv, Reservations
  <2>5. ASSUME NEW t \in Slots, NEW o \in Pids, g_windows'[t].used = 2, g_windows'[t].owner = o
        PROVE  alive'[o] = "gone" \/ (Reserving(o)' /\ loc'[o].slot = t)
    <3>1. t # s /\ g_windows[t].used = 2 /\ g_windows[t].owner = o
      BY <1>4, <1>6, <2>5
    <3>2. QED
      BY <1>1, <1>7, <2>1, <3>1 DEF IInv, ServiceInv, Reservations
  <2>6. \A q \in Pids : Flagging(q)' =>
          /\ loc'[q].slot \in Slots
          /\ g_windows'[loc'[q].slot].used = 1 /\ g_windows'[loc'[q].slot].owner = q
          /\ g_windows'[loc'[q].slot].win = loc'[q].win
    BY <1>2, <1>6, <1>7, <2>2 DEF IInv, ServiceInv, Reservations
  <2>7. QED
    BY <2>3, <2>4, <2>5, <2>6 DEF Reservations
<1>14. Buffers'
  <2>1. \A q \in Pids : (Freeing(q)' <=> Freeing(q) \/ q = p) /\ (Freeing(q) => q # p)
    BY <1>7, <1>10 DEF Freeing
  <2>2. b \in heap
    BY <1>2 DEF IInv, ServiceInv, Buffers, b
  <2>3. \A t \in Slots : g_windows'[t].used = 1 => g_windows'[t].buf \in heap'
    BY <1>1, <1>6, <1>8 DEF IInv, ServiceInv, Buffers
  <2>4. \A q \in Pids : Freeing(q)' => loc'[q].buf \in heap'
    BY <1>1, <1>5, <1>7, <2>1, <2>2 DEF IInv, ServiceInv, Buffers
  <2>5. ASSUME NEW c \in heap
        PROVE  \/ \E t \in Slots : g_windows'[t].used = 1 /\ g_windows'[t].buf = c
               \/ \E q \in Pids : Freeing(q)' /\ loc'[q].buf = c
    <3>1. CASE c = b
      BY <1>5, <1>7, <2>1, <3>1
    <3>2. CASE c # b /\ \E t \in Slots : g_windows[t].used = 1 /\ g_windows[t].buf = c
      BY <1>6, <1>8, <3>2 DEF b
    <3>3. CASE \E q \in Pids : Freeing(q) /\ loc[q].buf = c
      BY <1>7, <2>1, <3>3
    <3>4. QED
      BY <3>1, <3>2, <3>3 DEF IInv, ServiceInv, Buffers
  <2>6. \A t, u \in Slots : g_windows'[t].used = 1 /\ g_windows'[u].used = 1 /\ g_windows'[t].buf = g_windows'[u].buf
          => t = u
    BY <1>6, <1>8 DEF IInv, ServiceInv, Buffers
  <2>7. \A q, o \in Pids : Freeing(q)' /\ Freeing(o)' /\ loc'[q].buf = loc'[o].buf => q = o
    BY <1>2, <1>5, <1>7, <2>1 DEF IInv, ServiceInv, Buffers, b
  <2>8. \A t \in Slots, q \in Pids : g_windows'[t].used = 1 /\ Freeing(q)' => g_windows'[t].buf # loc'[q].buf
    BY <1>2, <1>5, <1>6, <1>7, <1>8, <2>1 DEF IInv, ServiceInv, Buffers, b
  <2>9. QED
    BY <1>1, <2>3, <2>4, <2>5, <2>6, <2>7, <2>8 DEF Buffers
<1>15. EventsAreOwn'
  BY <1>4, <1>6 DEF IInv, ServiceInv, EventsAreOwn
<1>16. Windows'
  <2>1. \A q \in Pids : /\ Holding(q)' <=> Holding(q) \/ q = p
                        /\ Holding(q) => q # p
                        /\ At(q, "scanned")' => At(q, "scanned") /\ q # p
                        /\ At(q, "detached")' => At(q, "detached") \/ q = p
                        /\ At(q, "detached") => q # p
    BY <1>1, <1>7, <1>10 DEF Holding, At
  <2>2. ~wins[w].auto
    BY <1>2 DEF IInv, FlagsAgree, Flagging, w
  <2>3. \A t \in Slots : g_windows'[t].used = 1 => InList(zlist', g_windows'[t].win) /\ wins'[g_windows'[t].win].gui
    BY <1>1, <1>6, <1>8 DEF IInv, Windows, Theirs
  <2>4. \A q \in Pids : Holding(q)' => loc'[q].win \in Wins /\ InList(zlist', loc'[q].win) /\ wins'[loc'[q].win].gui
    BY <1>1, <1>2, <1>3, <1>5, <1>7, <2>1 DEF IInv, Windows, Theirs, w
  <2>5. \A q \in Pids : /\ At(q, "scanned")' => loc'[q].win \in Wins /\ ~wins'[loc'[q].win].used
                        /\ At(q, "detached")' => ~wins'[loc'[q].win].auto
    BY <1>1, <1>5, <1>7, <2>1, <2>2 DEF IInv, Windows
  <2>6. \A q, o \in Pids : Holding(q)' /\ Holding(o)' /\ loc'[q].win = loc'[o].win => q = o
    BY <1>2, <1>5, <1>7, <2>1 DEF IInv, Windows, w
  <2>7. /\ \A t, u \in Slots : g_windows'[t].used = 1 /\ g_windows'[u].used = 1 /\ g_windows'[t].win = g_windows'[u].win
             => t = u
        /\ \A t \in Slots, q \in Pids : g_windows'[t].used = 1 /\ Holding(q)' => g_windows'[t].win # loc'[q].win
        /\ \A q, o \in Pids : At(q, "scanned")' /\ At(o, "scanned")' => q = o
    BY <1>2, <1>5, <1>6, <1>7, <1>8, <2>1 DEF IInv, Windows, w
  <2>8. QED
    BY <2>3, <2>4, <2>5, <2>6, <2>7 DEF Windows, Theirs
<1>17. FlagsAgree'
  <2>1. \A q \in Pids : Flagging(q) => Flagging(q)' /\ loc'[q].slot = loc[q].slot
    BY <1>1, <1>7, <1>10 DEF Flagging
  <2>2. QED
    BY <1>1, <1>6, <1>8, <2>1, FlagsKept
<1>18. DeskSound'
  <2>1. Fresh(desk.win)' => Fresh(desk.win)
    BY <1>1, <1>7 DEF Fresh
  <2>2. QED
    BY <1>1, <2>1, DeskStays DEF IInv, DeskSound
<1>19. QED
  BY <1>9, <1>11, <1>12, <1>13, <1>14, <1>15, <1>16, <1>17, <1>18 DEF IInv, ServiceInv

\* The pixels a call has in hand are freed.
LEMMA DestroyFreeStep ==
  ASSUME IInv, NEW p \in Pids, DestroyFree(p)
  PROVE  IInv'
<1>1. /\ alive[p] = "live" /\ pc[p] = "unmade" /\ Goto(p, "idle")
      /\ loc' = [loc EXCEPT ![p] = NoLocals]
      /\ heap' = heap \ {loc[p].buf}
      /\ UNCHANGED <<g_windows, g_next_handle, wins, zlist, drag_win, resize_win, prev_buttons, alive, desk>>
  BY DEF DestroyFree, At, Return, wm
<1>2. /\ loc' \in [Pids -> LocType] /\ pc' \in [Pids -> Calling]
      /\ \A q \in Pids \ {p} : loc'[q] = loc[q] /\ pc'[q] = pc[q]
      /\ pc'[p] = "idle"
  BY <1>1, NoLocalsType, CallMoves DEF Calling
<1>3. WmOK(Wm)' /\ Shapes'
  BY <1>1, <1>2, WmSame, WmOKNext, ShapesNext DEF IInv, Shapes
<1>4. HandlesFresh'
  <2>1. Creating' \subseteq Creating
    BY <1>1, <1>2 DEF Creating
  <2>2. QED
    BY <1>1, <2>1, HandlesKept
<1>5. SlotsFilled' /\ EventsAreOwn'
  BY <1>1 DEF IInv, ServiceInv, SlotsFilled, EventsAreOwn
<1>6. Reservations'
  <2>1. \A q \in Pids : (Reserving(q)' <=> Reserving(q)) /\ (Reserving(q) => q # p)
    BY <1>1, <1>2 DEF Reserving
  <2>2. \A q \in Pids : (Flagging(q)' <=> Flagging(q)) /\ (Flagging(q) => q # p)
    BY <1>1, <1>2 DEF Flagging
  <2>3. QED
    BY <1>1, <1>2, <2>1, <2>2 DEF IInv, ServiceInv, Reservations
<1>7. Buffers'
  <2>1. \A q \in Pids : Freeing(q)' <=> Freeing(q) /\ q # p
    BY <1>1, <1>2 DEF Freeing
  <2>2. Freeing(p)
    BY <1>1 DEF Freeing
  <2>3. QED
    BY <1>1, <1>2, <2>1, <2>2 DEF IInv, ServiceInv, Buffers
<1>8. Windows'
  <2>1. \A q \in Pids : /\ Holding(q)' => Holding(q) /\ loc'[q].win = loc[q].win
                        /\ At(q, "scanned")' => At(q, "scanned") /\ loc'[q].win = loc[q].win
                        /\ At(q, "detached")' => At(q, "detached") /\ loc'[q].win = loc[q].win
    BY <1>1, <1>2 DEF Holding, At
  <2>2. QED
    BY <1>1, <2>1, WindowsKept
<1>9. FlagsAgree'
  <2>1. \A q \in Pids : Flagging(q) => Flagging(q)' /\ loc'[q].slot = loc[q].slot
    BY <1>1, <1>2 DEF Flagging
  <2>2. QED
    BY <1>1, <2>1, FlagsKept
<1>10. DeskSound'
  <2>1. Fresh(desk.win)' => Fresh(desk.win)
    BY <1>1, <1>2 DEF Fresh
  <2>2. QED
    BY <1>1, <2>1, DeskStays DEF IInv, DeskSound
<1>11. QED
  BY <1>3, <1>4, <1>5, <1>6, <1>7, <1>8, <1>9, <1>10 DEF IInv, ServiceInv

\* A slot that is handed out is written, but not what says whose it is.
LEMMA SlotWritten ==
  ASSUME IInv, NEW s \in Slots, NEW n, SlotOK(n), g_windows' = [g_windows EXCEPT ![s] = n],
         g_windows[s].used = 1, n.used = 1, n.buf # 0,
         n.handle = g_windows[s].handle, n.owner = g_windows[s].owner, n.win = g_windows[s].win,
         UNCHANGED <<g_next_handle, alive, pc, loc>>
  PROVE  /\ g_windows' \in [Slots -> SlotType] /\ g_windows'[s] = n
         /\ \A t \in Slots \ {s} : g_windows'[t] = g_windows[t]
         /\ \A t \in Slots : g_windows'[t].used = g_windows[t].used /\ g_windows'[t].win = g_windows[t].win
         /\ HandlesFresh' /\ SlotsFilled' /\ Reservations' /\ EventsAreOwn'
<1>1. /\ g_windows' \in [Slots -> SlotType] /\ g_windows'[s] = n
      /\ \A t \in Slots \ {s} : g_windows'[t] = g_windows[t]
  BY SlotSet DEF SlotOK
<1>2. \A t \in Slots : /\ g_windows'[t].used = g_windows[t].used /\ g_windows'[t].win = g_windows[t].win
                       /\ g_windows'[t].handle = g_windows[t].handle
                       /\ g_windows'[t].owner = g_windows[t].owner
  BY <1>1
<1>3. HandlesFresh'
  <2>1. Creating' \subseteq Creating
    BY DEF Creating
  <2>2. QED
    BY <1>2, <2>1, HandlesKept
<1>4. SlotsFilled'
  BY <1>1, <1>2 DEF IInv, ServiceInv, SlotsFilled, SlotOK
<1>5. Reservations'
  <2>1. \A q \in Pids : (Reserving(q)' <=> Reserving(q)) /\ (Flagging(q)' <=> Flagging(q))
    BY DEF Reserving, Flagging
  <2>2. QED
    BY <1>2, <2>1 DEF IInv, ServiceInv, Reservations
<1>6. EventsAreOwn'
  BY <1>1 DEF IInv, ServiceInv, EventsAreOwn, SlotOK
<1>7. QED
  BY <1>1, <1>2, <1>3, <1>4, <1>5, <1>6

\* No call moves.
LEMMA CallsStay ==
  ASSUME UNCHANGED <<alive, pc, loc>>
  PROVE  \A q \in Pids : /\ Holding(q)' <=> Holding(q)
                         /\ At(q, "scanned")' <=> At(q, "scanned")
                         /\ At(q, "detached")' <=> At(q, "detached")
                         /\ Flagging(q)' <=> Flagging(q)
                         /\ Freeing(q)' <=> Freeing(q)
BY DEF Holding, At, Flagging, Freeing

LEMMA GetEventStep ==
  ASSUME IInv, NEW p \in Pids, NEW h, GetEvent(p, h)
  PROVE  IInv'
<1> DEFINE s == Owned(p, h)
           g == g_windows[s]
           n == [g EXCEPT !.events = Tail(@)]
<1>1. /\ Ready(p) /\ s # 0 /\ g.events # <<>>
      /\ g_windows' = [g_windows EXCEPT ![s].events = Tail(@)]
      /\ UNCHANGED <<g_next_handle, wins, zlist, drag_win, resize_win, prev_buttons, heap, alive, pc,
                     loc, desk>>
  BY DEF GetEvent, wm
<1>2. s \in Slots /\ g.used = 1
  BY <1>1, OwnedIsOut
<1> HIDE DEF s
<1>3. SlotOK(g) /\ g \in SlotType /\ g.buf \in Bufs
  BY <1>2, SlotFields
<1>4. g_windows' = [g_windows EXCEPT ![s] = n]
  BY <1>1
<1> HIDE DEF g
<1>5. /\ SlotOK(n) /\ n.used = 1 /\ n.handle = g.handle /\ n.owner = g.owner /\ n.win = g.win
      /\ n.buf = g.buf /\ n.resizable = g.resizable
  <2> DEFINE e == g.events
  <2>1. e \in Seq(EventType) /\ e # <<>> /\ Len(e) <= EVENT_Q /\ \A i \in DOMAIN e : e[i].window = g.handle
    BY <1>1, <1>3 DEF SlotOK, SlotType, EventType
  <2> HIDE DEF e
  <2>2. /\ Tail(e) \in Seq(EventType) /\ Len(Tail(e)) <= EVENT_Q
        /\ \A i \in DOMAIN Tail(e) : Tail(e)[i].window = g.handle
    <3>1. Len(e) \in Nat /\ Len(e) > 0 /\ DOMAIN e = 1..Len(e)
      BY <2>1, EmptySeq, LenProperties
    <3>2. /\ Tail(e) \in Seq(EventType) /\ Len(Tail(e)) = Len(e) - 1
          /\ \A i \in 1..(Len(e) - 1) : Tail(e)[i] = e[i + 1]
      BY <2>1, HeadTailProperties
    <3>3. DOMAIN Tail(e) = 1..(Len(e) - 1)
      BY <3>2, LenProperties
    <3>4. QED
      BY <2>1, <3>1, <3>2, <3>3, GuiAssumption
  <2>3. n = [g EXCEPT !.events = Tail(e)]
    BY DEF e
  <2>4. /\ n \in SlotType /\ n.used = 1 /\ n.handle = g.handle /\ n.owner = g.owner /\ n.win = g.win
        /\ n.buf = g.buf /\ n.resizable = g.resizable /\ n.events = Tail(e)
    BY <1>2, <1>3, <2>2, <2>3 DEF SlotType, EventType
  <2> HIDE DEF n
  <2>5. QED
    BY <2>2, <2>4 DEF SlotOK
<1> HIDE DEF n
<1>6. /\ g_windows' \in [Slots -> SlotType] /\ g_windows'[s] = n
      /\ \A t \in Slots \ {s} : g_windows'[t] = g_windows[t]
      /\ \A t \in Slots : g_windows'[t].used = g_windows[t].used /\ g_windows'[t].win = g_windows[t].win
      /\ HandlesFresh' /\ SlotsFilled' /\ Reservations' /\ EventsAreOwn'
  <2>1. n.buf # 0
    BY <1>3, <1>5, GuiAssumption
  <2>2. QED
    BY <1>1, <1>2, <1>4, <1>5, <2>1, SlotWritten DEF g
<1>7. \A t \in Slots : g_windows'[t].buf = g_windows[t].buf /\ g_windows'[t].resizable = g_windows[t].resizable
  BY <1>5, <1>6 DEF g
<1>8. Buffers' /\ Windows' /\ FlagsAgree'
  BY <1>1, <1>6, <1>7, CallsStay, BuffersKept, WindowsKept, FlagsKept
<1>9. WmOK(Wm)' /\ Shapes'
  BY <1>1, <1>6, WmSame, WmOKNext, ShapesNext DEF IInv, Shapes
<1>10. DeskSound'
  <2>1. Fresh(desk.win)' => Fresh(desk.win)
    BY <1>1 DEF Fresh
  <2>2. QED
    BY <1>1, <2>1, DeskStays DEF IInv, DeskSound
<1>11. QED
  BY <1>6, <1>8, <1>9, <1>10 DEF IInv, ServiceInv

\* The slot and its window say the same.
LEMMA SetResizableStep ==
  ASSUME IInv, NEW p \in Pids, NEW h, NEW r \in BOOLEAN, SetResizable(p, h, r)
  PROVE  IInv'
<1> DEFINE s == Owned(p, h)
           g == g_windows[s]
           w == g_windows[s].win
           n == [g EXCEPT !.resizable = r]
<1>1. /\ Ready(p) /\ s # 0
      /\ g_windows' = [g_windows EXCEPT ![s].resizable = r]
      /\ wins' = IF w = 0 THEN wins ELSE [wins EXCEPT ![w].resz = r]
      /\ UNCHANGED <<g_next_handle, zlist, drag_win, resize_win, prev_buttons, heap, alive, pc, loc, desk>>
  BY DEF SetResizable
<1>2. s \in Slots /\ g.used = 1 /\ \A q \in Pids : Flagging(q) => loc[q].slot # s
  BY <1>1, OwnedIsOut
<1> HIDE DEF s
<1>3. SlotOK(g) /\ g \in SlotType /\ g.buf \in Bufs /\ w \in Wins
  BY <1>2, SlotFields
<1>4. g_windows' = [g_windows EXCEPT ![s] = n]
  BY <1>1
<1> HIDE DEF g, w
<1>5. /\ SlotOK(n) /\ n.used = 1 /\ n.handle = g.handle /\ n.owner = g.owner /\ n.win = g.win
      /\ n.buf = g.buf /\ n.resizable = r
  <2>1. /\ n \in SlotType /\ n.used = 1 /\ n.handle = g.handle /\ n.owner = g.owner /\ n.win = g.win
        /\ n.buf = g.buf /\ n.resizable = r /\ n.events = g.events
    BY <1>2, <1>3 DEF SlotType
  <2> HIDE DEF n
  <2>2. QED
    BY <1>3, <2>1 DEF SlotOK
<1> HIDE DEF n
<1>6. /\ g_windows' \in [Slots -> SlotType] /\ g_windows'[s] = n
      /\ \A t \in Slots \ {s} : g_windows'[t] = g_windows[t]
      /\ \A t \in Slots : g_windows'[t].used = g_windows[t].used /\ g_windows'[t].win = g_windows[t].win
      /\ HandlesFresh' /\ SlotsFilled' /\ Reservations' /\ EventsAreOwn'
  <2>1. n.buf # 0
    BY <1>3, <1>5, GuiAssumption
  <2>2. QED
    BY <1>1, <1>2, <1>4, <1>5, <2>1, SlotWritten DEF g
<1>7. Buffers'
  <2>1. \A t \in Slots : g_windows'[t].buf = g_windows[t].buf
    BY <1>5, <1>6 DEF g
  <2>2. QED
    BY <1>1, <1>6, <2>1, CallsStay, BuffersKept
<1>8. /\ wins' \in [Wins -> WinType]
      /\ \A v \in Wins \ {w} : wins'[v] = wins[v]
      /\ wins'[w].used = wins[w].used /\ wins'[w].active = wins[w].active /\ wins'[w].gui = wins[w].gui
      /\ wins'[w].auto = wins[w].auto /\ wins'[w].resz = r
  <2>1. wins \in [Wins -> WinType] /\ w # 0
    BY <1>3, Typed, NoWindowZero DEF IInv
  <2>2. wins' = [wins EXCEPT ![w].resz = r]
    BY <1>1, <2>1
  <2>3. QED
    BY <1>3, <2>1, <2>2 DEF WinType
<1>9. WmOK(Wm')
  <2>1. Wm' = [wins |-> wins', z |-> Wm.z, drag |-> Wm.drag, resize |-> Wm.resize]
    BY <1>1 DEF Wm
  <2>2. \A v \in Wins : wins'[v].used = Wm.wins[v].used /\ wins'[v].active = Wm.wins[v].active
    BY <1>3, <1>8 DEF Wm
  <2>3. QED
    BY <1>8, <2>1, <2>2, FlagSet DEF IInv
<1>10. WmOK(Wm)' /\ Shapes'
  BY <1>1, <1>6, <1>9, WmOKNext, ShapesNext DEF IInv, Shapes
<1>11. Windows'
  <2>1. \A q \in Pids : /\ Holding(q)' <=> Holding(q)
                        /\ At(q, "scanned")' <=> At(q, "scanned")
                        /\ At(q, "detached")' <=> At(q, "detached")
    BY <1>1, CallsStay
  <2>2. \A v \in Wins : /\ Theirs(v)' <=> Theirs(v)
                        /\ wins'[v].used <=> wins[v].used
                        /\ wins'[v].auto <=> wins[v].auto
    BY <1>1, <1>3, <1>8 DEF Theirs
  <2>3. \A t \in Slots : g_windows[t].used = 1 => g_windows[t].win \in Wins
    BY SlotFields
  <2>4. \A q \in Pids : At(q, "detached") => Holding(q)
    BY DEF At, Holding
  <2>5. \A t \in Slots : g_windows'[t].used = 1 => InList(zlist', g_windows'[t].win) /\ wins'[g_windows'[t].win].gui
    BY <1>6, <2>2, <2>3 DEF IInv, Windows, Theirs
  <2>6. \A q \in Pids : Holding(q)' => /\ loc'[q].win \in Wins /\ InList(zlist', loc'[q].win)
                                        /\ wins'[loc'[q].win].gui
    BY <1>1, <2>1, <2>2 DEF IInv, Windows, Theirs
  <2>7. \A q \in Pids : /\ At(q, "scanned")' => loc'[q].win \in Wins /\ ~wins'[loc'[q].win].used
                        /\ At(q, "detached")' => ~wins'[loc'[q].win].auto
    BY <1>1, <2>1, <2>2, <2>4 DEF IInv, Windows
  <2>8. QED
    BY <1>1, <1>6, <2>1, <2>5, <2>6, <2>7 DEF IInv, Windows, Theirs
<1>12. FlagsAgree'
  <2>1. SUFFICES ASSUME NEW t \in Slots, g_windows[t].used = 1, \A q \in Pids : Flagging(q) => loc[q].slot # t
                 PROVE  ~wins'[g_windows[t].win].auto /\ wins'[g_windows[t].win].resz = g_windows'[t].resizable
    BY <1>1, <1>6 DEF FlagsAgree, Flagging
  <2>2. ~wins[g_windows[t].win].auto /\ wins[g_windows[t].win].resz = g_windows[t].resizable
    BY <2>1 DEF IInv, FlagsAgree, Flagging
  <2>3. CASE t = s
    BY <1>5, <1>6, <1>8, <2>2, <2>3 DEF w, g
  <2>4. CASE t # s
    <3>1. g_windows[t].win # w /\ g_windows[t].win \in Wins
      BY <1>2, <2>1, <2>4, SlotFields DEF IInv, Windows, w, g
    <3>2. QED
      BY <1>6, <1>8, <2>2, <2>4, <3>1
  <2>5. QED
    BY <2>3, <2>4
<1>13. DeskSound'
  <2>1. Fresh(desk.win)' => Fresh(desk.win)
    BY <1>1 DEF Fresh
  <2>2. QED
    BY <1>1, <2>1, DeskStays DEF IInv, DeskSound
<1>14. QED
  BY <1>6, <1>7, <1>10, <1>11, <1>12, <1>13 DEF IInv, ServiceInv

-----------------------------------------------------------------------------
(* Death. *)

\* A process that dies leaves its call where it is.
LEMMA DieStep ==
  ASSUME IInv, NEW p \in Pids, Die(p)
  PROVE  IInv'
<1>1. /\ alive[p] = "live" /\ alive' = [alive EXCEPT ![p] = "zombie"]
      /\ UNCHANGED <<g_windows, g_next_handle, wins, zlist, drag_win, resize_win, prev_buttons, heap,
                     pc, loc, desk>>
  BY DEF Die, wm
<1>2. /\ alive' \in [Pids -> {"live", "zombie", "gone"}]
      /\ \A q \in Pids \ {p} : alive'[q] = alive[q]
      /\ alive'[p] = "zombie"
  BY <1>1 DEF IInv, Shapes
<1>3. WmOK(Wm)' /\ Shapes'
  BY <1>1, <1>2, WmSame, WmOKNext, ShapesNext DEF IInv, Shapes
<1>4. \A q \in Pids : /\ Reserving(q)' <=> Reserving(q)
                      /\ Flagging(q)' <=> Flagging(q)
                      /\ Freeing(q)' <=> Freeing(q)
                      /\ Holding(q)' => Holding(q)
                      /\ At(q, "scanned")' => At(q, "scanned")
                      /\ At(q, "detached")' => At(q, "detached")
                      /\ alive'[q] = "gone" <=> alive[q] = "gone"
  BY <1>1, <1>2 DEF Reserving, Flagging, Freeing, Holding, At
<1>5. HandlesFresh'
  <2>1. Creating' \subseteq Creating
    BY <1>1, <1>2 DEF Creating
  <2>2. QED
    BY <1>1, <2>1, HandlesKept
<1>6. SlotsFilled' /\ EventsAreOwn'
  BY <1>1, <1>4 DEF IInv, ServiceInv, SlotsFilled, EventsAreOwn
<1>7. Reservations'
  BY <1>1, <1>4 DEF IInv, ServiceInv, Reservations
<1>8. Buffers' /\ Windows' /\ FlagsAgree'
  BY <1>1, <1>4, BuffersKept, WindowsKept, FlagsKept
<1>9. DeskSound'
  <2>1. Fresh(desk.win)' => Fresh(desk.win)
    BY <1>1, <1>4 DEF Fresh
  <2>2. QED
    BY <1>1, <2>1, DeskStays DEF IInv, DeskSound
<1>10. QED
  BY <1>3, <1>5, <1>6, <1>7, <1>8, <1>9 DEF IInv, ServiceInv

\* The reaper sweeps what the process owned, wherever it died.
LEMMA ReapStepKeeps ==
  ASSUME IInv, NoRaces, NEW p \in Pids, Reap(p)
  PROVE  IInv'
<1> DEFINE T == ReapStep(p)
           n == FoldSet(DropWindow, Wm, T)
           D == WinsOf(T)
<1>1. /\ alive[p] = "zombie" /\ \A s \in T : MayDie(g_windows[s].win)
      /\ g_windows' = [s \in Slots |-> IF s \in T THEN Cleared(g_windows[s]) ELSE g_windows[s]]
      /\ heap' = heap \ {g_windows[s].buf : s \in T}
      /\ SetWm(n)
      /\ alive' = [alive EXCEPT ![p] = "gone"]
      /\ UNCHANGED <<g_next_handle, prev_buttons, pc, loc, desk>>
  BY DEF Reap
<1>2. T \subseteq Slots /\ \A s \in Slots : s \in T <=> g_windows[s].used # 0 /\ g_windows[s].owner = p
  BY DEF ReapStep, Belongs, InUse
<1> HIDE DEF T
<1>3. IsFiniteSet(T)
  BY <1>2, GuiAssumption, FS_Subset
<1>4. Sweepable(Wm, T)
  <2>1. \A s \in T : g_windows[s].used = 1 \/ g_windows[s].win = 0
    BY <1>2 DEF IInv, ServiceInv, SlotsFilled
  <2>2. \A s \in Slots : g_windows[s].used = 1 => g_windows[s].win \in Wins /\ InList(Wm.z, g_windows[s].win)
    BY SlotFields DEF IInv, Windows, Theirs, Wm
  <2>3. QED
    BY <1>2, <2>1, <2>2 DEF Sweepable, IInv, Windows, ServiceInv, SlotsFilled
<1>5. WmOK(n) /\ WmLess(Wm, n, D)
  BY <1>3, <1>4, SweepOK DEF IInv
<1> HIDE DEF n
<1>6. Wm' = n
  BY <1>1, <1>5, SetWmIs DEF WmOK
<1>7. /\ g_windows' \in [Slots -> SlotType]
      /\ \A s \in Slots \ T : g_windows'[s] = g_windows[s]
      /\ \A s \in T : /\ g_windows'[s].used = 0 /\ g_windows'[s].win = 0 /\ g_windows'[s].buf = 0
                      /\ g_windows'[s].events = <<>>
      /\ \A s \in Slots : /\ g_windows'[s].handle = g_windows[s].handle
                          /\ g_windows'[s].owner = g_windows[s].owner
  <2>1. \A s \in Slots : g_windows[s] \in SlotType
    BY SlotFields
  <2>2. \A s \in Slots : g_windows'[s] = IF s \in T THEN Cleared(g_windows[s]) ELSE g_windows[s]
    BY <1>1, Zenon
  <2>3. \A s \in T : /\ g_windows'[s] \in SlotType /\ g_windows'[s].used = 0 /\ g_windows'[s].win = 0
                     /\ g_windows'[s].buf = 0 /\ g_windows'[s].events = <<>>
                     /\ g_windows'[s].handle = g_windows[s].handle
                     /\ g_windows'[s].owner = g_windows[s].owner
    BY <1>2, <2>1, <2>2, ClearedSlot
  <2>4. \A s \in Slots \ T : g_windows'[s] = g_windows[s]
    BY <2>2
  <2>5. \A s \in Slots : g_windows'[s] \in SlotType
    BY <2>1, <2>3, <2>4
  <2>6. g_windows' \in [Slots -> SlotType]
    BY <1>1, <2>2, <2>5, Zenon
  <2>7. QED
    BY <1>2, <2>3, <2>4, <2>6
<1>8. /\ alive' \in [Pids -> {"live", "zombie", "gone"}]
      /\ \A q \in Pids \ {p} : alive'[q] = alive[q]
      /\ alive'[p] = "gone"
  BY <1>1 DEF IInv, Shapes
<1>9. \A q \in Pids : /\ Reserving(q)' <=> Reserving(q) /\ q # p
                      /\ Flagging(q)' <=> Flagging(q) /\ q # p
                      /\ Freeing(q)' <=> Freeing(q)
                      /\ Holding(q)' <=> Holding(q)
                      /\ At(q, "scanned")' <=> At(q, "scanned")
                      /\ At(q, "detached")' <=> At(q, "detached")
  BY <1>1, <1>8 DEF Reserving, Flagging, Freeing, Holding, At
<1>10. \A s \in Slots : g_windows'[s].used = 1 <=> g_windows[s].used = 1 /\ s \notin T
  BY <1>2, <1>7
<1>11. WmOK(Wm)' /\ Shapes'
  BY <1>1, <1>5, <1>6, <1>7, <1>8, WmOKNext, ShapesNext DEF IInv, Shapes
<1>12. HandlesFresh'
  <2>1. Creating' \subseteq Creating
    BY <1>1, <1>8 DEF Creating
  <2>2. QED
    BY <1>1, <1>7, <2>1, HandlesKept
<1>13. SlotsFilled'
  <2>1. SUFFICES ASSUME NEW t \in Slots
                 PROVE  /\ Len(g_windows'[t].events) <= EVENT_Q
                        /\ g_windows'[t].used = 1 =>
                             /\ g_windows'[t].owner \in Pids /\ alive'[g_windows'[t].owner] # "gone"
                             /\ g_windows'[t].win # 0 /\ g_windows'[t].buf # 0 /\ g_windows'[t].handle # 0
                        /\ g_windows'[t].used # 1 =>
                             g_windows'[t].win = 0 /\ g_windows'[t].buf = 0 /\ g_windows'[t].events = <<>>
    BY DEF SlotsFilled
  <2>2. CASE t \in T
    <3>1. Len(<<>>) <= EVENT_Q
      BY GuiAssumption
    <3>2. QED
      BY <1>7, <2>2, <3>1
  <2>3. CASE t \notin T
    BY <1>2, <1>7, <1>8, <2>3 DEF IInv, ServiceInv, SlotsFilled
  <2>4. QED
    BY <2>2, <2>3
<1>14. Reservations'
  <2>1. \A q \in Pids : Reserving(q) /\ q # p => loc[q].slot \notin T
    <3>1. SUFFICES ASSUME NEW q \in Pids, Reserving(q), q # p, loc[q].slot \in T PROVE FALSE
      OBVIOUS
    <3>2. loc[q].slot \in Slots /\ g_windows[loc[q].slot].used = 2 /\ g_windows[loc[q].slot].owner = p
      BY <1>2, <3>1 DEF IInv, ServiceInv, Reservations
    <3>3. Reserving(p) /\ loc[p].slot = loc[q].slot
      BY <1>1, <3>2 DEF IInv, ServiceInv, Reservations
    <3>4. QED
      BY <3>1, <3>3 DEF IInv, ServiceInv, Reservations
  <2>2. \A q \in Pids : Reserving(q)' => loc'[q].slot \in Slots /\ g_windows'[loc'[q].slot].used = 2
    BY <1>1, <1>7, <1>9, <2>1 DEF IInv, ServiceInv, Reservations
  <2>3. \A q, o \in Pids : Reserving(q)' /\ Reserving(o)' /\ loc'[q].slot = loc'[o].slot => q = o
    BY <1>1, <1>9 DEF IInv, ServiceInv, Reservations
  <2>4. ASSUME NEW t \in Slots, NEW o \in Pids, g_windows'[t].used = 2, g_windows'[t].owner = o
        PROVE  alive'[o] = "gone" \/ (Reserving(o)' /\ loc'[o].slot = t)
    <3>1. t \notin T /\ g_windows[t].used = 2 /\ g_windows[t].owner = o
      BY <1>7, <2>4
    <3>2. QED
      BY <1>1, <1>2, <1>8, <1>9, <3>1 DEF IInv, ServiceInv, Reservations
  <2>5. \A q \in Pids : Flagging(q)' =>
          /\ loc'[q].slot \in Slots
          /\ g_windows'[loc'[q].slot].used = 1 /\ g_windows'[loc'[q].slot].owner = q
          /\ g_windows'[loc'[q].slot].win = loc'[q].win
    <3>1. SUFFICES ASSUME NEW q \in Pids, Flagging(q)'
                   PROVE  /\ loc'[q].slot \in Slots
                          /\ g_windows'[loc'[q].slot].used = 1 /\ g_windows'[loc'[q].slot].owner = q
                          /\ g_windows'[loc'[q].slot].win = loc'[q].win
      OBVIOUS
    <3>2. Flagging(q) /\ q # p
      BY <1>9, <3>1, Zenon
    <3>3. /\ loc[q].slot \in Slots /\ g_windows[loc[q].slot].used = 1
          /\ g_windows[loc[q].slot].owner = q /\ g_windows[loc[q].slot].win = loc[q].win
      BY <3>2 DEF IInv, ServiceInv, Reservations
    <3>4. loc[q].slot \notin T
      BY <1>2, <3>2, <3>3
    <3>5. QED
      BY <1>1, <1>7, <3>3, <3>4
  <2>6. QED
    BY <2>2, <2>3, <2>4, <2>5 DEF Reservations
<1>15. Buffers'
  <2>1. \A b : b \in heap' <=> b \in heap /\ \A s \in T : g_windows[s].buf # b
    BY <1>1
  <2>2. \A s \in T : g_windows[s].used = 1 \/ g_windows[s].buf = 0
    BY <1>2 DEF IInv, ServiceInv, SlotsFilled
  <2>3. 0 \notin heap
    BY GuiAssumption DEF IInv, Shapes
  <2>4. \A t \in Slots : g_windows'[t].used = 1 => g_windows'[t].buf \in heap'
    BY <1>2, <1>7, <1>10, <2>1, <2>2, <2>3 DEF IInv, ServiceInv, Buffers
  <2>5. \A q \in Pids : Freeing(q)' => loc'[q].buf \in heap'
    BY <1>1, <1>2, <1>9, <2>1, <2>2, <2>3 DEF IInv, ServiceInv, Buffers
  <2>6. ASSUME NEW c \in heap'
        PROVE  \/ \E t \in Slots : g_windows'[t].used = 1 /\ g_windows'[t].buf = c
               \/ \E q \in Pids : Freeing(q)' /\ loc'[q].buf = c
    BY <1>1, <1>7, <1>9, <1>10, <2>1, <2>6 DEF IInv, ServiceInv, Buffers
  <2>7. \A t, u \in Slots : g_windows'[t].used = 1 /\ g_windows'[u].used = 1 /\ g_windows'[t].buf = g_windows'[u].buf
          => t = u
    BY <1>7, <1>10 DEF IInv, ServiceInv, Buffers
  <2>8. \A q, o \in Pids : Freeing(q)' /\ Freeing(o)' /\ loc'[q].buf = loc'[o].buf => q = o
    BY <1>1, <1>9 DEF IInv, ServiceInv, Buffers
  <2>9. \A t \in Slots, q \in Pids : g_windows'[t].used = 1 /\ Freeing(q)' => g_windows'[t].buf # loc'[q].buf
    BY <1>1, <1>7, <1>9, <1>10 DEF IInv, ServiceInv, Buffers
  <2>10. QED
    BY <2>4, <2>5, <2>6, <2>7, <2>8, <2>9 DEF Buffers
<1>16. EventsAreOwn'
  BY <1>7 DEF IInv, ServiceInv, EventsAreOwn
<1>17. Windows' /\ FlagsAgree'
  <2>1. \A s \in T : g_windows[s].used = 1 \/ g_windows[s].win = 0
    BY <1>2 DEF IInv, ServiceInv, SlotsFilled
  <2>2. \A t \in Slots : g_windows'[t].used = 1 =>
           /\ g_windows[t].used = 1 /\ g_windows'[t].win = g_windows[t].win /\ g_windows[t].win \notin D
           /\ g_windows'[t].resizable = g_windows[t].resizable
    BY <1>2, <1>7, <1>10, <2>1 DEF IInv, Windows, WinsOf
  <2>3. \A q \in Pids : Holding(q) => loc[q].win \notin D
    BY <1>2, <2>1 DEF IInv, Windows, WinsOf
  <2>4. \A q \in Pids : Flagging(q) =>
           (Flagging(q)' /\ loc'[q].slot = loc[q].slot) \/ g_windows'[loc[q].slot].used # 1
    <3>1. SUFFICES ASSUME NEW q \in Pids, Flagging(q), q = p
                   PROVE  g_windows'[loc[q].slot].used # 1
      BY <1>1, <1>9, Zenon
    <3>2. loc[q].slot \in T
      BY <1>2, <3>1 DEF IInv, ServiceInv, Reservations
    <3>3. QED
      BY <1>7, <3>2
  <2> HIDE DEF D
  <2>5. QED
    BY <1>1, <1>5, <1>6, <1>9, <2>2, <2>3, <2>4, LessStep
<1>18. DeskSound'
  <2>1. desk.win # 0 => desk.win \in Wins /\ InList(Wm.z, desk.win)
    BY DEF IInv, DeskSound, Shapes, DeskType, Wm
  <2>2. desk.win \notin D
    BY <1>1 DEF MayDie, NoRaces, WinsOf
  <2>3. desk.win # 0 => InList(zlist', desk.win)
    BY <1>5, <1>6, <2>1, <2>2 DEF WmLess, Wm
  <2>4. Fresh(desk.win)' => Fresh(desk.win)
    BY <1>1, <1>8 DEF Fresh
  <2>5. QED
    BY <1>1, <2>3, <2>4, DeskStays
<1>19. QED
  BY <1>11, <1>12, <1>13, <1>14, <1>15, <1>16, <1>17, <1>18 DEF IInv, ServiceInv

-----------------------------------------------------------------------------
(* The desktop's events. *)

\* The events that remain to be dispatched.
LEMMA DispatchLeft ==
  ASSUME IInv, DeskDispatch
  PROVE  /\ desk.win \in Wins /\ Head(desk.evs) \in Kinds
         /\ desk' \in DeskType
         /\ desk' = DeskIdle \/ (desk'.win = desk.win /\ desk'.close = desk.close)
         /\ desk.close => desk' # DeskIdle
<1>1. desk \in DeskType /\ desk.evs \in Seq(Kinds) /\ desk.evs # <<>> /\ desk.win \in Wins \cup {0}
  BY DEF IInv, Shapes, DeskType, DeskDispatch
<1>2. desk.win \in Wins
  BY <1>1 DEF IInv, DeskSound, DeskIdle
<1>3. Head(desk.evs) \in Kinds /\ Tail(desk.evs) \in Seq(Kinds)
  BY <1>1, HeadTailProperties
<1>4. CASE Len(desk.evs) = 1 /\ ~desk.close
  <2>1. desk' = DeskIdle
    BY <1>4 DEF DeskDispatch
  <2>2. <<>> \in Seq(Kinds)
    OBVIOUS
  <2>3. DeskIdle \in DeskType
    BY <2>2 DEF DeskIdle, DeskType
  <2>4. QED
    BY <1>2, <1>3, <1>4, <2>1, <2>3
<1>5. CASE ~(Len(desk.evs) = 1 /\ ~desk.close)
  <2>1. desk' = [desk EXCEPT !.evs = Tail(desk.evs)]
    BY <1>5 DEF DeskDispatch
  <2>2. desk' \in DeskType /\ desk'.win = desk.win /\ desk'.close = desk.close
    BY <1>1, <1>3, <2>1 DEF DeskType
  <2>3. desk.close => desk' # DeskIdle
    <3>1. SUFFICES ASSUME desk.close, desk' = DeskIdle PROVE FALSE
      OBVIOUS
    <3>2. DeskIdle.close = FALSE
      BY DEF DeskIdle
    <3>3. desk.close = FALSE
      BY <2>2, <3>1, <3>2, Zenon
    <3>4. QED
      BY <3>1, <3>3, Zenon
  <2>4. QED
    BY <1>2, <1>3, <2>2, <2>3
<1>6. QED
  BY <1>4, <1>5

LEMMA DeskDispatchStep ==
  ASSUME IInv, DeskDispatch
  PROVE  IInv'
<1> DEFINE kind == Head(desk.evs)
           s == find_slot_by_wm(desk.win)
           g == g_windows[s]
<1>1. /\ UNCHANGED <<g_next_handle, wins, zlist, drag_win, resize_win, prev_buttons, alive, pc, loc>>
      /\ \/ UNCHANGED <<g_windows, heap>>
         \/ /\ s # 0
            /\ \E b \in Bufs \ heap :
                 /\ heap' = (heap \ {g.buf}) \cup {b}
                 /\ g_windows' = [g_windows EXCEPT ![s] = Deliver(Resized(g, b), kind)]
         \/ s # 0 /\ UNCHANGED heap /\ g_windows' = [g_windows EXCEPT ![s] = Deliver(g, kind)]
  BY DEF DeskDispatch, wm
<1>2. /\ desk.win \in Wins /\ kind \in Kinds /\ desk' \in DeskType
      /\ desk' = DeskIdle \/ (desk'.win = desk.win /\ desk'.close = desk.close)
  BY DispatchLeft
<1>3. DeskSound'
  <2>1. CASE desk' = DeskIdle
    BY <2>1 DEF DeskSound, DeskIdle
  <2>2. CASE desk'.win = desk.win /\ desk'.close = desk.close
    <3>1. desk'.win # 0 /\ InList(zlist', desk'.win)
      BY <1>1, <1>2, <2>2, NoWindowZero DEF IInv, DeskSound
    <3>2. desk.close => ~Fresh(desk.win)
      BY DEF IInv, DeskSound
    <3>3. desk'.close => ~Fresh(desk.win)'
      BY <1>1, <2>2, <3>2 DEF Fresh
    <3>4. QED
      BY <3>1, <3>3 DEF DeskSound
  <2>3. QED
    BY <1>2, <2>1, <2>2
<1>4. Wm' = Wm /\ WmOK(Wm)' /\ WmOK(Wm')
  BY <1>1, WmSame, WmOKNext DEF IInv
<1>5. CASE UNCHANGED <<g_windows, heap>>
  <2>1. WmLess(Wm, Wm', {})
    BY <1>4, LessNone
  <2>2. prev_buttons' \subseteq {"L", "R"}
    BY <1>1 DEF IInv, Shapes
  <2>3. QED
    BY <1>1, <1>2, <1>3, <1>4, <1>5, <2>1, <2>2, QuietStep
<1>6. ASSUME s # 0 PROVE s \in Slots /\ g.used = 1 /\ SlotOK(g) /\ g \in SlotType /\ g.buf \in Bufs
  <2>1. s \in Slots /\ g.used # 0 /\ g.win = desk.win
    BY <1>6, SlotOfWin DEF InUse
  <2>2. g.used = 1
    BY <1>2, <2>1, NoWindowZero DEF IInv, ServiceInv, SlotsFilled
  <2>3. QED
    BY <2>1, <2>2, SlotFields
<1>7. CASE s # 0 /\ UNCHANGED heap /\ g_windows' = [g_windows EXCEPT ![s] = Deliver(g, kind)]
  <2> DEFINE n == Deliver(g, kind)
  <2>1. s \in Slots /\ g.used = 1 /\ SlotOK(g) /\ g.buf \in Bufs
    BY <1>6, <1>7
  <2>2. EventsOnly(g, n)
    BY <1>2, <2>1, DeliverOK
  <2> HIDE DEF n, s, kind
  <2>3. /\ SlotOK(n) /\ n.used = 1 /\ n.buf # 0 /\ n.handle = g.handle /\ n.owner = g.owner
        /\ n.win = g.win /\ n.buf = g.buf /\ n.resizable = g.resizable
    BY <2>1, <2>2, GuiAssumption DEF EventsOnly
  <2>4. /\ g_windows' \in [Slots -> SlotType] /\ g_windows'[s] = n
        /\ \A t \in Slots \ {s} : g_windows'[t] = g_windows[t]
        /\ \A t \in Slots : g_windows'[t].used = g_windows[t].used /\ g_windows'[t].win = g_windows[t].win
        /\ HandlesFresh' /\ SlotsFilled' /\ Reservations' /\ EventsAreOwn'
    BY <1>1, <1>7, <2>1, <2>3, SlotWritten DEF n
  <2>5. \A t \in Slots : g_windows'[t].buf = g_windows[t].buf /\ g_windows'[t].resizable = g_windows[t].resizable
    BY <2>3, <2>4
  <2>6. Buffers' /\ Windows' /\ FlagsAgree'
    BY <1>1, <1>7, <2>4, <2>5, CallsStay, BuffersKept, WindowsKept, FlagsKept
  <2>7. Shapes'
    BY <1>1, <1>2, <1>4, <1>7, <2>4, ShapesNext DEF IInv, Shapes
  <2>8. QED
    BY <1>3, <1>4, <2>4, <2>6, <2>7 DEF IInv, ServiceInv
<1>8. ASSUME s # 0, NEW b \in Bufs \ heap,
             heap' = (heap \ {g.buf}) \cup {b},
             g_windows' = [g_windows EXCEPT ![s] = Deliver(Resized(g, b), kind)]
      PROVE  IInv'
  <2> DEFINE n == Deliver(Resized(g, b), kind)
             c == [g EXCEPT !.buf = b]
  <2>1. s \in Slots /\ g.used = 1 /\ SlotOK(g) /\ g \in SlotType /\ g.buf \in Bufs
    BY <1>6, <1>8
  <2>2. EventsOnly(c, n)
    BY <1>2, <2>1, ResizedOK
  <2>3. /\ c.used = 1 /\ c.buf = b /\ c.handle = g.handle /\ c.owner = g.owner /\ c.win = g.win
        /\ c.resizable = g.resizable
    BY <2>1 DEF SlotType
  <2> HIDE DEF n, s, kind, c
  <2>4. /\ SlotOK(n) /\ n.used = 1 /\ n.buf = b /\ n.buf # 0 /\ n.handle = g.handle
        /\ n.owner = g.owner /\ n.win = g.win /\ n.resizable = g.resizable
    BY <2>2, <2>3, GuiAssumption DEF EventsOnly
  <2>5. /\ g_windows' \in [Slots -> SlotType] /\ g_windows'[s] = n
        /\ \A t \in Slots \ {s} : g_windows'[t] = g_windows[t]
        /\ \A t \in Slots : g_windows'[t].used = g_windows[t].used /\ g_windows'[t].win = g_windows[t].win
        /\ HandlesFresh' /\ SlotsFilled' /\ Reservations' /\ EventsAreOwn'
    BY <1>1, <1>8, <2>1, <2>4, SlotWritten DEF n
  <2>6. Windows' /\ FlagsAgree'
    <3>1. \A t \in Slots : g_windows'[t].resizable = g_windows[t].resizable
      BY <2>4, <2>5
    <3>2. QED
      BY <1>1, <2>5, <3>1, CallsStay, WindowsKept, FlagsKept
  <2>7. Shapes'
    <3>1. heap' \subseteq Bufs
      BY <1>8 DEF IInv, Shapes
    <3>2. QED
      BY <1>1, <1>2, <1>4, <2>5, <3>1, ShapesNext DEF IInv, Shapes
  <2>8. Buffers'
    <3>1. \A q \in Pids : Freeing(q)' <=> Freeing(q)
      BY <1>1, CallsStay
    <3>2. \A t \in Slots : g_windows'[t].used = 1 => g_windows'[t].buf \in heap'
      BY <1>8, <2>1, <2>4, <2>5 DEF IInv, ServiceInv, Buffers
    <3>3. \A q \in Pids : Freeing(q)' => loc'[q].buf \in heap'
      BY <1>1, <1>8, <2>1, <3>1 DEF IInv, ServiceInv, Buffers
    <3>4. ASSUME NEW d \in heap'
          PROVE  \/ \E t \in Slots : g_windows'[t].used = 1 /\ g_windows'[t].buf = d
                 \/ \E q \in Pids : Freeing(q)' /\ loc'[q].buf = d
      <4>1. CASE d = b
        BY <2>1, <2>4, <2>5, <4>1
      <4>2. CASE d # b
        BY <1>1, <1>8, <2>5, <3>1, <4>2 DEF IInv, ServiceInv, Buffers
      <4>3. QED
        BY <4>1, <4>2
    <3>5. \A t, u \in Slots : g_windows'[t].used = 1 /\ g_windows'[u].used = 1 /\ g_windows'[t].buf = g_windows'[u].buf
            => t = u
      BY <1>8, <2>4, <2>5 DEF IInv, ServiceInv, Buffers
    <3>6. \A q, o \in Pids : Freeing(q)' /\ Freeing(o)' /\ loc'[q].buf = loc'[o].buf => q = o
      BY <1>1, <3>1 DEF IInv, ServiceInv, Buffers
    <3>7. \A t \in Slots, q \in Pids : g_windows'[t].used = 1 /\ Freeing(q)' => g_windows'[t].buf # loc'[q].buf
      BY <1>1, <1>8, <2>4, <2>5, <3>1 DEF IInv, ServiceInv, Buffers
    <3>8. QED
      BY <3>2, <3>3, <3>4, <3>5, <3>6, <3>7 DEF Buffers
  <2>9. QED
    BY <1>3, <1>4, <2>5, <2>6, <2>7, <2>8 DEF IInv, ServiceInv
<1>9. QED
  BY <1>1, <1>5, <1>7, <1>8

-----------------------------------------------------------------------------
(* The invariant holds throughout. *)

\* gui_srv_init and wm_init establish it.
LEMMA InitKeeps == Init => IInv
<1> SUFFICES ASSUME Init PROVE IInv
  OBVIOUS
<1>1. EmptySlot \in SlotType
  <2>1. <<>> \in Seq([id : Kinds, window : Nat])
    OBVIOUS
  <2>2. QED
    BY <2>1 DEF EmptySlot, SlotType
<1>2. EmptyWin \in WinType /\ EmptyWin.used = FALSE
  BY DEF EmptyWin, WinType
<1>3. DeskIdle \in DeskType /\ DeskIdle.win = 0 /\ DeskIdle.close = FALSE
  <2>1. <<>> \in Seq(Kinds)
    OBVIOUS
  <2>2. QED
    BY <2>1 DEF DeskIdle, DeskType
<1>4. \A s \in Slots : /\ g_windows[s].used = 0 /\ g_windows[s].handle = 0 /\ g_windows[s].owner = NoOne
                       /\ g_windows[s].win = 0 /\ g_windows[s].buf = 0 /\ g_windows[s].events = <<>>
  BY DEF Init, EmptySlot
<1>5. \A p \in Pids : alive[p] = "live" /\ pc[p] = "idle" /\ loc[p] = NoLocals
  BY DEF Init
<1>6. \A w : ~InList(zlist, w)
  BY DEF Init, InList
<1>7. WmOK(Wm)
  <2>1. Wm \in WmType
    BY <1>2 DEF Init, Wm, WmType
  <2>2. Wm.z = <<>> /\ Wm.drag = 0 /\ Wm.resize = 0 /\ Wm.wins = wins
    BY DEF Init, Wm
  <2>3. \A w \in Wins : ~wins[w].used
    BY <1>2 DEF Init
  <2>4. QED
    BY <1>6, <2>1, <2>2, <2>3 DEF WmOK, Once, Init
<1>8. Shapes
  BY <1>1, <1>3, <1>7, NoLocalsType DEF Shapes, Init, WmOK, Calling
<1>9. HandlesFresh
  <2>1. Creating = {}
    BY <1>5 DEF Creating
  <2>2. Cardinality(Creating) = 0
    BY <2>1, FS_EmptySet
  <2>3. QED
    BY <1>4, <2>2, GuiAssumption DEF HandlesFresh, Init
<1>10. SlotsFilled
  <2>1. Len(<<>>) <= EVENT_Q
    BY GuiAssumption
  <2>2. QED
    BY <1>4, <2>1 DEF SlotsFilled
<1>11. Reservations /\ Buffers /\ EventsAreOwn
  BY <1>4, <1>5 DEF Init, Reservations, Buffers, EventsAreOwn, Reserving, Flagging, Freeing
<1>12. Windows /\ FlagsAgree
  BY <1>4, <1>5 DEF Windows, FlagsAgree, Holding, At
<1>13. DeskSound
  BY <1>3 DEF DeskSound, Init
<1>14. QED
  BY <1>7, <1>8, <1>9, <1>10, <1>11, <1>12, <1>13 DEF IInv, ServiceInv

\* A close click is answered in one step only, which takes no window in use.
LEMMA ClickElsewhere ==
  ASSUME UNCHANGED desk \/ desk = DeskIdle
  PROVE  ClickSpares
<1>1. DeskIdle.close = FALSE
  BY DEF DeskIdle
<1>2. desk.close => desk # DeskIdle
  BY <1>1, Zenon
<1>3. QED
  BY <1>2 DEF ClickSpares

\* Every step of an application keeps the invariant.
LEMMA ProcessStep ==
  ASSUME IInv, NoRaces, NEW p \in Pids,
         Create(p) \/ Destroy(p) \/ Calls(p) \/ Die(p) \/ Reap(p)
  PROVE  IInv' /\ ClickSpares
<1>1. CASE CreateReserve(p)
  BY <1>1, CreateReserveStep, ClickElsewhere DEF CreateReserve
<1>2. CASE CreateScan(p)
  BY <1>2, CreateScanStep, ClickElsewhere DEF CreateScan
<1>3. CASE CreateNoWindow(p)
  BY <1>3, CreateNoWindowStep, ClickElsewhere DEF CreateNoWindow
<1>4. CASE CreateWindow(p)
  BY <1>4, CreateWindowStep, ClickElsewhere DEF CreateWindow
<1>5. CASE CreatePublish(p)
  BY <1>5, CreatePublishStep, ClickElsewhere DEF CreatePublish
<1>6. CASE CreateNoMemory(p)
  BY <1>6, CreateNoMemoryStep, ClickElsewhere DEF CreateNoMemory
<1>7. CASE CreateUndo(p)
  BY <1>7, CreateUndoStep, ClickElsewhere DEF CreateUndo
<1>8. CASE CreateFlags(p)
  BY <1>8, CreateFlagsStep, ClickElsewhere DEF CreateFlags
<1>9. CASE DestroyWindow(p)
  BY <1>9, DestroyWindowStep, ClickElsewhere DEF DestroyWindow
<1>10. CASE DestroyFree(p)
  BY <1>10, DestroyFreeStep, ClickElsewhere DEF DestroyFree
<1>11. ASSUME NEW h \in Handles, DestroyDetach(p, h) PROVE IInv' /\ ClickSpares
  BY <1>11, DestroyDetachStep, ClickElsewhere DEF DestroyDetach
<1>12. ASSUME NEW h \in Handles, GetEvent(p, h) PROVE IInv' /\ ClickSpares
  BY <1>12, GetEventStep, ClickElsewhere DEF GetEvent
<1>13. ASSUME NEW h \in Handles, NEW r \in BOOLEAN, SetResizable(p, h, r) PROVE IInv' /\ ClickSpares
  BY <1>13, SetResizableStep, ClickElsewhere DEF SetResizable
<1>14. CASE Die(p)
  BY <1>14, DieStep, ClickElsewhere DEF Die
<1>15. CASE Reap(p)
  BY <1>15, ReapStepKeeps, ClickElsewhere DEF Reap
<1>16. CASE Create(p)
  BY <1>1, <1>2, <1>3, <1>4, <1>5, <1>6, <1>7, <1>8, <1>16 DEF Create
<1>17. CASE Destroy(p)
  BY <1>9, <1>10, <1>11, <1>17 DEF Destroy
<1>18. CASE Calls(p)
  BY <1>12, <1>13, <1>18 DEF Calls
<1>19. QED
  BY <1>14, <1>15, <1>16, <1>17, <1>18

\* Every step of the desktop does.
LEMMA DesktopStep ==
  ASSUME IInv, NoRaces, Desktop
  PROVE  IInv' /\ ClickSpares
<1>1. CASE LaunchApp
  BY <1>1, LaunchAppStep, ClickElsewhere DEF LaunchApp
<1>2. CASE DeskDispatch
  <2>1. ClickSpares
    BY <1>2, DispatchLeft DEF ClickSpares
  <2>2. QED
    BY <1>2, <2>1, DeskDispatchStep
<1>3. CASE DeskAutoClose
  BY <1>3, DeskAutoCloseStep
<1>4. ASSUME NEW k \in {"key", "keyup"}, Key(k) PROVE IInv' /\ ClickSpares
  BY <1>4, KeyStep, ClickElsewhere DEF Key, Idle
<1>5. ASSUME NEW b \in Presses, MouseResizes(b) PROVE IInv' /\ ClickSpares
  BY <1>5, MouseResizesStep, ClickElsewhere DEF MouseResizes, Mouse, Idle
<1>6. ASSUME NEW b \in Presses, MouseDrags(b) PROVE IInv' /\ ClickSpares
  BY <1>6, MouseDragsStep, ClickElsewhere DEF MouseDrags, Mouse, Idle
<1>7. ASSUME NEW b \in Presses, NEW w \in Wins, NEW part \in Parts, MousePress(b, w, part)
      PROVE  IInv' /\ ClickSpares
  <2>1. desk = DeskIdle
    BY <1>7 DEF MousePress, Mouse, Idle
  <2>2. QED
    BY <1>7, <2>1, MousePressStep, ClickElsewhere
<1>8. ASSUME NEW b \in Presses, NEW w \in Wins \cup {0}, MouseElse(b, w) PROVE IInv' /\ ClickSpares
  BY <1>8, MouseElseStep, ClickElsewhere DEF MouseElse, Mouse, Idle
<1>9. QED
  BY <1>1, <1>2, <1>3, <1>4, <1>5, <1>6, <1>7, <1>8 DEF Desktop

\* A step that changes nothing does.
LEMMA StutterStep ==
  ASSUME IInv, UNCHANGED vars
  PROVE  IInv' /\ ClickSpares
<1>1. UNCHANGED <<g_windows, g_next_handle, wins, zlist, drag_win, resize_win, prev_buttons, heap,
                  alive, pc, loc, desk>>
  BY DEF vars
<1>2. Wm' = Wm /\ WmOK(Wm')
  BY <1>1, WmSame DEF IInv
<1>3. WmLess(Wm, Wm', {})
  BY <1>2, LessNone
<1>4. DeskSound'
  BY <1>1 DEF IInv, DeskSound, Fresh
<1>5. prev_buttons' \subseteq {"L", "R"} /\ desk' \in DeskType
  BY <1>1 DEF IInv, Shapes
<1>6. QED
  BY <1>1, <1>2, <1>3, <1>4, <1>5, QuietStep, ClickElsewhere

LEMMA NextKeeps ==
  ASSUME IInv, NoRaces, [Next]_vars
  PROVE  IInv' /\ ClickSpares
<1>1. CASE Desktop
  BY <1>1, DesktopStep
<1>2. ASSUME NEW p \in Pids, Create(p) \/ Destroy(p) \/ Calls(p) \/ Die(p) \/ Reap(p)
      PROVE  IInv' /\ ClickSpares
  BY <1>2, ProcessStep
<1>3. CASE UNCHANGED vars
  BY <1>3, StutterStep
<1>4. QED
  BY <1>1, <1>2, <1>3 DEF Next

-----------------------------------------------------------------------------
(* What it says of the system. *)

LEMMA ServiceFollows == IInv => ServiceSound
<1> SUFFICES ASSUME IInv PROVE ServiceSound
  OBVIOUS
<1>1. \A s \in Slots : g_windows[s].used = 1 => g_windows[s].handle # 0 /\ g_windows[s].win \in Wins
  BY SlotFields DEF IInv, ServiceInv, SlotsFilled
<1>2. SlotWindowLives
  BY <1>1 DEF SlotWindowLives, IInv, ServiceInv, HandlesFresh, Windows, Theirs
<1>3. ReservationHeld
  <2>1. \A p \in Creating : p \in Pids /\ Reserving(p)
    BY DEF Creating, Reserving
  <2>2. QED
    BY <2>1 DEF ReservationHeld, IInv, ServiceInv, Reservations
<1>4. ServiceConsistent
  BY <1>2, <1>3 DEF ServiceConsistent, IInv, ServiceInv
<1>5. PixelsOwned
  <2>1. 0 \notin heap
    BY GuiAssumption DEF IInv, Shapes
  <2>2. \A b : b \in heap => \/ \E s \in Slots : g_windows[s].used = 1 /\ g_windows[s].buf = b
                             \/ \E p \in Pids : Freeing(p) /\ loc[p].buf = b
    BY DEF IInv, ServiceInv, Buffers
  <2>3. \A s \in Slots : g_windows[s].used = 1 => g_windows[s].buf \in heap
    BY DEF IInv, ServiceInv, Buffers
  <2>4. \A p \in Pids : Freeing(p) => loc[p].buf \in heap
    BY DEF IInv, ServiceInv, Buffers
  <2>5. heap = {g_windows[s].buf : s \in {t \in Slots : g_windows[t].used = 1}}
               \cup ({loc[p].buf : p \in {q \in Pids : pc[q] \in {"detached", "unmade"}}} \ {0})
    BY <2>1, <2>2, <2>3, <2>4 DEF Freeing
  <2>6. QED
    BY <2>3, <2>5 DEF PixelsOwned, IInv, ServiceInv, Buffers
<1>6. ReapedOwnNothing
  BY DEF ReapedOwnNothing, IInv, ServiceInv, SlotsFilled
<1>7. QED
  BY <1>4, <1>5, <1>6 DEF ServiceSound

LEMMA StackingFollows == IInv => StackingSound
<1> SUFFICES ASSUME IInv PROVE StackingSound
  OBVIOUS
<1>1. \A w \in Wins : wins[w].used \in BOOLEAN /\ wins[w].active \in BOOLEAN
  BY Typed DEF IInv, WinType
<1>2. ZOrderComplete
  <2>1. \A w \in Wins : wins[w].used = InList(zlist, w)
    <3>1. \A w \in Wins : InList(zlist, w) \in BOOLEAN
      BY DEF InList
    <3>2. \A w \in Wins : wins[w].used <=> InList(zlist, w)
      BY DEF IInv, WmOK, Wm
    <3>3. QED
      BY <1>1, <3>1, <3>2
  <2>2. QED
    BY <2>1 DEF ZOrderComplete, IInv, WmOK, Once, Wm
<1>3. ActiveIsTop
  <2>1. \A w \in Wins : InList(zlist, w) => (wins[w].active <=> w = Top(zlist))
    BY DEF IInv, WmOK, Wm
  <2>2. QED
    BY <1>1, <2>1 DEF ActiveIsTop
<1>4. InteractionLives
  BY DEF InteractionLives, IInv, WmOK, Wm
<1>5. TypeOK
  <2>1. g_next_handle \in 1..(MaxHandle + 1)
    BY CreatingFinite, GuiAssumption DEF IInv, ServiceInv, HandlesFresh, Shapes
  <2>2. \A s \in Slots : g_windows[s].handle \in 0..MaxHandle
    BY <2>1, SlotFields, GuiAssumption DEF IInv, ServiceInv, HandlesFresh, SlotType
  <2>3. \A s \in Slots : Len(g_windows[s].events) <= EVENT_Q
    BY DEF IInv, ServiceInv, SlotsFilled
  <2>4. \A s \in Slots : \A i \in DOMAIN g_windows[s].events : g_windows[s].events[i].id \in Kinds
    <3>1. SUFFICES ASSUME NEW s \in Slots, NEW i \in DOMAIN g_windows[s].events
                   PROVE  g_windows[s].events[i].id \in Kinds
      OBVIOUS
    <3>2. g_windows[s].events \in Seq([id : Kinds, window : Nat])
      BY SlotFields DEF SlotType
    <3>3. ASSUME NEW e \in Seq([id : Kinds, window : Nat]), NEW j \in DOMAIN e
          PROVE  e[j].id \in Kinds
      <4>1. e[j] \in [id : Kinds, window : Nat]
        <5>1. j \in 1..Len(e)
          OBVIOUS
        <5>2. QED
          BY <5>1, ElementOfSeq, Zenon
      <4>2. QED
        BY <4>1
    <3>4. QED
      BY <3>2, <3>3
  <2>5. \A s \in Slots : LET g == g_windows[s] IN
          /\ g.used \in 0..2 /\ g.owner \in Pids \cup {NoOne}
          /\ g.win \in Wins \cup {0} /\ g.buf \in Bufs \cup {0}
          /\ g.resizable \in BOOLEAN /\ g.close \in BOOLEAN
    BY SlotFields DEF SlotType
  <2>6. /\ wins \in [Wins -> WinType] /\ zlist \in Seq(Wins)
        /\ drag_win \in Wins \cup {0} /\ resize_win \in Wins \cup {0}
        /\ prev_buttons \subseteq {"L", "R"} /\ heap \subseteq Bufs
        /\ alive \in [Pids -> {"live", "zombie", "gone"}] /\ pc \in [Pids -> Calling]
    BY Typed DEF IInv, Shapes
  <2>7. QED
    BY <2>1, <2>2, <2>3, <2>4, <2>5, <2>6 DEF TypeOK, WinType, Calling
<1>6. QED
  BY <1>2, <1>3, <1>4, <1>5 DEF StackingSound, FocusConsistent

\* Of gui_srv_window_create, _destroy and gui_srv_process_cleanup, interleaved at
\* every point where g_gui_lock is dropped and cut short wherever their process
\* is killed: a window an application was given exists and is nobody else's, a
\* reserved slot is its creator's, a window's events and flags are its own, no
\* pixels leak or are freed in use, and a reaped process owns no window.
THEOREM ServiceAlwaysSound ==
  ASSUME NoRaces
  PROVE  Spec => []ServiceSound
<1>1. IInv /\ [Next]_vars => IInv'
  BY NextKeeps
<1>2. QED
  BY <1>1, InitKeeps, ServiceFollows, PTL DEF Spec

\* Of wm_create_window, wm_destroy_window and wm_bring_to_front, called by the
\* service, the reaper and the desktop: the z-order lists exactly the windows of
\* the pool, the top one has the focus, and a drag or a resize in progress is of
\* a window that exists.
THEOREM StackingAlwaysSound ==
  ASSUME NoRaces
  PROVE  Spec => []StackingSound
<1>1. IInv /\ [Next]_vars => IInv'
  BY NextKeeps
<1>2. QED
  BY <1>1, InitKeeps, StackingFollows, PTL DEF Spec

\* Of wm_handle_mouse's close click on a window whose close policy has been set
\* and that does not die before the click is dealt with (what NoRaces says): the
\* click destroys no window that a live application has.  Outside those two
\* conditions it may: "fresh" and "dangle" are the counterexamples' names.
THEOREM ClicksSpareOwned ==
  ASSUME NoRaces
  PROVE  Spec => OnlyOwnerCloses
<1>1. IInv /\ [Next]_vars => IInv' /\ ClickSpares
  BY NextKeeps
<1>2. QED
  BY <1>1, InitKeeps, PTL DEF Spec, OnlyOwnerCloses
=============================================================================
