-------------------------------- MODULE Vmm --------------------------------
(***************************************************************************)
(* Address spaces: the page tables of mm/vmm_x64.c and their owners of     *)
(* mm/vm_space.c.  A table is a frame that maps indexes to entries; four   *)
(* levels of them lead from a PML4 to a page.  The upper half of the first *)
(* level is the kernel's: every new PML4 copies the entries, so that the   *)
(* tables below are the same for all.  The processor keeps translations it *)
(* has used (tlb) until it is told to forget them.                         *)
(*                                                                         *)
(* A process created by another shares its PML4, and nothing locks it: a   *)
(* call that maps, unmaps or protects may be preempted between its reads   *)
(* and its writes of the tables, and other processes make calls on the     *)
(* same tables meanwhile.  Creating and reaping a process happen with      *)
(* interrupts off, whole.  vmm_map_io_region is whole too: one process at  *)
(* a time calls it, and it writes only tables no other call writes.        *)
(*                                                                         *)
(* A virtual page number has one index bit at the levels 4, 2 and 1.  Huge *)
(* pages of the boot loader's kernel half are left out: the walk does not  *)
(* know them.                                                              *)
(***************************************************************************)
EXTENDS Integers, Sequences, FiniteSets, SequencesExt, FiniteSetsExt

CONSTANTS
  Spaces,        \* the processes' vm_space_t's
  Boot,          \* that of the first process, which is never reaped
  TableFrames,   \* frames for tables, 1..n; the first four hold the kernel's at boot
  PhysPages,     \* physical pages that are mapped (segments begin there)
  UserPages,     \* PAGING_USER_VA_MIN..PAGING_USER_VA_MAX
  KernelPages,   \* PAGING_KERNEL_VA_MIN..PAGING_KERNEL_VA_MAX
  HHDM,          \* page at which physical page 0 appears
  MaxMade,       \* bound: processes made
  Loads,         \* bounds of a behaviour: the ranges <<first, pages>> that are mapped,
                 \* the ways processes are made, the device memory mapped
                 \* (first byte and length), and the
                 \* frames pmm has
  PAGE,          \* bytes in a page
  WORD           \* addresses are numbers below 2^WORD

VARIABLES
  tables,   \* contents of each table
  free,     \* frames pmm has left
  spaces,   \* the vm_space_t's
  maps,     \* the ranges <<first, pages>> each process has on record as its own
  call,     \* the call each process is in
  cur,      \* the process that runs
  tlb,      \* the translations the processor keeps
  lost,     \* history: tables nothing points to any more, [frame, level]
  raced,    \* history: a call has written over what came in after it looked, or a
            \* dead process's record has unmapped another's pages
  made,     \* how many processes have been made
  shown,    \* what each process finds at its pages, between its calls
  shared,   \* what the processor finds at the kernel's
  load      \* the member of Loads of this behaviour
mvars == <<tables, free, spaces, maps, call, cur, tlb, lost, raced, made, shown, shared, load>>

Index == 0..1
NoEntry == [phys |-> -1, user |-> FALSE, wr |-> FALSE]
Entry(phys, user, wr) == [phys |-> phys, user |-> user, wr |-> wr]
Zeroed == [i \in Index |-> NoEntry]
KernelPml4 == 1
NoSpace == [pml4 |-> 0, mapped |-> 0, owns_pml4 |-> FALSE]
NoCall == [op |-> "none"]

Everyone == Spaces \cup {Boot}
Live == {s \in Everyone : spaces[s].pml4 # 0}
cr3 == spaces[cur].pml4
Span(from, n) == from..(from + n - 1)
Held(s) == UNION {Span(r[1], r[2]) : r \in maps[s]}

IndexAt(level, va) ==
  CASE level = 4 -> va \div 4 [] level = 3 -> 0 [] level = 2 -> (va \div 2) % 2 [] level = 1 -> va % 2

\* External: what the processor finds at a page, walking the tables t itself: a
\* user's page must be so at every level.
Absent == [phys |-> -1, wr |-> FALSE]
Walked(t, pml4, va) ==
  LET e4 == t[pml4][IndexAt(4, va)]
      e3 == t[e4.phys][IndexAt(3, va)]
      e2 == t[e3.phys][IndexAt(2, va)]
      e1 == t[e2.phys][IndexAt(1, va)]
  IN  IF e4 = NoEntry THEN Absent
      ELSE IF e3 = NoEntry THEN Absent
      ELSE IF e2 = NoEntry THEN Absent
      ELSE IF e1 = NoEntry THEN Absent
      ELSE IF va \in UserPages /\ ~(e4.user /\ e3.user /\ e2.user /\ e1.user) THEN Absent
      ELSE [phys |-> e1.phys, wr |-> e4.wr /\ e3.wr /\ e2.wr /\ e1.wr]
Shown(t, pml4, pages) == [va \in pages |-> Walked(t, pml4, va)]
Nothing == [va \in UserPages |-> Absent]

\* The boot loader's kernel half reaches down to the table of its first two pages.
Init ==
  /\ tables = [f \in TableFrames |->
                 CASE f = 1 -> [Zeroed EXCEPT ![1] = Entry(2, FALSE, TRUE)]
                   [] f = 2 -> [Zeroed EXCEPT ![0] = Entry(3, FALSE, TRUE)]
                   [] f = 3 -> [Zeroed EXCEPT ![0] = Entry(4, FALSE, TRUE)]
                   [] f = 4 -> [Zeroed EXCEPT ![0] = Entry(0, FALSE, TRUE)]
                   [] OTHER -> Zeroed]
  /\ load \in Loads
  /\ free = 5..load.frames
  /\ spaces = [s \in Everyone |-> IF s = Boot THEN [NoSpace EXCEPT !.pml4 = KernelPml4] ELSE NoSpace]
  /\ maps = [s \in Everyone |-> {}]
  /\ call = [s \in Everyone |-> NoCall]
  /\ cur = Boot
  /\ tlb = {} /\ lost = {} /\ raced = FALSE /\ made = 0
  /\ shown = [s \in Everyone |-> Nothing]
  /\ shared = Shown(tables, KernelPml4, KernelPages)

----------------------------------------------------------------------------
(* Walking *)

\* walk_to_pt as far as entries lead: from the table `at' of a level down to the
\* last table (end "pt"), to an entry that is missing, or to one that is not the
\* user's on a user's walk.
Descend(t, w, level, va, user) ==
  LET e == t[w.at][IndexAt(level, va)]
  IN  IF w.end # "pt" \/ level > w.level THEN w
      ELSE IF e = NoEntry THEN [w EXCEPT !.end = "missing"]
      ELSE IF user /\ ~e.user THEN [w EXCEPT !.end = "refused"]
      ELSE [w EXCEPT !.at = e.phys, !.level = level - 1]
walk(t, at, level, va, user) ==
  LET Down(w, l) == Descend(t, w, l, va, user)
  IN  FoldLeft(Down, [at |-> at, level |-> level, end |-> "pt"], <<4, 3, 2>>)

\* vmm_query_page: the entry of a page, NoEntry when there is none.
vmm_query_page(t, pml4, va) ==
  LET w == walk(t, pml4, 4, va, va \in UserPages)
  IN  IF w.end = "pt" THEN t[w.at][IndexAt(1, va)] ELSE NoEntry

Write(t, at, level, va, e) == [t EXCEPT ![at][IndexAt(level, va)] = e]

\* vmm_unmap_pages, undisturbed: all of the range is mapped, or none is touched.
vmm_unmap_pages(t, pml4, from, n) ==
  LET Clear(u, va) == Write(u, walk(u, pml4, 4, va, TRUE).at, 1, va, NoEntry)
  IN  IF \E va \in Span(from, n) : vmm_query_page(t, pml4, va) = NoEntry THEN t
      ELSE FoldLeft(Clear, t, [i \in 1..n |-> from + i - 1])

\* tlb_flush_range forgets the range, if the tables are those in use.
tlb_flush_range(pml4, vas) == IF pml4 = cr3 THEN {t \in tlb : t.va \notin vas} ELSE tlb

----------------------------------------------------------------------------
(* The calls of the running process *)

\* Only a range the process has not yet on record is mapped, and only one it has
\* is unmapped or protected (shm_attach, shm_detach).  An attachment is recorded
\* before it is mapped, and given up before it is unmapped.
Begin(op, from, n, phys, wr) ==
  LET r == <<from, n>>
  IN  /\ cur # Boot /\ call[cur] = NoCall /\ ~raced
      /\ Span(from, n) \subseteq UserPages
      /\ IF op = "map" THEN Span(from, n) \cap Held(cur) = {} ELSE r \in maps[cur]
      /\ maps' = [maps EXCEPT ![cur] = CASE op = "map" -> @ \cup {r}
                                         [] op = "unmap" -> @ \ {r}
                                         [] OTHER -> @]
      /\ call' = [call EXCEPT ![cur] =
           [op |-> op, from |-> from, n |-> n, phys |-> phys, wr |-> wr, i |-> 1,
            pc |-> IF op = "unmap" THEN "query" ELSE "walk",
            at |-> cr3, level |-> 4, new |-> 0, seen |-> NoEntry]]
      /\ UNCHANGED <<tables, free, spaces, cur, tlb, lost, raced, made>>
vm_space_map_user_pages(from, phys, n) == Begin("map", from, n, phys, TRUE)
vm_space_unmap_user_pages(from, n) == Begin("unmap", from, n, 0, FALSE)
vm_space_protect_user_pages(from, n) == Begin("protect", from, n, 0, FALSE)

Page(c) == c.from + c.i - 1
Continue(c) == call' = [call EXCEPT ![cur] = c]
At(c, pc) == [c EXCEPT !.pc = pc]
NextPage(c) == [c EXCEPT !.i = @ + 1, !.at = cr3, !.level = 4, !.new = 0, !.seen = NoEntry]

\* The call fails.  One that was mapping unmaps the pages before; a protect leaves
\* those before as they are, and the processor is not told.
Failed(c) ==
  IF c.op = "map" /\ c.i > 1
  THEN [NextPage(c) EXCEPT !.op = "undo", !.n = c.i - 1, !.i = 1, !.pc = "query"]
  ELSE [c EXCEPT !.pc = "failed"]

\* A fault: what is there already is mapped over.
Leaf_over(c, e) == [c EXCEPT !.pc = "set", !.seen = e]
\* The last table's entry: a page to map must be missing, one to protect present.
Leaf(c, e) ==
  IF (c.op = "map" /\ e # NoEntry) \/ (c.op = "protect" /\ e = NoEntry) THEN Failed(c)
  ELSE [c EXCEPT !.pc = "set", !.seen = e]

\* walk_to_pt reads entries, down to the page's or to one that is missing; there a
\* map takes a frame, and zeroes it.  A walk that fails leaves what it has made.
Walk ==
  LET c == call[cur]
      w == walk(tables, c.at, c.level, Page(c), TRUE)
      here == [c EXCEPT !.at = w.at, !.level = w.level]
      f == Min(free)
  IN  /\ c.op # "none" /\ c.pc = "walk"
      /\ IF w.end = "pt"
         THEN Continue(Leaf(here, tables[w.at][IndexAt(1, Page(c))])) /\ UNCHANGED <<tables, free>>
         ELSE IF w.end = "missing" /\ c.op = "map" /\ free # {}
         THEN /\ Continue([here EXCEPT !.new = f, !.pc = "store"])
              /\ free' = free \ {f} /\ tables' = [tables EXCEPT ![f] = Zeroed]
         ELSE Continue(Failed(here)) /\ UNCHANGED <<tables, free>>
      /\ UNCHANGED <<spaces, maps, cur, tlb, lost, raced, made>>

\* walk_to_pt stores the new table in the entry it found missing, whatever is there
\* by now.
Store ==
  LET c == call[cur]
      old == tables[c.at][IndexAt(c.level, Page(c))]
  IN  /\ c.op # "none" /\ c.pc = "store"
      /\ tables' = Write(tables, c.at, c.level, Page(c), Entry(c.new, TRUE, TRUE))
      /\ Continue([c EXCEPT !.pc = "walk", !.new = 0])
      /\ lost' = IF old = NoEntry THEN lost ELSE lost \cup {[frame |-> old.phys, level |-> c.level - 1]}
      /\ raced' = (raced \/ old # NoEntry)
      /\ UNCHANGED <<free, spaces, maps, cur, tlb, made>>

\* vmm_map_pages and vmm_protect_pages write the entry, vmm_unmap_pages clears it.
Written(c) ==
  CASE c.op = "map" -> Entry(c.phys + c.i - 1, TRUE, c.wr)
    [] c.op = "protect" -> [c.seen EXCEPT !.wr = c.wr]
    [] OTHER -> NoEntry
Set ==
  LET c == call[cur]  va == Page(c)
  IN  /\ c.op # "none" /\ c.pc = "set"
      /\ tables' = Write(tables, c.at, 1, va, Written(c))
      /\ Continue(IF c.i < c.n THEN At(NextPage(c), "walk") ELSE At(c, "flush"))
      /\ raced' = (raced \/ tables[c.at][IndexAt(1, va)] # c.seen)
      /\ UNCHANGED <<free, spaces, maps, cur, tlb, lost, made>>

\* vmm_unmap_pages first asks for every page of the range.
Query ==
  LET c == call[cur]
  IN  /\ c.op # "none" /\ c.pc = "query"
      /\ Continue(IF vmm_query_page(tables, cr3, Page(c)) = NoEntry THEN At(c, "failed")
                  ELSE IF c.i < c.n THEN NextPage(c) ELSE [NextPage(c) EXCEPT !.i = 1, !.pc = "walk"])
      /\ UNCHANGED <<tables, free, spaces, maps, cur, tlb, lost, raced, made>>

\* A fault: the translations are kept.
Flushed_keeps(c) == tlb
Flushed(c) == tlb_flush_range(cr3, Span(c.from, c.n))

\* The call returns: the processor is told, and the pages are counted.
Count(c, n) ==
  CASE c.op = "map" -> n + c.n
    [] c.op = "unmap" -> IF n > c.n THEN n - c.n ELSE 0
    [] OTHER -> n
Return ==
  LET c == call[cur]
      Undone == {r \in maps[cur] : c.op = "undo" /\ r[1] = c.from}
  IN  /\ c.op # "none" /\ c.pc = "flush"
      /\ Continue(NoCall)
      /\ tlb' = Flushed(c)
      /\ spaces' = [spaces EXCEPT ![cur].mapped = Count(c, @)]
      /\ maps' = [maps EXCEPT ![cur] = @ \ Undone]
      /\ UNCHANGED <<tables, free, cur, lost, raced, made>>
Fail ==
  LET c == call[cur]
      Undone == {r \in maps[cur] : c.op \in {"map", "undo"} /\ r[1] = c.from}
  IN  /\ c.op # "none" /\ c.pc = "failed"
      /\ Continue(NoCall)
      /\ maps' = [maps EXCEPT ![cur] = @ \ Undone]
      /\ UNCHANGED <<tables, free, spaces, cur, tlb, lost, raced, made>>

----------------------------------------------------------------------------
(* Creating, reaping, switching, devices *)

Made(s, way) ==
  /\ way \in load.ways /\ spaces[s].pml4 = 0 /\ ~raced
  /\ made < MaxMade /\ made' = made + 1
NotInCall == call[cur] = NoCall

\* create_kernel_process_locked: the new process has its parent's tables.
InheritSpace(s) ==
  /\ Made(s, "inherit") /\ NotInCall
  /\ spaces' = [spaces EXCEPT ![s] = [NoSpace EXCEPT !.pml4 = cr3]]
  /\ UNCHANGED <<tables, free, maps, call, cur, tlb, lost, raced>>

\* vm_space_create, vm_space_clone: an empty user half; the kernel's half of the
\* first level from the tables in use or those cloned.
NewSpace(s, from, way) ==
  LET f == Min(free)
  IN  /\ Made(s, way) /\ NotInCall /\ free # {}
      /\ free' = free \ {f}
      /\ tables' = [tables EXCEPT ![f] = [Zeroed EXCEPT ![1] = tables[from][1]]]
      /\ spaces' = [spaces EXCEPT ![s] = [pml4 |-> f, mapped |-> 0, owns_pml4 |-> TRUE]]
      /\ UNCHANGED <<maps, call, cur, tlb, lost, raced>>
vm_space_create(s) == NewSpace(s, cr3, "create")
vm_space_clone(s, src) == spaces[src].pml4 # 0 /\ NewSpace(s, spaces[src].pml4, "clone")

Kids(t, F) == {t[f][i].phys : f \in F, i \in Index} \ {-1}
\* The tables below one of a level, and it.
Below(t, f, level) ==
  LET k1 == Kids(t, {f})
  IN  {f} \cup (IF level >= 2 THEN k1 ELSE {}) \cup (IF level = 3 THEN Kids(t, k1) ELSE {})
\* The tables of a PML4's user half, at the three levels below the first.
OwnTables(t, pml4) ==
  LET top == t[pml4][0].phys IN IF top = -1 THEN {} ELSE Below(t, top, 3)

\* The tables vmm_destroy_address_space gives back.
Dropped(t, pml4) == OwnTables(t, pml4)

\* vmm_destroy_address_space refuses tables that are in use.
Refused(pml4) == pml4 = cr3

\* shm_process_cleanup, then vm_space_destroy: the ranges on record are unmapped;
\* tables that are the process's own are given back, unless the reaper uses them:
\* then they are lost, for the record is cleared all the same.  A frame a process
\* dead inside a call had in hand is lost, too, and a range it had recorded and not
\* mapped yet may be another's pages, which are then unmapped.  Not modelled: an owner dies before one that
\* shares its tables and does not run (in the kernel no process owns its tables).
Reap(s) ==
  LET p == spaces[s]
      Unmapped(t, r) == vmm_unmap_pages(t, p.pml4, r[1], r[2])
      clean == FoldLeft(Unmapped, tables, SetToSeq(maps[s]))
      gone == IF p.owns_pml4 /\ ~Refused(p.pml4) THEN Dropped(clean, p.pml4) \cup {p.pml4} ELSE {}
      hand == IF call[s] = NoCall THEN 0 ELSE call[s].new
  IN  /\ s \in Spaces \ {cur} /\ p.pml4 # 0 /\ NotInCall
      /\ gone # {} => \A t \in Live \ {s} : spaces[t].pml4 # p.pml4
      /\ free' = free \cup gone
      /\ tables' = [f \in TableFrames |-> IF f \in gone THEN Zeroed ELSE clean[f]]
      /\ tlb' = tlb_flush_range(p.pml4, Held(s))
      /\ lost' = lost \cup {[frame |-> hand, level |-> 1] : x \in {hand} \ {0}}
                      \cup {[frame |-> p.pml4, level |-> 4] : x \in IF p.owns_pml4 /\ gone = {} THEN {1} ELSE {}}
      /\ spaces' = [spaces EXCEPT ![s] = NoSpace]
      /\ maps' = [maps EXCEPT ![s] = {}]
      /\ call' = [call EXCEPT ![s] = NoCall]
      /\ raced' = (raced \/ call[s] # NoCall)
      /\ UNCHANGED <<cur, made>>

\* The scheduler goes to another process, wherever the running one is: writing CR3
\* forgets every translation.
vmm_switch_pml4(s) ==
  /\ s # cur /\ spaces[s].pml4 # 0
  /\ cur' = s /\ tlb' = {}
  /\ UNCHANGED <<tables, free, spaces, maps, call, lost, raced, made>>

\* vmm_map_pages of one kernel page, undisturbed: m is [ok, tables, free].
MapKernelPage(m, va, phys) ==
  LET Level(a, l) ==
        LET e == a.tables[a.at][IndexAt(l, va)]  f == Min(a.free)
        IN  IF ~a.ok THEN a
            ELSE IF e # NoEntry THEN [a EXCEPT !.at = e.phys]
            ELSE IF a.free = {} THEN [a EXCEPT !.ok = FALSE]
            ELSE [ok |-> TRUE, at |-> f, free |-> a.free \ {f},
                  tables |-> [Write(a.tables, a.at, l, va, Entry(f, FALSE, TRUE)) EXCEPT ![f] = Zeroed]]
      w == FoldLeft(Level, [ok |-> TRUE, at |-> cr3, free |-> m.free, tables |-> m.tables], <<4, 3, 2>>)
  IN  [ok |-> w.ok, free |-> w.free,
       tables |-> IF w.ok THEN Write(w.tables, w.at, 1, va, Entry(phys, FALSE, TRUE)) ELSE w.tables]

\* vmm_map_io_region: size bytes at base, where all memory appears.  What is mapped
\* there already will do when it is the same; a page that cannot be mapped ends it.
vmm_map_io_region(base, size) ==
  LET first == base \div PAGE
      n == ((base + size - 1) \div PAGE - first) + 1
      Step(m, i) ==
        LET pa == first + i - 1
            old == vmm_query_page(m.tables, cr3, HHDM + pa)
        IN  IF ~m.ok THEN m
            ELSE IF old # NoEntry THEN [m EXCEPT !.ok = (old.phys = pa)]
            ELSE MapKernelPage(m, HHDM + pa, pa)
      m == FoldLeft(Step, [ok |-> TRUE, tables |-> tables, free |-> free], [i \in 1..n |-> i])
  IN  /\ NotInCall
      /\ size > 0 /\ base + size - 1 < 2^WORD           \* the end does not wrap round
      /\ Span(HHDM + first, n) \subseteq KernelPages
      /\ tables' = m.tables /\ free' = m.free
      /\ UNCHANGED <<spaces, maps, call, cur, tlb, lost, raced, made>>

\* External: the processor uses a page and keeps the translation.
Touch(va) ==
  /\ NotInCall /\ va \in Held(cur)
  /\ \A t \in tlb : t.va # va
  /\ Walked(tables, cr3, va) # Absent
  /\ tlb' = tlb \cup {[va |-> va, at |-> Walked(tables, cr3, va)]}
  /\ UNCHANGED <<tables, free, spaces, maps, call, cur, lost, raced, made>>

Step ==
  \/ \E s \in Everyone : vmm_switch_pml4(s)
  \/ \E s \in Spaces : InheritSpace(s) \/ vm_space_create(s) \/ Reap(s)
  \/ \E s, src \in Spaces : vm_space_clone(s, src)
  \/ \E r \in load.ranges :
       \/ \E phys \in PhysPages : vm_space_map_user_pages(r[1], phys, r[2])
       \/ vm_space_protect_user_pages(r[1], r[2])
       \/ vm_space_unmap_user_pages(r[1], r[2])
  \/ Query \/ Walk \/ Store \/ Set \/ Return \/ Fail
  \/ \E r \in load.io : vmm_map_io_region(r[1], r[2])
  \/ \E va \in UserPages : Touch(va)

Next ==
  /\ Step /\ UNCHANGED load
  /\ shown' = [s \in Everyone |->
       IF call'[s] # NoCall THEN shown[s]
       ELSE [va \in UserPages |-> IF va \in Held(s)' THEN Walked(tables', spaces'[s].pml4, va) ELSE Absent]]
  /\ shared' = Shown(tables', KernelPml4, KernelPages)

Spec == Init /\ [][Next]_mvars

----------------------------------------------------------------------------
(* Properties *)

\* The processes' pages are as PageMap promises, whatever calls of processes on the
\* same tables overlap: a call changes the pages of its own process and only the range
\* it names, all of it or none, and what one process maps of a device is there for
\* all.  This holds until a call writes over what came in after it looked: a table of
\* walk_to_pt, a page of vmm_map_pages.
Promise == INSTANCE PageMap WITH
  Spaces <- Everyone, alive <- Live, user <- shown, kernel <- shared, KernelAt <- LAMBDA va : va - HHDM
ImplementsPageMap == Promise!PageInit /\ [][raced' \/ Promise!PageNext]_<<Live, shown, shared>>


\* Every translation the processor keeps is the one the tables in use give, but for
\* pages of the running process's own unfinished call: also after a protect that gave
\* up half way and did not flush, for what made it fail was another process, and the
\* switch to that one has flushed (tlb_flush_range, vmm_protect_pages).
TlbHonest ==
  \A t \in tlb :
    \/ t.at = Walked(tables, cr3, t.va)
    \/ ~NotInCall /\ t.va \in Span(call[cur].from, call[cur].n)
============================================================================
