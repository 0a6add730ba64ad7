------------------------------ MODULE Memory -------------------------------
(***************************************************************************)
(* The kernel's memory: the page bitmap of mm/pmm.c and, on pages taken    *)
(* from it, the heap of mm/heap.c over the blocks of mm/tlsf.c.            *)
(*                                                                         *)
(* kmalloc and kfree hold g_lock throughout, with interrupts on: another   *)
(* caller spins until they are done.  The page allocator takes no lock.    *)
(* A kmalloc that finds no block asks it for pages, as process creation    *)
(* and shared memory do for their own, and a call may be preempted between *)
(* finding a run of free frames and clearing their bits.                   *)
(***************************************************************************)
EXTENDS Tlsf, FiniteSetsExt

CONSTANTS
  Procs,            \* the processes that call
  Frames,           \* PMM_FRAME_COUNT
  PageCells,        \* cells in a page
  MemMap,           \* [base, end] of what the boot loader calls usable, in cells
  LowEnd,           \* where low memory ends (1 MiB)
  Loaded,           \* [base, end] of the kernel's image and the boot modules
  ControlCells,     \* cells of the control structure, in the heap's first page
  HEAP_INIT_PAGES,
  HEAP_GROW_PAGES,
  Sizes,            \* what is asked of kmalloc, in cells
  Runs,             \* what is asked of pmm_alloc_pages by others, in pages
  ExactFits,        \* TRUE: a request may meet a free block of just its size
  Preemptible       \* TRUE: a page call may be preempted by another one

NoOne == "none"

VARIABLES
  bitmap,           \* the frames whose bit says free
  pmm_free_frames,
  pmm_first_usable,
  tlsf,             \* *g_heap and the memory its pools are in
  g_allocated,      \* g_allocated_bytes, in cells
  lock,             \* the holder of g_lock, or NoOne
  pc, loc,          \* where each process is, and its request
  live,             \* [ptr, size] of what kmalloc has granted
  held,             \* [start, count] of the page runs granted to others
  pools,            \* [start, count] of the page runs in the heap
  freed             \* the last pointer given back

pmm  == <<bitmap, pmm_free_frames, pmm_first_usable>>
heap == <<tlsf, g_allocated, lock, live, pools, freed>>
vars == <<pmm, heap, pc, loc, held>>

Raw == [word |-> "raw"]             \* what nobody has written yet, or no longer needs
Magic == [word |-> "magic"]
Zero == [word |-> "zero"]
User == [word |-> "user"]
SizeWord(n) == [len |-> n]

Addr(f) == f * PageCells
Cells == 0..(Frames * PageCells - 1)
Run(start, count) == start..(start + count - 1)
Ceil(n, d) == (n + d - 1) \div d
AtLeast(a, b) == IF a < b THEN b ELSE a

-----------------------------------------------------------------------------
(* The page bitmap. *)

\* pmm_alloc_pages, first half: the first run of free frames from the hint on.
Scan(count) ==
  LET fits == {s \in pmm_first_usable..(Frames - count) : Run(s, count) \subseteq bitmap}
  IN  IF fits = {} THEN 0 ELSE Least(fits)

\* Faulty variant: the last bit of the run stays set.
Claim_short(start, count) ==
  /\ bitmap' = bitmap \ Run(start, count - 1)
  /\ pmm_free_frames' = IF pmm_free_frames >= count THEN pmm_free_frames - count ELSE 0
  /\ UNCHANGED pmm_first_usable

\* ... second half: its bits are cleared.
Claim(start, count) ==
  /\ bitmap' = bitmap \ Run(start, count)
  /\ pmm_free_frames' = IF pmm_free_frames >= count THEN pmm_free_frames - count ELSE 0
  /\ UNCHANGED pmm_first_usable

pmm_free_pages(start, count) ==
  /\ bitmap' = bitmap \cup (Run(start, count) \cap 0..(Frames - 1))
  /\ pmm_free_frames' = pmm_free_frames
       + Cardinality((Run(start, count) \cap 0..(Frames - 1)) \ bitmap)
  /\ pmm_first_usable' = IF start < pmm_first_usable THEN start ELSE pmm_first_usable

\* The frames a range of addresses touches, however little of them.
mark_region(r) ==
  IF r.end <= r.base THEN {} ELSE (r.base \div PageCells)..((r.end - 1) \div PageCells)

\* pmm_init: what the boot loader calls usable, but for low memory, the kernel and
\* the boot modules.
Usable ==
  {f \in 0..(Frames - 1) :
     /\ \E e \in MemMap : f \in mark_region(e)
     /\ f \notin mark_region([base |-> 0, end |-> LowEnd])
     /\ \A m \in Loaded : f \notin mark_region(m)}

\* Where heap_init's pages are: the first run that pmm_alloc_pages finds.
HeapStart == Least({s \in Usable : Run(s, HEAP_INIT_PAGES) \subseteq Usable})

ASSUME MemoryAssumption ==
  /\ NoOne \notin Procs
  /\ Frames \in Nat /\ PageCells \in Nat \ {0} /\ ControlCells \in Nat
  /\ HEAP_INIT_PAGES \in Nat \ {0} /\ HEAP_GROW_PAGES \in Nat \ {0}
  /\ LowEnd \in Nat \ {0}
  /\ MemMap \cup Loaded \subseteq [base : Nat, end : Nat]
  /\ \E s \in Usable : Run(s, HEAP_INIT_PAGES) \subseteq Usable      \* or heap_init fails
  /\ Sizes \subseteq Nat \ {0} /\ Runs \subseteq Nat \ {0}
  /\ ExactFits \in BOOLEAN /\ Preemptible \in BOOLEAN

-----------------------------------------------------------------------------
\* After pmm_init, with refresh_first_usable and recompute_free_frames at its end,
\* and heap_init.
Init ==
  /\ bitmap = Usable \ Run(HeapStart, HEAP_INIT_PAGES)
  /\ pmm_free_frames = Cardinality(Usable) - HEAP_INIT_PAGES
  /\ pmm_first_usable = Least(Usable)
  /\ tlsf = tlsf_create([a \in Cells |-> Raw], Addr(HeapStart) + ControlCells,
                        HEAP_INIT_PAGES * PageCells - ControlCells)
  /\ g_allocated = 0
  /\ lock = NoOne
  /\ pc = [p \in Procs |-> "out"]
  /\ loc = [p \in Procs |-> [want |-> 0, start |-> 0]]
  /\ live = {}
  /\ held = {}
  /\ pools = {[start |-> HeapStart, count |-> HEAP_INIT_PAGES]}
  /\ freed = NULL

MayCall(p) == pc[p] = "out" /\ (Preemptible \/ \A q \in Procs : pc[q] \notin {"claim", "grow_claim"})
Goto(p, at, want, start) ==
  /\ pc' = [pc EXCEPT ![p] = at]
  /\ loc' = [loc EXCEPT ![p] = [want |-> want, start |-> start]]
Return(p) == Goto(p, "out", 0, 0)

-----------------------------------------------------------------------------
(* kmalloc and kfree. *)

Request(size) == size + 2

\* What kmalloc writes in front of what it grants; its caller fills the rest.
Filled(m, ptr, size) ==
  [a \in Cells |-> IF a = ptr THEN Magic
                   ELSE IF a = ptr + 1 THEN SizeWord(size)
                   ELSE IF a \in (ptr + 2)..(ptr + 1 + size) THEN User ELSE m[a]]

Grant(r, size) ==
  /\ tlsf' = [r.t EXCEPT !.mem = Filled(@, r.ptr, size)]
  /\ g_allocated' = g_allocated + size
  /\ live' = live \cup {[ptr |-> r.ptr + 2, size |-> size]}

Fits(t, n) == LET b == find_suitable(t, AtLeast(n, BLOCK_MIN))
              IN  b # NULL => ExactFits \/ t.mem[b].size # AtLeast(n, BLOCK_MIN)

\* kmalloc, when the heap has a block for it, and when it has none.
Kmalloc(p, size) ==
  LET r == tlsf_malloc(tlsf, Request(size))
  IN  /\ MayCall(p) /\ lock = NoOne
      /\ Fits(tlsf, Request(size))
      /\ \/ /\ r.ptr # NULL
            /\ Grant(r, size)
            /\ UNCHANGED <<lock, pc, loc>>
         \/ /\ r.ptr = NULL
            /\ lock' = p
            /\ Goto(p, "grow", size, 0)
            /\ UNCHANGED <<tlsf, g_allocated, live>>
      /\ UNCHANGED <<pmm, held, pools, freed>>

\* The heap grows by at least HEAP_GROW_PAGES pages, or not at all.
GrowBy(size) == AtLeast(Ceil(Request(size), PageCells), HEAP_GROW_PAGES)
GrowScan(p) ==
  LET start == Scan(GrowBy(loc[p].want))
  IN  /\ pc[p] = "grow"
      /\ Preemptible \/ \A q \in Procs : pc[q] # "claim"
      /\ IF start = 0 THEN lock' = NoOne /\ Return(p)
                      ELSE Goto(p, "grow_claim", loc[p].want, start) /\ UNCHANGED lock
      /\ UNCHANGED <<pmm, tlsf, g_allocated, live, held, pools, freed>>

GrowClaim(p) ==
  LET size  == loc[p].want
      start == loc[p].start
      t1    == pool_add(tlsf, Addr(start), GrowBy(size) * PageCells)
      r     == tlsf_malloc(t1, Request(size))
  IN  /\ pc[p] = "grow_claim"
      /\ Fits(t1, Request(size))
      /\ Claim(start, GrowBy(size))
      /\ pools' = pools \cup {[start |-> start, count |-> GrowBy(size)]}
      /\ IF r.ptr # NULL THEN Grant(r, size)
                         ELSE tlsf' = t1 /\ UNCHANGED <<g_allocated, live>>
      /\ lock' = NoOne
      /\ Return(p)
      /\ UNCHANGED <<held, freed>>

\* kfree of ptr, whatever it is: only a block that carries the magic number is
\* given back, and loses it.
Kfree(p, ptr) ==
  LET hdr == ptr - 2
  IN  /\ MayCall(p) /\ lock = NoOne
      /\ IF tlsf.mem[hdr] = Magic
         THEN LET size == tlsf.mem[hdr + 1].len
              IN  /\ tlsf' = tlsf_free([tlsf EXCEPT !.mem[hdr] = Zero], hdr)
                  /\ g_allocated' = IF g_allocated >= size THEN g_allocated - size ELSE 0
         ELSE UNCHANGED <<tlsf, g_allocated>>
      /\ live' = {l \in live : l.ptr # ptr}
      /\ freed' = ptr
      /\ UNCHANGED <<pmm, lock, pools, pc, loc, held>>

\* Callers free what they were granted, and by mistake the last of it twice.
KfreeAny(p) == \E ptr \in {l.ptr : l \in live} \cup ({freed} \ {NULL}) : Kfree(p, ptr)

-----------------------------------------------------------------------------
(* Pages for stacks, page tables and shared memory. *)

PageScan(p, count) ==
  /\ MayCall(p)
  /\ Scan(count) # 0
  /\ Preemptible \/ \A q \in Procs : pc[q] # "grow_claim"
  /\ Goto(p, "claim", count, Scan(count))
  /\ UNCHANGED <<pmm, heap, held>>

PageClaim(p) ==
  /\ pc[p] = "claim"
  /\ Claim(loc[p].start, loc[p].want)
  /\ held' = held \cup {[start |-> loc[p].start, count |-> loc[p].want]}
  /\ Return(p)
  /\ UNCHANGED heap

PageFree(p) ==
  /\ MayCall(p)
  /\ \E h \in held : pmm_free_pages(h.start, h.count) /\ held' = held \ {h}
  /\ UNCHANGED <<heap, pc, loc>>

-----------------------------------------------------------------------------
Next ==
  \E p \in Procs :
    \/ \E size \in Sizes : Kmalloc(p, size)
    \/ GrowScan(p) \/ GrowClaim(p) \/ KfreeAny(p)
    \/ \E count \in Runs : PageScan(p, count)
    \/ PageClaim(p) \/ PageFree(p)

Spec == Init /\ [][Next]_vars

-----------------------------------------------------------------------------
(* Properties. *)

\* Walking a pool from block to block.
PoolStart(r) == Addr(r.start) + (IF r.start = HeapStart THEN ControlCells ELSE 0)
PoolEnd(r) == Addr(r.start + r.count) - 2
Walk(r) ==
  LET W[k \in 0..(r.count * PageCells)] ==
        IF k = 0 THEN [at |-> PoolStart(r), seen |-> {PoolStart(r)}]
        ELSE LET w    == W[k - 1]
                 next == w.at + 1 + tlsf.mem[w.at].size
             IN  IF next > PoolEnd(r) THEN w ELSE [at |-> next, seen |-> w.seen \cup {next}]
  IN  W[r.count * PageCells].seen
Blocks == UNION {Walk(r) : r \in pools}
FreeBlocks == {b \in Blocks : tlsf.mem[b].free}
NextOf(b) == b + 1 + tlsf.mem[b].size

\* The blocks of a pool lie end to end from its first cell to its sentinel.  A
\* free block has its address in its last cell, its neighbours are in use, and
\* exactly the block after it knows that it is free.
BlocksTile ==
  /\ \A r \in pools : PoolEnd(r) \in Walk(r) /\ tlsf.mem[PoolEnd(r)].size = 0
  /\ \A b \in Blocks \ {PoolEnd(r) : r \in pools} :
       /\ tlsf.mem[NextOf(b)].prev_free = tlsf.mem[b].free
       /\ tlsf.mem[b].free => /\ tlsf.mem[NextOf(b) - 1] = Pointer(b)
                              /\ ~tlsf.mem[NextOf(b)].free
                              /\ tlsf.mem[b].size >= BLOCK_MIN

\* Every free block is in the list of its size and in no other, the lists are
\* linked both ways, and the bitmaps name the lists that are not empty.
ListsExact ==
  /\ \A at \in Fls \X Sls :
       LET head == tlsf.free_lists[at]
           mine == {b \in FreeBlocks : mapping_insert(tlsf.mem[b].size) = at}
       IN  /\ (head = NULL) = (mine = {})
           /\ head # NULL => head \in mine /\ tlsf.mem[head + 1].ptr = NULL
           /\ \A b \in mine \ {head} : \E a \in mine : tlsf.mem[b + 1].ptr = a /\ tlsf.mem[a + 2].ptr = b
           /\ \A b \in mine : LET next == tlsf.mem[b + 2].ptr
                              IN  next # NULL => next \in mine /\ tlsf.mem[next + 1].ptr = b
           /\ (at[2] \in tlsf.sl_bitmap[at[1]]) = (mine # {})
  /\ tlsf.fl_bitmap = {f \in Fls : tlsf.sl_bitmap[f] # {}}

\* Together: the heap's own bookkeeping.
HeapConsistent == BlocksTile /\ ListsExact

\* What kmalloc granted is its owner's until it is freed: no other call writes
\* into it or gives it out again, whatever was split, joined or freed twice
\* around it, and the block it lies in is in use and large enough.
GrantsUnharmed ==
  \A l \in live :
    /\ tlsf.mem[l.ptr - 2] = Magic /\ tlsf.mem[l.ptr - 1] = SizeWord(l.size)
    /\ \A a \in l.ptr..(l.ptr + l.size - 1) : tlsf.mem[a] = User
    /\ \A k \in live \ {l} : l.ptr + l.size <= k.ptr - 2 \/ k.ptr + k.size <= l.ptr - 2
    /\ "size" \in DOMAIN tlsf.mem[l.ptr - 3]
    /\ ~tlsf.mem[l.ptr - 3].free /\ tlsf.mem[l.ptr - 3].size >= l.size + 2

\* Together, with g_allocated_bytes being what is granted: what kmalloc and kfree
\* owe their callers (mm/heap.c, mm/tlsf.c).
HeapSound ==
  /\ HeapConsistent /\ GrantsUnharmed
  /\ g_allocated = MapThenSumSet(LAMBDA l : l.size, live)

Owned(S) == UNION {Run(r.start, r.count) : r \in S}

\* No page is in two hands or in none, whoever of the heap and the callers of
\* pmm_alloc_pages asked for it, the count of free frames is exact, and the hint
\* hides no free page (pmm_alloc_pages, pmm_free_pages).
PagesBalance ==
  /\ bitmap \cup Owned(held) \cup Owned(pools) = Usable
  /\ bitmap \cap Owned(held \cup pools) = {}
  /\ \A r, s \in held \cup pools : r # s => Run(r.start, r.count) \cap Run(s.start, s.count) = {}
  /\ held \cap pools = {}
  /\ pmm_free_frames = Cardinality(bitmap)
  /\ \A f \in bitmap : pmm_first_usable <= f
=============================================================================
