------------------------------- MODULE Tlsf --------------------------------
(***************************************************************************)
(* The two-level segregated fit allocator of mm/tlsf.c, as operators on    *)
(* the record t = [mem, free_lists, sl_bitmap, fl_bitmap].                 *)
(*                                                                         *)
(* Memory is counted in cells of 8 bytes (BLOCK_ALIGN), which is the size  *)
(* of a block header up to its payload (HDR_SIZE), of a free-list link and *)
(* of a footer.  A cell holds a header, a pointer, or what the owner of    *)
(* the memory put there.  A block is named by the address of its header;   *)
(* the payload begins one cell later.  Sizes are 32 bits wide in the code, *)
(* so they wrap at WORD cells.                                             *)
(***************************************************************************)
EXTENDS Integers, FiniteSets

CONSTANTS
  SL_INDEX_BITS,    \* a size class is split in 2^SL_INDEX_BITS lists
  FL_INDEX_COUNT,   \* number of size classes
  WORD              \* cells in 2^32 bytes

ASSUME TlsfAssumption ==
  SL_INDEX_BITS \in Nat \ {0} /\ FL_INDEX_COUNT \in Nat \ {0} /\ WORD \in Nat \ {0}

NULL == 0
BLOCK_MIN == 3      \* two links and a footer

Header(size, free, prev_free) == [size |-> size, free |-> free, prev_free |-> prev_free]
Pointer(a) == [ptr |-> a]

Fls == 0..(FL_INDEX_COUNT - 1)
Sls == 0..(2^SL_INDEX_BITS - 1)
Least(S) == CHOOSE x \in S : \A y \in S : x <= y

\* A store to an address that is no cell of the machine's memory is lost here;
\* on the machine it faults or hits a device.
Store(m, a, v) == IF a \in DOMAIN m THEN [m EXCEPT ![a] = v] ELSE m
SetSize(m, b, n) == Store(m, b, [m[b] EXCEPT !.size = n])
SetFree(m, b, f) == Store(m, b, [m[b] EXCEPT !.free = f])

block_phys_next(m, b) == b + 1 + m[b].size
block_phys_prev(m, b) == m[b - 1].ptr
block_write_footer(m, b) == Store(m, b + m[b].size, Pointer(b))

-----------------------------------------------------------------------------
(* Which list a size belongs to, and where a search for it begins. *)

fls(n) == CHOOSE k \in 0..29 : 2^k <= n /\ n < 2^(k + 1)
Granule(n) == 2^(fls(n) - SL_INDEX_BITS)

mapping_insert(n) ==
  IF n < 2^SL_INDEX_BITS THEN <<0, n>>
  ELSE <<fls(n), (n \div Granule(n)) % 2^SL_INDEX_BITS>>

mapping_search(n) ==
  IF n < 2^SL_INDEX_BITS THEN mapping_insert(n) ELSE mapping_insert(n + Granule(n) - 1)

-----------------------------------------------------------------------------
(* The free lists and their bitmaps. *)

\* A size beyond the last class indexes past the end of the arrays.
insert_block(t, b) ==
  LET at   == mapping_insert(t.mem[b].size)
      head == IF at \in DOMAIN t.free_lists THEN t.free_lists[at] ELSE NULL
      m1   == Store(Store(t.mem, b + 2, Pointer(head)), b + 1, Pointer(NULL))
  IN  [mem        |-> IF head = NULL THEN m1 ELSE Store(m1, head + 1, Pointer(b)),
       free_lists |-> Store(t.free_lists, at, b),
       sl_bitmap  |-> [f \in Fls |-> IF f = at[1] THEN t.sl_bitmap[f] \cup {at[2]}
                                                 ELSE t.sl_bitmap[f]],
       fl_bitmap  |-> t.fl_bitmap \cup {at[1]}]

remove_block(t, b) ==
  LET at    == mapping_insert(t.mem[b].size)
      prev  == t.mem[b + 1].ptr
      next  == t.mem[b + 2].ptr
      m1    == IF prev = NULL THEN t.mem ELSE [t.mem EXCEPT ![prev + 2] = Pointer(next)]
      m2    == IF next = NULL THEN m1 ELSE [m1 EXCEPT ![next + 1] = Pointer(prev)]
      lists == IF prev = NULL THEN [t.free_lists EXCEPT ![at] = next] ELSE t.free_lists
      sl    == IF lists[at] = NULL THEN [t.sl_bitmap EXCEPT ![at[1]] = @ \ {at[2]}]
                                   ELSE t.sl_bitmap
  IN  [mem        |-> m2,
       free_lists |-> lists,
       sl_bitmap  |-> sl,
       fl_bitmap  |-> IF lists[at] = NULL /\ sl[at[1]] = {} THEN t.fl_bitmap \ {at[1]}
                                                            ELSE t.fl_bitmap]

\* The first list at or above the place of the search that is not empty.
find_suitable(t, n) ==
  LET at     == mapping_search(n)
      same   == {s \in t.sl_bitmap[at[1]] : s >= at[2]}
      higher == {f \in t.fl_bitmap : f > at[1]}
      fl     == Least(higher)
  IN  IF same # {} THEN t.free_lists[<<at[1], Least(same)>>]
      ELSE IF higher = {} THEN NULL
      ELSE t.free_lists[<<fl, Least(t.sl_bitmap[fl])>>]

-----------------------------------------------------------------------------
(* Splitting and joining neighbours. *)

\* The remainder is computed in 32 bits without a sign: for a block of exactly
\* the size that is asked for it is huge, and not less than BLOCK_MIN.
Remainder(m, b, n) == (m[b].size - n - 1) % WORD

\* The block after b learns whether b is free.
MarkNext(m, b, free) ==
  LET next == b + 1 + m[b].size
  IN  IF next \in DOMAIN m THEN [m EXCEPT ![next].prev_free = free] ELSE m

\* tlsf_malloc: the block found leaves its list; what is left of it becomes a
\* free block of its own, or its successor learns that it is in use.
tlsf_malloc(t, req) ==
  LET n      == IF req < BLOCK_MIN THEN BLOCK_MIN ELSE req
      b      == find_suitable(t, n)
      t1     == remove_block(t, b)
      m1     == SetFree(t1.mem, b, FALSE)
      remain == Remainder(m1, b, n)
      rest   == b + 1 + n
      m2     == SetSize(Store(m1, rest, Header(remain, TRUE, FALSE)), b, n)
  IN  IF b = NULL THEN [t |-> t, ptr |-> NULL]
      ELSE IF remain < BLOCK_MIN
           THEN [t |-> [t1 EXCEPT !.mem = MarkNext(m1, b, FALSE)], ptr |-> b + 1]
           ELSE [t |-> insert_block([t1 EXCEPT !.mem =
                         MarkNext(block_write_footer(m2, rest), rest, TRUE)], rest),
                 ptr |-> b + 1]

\* A freed block takes in the free blocks on both of its sides.
coalesce_prev(t, b) ==
  IF ~t.mem[b].prev_free THEN [t |-> t, b |-> b]
  ELSE LET prev == block_phys_prev(t.mem, b)
           t1   == remove_block(t, prev)
       IN  [t |-> [t1 EXCEPT !.mem = SetSize(@, prev, @[prev].size + 1 + @[b].size)],
            b |-> prev]

coalesce_next(t, b) ==
  LET next == block_phys_next(t.mem, b)
      t1   == remove_block(t, next)
  IN  IF ~t.mem[next].free THEN t
      ELSE [t1 EXCEPT !.mem = SetSize(@, b, @[b].size + 1 + @[next].size)]

\* Faulty variant: the footer is not written again after the joins.
tlsf_free_stale_footer(t, ptr) ==
  LET t1 == [t EXCEPT !.mem = block_write_footer(SetFree(@, ptr - 1, TRUE), ptr - 1)]
      j  == coalesce_prev(t1, ptr - 1)
      t2 == coalesce_next(j.t, j.b)
  IN  insert_block([t2 EXCEPT !.mem = MarkNext(@, j.b, TRUE)], j.b)

tlsf_free(t, ptr) ==
  LET t1 == [t EXCEPT !.mem = block_write_footer(SetFree(@, ptr - 1, TRUE), ptr - 1)]
      j  == coalesce_prev(t1, ptr - 1)
      t2 == coalesce_next(j.t, j.b)
  IN  insert_block([t2 EXCEPT !.mem = block_write_footer(MarkNext(@, j.b, TRUE), j.b)], j.b)

-----------------------------------------------------------------------------
(* Pools. *)

\* pool_add: one free block over n cells from address a, and a used block of
\* size 0 after it, so that no block is joined with what lies beyond.
pool_add(t, a, n) ==
  LET size == n - 3
      m1   == [t.mem EXCEPT ![a] = Header(size, TRUE, FALSE)]
      m2   == block_write_footer(m1, a)
  IN  IF n < 4 + BLOCK_MIN THEN t
      ELSE insert_block([t EXCEPT !.mem = [m2 EXCEPT ![a + 1 + size] = Header(0, FALSE, TRUE)]], a)

\* tlsf_create over memory m, whose first cells are the control structure's.
tlsf_create(m, a, n) ==
  pool_add([mem |-> m,
            free_lists |-> [at \in Fls \X Sls |-> NULL],
            sl_bitmap |-> [f \in Fls |-> {}],
            fl_bitmap |-> {}], a, n)
=============================================================================
