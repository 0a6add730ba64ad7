---------------------------- MODULE MemoryProofs ----------------------------
(***************************************************************************)
(* The page bitmap of mm/pmm.c gives each page to one owner, for every     *)
(* number of frames, processes and request sizes, when no page call is     *)
(* preempted by another one between finding a run and clearing its bits.   *)
(* What the heap does with its pages is not needed for that.               *)
(***************************************************************************)
EXTENDS Memory, TLAPS, FiniteSetTheorems, WellFoundedInduction

-----------------------------------------------------------------------------
(* The inductive invariant. *)

RunType == [start : Nat, count : Nat \ {0}]

\* The types of what the page calls read.
Shapes ==
  /\ bitmap \subseteq Usable
  /\ pmm_first_usable \in Nat
  /\ held \subseteq RunType /\ pools \subseteq RunType
  /\ pc \in [Procs -> {"out", "grow", "grow_claim", "claim"}]
  /\ loc \in [Procs -> [want : Nat, start : Nat]]

\* p is between finding a run and clearing its bits.
Claiming(p) == pc[p] \in {"claim", "grow_claim"}
\* How long the run is.
Length(p) == IF pc[p] = "claim" THEN loc[p].want ELSE GrowBy(loc[p].want)

\* Only the holder of g_lock is inside a growing kmalloc.
GrowerLocks == \A p \in Procs : pc[p] \in {"grow", "grow_claim"} => lock = p

\* One claim at a time, and what was found is still free.
ClaimsSound ==
  /\ \A p, q \in Procs : Claiming(p) /\ Claiming(q) => p = q
  /\ \A p \in Procs : Claiming(p) => /\ Length(p) \in Nat \ {0}
                                     /\ Run(loc[p].start, Length(p)) \subseteq bitmap

\* The inductive invariant.
IInv == Shapes /\ GrowerLocks /\ ClaimsSound /\ PagesBalance

-----------------------------------------------------------------------------
(* Runs of frames. *)

\* A search that finds something returns the first of what it looks for.
LEMMA LeastIn ==
  ASSUME NEW S, S \subseteq Nat, S # {}
  PROVE  Least(S) \in S /\ \A j \in S : Least(S) <= j
<1>1. PICK i \in S : \A j \in S : ~(<<j, i>> \in OpToRel(<, Nat))
  BY NatLessThanWellFounded, WFMin, Zenon
<1>2. \A j \in S : i <= j
  <2>1. TAKE j \in S
  <2>2. <<j, i>> \notin {ss \in Nat \X Nat : ss[1] < ss[2]}
    BY <1>1 DEF OpToRel
  <2>3. ~(j < i)
    BY <2>2
  <2> QED
    BY <2>3
<1> QED
  BY <1>2 DEF Least

\* A run has as many frames as it says.
LEMMA RunSize ==
  ASSUME NEW s \in Nat, NEW n \in Nat \ {0}
  PROVE  /\ IsFiniteSet(Run(s, n)) /\ Cardinality(Run(s, n)) = n
         /\ s \in Run(s, n)
BY FS_Interval DEF Run

\* The bitmap is finite.
LEMMA UsableFinite ==
  ASSUME NEW B, B \subseteq Usable
  PROVE  IsFiniteSet(B)
<1>1. IsFiniteSet(Usable)
  <2>1. IsFiniteSet(0..(Frames - 1))
    BY FS_Interval, MemoryAssumption
  <2>2. Usable \in SUBSET (0..(Frames - 1))
    BY DEF Usable
  <2> QED
    BY <2>1, <2>2, FS_Subset
<1> QED
  BY <1>1, FS_Subset

\* pmm_alloc_pages finds a run of free frames or returns 0.
LEMMA ScanFinds ==
  ASSUME Shapes, NEW n \in Nat \ {0}, Scan(n) # 0
  PROVE  Scan(n) \in Nat /\ Run(Scan(n), n) \subseteq bitmap
<1> DEFINE fits == {s \in pmm_first_usable..(Frames - n) : Run(s, n) \subseteq bitmap}
<1>1. fits # {} /\ Scan(n) = Least(fits)
  BY DEF Scan
<1>2. fits \subseteq Nat
  BY MemoryAssumption DEF Shapes
<1>3. Least(fits) \in fits
  BY <1>1, <1>2, LeastIn
<1> QED
  BY <1>1, <1>2, <1>3

\* The heap grows by at least one page.
LEMMA GrowsBySome ==
  ASSUME NEW n \in Nat
  PROVE  GrowBy(n) \in Nat \ {0}
<1>1. Ceil(Request(n), PageCells) \in Nat
  BY MemoryAssumption DEF Ceil, Request
<1> QED
  BY <1>1, MemoryAssumption DEF GrowBy, AtLeast

\* What the runs of a set own, with one run more and with one run less.
LEMMA OwnedMore ==
  ASSUME NEW S, NEW r
  PROVE  Owned(S \cup {r}) = Owned(S) \cup Run(r.start, r.count)
BY DEF Owned

LEMMA OwnedBoth ==
  ASSUME NEW S, NEW T
  PROVE  Owned(S \cup T) = Owned(S) \cup Owned(T)
BY DEF Owned

LEMMA OwnedLess ==
  ASSUME NEW S, NEW r \in S,
         \A x, y \in S : x # y => Run(x.start, x.count) \cap Run(y.start, y.count) = {}
  PROVE  Owned(S \ {r}) = Owned(S) \ Run(r.start, r.count)
BY DEF Owned

-----------------------------------------------------------------------------
(* The two operations on the bitmap. *)

\* A claim of free frames, whichever owner they go to, keeps the accounts.
LEMMA ClaimBalances ==
  ASSUME Shapes, PagesBalance,
         NEW s \in Nat, NEW n \in Nat \ {0}, Run(s, n) \subseteq bitmap, Claim(s, n),
         \/ held' = held \cup {[start |-> s, count |-> n]} /\ pools' = pools
         \/ pools' = pools \cup {[start |-> s, count |-> n]} /\ held' = held
  PROVE  /\ PagesBalance' /\ bitmap' \subseteq Usable /\ pmm_first_usable' \in Nat
         /\ held' \subseteq RunType /\ pools' \subseteq RunType
<1> DEFINE r == [start |-> s, count |-> n]
           R == Run(s, n)
           A == held \cup pools
<1>1. r \in RunType /\ r.start = s /\ r.count = n
  BY DEF RunType
<1>2. bitmap' = bitmap \ R /\ pmm_first_usable' = pmm_first_usable
  BY DEF Claim
<1>3. bitmap' \subseteq Usable /\ pmm_first_usable' \in Nat
  BY <1>2 DEF Shapes
<1>4. held' \subseteq RunType /\ pools' \subseteq RunType
  BY <1>1 DEF Shapes
<1>5. held' \cup pools' = A \cup {r}
  OBVIOUS
<1>6. R \cap Owned(A) = {} /\ s \in R
  BY RunSize DEF PagesBalance
<1>7. \A x \in A : Run(x.start, x.count) \cap R = {}
  BY <1>6 DEF Owned
<1>8. r \notin A
  BY <1>7, <1>6, <1>1
<1>9. Owned(A \cup {r}) = Owned(A) \cup R
  BY OwnedMore, <1>1
<1>10. bitmap' \cup Owned(held') \cup Owned(pools') = Usable
  <2>1. Owned(held') \cup Owned(pools') = Owned(A) \cup R
    BY <1>5, <1>9, OwnedBoth
  <2>2. bitmap \cup Owned(A) = Usable
    BY OwnedBoth DEF PagesBalance
  <2> QED
    BY <2>1, <2>2, <1>2
<1>11. bitmap' \cap Owned(held' \cup pools') = {}
  BY <1>2, <1>5, <1>9 DEF PagesBalance
<1>12. \A x, y \in held' \cup pools' : x # y => Run(x.start, x.count) \cap Run(y.start, y.count) = {}
  BY <1>5, <1>7, <1>1 DEF PagesBalance
<1>13. held' \cap pools' = {}
  BY <1>8 DEF PagesBalance
<1>14. pmm_free_frames' = Cardinality(bitmap')
  <2>1. IsFiniteSet(bitmap) /\ IsFiniteSet(R) /\ Cardinality(R) = n
    BY UsableFinite, RunSize DEF Shapes
  <2>2. Cardinality(bitmap \ R) = Cardinality(bitmap) - Cardinality(bitmap \cap R)
    BY <2>1, FS_Difference
  <2>3. bitmap \cap R = R
    OBVIOUS
  <2>4. n <= Cardinality(bitmap) /\ Cardinality(bitmap) \in Nat
    BY <2>1, FS_Subset, FS_CardinalityType
  <2> QED
    BY <2>1, <2>2, <2>3, <2>4, <1>2 DEF Claim, PagesBalance
<1>15. \A f \in bitmap' : pmm_first_usable' <= f
  BY <1>2 DEF PagesBalance
<1>16. PagesBalance'
  BY <1>10, <1>11, <1>12, <1>13, <1>14, <1>15 DEF PagesBalance
<1> QED
  BY <1>3, <1>4, <1>16

\* A run that is given back is free again.
LEMMA FreeBalances ==
  ASSUME Shapes, PagesBalance,
         NEW h \in held, pmm_free_pages(h.start, h.count), held' = held \ {h}, pools' = pools
  PROVE  /\ PagesBalance' /\ bitmap' \subseteq Usable /\ pmm_first_usable' \in Nat
         /\ held' \subseteq RunType
<1> DEFINE R == Run(h.start, h.count)
           A == held \cup pools
<1>1. h.start \in Nat /\ h.count \in Nat \ {0}
  BY DEF Shapes, RunType
<1>2. R \subseteq Usable /\ R \cap bitmap = {}
  BY DEF PagesBalance, Owned
<1>3. R \cap 0..(Frames - 1) = R
  BY <1>2, MemoryAssumption DEF Usable
<1>4. /\ bitmap' = bitmap \cup R
      /\ pmm_free_frames' = pmm_free_frames + Cardinality(R)
      /\ pmm_first_usable' = IF h.start < pmm_first_usable THEN h.start ELSE pmm_first_usable
  <2>1. R \ bitmap = R
    BY <1>2
  <2> QED
    BY <2>1, <1>3 DEF pmm_free_pages
<1>5. bitmap' \subseteq Usable /\ pmm_first_usable' \in Nat /\ held' \subseteq RunType
  BY <1>1, <1>2, <1>4 DEF Shapes
<1>6. h \notin pools
  BY DEF PagesBalance
<1>7. held' \cup pools' = A \ {h}
  BY <1>6
<1>8. Owned(A \ {h}) = Owned(A) \ R
  BY OwnedLess DEF PagesBalance
<1>9. bitmap' \cup Owned(held') \cup Owned(pools') = Usable
  <2>1. Owned(held') \cup Owned(pools') = Owned(A) \ R
    BY <1>7, <1>8, OwnedBoth
  <2>2. bitmap \cup Owned(A) = Usable
    BY OwnedBoth DEF PagesBalance
  <2> QED
    BY <2>1, <2>2, <1>2, <1>4
<1>10. bitmap' \cap Owned(held' \cup pools') = {}
  BY <1>4, <1>7, <1>8 DEF PagesBalance
<1>11. \A x, y \in held' \cup pools' : x # y => Run(x.start, x.count) \cap Run(y.start, y.count) = {}
  BY <1>7 DEF PagesBalance
<1>12. held' \cap pools' = {}
  BY DEF PagesBalance
<1>13. pmm_free_frames' = Cardinality(bitmap')
  <2>1. IsFiniteSet(bitmap) /\ IsFiniteSet(R)
    BY UsableFinite, RunSize, <1>1 DEF Shapes
  <2>2. Cardinality(bitmap \cup R) =
          Cardinality(bitmap) + Cardinality(R) - Cardinality(bitmap \cap R)
    BY <2>1, FS_Union
  <2>3. Cardinality(bitmap \cap R) = 0
    <3>1. bitmap \cap R = {}
      BY <1>2
    <3> QED
      BY <3>1, FS_EmptySet
  <2>4. Cardinality(bitmap) \in Nat /\ Cardinality(R) \in Nat
    BY <2>1, FS_CardinalityType
  <2> QED
    BY <2>2, <2>3, <2>4, <1>4 DEF PagesBalance
<1>14. \A f \in bitmap' : pmm_first_usable' <= f
  <2>1. \A f \in R : h.start <= f /\ f \in Nat
    BY <1>1 DEF Run
  <2>2. \A f \in bitmap : pmm_first_usable <= f /\ f \in Nat
    BY MemoryAssumption DEF PagesBalance, Shapes, Usable
  <2> QED
    BY <2>1, <2>2, <1>1, <1>4 DEF Shapes
<1>15. PagesBalance'
  BY <1>9, <1>10, <1>11, <1>12, <1>13, <1>14 DEF PagesBalance
<1> QED
  BY <1>5, <1>15

-----------------------------------------------------------------------------
(* The steps. *)

\* After pmm_init and heap_init.
LEMMA InitHolds == Init => IInv
<1> SUFFICES ASSUME Init PROVE IInv
  OBVIOUS
<1> DEFINE n == HEAP_INIT_PAGES
           r == [start |-> HeapStart, count |-> n]
           fits == {s \in Usable : Run(s, n) \subseteq Usable}
<1>1. n \in Nat \ {0} /\ Usable \subseteq Nat
  BY MemoryAssumption DEF Usable
<1>2. HeapStart \in fits /\ HeapStart \in Nat
  <2>1. fits \subseteq Nat /\ fits # {} /\ HeapStart = Least(fits)
    BY <1>1, MemoryAssumption DEF HeapStart
  <2> QED
    BY <2>1, LeastIn
<1>3. Run(HeapStart, n) \subseteq Usable /\ r \in RunType /\ r.start = HeapStart /\ r.count = n
  BY <1>1, <1>2 DEF RunType
<1>4. /\ pools = {r} /\ held = {} /\ bitmap = Usable \ Run(HeapStart, n)
      /\ pmm_free_frames = Cardinality(Usable) - n /\ pmm_first_usable = Least(Usable)
  BY DEF Init
<1>5. \A p \in Procs : pc[p] = "out" /\ loc[p] = [want |-> 0, start |-> 0]
  BY DEF Init
<1>6. Least(Usable) \in Nat /\ \A f \in Usable : Least(Usable) <= f
  BY <1>1, <1>2, LeastIn
<1>7. Shapes /\ GrowerLocks /\ ClaimsSound
  <2>1. Shapes
    BY <1>3, <1>4, <1>6 DEF Init, Shapes
  <2> QED
    BY <2>1, <1>5 DEF GrowerLocks, ClaimsSound, Claiming
<1>8. Owned(held) = {} /\ Owned(pools) = Run(HeapStart, n)
  BY <1>3, <1>4 DEF Owned
<1>9. held \cup pools = pools
  BY <1>4
<1>10. pmm_free_frames = Cardinality(bitmap)
  <2>1. IsFiniteSet(Usable) /\ Cardinality(Run(HeapStart, n)) = n
    BY <1>1, <1>2, UsableFinite, RunSize
  <2>2. Cardinality(bitmap) = Cardinality(Usable) - Cardinality(Usable \cap Run(HeapStart, n))
    BY <2>1, <1>4, FS_Difference
  <2>3. Usable \cap Run(HeapStart, n) = Run(HeapStart, n)
    BY <1>3
  <2> QED
    BY <2>1, <2>2, <2>3, <1>4
<1>11. bitmap \cup Owned(held) \cup Owned(pools) = Usable /\ bitmap \cap Owned(held \cup pools) = {}
  BY <1>3, <1>4, <1>8, <1>9
<1>12. \A f \in bitmap : pmm_first_usable <= f
  BY <1>4, <1>6
<1>13. PagesBalance
  BY <1>4, <1>10, <1>11, <1>12 DEF PagesBalance
<1> QED
  BY <1>7, <1>13 DEF IInv

\* A step that leaves the pages alone.
LEMMA PagesKept ==
  ASSUME PagesBalance, UNCHANGED <<bitmap, pmm_free_frames, pmm_first_usable, held, pools>>
  PROVE  PagesBalance'
BY DEF PagesBalance, Owned

\* What Goto does.
LEMMA GotoFacts ==
  ASSUME Shapes, NEW p \in Procs, NEW at \in {"out", "grow", "grow_claim", "claim"},
         NEW w \in Nat, NEW s \in Nat, Goto(p, at, w, s)
  PROVE  /\ pc' \in [Procs -> {"out", "grow", "grow_claim", "claim"}]
         /\ loc' \in [Procs -> [want : Nat, start : Nat]]
         /\ pc'[p] = at /\ loc'[p].want = w /\ loc'[p].start = s
         /\ \A q \in Procs \ {p} : pc'[q] = pc[q] /\ loc'[q] = loc[q]
BY DEF Shapes, Goto

\* Every step keeps the invariant.
LEMMA StepHolds ==
  ASSUME ~Preemptible, IInv, [Next]_vars
  PROVE  IInv'
<1> USE DEF IInv
<1>1. ASSUME NEW p \in Procs, NEW size \in Sizes, Kmalloc(p, size)
      PROVE  IInv'
  <2>1. size \in Nat /\ lock = NoOne /\ pc[p] = "out"
    BY <1>1, MemoryAssumption DEF Kmalloc, MayCall
  <2>2. UNCHANGED <<bitmap, pmm_free_frames, pmm_first_usable, held, pools>>
    BY <1>1 DEF Kmalloc, pmm
  <2>3. PagesBalance'
    BY <2>2, PagesKept
  <2>4. CASE UNCHANGED <<lock, pc, loc>>
    BY <2>2, <2>3, <2>4 DEF Shapes, GrowerLocks, ClaimsSound, Claiming, Length
  <2>5. CASE lock' = p /\ Goto(p, "grow", size, 0)
    <3>1. /\ pc' \in [Procs -> {"out", "grow", "grow_claim", "claim"}]
          /\ loc' \in [Procs -> [want : Nat, start : Nat]]
          /\ pc'[p] = "grow"
          /\ \A q \in Procs \ {p} : pc'[q] = pc[q] /\ loc'[q] = loc[q]
      BY <2>1, <2>5, GotoFacts
    <3>2. Shapes'
      BY <3>1, <2>2 DEF Shapes
    <3>3. \A q \in Procs : pc[q] \notin {"grow", "grow_claim"}
      BY <2>1, MemoryAssumption DEF GrowerLocks
    <3>4. GrowerLocks'
      BY <3>1, <3>3, <2>5 DEF GrowerLocks
    <3>5. ClaimsSound'
      BY <3>1, <2>2 DEF ClaimsSound, Claiming, Length
    <3> QED
      BY <3>2, <3>4, <3>5, <2>3
  <2> QED
    BY <1>1, <2>4, <2>5 DEF Kmalloc
<1>2. ASSUME NEW p \in Procs, GrowScan(p)
      PROVE  IInv'
  <2> DEFINE w == loc[p].want
             start == Scan(GrowBy(w))
  <2>1. pc[p] = "grow" /\ lock = p /\ w \in Nat
    BY <1>2 DEF GrowScan, GrowerLocks, Shapes
  <2>2. UNCHANGED <<bitmap, pmm_free_frames, pmm_first_usable, held, pools>>
    BY <1>2 DEF GrowScan, pmm
  <2>3. PagesBalance'
    BY <2>2, PagesKept
  <2>4. \A q \in Procs \ {p} : pc[q] = "out"
    <3>1. \A q \in Procs : pc[q] # "claim"
      BY <1>2 DEF GrowScan
    <3>2. \A q \in Procs \ {p} : pc[q] \notin {"grow", "grow_claim"}
      BY <2>1 DEF GrowerLocks
    <3> QED
      BY <3>1, <3>2 DEF Shapes
  <2>5. CASE start = 0
    <3>1. lock' = NoOne /\ Goto(p, "out", 0, 0)
      BY <1>2, <2>5 DEF GrowScan, Return
    <3>2. /\ pc' \in [Procs -> {"out", "grow", "grow_claim", "claim"}]
          /\ loc' \in [Procs -> [want : Nat, start : Nat]]
          /\ pc'[p] = "out"
          /\ \A q \in Procs \ {p} : pc'[q] = pc[q] /\ loc'[q] = loc[q]
      BY <3>1, GotoFacts
    <3>3. Shapes'
      BY <3>2, <2>2 DEF Shapes
    <3>4. GrowerLocks' /\ ClaimsSound'
      BY <3>2, <2>4 DEF GrowerLocks, ClaimsSound, Claiming
    <3> QED
      BY <3>3, <3>4, <2>3
  <2>6. CASE start # 0
    <3>1. UNCHANGED lock /\ Goto(p, "grow_claim", w, start)
      BY <1>2, <2>6 DEF GrowScan
    <3>2. GrowBy(w) \in Nat \ {0} /\ start \in Nat /\ Run(start, GrowBy(w)) \subseteq bitmap
      BY <2>1, <2>6, GrowsBySome, ScanFinds
    <3>3. /\ pc' \in [Procs -> {"out", "grow", "grow_claim", "claim"}]
          /\ loc' \in [Procs -> [want : Nat, start : Nat]]
          /\ pc'[p] = "grow_claim" /\ loc'[p].want = w /\ loc'[p].start = start
          /\ \A q \in Procs \ {p} : pc'[q] = pc[q] /\ loc'[q] = loc[q]
      BY <3>1, <3>2, <2>1, GotoFacts
    <3>4. Shapes'
      BY <3>3, <2>2 DEF Shapes
    <3>5. GrowerLocks'
      BY <3>1, <3>3, <2>1, <2>4 DEF GrowerLocks
    <3>6. ClaimsSound'
      <4>1. \A q \in Procs : Claiming(q)' => q = p
        BY <3>3, <2>4 DEF Claiming
      <4>2. Length(p)' = GrowBy(w)
        BY <3>3 DEF Length, GrowBy
      <4>3. Run(loc'[p].start, Length(p)') \subseteq bitmap'
        BY <3>2, <3>3, <4>2, <2>2
      <4> QED
        BY <4>1, <4>2, <4>3, <3>2 DEF ClaimsSound
    <3> QED
      BY <3>4, <3>5, <3>6, <2>3
  <2> QED
    BY <2>5, <2>6
<1>3. ASSUME NEW p \in Procs, GrowClaim(p)
      PROVE  IInv'
  <2> DEFINE n == GrowBy(loc[p].want)
             s == loc[p].start
  <2>1. pc[p] = "grow_claim" /\ Claiming(p) /\ Length(p) = n /\ lock = p
    BY <1>3 DEF GrowClaim, Claiming, Length, GrowerLocks
  <2>2. s \in Nat /\ n \in Nat \ {0} /\ Run(s, n) \subseteq bitmap
    BY <2>1 DEF ClaimsSound, Shapes
  <2>3. /\ Claim(s, n) /\ held' = held
        /\ pools' = pools \cup {[start |-> s, count |-> n]}
        /\ lock' = NoOne /\ Goto(p, "out", 0, 0)
    BY <1>3 DEF GrowClaim, Return
  <2>4. /\ PagesBalance' /\ bitmap' \subseteq Usable /\ pmm_first_usable' \in Nat
        /\ held' \subseteq RunType /\ pools' \subseteq RunType
    BY <2>2, <2>3, ClaimBalances
  <2>5. /\ pc' \in [Procs -> {"out", "grow", "grow_claim", "claim"}]
        /\ loc' \in [Procs -> [want : Nat, start : Nat]]
        /\ pc'[p] = "out"
        /\ \A q \in Procs \ {p} : pc'[q] = pc[q] /\ loc'[q] = loc[q]
    BY <2>3, GotoFacts
  <2>6. Shapes'
    BY <2>4, <2>5 DEF Shapes
  <2>7. GrowerLocks'
    BY <2>5, <2>1 DEF GrowerLocks
  <2>8. ClaimsSound'
    BY <2>5, <2>1 DEF ClaimsSound, Claiming
  <2> QED
    BY <2>4, <2>6, <2>7, <2>8
<1>4. ASSUME NEW p \in Procs, KfreeAny(p)
      PROVE  IInv'
  <2>1. UNCHANGED <<bitmap, pmm_free_frames, pmm_first_usable, held, pools, lock, pc, loc>>
    BY <1>4 DEF KfreeAny, Kfree, pmm
  <2>2. PagesBalance'
    BY <2>1, PagesKept
  <2> QED
    BY <2>1, <2>2 DEF Shapes, GrowerLocks, ClaimsSound, Claiming, Length
<1>5. ASSUME NEW p \in Procs, NEW n \in Runs, PageScan(p, n)
      PROVE  IInv'
  <2>1. n \in Nat \ {0} /\ pc[p] = "out" /\ \A q \in Procs : ~Claiming(q)
    BY <1>5, MemoryAssumption DEF PageScan, MayCall, Claiming
  <2>2. UNCHANGED <<bitmap, pmm_free_frames, pmm_first_usable, held, pools, lock>>
    BY <1>5 DEF PageScan, pmm, heap
  <2>3. Scan(n) \in Nat /\ Run(Scan(n), n) \subseteq bitmap /\ Goto(p, "claim", n, Scan(n))
    BY <1>5, <2>1, ScanFinds DEF PageScan
  <2>4. /\ pc' \in [Procs -> {"out", "grow", "grow_claim", "claim"}]
        /\ loc' \in [Procs -> [want : Nat, start : Nat]]
        /\ pc'[p] = "claim" /\ loc'[p].want = n /\ loc'[p].start = Scan(n)
        /\ \A q \in Procs \ {p} : pc'[q] = pc[q] /\ loc'[q] = loc[q]
    BY <2>1, <2>3, GotoFacts
  <2>5. Shapes'
    BY <2>2, <2>4 DEF Shapes
  <2>6. GrowerLocks'
    BY <2>2, <2>4 DEF GrowerLocks
  <2>7. ClaimsSound'
    <3>1. \A q \in Procs : Claiming(q)' => q = p
      BY <2>4, <2>1 DEF Claiming
    <3>2. Length(p)' = n
      BY <2>4 DEF Length
    <3>3. Run(loc'[p].start, Length(p)') \subseteq bitmap'
      BY <2>2, <2>3, <2>4, <3>2
    <3> QED
      BY <3>1, <3>2, <3>3, <2>1 DEF ClaimsSound
  <2>8. PagesBalance'
    BY <2>2, PagesKept
  <2> QED
    BY <2>5, <2>6, <2>7, <2>8
<1>6. ASSUME NEW p \in Procs, PageClaim(p)
      PROVE  IInv'
  <2> DEFINE n == loc[p].want
             s == loc[p].start
  <2>1. pc[p] = "claim" /\ Claiming(p) /\ Length(p) = n
    BY <1>6 DEF PageClaim, Claiming, Length
  <2>2. s \in Nat /\ n \in Nat \ {0} /\ Run(s, n) \subseteq bitmap
    BY <2>1 DEF ClaimsSound, Shapes
  <2>3. /\ Claim(s, n) /\ pools' = pools /\ lock' = lock
        /\ held' = held \cup {[start |-> s, count |-> n]}
        /\ Goto(p, "out", 0, 0)
    BY <1>6 DEF PageClaim, Return, heap
  <2>4. /\ PagesBalance' /\ bitmap' \subseteq Usable /\ pmm_first_usable' \in Nat
        /\ held' \subseteq RunType /\ pools' \subseteq RunType
    BY <2>2, <2>3, ClaimBalances
  <2>5. /\ pc' \in [Procs -> {"out", "grow", "grow_claim", "claim"}]
        /\ loc' \in [Procs -> [want : Nat, start : Nat]]
        /\ pc'[p] = "out"
        /\ \A q \in Procs \ {p} : pc'[q] = pc[q] /\ loc'[q] = loc[q]
    BY <2>3, GotoFacts
  <2>6. Shapes'
    BY <2>4, <2>5 DEF Shapes
  <2>7. GrowerLocks'
    BY <2>5, <2>3 DEF GrowerLocks
  <2>8. ClaimsSound'
    BY <2>5, <2>1 DEF ClaimsSound, Claiming
  <2> QED
    BY <2>4, <2>6, <2>7, <2>8
<1>7. ASSUME NEW p \in Procs, PageFree(p)
      PROVE  IInv'
  <2>1. \A q \in Procs : ~Claiming(q)
    BY <1>7 DEF PageFree, MayCall, Claiming
  <2>2. PICK h \in held : pmm_free_pages(h.start, h.count) /\ held' = held \ {h}
    BY <1>7 DEF PageFree
  <2>3. pools' = pools /\ lock' = lock /\ pc' = pc /\ loc' = loc
    BY <1>7 DEF PageFree, heap
  <2>4. /\ PagesBalance' /\ bitmap' \subseteq Usable /\ pmm_first_usable' \in Nat
        /\ held' \subseteq RunType
    BY <2>2, <2>3, FreeBalances
  <2> QED
    BY <2>1, <2>3, <2>4 DEF Shapes, GrowerLocks, ClaimsSound, Claiming
<1>8. CASE UNCHANGED vars
  <2>1. UNCHANGED <<bitmap, pmm_free_frames, pmm_first_usable, held, pools, lock, pc, loc>>
    BY <1>8 DEF vars, pmm, heap
  <2>2. PagesBalance'
    BY <2>1, PagesKept
  <2> QED
    BY <2>1, <2>2 DEF Shapes, GrowerLocks, ClaimsSound, Claiming, Length
<1> QED
  BY <1>1, <1>2, <1>3, <1>4, <1>5, <1>6, <1>7, <1>8 DEF Next

-----------------------------------------------------------------------------
(* What is proved. *)

\* As long as no page call is preempted by another one, each usable page is free,
\* the heap's, or in exactly one run granted by pmm_alloc_pages; the count of free
\* frames is exact and the search hint hides no free page.
THEOREM PagesAlwaysBalance ==
  ASSUME ~Preemptible
  PROVE  Spec => []PagesBalance
<1>1. IInv /\ [Next]_vars => IInv'
  BY StepHolds
<1>2. IInv => PagesBalance
  BY DEF IInv
<1> QED
  BY InitHolds, <1>1, <1>2, PTL DEF Spec
=============================================================================
