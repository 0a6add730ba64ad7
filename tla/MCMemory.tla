------------------------------ MODULE MCMemory ------------------------------
(***************************************************************************)
(* Memory in two parts side by side: the page bitmap with the heap on it,  *)
(* and the page tables of the address spaces.  A behaviour is of one part  *)
(* and leaves the other as it began.                                       *)
(***************************************************************************)
EXTENDS Memory, TLC

CONSTANTS p1, p2, s1, s2,
  Spaces, Boot, TableFrames, PhysPages, UserPages, KernelPages, HHDM, MaxMade, Loads, PAGE, AddressBits
VARIABLES which, tables, free, spaces, maps, call, cur, tlb, lost, raced, made, shown, shared, load

V == INSTANCE Vmm WITH WORD <- AddressBits

tablevars == <<tables, free, spaces, maps, call, cur, tlb, lost, raced, made, shown, shared, load>>

MemoryInit ==
  /\ which \in {"heap", "vmm"} /\ Init /\ V!Init
  /\ which = "heap" => load = CHOOSE l \in Loads : TRUE
MemoryNext ==
  \/ which = "heap" /\ Next /\ UNCHANGED <<which, tablevars>>
  \/ which = "vmm" /\ V!Next /\ UNCHANGED <<which, vars>>
MemorySpec == MemoryInit /\ [][MemoryNext]_<<which, vars, tablevars>>

\* The heap's lists and tags are exact and what it granted is unharmed: Memory!HeapSound.
HeapIsSound == which = "heap" => HeapSound
\* The processor keeps no translation the tables do not give: Vmm!TlbHonest.
TlbHonest == which = "vmm" => V!TlbHonest
\* The page tables implement PageMap: Vmm!ImplementsPageMap.
ImplementsPageMap == V!ImplementsPageMap

\* Memory for four frames: low memory, one the kernel is in, and two to use.
MCMemMap == {[base |-> 0, end |-> 8], [base |-> 15, end |-> 60]}
MCLoaded == {[base |-> 20, end |-> 27]}

\* Device memory inside a page that is mapped; over two pages that are not; round
\* the end.
Old == <<0, 1>>
New == {<<3, 2>>, <<7, 2>>}
Load(ranges, ways, io, frames) ==
  [ranges |-> ranges, ways |-> ways, io |-> io \cup {Old}, frames |-> frames]
\* Processes that share the first one's tables and map other pages, or a range that
\* overlaps, with frames for all of it, or too few; processes with tables of their
\* own, made in both ways, with a device; and one that shares those of an owner.
MCLoads == {
  Load({<<1, 1>>, <<2, 1>>}, {"inherit"}, {}, 8),
  Load({<<1, 2>>}, {"inherit"}, {}, 7),
  Load({<<1, 2>>, <<2, 1>>}, {"inherit"}, {}, 8),
  Load({<<1, 2>>}, {"create"}, {}, 10),
  Load({<<2, 1>>}, {"clone", "create"}, New, 9),
  Load({<<2, 1>>}, {"create", "inherit"}, {}, 9)}

Interchangeable == Permutations(Procs) \cup Permutations(Spaces)
=============================================================================
