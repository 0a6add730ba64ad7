------------------------------ MODULE ShmProofs ------------------------------
(***************************************************************************)
(* What holds of Shm for every number of processes, pages, table slots and *)
(* address windows, and wherever a process is killed; what the page table  *)
(* says holds as long as nobody is killed inside a call.                   *)
(***************************************************************************)
EXTENDS Shm, TLAPS, FiniteSetTheorems, WellFoundedInduction

---------------------------------------------------------------------------
(* Lemmas about the operators of Shm. *)

\* A table search that finds something returns one of the slots it looked for.
LEMMA FirstIn ==
  ASSUME NEW S, S \subseteq Nat, S # {}
  PROVE  First(S) \in S
<1>1. PICK i \in S : \A j \in S : ~(<<j, i>> \in OpToRel(<, Nat))
  BY NatLessThanWellFounded, WFMin, Zenon
<1>2. \A j \in S : i <= j
  <2>1. TAKE j \in S
  <2>2. <<j, i>> \notin {ss \in Nat \X Nat : ss[1] < ss[2]}
    BY <1>1 DEF OpToRel
  <2>3. ~(j < i)
    BY <2>2
  <2> QED
    BY <2>3
<1> QED
  BY <1>2 DEF First

\* The same for the searches of the two tables.
LEMMA FirstSlots ==
  /\ FreeRegions # {} => First(FreeRegions) \in FreeRegions
  /\ FreeAttachments # {} => First(FreeAttachments) \in FreeAttachments
  /\ \A id : RegionsOf(id) # {} => First(RegionsOf(id)) \in RegionsOf(id)
  /\ \A p, x : shm_find_attachment_by_addr_locked(p, x) # {} =>
       First(shm_find_attachment_by_addr_locked(p, x))
         \in shm_find_attachment_by_addr_locked(p, x)
<1>1. RegionSlots \subseteq Nat /\ AttachmentSlots \subseteq Nat
  BY DEF RegionSlots, AttachmentSlots
<1>2. FreeRegions \subseteq Nat /\ FreeAttachments \subseteq Nat
  BY <1>1 DEF FreeRegions, FreeAttachments
<1>3. \A id : RegionsOf(id) \subseteq Nat
  BY <1>1 DEF RegionsOf
<1>4. \A p, x : shm_find_attachment_by_addr_locked(p, x) \subseteq Nat
  BY <1>1 DEF shm_find_attachment_by_addr_locked, AttachmentsOf
<1> QED
  BY <1>2, <1>3, <1>4, FirstIn

\* The sets that reference counts count are finite.
LEMMA AttachmentsFinite ==
  ASSUME NEW S, S \subseteq AttachmentSlots
  PROVE  IsFiniteSet(S) /\ Cardinality(S) \in Nat
<1>1. IsFiniteSet(AttachmentSlots)
  BY ShmAssumption, FS_Interval DEF AttachmentSlots
<1>2. IsFiniteSet(S)
  BY <1>1, FS_Subset
<1> QED
  BY <1>2, FS_CardinalityType

\* ref_count never leaves the naturals.
LEMMA MinusNat ==
  ASSUME NEW x \in Nat, NEW n \in Nat
  PROVE  Minus(x, n) \in Nat
BY DEF Minus

---------------------------------------------------------------------------
(* Type correctness. *)

\* The holder of the lock is inside a critical section, and enters the one of
\* shm_create only below the bound on ids.
Locked == {"create", "attach", "undo", "detach", "reap", "destroy"}
LockDiscipline ==
  \A p \in Pids : lock = p =>
    pc[p] \in Locked /\ (pc[p] = "create" => next_shm_id <= MaxShmId)

\* The tables keep their types when references are dropped and regions reaped.
LEMMA UnreferencedType ==
  ASSUME regions \in [RegionSlots -> RegionType], NEW id
  PROVE  Unreferenced(regions, id) \in [RegionSlots -> RegionType]
BY MinusNat DEF Unreferenced, RegionType

LEMMA DroppedType ==
  ASSUME regions \in [RegionSlots -> RegionType], NEW p \in Pids
  PROVE  Dropped(p) \in [RegionSlots -> RegionType]
<1>1. \A S : AttachmentsOf(p) \cap S \subseteq AttachmentSlots
  BY DEF AttachmentsOf
<1>2. \A r \in RegionSlots :
        Minus(regions[r].ref_count,
          Cardinality(AttachmentsOf(p) \cap AttachmentsTo(regions[r].id))) \in Nat
  BY <1>1, AttachmentsFinite, MinusNat DEF RegionType
<1> QED
  BY <1>2 DEF Dropped, RegionType, NoOne

LEMMA ReapType ==
  ASSUME NEW regs \in [RegionSlots -> RegionType], NEW R,
         frames \subseteq Blocks, shm_reap_region_locked(regs, R)
  PROVE  regions' \in [RegionSlots -> RegionType] /\ frames' \subseteq Blocks
<1>1. FreeRegion \in RegionType
  BY ShmAssumption DEF FreeRegion, RegionType, NoOne, NoBlock
<1> QED
  BY <1>1 DEF shm_reap_region_locked

LEMMA CleanupType ==
  ASSUME TypeOK, NEW p \in Pids, shm_process_cleanup(p)
  PROVE  /\ regions' \in [RegionSlots -> RegionType]
         /\ attachments' \in [AttachmentSlots -> AttachmentType]
         /\ frames' \subseteq Blocks
         /\ pte' \in [Addresses -> Blocks \cup {NoBlock}]
         /\ cursor' \in [Pids -> Nat] /\ shm_count' \in [Pids -> Nat]
<1>1. FreeAttachment \in AttachmentType
  BY ShmAssumption DEF FreeAttachment, AttachmentType, NoOne
<1>2. ShmBase(p) \in Nat
  BY ShmAssumption DEF ShmBase
<1>3. Dropped(p) \in [RegionSlots -> RegionType]
  BY DroppedType DEF TypeOK
<1>4. regions' \in [RegionSlots -> RegionType] /\ frames' \subseteq Blocks
  BY <1>3, ReapType DEF TypeOK, shm_process_cleanup
<1> QED
  BY <1>1, <1>2, <1>4 DEF TypeOK, shm_process_cleanup

\* So do the updates of the locals of a call, and of one field of a region.
LEMMA SetId ==
  ASSUME TypeOK, NEW p \in Pids, NEW id \in 0..MaxShmId
  PROVE  [loc EXCEPT ![p].id = id] \in [Pids -> LocalsType]
BY DEF TypeOK, LocalsType

LEMMA SetAddr ==
  ASSUME TypeOK, NEW p \in Pids, NEW x \in Nat
  PROVE  [loc EXCEPT ![p].addr = x] \in [Pids -> LocalsType]
BY DEF TypeOK, LocalsType

LEMMA SetBlock ==
  ASSUME TypeOK, NEW p \in Pids, NEW b \in Blocks \cup {NoBlock}
  PROVE  [loc EXCEPT ![p].block = b] \in [Pids -> LocalsType]
BY DEF TypeOK, LocalsType

LEMMA SetAddrAndBlock ==
  ASSUME TypeOK, NEW p \in Pids, NEW x \in Nat, NEW b \in Blocks \cup {NoBlock}
  PROVE  [loc EXCEPT ![p].addr = x, ![p].block = b] \in [Pids -> LocalsType]
BY DEF TypeOK, LocalsType

LEMMA RegionUpdate ==
  ASSUME TypeOK, NEW r \in RegionSlots
  PROVE  /\ [regions EXCEPT ![r].ref_count = @ + 1] \in [RegionSlots -> RegionType]
         /\ [regions EXCEPT ![r].destroy_pending = TRUE] \in [RegionSlots -> RegionType]
<1>1. regions \in [RegionSlots -> RegionType] /\ regions[r] \in RegionType
  BY DEF TypeOK
<1>2. [regions[r] EXCEPT !.ref_count = @ + 1] \in RegionType
  BY <1>1 DEF RegionType
<1>3. [regions[r] EXCEPT !.destroy_pending = TRUE] \in RegionType
  BY <1>1, Zenon DEF RegionType
<1> QED
  BY <1>1, <1>2, <1>3

LEMMA TypeInit == Init => TypeOK /\ LockDiscipline
<1> SUFFICES ASSUME Init PROVE TypeOK /\ LockDiscipline
  OBVIOUS
<1>1. FreeRegion \in RegionType /\ FreeAttachment \in AttachmentType
  BY ShmAssumption
  DEF FreeRegion, RegionType, FreeAttachment, AttachmentType, NoOne, NoBlock
<1>2. \A p \in Pids : ShmBase(p) \in Nat
  BY ShmAssumption DEF ShmBase
<1>3. NoLocals \in LocalsType
  BY ShmAssumption DEF NoLocals, LocalsType
<1>4. TypeOK
  <2>1. spinning \in BOOLEAN /\ lock \in Pids \cup {NoOne}
    BY DEF Init
  <2>2. next_shm_id \in 1..(MaxShmId + 1) /\ shm_count \in [Pids -> Nat]
    BY ShmAssumption DEF Init
  <2>3. /\ pc \in [Pids -> Points]
        /\ life \in [Pids -> {"live", "zombie", "gone"}]
    BY DEF Init, Points
  <2> QED
    BY <1>1, <1>2, <1>3, <2>1, <2>2, <2>3 DEF Init, TypeOK
<1>5. LockDiscipline
  BY ShmAssumption DEF Init, LockDiscipline, NoOne
<1> QED
  BY <1>4, <1>5

\* Where p is, and where the other processes are, after p's step.
LEMMA TypeStep ==
  TypeOK /\ LockDiscipline /\ [Next]_vars => TypeOK' /\ LockDiscipline'
<1> SUFFICES ASSUME TypeOK, LockDiscipline, [Next]_vars
             PROVE  TypeOK' /\ LockDiscipline'
  OBVIOUS
<1> USE ShmAssumption
<1>a. FreeRegion \in RegionType /\ FreeAttachment \in AttachmentType
  BY DEF FreeRegion, RegionType, FreeAttachment, AttachmentType, NoOne, NoBlock
<1>b. NoLocals \in LocalsType
  BY DEF NoLocals, LocalsType
<1>c. \A p \in Pids : ShmBase(p) \in Nat
  BY DEF ShmBase
<1>d. \A p \in Pids : p # NoOne
  BY DEF NoOne
<1>1. CASE UNCHANGED vars
  BY <1>1 DEF vars, TypeOK, LockDiscipline
<1>2. ASSUME NEW p \in Pids, CreateAlloc(p)
      PROVE  TypeOK' /\ LockDiscipline'
  <2>1. /\ frames' \subseteq Blocks
        /\ loc' \in [Pids -> LocalsType]
    <3>1. PICK b \in Blocks : /\ frames' = frames \cup {b}
                              /\ loc' = [loc EXCEPT ![p].block = b]
      BY <1>2 DEF CreateAlloc
    <3>2. loc' \in [Pids -> LocalsType]
      BY <3>1, SetBlock
    <3> QED
      BY <3>1, <3>2 DEF TypeOK
  <2> QED
    BY <1>2, <1>d, <2>1
    DEF CreateAlloc, At, Goto, TypeOK, LockDiscipline, Locked, Points, tables, perProc
<1>3. ASSUME NEW p \in Pids, CreateLocked(p)
      PROVE  TypeOK' /\ LockDiscipline'
  <2>1. CASE FreeRegions = {}
    BY <1>3, <1>b, <1>d, <2>1
    DEF CreateLocked, Holding, At, Release, Return, Goto, TypeOK, LockDiscipline, Locked, Points, perProc
  <2>2. CASE FreeRegions # {}
    <3>1. [FreeRegion EXCEPT !.in_use = TRUE, !.id = next_shm_id,
                             !.owner = p, !.block = loc[p].block] \in RegionType
      <4>1. next_shm_id \in 0..MaxShmId
        BY <1>3 DEF CreateLocked, Holding, At, LockDiscipline, TypeOK
      <4>2. loc[p].block \in Blocks \cup {NoBlock}
        BY DEF TypeOK, LocalsType
      <4> QED
        BY <4>1, <4>2 DEF FreeRegion, RegionType
    <3>2. next_shm_id' \in 1..(MaxShmId + 1)
      BY <1>3, <2>2 DEF CreateLocked, Holding, At, LockDiscipline, TypeOK
    <3>3. regions' \in [RegionSlots -> RegionType]
      BY <1>3, <2>2, <3>1 DEF CreateLocked, TypeOK
    <3> QED
      BY <1>3, <1>b, <1>d, <2>2, <3>2, <3>3
      DEF CreateLocked, Release, Return, Goto, TypeOK, LockDiscipline, Locked, Points, perProc
  <2> QED
    BY <2>1, <2>2
<1>4. ASSUME NEW p \in Pids, NEW id \in ShmIds, AttachEnter(p, id) \/ DestroyEnter(p, id)
      PROVE  TypeOK' /\ LockDiscipline'
  <2>1. loc' \in [Pids -> LocalsType]
    <3>1. id \in 0..MaxShmId
      BY DEF ShmIds
    <3> QED
      BY <1>4, <3>1, SetId DEF AttachEnter, DestroyEnter
  <2> QED
    BY <1>4, <2>1
    DEF AttachEnter, DestroyEnter, At, Take, Goto, TypeOK, LockDiscipline, Locked, Points,
        tables, memory, perProc
<1>5. ASSUME NEW p \in Pids, AttachLocked(p)
      PROVE  TypeOK' /\ LockDiscipline'
  <2>1. loc[p].id \in 0..MaxShmId
    BY DEF TypeOK, LocalsType
  <2>2. CASE UNCHANGED tables /\ Return(p)
    BY <1>5, <1>b, <1>d, <2>2
    DEF AttachLocked, Holding, At, Release, Return, Goto, TypeOK, LockDiscipline, Locked, Points,
        tables, memory
  <2>3. CASE /\ RegionsOf(loc[p].id) # {}
             /\ Goto(p, "map")
             /\ loc' = [loc EXCEPT ![p].addr = cursor[p],
                          ![p].block = regions[First(RegionsOf(loc[p].id))].block]
             /\ attachments' = [attachments EXCEPT ![First(FreeAttachments)] =
                  [in_use |-> TRUE, shm_id |-> loc[p].id, pid |-> p, addr |-> cursor[p]]]
             /\ regions' = [regions EXCEPT ![First(RegionsOf(loc[p].id))].ref_count = @ + 1]
             /\ cursor' = [cursor EXCEPT ![p] = @ + 1]
             /\ UNCHANGED next_shm_id
    <3>1. First(RegionsOf(loc[p].id)) \in RegionSlots
      BY <2>3, FirstSlots DEF RegionsOf
    <3>2. [in_use |-> TRUE, shm_id |-> loc[p].id, pid |-> p, addr |-> cursor[p]]
             \in AttachmentType
      BY <2>1 DEF TypeOK, AttachmentType
    <3>3. regions' \in [RegionSlots -> RegionType]
      BY <2>3, <3>1, RegionUpdate
    <3>4. regions[First(RegionsOf(loc[p].id))].block \in Blocks \cup {NoBlock}
      BY <3>1 DEF TypeOK, RegionType
    <3>5. loc' \in [Pids -> LocalsType]
      BY <2>3, <3>4, SetAddrAndBlock DEF TypeOK
    <3>6. Release /\ UNCHANGED << memory, shm_count, life, spinning >>
      BY <1>5 DEF AttachLocked
    <3>7. attachments' \in [AttachmentSlots -> AttachmentType]
      BY <2>3, <3>2 DEF TypeOK
    <3> QED
      BY <1>d, <2>3, <3>3, <3>5, <3>6, <3>7
      DEF Release, Goto, TypeOK, LockDiscipline, Points, memory
  <2> QED
    BY <1>5, <2>2, <2>3 DEF AttachLocked
<1>6. ASSUME NEW p \in Pids, AttachMap(p)
      PROVE  TypeOK' /\ LockDiscipline'
  <2>1. /\ pte' \in [Addresses -> Blocks \cup {NoBlock}]
        /\ shm_count' \in [Pids -> Nat]
    <3>1. loc[p].block \in Blocks \cup {NoBlock}
      BY DEF TypeOK, LocalsType
    <3> QED
      BY <1>6, <3>1 DEF AttachMap, TypeOK
  <2>2. lock # p
    BY <1>6 DEF AttachMap, At, LockDiscipline, Locked
  <2>3. loc' \in [Pids -> LocalsType] /\ pc' \in [Pids -> Points]
    BY <1>6, <1>b DEF AttachMap, Goto, Return, TypeOK, Points
  <2>4. \A q \in Pids : q # p => pc'[q] = pc[q]
    BY <1>6 DEF AttachMap, Goto, Return, TypeOK
  <2> QED
    BY <1>6, <2>1, <2>2, <2>3, <2>4
    DEF AttachMap, TypeOK, LockDiscipline, tables
<1>7. ASSUME NEW p \in Pids, AttachUndo(p)
      PROVE  TypeOK' /\ LockDiscipline'
  BY <1>7, <1>a, <1>b, <1>d, UnreferencedType
  DEF AttachUndo, Holding, At, Release, Return, Goto, TypeOK, LockDiscipline, Locked, Points,
      memory, perProc
<1>8. ASSUME NEW p \in Pids, NEW addr \in Addresses, DetachEnter(p, addr)
      PROVE  TypeOK' /\ LockDiscipline'
  <2>1. loc' \in [Pids -> LocalsType]
    BY <1>8, SetAddr DEF DetachEnter, Addresses
  <2> QED
    BY <1>8, <2>1
    DEF DetachEnter, At, Take, Goto, TypeOK, LockDiscipline, Locked, Points, tables, memory, perProc
<1>9. ASSUME NEW p \in Pids, DetachLocked(p)
      PROVE  TypeOK' /\ LockDiscipline'
  <2> DEFINE found == shm_find_attachment_by_addr_locked(p, loc[p].addr)
  <2>1. CASE found = {}
    <3>1. /\ Release /\ Return(p)
          /\ UNCHANGED << tables, memory, perProc, life, spinning >>
      BY <1>9, <2>1 DEF DetachLocked
    <3> QED
      BY <1>b, <1>d, <3>1
      DEF Release, Return, Goto, TypeOK, LockDiscipline, Locked, Points, tables, memory, perProc
  <2>2. CASE found # {}
    <3>0. found \subseteq AttachmentSlots
      BY DEF shm_find_attachment_by_addr_locked, AttachmentsOf
    <3>1. First(found) \in AttachmentSlots
      BY <2>2, <3>0, FirstSlots
    <3>2. attachments[First(found)].shm_id \in 0..MaxShmId
      BY <3>1 DEF TypeOK, AttachmentType
    <3> HIDE DEF found
    <3>3. /\ attachments' = [attachments EXCEPT ![First(found)] = FreeAttachment]
          /\ regions' = Unreferenced(regions, attachments[First(found)].shm_id)
          /\ loc' = [loc EXCEPT ![p].id = attachments[First(found)].shm_id]
          /\ Goto(p, "unmap_reap") \/ Goto(p, "unmap")
          /\ UNCHANGED << next_shm_id, memory, perProc, life, spinning >>
          /\ Release
      BY <1>9, <2>2 DEF DetachLocked, found
    <3>4. loc' \in [Pids -> LocalsType]
      BY <3>2, <3>3, SetId
    <3> QED
      BY <1>a, <1>d, <3>2, <3>3, <3>4, UnreferencedType
      DEF Release, Goto, TypeOK, LockDiscipline, Locked, Points, memory, perProc
  <2> QED
    BY <2>1, <2>2
<1>10. ASSUME NEW p \in Pids, DetachUnmap(p)
       PROVE  TypeOK' /\ LockDiscipline'
  <2>1. Minus(shm_count[p], 1) \in Nat
    BY MinusNat DEF TypeOK
  <2>2. /\ shm_count' \in [Pids -> Nat]
        /\ cursor' \in [Pids -> Nat]
        /\ pte' \in [Addresses -> Blocks \cup {NoBlock}]
    BY <1>10, <1>c, <2>1 DEF DetachUnmap, TypeOK
  <2>3. /\ loc' \in [Pids -> LocalsType]
        /\ pc' \in [Pids -> Points]
    BY <1>10, <1>b DEF DetachUnmap, Return, Goto, TypeOK, Points
  <2> QED
    BY <1>10, <2>2, <2>3
    DEF DetachUnmap, At, Return, Goto, TypeOK, LockDiscipline, Locked, tables
<1>11. ASSUME NEW p \in Pids, DetachReap(p)
       PROVE  TypeOK' /\ LockDiscipline'
  <2>1. regions' \in [RegionSlots -> RegionType] /\ frames' \subseteq Blocks
    BY <1>11, ReapType DEF DetachReap, TypeOK
  <2> QED
    BY <1>11, <1>b, <1>d, <2>1
    DEF DetachReap, Holding, At, Release, Return, Goto, TypeOK, LockDiscipline, Locked, Points, perProc
<1>12. ASSUME NEW p \in Pids, DestroyLocked(p)
       PROVE  TypeOK' /\ LockDiscipline'
  <2>1. regions' \in [RegionSlots -> RegionType] /\ frames' \subseteq Blocks
    <3>1. CASE UNCHANGED << regions, frames >>
      BY <3>1 DEF TypeOK
    <3>2. ASSUME NEW r \in RegionSlots,
                 shm_reap_region_locked([regions EXCEPT ![r].destroy_pending = TRUE], {r})
          PROVE  regions' \in [RegionSlots -> RegionType] /\ frames' \subseteq Blocks
      BY <3>2, RegionUpdate, ReapType DEF TypeOK
    <3> QED
      BY <1>12, <3>1, <3>2 DEF DestroyLocked, RegionsOf
  <2> QED
    BY <1>12, <1>b, <1>d, <2>1
    DEF DestroyLocked, Holding, At, Release, Return, Goto, TypeOK, LockDiscipline, Locked, Points, perProc
<1>13. ASSUME NEW p \in Pids, Acquire(p)
       PROVE  TypeOK' /\ LockDiscipline'
  BY <1>13 DEF Acquire, At, Take, TypeOK, LockDiscipline, Locked, tables, memory, perProc
<1>14. ASSUME NEW p \in Pids, Die(p) \/ Reap(p) \/ ExecOver(p)
       PROVE  TypeOK' /\ LockDiscipline'
  <2>1. shm_process_cleanup(p)
    BY <1>14 DEF Die, Reap, ExecOver
  <2>2. life' \in [Pids -> {"live", "zombie", "gone"}]
    BY <1>14 DEF Die, Reap, ExecOver, TypeOK
  <2>3. Return(p) \/ UNCHANGED << pc, loc >>
    BY <1>14 DEF Die, Reap, ExecOver
  <2>4. UNCHANGED << next_shm_id, lock, spinning >>
    BY <2>1 DEF shm_process_cleanup
  <2>5. lock = NoOne
    BY <1>14 DEF Die, Reap, ExecOver
  <2>6. loc' \in [Pids -> LocalsType] /\ pc' \in [Pids -> Points]
    BY <1>b, <2>3 DEF Return, Goto, TypeOK, Points
  <2> QED
    BY <1>d, <2>1, <2>2, <2>4, <2>5, <2>6, CleanupType
    DEF TypeOK, LockDiscipline
<1>15. ASSUME NEW p \in Pids, CleanupSpins(p)
       PROVE  TypeOK' /\ LockDiscipline'
  BY <1>15 DEF CleanupSpins, TypeOK, LockDiscipline, Locked, tables, memory, perProc
<1> QED
  BY <1>1, <1>2, <1>3, <1>4, <1>5, <1>6, <1>7, <1>8, <1>9, <1>10, <1>11, <1>12,
     <1>13, <1>14, <1>15 DEF Next

\* The tables, the page table and the control state keep their types, whatever
\* the calls, deaths and failed mappings.
THEOREM TypeCorrect == Spec => []TypeOK
<1>1. TypeOK /\ LockDiscipline => TypeOK
  OBVIOUS
<1> QED
  BY TypeInit, TypeStep, <1>1, PTL DEF Spec
---------------------------------------------------------------------------
(* The inductive invariant behind the reference counts. *)

\* Segment ids are handed out once.
IdsFresh ==
  /\ \A r \in RegionSlots : regions[r].in_use => regions[r].id < next_shm_id
  /\ \A r, s \in RegionSlots :
       regions[r].in_use /\ regions[s].in_use /\ regions[r].id = regions[s].id => r = s

\* Every attachment refers to a segment in the table.
AttachmentHasRegion ==
  \A a \in AttachmentSlots : attachments[a].in_use =>
    \E r \in RegionSlots : regions[r].in_use /\ regions[r].id = attachments[a].shm_id

\* A process is attached at most once at an address, and below its cursor.
AddressesUnique ==
  /\ \A a \in AttachmentSlots : attachments[a].in_use =>
       attachments[a].pid \in Pids /\ attachments[a].addr < cursor[attachments[a].pid]
  /\ \A a, b \in AttachmentSlots :
       /\ attachments[a].in_use /\ attachments[b].in_use
       /\ attachments[a].pid = attachments[b].pid
       /\ attachments[a].addr = attachments[b].addr
       => a = b

\* shm_attachment_count lags the table: it is raised after the mapping and
\* lowered after the unmapping.
Lags(p)  == IF pc[p] \in {"map", "undo"} THEN 1 ELSE 0
Leads(p) == IF pc[p] \in {"unmap", "unmap_reap"} THEN 1 ELSE 0
Tally ==
  \A p \in Pids : shm_count[p] + Lags(p) = Cardinality(AttachmentsOf(p)) + Leads(p)

\* An attach that is mapping, or taking the mapping back, has its attachment.
Attaching ==
  \A p \in Pids : pc[p] \in {"map", "undo"} =>
    \E a \in AttachmentsOf(p) :
      attachments[a].addr = loc[p].addr /\ attachments[a].shm_id = loc[p].id

\* The dead are in no call.
DeadAreOut == \A p \in Pids : life[p] # "live" => pc[p] = "out"

\* Every page run has one owner: a segment, or a shm_create under way.
FramesOwned ==
  /\ \A r \in RegionSlots : regions[r].in_use => regions[r].block \in frames
  /\ \A p \in Pids : pc[p] = "create" => loc[p].block \in frames
  /\ \A r, s \in RegionSlots :
       regions[r].in_use /\ regions[s].in_use /\ regions[r].block = regions[s].block => r = s
  /\ \A p \in Pids, r \in RegionSlots :
       pc[p] = "create" /\ regions[r].in_use => regions[r].block # loc[p].block
  /\ \A p, q \in Pids :
       pc[p] = "create" /\ pc[q] = "create" /\ loc[p].block = loc[q].block => p = q

IInv ==
  /\ TypeOK /\ LockDiscipline /\ IdsFresh /\ AttachmentHasRegion /\ AddressesUnique
  /\ Tally /\ Attaching /\ DeadAreOut /\ FramesOwned /\ RefCountExact

LEMMA IInvInit == Init => IInv
<1> SUFFICES ASSUME Init PROVE IInv
  OBVIOUS
<1>1. \A r \in RegionSlots : ~regions[r].in_use
  BY DEF Init, FreeRegion
<1>2. \A a \in AttachmentSlots : ~attachments[a].in_use
  BY DEF Init, FreeAttachment
<1>3. Tally
  <2> SUFFICES ASSUME NEW p \in Pids
               PROVE  shm_count[p] + Lags(p) = Cardinality(AttachmentsOf(p)) + Leads(p)
    BY DEF Tally
  <2>1. AttachmentsOf(p) = {}
    BY <1>2 DEF AttachmentsOf
  <2>2. Lags(p) = 0 /\ Leads(p) = 0 /\ shm_count[p] = 0
    BY DEF Init, Lags, Leads
  <2> QED
    BY <2>1, <2>2, FS_EmptySet
<1>4. Attaching /\ DeadAreOut
  BY DEF Init, Attaching, DeadAreOut
<1>5. FramesOwned
  BY <1>1 DEF FramesOwned, Init
<1>6. IdsFresh /\ AttachmentHasRegion /\ AddressesUnique /\ RefCountExact
  BY <1>1, <1>2 DEF IdsFresh, AttachmentHasRegion, AddressesUnique, RefCountExact
<1> QED
  BY TypeInit, <1>3, <1>4, <1>5, <1>6 DEF IInv

---------------------------------------------------------------------------
(* Three ways a step can change what the invariant speaks of. *)

\* Nothing that is attached, mapped or owned changes hands.
LEMMA QuietStep ==
  ASSUME IInv, TypeOK', LockDiscipline',
         UNCHANGED << regions, attachments, next_shm_id, frames, shm_count, life >>,
         \A q \in Pids : cursor[q] <= cursor'[q],
         \A q \in Pids : Lags(q)' = Lags(q) /\ Leads(q)' = Leads(q),
         \A q \in Pids : pc'[q] = "create" => pc[q] = "create" /\ loc'[q] = loc[q],
         \A q \in Pids : pc'[q] \in {"map", "undo"} =>
           pc[q] \in {"map", "undo"} /\ loc'[q] = loc[q],
         \A q \in Pids : life[q] # "live" => pc'[q] = pc[q]
  PROVE  IInv'
<1>1. \A q : AttachmentsOf(q)' = AttachmentsOf(q) /\ AttachmentsTo(q)' = AttachmentsTo(q)
  BY DEF AttachmentsOf, AttachmentsTo
<1>2. IdsFresh' /\ AttachmentHasRegion' /\ RefCountExact'
  BY <1>1 DEF IInv, IdsFresh, AttachmentHasRegion, RefCountExact
<1>3. AddressesUnique'
  BY DEF IInv, AddressesUnique, TypeOK, AttachmentType
<1>4. Tally'
  BY <1>1 DEF IInv, Tally
<1>5. Attaching'
  BY <1>1 DEF IInv, Attaching
<1>6. DeadAreOut'
  BY DEF IInv, DeadAreOut
<1>7. FramesOwned'
  BY DEF IInv, FramesOwned
<1> QED
  BY <1>2, <1>3, <1>4, <1>5, <1>6, <1>7 DEF IInv

\* Attachments are given up (the slots D) and segments that nobody is attached
\* to any more are freed (the slots Z).
GiveUp(D) == attachments' = [a \in AttachmentSlots |->
                               IF a \in D THEN FreeAttachment ELSE attachments[a]]

LEMMA GiveUpSets ==
  ASSUME TypeOK, NEW D, GiveUp(D)
  PROVE  /\ \A q \in Pids : AttachmentsOf(q)' = AttachmentsOf(q) \ D
         /\ \A id : AttachmentsTo(id)' = AttachmentsTo(id) \ D
BY DEF GiveUp, AttachmentsOf, AttachmentsTo, FreeAttachment

\* regs holds the counts without D; the slots of Z are freed with their pages.
Frees(D, regs, Z) ==
  /\ GiveUp(D)
  /\ regs \in [RegionSlots -> RegionType]
  /\ \A r \in RegionSlots :
       /\ regs[r].in_use = regions[r].in_use
       /\ regs[r].id = regions[r].id
       /\ regs[r].block = regions[r].block
  /\ \A r \in RegionSlots : regs[r].in_use =>
       regs[r].ref_count = Cardinality(AttachmentsTo(regs[r].id) \ D)
  /\ Z \subseteq {r \in RegionSlots : regs[r].in_use /\ regs[r].ref_count = 0}
  /\ regions' = [r \in RegionSlots |-> IF r \in Z THEN FreeRegion ELSE regs[r]]
  /\ frames' = frames \ {regs[r].block : r \in Z}
  /\ next_shm_id' = next_shm_id
  /\ \A q \in Pids : pc'[q] = "create" => pc[q] = "create" /\ loc'[q] = loc[q]

LEMMA FreeingIsSafe ==
  ASSUME IInv, NEW D, NEW regs, NEW Z, Frees(D, regs, Z)
  PROVE  IdsFresh' /\ AttachmentHasRegion' /\ RefCountExact' /\ FramesOwned'
<1> USE DEF Frees
<1>1. \A r \in RegionSlots : regions'[r].in_use =>
        /\ r \notin Z /\ regions[r].in_use
        /\ regions'[r] = regs[r]
  BY DEF FreeRegion
<1>2. \A id : AttachmentsTo(id)' = AttachmentsTo(id) \ D
  BY GiveUpSets DEF IInv
<1>3. IdsFresh'
  BY <1>1 DEF IInv, IdsFresh
<1>4. RefCountExact'
  BY <1>1, <1>2 DEF RefCountExact
<1>5. AttachmentHasRegion'
  <2> SUFFICES ASSUME NEW a \in AttachmentSlots, attachments'[a].in_use
               PROVE  \E r \in RegionSlots :
                        regions'[r].in_use /\ regions'[r].id = attachments'[a].shm_id
    BY DEF AttachmentHasRegion
  <2>1. a \notin D /\ attachments'[a] = attachments[a]
    BY DEF GiveUp, FreeAttachment
  <2>2. PICK r \in RegionSlots :
          regions[r].in_use /\ regions[r].id = attachments[a].shm_id
    BY <2>1 DEF IInv, AttachmentHasRegion
  <2>3. a \in AttachmentsTo(regs[r].id) \ D
    BY <2>1, <2>2 DEF AttachmentsTo
  <2>4. Cardinality(AttachmentsTo(regs[r].id) \ D) # 0
    <3>1. IsFiniteSet(AttachmentsTo(regs[r].id) \ D)
      BY AttachmentsFinite DEF AttachmentsTo
    <3> QED
      BY <2>3, <3>1, FS_EmptySet
  <2>5. r \notin Z
    BY <2>2, <2>4
  <2> QED
    BY <2>1, <2>2, <2>5
<1>6. FramesOwned'
  <2>1. \A r \in RegionSlots : regions'[r].in_use => regions'[r].block \in frames'
    <3> SUFFICES ASSUME NEW r \in RegionSlots, regions'[r].in_use
                 PROVE  regions'[r].block \in frames'
      OBVIOUS
    <3>1. /\ r \notin Z /\ regions[r].in_use /\ regions[r].block \in frames
          /\ regions'[r].block = regions[r].block
      BY <1>1 DEF IInv, FramesOwned
    <3>2. \A s \in Z : regs[s].block # regions[r].block
      BY <3>1 DEF IInv, FramesOwned
    <3> QED
      BY <3>1, <3>2
  <2>2. \A q \in Pids : pc'[q] = "create" => loc'[q].block \in frames'
    <3> SUFFICES ASSUME NEW q \in Pids, pc'[q] = "create"
                 PROVE  loc'[q].block \in frames'
      OBVIOUS
    <3>1. loc'[q] = loc[q] /\ pc[q] = "create" /\ loc[q].block \in frames
      BY DEF IInv, FramesOwned
    <3>2. \A s \in Z : regs[s].block # loc[q].block
      BY <3>1 DEF IInv, FramesOwned
    <3> QED
      BY <3>1, <3>2
  <2>3. \A r, s \in RegionSlots :
          regions'[r].in_use /\ regions'[s].in_use /\ regions'[r].block = regions'[s].block
            => r = s
    BY <1>1 DEF IInv, FramesOwned
  <2>4. \A q \in Pids, r \in RegionSlots :
          pc'[q] = "create" /\ regions'[r].in_use => regions'[r].block # loc'[q].block
    BY <1>1 DEF IInv, FramesOwned
  <2>5. \A q, u \in Pids :
          pc'[q] = "create" /\ pc'[u] = "create" /\ loc'[q].block = loc'[u].block => q = u
    BY DEF IInv, FramesOwned
  <2> QED
    BY <2>1, <2>2, <2>3, <2>4, <2>5 DEF FramesOwned
<1> QED
  BY <1>3, <1>4, <1>5, <1>6

\* What p's attachments look like to the others, and to p, once D is given up.
LEMMA GivenUpUnique ==
  ASSUME IInv, NEW D, GiveUp(D),
         \A q \in Pids : AttachmentsOf(q) \ D # {} => cursor'[q] = cursor[q]
  PROVE  AddressesUnique'
<1>1. \A a \in AttachmentSlots : attachments'[a].in_use =>
        a \notin D /\ attachments'[a] = attachments[a]
  BY DEF GiveUp, FreeAttachment
<1>2. \A a \in AttachmentSlots : attachments'[a].in_use =>
        cursor'[attachments'[a].pid] = cursor[attachments[a].pid]
  BY <1>1 DEF IInv, AddressesUnique, AttachmentsOf
<1> QED
  BY <1>1, <1>2 DEF IInv, AddressesUnique

---------------------------------------------------------------------------
(* Each step preserves the invariant. *)

LEMMA CreateAllocStep ==
  ASSUME IInv, TypeOK', LockDiscipline', NEW p \in Pids, CreateAlloc(p)
  PROVE  IInv'
<1>1. PICK b \in Blocks \ frames : /\ frames' = frames \cup {b}
                                   /\ loc' = [loc EXCEPT ![p].block = b]
  BY DEF CreateAlloc
<1>2. /\ UNCHANGED << regions, attachments, next_shm_id, cursor, shm_count, life >>
      /\ pc[p] = "out" /\ life[p] = "live"
      /\ pc' = [pc EXCEPT ![p] = "create"]
  BY DEF CreateAlloc, At, Goto, tables, perProc
<1>3. \A q : AttachmentsOf(q)' = AttachmentsOf(q) /\ AttachmentsTo(q)' = AttachmentsTo(q)
  BY <1>2 DEF AttachmentsOf, AttachmentsTo
<1>4. pc'[p] = "create" /\ \A q \in Pids : q # p => pc'[q] = pc[q] /\ loc'[q] = loc[q]
  BY <1>1, <1>2 DEF IInv, TypeOK
<1>5. loc'[p].block = b
  BY <1>1 DEF IInv, TypeOK, LocalsType
<1>6. IdsFresh' /\ AttachmentHasRegion' /\ RefCountExact' /\ AddressesUnique'
  BY <1>2, <1>3
  DEF IInv, IdsFresh, AttachmentHasRegion, RefCountExact, AddressesUnique
<1>7. Tally' /\ Attaching'
  <2>1. \A q \in Pids : Lags(q)' = Lags(q) /\ Leads(q)' = Leads(q)
    BY <1>2, <1>4 DEF Lags, Leads
  <2> QED
    BY <1>2, <1>3, <1>4, <2>1 DEF IInv, Tally, Attaching
<1>8. DeadAreOut'
  BY <1>2, <1>4 DEF IInv, DeadAreOut
<1>9. FramesOwned'
  BY <1>1, <1>2, <1>4, <1>5 DEF IInv, FramesOwned
<1> QED
  BY <1>6, <1>7, <1>8, <1>9 DEF IInv

LEMMA CreateLockedStep ==
  ASSUME IInv, TypeOK', LockDiscipline', NEW p \in Pids, CreateLocked(p)
  PROVE  IInv'
<1>1. /\ UNCHANGED << attachments, cursor, shm_count, life >>
      /\ pc[p] = "create" /\ life[p] = "live"
      /\ pc' = [pc EXCEPT ![p] = "out"]
      /\ loc' = [loc EXCEPT ![p] = NoLocals]
  BY DEF CreateLocked, Holding, At, Return, Goto, perProc
<1>2. \A q : AttachmentsOf(q)' = AttachmentsOf(q) /\ AttachmentsTo(q)' = AttachmentsTo(q)
  BY <1>1 DEF AttachmentsOf, AttachmentsTo
<1>3. pc'[p] = "out" /\ \A q \in Pids : q # p => pc'[q] = pc[q] /\ loc'[q] = loc[q]
  BY <1>1 DEF IInv, TypeOK
<1>4. Tally' /\ Attaching'
  <2>1. \A q \in Pids : Lags(q)' = Lags(q) /\ Leads(q)' = Leads(q)
    BY <1>1, <1>3 DEF Lags, Leads
  <2> QED
    BY <1>1, <1>2, <1>3, <2>1 DEF IInv, Tally, Attaching
<1>5. DeadAreOut' /\ AddressesUnique'
  BY <1>1, <1>3 DEF IInv, DeadAreOut, AddressesUnique
<1>6. CASE FreeRegions = {}
  <2>1. UNCHANGED << regions, next_shm_id >> /\ frames' = frames \ {loc[p].block}
    BY <1>6 DEF CreateLocked
  <2>2. IdsFresh' /\ AttachmentHasRegion' /\ RefCountExact'
    BY <1>1, <1>2, <2>1 DEF IInv, IdsFresh, AttachmentHasRegion, RefCountExact
  <2>3. FramesOwned'
    BY <1>1, <1>3, <2>1 DEF IInv, FramesOwned
  <2> QED
    BY <1>4, <1>5, <2>2, <2>3 DEF IInv
<1>7. CASE FreeRegions # {}
  <2> DEFINE n == First(FreeRegions)
             new == [FreeRegion EXCEPT !.in_use = TRUE, !.id = next_shm_id,
                                       !.owner = p, !.block = loc[p].block]
  <2>1. n \in RegionSlots /\ ~regions[n].in_use
    BY <1>7, FirstSlots DEF FreeRegions
  <2>2. /\ regions' = [regions EXCEPT ![n] = new]
        /\ next_shm_id' = next_shm_id + 1
        /\ frames' = frames
    BY <1>7 DEF CreateLocked
  <2>3. /\ new.in_use /\ new.id = next_shm_id /\ new.block = loc[p].block
        /\ new.ref_count = 0
    BY DEF FreeRegion
  <2> HIDE DEF n, new
  <2>4. regions'[n] = new /\ \A r \in RegionSlots : r # n => regions'[r] = regions[r]
    BY <2>1, <2>2 DEF IInv, TypeOK
  <2>5. IdsFresh'
    BY <2>1, <2>2, <2>3, <2>4 DEF IInv, IdsFresh, TypeOK, RegionType
  <2>6. AttachmentHasRegion'
    BY <1>1, <2>1, <2>4 DEF IInv, AttachmentHasRegion
  <2>7. AttachmentsTo(next_shm_id) = {}
    BY DEF IInv, TypeOK, AttachmentsTo, AttachmentHasRegion, IdsFresh
  <2>8. RefCountExact'
    BY <1>2, <2>3, <2>4, <2>7, FS_EmptySet DEF IInv, RefCountExact
  <2>9. FramesOwned'
    BY <1>1, <1>3, <2>2, <2>3, <2>4 DEF IInv, FramesOwned
  <2> QED
    BY <1>4, <1>5, <2>5, <2>6, <2>8, <2>9 DEF IInv
<1> QED
  BY <1>6, <1>7

\* Entering a critical section, and leaving one without having changed a table.
LEMMA QuietActions ==
  ASSUME IInv, TypeOK', LockDiscipline', NEW p \in Pids,
         \/ \E id \in ShmIds : AttachEnter(p, id) \/ DestroyEnter(p, id)
         \/ \E x \in Addresses : DetachEnter(p, x)
         \/ Acquire(p) \/ CleanupSpins(p)
  PROVE  IInv'
<1>1. /\ UNCHANGED << regions, attachments, next_shm_id, frames, cursor, shm_count, life >>
      /\ \/ UNCHANGED << pc, loc >>
         \/ /\ pc[p] = "out" /\ life[p] = "live"
            /\ \E point \in {"attach", "detach", "destroy"} : Goto(p, point)
            /\ \A q \in Pids : q # p => loc'[q] = loc[q]
  BY DEF IInv, TypeOK, AttachEnter, DestroyEnter, DetachEnter, Acquire, CleanupSpins, At,
         tables, memory, perProc
<1>2. \A q \in Pids :
        \/ pc'[q] = pc[q] /\ loc'[q] = loc[q]
        \/ /\ pc[q] = "out" /\ life[q] = "live"
           /\ pc'[q] \in {"attach", "detach", "destroy"}
  BY <1>1 DEF Goto, IInv, TypeOK
<1>3. \A q \in Pids : cursor[q] <= cursor'[q]
  BY <1>1 DEF IInv, TypeOK
<1>4. \A q \in Pids : Lags(q)' = Lags(q) /\ Leads(q)' = Leads(q)
  BY <1>2 DEF Lags, Leads
<1> QED
  BY <1>1, <1>2, <1>3, <1>4, QuietStep

LEMMA AttachLockedStep ==
  ASSUME IInv, TypeOK', LockDiscipline', NEW p \in Pids, AttachLocked(p)
  PROVE  IInv'
<1>0. PICK id : id = loc[p].id
  OBVIOUS
<1> DEFINE r  == First(RegionsOf(id))
           a  == First(FreeAttachments)
           new == [in_use |-> TRUE, shm_id |-> id, pid |-> p, addr |-> cursor[p]]
<1>1. /\ UNCHANGED << frames, shm_count, life >>
      /\ pc[p] = "attach" /\ life[p] = "live"
  BY DEF AttachLocked, Holding, At, memory
<1>2. CASE /\ Return(p) /\ UNCHANGED tables
           /\ cursor' = cursor \/ cursor' = [cursor EXCEPT ![p] = @ + 1]
  <2>1. \A q \in Pids :
          \/ pc'[q] = pc[q] /\ loc'[q] = loc[q]
          \/ pc[q] = "attach" /\ life[q] = "live" /\ pc'[q] = "out"
    BY <1>1, <1>2 DEF Return, Goto, IInv, TypeOK
  <2>2. \A q \in Pids : cursor[q] <= cursor'[q]
    BY <1>2 DEF IInv, TypeOK
  <2>3. \A q \in Pids : Lags(q)' = Lags(q) /\ Leads(q)' = Leads(q)
    BY <2>1 DEF Lags, Leads
  <2>4. UNCHANGED << regions, attachments, next_shm_id >>
    BY <1>2 DEF tables
  <2> QED
    BY <1>1, <2>1, <2>2, <2>3, <2>4, QuietStep
<1>3. CASE /\ RegionsOf(id) # {} /\ FreeAttachments # {}
           /\ cursor' = [cursor EXCEPT ![p] = @ + 1]
           /\ attachments' = [attachments EXCEPT ![a] = new]
           /\ regions' = [regions EXCEPT ![r].ref_count = @ + 1]
           /\ loc' = [loc EXCEPT ![p].addr = cursor[p], ![p].block = regions[r].block]
           /\ Goto(p, "map")
           /\ UNCHANGED next_shm_id
  <2>1. r \in RegionSlots /\ regions[r].in_use /\ regions[r].id = id
    BY <1>3, FirstSlots DEF RegionsOf
  <2>2. a \in AttachmentSlots /\ ~attachments[a].in_use
    BY <1>3, FirstSlots DEF FreeAttachments
  <2> HIDE DEF r, a
  <2>3. /\ attachments'[a] = new
        /\ \A b \in AttachmentSlots : b # a => attachments'[b] = attachments[b]
    BY <1>3, <2>2 DEF IInv, TypeOK
  <2>4. /\ \A s \in RegionSlots : s # r => regions'[s] = regions[s]
        /\ regions'[r].in_use /\ regions'[r].id = id
        /\ regions'[r].block = regions[r].block
        /\ regions'[r].ref_count = regions[r].ref_count + 1
    BY <1>3, <2>1 DEF IInv, TypeOK, RegionType
  <2>5. /\ pc'[p] = "map"
        /\ \A q \in Pids : q # p => pc'[q] = pc[q] /\ loc'[q] = loc[q]
        /\ cursor'[p] = cursor[p] + 1
        /\ \A q \in Pids : q # p => cursor'[q] = cursor[q]
    BY <1>3 DEF Goto, IInv, TypeOK
  <2>6. loc'[p].addr = cursor[p] /\ loc'[p].id = id
    BY <1>0, <1>3 DEF IInv, TypeOK, LocalsType
  <2>7. /\ new.in_use /\ new.shm_id = id /\ new.pid = p /\ new.addr = cursor[p]
    OBVIOUS
  <2> HIDE DEF new
  <2>8. /\ AttachmentsOf(p)' = AttachmentsOf(p) \cup {a}
        /\ a \notin AttachmentsOf(p)
        /\ \A q \in Pids : q # p => AttachmentsOf(q)' = AttachmentsOf(q)
    BY <2>2, <2>3, <2>7 DEF AttachmentsOf
  <2>9. /\ AttachmentsTo(id)' = AttachmentsTo(id) \cup {a}
        /\ a \notin AttachmentsTo(id)
        /\ \A i : i # id => AttachmentsTo(i)' = AttachmentsTo(i)
    BY <2>2, <2>3, <2>7 DEF AttachmentsTo
  <2>10. IdsFresh'
    BY <1>3, <2>1, <2>4 DEF IInv, IdsFresh
  <2>11. AttachmentHasRegion'
    BY <2>1, <2>3, <2>4, <2>7 DEF IInv, AttachmentHasRegion
  <2>12. AddressesUnique'
    <3>1. \A b \in AttachmentSlots : attachments'[b].in_use =>
            /\ attachments'[b].pid \in Pids
            /\ attachments'[b].addr < cursor'[attachments'[b].pid]
      BY <2>3, <2>5, <2>7 DEF IInv, AddressesUnique, TypeOK, AttachmentType
    <3>2. \A b \in AttachmentSlots : b # a /\ attachments[b].in_use /\ attachments[b].pid = p
            => attachments[b].addr # cursor[p]
      BY DEF IInv, AddressesUnique, TypeOK, AttachmentType
    <3> QED
      BY <2>3, <2>7, <3>1, <3>2 DEF IInv, AddressesUnique
  <2>13. Tally'
    <3>1. Cardinality(AttachmentsOf(p)') = Cardinality(AttachmentsOf(p)) + 1
      <4>1. IsFiniteSet(AttachmentsOf(p))
        BY AttachmentsFinite DEF AttachmentsOf
      <4> QED
        BY <2>8, <4>1, FS_AddElement
    <3>2. Lags(p)' = 1 /\ Leads(p)' = 0 /\ Lags(p) = 0 /\ Leads(p) = 0
      BY <1>1, <2>5 DEF Lags, Leads
    <3>3. \A q \in Pids : q # p => Lags(q)' = Lags(q) /\ Leads(q)' = Leads(q)
      BY <2>5 DEF Lags, Leads
    <3>4. shm_count[p] \in Nat /\ Cardinality(AttachmentsOf(p)) \in Nat
      BY AttachmentsFinite DEF IInv, TypeOK, AttachmentsOf
    <3>5. shm_count[p] = Cardinality(AttachmentsOf(p))
      BY <3>2, <3>4 DEF IInv, Tally
    <3>6. (shm_count[p] + Lags(p) = Cardinality(AttachmentsOf(p)) + Leads(p))'
      BY <1>1, <3>1, <3>2, <3>4, <3>5
    <3>7. \A q \in Pids : q # p =>
            (shm_count[q] + Lags(q) = Cardinality(AttachmentsOf(q)) + Leads(q))'
      BY <1>1, <2>8, <3>3 DEF IInv, Tally
    <3> QED
      BY <3>6, <3>7 DEF Tally
  <2>14. Attaching'
    <3>1. a \in AttachmentsOf(p)' /\ attachments'[a].addr = loc'[p].addr
          /\ attachments'[a].shm_id = loc'[p].id
      BY <2>3, <2>6, <2>7, <2>8
    <3>2. \A q \in Pids : q # p => \A b \in AttachmentsOf(q) : b # a
      BY <2>2 DEF AttachmentsOf
    <3>3. \A q \in Pids : \A b \in AttachmentsOf(q) : b \in AttachmentSlots
      BY DEF AttachmentsOf
    <3> QED
      BY <2>3, <2>5, <2>8, <3>1, <3>2, <3>3 DEF IInv, Attaching
  <2>15. DeadAreOut'
    BY <1>1, <2>5 DEF IInv, DeadAreOut
  <2>16. FramesOwned'
    BY <1>1, <2>1, <2>4, <2>5 DEF IInv, FramesOwned
  <2>17. RefCountExact'
    <3>1. Cardinality(AttachmentsTo(id)') = Cardinality(AttachmentsTo(id)) + 1
      <4>1. IsFiniteSet(AttachmentsTo(id))
        BY AttachmentsFinite DEF AttachmentsTo
      <4> QED
        BY <2>9, <4>1, FS_AddElement
    <3>2. \A s \in RegionSlots : s # r /\ regions[s].in_use => regions[s].id # id
      BY <2>1 DEF IInv, IdsFresh
    <3>3. regions'[r].ref_count = Cardinality(AttachmentsTo(id)')
      BY <2>1, <2>4, <3>1 DEF IInv, RefCountExact
    <3>4. \A s \in RegionSlots : s # r /\ regions'[s].in_use =>
            regions'[s].ref_count = Cardinality(AttachmentsTo(regions[s].id)')
      BY <2>4, <2>9, <3>2 DEF IInv, RefCountExact
    <3> QED
      BY <2>4, <3>3, <3>4 DEF RefCountExact
  <2> QED
    BY <2>10, <2>11, <2>12, <2>13, <2>14, <2>15, <2>16, <2>17 DEF IInv
<1> QED
  BY <1>0, <1>2, <1>3 DEF AttachLocked

LEMMA AttachMapStep ==
  ASSUME IInv, TypeOK', LockDiscipline', NEW p \in Pids, AttachMap(p)
  PROVE  IInv'
<1>1. /\ UNCHANGED << regions, attachments, next_shm_id, frames, cursor, life >>
      /\ pc[p] = "map" /\ life[p] = "live"
  BY DEF AttachMap, At, tables
<1>2. CASE Goto(p, "undo") /\ UNCHANGED << shm_count, loc >>
  <2>1. \A q \in Pids : pc'[q] = pc[q] \/ (pc[q] = "map" /\ pc'[q] = "undo" /\ life[q] = "live")
    BY <1>1, <1>2 DEF Goto, IInv, TypeOK
  <2>2. \A q \in Pids : Lags(q)' = Lags(q) /\ Leads(q)' = Leads(q)
    BY <2>1 DEF Lags, Leads
  <2>3. \A q \in Pids : cursor[q] <= cursor'[q]
    BY <1>1 DEF IInv, TypeOK
  <2> QED
    BY <1>1, <1>2, <2>1, <2>2, <2>3, QuietStep
<1>3. CASE shm_count' = [shm_count EXCEPT ![p] = @ + 1] /\ Return(p)
  <2>1. /\ pc'[p] = "out"
        /\ \A q \in Pids : q # p => /\ pc'[q] = pc[q] /\ loc'[q] = loc[q]
                                   /\ shm_count'[q] = shm_count[q]
        /\ shm_count'[p] = shm_count[p] + 1
    BY <1>3 DEF Return, Goto, IInv, TypeOK
  <2>2. \A q : AttachmentsOf(q)' = AttachmentsOf(q) /\ AttachmentsTo(q)' = AttachmentsTo(q)
    BY <1>1 DEF AttachmentsOf, AttachmentsTo
  <2>3. IdsFresh' /\ AttachmentHasRegion' /\ RefCountExact' /\ AddressesUnique'
    BY <1>1, <2>2
    DEF IInv, IdsFresh, AttachmentHasRegion, RefCountExact, AddressesUnique
  <2>4. Tally'
    <3>1. Lags(p) = 1 /\ Leads(p) = 0 /\ Lags(p)' = 0 /\ Leads(p)' = 0
      BY <1>1, <2>1 DEF Lags, Leads
    <3>2. \A q \in Pids : q # p => Lags(q)' = Lags(q) /\ Leads(q)' = Leads(q)
      BY <2>1 DEF Lags, Leads
    <3>3. shm_count[p] + 1 = Cardinality(AttachmentsOf(p)) + 0
      BY <3>1 DEF IInv, Tally
    <3>4. shm_count[p] \in Nat
      BY DEF IInv, TypeOK
    <3> QED
      BY <2>1, <2>2, <3>1, <3>2, <3>3, <3>4 DEF IInv, Tally
  <2>5. Attaching' /\ DeadAreOut' /\ FramesOwned'
    BY <1>1, <2>1, <2>2 DEF IInv, Attaching, DeadAreOut, FramesOwned
  <2> QED
    BY <2>3, <2>4, <2>5 DEF IInv
<1> QED
  BY <1>2, <1>3 DEF AttachMap

\* Dropping one reference to segment id together with one attachment to it
\* leaves every count exact.
LEMMA DropOne ==
  ASSUME IInv, NEW a \in AttachmentSlots, attachments[a].in_use,
         NEW id, id = attachments[a].shm_id
  PROVE  /\ Unreferenced(regions, id) \in [RegionSlots -> RegionType]
         /\ \A r \in RegionSlots :
              /\ Unreferenced(regions, id)[r].in_use = regions[r].in_use
              /\ Unreferenced(regions, id)[r].id = regions[r].id
              /\ Unreferenced(regions, id)[r].block = regions[r].block
         /\ \A r \in RegionSlots : regions[r].in_use =>
              Unreferenced(regions, id)[r].ref_count
                = Cardinality(AttachmentsTo(regions[r].id) \ {a})
<1>1. Unreferenced(regions, id) \in [RegionSlots -> RegionType]
  BY UnreferencedType DEF IInv, TypeOK
<1>2. \A r \in RegionSlots :
        /\ Unreferenced(regions, id)[r].in_use = regions[r].in_use
        /\ Unreferenced(regions, id)[r].id = regions[r].id
        /\ Unreferenced(regions, id)[r].block = regions[r].block
  BY DEF Unreferenced, IInv, TypeOK, RegionType
<1>3. ASSUME NEW r \in RegionSlots, regions[r].in_use
      PROVE  Unreferenced(regions, id)[r].ref_count
               = Cardinality(AttachmentsTo(regions[r].id) \ {a})
  <2>1. /\ IsFiniteSet(AttachmentsTo(regions[r].id))
        /\ Cardinality(AttachmentsTo(regions[r].id)) \in Nat
    BY AttachmentsFinite DEF AttachmentsTo
  <2>2. regions[r].ref_count = Cardinality(AttachmentsTo(regions[r].id))
    BY <1>3 DEF IInv, RefCountExact
  <2>3. CASE regions[r].id = id
    <3>1. a \in AttachmentsTo(regions[r].id)
      BY <2>3 DEF AttachmentsTo
    <3>2. Cardinality(AttachmentsTo(regions[r].id)) # 0
      BY <2>1, <3>1, FS_EmptySet
    <3>3. Cardinality(AttachmentsTo(regions[r].id) \ {a}) = regions[r].ref_count - 1
      BY ZenonT(40), <2>1, <2>2, <3>1, FS_RemoveElement
    <3>4. Unreferenced(regions, id)[r].ref_count = Minus(regions[r].ref_count, 1)
      BY <1>3, <2>3 DEF Unreferenced, IInv, TypeOK, RegionType
    <3> QED
      BY <2>1, <2>2, <3>2, <3>3, <3>4 DEF Minus
  <2>4. CASE regions[r].id # id
    <3>1. a \notin AttachmentsTo(regions[r].id)
      BY <2>4 DEF AttachmentsTo
    <3>2. AttachmentsTo(regions[r].id) \ {a} = AttachmentsTo(regions[r].id)
      BY <3>1
    <3> QED
      BY <2>2, <2>4, <3>2 DEF Unreferenced
  <2> QED
    BY <2>3, <2>4
<1> QED
  BY <1>1, <1>2, <1>3

\* Taking one attachment of p out of the table.
LEMMA RemoveOne ==
  ASSUME IInv, NEW p \in Pids, NEW a \in AttachmentsOf(p), GiveUp({a})
  PROVE  /\ Cardinality(AttachmentsOf(p)') = Cardinality(AttachmentsOf(p)) - 1
         /\ Cardinality(AttachmentsOf(p)) \in Nat \ {0}
         /\ \A q \in Pids : q # p => AttachmentsOf(q)' = AttachmentsOf(q)
         /\ \A b \in AttachmentSlots \ {a} : attachments'[b] = attachments[b]
<1>1. \A q \in Pids : AttachmentsOf(q)' = AttachmentsOf(q) \ {a}
  BY GiveUpSets DEF IInv
<1>2. IsFiniteSet(AttachmentsOf(p)) /\ Cardinality(AttachmentsOf(p)) \in Nat
  BY AttachmentsFinite DEF AttachmentsOf
<1>3. Cardinality(AttachmentsOf(p)) # 0
  BY <1>2, FS_EmptySet
<1>4. Cardinality(AttachmentsOf(p) \ {a}) = Cardinality(AttachmentsOf(p)) - 1
  BY <1>2, FS_RemoveElement
<1>5. \A q \in Pids : q # p => a \notin AttachmentsOf(q)
  BY DEF AttachmentsOf
<1>6. \A q \in Pids : q # p => AttachmentsOf(q)' = AttachmentsOf(q)
  BY <1>1, <1>5
<1>7. \A b \in AttachmentSlots \ {a} : attachments'[b] = attachments[b]
  BY DEF GiveUp
<1> QED
  BY <1>1, <1>2, <1>3, <1>4, <1>6, <1>7

\* What others are attaching is not what p gives up.
LEMMA OthersAttaching ==
  ASSUME IInv, NEW p \in Pids, NEW D \in SUBSET AttachmentsOf(p), GiveUp(D),
         pc'[p] \notin {"map", "undo"},
         \A q \in Pids : q # p => pc'[q] = pc[q] /\ loc'[q] = loc[q]
  PROVE  Attaching'
<1> SUFFICES ASSUME NEW q \in Pids, pc'[q] \in {"map", "undo"}
             PROVE  \E a \in AttachmentsOf(q)' :
                      attachments'[a].addr = loc'[q].addr /\ attachments'[a].shm_id = loc'[q].id
  BY DEF Attaching
<1>1. q # p /\ pc[q] \in {"map", "undo"} /\ loc'[q] = loc[q]
  OBVIOUS
<1>2. PICK a \in AttachmentsOf(q) :
        attachments[a].addr = loc[q].addr /\ attachments[a].shm_id = loc[q].id
  BY <1>1 DEF IInv, Attaching
<1>3. a \notin D /\ a \in AttachmentSlots
  BY <1>1 DEF AttachmentsOf
<1>4. attachments'[a] = attachments[a]
  BY <1>3 DEF GiveUp
<1>5. a \in AttachmentsOf(q)'
  BY <1>3, <1>4 DEF AttachmentsOf
<1> QED
  BY <1>1, <1>2, <1>4, <1>5

LEMMA AttachUndoStep ==
  ASSUME IInv, TypeOK', LockDiscipline', NEW p \in Pids, AttachUndo(p)
  PROVE  IInv'
<1> DEFINE mine == shm_find_attachment_by_addr_locked(p, loc[p].addr)
<1>1. /\ UNCHANGED << next_shm_id, frames, cursor, shm_count, life >>
      /\ pc[p] = "undo" /\ life[p] = "live"
      /\ Return(p)
      /\ regions' = Unreferenced(regions, loc[p].id)
  BY DEF AttachUndo, Holding, At, memory, perProc
<1>2. PICK a \in AttachmentsOf(p) :
        attachments[a].addr = loc[p].addr /\ attachments[a].shm_id = loc[p].id
  BY <1>1 DEF IInv, Attaching
<1>3. a \in AttachmentSlots /\ attachments[a].in_use
  BY DEF AttachmentsOf
<1>4. mine # {} /\ First(mine) = a
  <2>1. a \in mine
    BY <1>2 DEF shm_find_attachment_by_addr_locked
  <2>2. First(mine) \in mine
    BY <2>1, FirstSlots
  <2>3. \A b \in mine : b = a
    BY <1>2 DEF shm_find_attachment_by_addr_locked, AttachmentsOf, IInv, AddressesUnique
  <2> QED
    BY <2>1, <2>2, <2>3
<1>5. GiveUp({a})
  BY <1>4 DEF AttachUndo, GiveUp
<1>6. pc'[p] = "out" /\ \A q \in Pids : q # p => pc'[q] = pc[q] /\ loc'[q] = loc[q]
  BY <1>1 DEF Return, Goto, IInv, TypeOK
<1>7. IdsFresh' /\ AttachmentHasRegion' /\ RefCountExact' /\ FramesOwned'
  <2> DEFINE regs == Unreferenced(regions, loc[p].id)
  <2>1. /\ regs \in [RegionSlots -> RegionType]
        /\ \A r \in RegionSlots :
             /\ regs[r].in_use = regions[r].in_use
             /\ regs[r].id = regions[r].id
             /\ regs[r].block = regions[r].block
        /\ \A r \in RegionSlots : regions[r].in_use =>
             regs[r].ref_count = Cardinality(AttachmentsTo(regions[r].id) \ {a})
    BY <1>2, <1>3, DropOne
  <2> HIDE DEF regs
  <2>2. \A r \in RegionSlots : regs[r].in_use =>
          regs[r].ref_count = Cardinality(AttachmentsTo(regs[r].id) \ {a})
    BY <2>1
  <2>z. PICK Z : Z = {}
    OBVIOUS
  <2>3. regions' = [r \in RegionSlots |-> IF r \in Z THEN FreeRegion ELSE regs[r]]
    BY <1>1, <2>1, <2>z DEF regs
  <2>4. frames' = frames \ {regs[r].block : r \in Z}
    BY <1>1, <2>z
  <2>6. Z \subseteq {r \in RegionSlots : regs[r].in_use /\ regs[r].ref_count = 0}
    BY <2>z
  <2>5. \A q \in Pids : pc'[q] = "create" => pc[q] = "create" /\ loc'[q] = loc[q]
    BY <1>6
  <2>7. Frees({a}, regs, Z)
    BY <1>1, <1>5, <2>1, <2>2, <2>3, <2>4, <2>5, <2>6 DEF Frees
  <2> QED
    BY <2>7, FreeingIsSafe
<1>8. AddressesUnique'
  BY <1>1, <1>5, GivenUpUnique
<1>9. Tally'
  <2>1. Lags(p) = 1 /\ Leads(p) = 0 /\ Lags(p)' = 0 /\ Leads(p)' = 0
    BY <1>1, <1>6 DEF Lags, Leads
  <2>2. \A q \in Pids : q # p => Lags(q)' = Lags(q) /\ Leads(q)' = Leads(q)
    BY <1>6 DEF Lags, Leads
  <2>3. shm_count[p] + 1 = Cardinality(AttachmentsOf(p)) + 0 /\ shm_count[p] \in Nat
    BY <2>1 DEF IInv, Tally, TypeOK
  <2>4. (shm_count[p] + Lags(p) = Cardinality(AttachmentsOf(p)) + Leads(p))'
    BY <1>1, <1>5, <2>1, <2>3, RemoveOne
  <2>5. \A q \in Pids : q # p =>
          (shm_count[q] + Lags(q) = Cardinality(AttachmentsOf(q)) + Leads(q))'
    BY <1>1, <1>5, <2>2, RemoveOne DEF IInv, Tally
  <2> QED
    BY <2>4, <2>5 DEF Tally
<1>10. Attaching'
  BY <1>5, <1>6, OthersAttaching
<1>11. DeadAreOut'
  BY <1>1, <1>6 DEF IInv, DeadAreOut
<1> QED
  BY <1>7, <1>8, <1>9, <1>10, <1>11 DEF IInv

LEMMA DetachLockedStep ==
  ASSUME IInv, TypeOK', LockDiscipline', NEW p \in Pids, DetachLocked(p)
  PROVE  IInv'
<1> DEFINE found == shm_find_attachment_by_addr_locked(p, loc[p].addr)
<1>1. /\ UNCHANGED << next_shm_id, frames, cursor, shm_count, life >>
      /\ pc[p] = "detach" /\ life[p] = "live"
  BY DEF DetachLocked, Holding, At, memory, perProc, tables
<1>2. CASE found = {}
  <2>1. Return(p) /\ UNCHANGED << regions, attachments >>
    BY <1>2 DEF DetachLocked, tables
  <2>2. \A q \in Pids :
          \/ pc'[q] = pc[q] /\ loc'[q] = loc[q]
          \/ pc[q] = "detach" /\ life[q] = "live" /\ pc'[q] = "out"
    BY <1>1, <2>1 DEF Return, Goto, IInv, TypeOK
  <2>3. \A q \in Pids : cursor[q] <= cursor'[q]
    BY <1>1 DEF IInv, TypeOK
  <2>4. \A q \in Pids : Lags(q)' = Lags(q) /\ Leads(q)' = Leads(q)
    BY <2>2 DEF Lags, Leads
  <2> QED
    BY <1>1, <2>1, <2>2, <2>3, <2>4, QuietStep
<1>3. CASE found # {}
  <2>1. PICK a : a = First(found)
    OBVIOUS
  <2>2. a \in AttachmentsOf(p) /\ a \in AttachmentSlots /\ attachments[a].in_use
    <3>1. a \in found
      BY <1>3, <2>1, FirstSlots
    <3> QED
      BY <3>1 DEF shm_find_attachment_by_addr_locked, AttachmentsOf
  <2>3. PICK id : id = attachments[a].shm_id
    OBVIOUS
  <2>4. /\ attachments' = [attachments EXCEPT ![a] = FreeAttachment]
        /\ regions' = Unreferenced(regions, id)
        /\ loc' = [loc EXCEPT ![p].id = id]
        /\ Goto(p, "unmap") \/ Goto(p, "unmap_reap")
    BY <1>3, <2>1, <2>3 DEF DetachLocked
  <2>5. GiveUp({a})
    BY <2>2, <2>4 DEF GiveUp, IInv, TypeOK
  <2>6. /\ pc'[p] \in {"unmap", "unmap_reap"}
        /\ \A q \in Pids : q # p => pc'[q] = pc[q] /\ loc'[q] = loc[q]
    BY <2>4 DEF Goto, IInv, TypeOK
  <2>7. IdsFresh' /\ AttachmentHasRegion' /\ RefCountExact' /\ FramesOwned'
    <3> DEFINE regs == Unreferenced(regions, id)
    <3>1. /\ regs \in [RegionSlots -> RegionType]
          /\ \A r \in RegionSlots :
               /\ regs[r].in_use = regions[r].in_use
               /\ regs[r].id = regions[r].id
               /\ regs[r].block = regions[r].block
          /\ \A r \in RegionSlots : regions[r].in_use =>
               regs[r].ref_count = Cardinality(AttachmentsTo(regions[r].id) \ {a})
      BY <2>2, <2>3, DropOne
    <3> HIDE DEF regs
    <3>2. \A r \in RegionSlots : regs[r].in_use =>
            regs[r].ref_count = Cardinality(AttachmentsTo(regs[r].id) \ {a})
      BY <3>1
    <3>z. PICK Z : Z = {}
      OBVIOUS
    <3>3. regions' = [r \in RegionSlots |-> IF r \in Z THEN FreeRegion ELSE regs[r]]
      BY <2>4, <3>1, <3>z DEF regs
    <3>4. frames' = frames \ {regs[r].block : r \in Z}
      BY <1>1, <3>z
    <3>6. Z \subseteq {r \in RegionSlots : regs[r].in_use /\ regs[r].ref_count = 0}
      BY <3>z
    <3>5. \A q \in Pids : pc'[q] = "create" => pc[q] = "create" /\ loc'[q] = loc[q]
      BY <2>6
    <3>7. Frees({a}, regs, Z)
      BY <1>1, <2>5, <3>1, <3>2, <3>3, <3>4, <3>5, <3>6 DEF Frees
    <3> QED
      BY <3>7, FreeingIsSafe
  <2>8. AddressesUnique'
    BY <1>1, <2>5, GivenUpUnique
  <2>9. Tally'
    <3>1. Lags(p) = 0 /\ Leads(p) = 0 /\ Lags(p)' = 0 /\ Leads(p)' = 1
      BY <1>1, <2>6 DEF Lags, Leads
    <3>2. \A q \in Pids : q # p => Lags(q)' = Lags(q) /\ Leads(q)' = Leads(q)
      BY <2>6 DEF Lags, Leads
    <3>3. shm_count[p] + 0 = Cardinality(AttachmentsOf(p)) + 0 /\ shm_count[p] \in Nat
      BY <3>1 DEF IInv, Tally, TypeOK
    <3>4. (shm_count[p] + Lags(p) = Cardinality(AttachmentsOf(p)) + Leads(p))'
      BY <1>1, <2>2, <2>5, <3>1, <3>3, RemoveOne
    <3>5. \A q \in Pids : q # p =>
            (shm_count[q] + Lags(q) = Cardinality(AttachmentsOf(q)) + Leads(q))'
      BY <1>1, <2>2, <2>5, <3>2, RemoveOne DEF IInv, Tally
    <3> QED
      BY <3>4, <3>5 DEF Tally
  <2>10. Attaching'
    BY <2>2, <2>5, <2>6, OthersAttaching
  <2>11. DeadAreOut'
    BY <1>1, <2>6 DEF IInv, DeadAreOut
  <2> QED
    BY <2>7, <2>8, <2>9, <2>10, <2>11 DEF IInv
<1> QED
  BY <1>2, <1>3

\* The cursor goes back to the start of the window only when the last
\* attachment of p is gone: here the count that lags must agree with the table.
LEMMA DetachUnmapStep ==
  ASSUME IInv, TypeOK', LockDiscipline', NEW p \in Pids, DetachUnmap(p)
  PROVE  IInv'
<1>1. /\ UNCHANGED << regions, attachments, next_shm_id, frames, life >>
      /\ pc[p] \in {"unmap", "unmap_reap"} /\ life[p] = "live"
      /\ shm_count' = [shm_count EXCEPT ![p] = Minus(@, 1)]
      /\ cursor' = IF shm_count'[p] = 0 THEN [cursor EXCEPT ![p] = ShmBase(p)] ELSE cursor
      /\ \/ Return(p)
         \/ Goto(p, "reap") /\ UNCHANGED loc
  BY DEF DetachUnmap, At, tables
<1>2. /\ pc'[p] \in {"out", "reap"}
      /\ \A q \in Pids : q # p => pc'[q] = pc[q] /\ loc'[q] = loc[q]
  BY <1>1 DEF Return, Goto, IInv, TypeOK
<1>3. \A q : AttachmentsOf(q)' = AttachmentsOf(q) /\ AttachmentsTo(q)' = AttachmentsTo(q)
  BY <1>1 DEF AttachmentsOf, AttachmentsTo
<1>4. /\ shm_count'[p] = Cardinality(AttachmentsOf(p))
      /\ Cardinality(AttachmentsOf(p)) \in Nat /\ IsFiniteSet(AttachmentsOf(p))
      /\ \A q \in Pids : q # p => shm_count'[q] = shm_count[q]
  <2>1. Lags(p) = 0 /\ Leads(p) = 1
    BY <1>1 DEF Lags, Leads
  <2>2. Cardinality(AttachmentsOf(p)) \in Nat /\ IsFiniteSet(AttachmentsOf(p))
    BY AttachmentsFinite DEF AttachmentsOf
  <2>3. shm_count[p] = Cardinality(AttachmentsOf(p)) + 1
    BY <2>1, <2>2 DEF IInv, Tally, TypeOK
  <2>4. Minus(shm_count[p], 1) = Cardinality(AttachmentsOf(p))
    BY <2>2, <2>3 DEF Minus
  <2> QED
    BY <1>1, <2>2, <2>4 DEF IInv, TypeOK
<1>5. Tally'
  <2>1. Lags(p)' = 0 /\ Leads(p)' = 0
    BY <1>2 DEF Lags, Leads
  <2>2. \A q \in Pids : q # p => Lags(q)' = Lags(q) /\ Leads(q)' = Leads(q)
    BY <1>2 DEF Lags, Leads
  <2>3. (shm_count[p] + Lags(p) = Cardinality(AttachmentsOf(p)) + Leads(p))'
    BY <1>3, <1>4, <2>1
  <2>4. \A q \in Pids : q # p =>
          (shm_count[q] + Lags(q) = Cardinality(AttachmentsOf(q)) + Leads(q))'
    BY <1>3, <1>4, <2>2 DEF IInv, Tally
  <2> QED
    BY <2>3, <2>4 DEF Tally
<1>6. AddressesUnique'
  <2>1. CASE cursor' = cursor
    BY <1>1, <2>1 DEF IInv, AddressesUnique
  <2>2. CASE shm_count'[p] = 0 /\ cursor' = [cursor EXCEPT ![p] = ShmBase(p)]
    <3>1. AttachmentsOf(p) = {}
      BY <1>4, <2>2, FS_EmptySet
    <3>2. \A a \in AttachmentSlots : attachments[a].in_use => attachments[a].pid # p
      BY <3>1 DEF AttachmentsOf
    <3>3. \A q \in Pids : q # p => cursor'[q] = cursor[q]
      BY <2>2 DEF IInv, TypeOK
    <3> QED
      BY <1>1, <3>2, <3>3 DEF IInv, AddressesUnique
  <2> QED
    BY <1>1, <2>1, <2>2
<1>7. IdsFresh' /\ AttachmentHasRegion' /\ RefCountExact'
  BY <1>1, <1>3 DEF IInv, IdsFresh, AttachmentHasRegion, RefCountExact
<1>8. Attaching' /\ DeadAreOut' /\ FramesOwned'
  BY <1>1, <1>2, <1>3 DEF IInv, Attaching, DeadAreOut, FramesOwned
<1> QED
  BY <1>5, <1>6, <1>7, <1>8 DEF IInv

\* A reap under the lock with no attachment given up: the end of shm_detach,
\* and shm_destroy.
LEMMA ReapingStep ==
  ASSUME IInv, TypeOK', LockDiscipline', NEW p \in Pids,
         pc[p] \in {"reap", "destroy"}, life[p] = "live", Return(p),
         UNCHANGED << attachments, next_shm_id, cursor, shm_count, life >>,
         NEW regs \in [RegionSlots -> RegionType], NEW R, R \subseteq RegionSlots,
         \A r \in RegionSlots :
           /\ regs[r].in_use = regions[r].in_use
           /\ regs[r].id = regions[r].id
           /\ regs[r].block = regions[r].block
           /\ regs[r].ref_count = regions[r].ref_count,
         shm_reap_region_locked(regs, R)
  PROVE  IInv'
<1>1. pc'[p] = "out" /\ \A q \in Pids : q # p => pc'[q] = pc[q] /\ loc'[q] = loc[q]
  BY DEF Return, Goto, IInv, TypeOK
<1>2. IdsFresh' /\ AttachmentHasRegion' /\ RefCountExact' /\ FramesOwned'
  <2>1. PICK D : D = {}
    OBVIOUS
  <2>2. GiveUp(D)
    BY <2>1 DEF GiveUp, IInv, TypeOK
  <2>3. \A r \in RegionSlots : regs[r].in_use =>
          regs[r].ref_count = Cardinality(AttachmentsTo(regs[r].id) \ D)
    <3>1. \A id : AttachmentsTo(id) \ D = AttachmentsTo(id)
      BY <2>1
    <3> QED
      BY <3>1 DEF IInv, RefCountExact
  <2>4. PICK Z : Z = Reapable(regs, R)
    OBVIOUS
  <2>5. /\ Z \subseteq {r \in RegionSlots : regs[r].in_use /\ regs[r].ref_count = 0}
        /\ regions' = [r \in RegionSlots |-> IF r \in Z THEN FreeRegion ELSE regs[r]]
        /\ frames' = frames \ {regs[r].block : r \in Z}
    BY <2>4 DEF Reapable, shm_reap_region_locked
  <2>6. \A q \in Pids : pc'[q] = "create" => pc[q] = "create" /\ loc'[q] = loc[q]
    BY <1>1
  <2>7. Frees(D, regs, Z)
    BY <2>2, <2>3, <2>5, <2>6 DEF Frees
  <2> QED
    BY <2>7, FreeingIsSafe
<1>3. \A q : AttachmentsOf(q)' = AttachmentsOf(q)
  BY DEF AttachmentsOf
<1>4. AddressesUnique' /\ DeadAreOut' /\ Attaching'
  BY <1>1, <1>3 DEF IInv, AddressesUnique, DeadAreOut, Attaching
<1>5. Tally'
  <2>1. \A q \in Pids : Lags(q)' = Lags(q) /\ Leads(q)' = Leads(q)
    BY <1>1 DEF Lags, Leads
  <2> QED
    BY <1>3, <2>1 DEF IInv, Tally
<1> QED
  BY <1>2, <1>4, <1>5 DEF IInv

LEMMA DetachReapStep ==
  ASSUME IInv, TypeOK', LockDiscipline', NEW p \in Pids, DetachReap(p)
  PROVE  IInv'
<1>1. /\ pc[p] = "reap" /\ life[p] = "live" /\ Return(p)
      /\ UNCHANGED << attachments, next_shm_id, cursor, shm_count, life >>
      /\ shm_reap_region_locked(regions, RegionsOf(loc[p].id))
  BY DEF DetachReap, Holding, At, perProc
<1>2. regions \in [RegionSlots -> RegionType] /\ RegionsOf(loc[p].id) \subseteq RegionSlots
  BY DEF IInv, TypeOK, RegionsOf
<1> QED
  BY <1>1, <1>2, ReapingStep

LEMMA DestroyLockedStep ==
  ASSUME IInv, TypeOK', LockDiscipline', NEW p \in Pids, DestroyLocked(p)
  PROVE  IInv'
<1>1. /\ pc[p] = "destroy" /\ life[p] = "live" /\ Return(p)
      /\ UNCHANGED << attachments, next_shm_id, cursor, shm_count, life >>
  BY DEF DestroyLocked, Holding, At, perProc
<1>2. CASE UNCHANGED << regions, frames >>
  <2>1. \A q \in Pids :
          \/ pc'[q] = pc[q] /\ loc'[q] = loc[q]
          \/ pc[q] = "destroy" /\ life[q] = "live" /\ pc'[q] = "out"
    BY <1>1 DEF Return, Goto, IInv, TypeOK
  <2>2. \A q \in Pids : cursor[q] <= cursor'[q]
    BY <1>1 DEF IInv, TypeOK
  <2>3. \A q \in Pids : Lags(q)' = Lags(q) /\ Leads(q)' = Leads(q)
    BY <2>1 DEF Lags, Leads
  <2> QED
    BY <1>1, <1>2, <2>1, <2>2, <2>3, QuietStep
<1>3. ASSUME NEW r \in RegionSlots,
             shm_reap_region_locked([regions EXCEPT ![r].destroy_pending = TRUE], {r})
      PROVE  IInv'
  <2> DEFINE regs == [regions EXCEPT ![r].destroy_pending = TRUE]
  <2>1. regs \in [RegionSlots -> RegionType]
    BY RegionUpdate DEF IInv
  <2>2. \A s \in RegionSlots :
          /\ regs[s].in_use = regions[s].in_use
          /\ regs[s].id = regions[s].id
          /\ regs[s].block = regions[s].block
          /\ regs[s].ref_count = regions[s].ref_count
    BY DEF IInv, TypeOK, RegionType
  <2>3. shm_reap_region_locked(regs, {r})
    BY <1>3
  <2> HIDE DEF regs
  <2> QED
    BY <1>1, <2>1, <2>2, <2>3, ReapingStep
<1> QED
  BY <1>2, <1>3 DEF DestroyLocked, RegionsOf

\* Death drops the attachments of p and exactly their references, then frees
\* what nobody holds any more.
LEMMA DeathStep ==
  ASSUME IInv, TypeOK', LockDiscipline', NEW p \in Pids, Die(p) \/ Reap(p) \/ ExecOver(p)
  PROVE  IInv'
<1>1. /\ shm_process_cleanup(p)
      /\ next_shm_id' = next_shm_id
      /\ life[p] \in {"live", "zombie"}
      /\ Return(p) \/ (life[p] = "zombie" /\ UNCHANGED << pc, loc >>)
      /\ \A q \in Pids : q # p => life'[q] = life[q]
  BY DEF Die, Reap, ExecOver, shm_process_cleanup, IInv, TypeOK
<1>2. pc'[p] = "out" /\ \A q \in Pids : q # p => pc'[q] = pc[q] /\ loc'[q] = loc[q]
  BY <1>1 DEF Return, Goto, IInv, TypeOK, DeadAreOut
<1>3. PICK D : D = AttachmentsOf(p)
  OBVIOUS
<1>4. GiveUp(D) /\ D \in SUBSET AttachmentsOf(p)
  BY <1>1, <1>3 DEF GiveUp, shm_process_cleanup
<1>5. /\ shm_count'[p] = 0
      /\ \A q \in Pids : q # p => shm_count'[q] = shm_count[q] /\ cursor'[q] = cursor[q]
  BY <1>1 DEF shm_process_cleanup, IInv, TypeOK
<1>6. /\ AttachmentsOf(p)' = {}
      /\ \A q \in Pids : q # p => AttachmentsOf(q)' = AttachmentsOf(q)
  <2>1. \A q \in Pids : AttachmentsOf(q)' = AttachmentsOf(q) \ D
    BY <1>4, GiveUpSets DEF IInv
  <2>2. \A q \in Pids : q # p => AttachmentsOf(q) \cap D = {}
    BY <1>3 DEF AttachmentsOf
  <2> QED
    BY <1>3, <2>1, <2>2
<1>7. IdsFresh' /\ AttachmentHasRegion' /\ RefCountExact' /\ FramesOwned'
  <2>1. PICK regs : regs = Dropped(p)
    OBVIOUS
  <2>2. regs \in [RegionSlots -> RegionType]
    BY <2>1, DroppedType DEF IInv, TypeOK
  <2>3. \A r \in RegionSlots :
          /\ regs[r].in_use = regions[r].in_use
          /\ regs[r].id = regions[r].id
          /\ regs[r].block = regions[r].block
    BY ZenonT(40), <2>1 DEF Dropped, IInv, TypeOK, RegionType
  <2>4. ASSUME NEW r \in RegionSlots, regs[r].in_use
        PROVE  regs[r].ref_count = Cardinality(AttachmentsTo(regs[r].id) \ D)
    <3>1. PICK A : A = AttachmentsTo(regions[r].id)
      OBVIOUS
    <3>2. IsFiniteSet(A) /\ Cardinality(A) \in Nat
      BY <3>1, AttachmentsFinite DEF AttachmentsTo
    <3>3. regs[r].ref_count = Minus(regions[r].ref_count, Cardinality(D \cap A))
      <4>1. regions[r].in_use /\ regions[r] \in RegionType
        BY <2>3, <2>4 DEF IInv, TypeOK
      <4>2. PICK n : n = Minus(regions[r].ref_count,
                               Cardinality(AttachmentsOf(p) \cap AttachmentsTo(regions[r].id)))
        OBVIOUS
      <4>3. regs[r] = [regions[r] EXCEPT !.ref_count = n,
                                         !.destroy_pending = @ \/ regions[r].owner = p,
                                         !.owner = IF @ = p THEN NoOne ELSE @]
        BY <2>1, <4>1, <4>2 DEF Dropped
      <4>4. regs[r].ref_count = n
        BY <4>1, <4>3 DEF RegionType
      <4> QED
        BY <1>3, <3>1, <4>2, <4>4
    <3>4. regions[r].ref_count = Cardinality(A)
      BY <2>3, <2>4, <3>1 DEF IInv, RefCountExact
    <3>5. D \cap A = A \cap D
      OBVIOUS
    <3>6. Cardinality(A \ D) = Cardinality(A) - Cardinality(A \cap D)
      BY <3>2, FS_Difference
    <3>7. Cardinality(A \ D) \in Nat /\ Cardinality(A \cap D) \in Nat
      <4>1. A \ D \subseteq AttachmentSlots /\ A \cap D \subseteq AttachmentSlots
        BY <3>1 DEF AttachmentsTo
      <4> QED
        BY <4>1, AttachmentsFinite
    <3>8. Minus(Cardinality(A), Cardinality(A \cap D)) = Cardinality(A \ D)
      BY <3>2, <3>6, <3>7 DEF Minus
    <3> QED
      BY <2>3, <3>1, <3>3, <3>4, <3>5, <3>8
  <2>5. PICK Z : Z = Reapable(regs, RegionSlots)
    OBVIOUS
  <2>6. /\ Z \subseteq {r \in RegionSlots : regs[r].in_use /\ regs[r].ref_count = 0}
        /\ regions' = [r \in RegionSlots |-> IF r \in Z THEN FreeRegion ELSE regs[r]]
        /\ frames' = frames \ {regs[r].block : r \in Z}
    BY <1>1, <2>1, <2>5 DEF Reapable, shm_process_cleanup, shm_reap_region_locked
  <2>7. \A q \in Pids : pc'[q] = "create" => pc[q] = "create" /\ loc'[q] = loc[q]
    BY <1>2
  <2>8. Frees(D, regs, Z)
    BY <1>1, <1>4, <2>2, <2>3, <2>4, <2>6, <2>7 DEF Frees
  <2> QED
    BY <2>8, FreeingIsSafe
<1>8. AddressesUnique'
  <2>1. \A q \in Pids : AttachmentsOf(q) \ D # {} => cursor'[q] = cursor[q]
    BY <1>3, <1>5
  <2> QED
    BY <1>4, <2>1, GivenUpUnique
<1>9. Tally'
  <2>1. Lags(p)' = 0 /\ Leads(p)' = 0
    BY <1>2 DEF Lags, Leads
  <2>2. \A q \in Pids : q # p => Lags(q)' = Lags(q) /\ Leads(q)' = Leads(q)
    BY <1>2 DEF Lags, Leads
  <2>3. (shm_count[p] + Lags(p) = Cardinality(AttachmentsOf(p)) + Leads(p))'
    BY <1>5, <1>6, <2>1, FS_EmptySet
  <2>4. \A q \in Pids : q # p =>
          (shm_count[q] + Lags(q) = Cardinality(AttachmentsOf(q)) + Leads(q))'
    BY <1>5, <1>6, <2>2 DEF IInv, Tally
  <2> QED
    BY <2>3, <2>4 DEF Tally
<1>10. Attaching'
  BY <1>2, <1>4, OthersAttaching
<1>11. DeadAreOut'
  BY <1>1, <1>2 DEF IInv, DeadAreOut
<1> QED
  BY <1>7, <1>8, <1>9, <1>10, <1>11 DEF IInv

LEMMA IInvStep == IInv /\ [Next]_vars => IInv'
<1> SUFFICES ASSUME IInv, [Next]_vars PROVE IInv'
  OBVIOUS
<1>1. TypeOK' /\ LockDiscipline'
  BY TypeStep DEF IInv
<1>2. CASE UNCHANGED vars
  BY <1>2 DEF vars, IInv, TypeOK, LockDiscipline, IdsFresh, AttachmentHasRegion,
     AddressesUnique, Tally, Lags, Leads, Attaching, DeadAreOut, FramesOwned,
     RefCountExact, AttachmentsOf, AttachmentsTo
<1>3. CASE Next
  BY <1>1, <1>3, CreateAllocStep, CreateLockedStep, QuietActions, AttachLockedStep,
     AttachMapStep, AttachUndoStep, DetachLockedStep, DetachUnmapStep, DetachReapStep,
     DestroyLockedStep, DeathStep DEF Next
<1> QED
  BY <1>2, <1>3

LEMMA IInvAlways == Spec => []IInv
BY IInvInit, IInvStep, PTL DEF Spec

---------------------------------------------------------------------------
(* The page table. *)

\* a is an attachment whose mapping is done.
Settled(a) ==
  /\ attachments[a].in_use
  /\ ~(/\ pc[attachments[a].pid] \in {"map", "undo"}
       /\ loc[attachments[a].pid].addr = attachments[a].addr)

\* p has given its attachment up and not yet unmapped its address.
Unmapping(p) == pc[p] \in {"unmap", "unmap_reap"}

\* A settled attachment's address holds its segment, and is nobody else's.
SettledMapped ==
  \A a \in AttachmentSlots : Settled(a) =>
    /\ pte[attachments[a].addr] # NoBlock
    /\ \A r \in RegionSlots : regions[r].in_use /\ regions[r].id = attachments[a].shm_id =>
         pte[attachments[a].addr] = regions[r].block
    /\ \A b \in AttachmentSlots :
         Settled(b) /\ attachments[a].addr = attachments[b].addr => a = b
    /\ \A p \in Pids : Unmapping(p) => loc[p].addr # attachments[a].addr

\* So is an address that is being unmapped, until it is.
UnmappingMapped ==
  \A p \in Pids : Unmapping(p) =>
    /\ loc[p].addr \in Addresses /\ pte[loc[p].addr] # NoBlock
    /\ \A q \in Pids : Unmapping(q) /\ loc[p].addr = loc[q].addr => p = q

\* What is mapped is one or the other.
NothingElseMapped ==
  \A x \in Addresses : pte[x] # NoBlock =>
    \/ \E a \in AttachmentSlots : Settled(a) /\ attachments[a].addr = x
    \/ \E p \in Pids : Unmapping(p) /\ loc[p].addr = x

\* Attachments are at addresses, and an attach maps the pages of its segment.
MapsSegment ==
  /\ \A a \in AttachmentSlots : attachments[a].in_use => attachments[a].addr \in Addresses
  /\ \A p \in Pids : pc[p] = "map" =>
       \A r \in RegionSlots : regions[r].in_use /\ regions[r].id = loc[p].id =>
         regions[r].block = loc[p].block

MapInv == SettledMapped /\ UnmappingMapped /\ NothingElseMapped /\ MapsSegment

\* Nobody's attach or detach moved.
Busy(q) == pc[q] \in {"map", "undo"}
CallKept(q) ==
  /\ Busy(q)' <=> Busy(q)
  /\ Busy(q) => loc'[q].addr = loc[q].addr
  /\ Unmapping(q)' <=> Unmapping(q)
  /\ Unmapping(q) => loc'[q].addr = loc[q].addr

\* A region is as it was, or is new.
RegionKept(r) ==
  regions'[r].in_use =>
    \/ regions[r].in_use /\ regions'[r].id = regions[r].id /\ regions'[r].block = regions[r].block
    \/ regions'[r].id >= next_shm_id

\* Every id in use was handed out before.
LEMMA OldIds ==
  ASSUME IInv
  PROVE  /\ next_shm_id \in Nat
         /\ \A r \in RegionSlots : regions[r].in_use => regions[r].id \in Nat /\ regions[r].id < next_shm_id
         /\ \A a \in AttachmentSlots : attachments[a].in_use =>
              /\ attachments[a].pid \in Pids
              /\ attachments[a].shm_id \in Nat /\ attachments[a].shm_id < next_shm_id
         /\ \A p \in Pids : Busy(p) => loc[p].id \in Nat /\ loc[p].id < next_shm_id
<1>1. next_shm_id \in Nat
  BY ShmAssumption DEF IInv, TypeOK
<1>2. \A r \in RegionSlots : regions[r].in_use => regions[r].id \in Nat /\ regions[r].id < next_shm_id
  <2>1. \A r \in RegionSlots : regions[r].id \in 0..MaxShmId
    BY DEF IInv, TypeOK, RegionType
  <2> QED
    BY <2>1, ShmAssumption DEF IInv, IdsFresh
<1>3. \A a \in AttachmentSlots : attachments[a].in_use =>
        /\ attachments[a].pid \in Pids
        /\ attachments[a].shm_id \in Nat /\ attachments[a].shm_id < next_shm_id
  BY <1>2 DEF IInv, AddressesUnique, AttachmentHasRegion
<1>4. \A p \in Pids : Busy(p) => loc[p].id \in Nat /\ loc[p].id < next_shm_id
  <2> SUFFICES ASSUME NEW p \in Pids, Busy(p)
               PROVE  loc[p].id \in Nat /\ loc[p].id < next_shm_id
    OBVIOUS
  <2>1. PICK a \in AttachmentsOf(p) : attachments[a].shm_id = loc[p].id
    BY DEF IInv, Attaching, Busy
  <2> QED
    BY <2>1, <1>3 DEF AttachmentsOf
<1> QED
  BY <1>1, <1>2, <1>3, <1>4

\* Settled attachments that are as they were, before the same page table.
LEMMA SameMappings ==
  ASSUME IInv, MapInv, pte' = pte,
         \A r \in RegionSlots : RegionKept(r),
         \A a \in AttachmentSlots : Settled(a)' <=> Settled(a),
         \A a \in AttachmentSlots : Settled(a) =>
           /\ attachments'[a].addr = attachments[a].addr
           /\ attachments'[a].shm_id = attachments[a].shm_id,
         \A q \in Pids : Unmapping(q)' <=> Unmapping(q),
         \A q \in Pids : Unmapping(q) => loc'[q].addr = loc[q].addr
  PROVE  SettledMapped' /\ UnmappingMapped' /\ NothingElseMapped'
<1>1. UnmappingMapped'
  BY DEF MapInv, UnmappingMapped
<1>2. NothingElseMapped'
  BY DEF MapInv, NothingElseMapped
<1>3. SettledMapped'
  <2> SUFFICES ASSUME NEW a \in AttachmentSlots, Settled(a), Settled(a)'
               PROVE  /\ pte'[attachments'[a].addr] # NoBlock
                      /\ \A r \in RegionSlots :
                           regions'[r].in_use /\ regions'[r].id = attachments'[a].shm_id =>
                             pte'[attachments'[a].addr] = regions'[r].block
                      /\ \A b \in AttachmentSlots :
                           Settled(b)' /\ attachments'[a].addr = attachments'[b].addr => a = b
                      /\ \A p \in Pids : Unmapping(p)' => loc'[p].addr # attachments'[a].addr
    BY DEF SettledMapped
  <2>1. attachments'[a].addr = attachments[a].addr /\ attachments'[a].shm_id = attachments[a].shm_id
    OBVIOUS
  <2>2. attachments[a].shm_id \in Nat /\ attachments[a].shm_id < next_shm_id /\ next_shm_id \in Nat
    BY OldIds DEF Settled
  <2>3. ASSUME NEW r \in RegionSlots, regions'[r].in_use, regions'[r].id = attachments'[a].shm_id
        PROVE  pte'[attachments'[a].addr] = regions'[r].block
    <3>1. ~(regions'[r].id >= next_shm_id)
      BY <2>1, <2>2, <2>3
    <3>2. regions[r].in_use /\ regions'[r].id = regions[r].id /\ regions'[r].block = regions[r].block
      BY <2>3, <3>1 DEF RegionKept
    <3> QED
      BY <2>1, <2>3, <3>2 DEF MapInv, SettledMapped
  <2>4. pte'[attachments'[a].addr] # NoBlock
    BY <2>1 DEF MapInv, SettledMapped
  <2>5. \A b \in AttachmentSlots :
          Settled(b)' /\ attachments'[a].addr = attachments'[b].addr => a = b
    BY <2>1 DEF MapInv, SettledMapped
  <2>6. \A p \in Pids : Unmapping(p)' => loc'[p].addr # attachments'[a].addr
    BY <2>1 DEF MapInv, SettledMapped
  <2> QED
    BY <2>3, <2>4, <2>5, <2>6
<1> QED
  BY <1>1, <1>2, <1>3

\* A step that moves no attach and no detach and leaves the attachments alone.
LEMMA SameSettled ==
  ASSUME IInv, attachments' = attachments, \A q \in Pids : CallKept(q)
  PROVE  /\ \A a \in AttachmentSlots : Settled(a)' <=> Settled(a)
         /\ \A a \in AttachmentSlots : Settled(a) =>
              /\ attachments'[a].addr = attachments[a].addr
              /\ attachments'[a].shm_id = attachments[a].shm_id
         /\ \A q \in Pids : Unmapping(q)' <=> Unmapping(q)
         /\ \A q \in Pids : Unmapping(q) => loc'[q].addr = loc[q].addr
<1>1. \A a \in AttachmentSlots : attachments[a].in_use => attachments[a].pid \in Pids
  BY OldIds
<1>2. ASSUME NEW a \in AttachmentSlots PROVE Settled(a)' <=> Settled(a)
  <2>1. CASE ~attachments[a].in_use
    BY <2>1 DEF Settled
  <2>2. CASE attachments[a].in_use
    <3>1. CallKept(attachments[a].pid)
      BY <2>2, <1>1
    <3> QED
      BY <3>1 DEF Settled, CallKept, Busy
  <2> QED
    BY <2>1, <2>2
<1> QED
  BY <1>2 DEF CallKept

\* What an attach is about to map stays what its segment has.
LEMMA SameSegments ==
  ASSUME IInv, MapInv,
         \A r \in RegionSlots : RegionKept(r),
         \A a \in AttachmentSlots : attachments'[a].in_use =>
           \/ attachments[a].in_use /\ attachments'[a].addr = attachments[a].addr
           \/ attachments'[a].addr \in Addresses,
         \A q \in Pids : pc'[q] = "map" =>
           pc[q] = "map" /\ loc'[q].id = loc[q].id /\ loc'[q].block = loc[q].block
  PROVE  MapsSegment'
<1>1. \A a \in AttachmentSlots : attachments'[a].in_use => attachments'[a].addr \in Addresses
  BY DEF MapInv, MapsSegment
<1>2. ASSUME NEW q \in Pids, pc'[q] = "map", NEW r \in RegionSlots, regions'[r].in_use,
             regions'[r].id = loc'[q].id
      PROVE  regions'[r].block = loc'[q].block
  <2>1. pc[q] = "map" /\ loc'[q].id = loc[q].id /\ loc'[q].block = loc[q].block
    BY <1>2
  <2>2. loc[q].id \in Nat /\ loc[q].id < next_shm_id /\ next_shm_id \in Nat
    BY <2>1, OldIds DEF Busy
  <2>3. ~(regions'[r].id >= next_shm_id)
    BY <1>2, <2>1, <2>2
  <2>4. regions[r].in_use /\ regions'[r].id = regions[r].id /\ regions'[r].block = regions[r].block
    BY <1>2, <2>3 DEF RegionKept
  <2> QED
    BY <1>2, <2>1, <2>4 DEF MapInv, MapsSegment
<1> QED
  BY <1>1, <1>2, Addresses' = Addresses DEF MapsSegment

\* The two together, for the steps that only move a call through its other points.
LEMMA QuietMapStep ==
  ASSUME IInv, MapInv, pte' = pte, attachments' = attachments,
         \A r \in RegionSlots : RegionKept(r),
         \A q \in Pids : CallKept(q),
         \A q \in Pids : pc'[q] = "map" =>
           pc[q] = "map" /\ loc'[q].id = loc[q].id /\ loc'[q].block = loc[q].block
  PROVE  MapInv'
<1>1. SettledMapped' /\ UnmappingMapped' /\ NothingElseMapped'
  BY SameSettled, SameMappings
<1>2. MapsSegment'
  BY SameSegments
<1> QED
  BY <1>1, <1>2 DEF MapInv

\* shm_create, and every first step of a call: no mapping changes.
LEMMA OutsideMapStep ==
  ASSUME IInv, MapInv, NEW p \in Pids,
         \/ CreateAlloc(p) \/ CreateLocked(p) \/ Acquire(p) \/ CleanupSpins(p)
         \/ \E id \in ShmIds : AttachEnter(p, id) \/ DestroyEnter(p, id)
         \/ \E x \in Addresses : DetachEnter(p, x)
         \/ DetachReap(p) \/ DestroyLocked(p)
  PROVE  MapInv'
<1>1. pte' = pte /\ attachments' = attachments
  BY DEF CreateAlloc, CreateLocked, Acquire, CleanupSpins, AttachEnter, DestroyEnter, DetachEnter,
         DetachReap, DestroyLocked, tables, memory
<1>2. /\ \A q \in Pids : q # p => pc'[q] = pc[q] /\ loc'[q] = loc[q]
      /\ \/ pc'[p] = pc[p] /\ loc'[p] = loc[p]
         \/ /\ pc[p] \notin {"map", "undo", "unmap", "unmap_reap"}
            /\ pc'[p] \notin {"map", "undo", "unmap", "unmap_reap"}
  BY DEF CreateAlloc, CreateLocked, Acquire, CleanupSpins, AttachEnter, DestroyEnter, DetachEnter,
         DetachReap, DestroyLocked, IInv, TypeOK, Goto, Return, At, Holding
<1>3. \A q \in Pids : CallKept(q)
  BY <1>2 DEF CallKept, Busy, Unmapping
<1>4. \A q \in Pids : pc'[q] = "map" =>
        pc[q] = "map" /\ loc'[q].id = loc[q].id /\ loc'[q].block = loc[q].block
  BY <1>2
<1>5. \A r \in RegionSlots : RegionKept(r)
  <2>1. CASE UNCHANGED regions
    BY <2>1 DEF RegionKept
  <2>2. CASE CreateLocked(p)
    <3>1. CASE FreeRegions = {} /\ UNCHANGED regions
      BY <3>1, <2>1
    <3>2. CASE FreeRegions # {} /\ regions' = [regions EXCEPT ![First(FreeRegions)] =
                 [FreeRegion EXCEPT !.in_use = TRUE, !.id = next_shm_id,
                                    !.owner = p, !.block = loc[p].block]]
      <4>1. PICK f \in RegionSlots : f = First(FreeRegions)
        BY <3>2, FirstSlots DEF FreeRegions
      <4>2. /\ \A r \in RegionSlots : r # f => regions'[r] = regions[r]
            /\ regions'[f].id = next_shm_id
        BY <3>2, <4>1 DEF IInv, TypeOK, FreeRegion
      <4>3. next_shm_id >= next_shm_id
        BY OldIds
      <4> QED
        BY <4>2, <4>3 DEF RegionKept
    <3> QED
      BY <2>2, <3>1, <3>2 DEF CreateLocked
  <2>3. ASSUME NEW regs, NEW R, shm_reap_region_locked(regs, R),
               \A r \in RegionSlots : /\ regs[r].in_use = regions[r].in_use
                                      /\ regs[r].id = regions[r].id
                                      /\ regs[r].block = regions[r].block
        PROVE  \A r \in RegionSlots : RegionKept(r)
    <3>1. \A r \in RegionSlots : regions'[r] = FreeRegion \/ regions'[r] = regs[r]
      BY <2>3 DEF shm_reap_region_locked
    <3> QED
      BY <2>3, <3>1 DEF RegionKept, FreeRegion
  <2>4. CASE DetachReap(p)
    BY <2>4, <2>3 DEF DetachReap
  <2>5. CASE DestroyLocked(p)
    <3>1. CASE UNCHANGED regions
      BY <3>1, <2>1
    <3>2. ASSUME NEW r \in RegionSlots,
                 shm_reap_region_locked([regions EXCEPT ![r].destroy_pending = TRUE], {r})
          PROVE  \A s \in RegionSlots : RegionKept(s)
      <4> DEFINE regs == [regions EXCEPT ![r].destroy_pending = TRUE]
      <4>1. \A s \in RegionSlots : /\ regs[s].in_use = regions[s].in_use
                                   /\ regs[s].id = regions[s].id
                                   /\ regs[s].block = regions[s].block
        BY DEF IInv, TypeOK, RegionType
      <4>2. shm_reap_region_locked(regs, {r})
        BY <3>2
      <4> HIDE DEF regs
      <4> QED
        BY <4>1, <4>2, <2>3
    <3> QED
      BY <2>5, <3>1, <3>2 DEF DestroyLocked, RegionsOf
  <2> QED
    BY <2>1, <2>2, <2>4, <2>5
    DEF CreateAlloc, Acquire, CleanupSpins, AttachEnter, DestroyEnter, DetachEnter, tables
<1> QED
  BY <1>1, <1>3, <1>4, <1>5, QuietMapStep

\* shm_attach up to the mapping: the new attachment is not settled yet.
LEMMA AttachLockedMapStep ==
  ASSUME IInv, MapInv, NEW p \in Pids, AttachLocked(p)
  PROVE  MapInv'
<1>1. pte' = pte /\ pc[p] = "attach" /\ \A q \in Pids : q # p => pc'[q] = pc[q] /\ loc'[q] = loc[q]
  BY DEF AttachLocked, memory, Holding, At, Return, Goto, IInv, TypeOK
<1>2. CASE Return(p) /\ UNCHANGED tables
  <2>1. pc'[p] = "out"
    BY <1>2 DEF Return, Goto, IInv, TypeOK
  <2>2. \A q \in Pids : CallKept(q)
    BY <1>1, <2>1 DEF CallKept, Busy, Unmapping
  <2>3. \A q \in Pids : pc'[q] = "map" =>
          pc[q] = "map" /\ loc'[q].id = loc[q].id /\ loc'[q].block = loc[q].block
    BY <1>1, <2>1
  <2>4. attachments' = attachments /\ \A r \in RegionSlots : RegionKept(r)
    BY <1>2 DEF tables, RegionKept
  <2> QED
    BY <1>1, <2>2, <2>3, <2>4, QuietMapStep
<1>3. CASE ~(Return(p) /\ UNCHANGED tables)
  <2>1. PICK id, f, r, c : id = loc[p].id /\ f = First(FreeAttachments) /\ r = First(RegionsOf(id)) /\ c = cursor[p]
    OBVIOUS
  <2>2. /\ RegionsOf(id) # {} /\ c < ShmLimit /\ FreeAttachments # {}
        /\ attachments' = [attachments EXCEPT ![f] =
             [in_use |-> TRUE, shm_id |-> id, pid |-> p, addr |-> c]]
        /\ regions' = [regions EXCEPT ![r].ref_count = @ + 1]
        /\ loc' = [loc EXCEPT ![p].addr = c, ![p].block = regions[r].block]
        /\ Goto(p, "map")
    BY <1>3, <2>1 DEF AttachLocked
  <2>3. f \in AttachmentSlots /\ ~attachments[f].in_use /\ r \in RegionSlots /\ regions[r].in_use /\ regions[r].id = id
    <3>1. f \in FreeAttachments /\ r \in RegionsOf(id)
      BY <2>1, <2>2, FirstSlots
    <3> QED
      BY <3>1 DEF FreeAttachments, RegionsOf
  <2>4. c \in Addresses
    <3>1. ShmLimit \in Nat /\ c \in Nat
      BY <2>1, ShmAssumption DEF ShmLimit, IInv, TypeOK
    <3> QED
      BY <2>2, <3>1 DEF Addresses
  <2>5. pc'[p] = "map" /\ loc'[p].addr = c /\ loc'[p].block = regions[r].block /\ loc'[p].id = id
    BY <2>1, <2>2 DEF Goto, IInv, TypeOK, LocalsType
  <2>6. /\ attachments'[f] = [in_use |-> TRUE, shm_id |-> id, pid |-> p, addr |-> c]
        /\ \A a \in AttachmentSlots : a # f => attachments'[a] = attachments[a]
    BY <2>2, <2>3 DEF IInv, TypeOK
  <2>7. \A s \in RegionSlots : /\ regions'[s].in_use = regions[s].in_use
                               /\ regions'[s].id = regions[s].id
                               /\ regions'[s].block = regions[s].block
    BY <2>2, <2>3 DEF IInv, TypeOK, RegionType
  <2>8. \A s \in RegionSlots : RegionKept(s)
    BY <2>7 DEF RegionKept
  <2>9. ASSUME NEW a \in AttachmentSlots PROVE Settled(a)' <=> Settled(a)
    <3>1. CASE a = f
      <4>1. ~Settled(a)
        BY <3>1, <2>3 DEF Settled
      <4>2. attachments'[a].pid = p /\ attachments'[a].addr = c
        BY <3>1, <2>6
      <4> QED
        BY <4>1, <4>2, <2>5 DEF Settled
    <3>2. CASE a # f /\ ~attachments[a].in_use
      BY <3>2, <2>6 DEF Settled
    <3>3. CASE a # f /\ attachments[a].in_use
      <4>1. attachments'[a] = attachments[a] /\ attachments[a].pid \in Pids
        BY <3>3, <2>6, OldIds
      <4>2. CASE attachments[a].pid # p
        BY <4>1, <4>2, <1>1 DEF Settled
      <4>3. CASE attachments[a].pid = p
        <5>1. attachments[a].addr < c /\ attachments[a].addr \in Nat /\ c \in Nat
          BY <3>3, <4>3, <2>1 DEF IInv, AddressesUnique, TypeOK, AttachmentType
        <5>2. attachments[a].addr # loc'[p].addr
          BY <5>1, <2>5
        <5> QED
          BY <4>1, <4>3, <5>2, <1>1 DEF Settled
      <4> QED
        BY <4>2, <4>3
    <3> QED
      BY <3>1, <3>2, <3>3
  <2>10. \A a \in AttachmentSlots : Settled(a) =>
           /\ attachments'[a].addr = attachments[a].addr
           /\ attachments'[a].shm_id = attachments[a].shm_id
    BY <2>3, <2>6 DEF Settled
  <2>11. \A q \in Pids : (Unmapping(q)' <=> Unmapping(q)) /\ (Unmapping(q) => loc'[q].addr = loc[q].addr)
    BY <1>1, <2>5 DEF Unmapping
  <2>12. SettledMapped' /\ UnmappingMapped' /\ NothingElseMapped'
    BY <1>1, <2>8, <2>9, <2>10, <2>11, SameMappings
  <2>13. MapsSegment'
    <3>1. \A a \in AttachmentSlots : attachments'[a].in_use => attachments'[a].addr \in Addresses
      BY <2>4, <2>6 DEF MapInv, MapsSegment
    <3>2. ASSUME NEW q \in Pids, pc'[q] = "map", NEW s \in RegionSlots, regions'[s].in_use,
                 regions'[s].id = loc'[q].id
          PROVE  regions'[s].block = loc'[q].block
      <4>1. regions[s].in_use /\ regions[s].id = loc'[q].id /\ regions'[s].block = regions[s].block
        BY <3>2, <2>7
      <4>2. CASE q = p
        <5>1. s = r
          BY <4>1, <4>2, <2>3, <2>5 DEF IInv, IdsFresh
        <5> QED
          BY <4>1, <4>2, <5>1, <2>5
      <4>3. CASE q # p
        BY <3>2, <4>1, <4>3, <1>1 DEF MapInv, MapsSegment
      <4> QED
        BY <4>2, <4>3
    <3> QED
      BY <3>1, <3>2, Addresses' = Addresses DEF MapsSegment
  <2> QED
    BY <2>12, <2>13 DEF MapInv
<1> QED
  BY <1>2, <1>3

\* The mapping itself: its attachment becomes settled, at an address nobody had, or
\* the mapping is refused and nothing changes.
LEMMA AttachMapMapStep ==
  ASSUME IInv, MapInv, NEW p \in Pids, AttachMap(p)
  PROVE  MapInv'
<1>1. /\ UNCHANGED << regions, attachments, next_shm_id, frames, cursor, life >>
      /\ pc[p] = "map" /\ \A q \in Pids : q # p => pc'[q] = pc[q] /\ loc'[q] = loc[q]
  BY DEF AttachMap, At, tables, Return, Goto, IInv, TypeOK
<1>2. \A r \in RegionSlots : RegionKept(r)
  BY <1>1 DEF RegionKept
<1>3. CASE Goto(p, "undo") /\ UNCHANGED << pte, loc >>
  <2>1. pc'[p] = "undo" /\ loc'[p] = loc[p]
    BY <1>3 DEF Goto, IInv, TypeOK
  <2>2. \A q \in Pids : CallKept(q)
    BY <1>1, <2>1 DEF CallKept, Busy, Unmapping
  <2>3. \A q \in Pids : pc'[q] = "map" =>
          pc[q] = "map" /\ loc'[q].id = loc[q].id /\ loc'[q].block = loc[q].block
    BY <1>1, <2>1
  <2> QED
    BY <1>1, <1>2, <1>3, <2>2, <2>3, QuietMapStep
<1>4. CASE /\ pte[loc[p].addr] = NoBlock
           /\ pte' = [pte EXCEPT ![loc[p].addr] = loc[p].block]
           /\ Return(p)
  <2>1. PICK x, B : x = loc[p].addr /\ B = loc[p].block
    OBVIOUS
  <2>2. pc'[p] = "out"
    BY <1>4 DEF Return, Goto, IInv, TypeOK
  <2>3. PICK f \in AttachmentSlots :
          /\ attachments[f].in_use /\ attachments[f].pid = p
          /\ attachments[f].addr = x /\ attachments[f].shm_id = loc[p].id
    BY <1>1, <2>1 DEF IInv, Attaching, AttachmentsOf
  <2>4. x \in Addresses
    BY <2>3 DEF MapInv, MapsSegment
  <2>5. \A r \in RegionSlots : regions[r].in_use /\ regions[r].id = attachments[f].shm_id =>
          regions[r].block = B
    BY <1>1, <2>1, <2>3 DEF MapInv, MapsSegment
  <2>6. B # NoBlock
    <3>1. PICK r \in RegionSlots : regions[r].in_use /\ regions[r].id = attachments[f].shm_id
      BY <2>3 DEF IInv, AttachmentHasRegion
    <3>2. regions[r].block \in Blocks
      BY <3>1 DEF IInv, FramesOwned, TypeOK
    <3> QED
      BY <3>1, <3>2, <2>5, BlockAssumption
  <2>7. /\ pte'[x] = B /\ \A y \in Addresses : y # x => pte'[y] = pte[y]
        /\ pte[x] = NoBlock
    BY <1>4, <2>1, <2>4 DEF IInv, TypeOK
  <2>8. /\ Settled(f)' /\ ~Settled(f)
        /\ \A a \in AttachmentSlots : a # f => (Settled(a)' <=> Settled(a))
    <3>1. Settled(f)' /\ ~Settled(f)
      BY <1>1, <2>1, <2>2, <2>3 DEF Settled
    <3>2. ASSUME NEW a \in AttachmentSlots, a # f PROVE Settled(a)' <=> Settled(a)
      <4>1. CASE ~attachments[a].in_use
        BY <4>1, <1>1 DEF Settled
      <4>2. CASE attachments[a].in_use /\ attachments[a].pid # p
        <5>1. attachments[a].pid \in Pids
          BY <4>2, OldIds
        <5> QED
          BY <4>2, <5>1, <1>1 DEF Settled
      <4>3. CASE attachments[a].in_use /\ attachments[a].pid = p
        <5>1. attachments[a].addr # x
          BY <3>2, <4>3, <2>3 DEF IInv, AddressesUnique
        <5> QED
          BY <4>3, <5>1, <1>1, <2>1, <2>2 DEF Settled
      <4> QED
        BY <4>1, <4>2, <4>3
    <3> QED
      BY <3>1, <3>2
  <2>9. /\ \A a \in AttachmentSlots : Settled(a) => attachments[a].addr # x
        /\ \A a \in AttachmentSlots : Settled(a) => attachments[a].addr \in Addresses
    BY <2>7 DEF MapInv, SettledMapped, MapsSegment, Settled
  <2>10. /\ \A q \in Pids : Unmapping(q) => loc[q].addr # x /\ loc[q].addr \in Addresses
         /\ \A q \in Pids : Unmapping(q)' <=> Unmapping(q)
         /\ \A q \in Pids : Unmapping(q) => loc'[q].addr = loc[q].addr
    <3>1. \A q \in Pids : Unmapping(q) => loc[q].addr # x /\ loc[q].addr \in Addresses
      BY <2>7 DEF MapInv, UnmappingMapped
    <3> QED
      BY <3>1, <1>1, <2>2 DEF Unmapping
  <2>11. SettledMapped'
    <3> SUFFICES ASSUME NEW a \in AttachmentSlots, Settled(a)'
                 PROVE  /\ pte'[attachments'[a].addr] # NoBlock
                        /\ \A r \in RegionSlots :
                             regions'[r].in_use /\ regions'[r].id = attachments'[a].shm_id =>
                               pte'[attachments'[a].addr] = regions'[r].block
                        /\ \A b \in AttachmentSlots :
                             Settled(b)' /\ attachments'[a].addr = attachments'[b].addr => a = b
                        /\ \A q \in Pids : Unmapping(q)' => loc'[q].addr # attachments'[a].addr
      BY DEF SettledMapped
    <3>1. CASE a = f
      BY <3>1, <1>1, <2>3, <2>5, <2>6, <2>7, <2>8, <2>9, <2>10
    <3>2. CASE a # f
      <4>1. Settled(a) /\ attachments[a].addr \in Addresses /\ attachments[a].addr # x
        BY <3>2, <2>8, <2>9
      <4>2. pte'[attachments[a].addr] = pte[attachments[a].addr]
        BY <4>1, <2>7
      <4>3. \A b \in AttachmentSlots :
              Settled(b)' /\ attachments[a].addr = attachments[b].addr => a = b
        BY <4>1, <2>3, <2>8 DEF MapInv, SettledMapped
      <4> QED
        BY <4>1, <4>2, <4>3, <1>1, <2>10 DEF MapInv, SettledMapped
    <3> QED
      BY <3>1, <3>2
  <2>12. UnmappingMapped'
    BY <2>7, <2>10 DEF MapInv, UnmappingMapped
  <2>13. NothingElseMapped'
    <3> SUFFICES ASSUME NEW y \in Addresses, pte'[y] # NoBlock
                 PROVE  \/ \E a \in AttachmentSlots : Settled(a)' /\ attachments'[a].addr = y
                        \/ \E q \in Pids : Unmapping(q)' /\ loc'[q].addr = y
      BY Addresses' = Addresses DEF NothingElseMapped
    <3>1. CASE y = x
      BY <3>1, <1>1, <2>3, <2>8
    <3>2. CASE y # x
      <4>1. pte[y] # NoBlock
        BY <3>2, <2>7
      <4>2. CASE \E a \in AttachmentSlots : Settled(a) /\ attachments[a].addr = y
        BY <4>2, <2>8, <1>1
      <4>3. CASE \E q \in Pids : Unmapping(q) /\ loc[q].addr = y
        BY <4>3, <2>10
      <4> QED
        BY <4>1, <4>2, <4>3 DEF MapInv, NothingElseMapped
    <3> QED
      BY <3>1, <3>2
  <2>14. MapsSegment'
    <3>1. \A q \in Pids : pc'[q] = "map" =>
            pc[q] = "map" /\ loc'[q].id = loc[q].id /\ loc'[q].block = loc[q].block
      BY <1>1, <2>2
    <3> QED
      BY <1>1, <1>2, <3>1, SameSegments
  <2> QED
    BY <2>11, <2>12, <2>13, <2>14 DEF MapInv
<1> QED
  BY <1>3, <1>4 DEF AttachMap

\* A failed attach takes back an attachment that was never settled.
LEMMA AttachUndoMapStep ==
  ASSUME IInv, MapInv, NEW p \in Pids, AttachUndo(p)
  PROVE  MapInv'
<1>1. PICK x, mine : x = loc[p].addr /\ mine = shm_find_attachment_by_addr_locked(p, x)
  OBVIOUS
<1>2. /\ pte' = pte /\ pc[p] = "undo" /\ pc'[p] = "out"
      /\ \A q \in Pids : q # p => pc'[q] = pc[q] /\ loc'[q] = loc[q]
  BY DEF AttachUndo, Holding, At, Return, Goto, memory, IInv, TypeOK
<1>3. PICK f \in AttachmentSlots : f \in mine
  BY <1>1, <1>2 DEF IInv, Attaching, shm_find_attachment_by_addr_locked, AttachmentsOf
<1>4. mine = {f}
  BY <1>1, <1>3 DEF IInv, AddressesUnique, shm_find_attachment_by_addr_locked, AttachmentsOf
<1>5. First(mine) = f
  <2>1. First(mine) \in mine
    BY <1>1, <1>3, FirstSlots
  <2> QED
    BY <2>1, <1>4
<1>6. \A a \in AttachmentSlots : attachments'[a] = IF a = f THEN FreeAttachment ELSE attachments[a]
  BY <1>1, <1>3, <1>5 DEF AttachUndo
<1>7. attachments[f].in_use /\ attachments[f].pid = p /\ attachments[f].addr = x
  BY <1>1, <1>3 DEF shm_find_attachment_by_addr_locked, AttachmentsOf
<1>8. \A r \in RegionSlots : RegionKept(r)
  <2>1. regions' = Unreferenced(regions, loc[p].id)
    BY DEF AttachUndo
  <2> QED
    BY <2>1 DEF Unreferenced, RegionKept, IInv, TypeOK, RegionType
<1>9. ASSUME NEW a \in AttachmentSlots PROVE Settled(a)' <=> Settled(a)
  <2>1. CASE a = f
    BY <2>1, <1>1, <1>2, <1>6, <1>7 DEF Settled, FreeAttachment
  <2>2. CASE a # f /\ ~attachments[a].in_use
    BY <2>2, <1>6 DEF Settled
  <2>3. CASE a # f /\ attachments[a].in_use /\ attachments[a].pid # p
    <3>1. attachments[a].pid \in Pids
      BY <2>3, OldIds
    <3> QED
      BY <2>3, <3>1, <1>2, <1>6 DEF Settled
  <2>4. CASE a # f /\ attachments[a].in_use /\ attachments[a].pid = p
    <3>1. attachments[a].addr # x
      BY <2>4, <1>7 DEF IInv, AddressesUnique
    <3> QED
      BY <2>4, <3>1, <1>1, <1>2, <1>6 DEF Settled
  <2> QED
    BY <2>1, <2>2, <2>3, <2>4
<1>10. \A a \in AttachmentSlots : Settled(a) =>
         /\ attachments'[a].addr = attachments[a].addr
         /\ attachments'[a].shm_id = attachments[a].shm_id
  BY <1>1, <1>2, <1>6, <1>7 DEF Settled
<1>11. \A q \in Pids : (Unmapping(q)' <=> Unmapping(q)) /\ (Unmapping(q) => loc'[q].addr = loc[q].addr)
  BY <1>2 DEF Unmapping
<1>12. SettledMapped' /\ UnmappingMapped' /\ NothingElseMapped'
  BY <1>2, <1>8, <1>9, <1>10, <1>11, SameMappings
<1>13. \A a \in AttachmentSlots : attachments'[a].in_use =>
         attachments[a].in_use /\ attachments'[a].addr = attachments[a].addr
  BY <1>6 DEF FreeAttachment
<1>14. \A q \in Pids : pc'[q] = "map" =>
         pc[q] = "map" /\ loc'[q].id = loc[q].id /\ loc'[q].block = loc[q].block
  BY <1>2
<1>15. MapsSegment'
  BY <1>8, <1>13, <1>14, SameSegments
<1> QED
  BY <1>12, <1>15 DEF MapInv

\* shm_detach gives up a settled attachment: its address is being unmapped.
LEMMA DetachLockedMapStep ==
  ASSUME IInv, MapInv, NEW p \in Pids, DetachLocked(p)
  PROVE  MapInv'
<1>1. PICK x, found : x = loc[p].addr /\ found = shm_find_attachment_by_addr_locked(p, x)
  OBVIOUS
<1>2. /\ pte' = pte /\ pc[p] = "detach"
      /\ \A q \in Pids : q # p => pc'[q] = pc[q] /\ loc'[q] = loc[q]
  BY DEF DetachLocked, Holding, At, Return, Goto, memory, IInv, TypeOK
<1>3. CASE found = {}
  <2>1. pc'[p] = "out" /\ attachments' = attachments /\ regions' = regions
    BY <1>1, <1>3 DEF DetachLocked, Return, Goto, tables, IInv, TypeOK
  <2>2. \A q \in Pids : CallKept(q)
    BY <1>2, <2>1 DEF CallKept, Busy, Unmapping
  <2>3. \A q \in Pids : pc'[q] = "map" =>
          pc[q] = "map" /\ loc'[q].id = loc[q].id /\ loc'[q].block = loc[q].block
    BY <1>2, <2>1
  <2>4. \A r \in RegionSlots : RegionKept(r)
    BY <2>1 DEF RegionKept
  <2> QED
    BY <1>2, <2>1, <2>2, <2>3, <2>4, QuietMapStep
<1>4. CASE found # {}
  <2>1. PICK f : f = First(found)
    OBVIOUS
  <2>2. f \in AttachmentSlots /\ attachments[f].in_use /\ attachments[f].pid = p /\ attachments[f].addr = x
    <3>1. f \in found
      BY <1>1, <1>4, <2>1, FirstSlots
    <3> QED
      BY <3>1, <1>1 DEF shm_find_attachment_by_addr_locked, AttachmentsOf
  <2>3. /\ attachments' = [attachments EXCEPT ![f] = FreeAttachment]
        /\ regions' = Unreferenced(regions, attachments[f].shm_id)
        /\ loc' = [loc EXCEPT ![p].id = attachments[f].shm_id]
        /\ Goto(p, "unmap") \/ Goto(p, "unmap_reap")
    BY <1>1, <1>4, <2>1 DEF DetachLocked
  <2>4. pc'[p] \in {"unmap", "unmap_reap"} /\ loc'[p].addr = x
    BY <1>1, <2>3 DEF Goto, IInv, TypeOK, LocalsType
  <2>5. \A a \in AttachmentSlots : attachments'[a] = IF a = f THEN FreeAttachment ELSE attachments[a]
    BY <2>2, <2>3 DEF IInv, TypeOK
  <2>6. \A r \in RegionSlots : /\ regions'[r].in_use = regions[r].in_use
                               /\ regions'[r].id = regions[r].id
                               /\ regions'[r].block = regions[r].block
    BY <2>3 DEF Unreferenced, IInv, TypeOK, RegionType
  <2>7. Settled(f) /\ ~Settled(f)'
    BY <1>2, <2>2, <2>5 DEF Settled, FreeAttachment
  <2>8. ASSUME NEW a \in AttachmentSlots, a # f PROVE Settled(a)' <=> Settled(a)
    <3>1. CASE ~attachments[a].in_use
      BY <2>8, <3>1, <2>5 DEF Settled
    <3>2. CASE attachments[a].in_use
      <4>1. attachments[a].pid \in Pids
        BY <3>2, OldIds
      <4> QED
        BY <2>8, <3>2, <4>1, <1>2, <2>4, <2>5 DEF Settled
    <3> QED
      BY <3>1, <3>2
  <2>9. \A a \in AttachmentSlots : Settled(a)' =>
          Settled(a) /\ a # f /\ attachments'[a] = attachments[a] /\ attachments[a].addr # x
    <3>1. \A a \in AttachmentSlots : Settled(a)' => Settled(a) /\ a # f
      BY <2>7, <2>8
    <3>2. \A a \in AttachmentSlots : Settled(a) /\ a # f => attachments[a].addr # x
      BY <2>2, <2>7 DEF MapInv, SettledMapped
    <3> QED
      BY <3>1, <3>2, <2>5
  <2>10. /\ pte[x] # NoBlock /\ x \in Addresses
         /\ \A q \in Pids : Unmapping(q) => loc[q].addr # x
    BY <2>2, <2>7 DEF MapInv, SettledMapped, MapsSegment
  <2>11. /\ Unmapping(p)' /\ ~Unmapping(p)
         /\ \A q \in Pids : q # p => (Unmapping(q)' <=> Unmapping(q)) /\ loc'[q] = loc[q]
    BY <1>2, <2>4 DEF Unmapping
  <2>12. SettledMapped'
    <3> SUFFICES ASSUME NEW a \in AttachmentSlots, Settled(a)'
                 PROVE  /\ pte'[attachments'[a].addr] # NoBlock
                        /\ \A r \in RegionSlots :
                             regions'[r].in_use /\ regions'[r].id = attachments'[a].shm_id =>
                               pte'[attachments'[a].addr] = regions'[r].block
                        /\ \A b \in AttachmentSlots :
                             Settled(b)' /\ attachments'[a].addr = attachments'[b].addr => a = b
                        /\ \A q \in Pids : Unmapping(q)' => loc'[q].addr # attachments'[a].addr
      BY DEF SettledMapped
    <3>1. Settled(a) /\ attachments'[a] = attachments[a] /\ attachments[a].addr # x
      BY <2>9
    <3>2. /\ pte'[attachments'[a].addr] # NoBlock
          /\ \A r \in RegionSlots :
               regions'[r].in_use /\ regions'[r].id = attachments'[a].shm_id =>
                 pte'[attachments'[a].addr] = regions'[r].block
      BY <3>1, <1>2, <2>6 DEF MapInv, SettledMapped
    <3>3. \A b \in AttachmentSlots :
            Settled(b)' /\ attachments'[a].addr = attachments'[b].addr => a = b
      BY <3>1, <2>9 DEF MapInv, SettledMapped
    <3>4. ASSUME NEW q \in Pids, Unmapping(q)' PROVE loc'[q].addr # attachments'[a].addr
      <4>1. CASE q = p
        BY <4>1, <3>1, <2>4
      <4>2. CASE q # p
        BY <3>4, <4>2, <3>1, <2>11 DEF MapInv, SettledMapped
      <4> QED
        BY <4>1, <4>2
    <3> QED
      BY <3>2, <3>3, <3>4
  <2>13. UnmappingMapped'
    <3> SUFFICES ASSUME NEW q \in Pids, Unmapping(q)'
                 PROVE  /\ loc'[q].addr \in Addresses /\ pte'[loc'[q].addr] # NoBlock
                        /\ \A o \in Pids : Unmapping(o)' /\ loc'[q].addr = loc'[o].addr => q = o
      BY Addresses' = Addresses DEF UnmappingMapped
    <3>1. CASE q = p
      BY <3>1, <1>2, <2>4, <2>10, <2>11
    <3>2. CASE q # p
      <4>1. Unmapping(q) /\ loc'[q] = loc[q] /\ loc[q].addr # x
        BY <3>2, <2>10, <2>11
      <4>2. \A o \in Pids : Unmapping(o)' /\ loc'[q].addr = loc'[o].addr => q = o
        BY <4>1, <2>4, <2>11 DEF MapInv, UnmappingMapped
      <4> QED
        BY <4>1, <4>2, <1>2 DEF MapInv, UnmappingMapped
    <3> QED
      BY <3>1, <3>2
  <2>14. NothingElseMapped'
    <3> SUFFICES ASSUME NEW y \in Addresses, pte'[y] # NoBlock
                 PROVE  \/ \E a \in AttachmentSlots : Settled(a)' /\ attachments'[a].addr = y
                        \/ \E q \in Pids : Unmapping(q)' /\ loc'[q].addr = y
      BY Addresses' = Addresses DEF NothingElseMapped
    <3>1. CASE y = x
      BY <3>1, <2>4, <2>11
    <3>2. CASE y # x
      <4>1. CASE \E a \in AttachmentSlots : Settled(a) /\ attachments[a].addr = y
        <5>1. PICK a \in AttachmentSlots : Settled(a) /\ attachments[a].addr = y
          BY <4>1
        <5>2. a # f
          BY <5>1, <3>2, <2>2
        <5> QED
          BY <5>1, <5>2, <2>5, <2>8
      <4>2. CASE \E q \in Pids : Unmapping(q) /\ loc[q].addr = y
        BY <4>2, <2>11
      <4> QED
        BY <4>1, <4>2, <1>2 DEF MapInv, NothingElseMapped
    <3> QED
      BY <3>1, <3>2
  <2>15. MapsSegment'
    <3>1. \A a \in AttachmentSlots : attachments'[a].in_use =>
            attachments[a].in_use /\ attachments'[a].addr = attachments[a].addr
      BY <2>5 DEF FreeAttachment
    <3>2. \A q \in Pids : pc'[q] = "map" =>
            pc[q] = "map" /\ loc'[q].id = loc[q].id /\ loc'[q].block = loc[q].block
      BY <1>2, <2>4
    <3>3. \A r \in RegionSlots : RegionKept(r)
      BY <2>6 DEF RegionKept
    <3> QED
      BY <3>1, <3>2, <3>3, SameSegments
  <2> QED
    BY <2>12, <2>13, <2>14, <2>15 DEF MapInv
<1> QED
  BY <1>3, <1>4

\* Addresses are cleared and whoever had them lets go of them: the others keep theirs.
LEMMA ClearedMapStep ==
  ASSUME IInv, MapInv, NEW X,
         \A y \in Addresses : pte'[y] = IF y \in X THEN NoBlock ELSE pte[y],
         \A a \in AttachmentSlots : Settled(a)' => Settled(a) /\ attachments'[a] = attachments[a],
         \A a \in AttachmentSlots : Settled(a)' => attachments[a].addr \notin X,
         \A a \in AttachmentSlots : Settled(a) /\ attachments[a].addr \notin X => Settled(a)',
         \A q \in Pids : Unmapping(q)' => Unmapping(q) /\ loc'[q] = loc[q] /\ loc[q].addr \notin X,
         \A q \in Pids : Unmapping(q) /\ loc[q].addr \notin X => Unmapping(q)',
         \A r \in RegionSlots : RegionKept(r),
         \A a \in AttachmentSlots : attachments'[a].in_use =>
           attachments[a].in_use /\ attachments'[a].addr = attachments[a].addr,
         \A q \in Pids : pc'[q] = "map" =>
           pc[q] = "map" /\ loc'[q].id = loc[q].id /\ loc'[q].block = loc[q].block
  PROVE  MapInv'
<1>1. SettledMapped'
  <2> SUFFICES ASSUME NEW a \in AttachmentSlots, Settled(a)'
               PROVE  /\ pte'[attachments'[a].addr] # NoBlock
                      /\ \A r \in RegionSlots :
                           regions'[r].in_use /\ regions'[r].id = attachments'[a].shm_id =>
                             pte'[attachments'[a].addr] = regions'[r].block
                      /\ \A b \in AttachmentSlots :
                           Settled(b)' /\ attachments'[a].addr = attachments'[b].addr => a = b
                      /\ \A q \in Pids : Unmapping(q)' => loc'[q].addr # attachments'[a].addr
    BY DEF SettledMapped
  <2>1. /\ Settled(a) /\ attachments'[a] = attachments[a] /\ attachments[a].addr \notin X
        /\ attachments[a].addr \in Addresses
    BY DEF MapInv, MapsSegment, Settled
  <2>2. pte'[attachments[a].addr] = pte[attachments[a].addr]
    BY <2>1
  <2>3. attachments[a].shm_id \in Nat /\ attachments[a].shm_id < next_shm_id /\ next_shm_id \in Nat
    BY <2>1, OldIds DEF Settled
  <2>4. ASSUME NEW r \in RegionSlots, regions'[r].in_use, regions'[r].id = attachments'[a].shm_id
        PROVE  pte'[attachments'[a].addr] = regions'[r].block
    <3>1. ~(regions'[r].id >= next_shm_id)
      BY <2>1, <2>3, <2>4
    <3>2. regions[r].in_use /\ regions'[r].id = regions[r].id /\ regions'[r].block = regions[r].block
      BY <2>4, <3>1 DEF RegionKept
    <3>3. regions[r].id = attachments[a].shm_id
      BY <2>1, <2>4, <3>2
    <3>4. pte[attachments[a].addr] = regions[r].block
      BY <2>1, <3>2, <3>3 DEF MapInv, SettledMapped
    <3> QED
      BY <2>1, <2>2, <3>2, <3>4
  <2>5. pte'[attachments'[a].addr] # NoBlock
    BY <2>1, <2>2 DEF MapInv, SettledMapped
  <2>6. \A b \in AttachmentSlots :
          Settled(b)' /\ attachments'[a].addr = attachments'[b].addr => a = b
    BY <2>1 DEF MapInv, SettledMapped
  <2>7. \A q \in Pids : Unmapping(q)' => loc'[q].addr # attachments'[a].addr
    BY <2>1 DEF MapInv, SettledMapped
  <2> QED
    BY <2>4, <2>5, <2>6, <2>7
<1>2. UnmappingMapped'
  BY Addresses' = Addresses DEF MapInv, UnmappingMapped
<1>3. NothingElseMapped'
  <2> SUFFICES ASSUME NEW y \in Addresses, pte'[y] # NoBlock
               PROVE  \/ \E a \in AttachmentSlots : Settled(a)' /\ attachments'[a].addr = y
                      \/ \E q \in Pids : Unmapping(q)' /\ loc'[q].addr = y
    BY Addresses' = Addresses DEF NothingElseMapped
  <2>1. y \notin X /\ pte[y] # NoBlock
    OBVIOUS
  <2>2. CASE \E a \in AttachmentSlots : Settled(a) /\ attachments[a].addr = y
    BY <2>1, <2>2
  <2>3. CASE \E q \in Pids : Unmapping(q) /\ loc[q].addr = y
    BY <2>1, <2>3
  <2> QED
    BY <2>1, <2>2, <2>3 DEF MapInv, NothingElseMapped
<1>4. MapsSegment'
  BY SameSegments
<1> QED
  BY <1>1, <1>2, <1>3, <1>4 DEF MapInv


\* shm_detach unmaps: nobody else's address is that one.
LEMMA DetachUnmapMapStep ==
  ASSUME IInv, MapInv, NEW p \in Pids, DetachUnmap(p)
  PROVE  MapInv'
<1>1. PICK x : x = loc[p].addr
  OBVIOUS
<1>2. /\ Unmapping(p) /\ pc'[p] \in {"out", "reap"}
      /\ \A q \in Pids : q # p => pc'[q] = pc[q] /\ loc'[q] = loc[q]
      /\ attachments' = attachments /\ regions' = regions
  BY DEF DetachUnmap, At, Return, Goto, tables, Unmapping, IInv, TypeOK
<1>3. \A y \in Addresses : pte'[y] = IF y \in {x} THEN NoBlock ELSE pte[y]
  BY <1>1 DEF DetachUnmap, IInv, TypeOK
<1>4. ASSUME NEW a \in AttachmentSlots PROVE Settled(a)' <=> Settled(a)
  <2>1. CASE ~attachments[a].in_use
    BY <2>1, <1>2 DEF Settled
  <2>2. CASE attachments[a].in_use
    <3>1. attachments[a].pid \in Pids
      BY <2>2, OldIds
    <3>2. CASE attachments[a].pid = p
      BY <3>2, <1>2 DEF Settled, Unmapping
    <3>3. CASE attachments[a].pid # p
      BY <3>1, <3>3, <1>2 DEF Settled
    <3> QED
      BY <3>2, <3>3
  <2> QED
    BY <2>1, <2>2
<1>5. \A a \in AttachmentSlots : Settled(a) => attachments[a].addr \notin {x}
  BY <1>1, <1>2 DEF MapInv, SettledMapped
<1>6. \A q \in Pids : Unmapping(q)' => q # p /\ Unmapping(q) /\ loc'[q] = loc[q]
  BY <1>2 DEF Unmapping
<1>7. \A q \in Pids : q # p /\ Unmapping(q) => loc[q].addr \notin {x}
  BY <1>1, <1>2 DEF MapInv, UnmappingMapped
<1>8. \A q \in Pids : Unmapping(q) /\ loc[q].addr \notin {x} => Unmapping(q)'
  BY <1>1, <1>2 DEF Unmapping
<1>9. \A r \in RegionSlots : RegionKept(r)
  BY <1>2 DEF RegionKept
<1>10. \A q \in Pids : pc'[q] = "map" =>
         pc[q] = "map" /\ loc'[q].id = loc[q].id /\ loc'[q].block = loc[q].block
  BY <1>2
<1>11. \A a \in AttachmentSlots : Settled(a)' => Settled(a) /\ attachments'[a] = attachments[a]
  BY <1>2, <1>4
<1>12. \A a \in AttachmentSlots : Settled(a)' => attachments[a].addr \notin {x}
  BY <1>4, <1>5
<1>13. \A a \in AttachmentSlots : Settled(a) /\ attachments[a].addr \notin {x} => Settled(a)'
  BY <1>4
<1>14. \A q \in Pids : Unmapping(q)' => Unmapping(q) /\ loc'[q] = loc[q] /\ loc[q].addr \notin {x}
  BY <1>6, <1>7
<1>15. \A a \in AttachmentSlots : attachments'[a].in_use =>
         attachments[a].in_use /\ attachments'[a].addr = attachments[a].addr
  BY <1>2
<1> QED
  BY <1>3, <1>8, <1>9, <1>10, <1>11, <1>12, <1>13, <1>14, <1>15, ClearedMapStep

\* A process that dies, or is replaced, outside its calls: its attachments are
\* settled, so what shm_process_cleanup unmaps is nobody else's.
LEMMA DeathMapStep ==
  ASSUME IInv, MapInv, ~DieMidCall, NEW p \in Pids, Die(p) \/ Reap(p) \/ ExecOver(p)
  PROVE  MapInv'
<1>1. /\ shm_process_cleanup(p) /\ pc[p] = "out"
      /\ pc'[p] = "out"
      /\ \A q \in Pids : q # p => pc'[q] = pc[q] /\ loc'[q] = loc[q]
  BY DEF Die, Reap, ExecOver, MayBeStopped, Return, Goto, IInv, TypeOK, DeadAreOut
<1>2. PICK D : D = AttachmentsOf(p)
  OBVIOUS
<1>3. PICK X : X = {attachments[a].addr : a \in D}
  OBVIOUS
<1>4. D \subseteq AttachmentSlots
  BY <1>2 DEF AttachmentsOf
<1>5. \A y \in Addresses : pte'[y] = IF y \in X THEN NoBlock ELSE pte[y]
  BY <1>1, <1>2, <1>3 DEF shm_process_cleanup
<1>6. \A a \in AttachmentSlots : attachments'[a] = IF a \in D THEN FreeAttachment ELSE attachments[a]
  BY <1>1, <1>2 DEF shm_process_cleanup
<1>7. \A a \in D : Settled(a)
  BY <1>1, <1>2 DEF AttachmentsOf, Settled
<1>8. \A a \in D : ~Settled(a)'
  BY <1>4, <1>6 DEF Settled, FreeAttachment
<1>9. ASSUME NEW a \in AttachmentSlots, a \notin D PROVE Settled(a)' <=> Settled(a)
  <2>1. attachments'[a] = attachments[a]
    BY <1>6, <1>9
  <2>2. CASE ~attachments[a].in_use
    BY <2>1, <2>2 DEF Settled
  <2>3. CASE attachments[a].in_use
    <3>1. attachments[a].pid \in Pids /\ attachments[a].pid # p
      BY <2>3, <1>2, <1>9, OldIds DEF AttachmentsOf
    <3> QED
      BY <2>1, <3>1, <1>1 DEF Settled
  <2> QED
    BY <2>2, <2>3
<1>10. \A a \in AttachmentSlots : a \notin D /\ Settled(a) => attachments[a].addr \notin X
  BY <1>3, <1>4, <1>7 DEF MapInv, SettledMapped
<1>11. \A q \in Pids : Unmapping(q) => loc[q].addr \notin X
  BY <1>3, <1>4, <1>7 DEF MapInv, SettledMapped
<1>12. \A q \in Pids : Unmapping(q)' <=> Unmapping(q)
  BY <1>1 DEF Unmapping
<1>13. \A q \in Pids : Unmapping(q)' => Unmapping(q) /\ loc'[q] = loc[q] /\ loc[q].addr \notin X
  BY <1>1, <1>11, <1>12 DEF Unmapping
<1>14. \A r \in RegionSlots : RegionKept(r)
  <2>1. PICK regs : regs = Dropped(p)
    OBVIOUS
  <2>2. \A r \in RegionSlots : /\ regs[r].in_use = regions[r].in_use
                               /\ regs[r].id = regions[r].id
                               /\ regs[r].block = regions[r].block
    BY <2>1 DEF Dropped, IInv, TypeOK, RegionType
  <2>3. \A r \in RegionSlots : regions'[r] = FreeRegion \/ regions'[r] = regs[r]
    BY <1>1, <2>1 DEF shm_process_cleanup, shm_reap_region_locked
  <2> QED
    BY <2>2, <2>3 DEF RegionKept, FreeRegion
<1>15. \A a \in AttachmentSlots : Settled(a)' => Settled(a) /\ attachments'[a] = attachments[a]
  BY <1>6, <1>8, <1>9
<1>16. \A a \in AttachmentSlots : Settled(a)' => attachments[a].addr \notin X
  BY <1>8, <1>9, <1>10
<1>17. \A a \in AttachmentSlots : Settled(a) /\ attachments[a].addr \notin X => Settled(a)'
  BY <1>3, <1>9
<1>18. \A a \in AttachmentSlots : attachments'[a].in_use =>
         attachments[a].in_use /\ attachments'[a].addr = attachments[a].addr
  BY <1>6 DEF FreeAttachment
<1>19. \A q \in Pids : pc'[q] = "map" =>
         pc[q] = "map" /\ loc'[q].id = loc[q].id /\ loc'[q].block = loc[q].block
  BY <1>1
<1>20. \A q \in Pids : Unmapping(q) /\ loc[q].addr \notin X => Unmapping(q)'
  BY <1>12
<1> QED
  BY <1>5, <1>13, <1>14, <1>15, <1>16, <1>17, <1>18, <1>19, <1>20, ClearedMapStep

\* At start nothing is attached and nothing mapped.
LEMMA MapInvInit == Init => MapInv
<1> SUFFICES ASSUME Init PROVE MapInv
  OBVIOUS
<1>1. /\ \A a \in AttachmentSlots : ~attachments[a].in_use
      /\ \A x \in Addresses : pte[x] = NoBlock
      /\ \A p \in Pids : pc[p] = "out"
  BY DEF Init, FreeAttachment
<1> QED
  BY <1>1 DEF MapInv, SettledMapped, UnmappingMapped, NothingElseMapped, MapsSegment,
     Settled, Unmapping

\* Every step keeps the page table in line with the attachments.
LEMMA MapInvStep ==
  ASSUME ~DieMidCall
  PROVE  IInv /\ MapInv /\ [Next]_vars => MapInv'
<1> SUFFICES ASSUME IInv, MapInv, [Next]_vars PROVE MapInv'
  OBVIOUS
<1>1. CASE UNCHANGED vars
  <2>1. pte' = pte /\ attachments' = attachments /\ regions' = regions /\ pc' = pc /\ loc' = loc
    BY <1>1 DEF vars
  <2>2. \A r \in RegionSlots : RegionKept(r)
    BY <2>1 DEF RegionKept
  <2>3. \A q \in Pids : CallKept(q)
    BY <2>1 DEF CallKept, Busy, Unmapping
  <2>4. \A q \in Pids : pc'[q] = "map" =>
          pc[q] = "map" /\ loc'[q].id = loc[q].id /\ loc'[q].block = loc[q].block
    BY <2>1
  <2> QED
    BY <2>1, <2>2, <2>3, <2>4, QuietMapStep
<1>2. CASE Next
  BY <1>2, OutsideMapStep, AttachLockedMapStep, AttachMapMapStep, AttachUndoMapStep,
     DetachLockedMapStep, DetachUnmapMapStep, DeathMapStep DEF Next
<1> QED
  BY <1>1, <1>2

---------------------------------------------------------------------------
(* The theorems. *)

\* For any number of processes, segments and attachment slots, and wherever in
\* a call a process is killed, ref_count is the number of attachments.
THEOREM RefCountAlwaysExact == Spec => []RefCountExact
<1>1. IInv => RefCountExact
  BY DEF IInv
<1> QED
  BY IInvAlways, <1>1, PTL

\* No segment is freed while somebody is attached to it.
THEOREM AttachedAlwaysLives == Spec => []AttachedRegionLives
<1>1. IInv => AttachedRegionLives
  BY DEF IInv, AttachmentHasRegion, FramesOwned, AttachedRegionLives, RegionsOf
<1> QED
  BY IInvAlways, <1>1, PTL

\* Two segments, and a segment and a shm_create under way, share no pages.
THEOREM BlocksAlwaysExclusive == Spec => []BlocksExclusive
<1>1. IInv => BlocksExclusive
  BY DEF IInv, FramesOwned, BlocksExclusive
<1> QED
  BY IInvAlways, <1>1, PTL

\* A segment's life: the three together.
THEOREM SharingAlwaysSound == Spec => []SharingSound
<1>1. RefCountExact /\ AttachedRegionLives /\ BlocksExclusive => SharingSound
  BY DEF SharingSound
<1> QED
  BY RefCountAlwaysExact, AttachedAlwaysLives, BlocksAlwaysExclusive, <1>1, PTL

\* The death of any process leaves no segment that is both condemned and
\* unattached.
THEOREM DeathAlwaysSweeps == Spec => DeathSweepsOrphans
<1>1. ASSUME Next, life' # life
      PROVE  Reapable(regions', RegionSlots) = {}
  <2>1. PICK p \in Pids : Die(p) \/ Reap(p)
    BY <1>1 DEF Next, CreateAlloc, CreateLocked, AttachEnter, DestroyEnter, AttachLocked,
       AttachMap, AttachUndo, DetachEnter, DetachLocked, DetachUnmap, DetachReap,
       DestroyLocked, Acquire, ExecOver, CleanupSpins
  <2>2. shm_reap_region_locked(Dropped(p), RegionSlots)
    BY <2>1 DEF Die, Reap, shm_process_cleanup
  <2> QED
    BY <2>2 DEF shm_reap_region_locked, Reapable, FreeRegion
<1>2. [Next]_vars => [life' # life => Reapable(regions', RegionSlots) = {}]_vars
  BY <1>1 DEF vars
<1> QED
  BY <1>2, PTL DEF Spec, DeathSweepsOrphans

\* As long as nobody is killed inside an shm call, the page table says what the
\* attachments say, for any number of processes sharing it: a settled
\* attachment's address holds the pages of its segment, and what is mapped is
\* allocated or about to be unmapped by a detach.
THEOREM MappingsAlwaysTrue ==
  ASSUME ~DieMidCall
  PROVE  Spec => []MappingsTrue
<1>1. IInv /\ MapInv => MappingsTrue
  <2> SUFFICES ASSUME IInv, MapInv PROVE MappingsTrue
    OBVIOUS
  <2>1. ASSUME NEW a \in AttachmentSlots, Settled(a)
        PROVE  \E r \in RegionSlots :
                 /\ regions[r].in_use /\ regions[r].id = attachments[a].shm_id
                 /\ regions[r].block \in frames
                 /\ pte[attachments[a].addr] = regions[r].block
    <3>1. PICK r \in RegionSlots : regions[r].in_use /\ regions[r].id = attachments[a].shm_id
      BY <2>1 DEF IInv, AttachmentHasRegion, Settled
    <3>2. regions[r].block \in frames
      BY <3>1 DEF IInv, FramesOwned
    <3>3. pte[attachments[a].addr] = regions[r].block
      BY <2>1, <3>1 DEF MapInv, SettledMapped
    <3> QED
      BY <3>1, <3>2, <3>3
  <2>2. NoDanglingMapping
    BY <2>1 DEF NoDanglingMapping, MapInv, NothingElseMapped, Unmapping
  <2>3. MappingMatchesAttachment
    BY <2>1 DEF MappingMatchesAttachment, Settled, RegionsOf
  <2> QED
    BY <2>2, <2>3 DEF MappingsTrue
<1>2. IInv /\ MapInv /\ [Next]_vars => MapInv'
  BY MapInvStep
<1>3. Spec => []MapInv
  BY MapInvInit, <1>2, IInvAlways, PTL DEF Spec
<1> QED
  BY IInvAlways, <1>1, <1>3, PTL
============================================================================
