-------------------------------- MODULE Shm --------------------------------
(***************************************************************************)
(* Shared memory segments (ipc/shm.c, x86_64 half) and the part of         *)
(* mm/vm_space.c and mm/vmm_x64.c they use.  Every process runs in the one *)
(* page table that process creation copies, so a mapping belongs to an     *)
(* address and not to a process.                                           *)
(*                                                                         *)
(* The calls run with interrupts on.  g_shm_lock protects the region and   *)
(* attachment tables, but a call may be preempted while it holds the lock, *)
(* and it maps and unmaps pages after it has let go of it.                 *)
(* shm_process_cleanup runs inside process exit, kill, exec and reaping,   *)
(* with interrupts off.                                                    *)
(***************************************************************************)
EXTENDS Integers, FiniteSets

CONSTANTS
  Pids,            \* the processes
  Blocks,          \* physical page runs; a segment is one of them
  MaxRegions,      \* SHM_MAX_REGIONS
  MaxAttachments,  \* SHM_MAX_ATTACHMENTS
  Windows,         \* address windows: process pid starts at pid % Windows
  WindowSize,      \* segments that fit in a window
  MaxShmId,        \* bound: the last id that is handed out
  DieMidCall,      \* TRUE: a process may be killed inside an shm call
  MapMayFail       \* TRUE: a page table page may be missing for a mapping

ASSUME ShmAssumption ==
  /\ Pids \subseteq Nat \ {0} /\ IsFiniteSet(Pids)
  /\ MaxRegions \in Nat /\ MaxAttachments \in Nat /\ MaxShmId \in Nat
  /\ Windows \in Nat \ {0} /\ WindowSize \in Nat \ {0}
  /\ DieMidCall \in BOOLEAN /\ MapMayFail \in BOOLEAN

RegionSlots     == 1..MaxRegions
AttachmentSlots == 1..MaxAttachments
ShmIds          == 1..MaxShmId
ShmLimit        == Windows * WindowSize      \* VM_SPACE_SHM_LIMIT
Addresses       == 0..(ShmLimit - 1)
ShmBase(p)      == (p % Windows) * WindowSize
NoBlock         == 0                         \* no page; also "not present"
NoOne           == 0

ASSUME BlockAssumption == NoBlock \notin Blocks

VARIABLES
  regions,      \* g_regions
  attachments,  \* g_attachments
  next_shm_id,  \* g_next_shm_id
  frames,       \* the blocks pmm has handed out
  pte,          \* the shared page table: block mapped at each address
  cursor,       \* vm_space.shm_cursor of each process
  shm_count,    \* shm_attachment_count of each process
  lock,         \* g_shm_lock: its holder
  pc,           \* where each process is in its shm call
  loc,          \* the locals of that call
  life,         \* live, zombie (marked), gone (reaped)
  spinning      \* a cleanup spins on g_shm_lock with interrupts off

tables  == << regions, attachments, next_shm_id >>
memory  == << frames, pte >>
perProc == << cursor, shm_count >>
vars    == << regions, attachments, next_shm_id, frames, pte, cursor, shm_count,
              lock, pc, loc, life, spinning >>

\* What a free slot still holds is never read before it is overwritten, so a
\* free slot is modelled as a cleared one.
FreeRegion == [in_use |-> FALSE, id |-> 0, owner |-> NoOne, block |-> NoBlock,
               ref_count |-> 0, destroy_pending |-> FALSE]
FreeAttachment == [in_use |-> FALSE, shm_id |-> 0, pid |-> NoOne, addr |-> 0]
NoLocals == [id |-> 0, addr |-> 0, block |-> NoBlock]

RegionType == [in_use : BOOLEAN, id : 0..MaxShmId, owner : Pids \cup {NoOne},
               block : Blocks \cup {NoBlock}, ref_count : Nat,
               destroy_pending : BOOLEAN]
AttachmentType == [in_use : BOOLEAN, shm_id : 0..MaxShmId,
                   pid : Pids \cup {NoOne}, addr : Nat]
LocalsType == [id : 0..MaxShmId, addr : Nat, block : Blocks \cup {NoBlock}]

---------------------------------------------------------------------------
(* Table lookups. *)

First(S) == CHOOSE i \in S : \A j \in S : i <= j

FreeRegions     == {r \in RegionSlots : ~regions[r].in_use}
FreeAttachments == {a \in AttachmentSlots : ~attachments[a].in_use}
RegionsOf(id)   == {r \in RegionSlots : regions[r].in_use /\ regions[r].id = id}
AttachmentsOf(p) == {a \in AttachmentSlots : attachments[a].in_use /\ attachments[a].pid = p}
AttachmentsTo(id) ==
  {a \in AttachmentSlots : attachments[a].in_use /\ attachments[a].shm_id = id}

shm_find_attachment_locked(p, id) == AttachmentsOf(p) \cap AttachmentsTo(id)
shm_find_attachment_by_addr_locked(p, addr) ==
  {a \in AttachmentsOf(p) : attachments[a].addr = addr}

\* ref_count - n, never below zero.
Minus(x, n) == IF x > n THEN x - n ELSE 0

\* regs after the references to segment id have gone down by one.
Unreferenced(regs, id) ==
  [r \in RegionSlots |->
     IF regs[r].in_use /\ regs[r].id = id
     THEN [regs[r] EXCEPT !.ref_count = Minus(@, 1)] ELSE regs[r]]

\* shm_reap_region_locked on the regions in R: those that may go, do.
Reapable(regs, R) ==
  {r \in R : regs[r].in_use /\ regs[r].destroy_pending /\ regs[r].ref_count = 0}

shm_reap_region_locked(regs, R) ==
  /\ regions' = [r \in RegionSlots |->
                   IF r \in Reapable(regs, R) THEN FreeRegion ELSE regs[r]]
  /\ frames' = frames \ {regs[r].block : r \in Reapable(regs, R)}

---------------------------------------------------------------------------

Init ==
  /\ regions = [r \in RegionSlots |-> FreeRegion]
  /\ attachments = [a \in AttachmentSlots |-> FreeAttachment]
  /\ next_shm_id = 1
  /\ frames = {}
  /\ pte = [a \in Addresses |-> NoBlock]
  /\ cursor = [p \in Pids |-> ShmBase(p)]
  /\ shm_count = [p \in Pids |-> 0]
  /\ lock = NoOne
  /\ pc = [p \in Pids |-> "out"]
  /\ loc = [p \in Pids |-> NoLocals]
  /\ life = [p \in Pids |-> "live"]
  /\ spinning = FALSE

\* p executes the step of its call that starts at the given point.
At(p, point) == ~spinning /\ life[p] = "live" /\ pc[p] = point
Goto(p, point) == pc' = [pc EXCEPT ![p] = point]
Return(p) == Goto(p, "out") /\ loc' = [loc EXCEPT ![p] = NoLocals]

\* spin_lock succeeds, on the way to the given point.
Take(p) == lock = NoOne /\ lock' = p
Holding(p, point) == At(p, point) /\ lock = p
Release == lock' = NoOne

---------------------------------------------------------------------------
(* shm_create: pages first, then the table. *)

CreateAlloc(p) ==
  /\ At(p, "out")
  /\ \E b \in Blocks \ frames :
       /\ frames' = frames \cup {b}
       /\ loc' = [loc EXCEPT ![p].block = b]
  /\ Goto(p, "create")
  /\ UNCHANGED << tables, pte, perProc, lock, life, spinning >>

CreateLocked(p) ==
  /\ Holding(p, "create")
  /\ \/ /\ FreeRegions = {}
        /\ frames' = frames \ {loc[p].block}
        /\ UNCHANGED << regions, next_shm_id >>
     \/ /\ FreeRegions # {}
        /\ regions' = [regions EXCEPT ![First(FreeRegions)] =
             [FreeRegion EXCEPT !.in_use = TRUE, !.id = next_shm_id,
                                !.owner = p, !.block = loc[p].block]]
        /\ next_shm_id' = next_shm_id + 1
        /\ UNCHANGED frames
  /\ Release
  /\ Return(p)
  /\ UNCHANGED << attachments, pte, perProc, life, spinning >>

---------------------------------------------------------------------------
(* shm_attach: reserve an address, record the attachment, let go of the    *)
(* lock, map; a mapping that fails is taken back under the lock.           *)

AttachEnter(p, id) ==
  /\ At(p, "out")
  /\ Take(p)
  /\ Goto(p, "attach")
  /\ loc' = [loc EXCEPT ![p].id = id]
  /\ UNCHANGED << tables, memory, perProc, life, spinning >>

AttachLocked(p) ==
  LET id == loc[p].id
      r  == First(RegionsOf(id))
      a  == First(FreeAttachments)
      reserved == cursor[p] < ShmLimit
  IN  /\ Holding(p, "attach")
      /\ Release
      /\ \/ \* no such segment, attached already, or no address left
            /\ \/ RegionsOf(id) = {}
               \/ shm_find_attachment_locked(p, id) # {}
               \/ ~reserved
            /\ Return(p)
            /\ UNCHANGED << tables, cursor >>
         \/ \* no attachment slot: the address stays reserved
            /\ RegionsOf(id) # {} /\ shm_find_attachment_locked(p, id) = {} /\ reserved
            /\ FreeAttachments = {}
            /\ cursor' = [cursor EXCEPT ![p] = @ + 1]
            /\ Return(p)
            /\ UNCHANGED tables
         \/ /\ RegionsOf(id) # {} /\ shm_find_attachment_locked(p, id) = {} /\ reserved
            /\ FreeAttachments # {}
            /\ cursor' = [cursor EXCEPT ![p] = @ + 1]
            /\ attachments' = [attachments EXCEPT ![a] =
                 [in_use |-> TRUE, shm_id |-> id, pid |-> p, addr |-> cursor[p]]]
            /\ regions' = [regions EXCEPT ![r].ref_count = @ + 1]
            /\ loc' = [loc EXCEPT ![p].addr = cursor[p], ![p].block = regions[r].block]
            /\ Goto(p, "map")
            /\ UNCHANGED next_shm_id
      /\ UNCHANGED << memory, shm_count, life, spinning >>

\* Faulty variant: a mapping that is present is overwritten.
AttachMap_overwrites(p) ==
  /\ At(p, "map")
  /\ pte' = [pte EXCEPT ![loc[p].addr] = loc[p].block]
  /\ shm_count' = [shm_count EXCEPT ![p] = @ + 1]
  /\ Return(p)
  /\ UNCHANGED << tables, frames, cursor, lock, life, spinning >>

\* vmm_map_pages refuses an address that is present already.
AttachMap(p) ==
  /\ At(p, "map")
  /\ \/ /\ pte[loc[p].addr] = NoBlock
        /\ pte' = [pte EXCEPT ![loc[p].addr] = loc[p].block]
        /\ shm_count' = [shm_count EXCEPT ![p] = @ + 1]
        /\ Return(p)
     \/ /\ pte[loc[p].addr] # NoBlock \/ MapMayFail
        /\ Goto(p, "undo")
        /\ UNCHANGED << pte, shm_count, loc >>
  /\ UNCHANGED << tables, frames, cursor, lock, life, spinning >>

\* Faulty variant: the reference of the failed attach is not given back.
AttachUndo_keeps_ref(p) ==
  LET mine == shm_find_attachment_by_addr_locked(p, loc[p].addr)
  IN  /\ Holding(p, "undo")
      /\ attachments' = [a \in AttachmentSlots |->
           IF mine # {} /\ a = First(mine) THEN FreeAttachment ELSE attachments[a]]
      /\ Release
      /\ Return(p)
      /\ UNCHANGED << regions, next_shm_id, memory, perProc, life, spinning >>

AttachUndo(p) ==
  LET mine == shm_find_attachment_by_addr_locked(p, loc[p].addr)
  IN  /\ Holding(p, "undo")
      /\ attachments' = [a \in AttachmentSlots |->
           IF mine # {} /\ a = First(mine)
           THEN FreeAttachment ELSE attachments[a]]
      /\ regions' = Unreferenced(regions, loc[p].id)
      /\ Release
      /\ Return(p)
      /\ UNCHANGED << next_shm_id, memory, perProc, life, spinning >>

---------------------------------------------------------------------------
(* shm_detach: drop the reference under the lock, unmap after it, reap     *)
(* under the lock again.                                                   *)

DetachEnter(p, addr) ==
  /\ At(p, "out")
  /\ Take(p)
  /\ Goto(p, "detach")
  /\ loc' = [loc EXCEPT ![p].addr = addr]
  /\ UNCHANGED << tables, memory, perProc, life, spinning >>

DetachLocked(p) ==
  LET found == shm_find_attachment_by_addr_locked(p, loc[p].addr)
      a     == First(found)
  IN  /\ Holding(p, "detach")
      /\ Release
      /\ \/ found = {} /\ Return(p) /\ UNCHANGED tables
         \/ /\ found # {}
            /\ attachments' = [attachments EXCEPT ![a] = FreeAttachment]
            /\ regions' = Unreferenced(regions, attachments[a].shm_id)
            /\ loc' = [loc EXCEPT ![p].id = attachments[a].shm_id]
            /\ Goto(p, IF Reapable(regions', RegionsOf(attachments[a].shm_id)) # {}
                       THEN "unmap_reap" ELSE "unmap")
            /\ UNCHANGED next_shm_id
      /\ UNCHANGED << memory, perProc, life, spinning >>

DetachUnmap(p) ==
  /\ At(p, "unmap") \/ At(p, "unmap_reap")
  /\ pte' = [pte EXCEPT ![loc[p].addr] = NoBlock]
  /\ shm_count' = [shm_count EXCEPT ![p] = Minus(@, 1)]
  /\ cursor' = IF shm_count'[p] = 0 THEN [cursor EXCEPT ![p] = ShmBase(p)] ELSE cursor
  /\ IF pc[p] = "unmap" THEN Return(p) ELSE Goto(p, "reap") /\ UNCHANGED loc
  /\ UNCHANGED << tables, frames, lock, life, spinning >>

DetachReap(p) ==
  /\ Holding(p, "reap")
  /\ shm_reap_region_locked(regions, RegionsOf(loc[p].id))
  /\ Release
  /\ Return(p)
  /\ UNCHANGED << attachments, next_shm_id, pte, perProc, life, spinning >>

\* The later spin_lock calls of a call already begun.
Acquire(p) ==
  /\ \E point \in {"create", "undo", "reap"} : At(p, point)
  /\ pc[p] = "create" => next_shm_id <= MaxShmId      \* the bound on ids
  /\ Take(p)
  /\ UNCHANGED << tables, memory, perProc, pc, loc, life, spinning >>

---------------------------------------------------------------------------
(* shm_destroy: anyone may, while nobody is attached. *)

DestroyEnter(p, id) ==
  /\ At(p, "out")
  /\ Take(p)
  /\ Goto(p, "destroy")
  /\ loc' = [loc EXCEPT ![p].id = id]
  /\ UNCHANGED << tables, memory, perProc, life, spinning >>

DestroyLocked(p) ==
  /\ Holding(p, "destroy")
  /\ \/ /\ \A r \in RegionsOf(loc[p].id) : regions[r].ref_count > 0
        /\ UNCHANGED << regions, frames >>
     \/ \E r \in RegionsOf(loc[p].id) :
          /\ regions[r].ref_count = 0
          /\ shm_reap_region_locked([regions EXCEPT ![r].destroy_pending = TRUE], {r})
  /\ Release
  /\ Return(p)
  /\ UNCHANGED << attachments, next_shm_id, pte, perProc, life, spinning >>

---------------------------------------------------------------------------
(* shm_process_cleanup: p is dying (or replaced by exec).  It runs with    *)
(* interrupts off from first to last, so it is one step if the lock is     *)
(* free; if it is not, its holder will never run again.                    *)

Dropped(p) ==
  [r \in RegionSlots |->
     IF ~regions[r].in_use THEN regions[r]
     ELSE [regions[r] EXCEPT
             !.ref_count = Minus(@, Cardinality(AttachmentsOf(p) \cap
                                                AttachmentsTo(regions[r].id))),
             !.destroy_pending = @ \/ regions[r].owner = p,
             !.owner = IF @ = p THEN NoOne ELSE @]]

\* Faulty variant: only the segments the dead process was attached to are
\* looked at.
cleanup_reaps_attached(p) ==
  /\ attachments' = [a \in AttachmentSlots |->
       IF a \in AttachmentsOf(p) THEN FreeAttachment ELSE attachments[a]]
  /\ pte' = [x \in Addresses |->
       IF \E a \in AttachmentsOf(p) : attachments[a].addr = x THEN NoBlock ELSE pte[x]]
  /\ shm_reap_region_locked(Dropped(p),
       {r \in RegionSlots : \E a \in AttachmentsOf(p) : attachments[a].shm_id = regions[r].id})
  /\ shm_count' = [shm_count EXCEPT ![p] = 0]
  /\ cursor' = [cursor EXCEPT ![p] = ShmBase(p)]
  /\ UNCHANGED << next_shm_id, lock, spinning >>

shm_process_cleanup(p) ==
  /\ attachments' = [a \in AttachmentSlots |->
       IF a \in AttachmentsOf(p) THEN FreeAttachment
       ELSE attachments[a]]
  /\ pte' = [x \in Addresses |->
       IF \E a \in AttachmentsOf(p) : attachments[a].addr = x THEN NoBlock ELSE pte[x]]
  /\ shm_reap_region_locked(Dropped(p), RegionSlots)
  /\ shm_count' = [shm_count EXCEPT ![p] = 0]
  /\ cursor' = [cursor EXCEPT ![p] = ShmBase(p)]
  /\ UNCHANGED << next_shm_id, lock, spinning >>

MayBeStopped(p) == DieMidCall \/ pc[p] = "out"

\* mark_zombie_locked: exit, SIGKILL or a fatal signal at a tick.
Die(p) ==
  /\ ~spinning /\ life[p] = "live" /\ MayBeStopped(p)
  /\ lock = NoOne
  /\ shm_process_cleanup(p)
  /\ life' = [life EXCEPT ![p] = "zombie"]
  /\ Return(p)

\* waitpid frees the resources of the zombie, shared memory once more.
Reap(p) ==
  /\ ~spinning /\ life[p] = "zombie"
  /\ lock = NoOne
  /\ shm_process_cleanup(p)
  /\ life' = [life EXCEPT ![p] = "gone"]
  /\ UNCHANGED << pc, loc >>

\* process_exec: p starts again from a new entry point.
ExecOver(p) ==
  /\ ~spinning /\ life[p] = "live" /\ MayBeStopped(p)
  /\ lock = NoOne
  /\ shm_process_cleanup(p)
  /\ Return(p)
  /\ UNCHANGED life

\* Any of the three while another call is preempted inside its critical
\* section, or while p itself is.
CleanupSpins(p) ==
  /\ ~spinning
  /\ life[p] = "zombie" \/ (life[p] = "live" /\ MayBeStopped(p))
  /\ lock # NoOne
  /\ spinning' = TRUE
  /\ UNCHANGED << tables, memory, perProc, lock, pc, loc, life >>

---------------------------------------------------------------------------

Next ==
  \E p \in Pids :
    \/ CreateAlloc(p) \/ CreateLocked(p)
    \/ \E id \in ShmIds : AttachEnter(p, id) \/ DestroyEnter(p, id)
    \/ AttachLocked(p) \/ AttachMap(p) \/ AttachUndo(p)
    \/ \E addr \in Addresses : DetachEnter(p, addr)
    \/ DetachLocked(p) \/ DetachUnmap(p) \/ DetachReap(p)
    \/ DestroyLocked(p) \/ Acquire(p)
    \/ Die(p) \/ Reap(p) \/ ExecOver(p) \/ CleanupSpins(p)

Spec == Init /\ [][Next]_vars

\* The scheduler keeps running every process that is inside a call.
InCall(p) ==
  \/ CreateLocked(p) \/ AttachLocked(p) \/ AttachMap(p) \/ AttachUndo(p)
  \/ DetachLocked(p) \/ DetachUnmap(p) \/ DetachReap(p) \/ DestroyLocked(p)
  \/ Acquire(p)
Fairness == \A p \in Pids : SF_vars(InCall(p))
FairSpec == Spec /\ Fairness

---------------------------------------------------------------------------
(* Properties. *)

Points == {"out", "create", "attach", "map", "undo", "detach", "unmap",
           "unmap_reap", "reap", "destroy"}

\* Type correctness of the tables, the page table and the control state.
TypeOK ==
  /\ regions \in [RegionSlots -> RegionType]
  /\ attachments \in [AttachmentSlots -> AttachmentType]
  /\ next_shm_id \in 1..(MaxShmId + 1)
  /\ frames \subseteq Blocks
  /\ pte \in [Addresses -> Blocks \cup {NoBlock}]
  /\ cursor \in [Pids -> Nat] /\ shm_count \in [Pids -> Nat]
  /\ lock \in Pids \cup {NoOne}
  /\ pc \in [Pids -> Points]
  /\ loc \in [Pids -> LocalsType]
  /\ life \in [Pids -> {"live", "zombie", "gone"}]
  /\ spinning \in BOOLEAN

\* The reference count of a segment is maintained by four different paths
\* (attach, its undo, detach, death), some of them interrupted half way: it is
\* always the number of attachments in the table.
RefCountExact ==
  \A r \in RegionSlots : regions[r].in_use =>
    regions[r].ref_count = Cardinality(AttachmentsTo(regions[r].id))

\* No attachment outlives its segment: whoever is attached, or is about to map,
\* refers to a region that exists and whose pages are allocated.
AttachedRegionLives ==
  \A a \in AttachmentSlots : attachments[a].in_use =>
    \E r \in RegionsOf(attachments[a].shm_id) : regions[r].block \in frames

\* Two segments never share pages, and the pages of a call to shm_create that
\* has not finished belong to nobody yet.
BlocksExclusive ==
  /\ \A r, s \in RegionSlots :
       regions[r].in_use /\ regions[s].in_use /\ regions[r].block = regions[s].block => r = s
  /\ \A p \in Pids, r \in RegionSlots :
       life[p] = "live" /\ pc[p] = "create" /\ regions[r].in_use
         => regions[r].block # loc[p].block

\* Nothing stays mapped once its pages are free, except in the window of a
\* detach between giving up the reference and unmapping.
NoDanglingMapping ==
  \A x \in Addresses :
    \/ pte[x] = NoBlock
    \/ pte[x] \in frames
    \/ \E p \in Pids : pc[p] \in {"unmap", "unmap_reap"} /\ loc[p].addr = x

\* What a process has mapped is what it attached: as long as it is attached and
\* not in the middle of attaching, the address holds the pages of the segment.
MappingMatchesAttachment ==
  \A a \in AttachmentSlots :
    LET p == attachments[a].pid
    IN  attachments[a].in_use
        /\ ~(pc[p] \in {"map", "undo"} /\ loc[p].addr = attachments[a].addr)
        => \E r \in RegionsOf(attachments[a].shm_id) :
             pte[attachments[a].addr] = regions[r].block

\* A segment's life: its count, its pages and its attachments agree.
SharingSound == RefCountExact /\ AttachedRegionLives /\ BlocksExclusive

\* Together: the page table says what the attachments say.
MappingsTrue == NoDanglingMapping /\ MappingMatchesAttachment

\* A segment whose owner is dead and that nobody is attached to can be left
\* behind: a failed attach gives its reference back without reaping, and a
\* detach may be killed before its own reap.  The next death frees all of
\* them.
DeathSweepsOrphans ==
  [][life' # life => Reapable(regions', RegionSlots) = {}]_vars

\* A critical section is left again, whatever preempts it: a spinning cleanup
\* gets the lock.
CleanupGetsLock == spinning ~> ~spinning
============================================================================
