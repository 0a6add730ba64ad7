---------------------------- MODULE ProcessProofs ----------------------------
(***************************************************************************)
(* What proc/process.c guarantees for every size of its table, every set   *)
(* of priorities and signals, and every interleaving of calls, ticks and   *)
(* interrupts.                                                             *)
(*                                                                         *)
(* First the run queues, which are lists threaded through the slots of the *)
(* process table by rq_next.  They are described by what they hold         *)
(* (InLine: for each priority a length and the members in order); proved   *)
(* is what runq_push_locked, runq_pop_locked and runq_remove_locked make   *)
(* of them, and that a walk along the links finds exactly the members and  *)
(* ends.                                                                   *)
(*                                                                         *)
(* Then, what each locked helper does to a table, stated once for any      *)
(* table, and the types.  The scheduler's invariant SchedInv adds to the   *)
(* queues who may be RUNNING, what idle may be, and which code the CPU     *)
(* executes.  StepKinds shows that every step keeps it and sorts the steps *)
(* into four kinds (a birth, a reaping, a falling asleep, and everything   *)
(* else); the families, the wake-ups and the action properties follow from *)
(* the kinds alone.                                                        *)
(***************************************************************************)
EXTENDS Process, TLAPS, FiniteSetTheorems, WellFoundedInduction

-----------------------------------------------------------------------------
(* Run queues. *)

\* A set of naturals that is not empty has the least member that the searches
\* of process.c (lowest slot, lowest signal, first list place) return.
LEMMA LeastIn ==
  ASSUME NEW S, S \subseteq Nat, S # {}
  PROVE  LET i == CHOOSE i \in S : \A j \in S : i <= j
         IN  i \in S /\ \A j \in S : i <= j
<1>1. PICK i \in S : \A j \in S : ~(<<j, i>> \in OpToRel(<, Nat))
  BY NatLessThanWellFounded, WFMin, Zenon
<1>2. \A j \in S : i <= j
  <2>1. TAKE j \in S
  <2>2. <<j, i>> \notin {ss \in Nat \X Nat : ss[1] < ss[2]}
    BY <1>1 DEF OpToRel
  <2>3. ~(j < i)
    BY <2>2
  <2> QED
    BY <2>3
<1> QED
  BY <1>2

\* Two records that differ at most in the link.
SameLife(r, s) ==
  /\ r.used = s.used /\ r.pid = s.pid /\ r.ppid = s.ppid /\ r.state = s.state
  /\ r.is_idle = s.is_idle /\ r.priority = s.priority
  /\ r.time_slice = s.time_slice /\ r.children = s.children
  /\ r.wait_status = s.wait_status /\ r.pending = s.pending
  /\ r.mask = s.mask /\ r.handlers = s.handlers

\* Two tables that differ at most in the links and the queues.
SameLives(t, u) == \A q \in Slots : SameLife(t.proc[q], u.proc[q])

\* find_by_pid_locked returns a slot in use with that pid, or NULL when there
\* is none.
LEMMA FindType ==
  ASSUME NEW t, NEW pid
  PROVE  LET p == find_by_pid_locked(t, pid)
         IN  /\ p \in Pointers
             /\ p # NULL => p \in Slots /\ t.proc[p].used /\ t.proc[p].pid = pid
             /\ p = NULL => \A q \in Slots : ~(t.proc[q].used /\ t.proc[q].pid = pid)
<1> DEFINE hit == {p \in Slots : t.proc[p].used /\ t.proc[p].pid = pid}
<1>1. hit \subseteq Nat /\ hit \subseteq Slots /\ NULL \notin Slots
  BY SlotAssumption DEF Slots, NULL
<1>2. CASE hit = {}
  BY <1>1, <1>2 DEF find_by_pid_locked, Pointers
<1>3. CASE hit # {}
  <2>1. find_by_pid_locked(t, pid) \in hit
    BY <1>1, <1>3, LeastIn DEF find_by_pid_locked
  <2> QED
    BY <2>1, <1>1 DEF Pointers
<1> QED
  BY <1>2, <1>3

\* alloc_process_slot_locked returns a slot that is not in use, or NULL.
LEMMA AllocType ==
  ASSUME NEW t
  PROVE  LET p == alloc_process_slot_locked(t)
         IN  p \in Pointers /\ (p # NULL => p \in Slots /\ ~t.proc[p].used)
<1> DEFINE free == {p \in Slots : ~t.proc[p].used}
<1>1. free \subseteq Nat /\ free \subseteq Slots /\ NULL \notin Slots
  BY SlotAssumption DEF Slots, NULL
<1>2. CASE free = {}
  BY <1>1, <1>2 DEF alloc_process_slot_locked, Pointers
<1>3. CASE free # {}
  <2>1. alloc_process_slot_locked(t) \in free
    BY <1>1, <1>3, LeastIn DEF alloc_process_slot_locked
  <2> QED
    BY <2>1, <1>1 DEF Pointers
<1> QED
  BY <1>2, <1>3

\* Writing the link of a slot changes nothing else of it.
LEMMA LinkFacts ==
  ASSUME NEW pr \in [Slots -> ProcRecord], NEW p \in Pointers, NEW v \in Pointers
  PROVE  LET s == [pr EXCEPT ![p].rq_next = v]
         IN  /\ s \in [Slots -> ProcRecord]
             /\ \A q \in Slots : /\ SameLife(pr[q], s[q])
                                 /\ s[q].rq_next = IF q = p THEN v ELSE pr[q].rq_next
<1>1. CASE p \in Slots
  BY ZenonT(40), <1>1 DEF ProcRecord, SameLife
<1>2. CASE p \notin Slots
  <2>1. [pr EXCEPT ![p].rq_next = v] = pr
    BY <1>2
  <2> QED
    BY <2>1, <1>2 DEF SameLife
<1> QED
  BY <1>1, <1>2

\* A table after the link of one slot, the head or the tail of one queue is
\* written.
LEMMA WriteLink ==
  ASSUME NEW t \in Table, NEW p \in Pointers, NEW v \in Pointers
  PROVE  LET u == [t EXCEPT !.proc[p].rq_next = v]
         IN  /\ u \in Table /\ SameLives(t, u) /\ u.rq = t.rq
             /\ \A q \in Slots :
                  u.proc[q].rq_next = IF q = p THEN v ELSE t.proc[q].rq_next
<1> DEFINE u  == [t EXCEPT !.proc[p].rq_next = v]
           pr == [t.proc EXCEPT ![p].rq_next = v]
<1>1. u = [proc |-> pr, rq |-> t.rq]
  BY DEF Table
<1>2. t.proc \in [Slots -> ProcRecord]
  BY DEF Table
<1>3. /\ pr \in [Slots -> ProcRecord]
      /\ \A q \in Slots : /\ SameLife(t.proc[q], pr[q])
                          /\ pr[q].rq_next = IF q = p THEN v ELSE t.proc[q].rq_next
  BY <1>2, LinkFacts
<1> HIDE DEF pr
<1> QED
  BY <1>1, <1>3 DEF Table, SameLives

\* A write to the head of one queue leaves the table's other parts alone.
LEMMA WriteHead ==
  ASSUME NEW t \in Table, NEW pri \in Priorities, NEW v \in Pointers
  PROVE  LET u == [t EXCEPT !.rq.head[pri] = v]
         IN  /\ u \in Table /\ u.proc = t.proc /\ u.rq.tail = t.rq.tail
             /\ u.rq.head = [t.rq.head EXCEPT ![pri] = v]
<1> DEFINE u == [t EXCEPT !.rq.head[pri] = v]
<1>1. u = [proc |-> t.proc, rq |-> [head |-> [t.rq.head EXCEPT ![pri] = v],
                                    tail |-> t.rq.tail]]
  BY DEF Table
<1> HIDE DEF u
<1> QED
  BY <1>1 DEF Table

\* A write to the tail of one queue leaves the table's other parts alone.
LEMMA WriteTail ==
  ASSUME NEW t \in Table, NEW pri \in Priorities, NEW v \in Pointers
  PROVE  LET u == [t EXCEPT !.rq.tail[pri] = v]
         IN  /\ u \in Table /\ u.proc = t.proc /\ u.rq.head = t.rq.head
             /\ u.rq.tail = [t.rq.tail EXCEPT ![pri] = v]
<1> DEFINE u == [t EXCEPT !.rq.tail[pri] = v]
<1>1. u = [proc |-> t.proc, rq |-> [head |-> t.rq.head,
                                    tail |-> [t.rq.tail EXCEPT ![pri] = v]]]
  BY DEF Table
<1> HIDE DEF u
<1> QED
  BY <1>1 DEF Table

\* NULL is no slot, bootstrap and idle are two slots, and what a table holds
\* as a pointer or a priority is one.
LEMMA PointerFacts ==
  /\ NULL \in Pointers /\ NULL \notin Slots /\ Slots \subseteq Pointers
  /\ Slots \subseteq Nat /\ bootstrap \in Slots /\ idle \in Slots
  /\ bootstrap # idle
  /\ \A t \in Table, p \in Slots :
       /\ t.proc[p] \in ProcRecord
       /\ t.proc[p].priority \in Priorities /\ t.proc[p].rq_next \in Pointers
  /\ \A t \in Table, pri \in Priorities :
       t.rq.head[pri] \in Pointers /\ t.rq.tail[pri] \in Pointers
<1>1. /\ NULL \in Pointers /\ NULL \notin Slots /\ Slots \subseteq Pointers
      /\ Slots \subseteq Nat /\ bootstrap \in Slots /\ idle \in Slots
      /\ bootstrap # idle
  BY SlotAssumption DEF Pointers, Slots, NULL, bootstrap, idle
<1>2. \A t \in Table, p \in Slots : t.proc[p] \in ProcRecord
  BY DEF Table
<1>3. \A r \in ProcRecord : r.priority \in Priorities /\ r.rq_next \in Pointers
  BY DEF ProcRecord
<1>4. \A t \in Table, pri \in Priorities :
       t.rq.head[pri] \in Pointers /\ t.rq.tail[pri] \in Pointers
  BY DEF Table
<1> QED
  BY <1>1, <1>2, <1>3, <1>4

\* u is t with p appended to the queue pri.
Pushed(t, u, p, pri) ==
  /\ u \in Table /\ SameLives(t, u)
  /\ u.rq.tail = [t.rq.tail EXCEPT ![pri] = p]
  /\ u.rq.head = IF t.rq.head[pri] = NULL
                 THEN [t.rq.head EXCEPT ![pri] = p] ELSE t.rq.head
  /\ \A q \in Slots :
       u.proc[q].rq_next = IF t.rq.head[pri] # NULL /\ q = t.rq.tail[pri] THEN p
                           ELSE IF q = p THEN NULL ELSE t.proc[q].rq_next

\* runq_push_locked appends its process, whatever the table looks like.
LEMMA PushFacts ==
  ASSUME NEW t \in Table, NEW p \in Slots
  PROVE  Pushed(t, runq_push_locked(t, p), p, t.proc[p].priority)
<1> DEFINE pri  == t.proc[p].priority
           last == t.rq.tail[pri]
           t0   == [t EXCEPT !.proc[p].rq_next = NULL]
           t1   == [t0 EXCEPT !.rq.tail[pri] = p]
           ta   == [t1 EXCEPT !.rq.head[pri] = p]
           tb   == [t1 EXCEPT !.proc[last].rq_next = p]
           u    == runq_push_locked(t, p)
<1>1. pri \in Priorities /\ last \in Pointers /\ p \in Pointers /\ NULL \in Pointers
  BY PointerFacts
<1>2. u = IF t.rq.head[pri] = NULL THEN ta ELSE tb
  BY DEF runq_push_locked
<1>3. /\ t0 \in Table /\ SameLives(t, t0) /\ t0.rq = t.rq
      /\ \A q \in Slots : t0.proc[q].rq_next = IF q = p THEN NULL ELSE t.proc[q].rq_next
  BY <1>1, WriteLink
<1> HIDE DEF t0, pri, last, u
<1>4. /\ t1 \in Table /\ t1.proc = t0.proc /\ t1.rq.head = t.rq.head
      /\ t1.rq.tail = [t.rq.tail EXCEPT ![pri] = p]
  BY <1>1, <1>3, WriteTail
<1> HIDE DEF t1
<1>5. /\ ta \in Table /\ ta.proc = t0.proc /\ ta.rq.tail = [t.rq.tail EXCEPT ![pri] = p]
      /\ ta.rq.head = [t.rq.head EXCEPT ![pri] = p]
  BY <1>1, <1>4, WriteHead
<1>6. /\ tb \in Table /\ SameLives(t1, tb) /\ tb.rq = t1.rq
      /\ \A q \in Slots : tb.proc[q].rq_next = IF q = last THEN p ELSE t0.proc[q].rq_next
  BY <1>1, <1>4, WriteLink
<1>7. SameLives(t, ta) /\ SameLives(t, tb)
  BY <1>3, <1>4, <1>5, <1>6 DEF SameLives, SameLife
<1> HIDE DEF ta, tb
<1> QED
  BY <1>2, <1>3, <1>4, <1>5, <1>6, <1>7 DEF pri, last, u, Pushed

\* Two records that agree on who the process is and on its family.
SameKin(r, s) ==
  /\ r.used = s.used /\ r.pid = s.pid /\ r.ppid = s.ppid
  /\ r.children = s.children /\ r.is_idle = s.is_idle

\* Only the slot of p is written, and neither its family nor its link.
Touch(t, u, p) ==
  /\ u \in Table /\ u.rq = t.rq
  /\ \A q \in Slots : q # p => u.proc[q] = t.proc[q]
  /\ SameKin(t.proc[p], u.proc[p])
  /\ u.proc[p].rq_next = t.proc[p].rq_next

\* A write of one whole slot leaves the table's other parts alone.
LEMMA WriteSlot ==
  ASSUME NEW t \in Table, NEW p \in Slots, NEW r \in ProcRecord
  PROVE  LET u == [t EXCEPT !.proc[p] = r]
         IN  /\ u \in Table /\ u.rq = t.rq
             /\ u.proc = [t.proc EXCEPT ![p] = r]
             /\ u.proc[p] = r
             /\ \A q \in Slots : q # p => u.proc[q] = t.proc[q]
<1> DEFINE u == [t EXCEPT !.proc[p] = r]
<1>1. u = [proc |-> [t.proc EXCEPT ![p] = r], rq |-> t.rq]
  BY DEF Table
<1> HIDE DEF u
<1> QED
  BY <1>1 DEF Table

\* What each write to one field of a slot leaves alone.
LEMMA FieldWrites ==
  ASSUME NEW r \in ProcRecord
  PROVE  /\ \A x \in States : LET s == [r EXCEPT !.state = x]
              IN  /\ s \in ProcRecord /\ SameKin(r, s) /\ s.state = x
                  /\ s.rq_next = r.rq_next /\ s.priority = r.priority
                  /\ s.wait_status = r.wait_status /\ s.pending = r.pending
                  /\ s.time_slice = r.time_slice
                  /\ s.mask = r.mask /\ s.handlers = r.handlers
         /\ \A x \in Priorities : LET s == [r EXCEPT !.priority = x]
              IN  /\ s \in ProcRecord /\ SameKin(r, s) /\ s.state = r.state
                  /\ s.rq_next = r.rq_next /\ s.priority = x
                  /\ s.wait_status = r.wait_status /\ s.pending = r.pending
                  /\ s.time_slice = r.time_slice
                  /\ s.mask = r.mask /\ s.handlers = r.handlers
         /\ \A x \in 0..TimeSlice : LET s == [r EXCEPT !.time_slice = x]
              IN  /\ s \in ProcRecord /\ SameKin(r, s) /\ s.state = r.state
                  /\ s.rq_next = r.rq_next /\ s.priority = r.priority
                  /\ s.wait_status = r.wait_status /\ s.pending = r.pending
                  /\ s.time_slice = x
                  /\ s.mask = r.mask /\ s.handlers = r.handlers
         /\ \A x \in SUBSET Signals : LET s == [r EXCEPT !.pending = x]
              IN  /\ s \in ProcRecord /\ SameKin(r, s) /\ s.state = r.state
                  /\ s.rq_next = r.rq_next /\ s.priority = r.priority
                  /\ s.wait_status = r.wait_status /\ s.pending = x
                  /\ s.time_slice = r.time_slice
                  /\ s.mask = r.mask /\ s.handlers = r.handlers
         /\ \A x \in Statuses : LET s == [r EXCEPT !.wait_status = x]
              IN  /\ s \in ProcRecord /\ SameKin(r, s) /\ s.state = r.state
                  /\ s.rq_next = r.rq_next /\ s.priority = r.priority
                  /\ s.wait_status = x /\ s.pending = r.pending
                  /\ s.time_slice = r.time_slice
                  /\ s.mask = r.mask /\ s.handlers = r.handlers
<1> USE DEF SameKin
<1>1. \A x \in States : LET s == [r EXCEPT !.state = x]
              IN  /\ s \in ProcRecord /\ SameKin(r, s) /\ s.state = x
                  /\ s.rq_next = r.rq_next /\ s.priority = r.priority
                  /\ s.wait_status = r.wait_status /\ s.pending = r.pending
                  /\ s.time_slice = r.time_slice
                  /\ s.mask = r.mask /\ s.handlers = r.handlers
  BY DEF ProcRecord
<1> QED
  BY <1>1 DEF ProcRecord

---------------------------------------------------------------------------
(* The queues as lists. *)

\* The queue of pri holds at[pri][0], ..., at[pri][n[pri] - 1]: its ends, what
\* is on it and in which order, once each; other slots link to nothing.
Ends(t, n, at) ==
  \A pri \in Priorities :
    /\ t.rq.head[pri] = IF n[pri] = 0 THEN NULL ELSE at[pri][0]
    /\ t.rq.tail[pri] = IF n[pri] = 0 THEN NULL ELSE at[pri][n[pri] - 1]

\* Everything on a queue is in use, READY, of the queue's priority, and linked
\* to its successor.
Links(t, n, at) ==
  \A pri \in Priorities, k \in Nat : k < n[pri] =>
    /\ t.proc[at[pri][k]].used
    /\ t.proc[at[pri][k]].state = "READY"
    /\ t.proc[at[pri][k]].priority = pri
    /\ t.proc[at[pri][k]].rq_next = IF k + 1 < n[pri] THEN at[pri][k + 1] ELSE NULL

\* Nothing is on a queue twice.
Distinct(n, at) ==
  \A pri \in Priorities, j, k \in Nat :
    j < n[pri] /\ k < n[pri] /\ at[pri][j] = at[pri][k] => j = k

\* What is on no queue links to nothing.
Loose(t, n, at) ==
  \A p \in Slots :
    (\A pri \in Priorities, k \in Nat : k < n[pri] => at[pri][k] # p)
      => t.proc[p].rq_next = NULL

\* n and at describe the queues of t.
InLine(t, n, at) ==
  /\ n \in [Priorities -> Nat] /\ at \in [Priorities -> [Nat -> Slots]]
  /\ Ends(t, n, at) /\ Links(t, n, at) /\ Distinct(n, at) /\ Loose(t, n, at)

\* p is on a queue.
Lined(n, at, p) == \E pri \in Priorities, k \in Nat : k < n[pri] /\ at[pri][k] = p

\* The queues are lists, nothing of X is on one, and every other READY process
\* is; idle may be (process_set_priority puts it there) but need not be.
Queues(t, X) ==
  \E n \in [Priorities -> Nat], at \in [Priorities -> [Nat -> Slots]] :
    /\ InLine(t, n, at)
    /\ \A p \in X : ~Lined(n, at, p)
    /\ \A p \in Slots \ (X \cup {idle}) :
         t.proc[p].used /\ t.proc[p].state = "READY" => Lined(n, at, p)

\* u is t after a change to p's record that does not touch its link.
Around(t, u, p) ==
  /\ u.rq = t.rq
  /\ \A q \in Slots : u.proc[q].rq_next = t.proc[q].rq_next
  /\ \A q \in Slots \ {p} : /\ u.proc[q].used = t.proc[q].used
                            /\ u.proc[q].state = t.proc[q].state
                            /\ u.proc[q].priority = t.proc[q].priority

\* A process that is not READY is on no queue.
LEMMA QueuesAside ==
  ASSUME NEW t \in Table, NEW p \in Slots, Queues(t, {}),
         ~(t.proc[p].used /\ t.proc[p].state = "READY")
  PROVE  Queues(t, {p})
<1>1. PICK n \in [Priorities -> Nat], at \in [Priorities -> [Nat -> Slots]] :
        /\ InLine(t, n, at)
        /\ \A q \in Slots \ {idle} :
             t.proc[q].used /\ t.proc[q].state = "READY" => Lined(n, at, q)
  BY DEF Queues
<1>2. Links(t, n, at)
  BY <1>1 DEF InLine
<1>3. ~Lined(n, at, p)
  BY <1>2 DEF Links, Lined
<1> QED
  BY <1>1, <1>3 DEF Queues

\* One that is on no queue may be changed at will.
LEMMA QueuesAround ==
  ASSUME NEW t \in Table, NEW u \in Table, NEW p \in Slots,
         Around(t, u, p), Queues(t, {p})
  PROVE  Queues(u, {p})
<1>1. PICK n \in [Priorities -> Nat], at \in [Priorities -> [Nat -> Slots]] :
        /\ InLine(t, n, at)
        /\ ~Lined(n, at, p)
        /\ \A q \in Slots \ {p, idle} :
             t.proc[q].used /\ t.proc[q].state = "READY" => Lined(n, at, q)
  BY DEF Queues
<1>2. \A pri \in Priorities, k \in Nat : k < n[pri] => at[pri][k] \in Slots \ {p}
  BY <1>1 DEF Lined
<1>3. InLine(u, n, at)
  <2>1. Ends(t, n, at) /\ Links(t, n, at) /\ Distinct(n, at) /\ Loose(t, n, at)
    BY <1>1 DEF InLine
  <2>2. Ends(u, n, at)
    BY <2>1 DEF Ends, Around
  <2>3. Links(u, n, at)
    BY <2>1, <1>2 DEF Links, Around
  <2>4. Loose(u, n, at)
    BY <2>1 DEF Loose, Around
  <2> QED
    BY <2>1, <2>2, <2>3, <2>4 DEF InLine
<1>4. \A q \in Slots \ {p, idle} :
         u.proc[q].used /\ u.proc[q].state = "READY" => Lined(n, at, q)
  BY <1>1 DEF Around
<1> QED
  BY <1>1, <1>3, <1>4 DEF Queues

\* It may stay off the queues unless it is READY.
LEMMA QueuesBack ==
  ASSUME NEW t \in Table, NEW p \in Slots, Queues(t, {p}),
         p = idle \/ ~(t.proc[p].used /\ t.proc[p].state = "READY")
  PROVE  Queues(t, {})
BY DEF Queues

\* The queues do not depend on anything else.
LEMMA QueuesSame ==
  ASSUME NEW t \in Table, NEW u \in Table, NEW p \in Slots, Around(t, u, p), Queues(t, {}),
         u.proc[p].used = t.proc[p].used, u.proc[p].state = t.proc[p].state,
         u.proc[p].priority = t.proc[p].priority
  PROVE  Queues(u, {})
<1>1. PICK n \in [Priorities -> Nat], at \in [Priorities -> [Nat -> Slots]] :
        /\ InLine(t, n, at)
        /\ \A q \in Slots \ {idle} :
             t.proc[q].used /\ t.proc[q].state = "READY" => Lined(n, at, q)
  BY DEF Queues
<1>2. \A q \in Slots : /\ u.proc[q].used = t.proc[q].used
                       /\ u.proc[q].state = t.proc[q].state
                       /\ u.proc[q].priority = t.proc[q].priority
                       /\ u.proc[q].rq_next = t.proc[q].rq_next
  BY DEF Around
<1>3. \A pri \in Priorities, k \in Nat : at[pri][k] \in Slots
  OBVIOUS
<1>4. InLine(u, n, at)
  <2>1. Ends(t, n, at) /\ Links(t, n, at) /\ Distinct(n, at) /\ Loose(t, n, at)
    BY <1>1 DEF InLine
  <2>2. Ends(u, n, at)
    BY <2>1 DEF Ends, Around
  <2>3. Links(u, n, at)
    BY <2>1, <1>2, <1>3 DEF Links
  <2>4. Loose(u, n, at)
    BY <2>1, <1>2 DEF Loose
  <2> QED
    BY <2>1, <2>2, <2>3, <2>4 DEF InLine
<1> QED
  BY <1>1, <1>2, <1>4 DEF Queues

\* runq_push_locked of a READY process that is on no queue, the only use
\* process.c may make of it, leaves queues that are lists again.
LEMMA QueuesPush ==
  ASSUME NEW t \in Table, NEW p \in Slots, Queues(t, {p}),
         t.proc[p].used, t.proc[p].state = "READY"
  PROVE  Queues(runq_push_locked(t, p), {})
<1> DEFINE u   == runq_push_locked(t, p)
           pr0 == t.proc[p].priority
<1>1. PICK n \in [Priorities -> Nat], at \in [Priorities -> [Nat -> Slots]] :
        /\ InLine(t, n, at)
        /\ ~Lined(n, at, p)
        /\ \A q \in Slots \ {p, idle} :
             t.proc[q].used /\ t.proc[q].state = "READY" => Lined(n, at, q)
  BY DEF Queues
<1>in. Ends(t, n, at) /\ Links(t, n, at) /\ Distinct(n, at) /\ Loose(t, n, at)
  BY <1>1 DEF InLine
<1> DEFINE m  == n[pr0]
           n2 == [n EXCEPT ![pr0] = m + 1]
           a2 == [at EXCEPT ![pr0] = [at[pr0] EXCEPT ![m] = p]]
<1>2. pr0 \in Priorities /\ m \in Nat
  BY PointerFacts
<1>3. /\ u \in Table /\ SameLives(t, u)
      /\ u.rq.tail = [t.rq.tail EXCEPT ![pr0] = p]
      /\ u.rq.head = IF t.rq.head[pr0] = NULL
                     THEN [t.rq.head EXCEPT ![pr0] = p] ELSE t.rq.head
      /\ \A q \in Slots :
           u.proc[q].rq_next =
             IF t.rq.head[pr0] # NULL /\ q = t.rq.tail[pr0] THEN p
             ELSE IF q = p THEN NULL ELSE t.proc[q].rq_next
  <2>1. Pushed(t, u, p, pr0)
    BY PushFacts
  <2> HIDE DEF u, pr0
  <2> QED
    BY <2>1 DEF Pushed
<1>4. \A q \in Slots : /\ u.proc[q].used = t.proc[q].used
                       /\ u.proc[q].state = t.proc[q].state
                       /\ u.proc[q].priority = t.proc[q].priority
  BY <1>3 DEF SameLives, SameLife
<1>5. n2 \in [Priorities -> Nat] /\ a2 \in [Priorities -> [Nat -> Slots]]
  <2>1. at[pr0] \in [Nat -> Slots]
    BY <1>2
  <2>2. [at[pr0] EXCEPT ![m] = p] \in [Nat -> Slots]
    BY <2>1, <1>2
  <2> QED
    BY <1>2, <2>2
<1>6. /\ \A pri \in Priorities : pri # pr0 => n2[pri] = n[pri] /\ a2[pri] = at[pri]
      /\ n2[pr0] = m + 1
      /\ \A k \in Nat : a2[pr0][k] = IF k = m THEN p ELSE at[pr0][k]
  BY <1>2
<1> HIDE DEF n2, a2, u, pr0
<1>7. \A pri \in Priorities, k \in Nat : k < n[pri] => at[pri][k] \in Slots /\ at[pri][k] # p
  BY <1>1 DEF Lined
<1>8. t.rq.head[pr0] = NULL <=> m = 0
  BY <1>in, <1>2, PointerFacts DEF Ends
<1>9. InLine(u, n2, a2)
  <2>1. \A pri \in Priorities :
          /\ u.rq.head[pri] = IF n2[pri] = 0 THEN NULL ELSE a2[pri][0]
          /\ u.rq.tail[pri] = IF n2[pri] = 0 THEN NULL ELSE a2[pri][n2[pri] - 1]
    BY <1>in, <1>2, <1>3, <1>6, <1>8 DEF Ends, Table
  <2>2. \A pri \in Priorities, k \in Nat : k < n2[pri] =>
       /\ u.proc[a2[pri][k]].used
       /\ u.proc[a2[pri][k]].state = "READY"
       /\ u.proc[a2[pri][k]].priority = pri
    <3>1. \A pri \in Priorities, k \in Nat : k < n[pri] =>
            /\ u.proc[at[pri][k]].used
            /\ u.proc[at[pri][k]].state = "READY"
            /\ u.proc[at[pri][k]].priority = pri
      BY <1>in, <1>4, <1>7 DEF Links
    <3>2. u.proc[p].used /\ u.proc[p].state = "READY" /\ u.proc[p].priority = pr0
      BY <1>4 DEF pr0
    <3>3. \A k \in Nat : k < n2[pr0] => k = m \/ k < m
      BY <1>2, <1>6
    <3> QED
      BY <1>2, <1>6, <3>1, <3>2, <3>3
  <2>3. \A pri \in Priorities, j, k \in Nat :
       j < n2[pri] /\ k < n2[pri] /\ a2[pri][j] = a2[pri][k] => j = k
    <3>1. \A pri \in Priorities, j, k \in Nat :
            j < n[pri] /\ k < n[pri] /\ at[pri][j] = at[pri][k] => j = k
      BY <1>in DEF Distinct
    <3>2. \A k \in Nat : k < n2[pr0] => k = m \/ k < m
      BY <1>2, <1>6
    <3> QED
      BY <3>1, <3>2, <1>2, <1>6, <1>7
  <2>4. m # 0 => t.rq.tail[pr0] = at[pr0][m - 1]
    BY <1>in, <1>2 DEF Ends
  <2>5. \A pri \in Priorities, k \in Nat : k < n2[pri] =>
       u.proc[a2[pri][k]].rq_next =
            IF k + 1 < n2[pri] THEN a2[pri][k + 1] ELSE NULL
    <3> SUFFICES ASSUME NEW pri \in Priorities, NEW k \in Nat, k < n2[pri]
                 PROVE  u.proc[a2[pri][k]].rq_next =
                          IF k + 1 < n2[pri] THEN a2[pri][k + 1] ELSE NULL
      OBVIOUS
    <3>1. CASE pri # pr0
      <4>1. at[pri][k] # p /\ at[pri][k] \in Slots /\ t.proc[at[pri][k]].priority = pri
        BY <3>1, <1>in, <1>6, <1>7 DEF Links
      <4>2. m # 0 => t.proc[t.rq.tail[pr0]].priority = pr0
        <5>1. m # 0 => m - 1 \in Nat /\ m - 1 < m
          BY <1>2
        <5> QED
          BY <2>4, <5>1, <1>in, <1>2 DEF Links
      <4>3. ~(t.rq.head[pr0] # NULL /\ at[pri][k] = t.rq.tail[pr0])
        BY <4>1, <4>2, <3>1, <1>8
      <4>4. u.proc[at[pri][k]].rq_next = t.proc[at[pri][k]].rq_next
        BY <4>1, <4>3, <1>3
      <4>5. k < n[pri] /\ n2[pri] = n[pri] /\ a2[pri] = at[pri]
        BY <3>1, <1>6
      <4> QED
        BY <4>4, <4>5, <1>in DEF Links
    <3>2. CASE pri = pr0 /\ k = m
      BY <3>2, <1>2, <1>3, <1>6, <1>7, <1>8, <2>4
    <3>3. CASE pri = pr0 /\ k # m
      <4>1. k < m /\ at[pr0][k] # p /\ at[pr0][k] \in Slots
        BY <3>3, <1>2, <1>6, <1>7
      <4>2. at[pr0][k] = at[pr0][m - 1] => k = m - 1
        <5>1. m - 1 \in Nat /\ m - 1 < m
          BY <4>1, <1>2
        <5> QED
          BY <4>1, <5>1, <1>2, <1>in DEF Distinct
      <4>3. a2[pr0][k] = at[pr0][k] /\ k + 1 < n2[pr0]
        BY <4>1, <3>3, <1>2, <1>6
      <4>4. CASE k = m - 1
        <5>1. u.proc[at[pr0][k]].rq_next = p
          BY <4>1, <4>4, <1>2, <1>3, <1>8, <2>4
        <5>2. a2[pr0][k + 1] = p
          BY <4>4, <1>2, <1>6
        <5> QED
          BY <5>1, <5>2, <4>3, <3>3
      <4>5. CASE k # m - 1
        <5>1. u.proc[at[pr0][k]].rq_next = t.proc[at[pr0][k]].rq_next
          BY <4>1, <4>2, <4>5, <1>2, <1>3, <1>8, <2>4
        <5>2. t.proc[at[pr0][k]].rq_next = at[pr0][k + 1] /\ a2[pr0][k + 1] = at[pr0][k + 1]
          BY <4>1, <4>5, <1>in, <1>2, <1>6 DEF Links
        <5> QED
          BY <5>1, <5>2, <4>3, <3>3
      <4> QED
        BY <4>4, <4>5
    <3> QED
      BY <3>1, <3>2, <3>3
  <2>6. \A q \in Slots :
       (\A pri \in Priorities, k \in Nat : k < n2[pri] => a2[pri][k] # q)
         => u.proc[q].rq_next = NULL
    <3> SUFFICES ASSUME NEW q \in Slots,
                        \A pri \in Priorities, k \in Nat : k < n2[pri] => a2[pri][k] # q
                 PROVE  u.proc[q].rq_next = NULL
      OBVIOUS
    <3>1. q # p
      BY <1>2, <1>6
    <3>2. \A pri \in Priorities, k \in Nat : k < n[pri] => at[pri][k] # q
      BY <1>2, <1>6
    <3> QED
      BY <3>1, <3>2, <1>in, <1>2, <1>3, <1>8, <2>4 DEF Loose
  <2> QED
    BY <1>5, <2>1, <2>2, <2>3, <2>5, <2>6 DEF InLine, Ends, Links, Distinct, Loose
<1>10. \A q \in Slots : Lined(n, at, q) \/ q = p => Lined(n2, a2, q)
  BY <1>2, <1>6 DEF Lined
<1> QED
  BY <1>1, <1>4, <1>5, <1>9, <1>10 DEF Queues, u

\* runq_best_priority_locked returns the lowest number among the queues that
\* are not empty.
LEMMA BestFacts ==
  ASSUME NEW t \in Table, Waiting(t) # {}
  PROVE  /\ runq_best_priority_locked(t) \in Priorities
         /\ runq_best_priority_locked(t) \in Waiting(t)
         /\ \A r \in Waiting(t) : runq_best_priority_locked(t) <= r
         /\ t.rq.head[runq_best_priority_locked(t)] \in Slots
<1> DEFINE b == runq_best_priority_locked(t)
<1>1. Waiting(t) \subseteq Nat
  BY PriorityAssumption DEF Waiting
<1>2. b = CHOOSE pri \in Waiting(t) : \A r \in Waiting(t) : pri <= r
  BY DEF runq_best_priority_locked
<1>3. b \in Waiting(t) /\ \A r \in Waiting(t) : b <= r
  BY <1>1, <1>2, LeastIn
<1> HIDE DEF b
<1>4. b \in Priorities /\ t.rq.head[b] # NULL
  BY <1>3 DEF Waiting
<1>5. t.rq.head[b] \in Slots
  BY <1>4, PointerFacts DEF Pointers
<1> QED
  BY <1>3, <1>4, <1>5 DEF b

\* u is t with p, the head of the queue pri, taken off it.
Popped(t, u, p, pri) ==
  /\ u \in Table /\ SameLives(t, u)
  /\ u.rq.head = [t.rq.head EXCEPT ![pri] = t.proc[p].rq_next]
  /\ u.rq.tail = [t.rq.tail EXCEPT ![pri] = IF t.proc[p].rq_next = NULL THEN NULL
                                            ELSE t.rq.tail[pri]]
  /\ \A q \in Slots : u.proc[q].rq_next = IF q = p THEN NULL ELSE t.proc[q].rq_next

\* runq_pop_locked takes the head off the best queue.
LEMMA PopFacts ==
  ASSUME NEW t \in Table, Waiting(t) # {}
  PROVE  LET pri == runq_best_priority_locked(t)
         IN  Popped(t, runq_pop_locked(t), t.rq.head[pri], pri)
<1> DEFINE pri == runq_best_priority_locked(t)
           p   == t.rq.head[pri]
           nxt == t.proc[p].rq_next
           t0  == [t EXCEPT !.rq.head[pri] = nxt]
           t1  == [t0 EXCEPT !.rq.tail[pri] = IF nxt = NULL THEN NULL ELSE t.rq.tail[pri]]
           u   == [t1 EXCEPT !.proc[p].rq_next = NULL]
<1>1. /\ pri \in Priorities /\ p \in Slots /\ p \in Pointers /\ nxt \in Pointers
      /\ NULL \in Pointers /\ t.rq.tail[pri] \in Pointers
  BY BestFacts, PointerFacts
<1>2. runq_pop_locked(t) = u
  <2> HIDE DEF pri
  <2>1. runq_pop_locked(t) = [t EXCEPT !.rq.head[pri] = nxt,
                     !.rq.tail[pri] = IF nxt = NULL THEN NULL ELSE @,
                     !.proc[p].rq_next = NULL]
    BY DEF runq_pop_locked, pri
  <2> QED
    BY <2>1 DEF Table
<1> HIDE DEF pri, p, nxt
<1>3. /\ t0 \in Table /\ t0.proc = t.proc /\ t0.rq.tail = t.rq.tail
      /\ t0.rq.head = [t.rq.head EXCEPT ![pri] = nxt]
  BY <1>1, WriteHead
<1> HIDE DEF t0
<1>4. /\ t1 \in Table /\ t1.proc = t.proc /\ t1.rq.head = t0.rq.head
      /\ t1.rq.tail = [t.rq.tail EXCEPT ![pri] = IF nxt = NULL THEN NULL ELSE t.rq.tail[pri]]
  BY SMTT(30), <1>1, <1>3, WriteTail
<1> HIDE DEF t1
<1>5. /\ u \in Table /\ SameLives(t1, u) /\ u.rq = t1.rq
      /\ \A q \in Slots : u.proc[q].rq_next = IF q = p THEN NULL ELSE t.proc[q].rq_next
  BY SMTT(30), <1>1, <1>4, WriteLink
<1> HIDE DEF u
<1>6. Popped(t, u, p, pri)
  BY <1>3, <1>4, <1>5 DEF Popped, SameLives, nxt
<1> QED
  BY <1>2, <1>6 DEF p, pri

\* What runq_pop_locked returns was READY, and is on no queue of what it
\* leaves.
LEMMA QueuesPop ==
  ASSUME NEW t \in Table, Queues(t, {}), Waiting(t) # {}
  PROVE  LET pri == runq_best_priority_locked(t)
             p   == t.rq.head[pri]
         IN  /\ Queues(runq_pop_locked(t), {p})
             /\ t.proc[p].used /\ t.proc[p].state = "READY"
             /\ t.proc[p].priority = pri
<1> DEFINE pri == runq_best_priority_locked(t)
           p   == t.rq.head[pri]
           u   == runq_pop_locked(t)
<1>1. PICK n \in [Priorities -> Nat], at \in [Priorities -> [Nat -> Slots]] :
        /\ InLine(t, n, at)
        /\ \A q \in Slots \ {idle} :
             t.proc[q].used /\ t.proc[q].state = "READY" => Lined(n, at, q)
  BY DEF Queues
<1>2. pri \in Priorities /\ p \in Slots /\ p # NULL
  BY BestFacts, PointerFacts
<1>3. Popped(t, u, p, pri)
  BY PopFacts
<1> HIDE DEF pri, p, u
<1>in. Ends(t, n, at) /\ Links(t, n, at) /\ Distinct(n, at) /\ Loose(t, n, at)
  BY <1>1 DEF InLine
<1> DEFINE m  == n[pri]
           n2 == [n EXCEPT ![pri] = m - 1]
           a2 == [at EXCEPT ![pri] = [k \in Nat |-> at[pri][k + 1]]]
<1>4. m \in Nat /\ m # 0 /\ p = at[pri][0] /\ m - 1 \in Nat
  BY <1>in, <1>2 DEF Ends, p
<1>5. t.proc[p].used /\ t.proc[p].state = "READY" /\ t.proc[p].priority = pri
  BY <1>in, <1>2, <1>4 DEF Links
<1>6. t.proc[p].rq_next = IF 1 < m THEN at[pri][1] ELSE NULL
  <2>1. 0 \in Nat /\ 0 < m /\ 0 + 1 = 1
    BY <1>4
  <2> QED
    BY <1>in, <1>2, <1>4, <2>1 DEF Links
<1>7. \A q \in Slots : /\ u.proc[q].used = t.proc[q].used
                       /\ u.proc[q].state = t.proc[q].state
                       /\ u.proc[q].priority = t.proc[q].priority
  BY <1>3 DEF Popped, SameLives, SameLife
<1>8. n2 \in [Priorities -> Nat] /\ a2 \in [Priorities -> [Nat -> Slots]]
  <2>1. [k \in Nat |-> at[pri][k + 1]] \in [Nat -> Slots]
    BY <1>2
  <2> QED
    BY <1>2, <1>4, <2>1
<1>9. /\ \A r \in Priorities : r # pri => n2[r] = n[r] /\ a2[r] = at[r]
      /\ n2[pri] = m - 1
      /\ \A k \in Nat : a2[pri][k] = at[pri][k + 1]
  BY <1>2
<1> HIDE DEF n2, a2, m
<1>10. \A r \in Priorities, k \in Nat : k < n2[r] => a2[r][k] \in Slots /\ a2[r][k] # p
  <2> SUFFICES ASSUME NEW r \in Priorities, NEW k \in Nat, k < n2[r]
               PROVE  a2[r][k] \in Slots /\ a2[r][k] # p
    OBVIOUS
  <2>1. CASE r = pri
    <3>1. k + 1 < n[pri] /\ k + 1 \in Nat /\ 0 < n[pri] /\ k + 1 # 0
      BY <2>1, <1>4, <1>9 DEF m
    <3>2. at[pri][k + 1] # at[pri][0]
      BY <3>1, <1>in, <1>2 DEF Distinct
    <3> QED
      BY <2>1, <3>2, <1>4, <1>9, <1>2
  <2>2. CASE r # pri
    BY <2>2, <1>in, <1>5, <1>9 DEF Links
  <2> QED
    BY <2>1, <2>2
<1>11. InLine(u, n2, a2)
  <2>1. \A r \in Priorities :
          /\ u.rq.head[r] = IF n2[r] = 0 THEN NULL ELSE a2[r][0]
          /\ u.rq.tail[r] = IF n2[r] = 0 THEN NULL ELSE a2[r][n2[r] - 1]
    <3> SUFFICES ASSUME NEW r \in Priorities
                 PROVE  /\ u.rq.head[r] = IF n2[r] = 0 THEN NULL ELSE a2[r][0]
                        /\ u.rq.tail[r] = IF n2[r] = 0 THEN NULL ELSE a2[r][n2[r] - 1]
      OBVIOUS
    <3>0. /\ t.rq.head \in [Priorities -> Pointers] /\ t.rq.tail \in [Priorities -> Pointers]
      BY DEF Table
    <3>1. CASE r # pri
      BY <3>0, <3>1, <1>in, <1>3, <1>9 DEF Ends, Popped
    <3>2. CASE r = pri
      <4>1. u.rq.head[pri] = t.proc[p].rq_next
        BY <3>0, <1>2, <1>3 DEF Popped
      <4>2. u.rq.tail[pri] = IF t.proc[p].rq_next = NULL THEN NULL ELSE t.rq.tail[pri]
        BY <3>0, <1>2, <1>3 DEF Popped
      <4>3. t.rq.tail[pri] = at[pri][m - 1]
        BY <1>in, <1>2, <1>4 DEF Ends, m
      <4>4. at[pri][1] # NULL
        BY <1>2, PointerFacts
      <4>5. CASE m = 1
        BY <3>2, <4>5, <4>1, <4>2, <1>6, <1>9
      <4>6. CASE m # 1
        <5>1. 1 < m /\ m - 1 # 0 /\ (m - 1) - 1 \in Nat /\ ((m - 1) - 1) + 1 = m - 1
          BY <4>6, <1>4
        <5>2. a2[pri][0] = at[pri][1] /\ a2[pri][(m - 1) - 1] = at[pri][m - 1]
          BY <5>1, <1>9
        <5> QED
          BY <3>2, <5>1, <5>2, <4>1, <4>2, <4>3, <4>4, <1>6, <1>9
      <4> QED
        BY <4>5, <4>6
    <3> QED
      BY <3>1, <3>2
  <2>2. \A r \in Priorities, k \in Nat : k < n2[r] =>
          /\ u.proc[a2[r][k]].used
          /\ u.proc[a2[r][k]].state = "READY"
          /\ u.proc[a2[r][k]].priority = r
          /\ u.proc[a2[r][k]].rq_next = IF k + 1 < n2[r] THEN a2[r][k + 1] ELSE NULL
    <3> SUFFICES ASSUME NEW r \in Priorities, NEW k \in Nat, k < n2[r]
                 PROVE  /\ u.proc[a2[r][k]].used
                        /\ u.proc[a2[r][k]].state = "READY"
                        /\ u.proc[a2[r][k]].priority = r
                        /\ u.proc[a2[r][k]].rq_next = IF k + 1 < n2[r] THEN a2[r][k + 1] ELSE NULL
      OBVIOUS
    <3>1. a2[r][k] \in Slots /\ u.proc[a2[r][k]].rq_next = t.proc[a2[r][k]].rq_next
      BY <1>3, <1>10 DEF Popped
    <3>2. CASE r = pri
      <4>1. k + 1 \in Nat /\ k + 1 < n[pri] /\ (k + 1 < n2[r] <=> (k + 1) + 1 < n[pri])
        BY <3>2, <1>4, <1>9 DEF m
      <4>2. a2[r][k] = at[pri][k + 1] /\ a2[r][k + 1] = at[pri][(k + 1) + 1]
        BY <3>2, <4>1, <1>9
      <4> QED
        BY <3>1, <3>2, <4>1, <4>2, <1>in, <1>2, <1>7 DEF Links
    <3>3. CASE r # pri
      <4>1. n2[r] = n[r] /\ a2[r] = at[r] /\ k < n[r]
        BY <3>3, <1>9
      <4>2. /\ t.proc[at[r][k]].used
            /\ t.proc[at[r][k]].state = "READY"
            /\ t.proc[at[r][k]].priority = r
            /\ t.proc[at[r][k]].rq_next = IF k + 1 < n[r] THEN at[r][k + 1] ELSE NULL
        BY <4>1, <1>in DEF Links
      <4> QED
        BY <3>1, <4>1, <4>2, <1>7
    <3> QED
      BY <3>2, <3>3
  <2>3. \A r \in Priorities, j, k \in Nat :
       j < n2[r] /\ k < n2[r] /\ a2[r][j] = a2[r][k] => j = k
    <3> SUFFICES ASSUME NEW r \in Priorities, NEW j \in Nat, NEW k \in Nat,
                        j < n2[r], k < n2[r], a2[r][j] = a2[r][k]
                 PROVE  j = k
      OBVIOUS
    <3>1. CASE r = pri
      <4>1. j + 1 \in Nat /\ k + 1 \in Nat /\ j + 1 < n[pri] /\ k + 1 < n[pri]
        BY <3>1, <1>4, <1>9 DEF m
      <4>2. at[pri][j + 1] = at[pri][k + 1]
        BY <3>1, <1>9
      <4>3. j + 1 = k + 1
        BY <4>1, <4>2, <1>in, <1>2 DEF Distinct
      <4> QED
        BY <4>1, <4>3, (j + 1) - 1 = j, (k + 1) - 1 = k
    <3>2. CASE r # pri
      BY <3>2, <1>in, <1>9 DEF Distinct
    <3> QED
      BY <3>1, <3>2
  <2>4. \A q \in Slots :
       (\A r \in Priorities, k \in Nat : k < n2[r] => a2[r][k] # q)
         => u.proc[q].rq_next = NULL
    <3> SUFFICES ASSUME NEW q \in Slots, q # p,
                        \A r \in Priorities, k \in Nat : k < n2[r] => a2[r][k] # q
                 PROVE  t.proc[q].rq_next = NULL
      BY <1>3 DEF Popped
    <3>1. ASSUME NEW r \in Priorities, NEW k \in Nat, k < n[r]
          PROVE  at[r][k] # q
      <4>1. CASE r = pri /\ k # 0
        <5>1. k - 1 \in Nat /\ k - 1 < n2[pri] /\ (k - 1) + 1 = k
          BY <4>1, <3>1, <1>4, <1>9 DEF m
        <5> QED
          BY <4>1, <5>1, <1>9, <1>2
      <4>2. CASE r = pri /\ k = 0
        BY <4>2, <1>4
      <4>3. CASE r # pri
        BY <4>3, <3>1, <1>9
      <4> QED
        BY <4>1, <4>2, <4>3
    <3> QED
      BY <3>1, <1>in DEF Loose
  <2> QED
    BY <1>8, <2>1, <2>2, <2>3, <2>4 DEF InLine, Ends, Links, Distinct, Loose
<1>12. \A q \in Slots : Lined(n, at, q) /\ q # p => Lined(n2, a2, q)
  <2> SUFFICES ASSUME NEW r \in Priorities, NEW k \in Nat, k < n[r], at[r][k] # p
               PROVE  Lined(n2, a2, at[r][k])
    BY DEF Lined
  <2>1. CASE r = pri
    <3>1. k - 1 \in Nat /\ k - 1 < n2[pri] /\ (k - 1) + 1 = k
      BY <2>1, <1>4, <1>9 DEF m
    <3>2. a2[pri][k - 1] = at[r][k]
      BY <2>1, <3>1, <1>9
    <3> QED
      BY <3>1, <3>2, <1>2 DEF Lined
  <2>2. CASE r # pri
    BY <2>2, <1>9 DEF Lined
  <2> QED
    BY <2>1, <2>2
<1>13. ~Lined(n2, a2, p)
  BY <1>10 DEF Lined
<1>14. Queues(u, {p})
  <2>1. \A q \in Slots \ {p, idle} :
          u.proc[q].used /\ u.proc[q].state = "READY" => Lined(n2, a2, q)
    BY <1>1, <1>7, <1>12
  <2> QED
    BY <2>1, <1>8, <1>11, <1>13 DEF Queues
<1> QED
  BY <1>5, <1>14 DEF pri, p, u

\* A queue is no longer than the table: its members are different slots.
LEMMA QueueLength ==
  ASSUME NEW t \in Table, NEW n, NEW at, InLine(t, n, at), NEW pri \in Priorities
  PROVE  n[pri] \in Nat /\ n[pri] <= MaxSlots
<1> DEFINE S == 0 .. (n[pri] - 1)
           f == [k \in S |-> at[pri][k]]
<1>1. n[pri] \in Nat /\ at[pri] \in [Nat -> Slots] /\ Distinct(n, at)
  BY DEF InLine
<1>2. IsFiniteSet(Slots) /\ Cardinality(Slots) = MaxSlots
  BY SlotAssumption, FS_Interval DEF Slots
<1>3. IsFiniteSet(S) /\ Cardinality(S) = n[pri]
  <2>1. 0 \in Int /\ n[pri] - 1 \in Int
    BY <1>1
  <2>2. IsFiniteSet(S) /\ Cardinality(S) = IF 0 > n[pri] - 1 THEN 0 ELSE (n[pri] - 1) - 0 + 1
    BY <2>1, FS_Interval
  <2> QED
    BY <1>1, <2>2
<1>4. \A k \in S : k \in Nat /\ k < n[pri]
  BY <1>1
<1>5. f \in [S -> Slots]
  BY <1>1, <1>4
<1>6. ASSUME MaxSlots < n[pri] PROVE FALSE
  <2> HIDE DEF S, f
  <2>1. PICK x \in S, y \in S : x # y /\ f[x] = f[y]
    BY <1>2, <1>3, <1>5, <1>6, FS_PigeonHole
  <2>2. f[x] = at[pri][x] /\ f[y] = at[pri][y]
    BY DEF f
  <2> QED
    BY <2>1, <2>2, <1>1, <1>4 DEF Distinct
<1> QED
  BY <1>1, <1>6, SlotAssumption

\* The k-th slot of the queue of pri, NULL past its end.
Place(n, at, pri) == [k \in 0..MaxSlots |-> IF k < n[pri] THEN at[pri][k] ELSE NULL]

\* Following rq_next from the head meets the members of the queue in order
\* and then NULL, so the loops of process.c over a queue end.
LEMMA WalkIs ==
  ASSUME NEW t \in Table, NEW n, NEW at, InLine(t, n, at), NEW pri \in Priorities
  PROVE  Walk(t, t.rq.head[pri]) = Place(n, at, pri)
<1> DEFINE g      == Place(n, at, pri)
           first  == t.rq.head[pri]
           F(f)   == [k \in 0..MaxSlots |->
                        IF k = 0 THEN first
                        ELSE IF f[k-1] = NULL THEN NULL ELSE t.proc[f[k-1]].rq_next]
           w      == CHOOSE f : f = F(f)
<1>0. MaxSlots \in Nat
  BY SlotAssumption
<1>1. n[pri] \in Nat /\ at[pri] \in [Nat -> Slots] /\ Ends(t, n, at) /\ Links(t, n, at)
  BY DEF InLine
<1>2. \A k \in Nat : at[pri][k] # NULL
  BY <1>1, PointerFacts
<1>3. g = F(g)
  <2>1. ASSUME NEW k \in 0..MaxSlots
        PROVE  g[k] = IF k = 0 THEN first
                      ELSE IF g[k-1] = NULL THEN NULL ELSE t.proc[g[k-1]].rq_next
    <3>1. CASE k = 0
      BY <1>0, <1>1, <3>1 DEF Ends, Place
    <3>2. CASE k # 0
      <4>1. k \in Nat /\ k - 1 \in Nat /\ k - 1 \in 0..MaxSlots /\ (k - 1) + 1 = k
        BY <1>0, <3>2
      <4>2. /\ g[k] = IF k < n[pri] THEN at[pri][k] ELSE NULL
            /\ g[k-1] = IF k - 1 < n[pri] THEN at[pri][k-1] ELSE NULL
        BY <4>1 DEF Place
      <4>3. CASE k - 1 < n[pri]
        <5>1. t.proc[at[pri][k-1]].rq_next = IF (k - 1) + 1 < n[pri] THEN at[pri][(k-1) + 1] ELSE NULL
          BY <4>1, <4>3, <1>1 DEF Links
        <5> QED
          BY <5>1, <4>1, <4>2, <4>3, <3>2, <1>2
      <4>4. CASE ~(k - 1 < n[pri])
        <5>1. ~(k < n[pri])
          BY <4>4, <4>1, <1>1
        <5> QED
          BY <5>1, <4>2, <4>4, <3>2
      <4> QED
        BY <4>3, <4>4
    <3> QED
      BY <3>1, <3>2
  <2>2. g = [k \in 0..MaxSlots |-> g[k]]
    BY DEF Place
  <2> HIDE DEF g
  <2> QED
    BY <2>1, <2>2
<1>4. w = F(w)
  <2> HIDE DEF g, F
  <2> QED
    BY <1>3
<1>5. Walk(t, first) = w
  BY DEF Walk
<1> HIDE DEF w
<1>6. \A k \in 0..MaxSlots : w[k] = g[k]
  <2> DEFINE bad == {k \in 0..MaxSlots : w[k] # g[k]}
  <2> SUFFICES ASSUME bad # {} PROVE FALSE
    OBVIOUS
  <2>1. bad \subseteq Nat
    BY <1>0
  <2>2. PICK k \in bad : \A j \in bad : k <= j
    <3> HIDE DEF bad
    <3> QED BY <2>1, LeastIn
  <2>3. k \in 0..MaxSlots /\ w[k] # g[k]
    BY <2>2
  <2>4. w[k] = IF k = 0 THEN first
               ELSE IF w[k-1] = NULL THEN NULL ELSE t.proc[w[k-1]].rq_next
    BY <1>4, <2>3
  <2>5. g[k] = IF k = 0 THEN first
               ELSE IF g[k-1] = NULL THEN NULL ELSE t.proc[g[k-1]].rq_next
    <3> HIDE DEF g
    <3> QED BY <1>3, <2>3
  <2>6. k # 0
    BY <2>3, <2>4, <2>5
  <2>7. k - 1 \in 0..MaxSlots /\ ~(k <= k - 1)
    BY <2>3, <2>6, <1>0
  <2>8. w[k-1] = g[k-1]
    BY <2>2, <2>7
  <2> QED
    BY <2>3, <2>4, <2>5, <2>8
<1>7. w = [k \in 0..MaxSlots |-> w[k]] /\ g = [k \in 0..MaxSlots |-> g[k]]
  <2>1. g = [k \in 0..MaxSlots |-> g[k]]
    BY DEF Place
  <2>2. w = [k \in 0..MaxSlots |-> w[k]]
    BY <1>4
  <2> QED
    BY <2>1, <2>2
<1> QED
  <2> HIDE DEF g
  <2> QED BY <1>5, <1>6, <1>7 DEF g

\* The walk meets exactly what is on the queue.
LEMMA OnQueueIs ==
  ASSUME NEW t \in Table, NEW n, NEW at, InLine(t, n, at), NEW pri \in Priorities
  PROVE  /\ \A k \in Nat : k < n[pri] => at[pri][k] \in OnQueue(t, pri)
         /\ \A p \in OnQueue(t, pri) : p \in Slots /\ \E k \in Nat : k < n[pri] /\ at[pri][k] = p
<1> DEFINE g == Place(n, at, pri)
<1>1. OnQueue(t, pri) = {p \in Slots : \E k \in 0..MaxSlots : g[k] = p}
  BY WalkIs DEF OnQueue
<1>2. n[pri] \in Nat /\ n[pri] <= MaxSlots
  BY QueueLength
<1>3. at[pri] \in [Nat -> Slots]
  BY DEF InLine
<1>4. MaxSlots \in Nat /\ NULL \notin Slots
  BY SlotAssumption, PointerFacts
<1>5. \A k \in 0..MaxSlots : g[k] = IF k < n[pri] THEN at[pri][k] ELSE NULL
  BY DEF Place
<1> HIDE DEF g
<1>6. ASSUME NEW k \in Nat, k < n[pri] PROVE at[pri][k] \in OnQueue(t, pri)
  <2>1. k \in 0..MaxSlots
    BY <1>2, <1>4, <1>6
  <2> QED
    BY <2>1, <1>1, <1>3, <1>5, <1>6
<1>7. ASSUME NEW p \in OnQueue(t, pri)
      PROVE  p \in Slots /\ \E k \in Nat : k < n[pri] /\ at[pri][k] = p
  <2>1. PICK k \in 0..MaxSlots : g[k] = p
    BY <1>1
  <2>2. p \in Slots
    BY <1>1
  <2>3. k \in Nat
    BY <1>4
  <2> QED
    BY <2>1, <2>2, <2>3, <1>4, <1>5
<1> QED
  BY <1>6, <1>7
\* u is t with p taken off the queue pri; prev is before it, or NULL.
Removed(t, u, p, prev, pri) ==
  /\ u \in Table /\ SameLives(t, u)
  /\ u.rq.tail = [t.rq.tail EXCEPT ![pri] = IF t.rq.tail[pri] = p THEN prev
                                            ELSE t.rq.tail[pri]]
  /\ u.rq.head = IF prev = NULL THEN [t.rq.head EXCEPT ![pri] = t.proc[p].rq_next]
                 ELSE t.rq.head
  /\ \A q \in Slots :
       u.proc[q].rq_next = IF q = prev THEN t.proc[p].rq_next
                           ELSE IF q = p THEN NULL ELSE t.proc[q].rq_next

\* runq_remove_locked, whatever the table looks like: nothing, or one process
\* out of its queue.
LEMMA RemoveFacts ==
  ASSUME NEW t \in Table, NEW p \in Slots
  PROVE  LET pri  == t.proc[p].priority
             pre  == {q \in OnQueue(t, pri) : t.proc[q].rq_next = p}
             prev == IF t.rq.head[pri] = p \/ pre = {} THEN NULL
                     ELSE CHOOSE q \in pre : TRUE
         IN  /\ p \notin OnQueue(t, pri) => runq_remove_locked(t, p) = t
             /\ p \in OnQueue(t, pri) => Removed(t, runq_remove_locked(t, p), p, prev, pri)
<1> DEFINE pri  == t.proc[p].priority
           nxt  == t.proc[p].rq_next
           pre  == {q \in OnQueue(t, pri) : t.proc[q].rq_next = p}
           prev == IF t.rq.head[pri] = p \/ pre = {} THEN NULL
                   ELSE CHOOSE q \in pre : TRUE
           tl   == IF t.rq.tail[pri] = p THEN prev ELSE t.rq.tail[pri]
           t0   == [t EXCEPT !.proc[p].rq_next = NULL]
           t1   == [t0 EXCEPT !.rq.tail[pri] = tl]
           ta   == [t1 EXCEPT !.rq.head[pri] = nxt]
           tb   == [t1 EXCEPT !.proc[prev].rq_next = nxt]
           u    == runq_remove_locked(t, p)
<1>1. OnQueue(t, pri) \subseteq Slots
  BY DEF OnQueue
<1>2. prev \in Pointers
  BY <1>1, PointerFacts
<1>3. pri \in Priorities /\ p \in Pointers /\ nxt \in Pointers /\ NULL \in Pointers
      /\ NULL \notin Slots /\ t.rq.tail[pri] \in Pointers
  BY PointerFacts
<1>4. tl \in Pointers
  BY <1>2, <1>3
<1>5. u = IF p \notin OnQueue(t, pri) THEN t ELSE IF prev = NULL THEN ta ELSE tb
  <2> DEFINE t2 == [t EXCEPT !.proc[p].rq_next = NULL,
                             !.rq.tail[pri] = IF @ = p THEN prev ELSE @]
  <2>1. t2 = t1
    <3> HIDE DEF pri, prev
    <3> QED BY DEF Table
  <2>2. u = IF p \notin OnQueue(t, pri) THEN t
            ELSE IF prev = NULL THEN [t2 EXCEPT !.rq.head[pri] = nxt]
            ELSE [t2 EXCEPT !.proc[prev].rq_next = nxt]
    BY Zenon DEF runq_remove_locked
  <2> HIDE DEF t1, t2, u, pri, prev, nxt
  <2> QED
    BY <2>1, <2>2
<1> HIDE DEF pri, nxt, prev, tl
<1>6. /\ t0 \in Table /\ SameLives(t, t0) /\ t0.rq = t.rq
      /\ \A q \in Slots : t0.proc[q].rq_next = IF q = p THEN NULL ELSE t.proc[q].rq_next
  BY <1>3, WriteLink
<1> HIDE DEF t0
<1>7. /\ t1 \in Table /\ t1.proc = t0.proc /\ t1.rq.head = t.rq.head
      /\ t1.rq.tail = [t.rq.tail EXCEPT ![pri] = tl]
  BY <1>3, <1>4, <1>6, WriteTail
<1> HIDE DEF t1
<1>8. /\ ta \in Table /\ ta.proc = t0.proc /\ ta.rq.tail = [t.rq.tail EXCEPT ![pri] = tl]
      /\ ta.rq.head = [t.rq.head EXCEPT ![pri] = nxt]
  BY SMTT(30), <1>3, <1>7, WriteHead
<1>9. /\ tb \in Table /\ SameLives(t1, tb) /\ tb.rq = t1.rq
      /\ \A q \in Slots : tb.proc[q].rq_next = IF q = prev THEN nxt ELSE t0.proc[q].rq_next
  BY SMTT(30), <1>2, <1>3, <1>7, WriteLink
<1> HIDE DEF ta, tb
<1>10. SameLives(t, ta) /\ SameLives(t, tb)
  BY <1>6, <1>7, <1>8, <1>9 DEF SameLives, SameLife
<1>11. prev = NULL => Removed(t, ta, p, prev, pri)
  BY <1>3, <1>6, <1>8, <1>10 DEF Removed, tl, nxt
<1>12. prev # NULL => Removed(t, tb, p, prev, pri)
  BY <1>6, <1>7, <1>9, <1>10 DEF Removed, tl, nxt
<1>13. /\ p \notin OnQueue(t, pri) => u = t
       /\ p \in OnQueue(t, pri) => Removed(t, u, p, prev, pri)
  <2> HIDE DEF u
  <2> QED BY <1>5, <1>11, <1>12
<1> QED
  BY <1>13 DEF pri, prev, u

\* runq_remove_locked of a READY process leaves lists that it is not on, at
\* the head, in the middle and at the tail of its queue.
LEMMA QueuesRemove ==
  ASSUME NEW t \in Table, NEW p \in Slots, Queues(t, {}),
         t.proc[p].used, t.proc[p].state = "READY"
  PROVE  LET u == runq_remove_locked(t, p)
         IN  u \in Table /\ SameLives(t, u) /\ Queues(u, {p})
<1> DEFINE u    == runq_remove_locked(t, p)
           pri  == t.proc[p].priority
           pre  == {q \in OnQueue(t, pri) : t.proc[q].rq_next = p}
           prev == IF t.rq.head[pri] = p \/ pre = {} THEN NULL
                   ELSE CHOOSE q \in pre : TRUE
<1>1. PICK n \in [Priorities -> Nat], at \in [Priorities -> [Nat -> Slots]] :
        /\ InLine(t, n, at)
        /\ \A q \in Slots \ {idle} :
             t.proc[q].used /\ t.proc[q].state = "READY" => Lined(n, at, q)
  BY DEF Queues
<1>2. pri \in Priorities
  BY PointerFacts
<1>3. Ends(t, n, at) /\ Links(t, n, at) /\ Distinct(n, at) /\ Loose(t, n, at)
  BY <1>1 DEF InLine
<1>4. CASE p \notin OnQueue(t, pri)
  <2>1. u = t
    BY <1>4, RemoveFacts
  <2>2. \A r \in Priorities, k \in Nat : k < n[r] /\ at[r][k] = p => FALSE
    <3> SUFFICES ASSUME NEW r \in Priorities, NEW k \in Nat, k < n[r], at[r][k] = p
                 PROVE  FALSE
      OBVIOUS
    <3>1. r = pri
      BY <1>3 DEF Links
    <3> QED
      BY <3>1, <1>1, <1>4, OnQueueIs
  <2>3. Queues(t, {p})
    <3>1. ~Lined(n, at, p)
      BY <2>2 DEF Lined
    <3> QED
      BY <1>1, <3>1 DEF Queues
  <2> HIDE DEF u
  <2> QED
    BY <2>1, <2>3 DEF SameLives, SameLife, u
<1>5. CASE p \in OnQueue(t, pri)
  <2>1. PICK i \in Nat : i < n[pri] /\ at[pri][i] = p
    BY <1>1, <1>2, <1>5, OnQueueIs
  <2>2. Removed(t, u, p, prev, pri)
    BY <1>5, RemoveFacts
  <2> DEFINE m  == n[pri]
             nxt == t.proc[p].rq_next
             n2 == [n EXCEPT ![pri] = m - 1]
             a2 == [at EXCEPT ![pri] = [k \in Nat |-> IF k < i THEN at[pri][k] ELSE at[pri][k + 1]]]
  <2>3. m \in Nat /\ m - 1 \in Nat /\ i < m /\ (i # 0 => i - 1 \in Nat /\ i - 1 < m /\ (i - 1) + 1 = i)
    BY <1>2, <2>1
  <2>4. \A k \in Nat : at[pri][k] \in Slots /\ at[pri][k] # NULL
    BY <1>2, PointerFacts
  <2>5. nxt = IF i + 1 < m THEN at[pri][i + 1] ELSE NULL
    BY <1>2, <1>3, <2>1 DEF Links
  <2>6. prev = IF i = 0 THEN NULL ELSE at[pri][i - 1]
    <3>1. CASE i = 0
      BY <3>1, <1>2, <1>3, <2>1, <2>3 DEF Ends
    <3>2. CASE i # 0
      <4>1. t.rq.head[pri] # p
        <5>1. t.rq.head[pri] = at[pri][0] /\ 0 < m
          BY <3>2, <1>2, <1>3, <2>1, <2>3 DEF Ends
        <5> QED
          BY <5>1, <3>2, <1>2, <1>3, <2>1 DEF Distinct
      <4>2. at[pri][i - 1] \in pre
        <5>1. at[pri][i - 1] \in OnQueue(t, pri)
          BY <3>2, <1>1, <1>2, <2>3, OnQueueIs
        <5>2. t.proc[at[pri][i - 1]].rq_next = at[pri][(i - 1) + 1]
          BY <3>2, <1>2, <1>3, <2>3 DEF Links
        <5> QED
          BY <5>1, <5>2, <3>2, <2>1, <2>3
      <4>3. ASSUME NEW q \in pre PROVE q = at[pri][i - 1]
        <5>1. q \in OnQueue(t, pri) /\ t.proc[q].rq_next = p
          OBVIOUS
        <5>2. PICK k \in Nat : k < n[pri] /\ at[pri][k] = q
          BY <5>1, <1>1, <1>2, OnQueueIs
        <5>3. t.proc[q].rq_next = IF k + 1 < n[pri] THEN at[pri][k + 1] ELSE NULL
          BY <5>2, <1>2, <1>3 DEF Links
        <5>4. k + 1 < n[pri] /\ at[pri][k + 1] = p /\ k + 1 \in Nat
          <6>1. p # NULL
            BY PointerFacts
          <6> HIDE DEF pri, pre, m
          <6>2. k + 1 < n[pri]
            BY <5>1, <5>3, <6>1
          <6> QED
            BY <5>1, <5>3, <6>2
        <5>5. k + 1 = i
          BY <5>4, <1>2, <1>3, <2>1 DEF Distinct
        <5>6. k = i - 1
          BY <5>5, <2>3, (k + 1) - 1 = k
        <5> QED
          BY <5>2, <5>6
      <4>4. pre # {} /\ prev = CHOOSE q \in pre : TRUE
        BY <4>1, <4>2
      <4>5. prev \in pre
        <5> HIDE DEF pre, prev
        <5> QED BY <4>4
      <4> HIDE DEF pre, prev
      <4> QED
        BY <4>3, <4>5, <3>2
    <3> QED
      BY <3>1, <3>2
  <2>7. n2 \in [Priorities -> Nat] /\ a2 \in [Priorities -> [Nat -> Slots]]
    <3>1. [k \in Nat |-> IF k < i THEN at[pri][k] ELSE at[pri][k + 1]] \in [Nat -> Slots]
      BY <2>4
    <3> QED
      BY <1>2, <2>3, <3>1
  <2>8. /\ \A r \in Priorities : r # pri => n2[r] = n[r] /\ a2[r] = at[r]
        /\ n2[pri] = m - 1
        /\ \A k \in Nat : a2[pri][k] = IF k < i THEN at[pri][k] ELSE at[pri][k + 1]
    BY <1>2
  <2> HIDE DEF n2, a2, u, prev, pre, nxt
  <2>9. \A q \in Slots : /\ u.proc[q].used = t.proc[q].used
                         /\ u.proc[q].state = t.proc[q].state
                         /\ u.proc[q].priority = t.proc[q].priority
    BY <2>2 DEF Removed, SameLives, SameLife
  \* Where the k-th of the shorter queue was.
  <2> DEFINE old(k) == IF k < i THEN k ELSE k + 1
  <2>10. ASSUME NEW k \in Nat, k < m - 1
         PROVE  /\ old(k) \in Nat /\ old(k) < n[pri] /\ old(k) # i
                /\ a2[pri][k] = at[pri][old(k)] /\ a2[pri][k] # p
    <3>1. old(k) \in Nat /\ old(k) < n[pri] /\ old(k) # i /\ a2[pri][k] = at[pri][old(k)]
      BY <2>3, <2>8, <2>10
    <3> HIDE DEF old
    <3>2. a2[pri][k] # p
      BY <3>1, <1>2, <1>3, <2>1 DEF Distinct
    <3> QED
      BY <3>1, <3>2
  <2>11. ASSUME NEW r \in Priorities, NEW k \in Nat, k < n[r], at[r][k] # p
         PROVE  \E j \in Nat : j < n2[r] /\ a2[r][j] = at[r][k]
    <3>1. CASE r # pri
      BY <3>1, <2>8, <2>11
    <3>2. CASE r = pri /\ k < i
      BY <3>2, <2>3, <2>8
    <3>3. CASE r = pri /\ ~(k < i)
      <4>1. k # i
        BY <3>3, <2>1, <2>11
      <4>2. k - 1 \in Nat /\ k - 1 < m - 1 /\ ~(k - 1 < i) /\ (k - 1) + 1 = k
        BY <3>3, <4>1, <2>3, <2>11
      <4>3. a2[pri][k - 1] = at[r][k]
        BY <3>3, <4>2, <2>8
      <4> QED
        BY <3>3, <4>2, <4>3, <2>8
    <3> QED
      BY <3>1, <3>2, <3>3
  <2>12. Ends(u, n2, a2)
    <3>0. /\ t.rq.head \in [Priorities -> Pointers] /\ t.rq.tail \in [Priorities -> Pointers]
      BY DEF Table
    <3>1. ASSUME NEW r \in Priorities, r # pri
          PROVE  /\ u.rq.head[r] = IF n2[r] = 0 THEN NULL ELSE a2[r][0]
                 /\ u.rq.tail[r] = IF n2[r] = 0 THEN NULL ELSE a2[r][n2[r] - 1]
      <4>1. u.rq.head[r] = t.rq.head[r] /\ u.rq.tail[r] = t.rq.tail[r]
        BY <3>0, <3>1, <2>2 DEF Removed
      <4> QED
        BY <3>1, <4>1, <1>3, <2>8 DEF Ends
    <3>2. u.rq.head[pri] = IF n2[pri] = 0 THEN NULL ELSE a2[pri][0]
      <4>1. u.rq.head[pri] = IF i = 0 THEN nxt ELSE t.rq.head[pri]
        BY <3>0, <1>2, <2>2, <2>4, <2>3, <2>6 DEF Removed, nxt
      <4>2. t.rq.head[pri] = at[pri][0]
        BY <1>2, <1>3, <2>3 DEF Ends
      <4>3. CASE i = 0
        BY <4>1, <4>3, <2>3, <2>5, <2>8
      <4>4. CASE i # 0
        BY <4>1, <4>2, <4>4, <2>3, <2>8
      <4> QED
        BY SMTT(30), <4>3, <4>4
    <3>3. u.rq.tail[pri] = IF n2[pri] = 0 THEN NULL ELSE a2[pri][n2[pri] - 1]
      <4>1. u.rq.tail[pri] = IF t.rq.tail[pri] = p THEN prev ELSE t.rq.tail[pri]
        BY <3>0, <1>2, <2>2 DEF Removed
      <4>2. t.rq.tail[pri] = at[pri][m - 1]
        BY <1>2, <1>3, <2>3 DEF Ends
      <4>3. CASE i = m - 1
        <5>1. u.rq.tail[pri] = prev
          BY <4>1, <4>2, <4>3, <2>1
        <5>2. CASE i = 0
          BY SMTT(30), <5>1, <5>2, <4>3, <2>6, <2>8
        <5>3. CASE i # 0
          <6>1. a2[pri][i - 1] = at[pri][i - 1]
            BY <5>3, <2>3, <2>8
          <6> QED
            BY <5>1, <5>3, <6>1, <4>3, <2>6, <2>8
        <5> QED
          BY <5>2, <5>3
      <4>4. CASE i # m - 1
        <5>1. t.rq.tail[pri] # p
          <6>1. m - 1 \in Nat /\ m - 1 < n[pri]
            BY <2>3
          <6>2. at[pri][i] = at[pri][m - 1] => i = m - 1
            <7> HIDE DEF pri, m
            <7> QED
              BY <6>1, <1>2, <1>3, <2>1 DEF Distinct
          <6>3. at[pri][i] # at[pri][m - 1]
            BY <4>4, <6>2
          <6> HIDE DEF pri, m
          <6> QED
            BY <4>2, <6>3, <2>1
        <5>2. m - 1 # 0 /\ (m - 1) - 1 \in Nat /\ ~((m - 1) - 1 < i) /\ ((m - 1) - 1) + 1 = m - 1
          <6> HIDE DEF m, pri
          <6> QED
            BY <4>4, <2>3
        <5>3. a2[pri][(m - 1) - 1] = at[pri][m - 1]
          <6> DEFINE j == (m - 1) - 1
          <6>1. j \in Nat /\ ~(j < i) /\ j + 1 = m - 1
            BY <5>2
          <6> HIDE DEF j, m, pri
          <6>2. a2[pri][j] = at[pri][j + 1]
            BY <6>1, <2>8
          <6> QED
            BY <6>1, <6>2 DEF j
        <5>4. n2[pri] = m - 1 /\ n2[pri] # 0
          BY <5>2, <2>8
        <5>5. u.rq.tail[pri] = at[pri][m - 1]
          BY <5>1, <4>1, <4>2
        <5> HIDE DEF pri, m, n2, a2
        <5> QED
          BY <5>3, <5>4, <5>5
      <4> QED
        BY <4>3, <4>4
    <3> QED
      BY <3>1, <3>2, <3>3 DEF Ends
  <2>13. Links(u, n2, a2)
    <3> SUFFICES ASSUME NEW r \in Priorities, NEW k \in Nat, k < n2[r]
                 PROVE  /\ u.proc[a2[r][k]].used
                        /\ u.proc[a2[r][k]].state = "READY"
                        /\ u.proc[a2[r][k]].priority = r
                        /\ u.proc[a2[r][k]].rq_next =
                             IF k + 1 < n2[r] THEN a2[r][k + 1] ELSE NULL
      BY DEF Links
    <3>1. CASE r # pri
      <4>1. /\ at[r][k] \in Slots /\ k < n[r] /\ n2[r] = n[r] /\ a2[r] = at[r]
        BY <3>1, <2>8
      <4>2. t.proc[at[r][k]].used /\ t.proc[at[r][k]].state = "READY"
            /\ t.proc[at[r][k]].priority = r
            /\ t.proc[at[r][k]].rq_next = IF k + 1 < n[r] THEN at[r][k + 1] ELSE NULL
        BY <4>1, <1>3 DEF Links
      <4>3. i # 0 => t.proc[at[pri][i - 1]].priority = pri
        BY <1>2, <1>3, <2>3 DEF Links
      <4>4. at[r][k] # p /\ at[r][k] # prev
        <5>1. at[r][k] # NULL /\ t.proc[p].priority # r
          BY <3>1, <4>1, PointerFacts
        <5> QED
          BY <3>1, <4>2, <4>3, <5>1, <2>6
      <4>5. u.proc[at[r][k]].rq_next = t.proc[at[r][k]].rq_next
        BY <4>1, <4>4, <2>2 DEF Removed
      <4> QED
        BY <4>1, <4>2, <4>5, <2>9
    <3>2. CASE r = pri
      <4>1. k < m - 1
        BY <3>2, <2>8
      <4>2. /\ old(k) \in Nat /\ old(k) < n[pri] /\ old(k) # i
            /\ a2[pri][k] = at[pri][old(k)] /\ a2[pri][k] # p
        BY SMTT(30), <4>1, <2>10
      <4>3. u.proc[a2[pri][k]].rq_next =
              IF a2[pri][k] = prev THEN nxt ELSE t.proc[a2[pri][k]].rq_next
        BY SMTT(30), <2>2, <2>4, <4>2 DEF Removed, nxt
      <4>4. /\ t.proc[a2[pri][k]].used /\ t.proc[a2[pri][k]].state = "READY"
            /\ t.proc[a2[pri][k]].priority = pri
            /\ t.proc[a2[pri][k]].rq_next =
                 IF old(k) + 1 < n[pri] THEN at[pri][old(k) + 1] ELSE NULL
        <5> HIDE DEF old
        <5> QED BY SMTT(30), <4>2, <1>2, <1>3 DEF Links
      <4>5. CASE i # 0 /\ k = i - 1
        <5>1. a2[pri][k] = prev
          BY <4>5, <2>3, <2>6, <2>8
        <5>2. k + 1 = i /\ ~(k + 1 < i)
          BY <4>5, <2>3
        <5>3. a2[pri][k + 1] = at[pri][i + 1]
          BY <5>2, <2>8
        <5>4. k + 1 < n2[pri] <=> i + 1 < m
          BY <5>2, <2>3, <2>8
        <5>5. u.proc[a2[pri][k]].rq_next = IF k + 1 < n2[pri] THEN a2[pri][k + 1] ELSE NULL
          BY <5>1, <5>3, <5>4, <4>3, <2>5
        <5> QED
          BY <3>2, <5>5, <4>2, <4>4, <2>4, <2>9
      <4>6. CASE ~(i # 0 /\ k = i - 1)
        <5>1. a2[pri][k] # prev
          <6>1. CASE i = 0
            BY <6>1, <2>4, <2>6, <4>2
          <6>2. CASE i # 0
            <7>1. old(k) # i - 1
              BY <6>2, <4>6, <2>3
            <7> HIDE DEF old
            <7> QED
              BY <6>2, <7>1, <4>2, <1>2, <1>3, <2>3, <2>6 DEF Distinct
          <6> QED
            BY <6>1, <6>2
        <5>2. (k + 1 < n2[pri] <=> old(k) + 1 < n[pri]) /\ a2[pri][k + 1] = at[pri][old(k) + 1]
          <6>1. CASE k < i
            <7>1. k + 1 < i
              BY <6>1, <4>6, <2>3
            <7>2. k + 1 < n2[pri] /\ old(k) = k /\ k + 1 < n[pri]
              BY <6>1, <7>1, <2>3, <2>8
            <7>3. a2[pri][k + 1] = at[pri][k + 1]
              BY <7>1, <2>8
            <7> QED
              BY <7>2, <7>3
          <6>2. CASE ~(k < i)
            <7>1. ~(k + 1 < i) /\ old(k) = k + 1 /\ (k + 1 < n2[pri] <=> (k + 1) + 1 < n[pri])
              BY <6>2, <2>3, <2>8
            <7>2. a2[pri][k + 1] = at[pri][(k + 1) + 1]
              BY <7>1, <2>8
            <7> QED
              BY <7>1, <7>2
          <6> QED
            BY <6>1, <6>2
        <5>3. u.proc[a2[pri][k]].rq_next = IF k + 1 < n2[pri] THEN a2[pri][k + 1] ELSE NULL
          <6> HIDE DEF old
          <6> QED BY <5>1, <5>2, <4>3, <4>4
        <5> QED
          BY <3>2, <5>3, <4>2, <4>4, <2>4, <2>9
      <4> QED
        BY <4>5, <4>6
    <3> QED
      BY <3>1, <3>2
  <2>14. Distinct(n2, a2)
    <3> SUFFICES ASSUME NEW r \in Priorities, NEW j \in Nat, NEW k \in Nat,
                        j < n2[r], k < n2[r], a2[r][j] = a2[r][k]
                 PROVE  j = k
      BY DEF Distinct
    <3>1. CASE r # pri
      BY <3>1, <1>3, <2>8 DEF Distinct
    <3>2. CASE r = pri
      <4>1. j < m - 1 /\ k < m - 1
        BY <3>2, <2>8
      <4>2. old(j) \in Nat /\ old(j) < n[pri] /\ a2[pri][j] = at[pri][old(j)]
        BY <4>1, <2>10
      <4>3. old(k) \in Nat /\ old(k) < n[pri] /\ a2[pri][k] = at[pri][old(k)]
        BY <4>1, <2>10
      <4>4. old(j) = old(k)
        <5> HIDE DEF old
        <5> QED BY <3>2, <4>2, <4>3, <1>2, <1>3 DEF Distinct
      <4> QED
        BY SMTT(30), <4>4, <2>1
    <3> QED
      BY <3>1, <3>2
  <2>15. Loose(u, n2, a2)
    <3> SUFFICES ASSUME NEW q \in Slots,
                        \A r \in Priorities, k \in Nat : k < n2[r] => a2[r][k] # q
                 PROVE  u.proc[q].rq_next = NULL
      BY DEF Loose
    <3>1. CASE q = p
      <4>1. q # prev
        <5>1. i # 0 => at[pri][i - 1] # p
          BY <1>2, <1>3, <2>1, <2>3 DEF Distinct
        <5> QED
          BY <5>1, <3>1, <2>6, PointerFacts
      <4> QED
        BY <3>1, <4>1, <2>2 DEF Removed
    <3>2. CASE q # p
      <4>1. \A r \in Priorities, k \in Nat : k < n[r] => at[r][k] # q
        BY <3>2, <2>11
      <4>2. t.proc[q].rq_next = NULL
        BY <4>1, <1>3 DEF Loose
      <4>3. q # prev
        BY <4>1, <1>2, <2>3, <2>6, PointerFacts
      <4> QED
        BY <3>2, <4>2, <4>3, <2>2 DEF Removed
    <3> QED
      BY <3>1, <3>2
  <2>16. InLine(u, n2, a2)
    BY <2>7, <2>12, <2>13, <2>14, <2>15 DEF InLine
  <2>17. ~Lined(n2, a2, p)
    <3> SUFFICES ASSUME NEW r \in Priorities, NEW k \in Nat, k < n2[r], a2[r][k] = p
                 PROVE  FALSE
      BY DEF Lined
    <3>1. r = pri
      BY <1>3, <2>8 DEF Links
    <3> QED
      BY <3>1, <2>8, <2>10
  <2>18. \A q \in Slots \ {p, idle} :
           u.proc[q].used /\ u.proc[q].state = "READY" => Lined(n2, a2, q)
    <3> SUFFICES ASSUME NEW q \in Slots \ {p, idle}, u.proc[q].used, u.proc[q].state = "READY"
                 PROVE  Lined(n2, a2, q)
      OBVIOUS
    <3>1. Lined(n, at, q)
      BY <1>1, <2>9
    <3>2. PICK r \in Priorities, k \in Nat : k < n[r] /\ at[r][k] = q
      BY <3>1 DEF Lined
    <3> QED
      BY <3>2, <2>11 DEF Lined
  <2>19. Queues(u, {p})
    BY <2>7, <2>16, <2>17, <2>18 DEF Queues
  <2> QED
    BY <2>2, <2>19 DEF Removed, u
<1> QED
  BY <1>4, <1>5

---------------------------------------------------------------------------
(* The locked helpers that write states. *)

\* Whatever happens to p, the others are at most woken.
Affects(t, u, p) ==
  /\ u \in Table
  /\ \A q \in Slots : /\ SameKin(t.proc[q], u.proc[q])
                      /\ u.proc[q].priority = t.proc[q].priority
  /\ \A q \in Slots \ {p} :
       /\ u.proc[q].wait_status = t.proc[q].wait_status
       /\ u.proc[q].pending = t.proc[q].pending
       /\ \/ u.proc[q].state = t.proc[q].state
          \/ t.proc[q].state = "BLOCKED" /\ u.proc[q].state = "READY"

\* Nothing but p's state is written.
StateSet(t, u, p, s) ==
  /\ Touch(t, u, p) /\ Affects(t, u, p)
  /\ u.proc[p].state = s
  /\ u.proc[p].wait_status = t.proc[p].wait_status
  /\ u.proc[p].pending = t.proc[p].pending

\* SetState writes one state and nothing else.
LEMMA SetStateFacts ==
  ASSUME NEW t \in Table, NEW p \in Slots, NEW s \in States
  PROVE  StateSet(t, SetState(t, p, s), p, s)
<1> DEFINE r == [t.proc[p] EXCEPT !.state = s]
           u == [t EXCEPT !.proc[p] = r]
<1>1. t.proc[p] \in ProcRecord
  BY PointerFacts
<1>2. /\ r \in ProcRecord /\ SameKin(t.proc[p], r) /\ r.state = s
      /\ r.rq_next = t.proc[p].rq_next /\ r.priority = t.proc[p].priority
      /\ r.wait_status = t.proc[p].wait_status /\ r.pending = t.proc[p].pending
  BY <1>1, FieldWrites
<1>3. SetState(t, p, s) = u
  BY DEF SetState, Table
<1> HIDE DEF r
<1>4. /\ u \in Table /\ u.rq = t.rq /\ u.proc[p] = r
      /\ \A q \in Slots : q # p => u.proc[q] = t.proc[q]
  BY <1>2, WriteSlot
<1> HIDE DEF u
<1> QED
  BY <1>2, <1>3, <1>4 DEF StateSet, Touch, Affects, SameKin

\* A write to the pending signals of a process changes nothing else.
LEMMA PendingFacts ==
  ASSUME NEW t \in Table, NEW p \in Slots, NEW S \in SUBSET Signals
  PROVE  LET u == [t EXCEPT !.proc[p].pending = S]
         IN  /\ Touch(t, u, p) /\ Affects(t, u, p)
             /\ u.proc[p].state = t.proc[p].state
             /\ u.proc[p].wait_status = t.proc[p].wait_status
             /\ u.proc[p].pending = S
<1> DEFINE r == [t.proc[p] EXCEPT !.pending = S]
           u == [t EXCEPT !.proc[p] = r]
<1>1. t.proc[p] \in ProcRecord
  BY PointerFacts
<1>2. /\ r \in ProcRecord /\ SameKin(t.proc[p], r) /\ r.state = t.proc[p].state
      /\ r.rq_next = t.proc[p].rq_next /\ r.priority = t.proc[p].priority
      /\ r.wait_status = t.proc[p].wait_status /\ r.pending = S
  BY SMTT(30), <1>1, FieldWrites
<1>3. [t EXCEPT !.proc[p].pending = S] = u
  BY DEF Table
<1> HIDE DEF r
<1>4. /\ u \in Table /\ u.rq = t.rq /\ u.proc[p] = r
      /\ \A q \in Slots : q # p => u.proc[q] = t.proc[q]
  BY <1>2, WriteSlot
<1> HIDE DEF u
<1> QED
  BY <1>2, <1>3, <1>4 DEF Touch, Affects, SameKin

\* A write to the time slice of a process changes nothing else.
LEMMA SliceFacts ==
  ASSUME NEW t \in Table, NEW p \in Slots, NEW x \in 0..TimeSlice
  PROVE  LET u == [t EXCEPT !.proc[p].time_slice = x]
         IN  /\ StateSet(t, u, p, t.proc[p].state)
             /\ u.proc[p].time_slice = x
<1> DEFINE r == [t.proc[p] EXCEPT !.time_slice = x]
           u == [t EXCEPT !.proc[p] = r]
<1>1. t.proc[p] \in ProcRecord
  BY PointerFacts
<1>2. /\ r \in ProcRecord /\ SameKin(t.proc[p], r) /\ r.state = t.proc[p].state
      /\ r.rq_next = t.proc[p].rq_next /\ r.priority = t.proc[p].priority
      /\ r.wait_status = t.proc[p].wait_status /\ r.pending = t.proc[p].pending
      /\ r.time_slice = x
  BY <1>1, FieldWrites
<1>3. [t EXCEPT !.proc[p].time_slice = x] = u
  BY DEF Table
<1> HIDE DEF r
<1>4. /\ u \in Table /\ u.rq = t.rq /\ u.proc[p] = r
      /\ \A q \in Slots : q # p => u.proc[q] = t.proc[q]
  BY <1>2, WriteSlot
<1> HIDE DEF u
<1> QED
  BY <1>2, <1>3, <1>4 DEF StateSet, Touch, Affects, SameKin

\* A write to the priority of a process changes nothing else.
LEMMA PriorityFacts ==
  ASSUME NEW t \in Table, NEW p \in Slots, NEW x \in Priorities
  PROVE  LET u == [t EXCEPT !.proc[p].priority = x]
         IN  /\ Touch(t, u, p)
             /\ u.proc[p].state = t.proc[p].state
             /\ u.proc[p].wait_status = t.proc[p].wait_status
             /\ u.proc[p].pending = t.proc[p].pending
<1> DEFINE r == [t.proc[p] EXCEPT !.priority = x]
           u == [t EXCEPT !.proc[p] = r]
<1>1. t.proc[p] \in ProcRecord
  BY PointerFacts
<1>2. /\ r \in ProcRecord /\ SameKin(t.proc[p], r) /\ r.state = t.proc[p].state
      /\ r.rq_next = t.proc[p].rq_next
      /\ r.wait_status = t.proc[p].wait_status /\ r.pending = t.proc[p].pending
  BY <1>1, FieldWrites
<1>3. [t EXCEPT !.proc[p].priority = x] = u
  BY DEF Table
<1> HIDE DEF r
<1>4. /\ u \in Table /\ u.rq = t.rq /\ u.proc[p] = r
      /\ \A q \in Slots : q # p => u.proc[q] = t.proc[q]
  BY SMTT(30), <1>2, WriteSlot
<1> HIDE DEF u
<1> QED
  BY <1>2, <1>3, <1>4 DEF Touch, SameKin

\* The write at the head of mark_zombie_locked.
LEMMA DiesFacts ==
  ASSUME NEW t \in Table, NEW p \in Slots, NEW status \in Statuses
  PROVE  LET u == [t EXCEPT !.proc[p].wait_status = status, !.proc[p].state = "ZOMBIE"]
         IN  /\ Touch(t, u, p) /\ Affects(t, u, p)
             /\ u.proc[p].state = "ZOMBIE"
             /\ u.proc[p].pending = t.proc[p].pending
<1> DEFINE r0 == [t.proc[p] EXCEPT !.wait_status = status]
           r  == [r0 EXCEPT !.state = "ZOMBIE"]
           u  == [t EXCEPT !.proc[p] = r]
<1>1. t.proc[p] \in ProcRecord /\ "ZOMBIE" \in States
  BY PointerFacts DEF States
<1>2. /\ r0 \in ProcRecord /\ SameKin(t.proc[p], r0)
      /\ r0.rq_next = t.proc[p].rq_next /\ r0.priority = t.proc[p].priority
      /\ r0.pending = t.proc[p].pending
  BY <1>1, FieldWrites
<1>3. [t EXCEPT !.proc[p].wait_status = status, !.proc[p].state = "ZOMBIE"] = u
  BY DEF Table
<1> HIDE DEF r0
<1>4. /\ r \in ProcRecord /\ SameKin(r0, r) /\ r.state = "ZOMBIE"
      /\ r.rq_next = r0.rq_next /\ r.priority = r0.priority
      /\ r.pending = r0.pending
  BY <1>1, <1>2, FieldWrites
<1> HIDE DEF r
<1>5. /\ u \in Table /\ u.rq = t.rq /\ u.proc[p] = r
      /\ \A q \in Slots : q # p => u.proc[q] = t.proc[q]
  BY <1>4, WriteSlot
<1> HIDE DEF u
<1> QED
  BY ZenonT(40), <1>2, <1>3, <1>4, <1>5 DEF Touch, Affects, SameKin
\* A process that is not READY becomes READY and is queued.
LEMMA ReadyPush ==
  ASSUME NEW t \in Table, NEW v \in Table, NEW p \in Slots, Touch(t, v, p), Queues(t, {}),
         v.proc[p].used, v.proc[p].state = "READY", t.proc[p].state # "READY"
  PROVE  Queues(runq_push_locked(v, p), {})
<1>1. Queues(t, {p}) /\ Around(t, v, p)
  BY QueuesAside DEF Touch, Around
<1>2. Queues(v, {p})
  BY <1>1, QueuesAround
<1> QED
  BY <1>2, QueuesPush

\* A change to a process that is not READY, before or after, leaves the
\* queues alone.
LEMMA QueuesTouch ==
  ASSUME NEW t \in Table, NEW u, NEW p \in Slots, Touch(t, u, p), Queues(t, {}),
         \/ /\ t.proc[p].state # "READY"
            /\ u.proc[p].state # "READY" \/ p = idle
         \/ /\ u.proc[p].state = t.proc[p].state
            /\ u.proc[p].priority = t.proc[p].priority
  PROVE  Queues(u, {})
<1>1. u \in Table /\ Around(t, u, p)
  BY DEF Touch, Around
<1>2. CASE u.proc[p].state = t.proc[p].state /\ u.proc[p].priority = t.proc[p].priority
  BY <1>1, <1>2, QueuesSame DEF Touch, SameKin
<1>3. CASE t.proc[p].state # "READY" /\ (u.proc[p].state # "READY" \/ p = idle)
  <2>1. Queues(t, {p})
    BY <1>3, QueuesAside
  <2>2. Queues(u, {p})
    BY <1>1, <2>1, QueuesAround
  <2> QED
    BY <1>1, <1>3, <2>2, QueuesBack
<1> QED
  BY <1>2, <1>3

\* The only process with a given pid that is BLOCKED when its child p dies.
Told(t, u, p) ==
  \A q \in Slots :
    /\ t.proc[q].used /\ t.proc[q].pid = t.proc[p].ppid /\ t.proc[p].ppid # 0
    /\ \A r \in Slots : t.proc[r].used /\ t.proc[r].pid = t.proc[q].pid => r = q
    => u.proc[q].state # "BLOCKED"

\* wake_parent_if_waiting_locked wakes the parent if it is BLOCKED, changes
\* nobody else and keeps the queues.
LEMMA WakeFacts ==
  ASSUME NEW t \in Table, NEW p \in Slots
  PROVE  LET u == wake_parent_if_waiting_locked(t, p)
         IN  /\ Affects(t, u, NULL) /\ Told(t, u, p)
             /\ Queues(t, {}) => Queues(u, {})
<1> DEFINE u   == wake_parent_if_waiting_locked(t, p)
           par == find_by_pid_locked(t, t.proc[p].ppid)
           v   == SetState(t, par, "READY")
           C   == t.proc[p].ppid # 0 /\ par # NULL /\ t.proc[par].state = "BLOCKED"
<1>1. /\ par # NULL => par \in Slots /\ t.proc[par].used /\ t.proc[par].pid = t.proc[p].ppid
      /\ par = NULL => \A q \in Slots : ~(t.proc[q].used /\ t.proc[q].pid = t.proc[p].ppid)
  BY FindType
<1>2. u = IF C THEN runq_push_locked(v, par) ELSE t
  BY DEF wake_parent_if_waiting_locked
<1> HIDE DEF par
<1>3. CASE C
  <2>1. par \in Slots /\ t.proc[par].used /\ t.proc[par].state = "BLOCKED"
    BY <1>1, <1>3
  <2>2. StateSet(t, v, par, "READY")
    BY <2>1, SetStateFacts DEF States
  <2> HIDE DEF v, u
  <2>3. Pushed(v, u, par, v.proc[par].priority)
    BY SMTT(30), <1>2, <1>3, <2>1, <2>2, PushFacts DEF StateSet, Touch
  <2>4. Affects(t, u, NULL)
    BY <2>1, <2>2, <2>3 DEF Affects, StateSet, Pushed, SameLives, SameLife, SameKin, Touch
  <2>5. u.proc[par].state = "READY"
    BY <2>1, <2>2, <2>3 DEF StateSet, Pushed, SameLives, SameLife
  <2>6. Told(t, u, p)
    BY <1>1, <1>3, <2>1, <2>5 DEF Told
  <2>7. Queues(t, {}) => Queues(u, {})
    BY <1>2, <1>3, <2>1, <2>2, ReadyPush DEF StateSet, Touch, SameKin
  <2> QED
    BY <2>4, <2>6, <2>7 DEF u
<1>4. CASE ~C
  <2>1. u = t
    BY <1>2, <1>4
  <2>2. Told(t, t, p)
    <3> SUFFICES ASSUME NEW q \in Slots,
                        t.proc[q].used, t.proc[q].pid = t.proc[p].ppid, t.proc[p].ppid # 0,
                        \A r \in Slots : t.proc[r].used /\ t.proc[r].pid = t.proc[q].pid => r = q
                 PROVE  t.proc[q].state # "BLOCKED"
      BY DEF Told
    <3>1. par # NULL
      BY <1>1
    <3>2. par = q
      BY <1>1, <3>1
    <3> QED
      BY <1>4, <3>1, <3>2
  <2> HIDE DEF u
  <2>3. Affects(t, t, NULL)
    BY DEF Affects, SameKin
  <2> QED
    BY <2>1, <2>2, <2>3 DEF u
<1> QED
  BY <1>3, <1>4

\* What mark_zombie_locked does: u is t after the death of p.
Killed(t, u, p) ==
  /\ Affects(t, u, p)
  /\ u.proc[p].pending = t.proc[p].pending
  /\ t.proc[p].state \in {"ZOMBIE", "DEAD"} => u = t
  /\ t.proc[p].state \notin {"ZOMBIE", "DEAD"} => u.proc[p].state = "ZOMBIE" /\ Told(t, u, p)
  /\ Queues(t, {}) /\ t.proc[p].state # "READY" => Queues(u, {})

\* mark_zombie_locked makes a live process a zombie and tells its parent, does
\* nothing to a dead one, and keeps the queues unless its victim is queued.
LEMMA MarkZombieFacts ==
  ASSUME NEW t \in Table, NEW p \in Slots, NEW status \in Statuses
  PROVE  Killed(t, mark_zombie_locked(t, p, status), p)
<1> DEFINE u == mark_zombie_locked(t, p, status)
           v == [t EXCEPT !.proc[p].wait_status = status, !.proc[p].state = "ZOMBIE"]
<1>1. CASE t.proc[p].state \in {"ZOMBIE", "DEAD"}
  <2>1. u = t
    BY <1>1 DEF mark_zombie_locked
  <2> HIDE DEF u
  <2> QED
    BY <1>1, <2>1 DEF Killed, Affects, SameKin, u
<1>2. CASE t.proc[p].state \notin {"ZOMBIE", "DEAD"}
  <2>1. u = wake_parent_if_waiting_locked(v, p)
    BY SMTT(30), <1>2 DEF mark_zombie_locked
  <2>2. /\ Touch(t, v, p) /\ Affects(t, v, p)
        /\ v.proc[p].state = "ZOMBIE"
        /\ v.proc[p].pending = t.proc[p].pending
    BY DiesFacts
  <2> HIDE DEF v, u
  <2>3. /\ Affects(v, u, NULL) /\ Told(v, u, p)
        /\ Queues(v, {}) => Queues(u, {})
    BY <2>1, <2>2, WakeFacts DEF Touch
  <2>4. /\ Affects(t, u, p) /\ u.proc[p].state = "ZOMBIE"
        /\ u.proc[p].pending = t.proc[p].pending
    BY <2>2, <2>3, PointerFacts DEF Affects, SameKin
  <2>5. Told(t, u, p)
    <3> SUFFICES ASSUME NEW q \in Slots,
                        t.proc[q].used, t.proc[q].pid = t.proc[p].ppid, t.proc[p].ppid # 0,
                        \A r \in Slots : t.proc[r].used /\ t.proc[r].pid = t.proc[q].pid => r = q
                 PROVE  u.proc[q].state # "BLOCKED"
      BY DEF Told
    <3>1. \A r \in Slots : v.proc[r].used = t.proc[r].used /\ v.proc[r].pid = t.proc[r].pid
                           /\ v.proc[r].ppid = t.proc[r].ppid
      BY <2>2 DEF Affects, SameKin
    <3> QED
      BY <3>1, <2>3 DEF Told
  <2>6. Queues(t, {}) /\ t.proc[p].state # "READY" => Queues(u, {})
    BY <2>2, <2>3, QueuesTouch
  <2> QED
    BY <1>2, <2>4, <2>5, <2>6 DEF Killed, u
<1> QED
  BY <1>1, <1>2
\* u is t after a signal or a death that concerns p.
Hit(t, u, p) ==
  /\ Affects(t, u, p)
  /\ t.proc[p].state \in {"ZOMBIE", "DEAD"} =>
       u.proc[p].state = t.proc[p].state /\ u.proc[p].wait_status = t.proc[p].wait_status
  /\ \/ u.proc[p].state = t.proc[p].state
     \/ u.proc[p].state = "ZOMBIE" /\ Told(t, u, p)
     \/ t.proc[p].state = "BLOCKED" /\ u.proc[p].state = "READY"

\* What process.c encodes as a status is one.
LEMMA StatusFacts ==
  /\ \A code \in ExitCodes : WAIT_STATUS_EXIT(code) \in Statuses
  /\ \A sig \in Signals : WAIT_STATUS_SIGNAL(sig) \in Statuses
BY DEF Statuses

\* signal_pick_lowest returns one of the signals it is given.
LEMMA PickLowest ==
  ASSUME NEW S \in SUBSET Signals, S # {}
  PROVE  signal_pick_lowest(S) \in S
<1>1. S \subseteq Nat
  BY SignalAssumption
<1> QED
  BY <1>1, LeastIn DEF signal_pick_lowest

\* prepare_signal_action_locked leaves its process as it was or dead, and does
\* nothing without a pending signal.
LEMMA PrepareFacts ==
  ASSUME NEW t \in Table, NEW p \in Slots
  PROVE  LET u == prepare_signal_action_locked(t, p)
         IN  /\ Hit(t, u, p)
             /\ u.proc[p].state \in {t.proc[p].state, "ZOMBIE"}
             /\ t.proc[p].pending = {} => u = t
             /\ Queues(t, {}) /\ t.proc[p].state # "READY" => Queues(u, {})
<1> DEFINE D   == Deliverable(t, p)
           sig == signal_pick_lowest(D)
           t1  == [t EXCEPT !.proc[p].pending = t.proc[p].pending \ {sig}]
           h   == t.proc[p].handlers[sig]
           u   == prepare_signal_action_locked(t, p)
           dead == mark_zombie_locked(t1, p, WAIT_STATUS_SIGNAL(sig))
<1>1. u = IF t.proc[p].state \in {"ZOMBIE", "DEAD"} \/ D = {} THEN t
          ELSE IF h # "IGN" /\ (h = "DFL" \/ sig \in {SIGKILL, SIGINT}) THEN dead ELSE t1
  <2>1. [t EXCEPT !.proc[p].pending = @ \ {sig}] = t1
    BY DEF Table
  <2> HIDE DEF t1, D, sig
  <2> QED
    BY <2>1 DEF prepare_signal_action_locked, D, sig
<1>2. t.proc[p].pending \in SUBSET Signals /\ D \in SUBSET Signals
  <2>1. t.proc[p].pending \in SUBSET Signals
    BY PointerFacts DEF ProcRecord
  <2> QED
    BY <2>1 DEF Deliverable
<1> HIDE DEF u
<1>3. CASE u = t
  BY <1>3 DEF Hit, Affects, SameKin, u
<1>4. CASE u # t
  <2>1. D # {} /\ t.proc[p].state \notin {"ZOMBIE", "DEAD"} /\ u \in {dead, t1}
    BY <1>1, <1>4
  <2>2. sig \in D /\ sig \in Signals
    BY <1>2, <2>1, PickLowest
  <2>3. t.proc[p].pending # {}
    BY <2>1 DEF Deliverable
  <2>4. /\ Touch(t, t1, p) /\ Affects(t, t1, p)
        /\ t1.proc[p].state = t.proc[p].state
        /\ t1.proc[p].wait_status = t.proc[p].wait_status
    BY SMTT(30), <1>2, PendingFacts
  <2>5. WAIT_STATUS_SIGNAL(sig) \in Statuses
    BY <2>2, StatusFacts
  <2> HIDE DEF t1, sig, D
  <2>6. Killed(t1, dead, p)
    BY <2>4, <2>5, MarkZombieFacts DEF Touch
  <2> HIDE DEF dead
  <2>7. Queues(t, {}) => Queues(t1, {})
    BY <2>4, QueuesTouch DEF Affects
  <2>8. CASE u = t1
    BY <2>1, <2>3, <2>4, <2>7, <2>8 DEF Hit, u
  <2>9. CASE u = dead
    <3>1. Affects(t, dead, p) /\ dead.proc[p].state = "ZOMBIE"
      BY <2>1, <2>4, <2>6 DEF Killed, Affects, SameKin
    <3>2. Told(t, dead, p)
      <4>1. Told(t1, dead, p)
        BY <2>1, <2>4, <2>6 DEF Killed
      <4>2. \A q \in Slots : t1.proc[q].used = t.proc[q].used /\ t1.proc[q].pid = t.proc[q].pid
                             /\ t1.proc[q].ppid = t.proc[q].ppid
        BY <2>4 DEF Affects, SameKin
      <4> QED
        BY <4>1, <4>2 DEF Told
    <3>3. Queues(t, {}) /\ t.proc[p].state # "READY" => Queues(dead, {})
      BY <2>4, <2>6, <2>7 DEF Killed
    <3> QED
      BY <2>1, <2>3, <2>9, <3>1, <3>2, <3>3 DEF Hit, u
  <2> QED
    BY <2>1, <2>8, <2>9
<1> QED
  BY <1>3, <1>4

\* Sending a signal wakes a sleeper, and only SIGKILL kills on the spot.
LEMMA SendFacts ==
  ASSUME NEW t \in Table, NEW p \in Slots, NEW sig \in Signals, t.proc[p].used
  PROVE  LET u == SendSignal(t, p, sig)
         IN  /\ Hit(t, u, p)
             /\ sig # SIGKILL => u.proc[p].state # "ZOMBIE" \/ t.proc[p].state = "ZOMBIE"
             /\ Queues(t, {}) /\ (sig = SIGKILL => t.proc[p].state # "READY") => Queues(u, {})
<1> DEFINE S  == t.proc[p].pending \cup {sig}
           t1 == [t EXCEPT !.proc[p].pending = S]
           v  == SetState(t1, p, "READY")
           u  == SendSignal(t, p, sig)
<1>1. u = IF sig = SIGKILL THEN mark_zombie_locked(t, p, WAIT_STATUS_SIGNAL(sig))
          ELSE IF t.proc[p].state = "BLOCKED" THEN runq_push_locked(v, p) ELSE t1
  <2>1. [t EXCEPT !.proc[p].pending = @ \cup {sig}] = t1
    BY DEF Table
  <2> HIDE DEF t1
  <2> QED
    BY <2>1 DEF SendSignal
<1>2. S \in SUBSET Signals
  <2>1. t.proc[p].pending \in SUBSET Signals
    BY PointerFacts DEF ProcRecord
  <2> QED
    BY <2>1
<1>3. /\ Touch(t, t1, p) /\ Affects(t, t1, p)
      /\ t1.proc[p].state = t.proc[p].state
      /\ t1.proc[p].wait_status = t.proc[p].wait_status
  BY <1>2, PendingFacts
<1> HIDE DEF t1, S, u
<1>4. Queues(t, {}) => Queues(t1, {})
  BY <1>3, QueuesTouch DEF Affects
<1>5. StateSet(t1, v, p, "READY")
  BY <1>3, SetStateFacts DEF Touch, States
<1> HIDE DEF v
<1>6. CASE sig = SIGKILL
  <2>1. Killed(t, u, p)
    BY <1>1, <1>6, MarkZombieFacts, StatusFacts
  <2> QED
    BY <1>6, <2>1 DEF Killed, Hit, u
<1>7. CASE sig # SIGKILL /\ t.proc[p].state = "BLOCKED"
  <2>1. u = runq_push_locked(v, p) /\ v \in Table
    BY <1>1, <1>5, <1>7 DEF StateSet, Touch
  <2>2. Pushed(v, u, p, v.proc[p].priority)
    BY <2>1, PushFacts
  <2>3. u.proc[p].state = "READY"
    BY SMTT(30), <1>5, <2>2 DEF StateSet, Pushed, SameLives, SameLife
  <2>4. Affects(t, u, p)
    BY <1>3, <1>5, <2>2 DEF Affects, StateSet, Pushed, SameLives, SameLife, SameKin
  <2>5. v.proc[p].used /\ v.proc[p].state = "READY" /\ t1.proc[p].state = "BLOCKED"
    BY <1>3, <1>5, <1>7 DEF StateSet, Touch, SameKin
  <2>6. Queues(t1, {}) => Queues(u, {})
    BY <1>3, <1>5, <2>1, <2>5, ReadyPush DEF StateSet, Touch
  <2> QED
    BY <1>4, <1>7, <2>3, <2>4, <2>6 DEF Hit, u
<1>8. CASE sig # SIGKILL /\ t.proc[p].state # "BLOCKED"
  BY <1>1, <1>3, <1>4, <1>8 DEF Hit, u
<1> QED
  BY <1>6, <1>7, <1>8

\* The tick's charge of the running process: a signal may kill it, its slice
\* shrinks, and the queues stay lists.
LEMMA ChargedFacts ==
  ASSUME NEW t \in Table, NEW p \in Slots
  PROVE  LET u == Charged(t, p)
         IN  /\ Hit(t, u, p)
             /\ u.proc[p].state \in {t.proc[p].state, "ZOMBIE"}
             /\ t.proc[p].state # "RUNNING" => u = t
             /\ t.proc[p].is_idle /\ t.proc[p].pending = {} => u = t
             /\ Queues(t, {}) => Queues(u, {})
<1> DEFINE t1 == IF t.proc[p].state = "RUNNING" THEN prepare_signal_action_locked(t, p) ELSE t
           ts == t1.proc[p].time_slice
           t2 == [t1 EXCEPT !.proc[p].time_slice = ts - 1]
           C  == t1.proc[p].state = "RUNNING" /\ ~t1.proc[p].is_idle /\ ts > 0
           u  == Charged(t, p)
<1>1. u = IF C THEN t2 ELSE t1
  BY DEF Charged
<1>2. /\ Hit(t, t1, p)
      /\ t1.proc[p].state \in {t.proc[p].state, "ZOMBIE"}
      /\ t.proc[p].state # "RUNNING" => t1 = t
      /\ t.proc[p].pending = {} => t1 = t
      /\ Queues(t, {}) => Queues(t1, {})
  <2>1. CASE t.proc[p].state = "RUNNING"
    BY <2>1, PrepareFacts
  <2>2. CASE t.proc[p].state # "RUNNING"
    BY <2>2 DEF Hit, Affects, SameKin
  <2> QED
    BY <2>1, <2>2
<1> HIDE DEF t1, u
<1>3. t1 \in Table
  BY <1>2 DEF Hit, Affects
<1>4. CASE ~C
  BY <1>1, <1>2, <1>4 DEF u
<1>5. CASE C
  <2>1. ts \in 0..TimeSlice
    BY <1>3, PointerFacts DEF ProcRecord
  <2>2. ts - 1 \in 0..TimeSlice
    BY <1>5, <2>1, PriorityAssumption
  <2>3. StateSet(t1, t2, p, "RUNNING")
    <3>1. StateSet(t1, t2, p, t1.proc[p].state)
      BY <1>3, <2>2, SliceFacts
    <3> QED
      BY <3>1, <1>5
  <2> HIDE DEF t2, ts
  <2>4. Queues(t1, {}) => Queues(t2, {})
    BY <1>3, <1>5, <2>3, QueuesTouch DEF StateSet, Affects
  <2>5. t.proc[p].state = "RUNNING" /\ ~t.proc[p].is_idle
    BY <1>2, <1>5 DEF Hit, Affects, SameKin
  <2>6. Affects(t, t2, p)
    BY <1>2, <2>3 DEF Hit, Affects, SameKin, StateSet, Touch
  <2> QED
    BY <1>1, <1>2, <1>5, <2>3, <2>4, <2>5, <2>6 DEF Hit, StateSet, u
<1> QED
  BY <1>4, <1>5

\* A process that loses the CPU goes to the back of its queue; idle, which is
\* never queued by the tick, only changes its state.
LEMMA PreemptedFacts ==
  ASSUME NEW t \in Table, NEW p \in Slots
  PROVE  LET u == Preempted(t, p)
         IN  /\ Affects(t, u, p)
             /\ u.proc[p].wait_status = t.proc[p].wait_status
             /\ u.proc[p].pending = t.proc[p].pending
             /\ t.proc[p].state # "RUNNING" => u = t
             /\ t.proc[p].state = "RUNNING" => u.proc[p].state = "READY"
             /\ Queues(t, {}) /\ t.proc[p].used /\ (t.proc[p].is_idle <=> p = idle)
                  => Queues(u, {})
<1> DEFINE u == Preempted(t, p)
           v == SetState(t, p, "READY")
           w == [v EXCEPT !.proc[p].time_slice = TimeSlice]
<1>1. StateSet(t, v, p, "READY")
  BY SetStateFacts DEF States
<1>2. StateSet(v, w, p, v.proc[p].state)
  <2>1. TimeSlice \in 0..TimeSlice /\ v \in Table
    BY <1>1, PriorityAssumption DEF StateSet, Touch
  <2> HIDE DEF v
  <2> QED
    BY <2>1, SliceFacts
<1>3. u = IF t.proc[p].state # "RUNNING" THEN t
          ELSE IF t.proc[p].is_idle THEN v ELSE runq_push_locked(w, p)
  BY DEF Preempted
<1> HIDE DEF u, v, w
<1>4. CASE t.proc[p].state # "RUNNING"
  BY <1>3, <1>4 DEF Affects, SameKin, u
<1>5. CASE t.proc[p].state = "RUNNING" /\ t.proc[p].is_idle
  <2>1. u = v
    BY <1>3, <1>5
  <2>2. Queues(t, {}) /\ (t.proc[p].is_idle <=> p = idle) => Queues(v, {})
    BY <1>1, <1>5, QueuesTouch DEF StateSet
  <2>3. /\ Affects(t, v, p) /\ v.proc[p].state = "READY"
        /\ v.proc[p].wait_status = t.proc[p].wait_status
        /\ v.proc[p].pending = t.proc[p].pending
    BY <1>1 DEF StateSet
  <2> QED
    BY <1>5, <2>1, <2>2, <2>3 DEF u
<1>6. CASE t.proc[p].state = "RUNNING" /\ ~t.proc[p].is_idle
  <2>1. u = runq_push_locked(w, p) /\ w \in Table
    BY <1>2, <1>3, <1>6 DEF StateSet, Touch
  <2>2. Pushed(w, u, p, w.proc[p].priority)
    BY <2>1, PushFacts
  <2>3. Affects(t, w, p) /\ Touch(t, w, p) /\ w.proc[p].state = "READY"
        /\ w.proc[p].used = t.proc[p].used
        /\ w.proc[p].wait_status = t.proc[p].wait_status
        /\ w.proc[p].pending = t.proc[p].pending
    <3>1. Touch(t, v, p) /\ Touch(v, w, p)
      BY <1>1, <1>2 DEF StateSet
    <3>2. Touch(t, w, p)
      BY <3>1 DEF Touch, SameKin
    <3>3. Affects(t, v, p) /\ Affects(v, w, p)
      BY <1>1, <1>2 DEF StateSet
    <3>4. w.proc[p].priority = t.proc[p].priority
      BY <3>3 DEF Affects
    <3>5. Affects(t, w, p)
      BY <3>2, <3>4 DEF Affects, Touch, SameKin
    <3>6. w.proc[p].used = t.proc[p].used
      BY <3>2 DEF Touch, SameKin
    <3> QED
      BY <1>1, <1>2, <3>2, <3>5, <3>6 DEF StateSet
  <2>4. Queues(t, {}) /\ t.proc[p].used => Queues(u, {})
    BY <1>6, <2>1, <2>3, ReadyPush
  <2>5. /\ Affects(t, u, p) /\ u.proc[p].state = "READY"
        /\ u.proc[p].wait_status = t.proc[p].wait_status
        /\ u.proc[p].pending = t.proc[p].pending
    BY <2>2, <2>3 DEF Affects, Pushed, SameLives, SameLife, SameKin
  <2> QED
    BY <1>6, <2>4, <2>5 DEF u
<1> QED
  BY <1>4, <1>5, <1>6

\* A READY process makes its priority a candidate.
LEMMA ReadyWaits ==
  ASSUME NEW t \in Table, Queues(t, {}), NEW q \in Slots \ {idle},
         t.proc[q].used, t.proc[q].state = "READY"
  PROVE  t.proc[q].priority \in Waiting(t)
<1>1. PICK n \in [Priorities -> Nat], at \in [Priorities -> [Nat -> Slots]] :
        /\ InLine(t, n, at)
        /\ \A p \in Slots \ {idle} :
             t.proc[p].used /\ t.proc[p].state = "READY" => Lined(n, at, p)
  BY DEF Queues
<1>2. Links(t, n, at) /\ Ends(t, n, at)
  BY <1>1 DEF InLine
<1>3. PICK pri \in Priorities, k \in Nat : k < n[pri] /\ at[pri][k] = q
  BY <1>1 DEF Lined
<1>4. t.proc[q].priority = pri
  BY <1>2, <1>3 DEF Links
<1>5. n[pri] # 0 /\ t.rq.head[pri] = at[pri][0]
  BY <1>2, <1>3 DEF Ends
<1>6. at[pri][0] # NULL
  BY PointerFacts
<1> QED
  BY <1>4, <1>5, <1>6 DEF Waiting

\* The dispatch picks idle or the head of the best queue, makes it RUNNING,
\* changes nobody else, and no READY process has a better priority.
LEMMA DispatchFacts ==
  ASSUME NEW t \in Table, Queues(t, {}), t.proc[idle].used,
         Waiting(t) = {} => t.proc[idle].state \in {"READY", "RUNNING"}
  PROVE  LET u == Dispatch(t)
             c == Chosen(t)
         IN  /\ c \in Slots /\ t.proc[c].used
             /\ t.proc[c].state = "READY" \/ (c = idle /\ t.proc[c].state = "RUNNING")
             /\ Affects(t, u, c) /\ u.proc[c].state = "RUNNING"
             /\ u.proc[c].wait_status = t.proc[c].wait_status
             /\ u.proc[c].pending = t.proc[c].pending
             /\ \A q \in Slots \ {c} : u.proc[q].state = t.proc[q].state
             /\ Queues(u, {})
             /\ \A q \in Slots \ {idle} :
                  u.proc[q].used /\ u.proc[q].state = "READY"
                    => u.proc[c].priority <= u.proc[q].priority
<1> DEFINE u == Dispatch(t)
           c == Chosen(t)
           v == runq_pop_locked(t)
           w == SetState(v, c, "RUNNING")
<1>1. u = w
  BY DEF Dispatch
<1>2. CASE Waiting(t) = {}
  <2>1. v = t /\ c = idle /\ idle \in Slots
    BY <1>2, PointerFacts DEF runq_pop_locked, Chosen, PopWho
  <2>2. StateSet(t, w, idle, "RUNNING")
    BY <2>1, SetStateFacts DEF States
  <2>3. \A q \in Slots \ {idle} : ~(t.proc[q].used /\ t.proc[q].state = "READY")
    BY <1>2, ReadyWaits
  <2> HIDE DEF c, u, v, w
  <2>4. Queues(w, {})
    <3>1. PICK n \in [Priorities -> Nat], at \in [Priorities -> [Nat -> Slots]] :
            InLine(t, n, at)
      BY DEF Queues
    <3>2. \A pri \in Priorities, k \in Nat : ~(k < n[pri])
      <4> SUFFICES ASSUME NEW pri \in Priorities, NEW k \in Nat, k < n[pri] PROVE FALSE
        OBVIOUS
      <4>1. Ends(t, n, at)
        BY <3>1 DEF InLine
      <4>2. t.rq.head[pri] = at[pri][0]
        BY <4>1 DEF Ends
      <4> QED
        BY <4>2, <1>2, PointerFacts DEF Waiting
    <3>3. ~Lined(n, at, idle)
      BY <3>2 DEF Lined
    <3>4. Queues(t, {idle})
      BY <2>3, <3>1, <3>3 DEF Queues
    <3>5. Queues(w, {idle})
      BY <2>1, <2>2, <3>4, QueuesAround DEF StateSet, Touch, Around
    <3> QED
      BY <2>1, <2>2, <3>5, QueuesBack DEF StateSet, Touch
  <2>5. /\ Affects(t, w, idle) /\ w.proc[idle].state = "RUNNING"
        /\ w.proc[idle].wait_status = t.proc[idle].wait_status
        /\ w.proc[idle].pending = t.proc[idle].pending
        /\ \A q \in Slots \ {idle} : w.proc[q].state = t.proc[q].state
        /\ \A q \in Slots \ {idle} : w.proc[q].used = t.proc[q].used
    BY SMTT(30), <2>2 DEF StateSet, Touch
  <2> QED
    BY <1>1, <1>2, <2>1, <2>3, <2>4, <2>5 DEF u, c
<1>3. CASE Waiting(t) # {}
  <2> DEFINE pri == runq_best_priority_locked(t)
  <2>1. pri \in Priorities /\ t.rq.head[pri] \in Slots /\ \A r \in Waiting(t) : pri <= r
    BY <1>3, BestFacts
  <2>2. c = t.rq.head[pri]
    BY <1>3, <2>1, PointerFacts DEF Chosen, PopWho
  <2> HIDE DEF pri
  <2>3. Popped(t, v, c, pri)
    <3>1. Popped(t, v, t.rq.head[pri], pri)
      BY <1>3, PopFacts DEF pri
    <3> QED
      BY <2>2, <3>1
  <2>4. Queues(v, {c}) /\ t.proc[c].used /\ t.proc[c].state = "READY" /\ t.proc[c].priority = pri
    BY <1>3, <2>2, QueuesPop DEF pri
  <2> HIDE DEF c, u, v
  <2>5. StateSet(v, w, c, "RUNNING")
    BY SMTT(30), <2>1, <2>2, <2>3, SetStateFacts DEF Popped, States
  <2> HIDE DEF w
  <2>6. Queues(w, {})
    <3>1. Queues(w, {c})
      <4>1. v \in Table /\ w \in Table /\ c \in Slots
        BY <2>1, <2>2, <2>3, <2>5 DEF StateSet, Touch, Popped
      <4>2. Around(v, w, c)
        BY SMTT(30), <2>5 DEF StateSet, Touch, Around
      <4> QED
        BY SMTT(30), <2>4, <4>1, <4>2, QueuesAround
    <3> QED
      BY <2>1, <2>2, <2>5, <3>1, QueuesBack DEF StateSet, Touch
  <2>7. /\ Affects(t, w, c) /\ w.proc[c].state = "RUNNING"
        /\ w.proc[c].wait_status = t.proc[c].wait_status
        /\ w.proc[c].pending = t.proc[c].pending
        /\ \A q \in Slots \ {c} : w.proc[q].state = t.proc[q].state
    <3>1. \A q \in Slots : SameLife(t.proc[q], v.proc[q])
      BY <2>3 DEF Popped, SameLives
    <3>2. Affects(v, w, c) /\ \A q \in Slots \ {c} : w.proc[q] = v.proc[q]
      BY <2>5 DEF StateSet, Touch
    <3>3. Affects(t, w, c)
      BY <3>1, <3>2 DEF Affects, SameKin, SameLife
    <3> QED
      BY <2>1, <2>2, <2>5, <3>1, <3>2, <3>3 DEF StateSet, SameLife
  <2>8. \A q \in Slots \ {idle} :
          w.proc[q].used /\ w.proc[q].state = "READY" => w.proc[c].priority <= w.proc[q].priority
    <3> SUFFICES ASSUME NEW q \in Slots \ {idle}, w.proc[q].used, w.proc[q].state = "READY"
                 PROVE  w.proc[c].priority <= w.proc[q].priority
      OBVIOUS
    <3>1. q # c /\ t.proc[q].used /\ t.proc[q].state = "READY"
      BY <2>7 DEF Affects, SameKin
    <3>2. t.proc[q].priority \in Waiting(t)
      BY <3>1, ReadyWaits
    <3>3. w.proc[q].priority = t.proc[q].priority /\ w.proc[c].priority = pri
      BY <2>1, <2>2, <2>4, <2>7 DEF Affects
    <3> QED
      BY <2>1, <3>2, <3>3
  <2> QED
    BY <1>1, <2>1, <2>2, <2>4, <2>6, <2>7, <2>8 DEF u, c
<1> QED
  BY <1>2, <1>3

---------------------------------------------------------------------------
(* Birth, reaping, and the other writes. *)

\* u is t with the child list of p replaced by K.
Relisted(t, u, p, K) ==
  /\ u \in Table /\ u.rq = t.rq
  /\ \A q \in Slots : q # p => u.proc[q] = t.proc[q]
  /\ u.proc[p].children = K
  /\ u.proc[p].used = t.proc[p].used /\ u.proc[p].pid = t.proc[p].pid
  /\ u.proc[p].ppid = t.proc[p].ppid /\ u.proc[p].is_idle = t.proc[p].is_idle
  /\ u.proc[p].state = t.proc[p].state /\ u.proc[p].priority = t.proc[p].priority
  /\ u.proc[p].rq_next = t.proc[p].rq_next
  /\ u.proc[p].wait_status = t.proc[p].wait_status
  /\ u.proc[p].pending = t.proc[p].pending

\* A write to the child list of a process changes nothing else.
LEMMA ChildrenFacts ==
  ASSUME NEW t \in Table, NEW p \in Slots, NEW K \in Seq(Slots)
  PROVE  Relisted(t, [t EXCEPT !.proc[p].children = K], p, K)
<1> DEFINE r == [t.proc[p] EXCEPT !.children = K]
           u == [t EXCEPT !.proc[p] = r]
<1>1. t.proc[p] \in ProcRecord
  BY PointerFacts
<1>2. /\ r \in ProcRecord /\ r.children = K
      /\ r.used = t.proc[p].used /\ r.pid = t.proc[p].pid
      /\ r.ppid = t.proc[p].ppid /\ r.is_idle = t.proc[p].is_idle
      /\ r.state = t.proc[p].state /\ r.priority = t.proc[p].priority
      /\ r.rq_next = t.proc[p].rq_next /\ r.wait_status = t.proc[p].wait_status
      /\ r.pending = t.proc[p].pending
  BY <1>1 DEF ProcRecord
<1>3. [t EXCEPT !.proc[p].children = K] = u
  BY DEF Table
<1> HIDE DEF r
<1>4. /\ u \in Table /\ u.rq = t.rq /\ u.proc[p] = r
      /\ \A q \in Slots : q # p => u.proc[q] = t.proc[q]
  BY <1>2, WriteSlot
<1> HIDE DEF u
<1> QED
  BY <1>2, <1>3, <1>4 DEF Relisted

\* The zeroed slot.
LEMMA ZeroFacts ==
  /\ ZeroSlot \in ProcRecord
  /\ ~ZeroSlot.used /\ ZeroSlot.ppid = 0 /\ ZeroSlot.state = "CREATED"
  /\ ~ZeroSlot.is_idle /\ ZeroSlot.rq_next = NULL /\ ZeroSlot.children = << >>
  /\ ZeroSlot.pending = {}
<1>1. /\ 0 \in 0..MaxPid /\ TimeSlice \in 0..TimeSlice /\ DefaultPriority \in Priorities
      /\ NULL \in Pointers /\ 0 \in Statuses /\ "CREATED" \in States
  BY SlotAssumption, PriorityAssumption, PointerFacts DEF Statuses, States
<1>2. << >> \in Seq(Slots)
  OBVIOUS
<1> QED
  BY <1>1, <1>2 DEF ZeroSlot, ProcRecord

\* The record create_kernel_process_locked fills in.
LEMMA NewFacts ==
  ASSUME NEW t \in Table, NEW pid \in 1..MaxPid, NEW parent \in Slots
  PROVE  LET r == NewProcess(t, pid, parent)
         IN  /\ r \in ProcRecord
             /\ r.used /\ r.pid = pid /\ r.ppid = t.proc[parent].pid
             /\ r.state = "READY" /\ ~r.is_idle /\ r.rq_next = NULL
             /\ r.children = << >>
<1>1. /\ t.proc[parent].pid \in 0..MaxPid /\ t.proc[parent].priority \in Priorities
      /\ "READY" \in States /\ pid \in 0..MaxPid
  BY PointerFacts, SlotAssumption DEF ProcRecord, States
<1> QED
  BY <1>1, ZeroFacts DEF NewProcess, ProcRecord

\* A record given back because its process got no stack.
Unborn(r) == [r EXCEPT !.used = FALSE]

\* Giving a record back leaves everything but used as it is.
LEMMA UnbornFacts ==
  ASSUME NEW r \in ProcRecord
  PROVE  /\ Unborn(r) \in ProcRecord /\ ~Unborn(r).used
         /\ Unborn(r).children = r.children /\ Unborn(r).rq_next = r.rq_next
         /\ Unborn(r).is_idle = r.is_idle /\ Unborn(r).state = r.state
BY DEF ProcRecord, Unborn

\* reset_process_slot_locked frees one slot and leaves the others alone.
LEMMA ResetFacts ==
  ASSUME NEW t \in Table, NEW p \in Slots
  PROVE  LET u == reset_process_slot_locked(t, p)
         IN  /\ u \in Table /\ u.rq = t.rq
             /\ \A q \in Slots : q # p => u.proc[q] = t.proc[q]
             /\ ~u.proc[p].used /\ u.proc[p].state = "DEAD"
             /\ u.proc[p].rq_next = NULL /\ u.proc[p].children = << >>
             /\ u.proc[p].wait_status = t.proc[p].wait_status
<1> DEFINE r == [t.proc[p] EXCEPT !.used = FALSE, !.state = "DEAD",
                                  !.rq_next = NULL, !.children = << >>]
           u == [t EXCEPT !.proc[p] = r]
<1>1. t.proc[p] \in ProcRecord /\ NULL \in Pointers /\ "DEAD" \in States /\ << >> \in Seq(Slots)
  BY PointerFacts DEF States
<1>2. /\ r \in ProcRecord /\ ~r.used /\ r.state = "DEAD" /\ r.rq_next = NULL
      /\ r.children = << >> /\ r.wait_status = t.proc[p].wait_status
  BY <1>1 DEF ProcRecord
<1>3. reset_process_slot_locked(t, p) = u
  BY ZenonT(40) DEF reset_process_slot_locked, Table
<1> HIDE DEF r
<1>4. /\ u \in Table /\ u.rq = t.rq /\ u.proc[p] = r
      /\ \A q \in Slots : q # p => u.proc[q] = t.proc[q]
  BY <1>2, WriteSlot
<1> HIDE DEF u
<1> QED
  BY <1>2, <1>3, <1>4

\* Removing one place of a list.
Without(K, i) == [j \in 1..(Len(K) - 1) |-> IF j < i THEN K[j] ELSE K[j + 1]]

\* parent_unlink_child_locked takes one place of the child off the list.
LEMMA UnlinkFacts ==
  ASSUME NEW t \in Table, NEW parent \in Slots, NEW i \in DOMAIN t.proc[parent].children
  PROVE  LET K == t.proc[parent].children
             u == parent_unlink_child_locked(t, parent, K[i])
         IN  \E f \in DOMAIN K : /\ K[f] = K[i]
                                 /\ Without(K, f) \in Seq(Slots)
                                 /\ Relisted(t, u, parent, Without(K, f))
<1> DEFINE K == t.proc[parent].children
           p == K[i]
           W == {j \in DOMAIN K : K[j] = p}
           f == CHOOSE x \in W : \A j \in W : x <= j
           u == parent_unlink_child_locked(t, parent, p)
<1>1. K \in Seq(Slots)
  BY PointerFacts DEF ProcRecord
<1>2. W \subseteq Nat /\ i \in W
  BY <1>1
<1>3. f \in W
  <2> HIDE DEF W
  <2> QED BY <1>2, LeastIn
<1>4. u = [t EXCEPT !.proc[parent].children = Without(K, f)]
  <2>1. W # {}
    BY <1>2
  <2> QED
    BY <2>1 DEF parent_unlink_child_locked, Without
<1> HIDE DEF u, f
<1>5. Without(K, f) \in Seq(Slots)
  <2>1. K \in Seq(Slots) /\ f \in 1..Len(K) /\ Len(K) \in Nat
    BY <1>1, <1>3
  <2> HIDE DEF K
  <2>2. Len(K) - 1 \in Nat
    BY <2>1
  <2>3. \A j \in 1..(Len(K) - 1) : j \in 1..Len(K) /\ j + 1 \in 1..Len(K)
    BY <2>1
  <2>4. Without(K, f) \in [1..(Len(K) - 1) -> Slots]
    BY <2>1, <2>3 DEF Without
  <2> QED
    BY <2>2, <2>4
<1>6. Relisted(t, u, parent, Without(K, f))
  BY <1>4, <1>5, ChildrenFacts
<1> QED
  BY <1>3, <1>5, <1>6 DEF u

---------------------------------------------------------------------------
(* Types. *)

\* A step that stores a table has it as its next one.
LEMMA SetTableIs ==
  ASSUME NEW t \in Table, SetTable(t)
  PROVE  T' = t
BY DEF SetTable, T, Table

\* The table of a state is made of its two variables.
LEMMA TIs ==
  /\ T.proc = proc /\ T.rq = rq
  /\ T'.proc = proc' /\ T'.rq = rq'
BY DEF T

\* The dispatch of any table is a table.
LEMMA PopType ==
  ASSUME NEW t \in Table
  PROVE  /\ Chosen(t) \in Slots /\ runq_pop_locked(t) \in Table /\ Dispatch(t) \in Table
<1>1. Chosen(t) \in Slots /\ runq_pop_locked(t) \in Table
  <2>1. CASE Waiting(t) = {}
    BY <2>1, PointerFacts DEF Chosen, PopWho, runq_pop_locked
  <2>2. CASE Waiting(t) # {}
    <3>1. runq_pop_locked(t) \in Table
      BY <2>2, PopFacts DEF Popped
    <3>2. PopWho(t) \in Slots
      BY <2>2, BestFacts DEF PopWho
    <3> QED
      BY <3>1, <3>2, PointerFacts DEF Chosen
  <2> QED
    BY <2>1, <2>2
<1>2. Dispatch(t) \in Table
  BY <1>1, SetStateFacts DEF Dispatch, StateSet, Touch, States
<1> QED
  BY <1>1, <1>2

\* Slots other than p keep their states and what their parents will read.
Aside(t, u, p) ==
  \A q \in Slots \ {p} :
    u.proc[q].state = t.proc[q].state /\ u.proc[q].wait_status = t.proc[q].wait_status

\* create_kernel_process_locked makes a table, with and without a stack, and
\* changes no other process's state.
LEMMA CreateType ==
  ASSUME NEW t \in Table, NEW p \in Slots, NEW parent \in Slots, NEW pid \in 1..MaxPid
  PROVE  /\ create_kernel_process_locked(t, p, pid, parent) \in Table
         /\ CreateFails(t, p, pid, parent) \in Table
         /\ Aside(t, create_kernel_process_locked(t, p, pid, parent), p)
         /\ Aside(t, CreateFails(t, p, pid, parent), p)
<1> DEFINE t1 == [t EXCEPT !.proc[p] = NewProcess(t, pid, parent)]
           t2 == [t1 EXCEPT !.proc[parent].children = << p >> \o t1.proc[parent].children]
<1>1. t1 \in Table /\ \A q \in Slots : q # p => t1.proc[q] = t.proc[q]
  BY NewFacts, WriteSlot
<1>2. create_kernel_process_locked(t, p, pid, parent) = runq_push_locked(t2, p)
  <2>1. [t1 EXCEPT !.proc[parent].children = << p >> \o @] = t2
    <3> HIDE DEF t1
    <3> QED BY <1>1 DEF Table
  <2> QED
    BY <2>1 DEF create_kernel_process_locked
<1> HIDE DEF t1
<1>3. t2 \in Table /\ Aside(t1, t2, p)
  <2>1. << p >> \o t1.proc[parent].children \in Seq(Slots)
    <3>1. t1.proc[parent].children \in Seq(Slots)
      BY <1>1, PointerFacts DEF ProcRecord
    <3> QED
      BY <3>1
  <2> DEFINE K == << p >> \o t1.proc[parent].children
  <2>2. K \in Seq(Slots)
    BY <2>1
  <2> HIDE DEF K
  <2>3. Relisted(t1, [t1 EXCEPT !.proc[parent].children = K], parent, K)
    BY <1>1, <2>2, ChildrenFacts
  <2>4. Relisted(t1, t2, parent, K)
    BY <2>3 DEF K
  <2> HIDE DEF t2
  <2>5. t2 \in Table /\ \A q \in Slots : q # parent => t2.proc[q] = t1.proc[q]
    BY <2>4 DEF Relisted
  <2>6. /\ t2.proc[parent].state = t1.proc[parent].state
        /\ t2.proc[parent].wait_status = t1.proc[parent].wait_status
    BY <2>4 DEF Relisted
  <2> QED
    BY <2>5, <2>6 DEF Aside
<1> HIDE DEF t2
<1>4. CreateFails(t, p, pid, parent) \in Table /\ Aside(t, CreateFails(t, p, pid, parent), p)
  <2> DEFINE n == NewProcess(t, pid, parent)
  <2>1. CreateFails(t, p, pid, parent) = [t EXCEPT !.proc[p] = Unborn(n)]
    BY DEF CreateFails, Unborn
  <2>2. n \in ProcRecord
    BY NewFacts
  <2> HIDE DEF n
  <2> QED
    BY <2>1, <2>2, UnbornFacts, WriteSlot DEF Aside
<1>5. runq_push_locked(t2, p) \in Table /\ SameLives(t2, runq_push_locked(t2, p))
  BY <1>3, PushFacts DEF Pushed
<1>6. Aside(t, runq_push_locked(t2, p), p)
  BY <1>1, <1>3, <1>5 DEF Aside, SameLives, SameLife
<1> QED
  BY <1>2, <1>4, <1>5, <1>6

\* A write to p that neither the scheduler nor the family depends on.
Quiet(t, u, p) ==
  /\ Touch(t, u, p) /\ Affects(t, u, p)
  /\ u.proc[p].state = t.proc[p].state
  /\ u.proc[p].wait_status = t.proc[p].wait_status

\* A step that rewrites one slot, state, family, link and priority apart, is
\* quiet.
LEMMA QuietWrite ==
  ASSUME TypeOK, NEW p \in Slots, NEW r \in ProcRecord,
         SameKin(proc[p], r), r.state = proc[p].state, r.rq_next = proc[p].rq_next,
         r.priority = proc[p].priority, r.wait_status = proc[p].wait_status,
         proc' = [proc EXCEPT ![p] = r], rq' = rq
  PROVE  Quiet(T, T', p) /\ T'.proc[p] = r
<1>1. T \in Table /\ T.proc = proc /\ T.rq = rq
  BY TIs DEF TypeOK
<1>2. T' = [T EXCEPT !.proc[p] = r]
  BY <1>1 DEF T
<1>3. /\ T' \in Table /\ T'.rq = T.rq /\ T'.proc[p] = r
      /\ \A q \in Slots : q # p => T'.proc[q] = T.proc[q]
  <2> HIDE DEF TypeOK
  <2>1. LET u == [T EXCEPT !.proc[p] = r]
        IN  /\ u \in Table /\ u.rq = T.rq /\ u.proc[p] = r
            /\ \A q \in Slots : q # p => u.proc[q] = T.proc[q]
    BY <1>1, WriteSlot
  <2> QED
    BY <1>2, <2>1
<1> QED
  BY <1>1, <1>3 DEF Quiet, Touch, Affects, SameKin

\* The control points the steps write are control points.
LEMMA ControlFacts ==
  /\ AnyChild \in Targets
  /\ \A at \in {"run", "wait", "retry", "exit", "hlt"} :
       Running(at) \in Controls /\ Running(at).at = at
  /\ \A at \in {"run", "wait", "retry", "exit", "hlt"} :
       AfterYield(at) \in {"run", "wait", "retry", "exit", "hlt"}
BY DEF Targets, Controls, Running, AfterYield

\* process_schedule_tick keeps the types.
LEMMA TickType ==
  ASSUME NEW t \in Table, current \in Slots, process_schedule_tick(t)
  PROVE  /\ T' \in Table /\ current' \in Slots
         /\ next_pid' = next_pid /\ booted' = booted
<1> DEFINE c == Charged(t, current)
           d == Preempted(c, current)
<1>1. c \in Table
  BY ChargedFacts DEF Hit, Affects
<1>2. d \in Table
  <2> HIDE DEF c
  <2> QED BY <1>1, PreemptedFacts DEF Affects
<1>3. Dispatch(d) \in Table /\ Chosen(d) \in Slots
  <2> HIDE DEF d
  <2> QED BY <1>2, PopType
<1>4. \/ KeepsCpu(c, current) /\ SetTable(c) /\ UNCHANGED current
      \/ SetTable(Dispatch(d)) /\ current' = Chosen(d)
  BY DEF process_schedule_tick, Switch
<1>5. next_pid' = next_pid /\ booted' = booted
  BY DEF process_schedule_tick
<1> HIDE DEF c, d
<1>6. CASE SetTable(c) /\ UNCHANGED current
  BY <1>1, <1>5, <1>6, SetTableIs
<1>7. CASE SetTable(Dispatch(d)) /\ current' = Chosen(d)
  BY <1>3, <1>5, <1>7, SetTableIs
<1> QED
  BY <1>4, <1>6, <1>7

\* runq_remove_locked keeps the types.
LEMMA RemoveType ==
  ASSUME NEW t \in Table, NEW p \in Slots
  PROVE  runq_remove_locked(t, p) \in Table
BY RemoveFacts DEF Removed

\* One iteration of the loop of waitpid keeps the types.
LEMMA WaitType ==
  ASSUME TypeOK, NEW target \in Targets, NEW nohang, WaitIteration(target, nohang)
  PROVE  TypeOK'
<1> DEFINE kids    == proc[current].children
           matches == {i \in DOMAIN kids : wait_match_child(T, kids[i], target)}
           dead    == {i \in matches : proc[kids[i]].state = "ZOMBIE"}
           least   == CHOOSE i \in dead : \A j \in dead : i <= j
           child   == kids[least]
           back    == ctl' = [ctl EXCEPT ![current] = Running("run")]
<1>1. /\ \/ /\ dead # {}
            /\ SetTable(reset_process_slot_locked(
                          parent_unlink_child_locked(T, current, child), child))
            /\ back
         \/ back /\ UNCHANGED << proc, rq >>
         \/ /\ SetTable(SetState(T, current, "BLOCKED"))
            /\ ctl' = [ctl EXCEPT ![current] = [at |-> "wait", target |-> target]]
      /\ UNCHANGED << current, next_pid, booted >>
  BY DEF WaitIteration
<1>2. /\ T \in Table /\ T.proc = proc /\ current \in Slots /\ ctl \in [Slots -> Controls]
      /\ next_pid \in 3..(MaxPid + 1) /\ booted \in BOOLEAN
  BY TIs DEF TypeOK
<1>3. kids \in Seq(Slots)
  BY SMTT(30), <1>2, PointerFacts DEF ProcRecord
<1>4. current' \in Slots /\ next_pid' \in 3..(MaxPid + 1) /\ booted' \in BOOLEAN
  BY <1>1, <1>2
<1>5. ctl' \in [Slots -> Controls]
  <2>1. Running("run") \in Controls /\ [at |-> "wait", target |-> target] \in Controls
    BY ControlFacts DEF Controls
  <2> HIDE DEF kids, matches, dead, least, child
  <2> QED
    BY <1>1, <1>2, <2>1
<1>6. T' \in Table
  <2>1. CASE dead # {} /\ SetTable(reset_process_slot_locked(
                          parent_unlink_child_locked(T, current, child), child))
    <3>1. least \in DOMAIN kids
      <4>1. dead \subseteq Nat /\ dead \subseteq DOMAIN kids
        BY <1>3
      <4>2. least \in dead
        <5> HIDE DEF dead
        <5> QED BY <2>1, <4>1, LeastIn
      <4> QED
        BY <4>1, <4>2
    <3> HIDE DEF least
    <3>2. child \in Slots
      BY <1>3, <3>1
    <3>3. parent_unlink_child_locked(T, current, child) \in Table
      BY <1>2, <3>1, UnlinkFacts DEF Relisted
    <3> HIDE DEF child
    <3>4. reset_process_slot_locked(parent_unlink_child_locked(T, current, child), child) \in Table
      BY <3>2, <3>3, ResetFacts
    <3> QED
      BY SMTT(30), <2>1, <3>4, SetTableIs
  <2>2. CASE UNCHANGED << proc, rq >>
    BY <1>2, <2>2 DEF T
  <2>3. CASE SetTable(SetState(T, current, "BLOCKED"))
    <3>1. SetState(T, current, "BLOCKED") \in Table
      BY <1>2, SetStateFacts DEF StateSet, Touch, States
    <3> QED
      BY <2>3, <3>1, SetTableIs
  <2> HIDE DEF dead, child
  <2> QED
    BY <1>1, <2>1, <2>2, <2>3
<1> QED
  BY <1>4, <1>5, <1>6 DEF TypeOK

\* process_exec clears the signals of its target and changes nothing else of
\* the table.
LEMMA ExecStep ==
  ASSUME TypeOK, NEW p \in Slots, rq' = rq,
         proc' = [proc EXCEPT ![p].pending = {}, ![p].mask = {},
                              ![p].handlers = [s \in Signals |-> "DFL"]]
  PROVE  Quiet(T, T', p) /\ T'.proc[p].pending = {}
<1> DEFINE r == [proc[p] EXCEPT !.pending = {}, !.mask = {},
                                !.handlers = [s \in Signals |-> "DFL"]]
<1>1. T \in Table /\ T.proc = proc /\ proc \in [Slots -> ProcRecord]
  BY TIs DEF TypeOK, Table
<1>2. proc[p] \in ProcRecord
  BY <1>1
<1>3. /\ r \in ProcRecord /\ SameKin(proc[p], r) /\ r.state = proc[p].state
      /\ r.rq_next = proc[p].rq_next /\ r.priority = proc[p].priority
      /\ r.wait_status = proc[p].wait_status /\ r.pending = {}
  BY <1>2 DEF ProcRecord, SameKin
<1>4. proc' = [proc EXCEPT ![p] = r]
  BY <1>1
<1> HIDE DEF r
<1> QED
  BY <1>3, <1>4, QuietWrite

\* process_signal_register changes one handler.
LEMMA RegisterStep ==
  ASSUME TypeOK, NEW sig \in Signals, NEW h \in Handlers, rq' = rq,
         proc' = [proc EXCEPT ![current].handlers[sig] = h]
  PROVE  Quiet(T, T', current) /\ T'.proc[current].pending = proc[current].pending
<1> DEFINE r == [proc[current] EXCEPT !.handlers = [proc[current].handlers EXCEPT ![sig] = h]]
<1>1. T \in Table /\ T.proc = proc /\ proc \in [Slots -> ProcRecord] /\ current \in Slots
  BY TIs DEF TypeOK, Table
<1>2. proc[current] \in ProcRecord /\ h \in {"DFL", "IGN", "FN"}
  BY <1>1, SignalAssumption
<1>3. /\ r \in ProcRecord /\ SameKin(proc[current], r) /\ r.state = proc[current].state
      /\ r.rq_next = proc[current].rq_next /\ r.priority = proc[current].priority
      /\ r.wait_status = proc[current].wait_status /\ r.pending = proc[current].pending
  BY <1>2 DEF ProcRecord, SameKin
<1>4. proc' = [proc EXCEPT ![current] = r]
  BY <1>1
<1> HIDE DEF r
<1> QED
  BY <1>1, <1>3, <1>4, QuietWrite

\* process_signal_mask changes one mask.
LEMMA MaskStep ==
  ASSUME TypeOK, NEW m \in Masks, rq' = rq,
         proc' = [proc EXCEPT ![current].mask = m \ {SIGKILL}]
  PROVE  Quiet(T, T', current) /\ T'.proc[current].pending = proc[current].pending
<1> DEFINE r == [proc[current] EXCEPT !.mask = m \ {SIGKILL}]
<1>1. T \in Table /\ T.proc = proc /\ proc \in [Slots -> ProcRecord] /\ current \in Slots
  BY TIs DEF TypeOK, Table
<1>2. proc[current] \in ProcRecord /\ m \ {SIGKILL} \in SUBSET Signals
  BY <1>1, SignalAssumption
<1>3. /\ r \in ProcRecord /\ SameKin(proc[current], r) /\ r.state = proc[current].state
      /\ r.rq_next = proc[current].rq_next /\ r.priority = proc[current].priority
      /\ r.wait_status = proc[current].wait_status /\ r.pending = proc[current].pending
  BY <1>2 DEF ProcRecord, SameKin
<1>4. proc' = [proc EXCEPT ![current] = r]
  BY <1>1
<1> HIDE DEF r
<1> QED
  BY <1>1, <1>3, <1>4, QuietWrite

\* The state process_init leaves.
LEMMA InitFacts ==
  ASSUME Init
  PROVE  /\ T \in Table
         /\ \A p \in Slots :
              /\ proc[p].rq_next = NULL /\ proc[p].children = << >>
              /\ proc[p].ppid = 0 /\ proc[p].pending = {}
              /\ proc[p].used <=> p \in {bootstrap, idle}
              /\ proc[p].is_idle <=> p = idle
              /\ proc[p].state # "RUNNING"
              /\ proc[p].state = "READY" <=> p = idle
         /\ proc[bootstrap].pid = 1 /\ proc[idle].pid = 2
<1> DEFINE b == [ZeroSlot EXCEPT !.used = TRUE, !.pid = 1, !.state = "BLOCKED"]
           i == [ZeroSlot EXCEPT !.used = TRUE, !.pid = 2, !.state = "READY", !.is_idle = TRUE]
<1>0. /\ 1 \in 0..MaxPid /\ 2 \in 0..MaxPid /\ "BLOCKED" \in States /\ "READY" \in States
  BY SlotAssumption DEF States
<1>1. /\ b \in ProcRecord /\ b.used /\ b.pid = 1 /\ b.ppid = 0 /\ b.state = "BLOCKED"
      /\ ~b.is_idle /\ b.rq_next = NULL /\ b.children = << >> /\ b.pending = {}
  BY <1>0, ZeroFacts DEF ProcRecord
<1>2. /\ i \in ProcRecord /\ i.used /\ i.pid = 2 /\ i.ppid = 0 /\ i.state = "READY"
      /\ i.is_idle /\ i.rq_next = NULL /\ i.children = << >> /\ i.pending = {}
  BY <1>0, ZeroFacts DEF ProcRecord
<1>3. proc = [p \in Slots |-> CASE p = bootstrap -> b [] p = idle -> i [] OTHER -> ZeroSlot]
  BY DEF Init
<1> HIDE DEF b, i
<1>4. bootstrap # idle /\ bootstrap \in Slots /\ idle \in Slots
  BY PointerFacts
<1>5. \A p \in Slots : proc[p] = IF p = bootstrap THEN b ELSE IF p = idle THEN i ELSE ZeroSlot
  BY <1>3, <1>4
<1>6. proc \in [Slots -> ProcRecord]
  BY <1>1, <1>2, <1>3, <1>5, ZeroFacts
<1>7. T \in Table
  BY <1>6, PointerFacts DEF Init, T, Table
<1>8. \A p \in Slots :
        /\ proc[p].rq_next = NULL /\ proc[p].children = << >>
        /\ proc[p].ppid = 0 /\ proc[p].pending = {}
        /\ proc[p].used <=> p \in {bootstrap, idle}
        /\ proc[p].is_idle <=> p = idle
        /\ proc[p].state # "RUNNING"
        /\ proc[p].state = "READY" <=> p = idle
  BY <1>1, <1>2, <1>4, <1>5, ZeroFacts
<1> QED
  BY <1>1, <1>2, <1>4, <1>5, <1>7, <1>8

\* process_init leaves a state of the right types.
LEMMA TypeInit == Init => TypeOK
<1> SUFFICES ASSUME Init PROVE TypeOK
  OBVIOUS
<1>1. T \in Table
  BY InitFacts
<1>2. ctl \in [Slots -> Controls]
  BY ControlFacts DEF Init
<1>3. next_pid = 3 /\ current = bootstrap /\ booted = FALSE
  BY DEF Init
<1>4. 3 \in 3..(MaxPid + 1) /\ bootstrap \in Slots
  BY SlotAssumption, PointerFacts
<1> QED
  BY <1>1, <1>2, <1>3, <1>4 DEF TypeOK

\* Every step keeps the types, those of careless callers included.
LEMMA TypeNext == TypeOK /\ [Next]_vars => TypeOK'
<1> SUFFICES ASSUME TypeOK, [Next]_vars PROVE TypeOK'
  OBVIOUS
<1>1. /\ T \in Table /\ T.proc = proc /\ T.rq = rq /\ current \in Slots
      /\ ctl \in [Slots -> Controls]
      /\ next_pid \in 3..(MaxPid + 1) /\ booted \in BOOLEAN
  BY TIs DEF TypeOK
\* What is left to show where only the table, or the table and ctl, change.
<1>2. ASSUME T' \in Table, UNCHANGED << current, next_pid, ctl, booted >>
      PROVE  TypeOK'
  BY <1>1, <1>2 DEF TypeOK
<1>3. ASSUME T' \in Table, UNCHANGED << current, next_pid, booted >>, NEW p,
             NEW at \in {"run", "wait", "retry", "exit", "hlt"},
             ctl' = [ctl EXCEPT ![p] = Running(at)]
      PROVE  TypeOK'
  <2>1. ctl' \in [Slots -> Controls]
    <3>1. Running(at) \in Controls
      BY ControlFacts
    <3> QED
      BY <1>1, <1>3, <3>1
  <2> QED
    BY <1>1, <1>3, <2>1 DEF TypeOK
<1>4. ASSUME NEW p \in Slots, NEW sig \in Signals, SetTable(SendSignal(T, p, sig)),
             proc[p].used, UNCHANGED << current, next_pid, ctl, booted >>
      PROVE  TypeOK'
  <2>1. SendSignal(T, p, sig) \in Table
    BY <1>1, <1>4, SendFacts DEF Hit, Affects
  <2> QED
    BY <1>2, <1>4, <2>1, SetTableIs
<1>5. CASE StartScheduler
  <2>1. ctl' = [ctl EXCEPT ![bootstrap] = Running("hlt")] /\ booted' = TRUE
        /\ UNCHANGED << proc, rq, current, next_pid >>
    BY <1>5 DEF StartScheduler
  <2>2. Running("hlt") \in Controls
    BY ControlFacts
  <2>3. ctl' \in [Slots -> Controls] /\ T' \in Table
    BY <1>1, <2>1, <2>2 DEF T
  <2> QED
    BY <1>1, <2>1, <2>3 DEF TypeOK
<1>6. CASE Spawn
  <2> DEFINE p == alloc_process_slot_locked(T)
  <2>1. PICK ok \in BOOLEAN :
          /\ p # NULL /\ next_pid <= MaxPid
          /\ SetTable(IF ok THEN create_kernel_process_locked(T, p, next_pid, current)
                            ELSE CreateFails(T, p, next_pid, current))
          /\ next_pid' = next_pid + 1
          /\ ctl' = IF ok THEN [ctl EXCEPT ![p] = Running("run")] ELSE ctl
          /\ UNCHANGED << current, booted >>
    BY <1>6 DEF Spawn
  <2>2. p \in Slots
    BY <2>1, AllocType
  <2> HIDE DEF p
  <2>3. next_pid \in 1..MaxPid /\ next_pid' \in 3..(MaxPid + 1)
    BY <1>1, <2>1, SlotAssumption
  <2>4. T' \in Table
    <3>1. /\ create_kernel_process_locked(T, p, next_pid, current) \in Table
          /\ CreateFails(T, p, next_pid, current) \in Table
      BY <1>1, <2>2, <2>3, CreateType
    <3> QED
      BY <2>1, <3>1, SetTableIs
  <2>5. ctl' \in [Slots -> Controls]
    <3>1. Running("run") \in Controls
      BY ControlFacts
    <3> QED
      BY <1>1, <2>1, <3>1
  <2> QED
    BY <1>1, <2>1, <2>3, <2>4, <2>5 DEF TypeOK
<1>7. CASE Exec
  <2>1. PICK pid \in 1..MaxPid :
          LET p == find_by_pid_locked(T, pid)
          IN  /\ p # NULL
              /\ proc' = [proc EXCEPT ![p].pending = {}, ![p].mask = {},
                                      ![p].handlers = [s \in Signals |-> "DFL"]]
              /\ ctl' = IF p \in {bootstrap, idle} THEN ctl
                        ELSE [ctl EXCEPT ![p] = Running("run")]
              /\ UNCHANGED << rq, current, next_pid, booted >>
    BY <1>7 DEF Exec
  <2> DEFINE p == find_by_pid_locked(T, pid)
  <2>2. p \in Slots
    BY <2>1, FindType
  <2> HIDE DEF p
  <2>3. T' \in Table
    BY <2>1, <2>2, ExecStep DEF Quiet, Touch, p
  <2>4. ctl' = ctl \/ ctl' = [ctl EXCEPT ![p] = Running("run")]
    BY <2>1 DEF p
  <2> QED
    BY <1>2, <1>3, <2>1, <2>3, <2>4
<1>8. CASE Exit
  <2>1. PICK code \in ExitCodes :
          /\ SetTable(mark_zombie_locked(T, current, WAIT_STATUS_EXIT(code)))
          /\ ctl' = [ctl EXCEPT ![current] = Running("exit")]
          /\ UNCHANGED << current, next_pid, booted >>
    BY <1>8 DEF Exit
  <2>2. mark_zombie_locked(T, current, WAIT_STATUS_EXIT(code)) \in Table
    BY <1>1, StatusFacts, MarkZombieFacts DEF Killed, Affects
  <2> QED
    BY <1>3, <2>1, <2>2, SetTableIs
<1>9. CASE Waitpid
  BY <1>9, WaitType DEF Waitpid
<1>10. CASE WaitRetry
  <2>1. ctl[current].target \in Targets
    BY <1>1 DEF Controls
  <2> QED
    BY <1>10, <2>1, WaitType DEF WaitRetry
<1>11. CASE Kill
  <2>1. PICK pid \in 1..MaxPid, sig \in Signals :
          /\ find_by_pid_locked(T, pid) # NULL
          /\ SetTable(SendSignal(T, find_by_pid_locked(T, pid), sig))
          /\ UNCHANGED << current, next_pid, ctl, booted >>
    BY <1>11 DEF Kill
  <2> QED
    BY <1>1, <1>4, <2>1, FindType
<1>12. ASSUME NEW pgid, NEW sig \in Signals, KillPgid(pgid, sig) PROVE TypeOK'
  <2>1. /\ find_by_pid_locked(T, pgid) # NULL
        /\ SetTable(SendSignal(T, find_by_pid_locked(T, pgid), sig))
        /\ UNCHANGED << current, next_pid, ctl, booted >>
    BY <1>12 DEF KillPgid
  <2> QED
    BY <1>1, <1>4, <2>1, FindType
<1>13. CASE TtyKillForeground
  BY <1>12, <1>13 DEF TtyKillForeground
<1>14. CASE SetPriority
  <2>1. PICK pid \in 1..MaxPid, pri \in NewPriorities :
          LET p  == find_by_pid_locked(T, pid)
              t1 == [runq_remove_locked(T, p) EXCEPT !.proc[p].priority = pri]
          IN  /\ p # NULL
              /\ SetTable(IF proc[p].state = "READY" THEN runq_push_locked(t1, p)
                          ELSE [T EXCEPT !.proc[p].priority = pri])
              /\ UNCHANGED << current, next_pid, ctl, booted >>
    BY <1>14 DEF SetPriority
  <2> DEFINE p  == find_by_pid_locked(T, pid)
             v  == runq_remove_locked(T, p)
             t1 == [v EXCEPT !.proc[p].priority = pri]
             t2 == [T EXCEPT !.proc[p].priority = pri]
  <2>2. p \in Slots /\ pri \in Priorities
    BY <2>1, FindType, PriorityAssumption
  <2>3. SetTable(runq_push_locked(t1, p)) \/ SetTable(t2)
    BY <2>1
  <2> HIDE DEF p
  <2>4. v \in Table
    BY <1>1, <2>2, RemoveType
  <2> HIDE DEF v
  <2>5. t1 \in Table /\ t2 \in Table
    BY <1>1, <2>2, <2>4, PriorityFacts DEF Touch
  <2> HIDE DEF t1, t2
  <2>6. runq_push_locked(t1, p) \in Table
    BY <2>2, <2>5, PushFacts DEF Pushed
  <2> QED
    BY <1>2, <2>1, <2>3, <2>5, <2>6, SetTableIs
<1>15. CASE SignalRegister
  <2>1. T' \in Table
    BY <1>15, RegisterStep DEF SignalRegister, Quiet, Touch
  <2> QED
    BY <1>2, <1>15, <2>1 DEF SignalRegister
<1>16. CASE SignalMask
  <2>1. T' \in Table
    BY <1>16, MaskStep DEF SignalMask, Quiet, Touch
  <2> QED
    BY <1>2, <1>16, <2>1 DEF SignalMask
<1>17. CASE Tick
  <2>1. process_schedule_tick(T) /\ ctl' = ctl
    BY <1>17 DEF Tick
  <2> QED
    BY <1>1, <2>1, TickType DEF TypeOK
<1>18. CASE Yield
  <2> DEFINE t == [T EXCEPT !.proc[current].time_slice = 0]
  <2>1. process_schedule_tick(t) /\ ctl' = [ctl EXCEPT ![current].at = AfterYield(ctl[current].at)]
    BY <1>1, <1>18 DEF Yield
  <2>2. t \in Table
    <3>1. 0 \in 0..TimeSlice
      BY PriorityAssumption
    <3> QED
      BY <1>1, <3>1, SliceFacts DEF StateSet, Touch
  <2> HIDE DEF t
  <2>3. ctl' \in [Slots -> Controls]
    <3>1. ctl[current].at \in {"run", "wait", "retry", "exit", "hlt"}
      BY <1>1 DEF Controls
    <3>2. AfterYield(ctl[current].at) \in {"run", "wait", "retry", "exit", "hlt"}
      BY <3>1, ControlFacts
    <3> QED
      BY <1>1, <2>1, <3>2 DEF Controls
  <2> QED
    BY <1>1, <2>1, <2>2, <2>3, TickType DEF TypeOK
<1>19. CASE CtrlC
  BY <1>12, <1>19 DEF CtrlC
<1>20. CASE UNCHANGED vars
  BY <1>1, <1>20 DEF TypeOK, T, vars
<1> QED
  BY <1>5, <1>6, <1>7, <1>8, <1>9, <1>10, <1>11, <1>13, <1>14, <1>15, <1>16, <1>17,
     <1>18, <1>19, <1>20 DEF Next

\* Type correctness for every size of the table, every set of priorities and
\* signals, and every caller: no call of process.c stores a wild pointer, an
\* unknown state or a pid past the bound.
THEOREM TypeCorrect == Spec => []TypeOK
BY TypeInit, TypeNext, PTL DEF Spec

---------------------------------------------------------------------------
(* The scheduler. *)

\* u follows from t by signals, deaths, wake-ups and dispatches: families are
\* as they were, the dead stay dead, nobody falls asleep, and whoever dies
\* wakes its parent.
Moves(t, u) ==
  /\ u \in Table
  /\ \A q \in Slots :
       /\ SameKin(t.proc[q], u.proc[q])
       /\ t.proc[q].state \in {"ZOMBIE", "DEAD"} =>
            u.proc[q].state = t.proc[q].state /\ u.proc[q].wait_status = t.proc[q].wait_status
       /\ u.proc[q].state = "BLOCKED" => t.proc[q].state = "BLOCKED"
       /\ u.proc[q].state = "ZOMBIE" /\ t.proc[q].state # "ZOMBIE" => Told(t, u, q)

\* A signal or a death is such a move.
LEMMA HitMoves ==
  ASSUME NEW t \in Table, NEW u, NEW p \in Slots, Hit(t, u, p)
  PROVE  Moves(t, u)
BY DEF Hit, Affects, Moves

\* And so is one after another, as the tick's charge, preemption and dispatch
\* are.
LEMMA MovesTrans ==
  ASSUME NEW t \in Table, NEW u, NEW v, Moves(t, u), Moves(u, v)
  PROVE  Moves(t, v)
<1>1. \A q \in Slots : SameKin(t.proc[q], v.proc[q])
  BY DEF Moves, SameKin
<1>2. ASSUME NEW q \in Slots, v.proc[q].state = "ZOMBIE", t.proc[q].state # "ZOMBIE"
      PROVE  Told(t, v, q)
  <2> SUFFICES ASSUME NEW r \in Slots,
                      t.proc[r].used, t.proc[r].pid = t.proc[q].ppid, t.proc[q].ppid # 0,
                      \A s \in Slots : t.proc[s].used /\ t.proc[s].pid = t.proc[r].pid => s = r
               PROVE  v.proc[r].state # "BLOCKED"
    BY DEF Told
  <2>1. CASE u.proc[q].state = "ZOMBIE"
    <3>1. Told(t, u, q)
      BY <1>2, <2>1 DEF Moves
    <3>2. u.proc[r].state # "BLOCKED"
      BY <3>1 DEF Told
    <3> QED
      BY <3>2 DEF Moves
  <2>2. CASE u.proc[q].state # "ZOMBIE"
    <3>1. Told(u, v, q)
      BY <1>2, <2>2 DEF Moves
    <3>2. \A s \in Slots : /\ u.proc[s].used = t.proc[s].used /\ u.proc[s].pid = t.proc[s].pid
                           /\ u.proc[s].ppid = t.proc[s].ppid
      BY DEF Moves, SameKin
    <3> QED
      BY <3>1, <3>2 DEF Told
  <2> QED
    BY <2>1, <2>2
<1> QED
  BY <1>1, <1>2 DEF Moves

\* One process in a state it may leave for another that is neither BLOCKED
\* nor ZOMBIE.
LEMMA StateMoves ==
  ASSUME NEW t \in Table, NEW u, NEW p \in Slots, Affects(t, u, p),
         u.proc[p].wait_status = t.proc[p].wait_status,
         \/ u.proc[p].state = t.proc[p].state
         \/ /\ t.proc[p].state \notin {"ZOMBIE", "DEAD"}
            /\ u.proc[p].state \notin {"BLOCKED", "ZOMBIE"}
  PROVE  Moves(t, u)
BY DEF Affects, Moves

\* The idle process is never blocked, killed or signalled.
IdleSound(t) ==
  /\ t.proc[idle].used /\ t.proc[idle].state \in {"READY", "RUNNING"}
  /\ t.proc[idle].pending = {}
  /\ \A p \in Slots : t.proc[p].used => (t.proc[p].is_idle <=> p = idle)

\* The queues, idle, and the one process that may be RUNNING.
Scheduled(t, c) ==
  /\ Queues(t, {}) /\ IdleSound(t)
  /\ t.proc[c].used
  /\ \A p \in Slots : t.proc[p].state = "RUNNING" => p = c

\* A signal or a death of anyone but idle keeps the scheduler's state, once it
\* keeps the queues.
LEMMA HitScheduled ==
  ASSUME NEW t \in Table, NEW u, NEW p \in Slots \ {idle}, NEW c \in Slots,
         Hit(t, u, p), Scheduled(t, c), Queues(u, {})
  PROVE  Scheduled(u, c)
<1>1. IdleSound(u)
  <2>1. u.proc[idle].state = t.proc[idle].state /\ u.proc[idle].pending = t.proc[idle].pending
    BY PointerFacts DEF Hit, Affects, Scheduled, IdleSound
  <2>2. \A q \in Slots : u.proc[q].used = t.proc[q].used /\ u.proc[q].is_idle = t.proc[q].is_idle
    BY DEF Hit, Affects, SameKin
  <2> QED
    BY <2>1, <2>2, PointerFacts DEF Scheduled, IdleSound
<1>2. u.proc[c].used /\ \A q \in Slots : u.proc[q].state = "RUNNING" => q = c
  BY DEF Hit, Affects, SameKin, Scheduled
<1> QED
  BY <1>1, <1>2 DEF Scheduled

\* A quiet write keeps the scheduler's state.
LEMMA QuietScheduled ==
  ASSUME NEW t \in Table, NEW u, NEW p \in Slots, NEW c \in Slots,
         Quiet(t, u, p), Scheduled(t, c), p = idle => u.proc[p].pending = {}
  PROVE  Scheduled(u, c) /\ Moves(t, u)
<1>1. u.proc[p].priority = t.proc[p].priority
  BY DEF Quiet, Affects
<1>2. Queues(u, {})
  BY <1>1, QueuesTouch DEF Quiet, Scheduled
<1>3. \A q \in Slots : /\ u.proc[q].used = t.proc[q].used /\ u.proc[q].is_idle = t.proc[q].is_idle
                       /\ u.proc[q].state = t.proc[q].state
  BY DEF Quiet, Touch, SameKin
<1>4. u.proc[idle].pending = {}
  BY PointerFacts DEF Quiet, Affects, Scheduled, IdleSound
<1>5. Moves(t, u)
  BY StateMoves DEF Quiet
<1> QED
  BY <1>2, <1>3, <1>4, <1>5, PointerFacts DEF Scheduled, IdleSound

\* process_schedule_tick hands a sound scheduler over: the process it returns
\* to is RUNNING, alone, off the queues, and the best there is.
LEMMA TickFacts ==
  ASSUME NEW t \in Table, current \in Slots, Scheduled(t, current), process_schedule_tick(t)
  PROVE  /\ Scheduled(T', current') /\ T'.proc[current'].state = "RUNNING"
         /\ current' \in Slots /\ Moves(t, T')
         /\ current' # current =>
              \A q \in Slots \ {idle} :
                T'.proc[q].used /\ T'.proc[q].state = "READY"
                  => T'.proc[current'].priority <= T'.proc[q].priority
<1> DEFINE c == Charged(t, current)
           d == Preempted(c, current)
           u == Dispatch(d)
           n == Chosen(d)
<1>0. idle \in Slots
  BY PointerFacts
<1>1. /\ Hit(t, c, current)
      /\ c.proc[current].state \in {t.proc[current].state, "ZOMBIE"}
      /\ current = idle => c = t
      /\ Queues(c, {})
  BY ChargedFacts DEF Scheduled, IdleSound
<1>2. \/ KeepsCpu(c, current) /\ SetTable(c) /\ current' = current
      \/ SetTable(u) /\ current' = n
  BY DEF process_schedule_tick, Switch
<1> HIDE DEF c
<1>3. c \in Table /\ Moves(t, c)
  BY <1>1, HitMoves DEF Hit, Affects
<1>4. Scheduled(c, current)
  <2>1. CASE current = idle
    BY <1>1, <2>1
  <2>2. CASE current # idle
    BY <1>1, <2>2, HitScheduled
  <2> QED
    BY <2>1, <2>2
<1>5. /\ Affects(c, d, current)
      /\ d.proc[current].wait_status = c.proc[current].wait_status
      /\ d.proc[current].pending = c.proc[current].pending
      /\ c.proc[current].state # "RUNNING" => d = c
      /\ c.proc[current].state = "RUNNING" => d.proc[current].state = "READY"
      /\ Queues(d, {})
  BY <1>3, <1>4, PreemptedFacts DEF Scheduled, IdleSound
<1> HIDE DEF d
<1>6. d \in Table /\ Moves(c, d)
  <2>1. CASE c.proc[current].state # "RUNNING"
    BY <1>3, <1>5, <2>1, StateMoves DEF Affects
  <2>2. CASE c.proc[current].state = "RUNNING"
    BY <1>3, <1>5, <2>2, StateMoves DEF Affects
  <2> QED
    BY <2>1, <2>2
<1>7. /\ \A q \in Slots : d.proc[q].state # "RUNNING"
      /\ IdleSound(d) /\ d.proc[idle].state = "READY"
  <2>1. \A q \in Slots : d.proc[q].used = c.proc[q].used /\ d.proc[q].is_idle = c.proc[q].is_idle
    BY <1>5 DEF Affects, SameKin
  <2>2. \A q \in Slots : d.proc[q].state # "RUNNING"
    BY <1>4, <1>5 DEF Affects, Scheduled
  <2>3. d.proc[idle].pending = {}
    BY <1>0, <1>4, <1>5 DEF Affects, Scheduled, IdleSound
  <2>4. d.proc[idle].state = "READY"
    BY <1>0, <1>4, <1>5, <2>2 DEF Affects, Scheduled, IdleSound
  <2> QED
    BY <1>0, <1>4, <2>1, <2>2, <2>3, <2>4 DEF Scheduled, IdleSound
<1>8. /\ n \in Slots /\ d.proc[n].used
      /\ d.proc[n].state = "READY"
      /\ Affects(d, u, n) /\ u.proc[n].state = "RUNNING"
      /\ u.proc[n].wait_status = d.proc[n].wait_status
      /\ u.proc[n].pending = d.proc[n].pending
      /\ \A q \in Slots \ {n} : u.proc[q].state = d.proc[q].state
      /\ Queues(u, {})
      /\ \A q \in Slots \ {idle} :
           u.proc[q].used /\ u.proc[q].state = "READY"
             => u.proc[n].priority <= u.proc[q].priority
  BY <1>0, <1>5, <1>6, <1>7, DispatchFacts DEF IdleSound
<1> HIDE DEF u, n
<1>9. CASE SetTable(u) /\ current' = n
  <2>1. T' = u /\ u \in Table
    BY <1>8, <1>9, SetTableIs DEF Affects
  <2>2. Moves(d, u)
    BY <1>6, <1>8, StateMoves
  <2>3. Moves(t, u)
    BY <1>3, <1>6, <2>2, MovesTrans
  <2>4. Scheduled(u, n)
    <3>1. \A q \in Slots : u.proc[q].used = d.proc[q].used /\ u.proc[q].is_idle = d.proc[q].is_idle
      BY <1>8 DEF Affects, SameKin
    <3>2. u.proc[idle].pending = {} /\ u.proc[idle].state \in {"READY", "RUNNING"}
      BY <1>0, <1>7, <1>8 DEF Affects, IdleSound
    <3>3. IdleSound(u)
      BY <1>0, <1>7, <3>1, <3>2 DEF IdleSound
    <3>4. \A q \in Slots : u.proc[q].state = "RUNNING" => q = n
      BY <1>7, <1>8
    <3> QED
      BY <1>8, <3>1, <3>3, <3>4 DEF Scheduled
  <2> QED
    BY <1>8, <1>9, <2>1, <2>3, <2>4
<1>10. CASE KeepsCpu(c, current) /\ SetTable(c) /\ current' = current
  <2>1. T' = c
    BY <1>3, <1>10, SetTableIs
  <2>2. c.proc[current].state = "RUNNING"
    BY <1>10 DEF KeepsCpu
  <2> QED
    BY <1>3, <1>4, <1>10, <2>1, <2>2
<1> QED
  BY <1>2, <1>9, <1>10

\* What every step relies on: the scheduler's own state, and that only code
\* the CPU has been given runs.
SchedInv ==
  /\ Scheduled(T, current)
  /\ ctl[idle].at = "hlt"
  /\ booted /\ ctl[current].at \in {"run", "retry"} => proc[current].state = "RUNNING"
  /\ ~booted => current = bootstrap /\ ctl[bootstrap].at = "run"

\* No step but these three changes a family or puts a process to sleep.

\* process_spawn_kernel: the slot p becomes a child of the running process,
\* or, without a stack, is given back.
Born(p) ==
  /\ T' \in Table /\ ~proc[p].used /\ current' = current
  /\ next_pid' = next_pid + 1 /\ next_pid <= MaxPid
  /\ \A q \in Slots \ {p} :
       /\ proc'[q].used = proc[q].used /\ proc'[q].pid = proc[q].pid
       /\ proc'[q].ppid = proc[q].ppid /\ proc'[q].state = proc[q].state
       /\ proc'[q].wait_status = proc[q].wait_status
       /\ q # current => proc'[q].children = proc[q].children
       /\ ctl'[q] = ctl[q]
  /\ proc'[p].children = << >>
  /\ ctl[current].at = "run"
  /\ \/ /\ ~proc'[p].used /\ proc'[current].children = proc[current].children
     \/ /\ proc'[p].used /\ proc'[p].pid = next_pid
        /\ proc'[p].ppid = proc[current].pid
        /\ proc'[current].children = << p >> \o proc[current].children
        /\ ctl'[p].at = "run"

\* waitpid takes the i-th child of the running process off its list and gives
\* back its slot.
Reaped(i) ==
  LET kids == proc[current].children
      c    == kids[i]
  IN  /\ T' \in Table /\ current' = current /\ next_pid' = next_pid
      /\ proc[c].state = "ZOMBIE" /\ c # current
      /\ \A q \in Slots \ {c} :
           /\ proc'[q].used = proc[q].used /\ proc'[q].pid = proc[q].pid
           /\ proc'[q].ppid = proc[q].ppid /\ proc'[q].state = proc[q].state
           /\ proc'[q].wait_status = proc[q].wait_status
           /\ q # current => proc'[q].children = proc[q].children
      /\ ~proc'[c].used /\ proc'[c].state = "DEAD" /\ proc'[c].children = << >>
      /\ proc'[current].children = Without(kids, i)
      /\ ctl' = [ctl EXCEPT ![current] = Running("run")]

\* waitpid decides to block.
Sleeps(target) ==
  LET kids    == proc[current].children
      matches == {i \in DOMAIN kids : wait_match_child(T, kids[i], target)}
  IN  /\ T' \in Table /\ current' = current /\ next_pid' = next_pid
      /\ proc[current].state = "RUNNING"
      /\ \A q \in Slots :
           /\ SameKin(proc[q], proc'[q])
           /\ q # current => proc'[q].state = proc[q].state
           /\ proc'[q].wait_status = proc[q].wait_status
      /\ proc'[current].state = "BLOCKED"
      /\ matches # {} /\ \A i \in matches : proc[kids[i]].state # "ZOMBIE"
      /\ ctl' = [ctl EXCEPT ![current] = [at |-> "wait", target |-> target]]

\* Everything else: nobody enters waitpid or changes what it waits for.
Runs ==
  /\ Moves(T, T') /\ next_pid' = next_pid
  /\ \A p \in Slots : ctl'[p].at \in {"wait", "retry"} =>
       ctl[p].at \in {"wait", "retry"} /\ ctl'[p].target = ctl[p].target

\* The priority policy of one step.
BestFirst ==
  current' # current =>
    \A q \in Slots \ {idle} :
      proc'[q].used /\ proc'[q].state = "READY" =>
        proc'[current'].priority <= proc'[q].priority

\* A signal sent by a careful caller keeps the invariant.
LEMMA HitStep ==
  ASSUME TypeOK, SchedInv, CarefulKill, NEW p \in Slots, NEW sig \in Signals,
         proc[p].used, p # idle, sig = SIGKILL => proc[p].state \in {"BLOCKED", "ZOMBIE"},
         SetTable(SendSignal(T, p, sig)), UNCHANGED << current, next_pid, ctl, booted >>
  PROVE  SchedInv' /\ Runs
<1>1. T \in Table /\ T.proc = proc /\ T'.proc = proc' /\ current \in Slots
  BY TIs DEF TypeOK
<1> DEFINE u == SendSignal(T, p, sig)
<1>2. /\ Hit(T, u, p)
      /\ sig # SIGKILL => u.proc[p].state # "ZOMBIE" \/ T.proc[p].state = "ZOMBIE"
      /\ Queues(T, {}) /\ (sig = SIGKILL => T.proc[p].state # "READY") => Queues(u, {})
  BY <1>1, SendFacts
<1> HIDE DEF u
<1>3. u \in Table
  BY <1>2 DEF Hit, Affects
<1>4. T' = u
  BY <1>3, SetTableIs DEF u
<1>5. Queues(u, {})
  BY <1>1, <1>2 DEF SchedInv, Scheduled
<1>6. Scheduled(u, current) /\ Moves(T, u)
  BY <1>1, <1>2, <1>5, HitScheduled, HitMoves DEF SchedInv
<1>7. proc[current].state = "RUNNING" => proc'[current].state = "RUNNING"
  BY <1>1, <1>2, <1>4 DEF Hit, Affects
<1>8. SchedInv'
  BY <1>4, <1>6, <1>7 DEF SchedInv
<1> QED
  BY <1>4, <1>6, <1>8 DEF Runs

\* So does a write to handlers, masks or pending signals, or an exec.
LEMMA QuietStep ==
  ASSUME TypeOK, SchedInv, NEW p \in Slots, Quiet(T, T', p),
         p = idle => proc'[p].pending = {}, UNCHANGED << current, next_pid, booted >>,
         \/ ctl' = ctl
         \/ p \notin {current, bootstrap, idle} /\ ctl' = [ctl EXCEPT ![p] = Running("run")]
  PROVE  SchedInv' /\ Runs
<1>1. /\ T \in Table /\ T.proc = proc /\ T'.proc = proc' /\ current \in Slots
      /\ ctl \in [Slots -> Controls]
  BY TIs DEF TypeOK
<1>2. Scheduled(T', current) /\ Moves(T, T')
  BY <1>1, QuietScheduled DEF SchedInv
<1>3. proc'[current].state = proc[current].state
  BY <1>1 DEF Quiet, Affects, Touch
<1>4. /\ ctl'[idle] = ctl[idle] /\ ctl'[current] = ctl[current]
      /\ ctl'[bootstrap] = ctl[bootstrap]
  BY <1>1, PointerFacts
<1>5. SchedInv'
  BY <1>2, <1>3, <1>4 DEF SchedInv
<1>6. \A q \in Slots : ctl'[q].at \in {"wait", "retry"} =>
        ctl[q].at \in {"wait", "retry"} /\ ctl'[q].target = ctl[q].target
  <2>1. Running("run").at = "run"
    BY DEF Running
  <2> QED BY <1>1, <2>1
<1> QED
  BY <1>2, <1>5, <1>6 DEF Runs

\* A process on no queue links to nothing.
LEMMA AsideLoose ==
  ASSUME NEW t \in Table, NEW p \in Slots, Queues(t, {p})
  PROVE  t.proc[p].rq_next = NULL
<1>1. PICK n \in [Priorities -> Nat], at \in [Priorities -> [Nat -> Slots]] :
        InLine(t, n, at) /\ ~Lined(n, at, p)
  BY DEF Queues
<1> QED
  BY <1>1 DEF InLine, Loose, Lined

\* What becomes of the slot p and of its new parent, and of nobody else.
NewBorn(t, u, p, parent, pid) ==
  /\ u \in Table
  /\ \A q \in Slots \ {p} :
       /\ u.proc[q].used = t.proc[q].used /\ u.proc[q].pid = t.proc[q].pid
       /\ u.proc[q].ppid = t.proc[q].ppid /\ u.proc[q].state = t.proc[q].state
       /\ u.proc[q].wait_status = t.proc[q].wait_status
       /\ u.proc[q].pending = t.proc[q].pending /\ u.proc[q].is_idle = t.proc[q].is_idle
       /\ q # parent => u.proc[q].children = t.proc[q].children
  /\ u.proc[p].used /\ u.proc[p].pid = pid /\ u.proc[p].ppid = t.proc[parent].pid
  /\ u.proc[p].state = "READY" /\ ~u.proc[p].is_idle /\ u.proc[p].children = << >>
  /\ u.proc[parent].children = << p >> \o t.proc[parent].children

\* create_kernel_process_locked fills a free slot, puts it at the head of its
\* parent's list and queues it.
LEMMA CreateFacts ==
  ASSUME NEW t \in Table, NEW p \in Slots, NEW parent \in Slots \ {p},
         NEW pid \in 1..MaxPid, Queues(t, {p})
  PROVE  LET u == create_kernel_process_locked(t, p, pid, parent)
         IN  NewBorn(t, u, p, parent, pid) /\ Queues(u, {})
<1> DEFINE r  == NewProcess(t, pid, parent)
           t1 == [t EXCEPT !.proc[p] = r]
           K  == << p >> \o t1.proc[parent].children
           t2 == [t1 EXCEPT !.proc[parent].children = K]
           u  == create_kernel_process_locked(t, p, pid, parent)
<1>0. parent \in Slots
  OBVIOUS
<1>1. /\ r \in ProcRecord
      /\ r.used /\ r.pid = pid /\ r.ppid = t.proc[parent].pid
      /\ r.state = "READY" /\ ~r.is_idle /\ r.rq_next = NULL
      /\ r.children = << >>
  BY <1>0, NewFacts
<1>2. u = runq_push_locked(t2, p)
  <2>1. t1 \in Table
    BY <1>1, WriteSlot
  <2>2. [t1 EXCEPT !.proc[parent].children = << p >> \o @] = t2
    <3> HIDE DEF t1
    <3> QED BY <2>1 DEF Table
  <2> QED
    BY <2>2 DEF create_kernel_process_locked
<1> HIDE DEF r, u
<1>3. /\ t1 \in Table /\ t1.rq = t.rq /\ t1.proc[p] = r
      /\ \A q \in Slots : q # p => t1.proc[q] = t.proc[q]
  BY <1>1, WriteSlot
<1> HIDE DEF t1
<1>4. K = << p >> \o t.proc[parent].children /\ K \in Seq(Slots)
  <2>1. t.proc[parent].children \in Seq(Slots)
    BY <1>0, PointerFacts DEF ProcRecord
  <2>2. t1.proc[parent] = t.proc[parent]
    BY <1>0, <1>3
  <2> QED
    BY <2>1, <2>2
<1> HIDE DEF K
<1>5. Relisted(t1, t2, parent, K)
  BY <1>3, <1>4, ChildrenFacts
<1> HIDE DEF t2
<1>6. NewBorn(t, t2, p, parent, pid)
  BY <1>1, <1>3, <1>4, <1>5 DEF Relisted, NewBorn
<1>7. t.proc[p].rq_next = NULL
  BY AsideLoose
<1>8. Around(t, t2, p) /\ t2 \in Table
  BY <1>1, <1>3, <1>5, <1>7 DEF Relisted, Around
<1>9. Queues(t2, {p})
  BY <1>8, QueuesAround
<1>10. Queues(u, {})
  BY <1>2, <1>6, <1>8, <1>9, QueuesPush DEF NewBorn
<1>11. Pushed(t2, u, p, t2.proc[p].priority)
  BY SMTT(30), <1>2, <1>8, PushFacts
<1>12. NewBorn(t, u, p, parent, pid)
  BY SMTT(30), <1>6, <1>11 DEF NewBorn, Pushed, SameLives, SameLife
<1> QED
  BY <1>10, <1>12 DEF u

\* process_spawn_kernel, with and without memory for a stack.
LEMMA SpawnStep ==
  ASSUME TypeOK, SchedInv, Spawn
  PROVE  SchedInv' /\ \E p \in Slots : Born(p)
<1>1. /\ T \in Table /\ T.proc = proc /\ T'.proc = proc' /\ current \in Slots
      /\ ctl \in [Slots -> Controls] /\ next_pid \in 3..(MaxPid + 1)
      /\ idle \in Slots /\ bootstrap \in Slots
  BY TIs, PointerFacts DEF TypeOK
<1> DEFINE p == alloc_process_slot_locked(T)
<1>2. PICK ok \in BOOLEAN :
          /\ p # NULL /\ next_pid <= MaxPid /\ ctl[current].at = "run"
          /\ SetTable(IF ok THEN create_kernel_process_locked(T, p, next_pid, current)
                            ELSE CreateFails(T, p, next_pid, current))
          /\ next_pid' = next_pid + 1
          /\ ctl' = IF ok THEN [ctl EXCEPT ![p] = Running("run")] ELSE ctl
          /\ UNCHANGED << current, booted >>
  BY DEF Spawn, Calls
<1>3. p \in Slots /\ ~proc[p].used
  BY <1>1, <1>2, AllocType
<1> HIDE DEF p
<1>4. next_pid \in 1..MaxPid
  BY <1>1, <1>2, SlotAssumption
<1>5. p # current /\ p # idle
  BY <1>1, <1>3 DEF SchedInv, Scheduled, IdleSound
<1>6. Queues(T, {p})
  BY <1>1, <1>3, QueuesAside DEF SchedInv, Scheduled
<1>7. ASSUME Queues(T', {}), 
             \A q \in Slots \ {p} :
               /\ proc'[q].used = proc[q].used /\ proc'[q].state = proc[q].state
               /\ proc'[q].pending = proc[q].pending /\ proc'[q].is_idle = proc[q].is_idle,
             proc'[p].state = "READY", ~proc'[p].is_idle
      PROVE  Scheduled(T', current)
  BY <1>1, <1>5, <1>7 DEF SchedInv, Scheduled, IdleSound
<1>8. ASSUME Scheduled(T', current), proc'[current].state = proc[current].state,
             \A q \in Slots \ {p} : ctl'[q] = ctl[q],
             p = bootstrap => booted
      PROVE  SchedInv'
  BY <1>1, <1>2, <1>5, <1>8 DEF SchedInv
<1>9. p = bootstrap => booted
  BY <1>5 DEF SchedInv
<1>10. CASE ok
  <2> DEFINE u == create_kernel_process_locked(T, p, next_pid, current)
  <2>1. NewBorn(T, u, p, current, next_pid) /\ Queues(u, {})
    BY <1>1, <1>4, <1>5, <1>3, <1>6, CreateFacts
  <2>2. SetTable(u) /\ ctl' = [ctl EXCEPT ![p] = Running("run")]
    BY <1>2, <1>10
  <2> HIDE DEF u
  <2>3. T' = u
    BY <2>1, <2>2, SetTableIs DEF NewBorn
  <2>4. NewBorn(T, T', p, current, next_pid) /\ Queues(T', {})
    BY <2>1, <2>3
  <2>5. Scheduled(T', current)
    BY <1>1, <1>7, <2>4 DEF NewBorn
  <2>6. \A q \in Slots \ {p} : ctl'[q] = ctl[q]
    BY <1>1, <2>2
  <2>7. SchedInv'
    BY <1>1, <1>5, <1>8, <1>9, <2>4, <2>5, <2>6 DEF NewBorn
  <2>8. ctl'[p].at = "run"
    BY <1>1, <1>3, <2>2 DEF Running
  <2>9. Born(p)
    BY <1>1, <1>2, <1>3, <2>4, <2>6, <2>8 DEF NewBorn, Born
  <2> QED
    BY <1>3, <2>7, <2>9
<1>11. CASE ~ok
  <2> DEFINE n == NewProcess(T, next_pid, current)
             r == Unborn(n)
             u == [T EXCEPT !.proc[p] = r]
  <2>0. /\ n \in ProcRecord /\ n.state = "READY" /\ ~n.is_idle /\ n.rq_next = NULL
        /\ n.children = << >>
    BY <1>1, <1>4, NewFacts
  <2>1. /\ r \in ProcRecord /\ ~r.used /\ r.children = << >> /\ r.rq_next = NULL
        /\ ~r.is_idle /\ r.state = "READY"
    <3> HIDE DEF n
    <3> QED BY <2>0, UnbornFacts
  <2>2. SetTable(u) /\ ctl' = ctl
    BY <1>2, <1>11 DEF CreateFails, Unborn
  <2> HIDE DEF r
  <2>3. /\ u \in Table /\ u.rq = T.rq /\ u.proc[p] = r
        /\ \A q \in Slots : q # p => u.proc[q] = T.proc[q]
    BY SMTT(30), <1>1, <1>3, <2>1, WriteSlot
  <2> HIDE DEF u
  <2>4. T' = u
    BY <2>2, <2>3, SetTableIs
  <2>5. T.proc[p].rq_next = NULL
    BY <1>1, <1>3, <1>6, AsideLoose
  <2>6. Around(T, u, p)
    BY <1>3, <2>1, <2>3, <2>5 DEF Around
  <2>7. Queues(u, {})
    BY <1>1, <1>3, <1>6, <2>1, <2>3, <2>6, QueuesAround, QueuesBack
  <2>8. Scheduled(T', current)
    BY <1>1, <1>7, <2>1, <2>3, <2>4, <2>7
  <2>9. SchedInv'
    BY <1>1, <1>5, <1>8, <1>9, <2>2, <2>3, <2>4, <2>8
  <2>10. Born(p)
    BY <1>1, <1>2, <1>3, <1>5, <2>1, <2>2, <2>3, <2>4 DEF Born
  <2> QED
    BY <1>3, <2>9, <2>10
<1> QED
  BY <1>10, <1>11

\* waitpid that finds a dead child: it is on no queue when its slot and its
\* stack go.
LEMMA ReapStep ==
  ASSUME TypeOK, SchedInv, ctl[current].at \in {"run", "retry"}, booted,
         NEW i \in DOMAIN proc[current].children,
         proc[proc[current].children[i]].state = "ZOMBIE",
         SetTable(reset_process_slot_locked(
           parent_unlink_child_locked(T, current, proc[current].children[i]),
           proc[current].children[i])),
         ctl' = [ctl EXCEPT ![current] = Running("run")],
         UNCHANGED << current, next_pid, booted >>
  PROVE  SchedInv' /\ \E f \in DOMAIN proc[current].children : Reaped(f)
<1>1. /\ T \in Table /\ T.proc = proc /\ T'.proc = proc' /\ current \in Slots
      /\ ctl \in [Slots -> Controls] /\ idle \in Slots /\ bootstrap \in Slots
  BY TIs, PointerFacts DEF TypeOK
<1> DEFINE kids == proc[current].children
           c    == kids[i]
           t1   == parent_unlink_child_locked(T, current, c)
           u    == reset_process_slot_locked(t1, c)
<1>2. kids \in Seq(Slots)
  BY <1>1, PointerFacts DEF ProcRecord
<1>3. c \in Slots
  BY <1>2
<1>4. PICK f \in DOMAIN kids : kids[f] = c /\ Relisted(T, t1, current, Without(kids, f))
  BY <1>1, UnlinkFacts
<1>5. SetTable(u) /\ proc[c].state = "ZOMBIE"
  OBVIOUS
<1> HIDE DEF c, t1
<1>6. /\ u \in Table /\ u.rq = t1.rq
      /\ \A q \in Slots : q # c => u.proc[q] = t1.proc[q]
      /\ ~u.proc[c].used /\ u.proc[c].state = "DEAD"
      /\ u.proc[c].rq_next = NULL /\ u.proc[c].children = << >>
  BY <1>3, <1>4, ResetFacts DEF Relisted
<1> HIDE DEF u
<1>7. T' = u
  BY <1>5, <1>6, SetTableIs
<1>8. proc[current].state = "RUNNING" /\ c # current /\ c # idle
  BY <1>1, <1>5 DEF SchedInv, Scheduled, IdleSound
<1>9. Queues(T, {c})
  BY <1>1, <1>3, <1>5, QueuesAside DEF SchedInv, Scheduled
<1>10. T.proc[c].rq_next = NULL
  BY <1>1, <1>3, <1>9, AsideLoose
<1>11. Around(T, u, c)
  BY <1>4, <1>6, <1>8, <1>10 DEF Around, Relisted
<1>12. Queues(u, {})
  BY <1>1, <1>3, <1>6, <1>9, <1>11, QueuesAround, QueuesBack
<1>13. \A q \in Slots \ {c} :
         /\ proc'[q].used = proc[q].used /\ proc'[q].pid = proc[q].pid
         /\ proc'[q].ppid = proc[q].ppid /\ proc'[q].state = proc[q].state
         /\ proc'[q].wait_status = proc[q].wait_status
         /\ proc'[q].pending = proc[q].pending /\ proc'[q].is_idle = proc[q].is_idle
         /\ q # current => proc'[q].children = proc[q].children
  BY <1>1, <1>4, <1>6, <1>7 DEF Relisted
<1>14. /\ ~proc'[c].used /\ proc'[c].state = "DEAD" /\ proc'[c].children = << >>
       /\ proc'[current].children = Without(kids, f)
  BY <1>1, <1>4, <1>6, <1>7, <1>8 DEF Relisted
<1>15. Scheduled(T', current)
  BY <1>1, <1>7, <1>8, <1>12, <1>13, <1>14 DEF SchedInv, Scheduled, IdleSound
<1>16. ctl'[idle].at = "hlt"
  <2>1. current # idle
    BY DEF SchedInv
  <2> QED BY <1>1, <2>1 DEF SchedInv
<1>17. SchedInv'
  BY <1>1, <1>8, <1>13, <1>15, <1>16 DEF SchedInv
<1>18. Reaped(f)
  BY <1>4, <1>5, <1>6, <1>7, <1>8, <1>13, <1>14 DEF Reaped
<1> QED
  BY <1>17, <1>18

\* waitpid that decides to block.
LEMMA BlockStep ==
  ASSUME TypeOK, SchedInv, ctl[current].at \in {"run", "retry"}, booted, NEW target,
         SetTable(SetState(T, current, "BLOCKED")),
         ctl' = [ctl EXCEPT ![current] = [at |-> "wait", target |-> target]],
         UNCHANGED << current, next_pid, booted >>
  PROVE  /\ SchedInv'
         /\ T' \in Table /\ proc[current].state = "RUNNING"
         /\ \A q \in Slots :
              /\ SameKin(proc[q], proc'[q])
              /\ q # current => proc'[q].state = proc[q].state
              /\ proc'[q].wait_status = proc[q].wait_status
         /\ proc'[current].state = "BLOCKED"
<1>1. /\ T \in Table /\ T.proc = proc /\ T'.proc = proc' /\ current \in Slots
      /\ ctl \in [Slots -> Controls] /\ idle \in Slots /\ bootstrap \in Slots
  BY TIs, PointerFacts DEF TypeOK
<1> DEFINE u == SetState(T, current, "BLOCKED")
<1>2. StateSet(T, u, current, "BLOCKED")
  BY <1>1, SetStateFacts DEF States
<1> HIDE DEF u
<1>3. u \in Table /\ T' = u
  BY <1>2, SetTableIs DEF StateSet, Touch, u
<1>4. proc[current].state = "RUNNING" /\ current # idle
  BY DEF SchedInv
<1>5. Queues(u, {})
  BY <1>1, <1>2, <1>4, QueuesTouch DEF StateSet, SchedInv, Scheduled
<1>6. /\ \A q \in Slots :
           /\ SameKin(proc[q], proc'[q])
           /\ q # current => proc'[q].state = proc[q].state
           /\ proc'[q].wait_status = proc[q].wait_status
           /\ proc'[q].pending = proc[q].pending
      /\ proc'[current].state = "BLOCKED"
  BY <1>1, <1>2, <1>3 DEF StateSet, Touch, SameKin
<1>7. Scheduled(T', current)
  BY <1>1, <1>3, <1>4, <1>5, <1>6 DEF SchedInv, Scheduled, IdleSound, SameKin
<1>8. ctl'[idle].at = "hlt" /\ ctl'[current].at = "wait"
  BY <1>1, <1>4 DEF SchedInv
<1>9. SchedInv'
  BY <1>7, <1>8 DEF SchedInv
<1> QED
  BY <1>3, <1>4, <1>6, <1>9

\* waitpid that returns with nothing.
LEMMA ReturnStep ==
  ASSUME TypeOK, SchedInv, ctl[current].at \in {"run", "retry"}, booted,
         ctl' = [ctl EXCEPT ![current] = Running("run")],
         UNCHANGED << proc, rq, current, next_pid, booted >>
  PROVE  SchedInv' /\ Runs
<1>1. /\ T \in Table /\ T.proc = proc /\ T' = T /\ current \in Slots
      /\ ctl \in [Slots -> Controls] /\ idle \in Slots /\ Running("run").at = "run"
  BY PointerFacts DEF TypeOK, T, Running
<1>2. Scheduled(T', current)
  BY <1>1 DEF SchedInv
<1>3. ctl'[idle].at = "hlt"
  <2>1. current # idle
    BY DEF SchedInv
  <2> QED
    BY <1>1, <2>1 DEF SchedInv
<1>4. SchedInv'
  BY <1>1, <1>2, <1>3 DEF SchedInv
<1>5. Moves(T, T')
  BY <1>1 DEF Moves, SameKin
<1>6. \A q \in Slots : ctl'[q].at \in {"wait", "retry"} =>
        ctl[q].at \in {"wait", "retry"} /\ ctl'[q].target = ctl[q].target
  BY <1>1
<1> QED
  BY <1>4, <1>5, <1>6 DEF Runs

\* Each iteration of the loop of waitpid is one of the three.
LEMMA WaitStep ==
  ASSUME TypeOK, SchedInv, ctl[current].at \in {"run", "retry"}, booted,
         NEW target, NEW nohang, WaitIteration(target, nohang)
  PROVE  /\ SchedInv'
         /\ \/ Runs
            \/ \E i \in DOMAIN proc[current].children : Reaped(i)
            \/ Sleeps(target)
<1> DEFINE kids    == proc[current].children
           matches == {i \in DOMAIN kids : wait_match_child(T, kids[i], target)}
           dead    == {i \in matches : proc[kids[i]].state = "ZOMBIE"}
           least   == CHOOSE i \in dead : \A j \in dead : i <= j
           child   == kids[least]
           back    == ctl' = [ctl EXCEPT ![current] = Running("run")]
<1>1. /\ \/ /\ dead # {}
            /\ SetTable(reset_process_slot_locked(
                          parent_unlink_child_locked(T, current, child), child))
            /\ back
         \/ back /\ UNCHANGED << proc, rq >>
         \/ /\ dead = {} /\ matches # {}
            /\ SetTable(SetState(T, current, "BLOCKED"))
            /\ ctl' = [ctl EXCEPT ![current] = [at |-> "wait", target |-> target]]
      /\ UNCHANGED << current, next_pid, booted >>
  BY DEF WaitIteration
<1>2. CASE dead # {} /\ back /\ SetTable(reset_process_slot_locked(
                          parent_unlink_child_locked(T, current, child), child))
  <2>1. kids \in Seq(Slots)
    BY PointerFacts, TIs DEF ProcRecord, TypeOK
  <2>2. dead \subseteq Nat
    BY <2>1
  <2>3. least \in dead
    <3> HIDE DEF dead
    <3> QED BY <1>2, <2>2, LeastIn
  <2>4. least \in DOMAIN kids /\ proc[kids[least]].state = "ZOMBIE"
    BY <2>3
  <2>5. UNCHANGED << current, next_pid, booted >>
    BY <1>1
  <2> HIDE DEF least
  <2> QED
    BY <1>2, <2>4, <2>5, ReapStep
<1>3. CASE back /\ UNCHANGED << proc, rq >>
  <2>1. UNCHANGED << current, next_pid, booted >>
    BY <1>1
  <2> QED
    BY <1>3, <2>1, ReturnStep
<1>4. CASE /\ dead = {} /\ matches # {}
           /\ SetTable(SetState(T, current, "BLOCKED"))
           /\ ctl' = [ctl EXCEPT ![current] = [at |-> "wait", target |-> target]]
  <2>1. UNCHANGED << current, next_pid, booted >>
    BY <1>1
  <2>2. /\ SchedInv'
        /\ T' \in Table /\ proc[current].state = "RUNNING"
        /\ \A q \in Slots :
             /\ SameKin(proc[q], proc'[q])
             /\ q # current => proc'[q].state = proc[q].state
             /\ proc'[q].wait_status = proc[q].wait_status
        /\ proc'[current].state = "BLOCKED"
    BY <1>4, <2>1, BlockStep
  <2>3. \A i \in matches : proc[kids[i]].state # "ZOMBIE"
    BY <1>4
  <2>4. Sleeps(target)
    BY <1>4, <2>1, <2>2, <2>3 DEF Sleeps
  <2> QED
    BY <2>2, <2>4
<1> HIDE DEF dead, matches, child
<1> QED
  BY SMTT(30), <1>1, <1>2, <1>3, <1>4

\* process_exit up to its yield: the dead process keeps the CPU, off the
\* queues.
LEMMA ExitStep ==
  ASSUME TypeOK, SchedInv, Exit
  PROVE  SchedInv' /\ Runs
<1>1. /\ T \in Table /\ T.proc = proc /\ T'.proc = proc' /\ current \in Slots
      /\ ctl \in [Slots -> Controls] /\ idle \in Slots /\ bootstrap \in Slots
  BY TIs, PointerFacts DEF TypeOK
<1>2. PICK code \in ExitCodes :
        /\ SetTable(mark_zombie_locked(T, current, WAIT_STATUS_EXIT(code)))
        /\ ctl[current].at = "run" /\ booted
        /\ ctl' = [ctl EXCEPT ![current] = Running("exit")]
        /\ UNCHANGED << current, next_pid, booted >>
  BY DEF Exit, Active, Calls
<1>3. proc[current].state = "RUNNING" /\ current # idle
  BY <1>2 DEF SchedInv
<1> DEFINE u == mark_zombie_locked(T, current, WAIT_STATUS_EXIT(code))
<1>4. Killed(T, u, current)
  BY <1>1, StatusFacts, MarkZombieFacts
<1>5. SetTable(u)
  BY <1>2
<1> HIDE DEF u
<1>6. Hit(T, u, current) /\ Queues(u, {}) /\ u \in Table
  BY <1>1, <1>3, <1>4 DEF Killed, Hit, SchedInv, Scheduled, Affects
<1>7. T' = u
  BY <1>5, <1>6, SetTableIs
<1>8. Scheduled(T', current) /\ Moves(T, T')
  BY <1>1, <1>3, <1>6, <1>7, HitScheduled, HitMoves DEF SchedInv
<1>9. Running("exit").at = "exit"
  BY DEF Running
<1>10. ctl'[idle].at = "hlt" /\ ctl'[current].at = "exit"
  BY <1>1, <1>2, <1>3, <1>9 DEF SchedInv
<1>11. SchedInv'
  BY <1>2, <1>8, <1>10 DEF SchedInv
<1>12. \A q \in Slots : ctl'[q].at \in {"wait", "retry"} =>
        ctl[q].at \in {"wait", "retry"} /\ ctl'[q].target = ctl[q].target
  BY <1>1, <1>2, <1>9
<1> QED
  BY <1>2, <1>8, <1>11, <1>12 DEF Runs

\* A new priority: nothing but the priority, and the place on the queues,
\* changes.
LEMMA RequeueFacts ==
  ASSUME NEW t \in Table, NEW p \in Slots, NEW pri \in Priorities, Queues(t, {}),
         t.proc[p].used
  PROVE  LET t1 == [runq_remove_locked(t, p) EXCEPT !.proc[p].priority = pri]
             u  == IF t.proc[p].state = "READY" THEN runq_push_locked(t1, p)
                   ELSE [t EXCEPT !.proc[p].priority = pri]
         IN  /\ u \in Table /\ Queues(u, {})
             /\ \A q \in Slots : /\ SameKin(t.proc[q], u.proc[q])
                                 /\ u.proc[q].state = t.proc[q].state
                                 /\ u.proc[q].wait_status = t.proc[q].wait_status
                                 /\ u.proc[q].pending = t.proc[q].pending
<1> DEFINE v  == runq_remove_locked(t, p)
           t1 == [v EXCEPT !.proc[p].priority = pri]
           w  == runq_push_locked(t1, p)
           x  == [t EXCEPT !.proc[p].priority = pri]
<1>1. CASE t.proc[p].state = "READY"
  <2>1. v \in Table /\ SameLives(t, v) /\ Queues(v, {p})
    BY <1>1, QueuesRemove
  <2> HIDE DEF v
  <2>2. /\ Touch(v, t1, p)
        /\ t1.proc[p].state = v.proc[p].state
        /\ t1.proc[p].wait_status = v.proc[p].wait_status
        /\ t1.proc[p].pending = v.proc[p].pending
    BY <2>1, PriorityFacts
  <2> HIDE DEF t1
  <2>3. t1 \in Table /\ Around(v, t1, p)
    BY <2>2 DEF Touch, Around
  <2>4. t1.proc[p].used /\ t1.proc[p].state = "READY"
    BY <1>1, <2>1, <2>2 DEF SameLives, SameLife, Touch, SameKin
  <2>5. Queues(t1, {p})
    BY <2>1, <2>3, QueuesAround
  <2>6. Queues(w, {})
    BY <2>3, <2>4, <2>5, QueuesPush
  <2>7. Pushed(t1, w, p, t1.proc[p].priority)
    BY <2>3, PushFacts
  <2> HIDE DEF w
  <2>8. \A q \in Slots : /\ SameKin(v.proc[q], t1.proc[q])
                         /\ t1.proc[q].state = v.proc[q].state
                         /\ t1.proc[q].wait_status = v.proc[q].wait_status
                         /\ t1.proc[q].pending = v.proc[q].pending
    BY <2>2 DEF Touch, SameKin
  <2>9. \A q \in Slots : /\ SameKin(t.proc[q], w.proc[q])
                         /\ w.proc[q].state = t.proc[q].state
                         /\ w.proc[q].wait_status = t.proc[q].wait_status
                         /\ w.proc[q].pending = t.proc[q].pending
    BY <2>1, <2>7, <2>8 DEF Pushed, SameLives, SameLife, SameKin
  <2>10. w \in Table
    BY <2>7 DEF Pushed
  <2> QED
    BY <1>1, <2>6, <2>9, <2>10 DEF w, t1, v
<1>2. CASE t.proc[p].state # "READY"
  <2>1. /\ Touch(t, x, p)
        /\ x.proc[p].state = t.proc[p].state
        /\ x.proc[p].wait_status = t.proc[p].wait_status
        /\ x.proc[p].pending = t.proc[p].pending
    BY PriorityFacts
  <2> HIDE DEF x
  <2>2. Queues(x, {})
    BY <1>2, <2>1, QueuesTouch
  <2>3. x \in Table /\
        \A q \in Slots : /\ SameKin(t.proc[q], x.proc[q])
                         /\ x.proc[q].state = t.proc[q].state
                         /\ x.proc[q].wait_status = t.proc[q].wait_status
                         /\ x.proc[q].pending = t.proc[q].pending
    BY <2>1 DEF Touch, SameKin
  <2> QED
    BY <1>2, <2>2, <2>3 DEF x
<1> QED
  BY <1>1, <1>2

\* process_set_priority keeps the invariant, for a READY target too.
LEMMA PriorityStep ==
  ASSUME TypeOK, SchedInv, SetPriority
  PROVE  SchedInv' /\ Runs
<1>1. /\ T \in Table /\ T.proc = proc /\ T'.proc = proc' /\ current \in Slots
      /\ idle \in Slots
  BY TIs, PointerFacts DEF TypeOK
<1>2. PICK pid \in 1..MaxPid, pri \in NewPriorities :
        LET p  == find_by_pid_locked(T, pid)
            t1 == [runq_remove_locked(T, p) EXCEPT !.proc[p].priority = pri]
        IN  /\ p # NULL
            /\ SetTable(IF proc[p].state = "READY" THEN runq_push_locked(t1, p)
                        ELSE [T EXCEPT !.proc[p].priority = pri])
            /\ UNCHANGED << current, next_pid, ctl, booted >>
  BY DEF SetPriority
<1> DEFINE p  == find_by_pid_locked(T, pid)
           t1 == [runq_remove_locked(T, p) EXCEPT !.proc[p].priority = pri]
           u  == IF T.proc[p].state = "READY" THEN runq_push_locked(t1, p)
                 ELSE [T EXCEPT !.proc[p].priority = pri]
<1>3. p \in Slots /\ T.proc[p].used /\ pri \in Priorities
  BY <1>2, FindType, PriorityAssumption
<1>4. SetTable(u) /\ UNCHANGED << current, next_pid, ctl, booted >>
  BY <1>1, <1>2
<1> HIDE DEF p
<1>5. /\ u \in Table /\ Queues(u, {})
      /\ \A q \in Slots : /\ SameKin(T.proc[q], u.proc[q])
                          /\ u.proc[q].state = T.proc[q].state
                          /\ u.proc[q].wait_status = T.proc[q].wait_status
                          /\ u.proc[q].pending = T.proc[q].pending
  BY ZenonT(40), <1>1, <1>3, RequeueFacts DEF SchedInv, Scheduled
<1> HIDE DEF u
<1>6. T' = u
  BY <1>4, <1>5, SetTableIs
<1>7. Scheduled(u, current)
  BY <1>1, <1>5 DEF SchedInv, Scheduled, IdleSound, SameKin
<1>8. Moves(T, T')
  BY <1>5, <1>6 DEF Moves
<1>9. SchedInv'
  BY <1>1, <1>4, <1>5, <1>6, <1>7 DEF SchedInv
<1> QED
  BY <1>4, <1>8, <1>9 DEF Runs

\* The timer interrupt keeps the invariant and runs the best.
LEMMA TickStep ==
  ASSUME TypeOK, SchedInv, Tick
  PROVE  SchedInv' /\ Runs /\ BestFirst
<1>1. /\ T \in Table /\ T.proc = proc /\ T'.proc = proc' /\ current \in Slots
  BY TIs DEF TypeOK
<1>2. process_schedule_tick(T) /\ ctl' = ctl /\ booted
  BY DEF Tick
<1>3. next_pid' = next_pid /\ booted' = booted
  BY <1>2 DEF process_schedule_tick
<1>4. /\ Scheduled(T', current') /\ T'.proc[current'].state = "RUNNING"
      /\ current' \in Slots /\ Moves(T, T')
      /\ current' # current =>
           \A q \in Slots \ {idle} :
             T'.proc[q].used /\ T'.proc[q].state = "READY"
               => T'.proc[current'].priority <= T'.proc[q].priority
  BY <1>1, <1>2, TickFacts DEF SchedInv
<1>5. SchedInv'
  BY <1>1, <1>2, <1>3, <1>4 DEF SchedInv
<1>6. Runs
  BY <1>2, <1>3, <1>4 DEF Runs
<1> QED
  BY <1>1, <1>4, <1>5, <1>6 DEF BestFirst

\* int 32 from process_yield, waitpid and exit does the same.
LEMMA YieldStep ==
  ASSUME TypeOK, SchedInv, Yield
  PROVE  SchedInv' /\ Runs /\ BestFirst
<1>1. /\ T \in Table /\ T.proc = proc /\ T'.proc = proc' /\ current \in Slots
      /\ ctl \in [Slots -> Controls] /\ idle \in Slots
  BY TIs, PointerFacts DEF TypeOK
<1> DEFINE t == [T EXCEPT !.proc[current].time_slice = 0]
<1>2. /\ process_schedule_tick(t) /\ booted
      /\ ctl[current].at \in {"run", "wait", "exit"}
      /\ ctl' = [ctl EXCEPT ![current].at = AfterYield(ctl[current].at)]
  BY <1>1 DEF Yield
<1>3. next_pid' = next_pid /\ booted' = booted
  BY <1>2 DEF process_schedule_tick
<1>4. StateSet(T, t, current, T.proc[current].state)
  <2>1. 0 \in 0..TimeSlice
    BY PriorityAssumption
  <2> QED
    BY <1>1, <2>1, SliceFacts
<1> HIDE DEF t
<1>5. current # idle
  BY <1>2 DEF SchedInv
<1>6. t \in Table /\ Quiet(T, t, current)
  BY <1>4 DEF StateSet, Touch, Quiet
<1>7. Scheduled(t, current) /\ Moves(T, t)
  BY <1>1, <1>5, <1>6, QuietScheduled DEF SchedInv
<1>8. /\ Scheduled(T', current') /\ T'.proc[current'].state = "RUNNING"
      /\ current' \in Slots /\ Moves(t, T')
      /\ current' # current =>
           \A q \in Slots \ {idle} :
             T'.proc[q].used /\ T'.proc[q].state = "READY"
               => T'.proc[current'].priority <= T'.proc[q].priority
  BY <1>1, <1>2, <1>6, <1>7, TickFacts
<1>9. Moves(T, T')
  BY <1>1, <1>7, <1>8, MovesTrans
<1>10. ctl'[idle] = ctl[idle]
  BY <1>1, <1>2, <1>5
<1>11. SchedInv'
  BY <1>1, <1>2, <1>3, <1>8, <1>10 DEF SchedInv
<1>12. \A q \in Slots : ctl'[q].at \in {"wait", "retry"} =>
        ctl[q].at \in {"wait", "retry"} /\ ctl'[q].target = ctl[q].target
  <2>1. \A q \in Slots \ {current} : ctl'[q] = ctl[q]
    BY <1>1, <1>2
  <2>2. ctl[current] \in [at : {"run", "wait", "retry", "exit", "hlt"}, target : Targets]
    BY <1>1 DEF Controls
  <2>3. ctl'[current] = [ctl[current] EXCEPT !.at = AfterYield(ctl[current].at)]
    BY <1>1, <1>2
  <2>4. /\ ctl'[current].target = ctl[current].target
        /\ ctl'[current].at = AfterYield(ctl[current].at)
    BY <2>2, <2>3
  <2>5. AfterYield(ctl[current].at) \in {"wait", "retry"} => ctl[current].at \in {"wait", "retry"}
    BY <1>2 DEF AfterYield
  <2> QED
    BY <2>1, <2>4, <2>5
<1>13. Runs
  BY <1>3, <1>9, <1>12 DEF Runs
<1> QED
  BY <1>1, <1>8, <1>11, <1>13 DEF BestFirst

\* The sti of kernel_main.
LEMMA StartStep ==
  ASSUME TypeOK, SchedInv, StartScheduler
  PROVE  SchedInv' /\ Runs
<1>1. /\ T \in Table /\ T.proc = proc /\ T' = T /\ current \in Slots
      /\ ctl \in [Slots -> Controls] /\ idle \in Slots /\ bootstrap \in Slots
      /\ bootstrap # idle /\ Running("hlt").at = "hlt"
  BY TIs, PointerFacts DEF TypeOK, StartScheduler, T, Running
<1>2. /\ current = bootstrap /\ booted' = TRUE
      /\ ctl' = [ctl EXCEPT ![bootstrap] = Running("hlt")]
      /\ UNCHANGED << proc, rq, current, next_pid >>
  BY DEF StartScheduler, SchedInv
<1>3. ctl'[idle] = ctl[idle] /\ ctl'[current].at = "hlt"
  BY <1>1, <1>2
<1>4. SchedInv'
  BY <1>1, <1>2, <1>3 DEF SchedInv
<1>5. Moves(T, T')
  BY <1>1 DEF Moves, SameKin
<1>6. \A q \in Slots : ctl'[q].at \in {"wait", "retry"} =>
        ctl[q].at \in {"wait", "retry"} /\ ctl'[q].target = ctl[q].target
  BY <1>1, <1>2
<1> QED
  BY <1>2, <1>4, <1>5, <1>6 DEF Runs

\* process_init leaves empty queues, and nobody RUNNING.
LEMMA SchedInit == Init => SchedInv
<1> SUFFICES ASSUME Init PROVE SchedInv
  OBVIOUS
<1>1. /\ T \in Table
      /\ \A p \in Slots :
           /\ proc[p].rq_next = NULL /\ proc[p].pending = {}
           /\ proc[p].used <=> p \in {bootstrap, idle}
           /\ proc[p].is_idle <=> p = idle
           /\ proc[p].state # "RUNNING"
           /\ proc[p].state = "READY" <=> p = idle
  BY InitFacts
<1>2. bootstrap \in Slots /\ idle \in Slots /\ bootstrap # idle
  BY PointerFacts
<1>3. T.proc = proc /\ T.rq = rq
  BY TIs
<1>4. /\ current = bootstrap /\ ~booted
      /\ ctl = [p \in Slots |-> IF p = idle THEN Running("hlt") ELSE Running("run")]
      /\ \A pri \in Priorities : rq.head[pri] = NULL /\ rq.tail[pri] = NULL
  BY DEF Init
<1>5. Queues(T, {})
  <2> DEFINE n  == [pri \in Priorities |-> 0]
             at == [pri \in Priorities |-> [k \in Nat |-> idle]]
  <2>1. n \in [Priorities -> Nat] /\ at \in [Priorities -> [Nat -> Slots]]
    BY <1>2
  <2>2. \A pri \in Priorities, k \in Nat : ~(k < n[pri])
    OBVIOUS
  <2>3. \A pri \in Priorities : n[pri] = 0
    OBVIOUS
  <2> HIDE DEF n, at
  <2>4. InLine(T, n, at)
    <3>1. Ends(T, n, at)
      BY <1>3, <1>4, <2>3 DEF Ends
    <3>2. Links(T, n, at) /\ Distinct(n, at)
      BY <2>2 DEF Links, Distinct
    <3>3. Loose(T, n, at)
      BY <1>1, <1>3 DEF Loose
    <3> QED
      BY <2>1, <3>1, <3>2, <3>3 DEF InLine
  <2>5. \A p \in Slots \ {idle} : T.proc[p].state # "READY"
    BY <1>1, <1>3
  <2> QED
    BY <2>1, <2>4, <2>5 DEF Queues
<1>6. Scheduled(T, current)
  BY <1>1, <1>2, <1>3, <1>4, <1>5 DEF Scheduled, IdleSound
<1>7. ctl[idle].at = "hlt" /\ ctl[bootstrap].at = "run"
  BY <1>2, <1>4 DEF Running
<1> QED
  BY <1>4, <1>6, <1>7 DEF SchedInv

\* Every step of a careful system keeps the invariant, runs the best process
\* first, and is of one of four kinds.
LEMMA StepKinds ==
  ASSUME CarefulKill, TypeOK, SchedInv, [Next]_vars
  PROVE  /\ SchedInv' /\ BestFirst
         /\ \/ Runs
            \/ \E p \in Slots : Born(p)
            \/ \E i \in DOMAIN proc[current].children : Reaped(i)
            \/ \E target \in Targets : Sleeps(target)
<1>1. /\ T \in Table /\ T.proc = proc /\ T'.proc = proc' /\ current \in Slots
      /\ ctl \in [Slots -> Controls]
  BY TIs DEF TypeOK
<1>2. current' = current => BestFirst
  BY DEF BestFirst
<1>3. CASE StartScheduler
  BY <1>2, <1>3, StartStep DEF StartScheduler
<1>4. CASE Spawn
  BY <1>2, <1>4, SpawnStep DEF Spawn
<1>5. CASE Exec
  <2>1. PICK pid \in 1..MaxPid :
          LET p == find_by_pid_locked(T, pid)
          IN  /\ p \notin {NULL, current}
              /\ proc' = [proc EXCEPT ![p].pending = {}, ![p].mask = {},
                                      ![p].handlers = [s \in Signals |-> "DFL"]]
              /\ ctl' = IF p \in {bootstrap, idle} THEN ctl
                        ELSE [ctl EXCEPT ![p] = Running("run")]
              /\ UNCHANGED << rq, current, next_pid, booted >>
    BY <1>5 DEF Exec
  <2> DEFINE p == find_by_pid_locked(T, pid)
  <2>2. p \in Slots /\ p # current
    BY <2>1, FindType
  <2>3. /\ proc' = [proc EXCEPT ![p].pending = {}, ![p].mask = {},
                                ![p].handlers = [s \in Signals |-> "DFL"]]
        /\ UNCHANGED << rq, current, next_pid, booted >>
        /\ \/ ctl' = ctl
           \/ p \notin {current, bootstrap, idle} /\ ctl' = [ctl EXCEPT ![p] = Running("run")]
    BY <2>1, <2>2
  <2> HIDE DEF p
  <2>4. Quiet(T, T', p) /\ proc'[p].pending = {}
    BY <1>1, <2>2, <2>3, ExecStep
  <2> QED
    BY <1>2, <2>2, <2>3, <2>4, QuietStep
<1>6. CASE Exit
  BY <1>2, <1>6, ExitStep DEF Exit
<1>7. CASE Waitpid
  <2>1. PICK target \in Targets, nohang \in BOOLEAN :
          Active /\ WaitIteration(target, nohang)
    BY SMTT(30), <1>7 DEF Waitpid
  <2>2. current' = current
    BY <2>1 DEF WaitIteration
  <2>3. ctl[current].at \in {"run", "retry"} /\ booted
    BY <2>1 DEF Active, Calls
  <2> QED
    BY <1>2, <2>1, <2>2, <2>3, WaitStep
<1>8. CASE WaitRetry
  <2>1. ctl[current].at = "retry" /\ WaitIteration(ctl[current].target, FALSE)
    BY <1>8 DEF WaitRetry
  <2>2. current' = current
    BY <2>1 DEF WaitIteration
  <2>3. booted
    BY <2>1, <1>1 DEF SchedInv, TypeOK
  <2>4. ctl[current].target \in Targets
    BY <1>1 DEF Controls
  <2> QED
    BY <1>2, <2>1, <2>2, <2>3, <2>4, WaitStep
<1>9. CASE Kill
  <2>1. PICK pid \in 1..MaxPid, sig \in Signals :
          /\ find_by_pid_locked(T, pid) # NULL
          /\ MaySignal(find_by_pid_locked(T, pid), sig)
          /\ SetTable(SendSignal(T, find_by_pid_locked(T, pid), sig))
          /\ UNCHANGED << current, next_pid, ctl, booted >>
    BY <1>9 DEF Kill
  <2> DEFINE p == find_by_pid_locked(T, pid)
  <2>2. p \in Slots /\ proc[p].used
    BY <1>1, <2>1, FindType
  <2> HIDE DEF p
  <2>3. p # idle /\ (sig = SIGKILL => proc[p].state \in {"BLOCKED", "ZOMBIE"})
    BY <2>1 DEF MaySignal, p
  <2> QED
    BY <1>2, <2>1, <2>2, <2>3, HitStep DEF p
<1>10. ASSUME NEW pgid, NEW sig \in Signals, KillPgid(pgid, sig)
       PROVE  SchedInv' /\ Runs /\ BestFirst
  <2> DEFINE p == find_by_pid_locked(T, pgid)
  <2>1. /\ p # NULL /\ MaySignal(p, sig)
        /\ SetTable(SendSignal(T, p, sig))
        /\ UNCHANGED << current, next_pid, ctl, booted >>
    BY <1>10 DEF KillPgid
  <2>2. p \in Slots /\ proc[p].used
    BY <1>1, <2>1, FindType
  <2> HIDE DEF p
  <2>3. p # idle /\ (sig = SIGKILL => proc[p].state \in {"BLOCKED", "ZOMBIE"})
    BY <2>1 DEF MaySignal
  <2> QED
    BY <1>2, <2>1, <2>2, <2>3, HitStep
<1>11. CASE TtyKillForeground
  BY <1>10, <1>11 DEF TtyKillForeground
<1>12. CASE SetPriority
  BY <1>2, <1>12, PriorityStep DEF SetPriority
<1>13. CASE SignalRegister
  <2>1. /\ Quiet(T, T', current) /\ T'.proc[current].pending = proc[current].pending
        /\ UNCHANGED << current, next_pid, ctl, booted >>
    BY <1>13, RegisterStep DEF SignalRegister
  <2>2. current = idle => proc'[current].pending = {}
    BY <1>1, <2>1 DEF SchedInv, Scheduled, IdleSound
  <2> QED
    BY <1>1, <1>2, <2>1, <2>2, QuietStep
<1>14. CASE SignalMask
  <2>1. /\ Quiet(T, T', current) /\ T'.proc[current].pending = proc[current].pending
        /\ UNCHANGED << current, next_pid, ctl, booted >>
    BY <1>14, MaskStep DEF SignalMask
  <2>2. current = idle => proc'[current].pending = {}
    BY <1>1, <2>1 DEF SchedInv, Scheduled, IdleSound
  <2> QED
    BY <1>1, <1>2, <2>1, <2>2, QuietStep
<1>15. CASE Tick
  BY <1>15, TickStep
<1>16. CASE Yield
  BY <1>16, YieldStep
<1>17. CASE CtrlC
  BY <1>10, <1>17 DEF CtrlC
<1>18. CASE UNCHANGED vars
  <2>1. T' = T /\ UNCHANGED << proc, rq, current, next_pid, ctl, booted >>
    BY <1>18 DEF vars, T
  <2>2. SchedInv'
    BY <2>1 DEF SchedInv
  <2>3. Runs
    BY <1>1, <2>1 DEF Runs, Moves, SameKin
  <2> QED
    BY <1>2, <2>1, <2>2, <2>3
<1> QED
  BY <1>3, <1>4, <1>5, <1>6, <1>7, <1>8, <1>9, <1>11, <1>12, <1>13, <1>14, <1>15, <1>16,
     <1>17, <1>18 DEF Next

\* The invariant says what the scheduler's callers rely on.
LEMMA SoundFromQueues ==
  ASSUME TypeOK, SchedInv
  PROVE  SchedulerSound
<1>1. /\ T \in Table /\ T.proc = proc /\ T.rq = rq /\ current \in Slots /\ idle \in Slots
      /\ NULL \notin Slots
  BY TIs, PointerFacts DEF TypeOK
<1>2. PICK n \in [Priorities -> Nat], at \in [Priorities -> [Nat -> Slots]] :
        /\ InLine(T, n, at)
        /\ \A p \in Slots \ {idle} :
             proc[p].used /\ proc[p].state = "READY" => Lined(n, at, p)
  BY <1>1 DEF SchedInv, Scheduled, Queues
<1>3. Ends(T, n, at) /\ Links(T, n, at) /\ Distinct(n, at) /\ Loose(T, n, at)
  BY <1>2 DEF InLine
<1>4. \A pri \in Priorities, k \in Nat : at[pri][k] \in Slots
  OBVIOUS
\* Whoever is linked to follows its predecessor on a queue.
<1>5. ASSUME NEW q \in Slots, proc[q].rq_next # NULL
      PROVE  \E pri \in Priorities, k \in Nat :
               k + 1 < n[pri] /\ at[pri][k] = q /\ at[pri][k + 1] = proc[q].rq_next
  <2>1. PICK pri \in Priorities, k \in Nat : k < n[pri] /\ at[pri][k] = q
    BY <1>1, <1>3, <1>5 DEF Loose
  <2>2. proc[q].rq_next = IF k + 1 < n[pri] THEN at[pri][k + 1] ELSE NULL
    BY <1>1, <1>3, <2>1 DEF Links
  <2> QED
    BY <1>5, <2>1, <2>2
<1>6. ASSUME NEW pri \in Priorities, rq.head[pri] # NULL
      PROVE  0 < n[pri] /\ rq.head[pri] = at[pri][0]
  BY <1>1, <1>3, <1>6 DEF Ends
\* A slot has one place on one queue.
<1>7. ASSUME NEW pri \in Priorities, NEW pr2 \in Priorities, NEW j \in Nat, NEW k \in Nat,
             j < n[pri], k < n[pr2], at[pri][j] = at[pr2][k]
      PROVE  pri = pr2 /\ j = k
  <2>1. pri = pr2
    BY <1>1, <1>3, <1>7 DEF Links
  <2> QED
    BY <1>3, <1>7, <2>1 DEF Distinct
<1>8. QueueHoldsReady
  <2>1. ASSUME NEW p \in Slots, Enqueued(p) PROVE proc[p].used /\ proc[p].state = "READY"
    <3>1. \E pri \in Priorities, k \in Nat : k < n[pri] /\ at[pri][k] = p
      <4>1. CASE \E pri \in Priorities : rq.head[pri] = p
        BY <1>1, <1>6, <4>1
      <4>2. CASE \E q \in Slots : proc[q].rq_next = p
        <5>1. PICK q \in Slots : proc[q].rq_next = p /\ p # NULL
          BY <1>1, <4>2
        <5>2. PICK pri \in Priorities, k \in Nat : k + 1 < n[pri] /\ at[pri][k + 1] = p
          BY <1>5, <5>1
        <5>3. k + 1 \in Nat
          OBVIOUS
        <5> QED
          BY <5>2, <5>3
      <4> QED
        BY <2>1, <4>1, <4>2 DEF Enqueued
    <3> QED
      BY <1>1, <1>3, <3>1 DEF Links
  <2>2. ASSUME NEW pri \in Priorities, rq.head[pri] # NULL
        PROVE  /\ proc[rq.head[pri]].priority = pri
               /\ \A q \in Slots : proc[q].rq_next # rq.head[pri]
    <3>1. 0 < n[pri] /\ rq.head[pri] = at[pri][0]
      BY <1>6, <2>2
    <3>2. proc[rq.head[pri]].priority = pri
      BY <1>1, <1>3, <3>1 DEF Links
    <3>3. ASSUME NEW q \in Slots, proc[q].rq_next = rq.head[pri] PROVE FALSE
      <4>1. PICK pr2 \in Priorities, k \in Nat :
              k + 1 < n[pr2] /\ at[pr2][k + 1] = rq.head[pri]
        BY <1>5, <2>2, <3>3
      <4>2. k + 1 \in Nat /\ 0 \in Nat /\ k + 1 # 0
        OBVIOUS
      <4> QED
        BY <1>7, <3>1, <4>1, <4>2
    <3> QED
      BY <3>2, <3>3
  <2>3. ASSUME NEW p \in Slots, NEW q \in Slots,
               proc[p].rq_next # NULL, proc[p].rq_next = proc[q].rq_next
        PROVE  p = q
    <3>1. PICK pri \in Priorities, j \in Nat :
            j + 1 < n[pri] /\ at[pri][j] = p /\ at[pri][j + 1] = proc[p].rq_next
      BY <1>5, <2>3
    <3>2. PICK pr2 \in Priorities, k \in Nat :
            k + 1 < n[pr2] /\ at[pr2][k] = q /\ at[pr2][k + 1] = proc[p].rq_next
      BY <1>5, <2>3
    <3>3. j + 1 \in Nat /\ k + 1 \in Nat
      OBVIOUS
    <3>4. pri = pr2 /\ j + 1 = k + 1
      BY <1>7, <3>1, <3>2, <3>3
    <3>5. (j + 1) - 1 = j /\ (k + 1) - 1 = k
      OBVIOUS
    <3> QED
      BY <3>1, <3>2, <3>4, <3>5
  <2> QED
    BY <2>1, <2>2, <2>3 DEF QueueHoldsReady
<1>9. ReadyIsQueued
  <2>1. ASSUME NEW p \in Slots \ {idle}, proc[p].used, proc[p].state = "READY"
        PROVE  p \in OnQueue(T, proc[p].priority)
    <3>1. PICK pri \in Priorities, k \in Nat : k < n[pri] /\ at[pri][k] = p
      BY <1>2, <2>1 DEF Lined
    <3>2. proc[p].priority = pri
      BY <1>1, <1>3, <3>1 DEF Links
    <3> QED
      BY <1>1, <1>2, <3>1, <3>2, OnQueueIs
  <2>2. ASSUME NEW pri \in Priorities
        PROVE  LET w == Walk(T, rq.head[pri])
               IN  /\ w[MaxSlots] = NULL
                   /\ rq.head[pri] = NULL <=> rq.tail[pri] = NULL
                   /\ \A k \in 0..(MaxSlots - 1) :
                        w[k] # NULL /\ w[k + 1] = NULL => w[k] = rq.tail[pri]
    <3>1. Walk(T, rq.head[pri]) = Place(n, at, pri)
      BY <1>1, <1>2, WalkIs
    <3>2. n[pri] \in Nat /\ n[pri] <= MaxSlots /\ MaxSlots \in Nat
      BY <1>1, <1>2, QueueLength, SlotAssumption
    <3> DEFINE w == Place(n, at, pri)
    <3>3. \A k \in 0..MaxSlots : w[k] = IF k < n[pri] THEN at[pri][k] ELSE NULL
      BY DEF Place
    <3> HIDE DEF w
    <3>4. w[MaxSlots] = NULL
      <4>1. MaxSlots \in 0..MaxSlots /\ ~(MaxSlots < n[pri])
        BY <3>2
      <4> QED
        BY <3>3, <4>1
    <3>5. rq.head[pri] = NULL <=> rq.tail[pri] = NULL
      <4>1. n[pri] # 0 => at[pri][0] # NULL /\ at[pri][n[pri] - 1] # NULL
        <5>1. n[pri] # 0 => n[pri] - 1 \in Nat
          BY <3>2
        <5> QED
          BY <1>1, <1>4, <5>1
      <4> QED
        BY <1>1, <1>3, <4>1 DEF Ends
    <3>6. ASSUME NEW k \in 0..(MaxSlots - 1), w[k] # NULL, w[k + 1] = NULL
          PROVE  w[k] = rq.tail[pri]
      <4>1. k \in 0..MaxSlots /\ k + 1 \in 0..MaxSlots /\ k \in Nat /\ k + 1 \in Nat
        BY <3>2
      <4>2. k < n[pri] /\ w[k] = at[pri][k]
        BY <3>3, <3>6, <4>1
      <4>3. ~(k + 1 < n[pri])
        BY <1>1, <1>4, <3>3, <3>6, <4>1
      <4>4. n[pri] # 0 /\ k = n[pri] - 1
        BY <3>2, <4>1, <4>2, <4>3
      <4> QED
        BY <1>1, <1>3, <4>2, <4>4 DEF Ends
    <3> QED
      BY <3>1, <3>4, <3>5, <3>6 DEF w
  <2> QED
    BY <2>1, <2>2 DEF ReadyIsQueued
<1>10. OneRunning /\ CurrentStackLive
  BY <1>1 DEF SchedInv, Scheduled, OneRunning, CurrentStackLive
<1> QED
  BY <1>8, <1>9, <1>10 DEF SchedulerSound, SchedulerConsistent

\* For every table size, set of priorities and interleaving: the run queues
\* hold exactly the READY processes, each once and in its own priority's queue,
\* only the current process is RUNNING, and the CPU never executes on the stack
\* of a slot that was given back, as long as no caller aims SIGKILL at a process
\* that is queued or running, or a signal at idle.
THEOREM SchedulerIsSound ==
  ASSUME CarefulKill
  PROVE  Spec => []SchedulerSound
<1> DEFINE I == TypeOK /\ SchedInv
<1>1. Init => I
  BY TypeInit, SchedInit
<1>2. I /\ [Next]_vars => I'
  BY TypeNext, StepKinds
<1>3. I => SchedulerSound
  BY SoundFromQueues
<1> QED
  BY <1>1, <1>2, <1>3, PTL DEF Spec

---------------------------------------------------------------------------
(* Families. *)

\* Pids are handed out once, a parent is older than its child, and a slot
\* that is not in use has no children.
PidsSound ==
  /\ \A p \in Slots : proc[p].used =>
       1 <= proc[p].pid /\ proc[p].pid < next_pid /\ proc[p].ppid < proc[p].pid
  /\ \A p, q \in Slots :
       proc[p].used /\ proc[q].used /\ proc[p].pid = proc[q].pid => p = q
  /\ \A p \in Slots : ~proc[p].used => proc[p].children = << >>

\* The two halves of FamilyConsistent.
Listed ==
  \A p \in Slots : \A i \in DOMAIN proc[p].children :
    LET c == proc[p].children[i]
    IN  /\ proc[c].used /\ proc[c].ppid = proc[p].pid
        /\ \A q \in Slots : \A j \in DOMAIN proc[q].children :
             proc[q].children[j] = c => q = p /\ i = j

\* A process whose parent exists is on the parent's list.
Found ==
  \A c, p \in Slots :
    proc[c].used /\ proc[p].used /\ proc[c].ppid = proc[p].pid
      => \E i \in DOMAIN proc[p].children : proc[p].children[i] = c

\* What every step keeps of the families.
KinInv == PidsSound /\ Listed /\ Found

\* Pids are numbers and lists hold slots.
LEMMA KinTypes ==
  ASSUME TypeOK
  PROVE  /\ \A p \in Slots : /\ proc[p].pid \in Nat /\ proc[p].ppid \in Nat
                             /\ proc[p].children \in Seq(Slots)
                             /\ \A i \in DOMAIN proc[p].children : proc[p].children[i] \in Slots
         /\ next_pid \in Nat /\ current \in Slots
<1>1. \A p \in Slots : proc[p] \in ProcRecord
  BY PointerFacts, TIs DEF TypeOK
<1>2. \A p \in Slots : /\ proc[p].pid \in Nat /\ proc[p].ppid \in Nat
                       /\ proc[p].children \in Seq(Slots)
  BY <1>1, SlotAssumption DEF ProcRecord
<1>3. \A p \in Slots : \A i \in DOMAIN proc[p].children : proc[p].children[i] \in Slots
  BY <1>2
<1> QED
  BY <1>2, <1>3, SlotAssumption DEF TypeOK

\* process_init makes two processes without children.
LEMMA KinInit == Init => KinInv
<1> SUFFICES ASSUME Init PROVE KinInv
  OBVIOUS
<1>1. /\ \A p \in Slots : /\ proc[p].children = << >> /\ proc[p].ppid = 0
                          /\ proc[p].used <=> p \in {bootstrap, idle}
      /\ proc[bootstrap].pid = 1 /\ proc[idle].pid = 2 /\ next_pid = 3
  BY InitFacts DEF Init
<1>2. PidsSound
  BY <1>1 DEF PidsSound
<1>3. Listed
  BY <1>1 DEF Listed
<1>4. Found
  BY <1>1 DEF Found
<1> QED
  BY <1>2, <1>3, <1>4 DEF KinInv

\* A step that leaves every family alone.
LEMMA KinSame ==
  ASSUME TypeOK, KinInv, next_pid' = next_pid,
         \A q \in Slots : SameKin(proc[q], proc'[q])
  PROVE  KinInv'
<1>1. \A q \in Slots : /\ proc'[q].used = proc[q].used /\ proc'[q].pid = proc[q].pid
                       /\ proc'[q].ppid = proc[q].ppid /\ proc'[q].children = proc[q].children
  BY DEF SameKin
<1>2. \A p \in Slots : \A i \in DOMAIN proc[p].children : proc[p].children[i] \in Slots
  BY KinTypes
<1>3. PidsSound'
  BY <1>1 DEF KinInv, PidsSound
<1>4. Listed'
  BY <1>1, <1>2 DEF KinInv, Listed
<1>5. Found'
  BY <1>1 DEF KinInv, Found
<1> QED
  BY <1>3, <1>4, <1>5 DEF KinInv

\* process_spawn_kernel: the new pid is nobody's, and the slot was on no list.
LEMMA KinBorn ==
  ASSUME TypeOK, KinInv, proc[current].used, NEW p \in Slots, Born(p)
  PROVE  KinInv'
<1>1. /\ \A q \in Slots : /\ proc[q].pid \in Nat /\ proc[q].ppid \in Nat
                          /\ proc[q].children \in Seq(Slots)
                          /\ \A i \in DOMAIN proc[q].children : proc[q].children[i] \in Slots
      /\ next_pid \in Nat /\ current \in Slots
  BY KinTypes
<1>2. /\ PidsSound /\ Listed /\ Found
  BY DEF KinInv
<1>3. /\ ~proc[p].used /\ next_pid' = next_pid + 1
      /\ \A q \in Slots \ {p} :
           /\ proc'[q].used = proc[q].used /\ proc'[q].pid = proc[q].pid
           /\ proc'[q].ppid = proc[q].ppid
           /\ q # current => proc'[q].children = proc[q].children
      /\ proc'[p].children = << >>
  BY DEF Born
<1>4. p # current /\ proc[p].children = << >>
  BY <1>2, <1>3 DEF PidsSound
\* The slot p is on no list.
<1>5. \A q \in Slots : \A i \in DOMAIN proc[q].children : proc[q].children[i] # p
  BY <1>2, <1>3 DEF Listed
<1>6. CASE ~proc'[p].used /\ proc'[current].children = proc[current].children
  <2>1. \A q \in Slots : /\ proc'[q].used <=> proc[q].used
                         /\ proc'[q].children = proc[q].children
    <3> SUFFICES ASSUME NEW q \in Slots
                 PROVE  (proc'[q].used <=> proc[q].used) /\ proc'[q].children = proc[q].children
      OBVIOUS
    <3>1. CASE q = p
      BY <1>3, <1>4, <1>6, <3>1
    <3>2. CASE q # p
      BY <1>3, <1>6, <3>2
    <3> QED
      BY <3>1, <3>2
  <2>2. PidsSound'
    <3>1. \A q \in Slots : proc'[q].used => 
            proc[q].used /\ proc'[q].pid = proc[q].pid /\ proc'[q].ppid = proc[q].ppid
      BY <1>3, <1>6
    <3>2. \A q \in Slots : proc'[q].used =>
            1 <= proc'[q].pid /\ proc'[q].pid < next_pid' /\ proc'[q].ppid < proc'[q].pid
      BY <1>1, <1>2, <1>3, <3>1 DEF PidsSound
    <3>3. \A q, r \in Slots :
            proc'[q].used /\ proc'[r].used /\ proc'[q].pid = proc'[r].pid => q = r
      BY <1>2, <3>1 DEF PidsSound
    <3>4. \A q \in Slots : ~proc'[q].used => proc'[q].children = << >>
      BY <1>2, <2>1 DEF PidsSound
    <3> QED
      BY <3>2, <3>3, <3>4 DEF PidsSound
  <2>3. Listed'
    <3> SUFFICES ASSUME NEW q \in Slots, NEW i \in DOMAIN proc[q].children
                 PROVE  LET c == proc[q].children[i]
                        IN  /\ proc'[c].used /\ proc'[c].ppid = proc'[q].pid
                            /\ \A r \in Slots : \A j \in DOMAIN proc[r].children :
                                 proc[r].children[j] = c => r = q /\ i = j
      BY <2>1 DEF Listed
    <3>1. proc[q].children[i] \in Slots /\ proc[q].children[i] # p /\ q # p
      BY <1>1, <1>4, <1>5
    <3> QED
      BY <1>2, <1>3, <3>1 DEF Listed
  <2>4. Found'
    BY <1>2, <1>3, <1>6, <2>1 DEF Found
  <2> QED
    BY <2>2, <2>3, <2>4 DEF KinInv
<1>7. CASE /\ proc'[p].used /\ proc'[p].pid = next_pid
           /\ proc'[p].ppid = proc[current].pid
           /\ proc'[current].children = << p >> \o proc[current].children
  <2> DEFINE K == proc[current].children
             L == proc'[current].children
  <2>1. /\ DOMAIN L = 1..(Len(K) + 1) /\ L[1] = p
        /\ \A i \in DOMAIN L : i # 1 => i - 1 \in DOMAIN K /\ L[i] = K[i - 1]
        /\ \A i \in DOMAIN K : i + 1 \in DOMAIN L /\ L[i + 1] = K[i]
        /\ \A i \in DOMAIN K : i \in Nat
    <3>1. K \in Seq(Slots) /\ L = << p >> \o K
      BY <1>1, <1>7
    <3> HIDE DEF K, L
    <3> QED
      BY <3>1
  <2>2. PidsSound'
    <3>1. ASSUME NEW q \in Slots, proc'[q].used
          PROVE  1 <= proc'[q].pid /\ proc'[q].pid < next_pid' /\ proc'[q].ppid < proc'[q].pid
      BY SMTT(30), <1>1, <1>2, <1>3, <1>7, <3>1 DEF PidsSound
    <3>2. ASSUME NEW q \in Slots, NEW r \in Slots,
                 proc'[q].used, proc'[r].used, proc'[q].pid = proc'[r].pid
          PROVE  q = r
      <4>1. \A s \in Slots \ {p} : proc'[s].used =>
              proc[s].used /\ proc'[s].pid = proc[s].pid /\ proc[s].pid < next_pid
        BY <1>2, <1>3 DEF PidsSound
      <4>2. CASE q = p \/ r = p
        BY <1>1, <1>7, <3>2, <4>1, <4>2
      <4>3. CASE q # p /\ r # p
        BY <1>2, <3>2, <4>1, <4>3 DEF PidsSound
      <4> QED
        BY <4>2, <4>3
    <3>3. ASSUME NEW q \in Slots, ~proc'[q].used PROVE proc'[q].children = << >>
      BY <1>2, <1>3, <1>7, <3>3 DEF PidsSound
    <3> QED
      BY <3>1, <3>2, <3>3 DEF PidsSound
  \* Where a child stands on the new lists.
  <2>3. ASSUME NEW q \in Slots, NEW i \in DOMAIN proc'[q].children
        PROVE  \/ q = current /\ i = 1 /\ proc'[q].children[i] = p
               \/ /\ q = current /\ i # 1 /\ i - 1 \in DOMAIN K
                  /\ proc'[q].children[i] = K[i - 1]
               \/ /\ q \notin {current, p} /\ i \in DOMAIN proc[q].children
                  /\ proc'[q].children[i] = proc[q].children[i]
    BY SMTT(30), <1>3, <2>1, <2>3
  <2>4. Listed'
    <3> SUFFICES ASSUME NEW q \in Slots, NEW i \in DOMAIN proc'[q].children
                 PROVE  LET c == proc'[q].children[i]
                        IN  /\ proc'[c].used /\ proc'[c].ppid = proc'[q].pid
                            /\ \A r \in Slots : \A j \in DOMAIN proc'[r].children :
                                 proc'[r].children[j] = c => r = q /\ i = j
      BY DEF Listed
    <3>1. CASE q = current /\ i = 1 /\ proc'[q].children[i] = p
      <4>1. proc'[p].used /\ proc'[p].ppid = proc'[current].pid
        BY <1>1, <1>3, <1>4, <1>7
      <4>2. ASSUME NEW r \in Slots, NEW j \in DOMAIN proc'[r].children,
                   proc'[r].children[j] = p
            PROVE  r = q /\ i = j
        BY <1>1, <1>5, <2>3, <3>1, <4>2
      <4> QED
        BY <3>1, <4>1, <4>2
    <3>2. ASSUME NEW k, k \in DOMAIN proc[q].children, q # p,
                 proc'[q].children[i] = proc[q].children[k],
                 q = current => k = i - 1 /\ i # 1 /\ i \in Nat, q # current => k = i
          PROVE  LET c == proc'[q].children[i]
                        IN  /\ proc'[c].used /\ proc'[c].ppid = proc'[q].pid
                            /\ \A r \in Slots : \A j \in DOMAIN proc'[r].children :
                                 proc'[r].children[j] = c => r = q /\ i = j
      <4> DEFINE c == proc[q].children[k]
      <4>1. c \in Slots /\ c # p
        BY <1>1, <1>5, <3>2
      <4>2. /\ proc[c].used /\ proc[c].ppid = proc[q].pid
            /\ \A r \in Slots : \A j \in DOMAIN proc[r].children :
                 proc[r].children[j] = c => r = q /\ k = j
        BY <1>2, <3>2 DEF Listed
      <4> HIDE DEF c
      <4>3. proc'[c].used /\ proc'[c].ppid = proc'[q].pid
        BY <1>3, <3>2, <4>1, <4>2
      <4>4. ASSUME NEW r \in Slots, NEW j \in DOMAIN proc'[r].children,
                   proc'[r].children[j] = c
            PROVE  r = q /\ i = j
        <5>1. CASE r = current /\ j # 1 /\ j - 1 \in DOMAIN K /\ proc'[r].children[j] = K[j - 1]
          <6>1. r = q /\ k = j - 1
            BY <1>1, <4>2, <4>4, <5>1
          <6>2. j \in Nat /\ i \in Nat /\ i - 1 = j - 1
            BY <2>1, <3>2, <5>1, <6>1
          <6> QED
            BY <6>1, <6>2
        <5>2. CASE /\ r \notin {current, p} /\ j \in DOMAIN proc[r].children
                   /\ proc'[r].children[j] = proc[r].children[j]
          BY <3>2, <4>2, <4>4, <5>2
        <5> QED
          BY <2>3, <4>1, <4>4, <5>1, <5>2
      <4> QED
        BY <3>2, <4>3, <4>4 DEF c
    <3>3. CASE /\ q = current /\ i # 1 /\ i - 1 \in DOMAIN K
               /\ proc'[q].children[i] = K[i - 1]
      <4>1. i \in Nat
        BY <2>1, <3>3
      <4> QED
        BY <1>4, <3>2, <3>3, <4>1
    <3>4. CASE /\ q \notin {current, p} /\ i \in DOMAIN proc[q].children
               /\ proc'[q].children[i] = proc[q].children[i]
      BY <3>2, <3>4
    <3> QED
      BY <2>3, <3>1, <3>3, <3>4
  <2>5. Found'
    <3> SUFFICES ASSUME NEW c \in Slots, NEW q \in Slots, proc'[c].used, proc'[q].used,
                        proc'[c].ppid = proc'[q].pid
                 PROVE  \E i \in DOMAIN proc'[q].children : proc'[q].children[i] = c
      BY DEF Found
    <3>1. CASE c = p
      <4>1. q = current
        BY <1>1, <1>2, <1>3, <1>7, <3>1 DEF PidsSound
      <4>2. 1 \in DOMAIN L
        BY <1>1, <2>1
      <4> QED
        BY <2>1, <3>1, <4>1, <4>2
    <3>2. CASE c # p
      <4>1. q # p
        BY <1>1, <1>2, <1>3, <1>7, <3>2 DEF PidsSound
      <4>2. PICK i \in DOMAIN proc[q].children : proc[q].children[i] = c
        BY <1>2, <1>3, <3>2, <4>1 DEF Found
      <4> QED
        BY <1>3, <2>1, <4>1, <4>2
    <3> QED
      BY <3>1, <3>2
  <2> QED
    BY <2>2, <2>4, <2>5 DEF KinInv
<1> QED
  BY <1>6, <1>7 DEF Born

\* waitpid: the child had one place on one list, and that place goes.
LEMMA KinReaped ==
  ASSUME TypeOK, KinInv, NEW f \in DOMAIN proc[current].children, Reaped(f)
  PROVE  KinInv'
<1> DEFINE K == proc[current].children
           L == proc'[current].children
           c == K[f]
<1>1. /\ \A q \in Slots : /\ proc[q].pid \in Nat /\ proc[q].ppid \in Nat
                          /\ proc[q].children \in Seq(Slots)
                          /\ \A i \in DOMAIN proc[q].children : proc[q].children[i] \in Slots
      /\ next_pid \in Nat /\ current \in Slots
  BY KinTypes
<1>2. PidsSound /\ Listed /\ Found
  BY DEF KinInv
<1>3. /\ next_pid' = next_pid /\ c # current
      /\ \A q \in Slots \ {c} :
           /\ proc'[q].used = proc[q].used /\ proc'[q].pid = proc[q].pid
           /\ proc'[q].ppid = proc[q].ppid
           /\ q # current => proc'[q].children = proc[q].children
      /\ ~proc'[c].used /\ proc'[c].children = << >>
      /\ L = Without(K, f)
  BY DEF Reaped
<1>4. c \in Slots
  BY <1>1
<1>5. /\ DOMAIN L = 1..(Len(K) - 1)
      /\ \A i \in DOMAIN L : /\ i \in Nat /\ i \in DOMAIN K /\ i + 1 \in DOMAIN K
                             /\ L[i] = IF i < f THEN K[i] ELSE K[i + 1]
      /\ \A i \in DOMAIN K : /\ i \in Nat /\ f \in Nat
                             /\ i < f => i \in DOMAIN L /\ L[i] = K[i]
                             /\ f < i => i - 1 \in DOMAIN L /\ L[i - 1] = K[i]
  <2>1. K \in Seq(Slots) /\ L = Without(K, f) /\ f \in 1..Len(K) /\ Len(K) \in Nat
    BY <1>1, <1>3
  <2> HIDE DEF K, L
  <2>2. DOMAIN L = 1..(Len(K) - 1) /\ DOMAIN K = 1..Len(K)
    BY <2>1 DEF Without
  <2>3. \A i \in DOMAIN L : L[i] = IF i < f THEN K[i] ELSE K[i + 1]
    BY <2>1 DEF Without
  <2>4. \A i \in DOMAIN L : i \in Nat /\ i \in DOMAIN K /\ i + 1 \in DOMAIN K
    BY <2>1, <2>2
  <2>5. ASSUME NEW i \in DOMAIN K, i < f PROVE i \in DOMAIN L /\ L[i] = K[i]
    <3>1. i \in DOMAIN L
      BY <2>1, <2>2, <2>5
    <3> QED
      BY <2>3, <2>5, <3>1
  <2>6. ASSUME NEW i \in DOMAIN K, f < i PROVE i - 1 \in DOMAIN L /\ L[i - 1] = K[i]
    <3>1. i - 1 \in DOMAIN L /\ ~(i - 1 < f) /\ (i - 1) + 1 = i
      BY <2>1, <2>2, <2>6
    <3> QED
      BY <2>3, <3>1
  <2> QED
    BY <2>1, <2>2, <2>3, <2>4, <2>5, <2>6
<1> HIDE DEF c
<1>6. \A q \in Slots \ {c} : proc'[q].used =>
        proc[q].used /\ proc'[q].pid = proc[q].pid /\ proc'[q].ppid = proc[q].ppid
  BY <1>3
<1>7. PidsSound'
  <2>1. \A q \in Slots : proc'[q].used =>
          1 <= proc'[q].pid /\ proc'[q].pid < next_pid' /\ proc'[q].ppid < proc'[q].pid
    BY <1>1, <1>2, <1>3, <1>6 DEF PidsSound
  <2>2. \A q, r \in Slots :
          proc'[q].used /\ proc'[r].used /\ proc'[q].pid = proc'[r].pid => q = r
    BY <1>2, <1>3, <1>6 DEF PidsSound
  <2>3. ASSUME NEW q \in Slots, ~proc'[q].used PROVE proc'[q].children = << >>
    <3>1. CASE q = c
      BY <1>3, <3>1
    <3>2. CASE q \notin {c, current}
      BY <1>2, <1>3, <2>3, <3>2 DEF PidsSound
    <3>3. CASE q = current
      <4>1. ~proc[current].used
        BY <1>1, <1>3, <2>3, <3>3
      <4>2. K = << >>
        BY <1>1, <1>2, <4>1 DEF PidsSound
      <4> QED
        BY <4>2
    <3> QED
      BY <3>1, <3>2, <3>3
  <2> QED
    BY <2>1, <2>2, <2>3 DEF PidsSound
\* Where a child that is left stood before.
<1>8. ASSUME NEW q \in Slots, NEW i \in DOMAIN proc'[q].children
      PROVE  /\ q # c
             /\ \E k \in DOMAIN proc[q].children :
                  /\ proc'[q].children[i] = proc[q].children[k]
                  /\ proc[q].children[k] # c
                  /\ k = IF q = current /\ ~(i < f) THEN i + 1 ELSE i
                  /\ q = current => i \in Nat /\ k # f
  <2>1. q # c
    BY <1>3, <1>8
  <2>2. CASE q = current
    <3> DEFINE k == IF i < f THEN i ELSE i + 1
    <3>1. /\ i \in DOMAIN L /\ i \in Nat /\ f \in Nat /\ k \in DOMAIN K /\ L[i] = K[k]
      BY <1>5, <1>8, <2>2
    <3>2. k # f
      BY <3>1
    <3>3. K[k] # c
      BY <1>1, <1>2, <3>1, <3>2 DEF Listed, c
    <3> QED
      BY <2>1, <2>2, <3>1, <3>2, <3>3
  <2>3. CASE q # current
    <3>1. proc'[q].children = proc[q].children
      BY <1>3, <2>1, <2>3
    <3>2. proc[q].children[i] # c
      BY <1>1, <1>2, <1>8, <2>3, <3>1 DEF Listed, c
    <3> QED
      BY <1>8, <2>1, <2>3, <3>1, <3>2
  <2> QED
    BY <2>2, <2>3
<1>9. Listed'
  <2> SUFFICES ASSUME NEW q \in Slots, NEW i \in DOMAIN proc'[q].children
               PROVE  LET d == proc'[q].children[i]
                      IN  /\ proc'[d].used /\ proc'[d].ppid = proc'[q].pid
                          /\ \A r \in Slots : \A j \in DOMAIN proc'[r].children :
                               proc'[r].children[j] = d => r = q /\ i = j
    BY DEF Listed
  <2> DEFINE d == proc'[q].children[i]
  <2>1. PICK k \in DOMAIN proc[q].children :
          /\ d = proc[q].children[k] /\ d # c /\ q # c
          /\ k = IF q = current /\ ~(i < f) THEN i + 1 ELSE i
          /\ q = current => i \in Nat /\ k # f
    BY <1>8
  <2>2. /\ d \in Slots /\ proc[d].used /\ proc[d].ppid = proc[q].pid
        /\ \A r \in Slots : \A j \in DOMAIN proc[r].children :
             proc[r].children[j] = d => r = q /\ k = j
    BY <1>1, <1>2, <2>1 DEF Listed
  <2> HIDE DEF d
  <2>3. proc'[d].used /\ proc'[d].ppid = proc'[q].pid
    BY <1>3, <2>1, <2>2
  <2>4. ASSUME NEW r \in Slots, NEW j \in DOMAIN proc'[r].children, proc'[r].children[j] = d
        PROVE  r = q /\ i = j
    <3>1. PICK m \in DOMAIN proc[r].children :
            /\ d = proc[r].children[m]
            /\ m = IF r = current /\ ~(j < f) THEN j + 1 ELSE j
            /\ r = current => j \in Nat /\ m # f
      BY <1>8, <2>4
    <3>2. r = q /\ k = m
      BY <2>2, <3>1
    <3>3. CASE q = current
      <4>1. i \in Nat /\ j \in Nat /\ f \in Nat
        BY <1>5, <2>1, <3>1, <3>2, <3>3
      <4>2. /\ k = IF ~(i < f) THEN i + 1 ELSE i
            /\ k = IF ~(j < f) THEN j + 1 ELSE j
        BY <2>1, <3>1, <3>2, <3>3
      <4>3. i = j
        BY <4>1, <4>2
      <4> QED
        BY <3>2, <4>3
    <3>4. CASE q # current
      BY <2>1, <3>1, <3>2, <3>4
    <3> QED
      BY <3>3, <3>4
  <2> QED
    BY <2>3, <2>4 DEF d
<1>10. Found'
  <2> SUFFICES ASSUME NEW d \in Slots, NEW q \in Slots, proc'[d].used, proc'[q].used,
                      proc'[d].ppid = proc'[q].pid
               PROVE  \E i \in DOMAIN proc'[q].children : proc'[q].children[i] = d
    BY DEF Found
  <2>1. d # c /\ q # c
    BY <1>3
  <2>2. PICK i \in DOMAIN proc[q].children : proc[q].children[i] = d
    BY <1>2, <1>6, <2>1 DEF Found
  <2>3. CASE q # current
    BY <1>3, <2>1, <2>2, <2>3
  <2>4. CASE q = current
    <3>1. i # f /\ i \in Nat /\ f \in Nat
      BY <1>5, <2>1, <2>2, <2>4 DEF c
    <3>2. i < f \/ f < i
      BY <3>1
    <3> QED
      BY <1>5, <2>2, <2>4, <3>2
  <2> QED
    BY <2>3, <2>4
<1> QED
  BY <1>7, <1>9, <1>10 DEF KinInv

\* Every step keeps the families.
LEMMA KinNext ==
  ASSUME CarefulKill, TypeOK, SchedInv, KinInv, [Next]_vars
  PROVE  KinInv'
<1>1. proc[current].used
  BY TIs DEF SchedInv, Scheduled
<1>2. CASE Runs
  <2>1. next_pid' = next_pid /\ \A q \in Slots : SameKin(proc[q], proc'[q])
    BY <1>2, TIs DEF Runs, Moves
  <2> QED
    BY <2>1, KinSame
<1>3. CASE \E p \in Slots : Born(p)
  BY <1>1, <1>3, KinBorn
<1>4. CASE \E i \in DOMAIN proc[current].children : Reaped(i)
  BY <1>4, KinReaped
<1>5. CASE \E target \in Targets : Sleeps(target)
  <2>1. next_pid' = next_pid /\ \A q \in Slots : SameKin(proc[q], proc'[q])
    BY <1>5 DEF Sleeps
  <2> QED
    BY <2>1, KinSame
<1> QED
  BY <1>2, <1>3, <1>4, <1>5, StepKinds

\* The two records of a family agree after any number of spawns, exits, kills
\* and reaps: what a parent lists is its live child, listed once, and every
\* child whose parent exists can be reaped by it.
THEOREM FamiliesAgree ==
  ASSUME CarefulKill
  PROVE  Spec => []FamilyConsistent
<1> DEFINE I == TypeOK /\ SchedInv /\ KinInv
<1>1. Init => I
  BY TypeInit, SchedInit, KinInit
<1>2. I /\ [Next]_vars => I'
  BY TypeNext, StepKinds, KinNext
<1>3. I => FamilyConsistent
  BY DEF KinInv, Listed, Found, FamilyConsistent
<1> QED
  BY <1>1, <1>2, <1>3, PTL DEF Spec

---------------------------------------------------------------------------
(* Waking up. *)

\* NoLostWakeup, child by child.
Awaited(p) ==
  proc[p].used /\ proc[p].state = "BLOCKED" /\ ctl[p].at \in {"wait", "retry"} =>
    /\ \E i \in DOMAIN proc[p].children :
         wait_match_child(T, proc[p].children[i], ctl[p].target)
    /\ \A i \in DOMAIN proc[p].children :
         wait_match_child(T, proc[p].children[i], ctl[p].target)
           => proc[proc[p].children[i]].state # "ZOMBIE"

\* The two forms are the same.
LEMMA AwaitedIs == NoLostWakeup <=> \A p \in Slots : Awaited(p)
BY Zenon DEF NoLostWakeup, Awaited

\* Nobody is in waitpid at first.
LEMMA AwaitedInit == Init => \A p \in Slots : Awaited(p)
<1> SUFFICES ASSUME Init, NEW p \in Slots PROVE Awaited(p)
  OBVIOUS
<1>1. ctl[p].at \notin {"wait", "retry"}
  BY DEF Init, Running
<1> QED
  BY <1>1 DEF Awaited

\* Every step keeps it: a death tells the one parent that has the pid, a
\* spawn and a reap happen in the running process, and waitpid looks for the
\* dead before it blocks.
LEMMA AwaitedNext ==
  ASSUME CarefulKill, TypeOK, SchedInv, KinInv, \A p \in Slots : Awaited(p), [Next]_vars
  PROVE  \A p \in Slots : Awaited(p)'
<1> SUFFICES ASSUME NEW p \in Slots,
                    proc'[p].used, proc'[p].state = "BLOCKED", ctl'[p].at \in {"wait", "retry"}
             PROVE  /\ \E i \in DOMAIN proc'[p].children :
                         wait_match_child(T', proc'[p].children[i], ctl'[p].target)
                    /\ \A i \in DOMAIN proc'[p].children :
                         wait_match_child(T', proc'[p].children[i], ctl'[p].target)
                           => proc'[proc'[p].children[i]].state # "ZOMBIE"
  BY DEF Awaited
<1>1. /\ \A q \in Slots : /\ proc[q].pid \in Nat
                          /\ \A i \in DOMAIN proc[q].children : proc[q].children[i] \in Slots
      /\ current \in Slots /\ T.proc = proc /\ T'.proc = proc'
      /\ ctl \in [Slots -> Controls]
  BY KinTypes, TIs DEF TypeOK
<1>2. PidsSound /\ Listed
  BY DEF KinInv
\* Nothing to show where p's wait, its children and their ends are as before.
<1>3. ASSUME proc[p].used, proc[p].state = "BLOCKED", ctl[p].at \in {"wait", "retry"},
             ctl'[p].target = ctl[p].target, proc'[p].children = proc[p].children,
             \A i \in DOMAIN proc[p].children :
               LET c == proc[p].children[i]
               IN  /\ proc'[c].pid = proc[c].pid
                   /\ proc'[c].state = "ZOMBIE" => proc[c].state = "ZOMBIE"
      PROVE  /\ \E i \in DOMAIN proc'[p].children :
                  wait_match_child(T', proc'[p].children[i], ctl'[p].target)
             /\ \A i \in DOMAIN proc'[p].children :
                  wait_match_child(T', proc'[p].children[i], ctl'[p].target)
                    => proc'[proc'[p].children[i]].state # "ZOMBIE"
  <2>1. Awaited(p)
    OBVIOUS
  <2>2. \A i \in DOMAIN proc[p].children :
          wait_match_child(T', proc[p].children[i], ctl'[p].target)
            <=> wait_match_child(T, proc[p].children[i], ctl[p].target)
    BY <1>1, <1>3 DEF wait_match_child
  <2> QED
    BY <1>3, <2>1, <2>2 DEF Awaited
<1>4. CASE Runs
  <2>1. /\ Moves(T, T') /\ ctl[p].at \in {"wait", "retry"} /\ ctl'[p].target = ctl[p].target
    BY <1>4 DEF Runs
  <2>2. \A q \in Slots : SameKin(proc[q], proc'[q])
    BY <1>1, <2>1 DEF Moves
  <2>3. proc[p].state = "BLOCKED" /\ proc[p].used
    BY <1>1, <2>1, <2>2 DEF Moves, SameKin
  <2>4. ASSUME NEW i \in DOMAIN proc[p].children,
               proc'[proc[p].children[i]].state = "ZOMBIE"
        PROVE  proc[proc[p].children[i]].state = "ZOMBIE"
    <3> DEFINE c == proc[p].children[i]
    <3>1. c \in Slots /\ proc[c].ppid = proc[p].pid
      BY <1>1, <1>2 DEF Listed
    <3>2. /\ \A r \in Slots : proc[r].used /\ proc[r].pid = proc[p].pid => r = p
          /\ proc[c].ppid # 0
      BY <1>1, <1>2, <2>3, <3>1 DEF PidsSound
    <3> HIDE DEF c
    <3>3. CASE proc[c].state # "ZOMBIE"
      <4>1. Told(T, T', c)
        BY <1>1, <2>1, <2>4, <3>1, <3>3 DEF Moves, c
      <4> QED
        BY <1>1, <2>3, <3>1, <3>2, <4>1 DEF Told
    <3> QED
      BY <3>3 DEF c
  <2> QED
    BY <1>1, <1>3, <2>1, <2>2, <2>3, <2>4 DEF SameKin
<1>5. ASSUME NEW b \in Slots, Born(b)
      PROVE  /\ \E i \in DOMAIN proc'[p].children :
                  wait_match_child(T', proc'[p].children[i], ctl'[p].target)
             /\ \A i \in DOMAIN proc'[p].children :
                  wait_match_child(T', proc'[p].children[i], ctl'[p].target)
                    => proc'[proc'[p].children[i]].state # "ZOMBIE"
  <2>1. p # b
    BY <1>5 DEF Born
  <2>2. p # current
    BY <1>5, <2>1 DEF Born
  <2>3. \A i \in DOMAIN proc[p].children : proc[p].children[i] # b
    BY <1>2, <1>5 DEF Listed, Born
  <2>4. /\ proc[p].used /\ proc[p].state = "BLOCKED" /\ ctl'[p] = ctl[p]
        /\ proc'[p].children = proc[p].children
    BY <1>5, <2>1, <2>2 DEF Born
  <2>5. \A q \in Slots \ {b} : proc'[q].pid = proc[q].pid /\ proc'[q].state = proc[q].state
    BY <1>5 DEF Born
  <2> QED
    BY <1>1, <1>3, <2>3, <2>4, <2>5
<1>6. ASSUME NEW f \in DOMAIN proc[current].children, Reaped(f)
      PROVE  /\ \E i \in DOMAIN proc'[p].children :
                  wait_match_child(T', proc'[p].children[i], ctl'[p].target)
             /\ \A i \in DOMAIN proc'[p].children :
                  wait_match_child(T', proc'[p].children[i], ctl'[p].target)
                    => proc'[proc'[p].children[i]].state # "ZOMBIE"
  <2> DEFINE c == proc[current].children[f]
  <2>1. /\ p # c
        /\ ctl' = [ctl EXCEPT ![current] = Running("run")]
        /\ \A q \in Slots \ {c} :
             /\ proc'[q].used = proc[q].used /\ proc'[q].pid = proc[q].pid
             /\ proc'[q].state = proc[q].state
             /\ q # current => proc'[q].children = proc[q].children
    BY <1>6 DEF Reaped
  <2>2. p # current
    BY <1>1, <2>1 DEF Running
  <2>3. \A i \in DOMAIN proc[p].children : proc[p].children[i] # c
    BY <1>1, <1>2, <2>2 DEF Listed
  <2> HIDE DEF c
  <2>4. /\ proc[p].used /\ proc[p].state = "BLOCKED" /\ ctl'[p] = ctl[p]
        /\ proc'[p].children = proc[p].children
    BY <1>1, <2>1, <2>2
  <2> QED
    BY <1>1, <1>3, <2>1, <2>3, <2>4
<1>7. ASSUME NEW target \in Targets, Sleeps(target)
      PROVE  /\ \E i \in DOMAIN proc'[p].children :
                  wait_match_child(T', proc'[p].children[i], ctl'[p].target)
             /\ \A i \in DOMAIN proc'[p].children :
                  wait_match_child(T', proc'[p].children[i], ctl'[p].target)
                    => proc'[proc'[p].children[i]].state # "ZOMBIE"
  <2>1. /\ proc[current].state = "RUNNING"
        /\ \A q \in Slots :
             /\ SameKin(proc[q], proc'[q])
             /\ q # current => proc'[q].state = proc[q].state
        /\ proc'[current].state = "BLOCKED"
        /\ ctl' = [ctl EXCEPT ![current] = [at |-> "wait", target |-> target]]
    BY <1>7 DEF Sleeps
  <2>2. \A q \in Slots : /\ proc'[q].pid = proc[q].pid /\ proc'[q].used = proc[q].used
                         /\ proc'[q].children = proc[q].children
                         /\ proc'[q].state = "ZOMBIE" => proc[q].state = "ZOMBIE"
    BY <2>1 DEF SameKin
  <2>3. CASE p # current
    <3>1. ctl'[p] = ctl[p] /\ proc[p].state = "BLOCKED" /\ proc[p].used
      BY <1>1, <2>1, <2>2, <2>3
    <3> QED
      BY <1>1, <1>3, <2>2, <3>1
  <2>4. CASE p = current
    <3>1. /\ \E i \in DOMAIN proc[p].children :
               wait_match_child(T, proc[p].children[i], target)
          /\ \A i \in DOMAIN proc[p].children :
               wait_match_child(T, proc[p].children[i], target)
                 => proc[proc[p].children[i]].state # "ZOMBIE"
      BY <1>7, <2>4 DEF Sleeps
    <3>2. ctl'[p].target = target
      BY <1>1, <2>1, <2>4
    <3>3. \A i \in DOMAIN proc[p].children :
            wait_match_child(T', proc[p].children[i], target)
              <=> wait_match_child(T, proc[p].children[i], target)
      BY <1>1, <2>2 DEF wait_match_child
    <3> QED
      BY <1>1, <2>2, <3>1, <3>2, <3>3
  <2> QED
    BY <2>3, <2>4
<1> QED
  BY <1>4, <1>5, <1>6, <1>7, StepKinds

\* No wake-up is lost, wherever exits, kills and ticks fall between waitpid's
\* decision to block and its leaving the CPU: a process BLOCKED in waitpid has a
\* matching child, and none of its matching children is a zombie.
THEOREM NoWakeupIsLost ==
  ASSUME CarefulKill
  PROVE  Spec => []NoLostWakeup
<1> DEFINE A == \A p \in Slots : Awaited(p)
           I == TypeOK /\ SchedInv /\ KinInv /\ A
<1>1. Init => I
  BY TypeInit, SchedInit, KinInit, AwaitedInit
<1>2. I /\ [Next]_vars => I'
  BY TypeNext, StepKinds, KinNext, AwaitedNext
<1>3. I => NoLostWakeup
  BY AwaitedIs
<1> QED
  BY <1>1, <1>2, <1>3, PTL DEF Spec

---------------------------------------------------------------------------
(* What a step may never do. *)

\* Whenever a tick or a yield gives the CPU to another process, no READY
\* process has a better priority.
THEOREM BestAlwaysFirst ==
  ASSUME CarefulKill
  PROVE  Spec => BestRunsFirst
<1> DEFINE I == TypeOK /\ SchedInv
<1>1. Init => I
  BY TypeInit, SchedInit
<1>2. I /\ [Next]_vars => I'
  BY TypeNext, StepKinds
<1>3. I /\ [Next]_vars =>
        [current' # current =>
           \A q \in Slots \ {idle} :
             proc'[q].used /\ proc'[q].state = "READY" =>
               proc'[current'].priority <= proc'[q].priority]_vars
  BY StepKinds DEF BestFirst
<1> QED
  BY <1>1, <1>2, <1>3, PTL DEF Spec, BestRunsFirst

\* u leaves every zombie of t one, with the status it had.
Interred(t, u) ==
  \A q \in Slots : t.proc[q].state = "ZOMBIE" =>
    u.proc[q].state = "ZOMBIE" /\ u.proc[q].wait_status = t.proc[q].wait_status

\* Signals and deaths leave the dead alone, whoever they hit.
LEMMA HitInters ==
  ASSUME NEW t, NEW u, NEW p \in Slots, Hit(t, u, p)
  PROVE  Interred(t, u)
BY DEF Hit, Affects, Interred

\* Dispatch changes one process, which it makes RUNNING.
LEMMA DispatchAny ==
  ASSUME NEW t \in Table
  PROVE  LET u == Dispatch(t)
             c == Chosen(t)
         IN  /\ u.proc[c].state = "RUNNING" /\ u.proc[c].wait_status = t.proc[c].wait_status
             /\ Aside(t, u, c)
<1> DEFINE v == runq_pop_locked(t)
           c == Chosen(t)
<1>1. v \in Table /\ c \in Slots
  BY PopType
<1>2. SameLives(t, v)
  <2>1. CASE Waiting(t) = {}
    BY <2>1 DEF runq_pop_locked, SameLives, SameLife
  <2>2. CASE Waiting(t) # {}
    BY <2>2, PopFacts DEF Popped
  <2> QED
    BY <2>1, <2>2
<1> HIDE DEF v, c
<1>3. StateSet(v, SetState(v, c, "RUNNING"), c, "RUNNING")
  BY <1>1, SetStateFacts DEF States
<1>4. Dispatch(t) = SetState(v, c, "RUNNING")
  BY DEF Dispatch, v, c
<1> QED
  BY <1>1, <1>2, <1>3, <1>4 DEF StateSet, Touch, Aside, SameLives, SameLife, c

\* What a tick does to the dead: nothing, or it dispatches one.
LEMMA TickDead ==
  ASSUME NEW t \in Table, current \in Slots, process_schedule_tick(t),
         NEW q \in Slots, t.proc[q].state = "ZOMBIE"
  PROVE  /\ proc'[q].wait_status = t.proc[q].wait_status
         /\ proc'[q].state = "ZOMBIE" \/ (proc'[q].state = "RUNNING" /\ current' = q)
<1> DEFINE c == Charged(t, current)
           d == Preempted(c, current)
<1>1. c \in Table /\ Interred(t, c)
  <2>1. Hit(t, c, current)
    BY ChargedFacts
  <2> HIDE DEF c
  <2> QED
    BY <2>1, HitInters DEF Hit, Affects
<1>2. d \in Table /\ Interred(c, d)
  <2> HIDE DEF c
  <2>1. /\ Affects(c, d, current)
        /\ c.proc[current].state # "RUNNING" => d = c
    BY <1>1, PreemptedFacts
  <2> HIDE DEF d
  <2>2. CASE c.proc[current].state = "RUNNING"
    BY <2>1, <2>2 DEF Affects, Interred
  <2>3. CASE c.proc[current].state # "RUNNING"
    BY <1>1, <2>1, <2>3 DEF Interred
  <2> QED
    BY <2>2, <2>3
<1>3. /\ Dispatch(d).proc[Chosen(d)].state = "RUNNING"
      /\ Dispatch(d).proc[Chosen(d)].wait_status = d.proc[Chosen(d)].wait_status
      /\ Aside(d, Dispatch(d), Chosen(d))
  <2> HIDE DEF d
  <2> QED BY <1>2, DispatchAny
<1>4. \/ SetTable(c) /\ UNCHANGED current
      \/ SetTable(Dispatch(d)) /\ current' = Chosen(d)
  BY DEF process_schedule_tick, Switch
<1> HIDE DEF c, d
<1>5. d.proc[q].state = "ZOMBIE" /\ d.proc[q].wait_status = t.proc[q].wait_status
      /\ c.proc[q].state = "ZOMBIE" /\ c.proc[q].wait_status = t.proc[q].wait_status
  BY <1>1, <1>2 DEF Interred
<1>6. CASE SetTable(c)
  BY <1>5, <1>6 DEF SetTable
<1>7. CASE SetTable(Dispatch(d)) /\ current' = Chosen(d)
  <2>1. CASE q = Chosen(d)
    BY <1>3, <1>5, <1>7, <2>1 DEF SetTable
  <2>2. CASE q # Chosen(d)
    BY <1>3, <1>5, <1>7, <2>2 DEF SetTable, Aside
  <2> QED
    BY <2>1, <2>2
<1> QED
  BY <1>4, <1>6, <1>7

\* What one iteration of waitpid does to the dead: it frees the slot of one, or
\* puts the caller to sleep.
LEMMA WaitDead ==
  ASSUME TypeOK, NEW target \in Targets, NEW nohang, WaitIteration(target, nohang),
         NEW q \in Slots, proc[q].state = "ZOMBIE"
  PROVE  /\ proc'[q].wait_status = proc[q].wait_status
         /\ \/ proc'[q].state = "ZOMBIE"
            \/ proc'[q].state = "DEAD" /\ ~proc'[q].used
            \/ proc'[q].state = "BLOCKED" /\ current = q
<1> DEFINE kids    == proc[current].children
           matches == {i \in DOMAIN kids : wait_match_child(T, kids[i], target)}
           dead    == {i \in matches : proc[kids[i]].state = "ZOMBIE"}
           least   == CHOOSE i \in dead : \A j \in dead : i <= j
           child   == kids[least]
<1>1. \/ /\ dead # {}
         /\ SetTable(reset_process_slot_locked(
                       parent_unlink_child_locked(T, current, child), child))
      \/ UNCHANGED << proc, rq >>
      \/ SetTable(SetState(T, current, "BLOCKED"))
  BY DEF WaitIteration
<1>2. T \in Table /\ T.proc = proc /\ current \in Slots
  BY TIs DEF TypeOK
<1>3. kids \in Seq(Slots)
  BY SMTT(30), <1>2, PointerFacts DEF ProcRecord
<1>4. CASE dead # {} /\ SetTable(reset_process_slot_locked(
                          parent_unlink_child_locked(T, current, child), child))
  <2>1. least \in DOMAIN kids
    <3>1. dead \subseteq Nat /\ dead \subseteq DOMAIN kids
      BY <1>3
    <3>2. least \in dead
      <4> HIDE DEF dead
      <4> QED BY <1>4, <3>1, LeastIn
    <3> QED
      BY <3>1, <3>2
  <2> HIDE DEF least
  <2>2. child \in Slots
    BY <1>3, <2>1
  <2> DEFINE v == parent_unlink_child_locked(T, current, child)
  <2>3. /\ v \in Table /\ v.proc[q].state = "ZOMBIE"
        /\ v.proc[q].wait_status = proc[q].wait_status
    <3>1. \E K : Relisted(T, v, current, K)
      BY <1>2, <2>1, UnlinkFacts
    <3> HIDE DEF v, child
    <3> QED
      BY <1>2, <3>1 DEF Relisted
  <2> HIDE DEF v, child
  <2>4. LET u == reset_process_slot_locked(v, child)
        IN  /\ \A r \in Slots : r # child => u.proc[r] = v.proc[r]
            /\ ~u.proc[child].used /\ u.proc[child].state = "DEAD"
            /\ u.proc[child].wait_status = v.proc[child].wait_status
    BY <2>2, <2>3, ResetFacts
  <2>5. proc' = reset_process_slot_locked(v, child).proc
    BY <1>4 DEF SetTable, v
  <2> QED
    BY <2>2, <2>3, <2>4, <2>5
<1>5. CASE UNCHANGED << proc, rq >>
  BY <1>5
<1>6. CASE SetTable(SetState(T, current, "BLOCKED"))
  <2>1. StateSet(T, SetState(T, current, "BLOCKED"), current, "BLOCKED")
    BY <1>2, SetStateFacts DEF States
  <2>2. proc' = SetState(T, current, "BLOCKED").proc
    BY <1>6 DEF SetTable
  <2> QED
    BY <1>2, <2>1, <2>2 DEF StateSet, Touch
<1> HIDE DEF dead, child
<1> QED
  BY <1>1, <1>4, <1>5, <1>6

\* What any step does to the dead, those of careless callers included.
LEMMA DeadNext ==
  ASSUME TypeOK, [Next]_vars, NEW q \in Slots, proc[q].used, proc[q].state = "ZOMBIE"
  PROVE  /\ proc'[q].wait_status = proc[q].wait_status
         /\ \/ proc'[q].state = "ZOMBIE"
            \/ proc'[q].state = "DEAD" /\ ~proc'[q].used
            \/ Revived(q)
<1> DEFINE G == /\ proc'[q].wait_status = proc[q].wait_status
                /\ \/ proc'[q].state = "ZOMBIE"
                   \/ proc'[q].state = "DEAD" /\ ~proc'[q].used
                   \/ Revived(q)
<1>1. T \in Table /\ T.proc = proc /\ current \in Slots /\ ctl \in [Slots -> Controls]
      /\ next_pid \in 3..(MaxPid + 1)
  BY TIs DEF TypeOK
<1>2. ASSUME NEW u, SetTable(u), Interred(T, u) PROVE G
  BY <1>1, <1>2 DEF SetTable, Interred
<1>3. ASSUME NEW p \in Slots, NEW sig \in Signals, SetTable(SendSignal(T, p, sig)), proc[p].used
      PROVE  G
  <2>1. Interred(T, SendSignal(T, p, sig))
    BY <1>1, <1>3, SendFacts, HitInters
  <2> QED
    BY <1>2, <1>3, <2>1
<1>4. CASE StartScheduler \/ UNCHANGED vars
  BY <1>4 DEF StartScheduler, vars
<1>5. CASE Spawn
  <2> DEFINE p == alloc_process_slot_locked(T)
  <2>1. PICK ok \in BOOLEAN :
          /\ p # NULL /\ next_pid <= MaxPid
          /\ SetTable(IF ok THEN create_kernel_process_locked(T, p, next_pid, current)
                            ELSE CreateFails(T, p, next_pid, current))
    BY <1>5 DEF Spawn
  <2>2. p \in Slots /\ ~proc[p].used
    BY <1>1, <2>1, AllocType
  <2> HIDE DEF p
  <2>3. next_pid \in 1..MaxPid
    BY <1>1, <2>1, SlotAssumption
  <2>4. q # p
    BY <2>2
  <2>5. /\ Aside(T, create_kernel_process_locked(T, p, next_pid, current), p)
        /\ Aside(T, CreateFails(T, p, next_pid, current), p)
    BY <1>1, <2>2, <2>3, CreateType
  <2>6. \/ proc' = create_kernel_process_locked(T, p, next_pid, current).proc
        \/ proc' = CreateFails(T, p, next_pid, current).proc
    BY <2>1 DEF SetTable
  <2> QED
    BY <1>1, <2>4, <2>5, <2>6 DEF Aside
<1>6. CASE Exec
  <2>1. PICK pid \in 1..MaxPid :
          LET p == find_by_pid_locked(T, pid)
          IN  /\ p # NULL
              /\ proc' = [proc EXCEPT ![p].pending = {}, ![p].mask = {},
                                      ![p].handlers = [s \in Signals |-> "DFL"]]
              /\ UNCHANGED rq
    BY <1>6 DEF Exec
  <2> DEFINE p == find_by_pid_locked(T, pid)
  <2>2. p \in Slots
    BY <2>1, FindType
  <2> HIDE DEF p
  <2>3. Quiet(T, T', p)
    BY <2>1, <2>2, ExecStep DEF p
  <2> QED
    BY <1>1, <2>3, TIs DEF Quiet, Touch
<1>7. CASE Exit
  <2>1. PICK code \in ExitCodes :
          SetTable(mark_zombie_locked(T, current, WAIT_STATUS_EXIT(code)))
    BY <1>7 DEF Exit
  <2>2. Killed(T, mark_zombie_locked(T, current, WAIT_STATUS_EXIT(code)), current)
    BY <1>1, StatusFacts, MarkZombieFacts
  <2>3. Interred(T, mark_zombie_locked(T, current, WAIT_STATUS_EXIT(code)))
    BY <2>2 DEF Killed, Affects, Interred
  <2> QED
    BY <1>2, <2>1, <2>3
<1>8. CASE Waitpid \/ WaitRetry
  <2>1. PICK target \in Targets, nohang \in BOOLEAN : WaitIteration(target, nohang)
    <3>1. ctl[current].target \in Targets
      BY <1>1 DEF Controls
    <3> QED
      BY <1>8, <3>1 DEF Waitpid, WaitRetry
  <2> QED
    BY <2>1, WaitDead DEF Revived
<1>9. CASE Kill
  <2>1. PICK pid \in 1..MaxPid, sig \in Signals :
          /\ find_by_pid_locked(T, pid) # NULL
          /\ SetTable(SendSignal(T, find_by_pid_locked(T, pid), sig))
    BY <1>9 DEF Kill
  <2> QED
    BY <1>1, <1>3, <2>1, FindType
<1>10. ASSUME NEW pgid, NEW sig \in Signals, KillPgid(pgid, sig) PROVE G
  <2>1. /\ find_by_pid_locked(T, pgid) # NULL
        /\ SetTable(SendSignal(T, find_by_pid_locked(T, pgid), sig))
    BY <1>10 DEF KillPgid
  <2> QED
    BY <1>1, <1>3, <2>1, FindType
<1>11. CASE TtyKillForeground \/ CtrlC
  BY <1>10, <1>11 DEF TtyKillForeground, CtrlC
<1>12. CASE SetPriority
  <2>1. PICK pid \in 1..MaxPid, pri \in NewPriorities :
          LET p  == find_by_pid_locked(T, pid)
              t1 == [runq_remove_locked(T, p) EXCEPT !.proc[p].priority = pri]
          IN  /\ p # NULL
              /\ SetTable(IF proc[p].state = "READY" THEN runq_push_locked(t1, p)
                          ELSE [T EXCEPT !.proc[p].priority = pri])
    BY <1>12 DEF SetPriority
  <2> DEFINE p  == find_by_pid_locked(T, pid)
             v  == runq_remove_locked(T, p)
             t1 == [v EXCEPT !.proc[p].priority = pri]
             t2 == [T EXCEPT !.proc[p].priority = pri]
  <2>2. p \in Slots /\ pri \in Priorities
    BY <2>1, FindType, PriorityAssumption
  <2>3. SetTable(runq_push_locked(t1, p)) \/ SetTable(t2)
    BY <2>1
  <2> HIDE DEF p
  <2>4. v \in Table /\ Interred(T, v)
    <3>1. v = T \/ SameLives(T, v)
      BY <1>1, <2>2, RemoveFacts DEF Removed
    <3> QED
      BY <1>1, <2>2, <3>1, RemoveType DEF Interred, SameLives, SameLife
  <2> HIDE DEF v
  <2>5. t1 \in Table /\ t2 \in Table /\ Interred(v, t1) /\ Interred(T, t2)
    <3>1. /\ Touch(v, t1, p) /\ t1.proc[p].state = v.proc[p].state
          /\ t1.proc[p].wait_status = v.proc[p].wait_status
      BY <2>2, <2>4, PriorityFacts
    <3>2. /\ Touch(T, t2, p) /\ t2.proc[p].state = T.proc[p].state
          /\ t2.proc[p].wait_status = T.proc[p].wait_status
      BY <1>1, <2>2, PriorityFacts
    <3> HIDE DEF t1, t2
    <3>3. t1 \in Table /\ Interred(v, t1)
      BY <2>2, <3>1 DEF Touch, Interred
    <3>4. t2 \in Table /\ Interred(T, t2)
      BY <2>2, <3>2 DEF Touch, Interred
    <3> QED
      BY <3>3, <3>4
  <2> HIDE DEF t1, t2
  <2>6. Interred(t1, runq_push_locked(t1, p))
    <3>1. SameLives(t1, runq_push_locked(t1, p))
      BY <2>2, <2>5, PushFacts DEF Pushed
    <3> QED
      BY <3>1 DEF SameLives, SameLife, Interred
  <2>7. Interred(T, runq_push_locked(t1, p))
    BY <2>4, <2>5, <2>6 DEF Interred
  <2> QED
    BY <1>2, <2>3, <2>5, <2>7
<1>13. CASE SignalRegister \/ SignalMask
  <2>1. Quiet(T, T', current)
    BY <1>13, RegisterStep, MaskStep DEF SignalRegister, SignalMask
  <2> QED
    BY <1>1, <2>1, TIs DEF Quiet, Touch
<1>14. CASE Tick
  BY <1>1, <1>14, TickDead DEF Tick, Revived
<1>15. CASE Yield
  <2> DEFINE t == [T EXCEPT !.proc[current].time_slice = 0]
  <2>1. process_schedule_tick(t)
    BY <1>1, <1>15 DEF Yield
  <2>2. StateSet(T, t, current, proc[current].state)
    <3>1. 0 \in 0..TimeSlice
      BY PriorityAssumption
    <3> QED
      BY <1>1, <3>1, SliceFacts
  <2> HIDE DEF t
  <2>3. t \in Table /\ t.proc[q].state = "ZOMBIE" /\ t.proc[q].wait_status = proc[q].wait_status
    BY <1>1, <2>2 DEF StateSet, Touch
  <2> QED
    BY <1>1, <2>1, <2>3, TickDead DEF Revived
<1> QED
  BY <1>4, <1>5, <1>6, <1>7, <1>8, <1>9, <1>11, <1>12, <1>13, <1>14, <1>15 DEF Next

\* Whoever is killed: no step changes the status a zombie's parent will read, and
\* a zombie leaves that state only when waitpid resets its slot, when it was
\* still queued and is dispatched, or when its own code goes on after it was
\* killed on the CPU.  The last two need a kill of a READY or RUNNING process
\* from outside; with CarefulKill no step revives a zombie.
THEOREM DeadAreDead == Spec => DeadStaysDead
<1> DEFINE D == \A p \in Slots :
                  proc[p].used /\ proc[p].state = "ZOMBIE" =>
                    /\ proc'[p].wait_status = proc[p].wait_status
                    /\ \/ proc'[p].state = "ZOMBIE"
                       \/ proc'[p].state = "DEAD" /\ ~proc'[p].used
                       \/ ~CarefulKill /\ Revived(p)
           I == TypeOK /\ (CarefulKill => SchedInv)
<1>1. Init => I
  BY TypeInit, SchedInit
<1>2. I /\ [Next]_vars => I'
  BY TypeNext, StepKinds
<1>3. ASSUME I, [Next]_vars PROVE D
  <2> SUFFICES ASSUME NEW p \in Slots, proc[p].used, proc[p].state = "ZOMBIE"
               PROVE  /\ proc'[p].wait_status = proc[p].wait_status
                      /\ \/ proc'[p].state = "ZOMBIE"
                         \/ proc'[p].state = "DEAD" /\ ~proc'[p].used
                         \/ ~CarefulKill /\ Revived(p)
    OBVIOUS
  <2>1. /\ proc'[p].wait_status = proc[p].wait_status
        /\ \/ proc'[p].state = "ZOMBIE"
           \/ proc'[p].state = "DEAD" /\ ~proc'[p].used
           \/ Revived(p)
    BY <1>3, DeadNext
  <2>2. CASE ~CarefulKill
    BY <2>1, <2>2
  <2>3. CASE CarefulKill
    <3> SUFFICES \/ proc'[p].state = "ZOMBIE"
                 \/ proc'[p].state = "DEAD" /\ ~proc'[p].used
      BY <2>1
    <3>1. CASE Runs
      BY <3>1, TIs DEF Runs, Moves
    <3>2. CASE \E b \in Slots : Born(b)
      BY <3>2 DEF Born
    <3>3. CASE \E i \in DOMAIN proc[current].children : Reaped(i)
      BY <3>3 DEF Reaped
    <3>4. CASE \E target \in Targets : Sleeps(target)
      BY <3>4 DEF Sleeps
    <3> QED
      BY <1>3, <2>3, <3>1, <3>2, <3>3, <3>4, StepKinds
  <2> QED
    BY <2>2, <2>3
<1>4. I /\ [Next]_vars => [D]_vars
  BY <1>3
<1> HIDE DEF I
<1> QED
  BY <1>1, <1>2, <1>4, PTL DEF Spec, DeadStaysDead
=============================================================================
