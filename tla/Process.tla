------------------------------ MODULE Process ------------------------------
(***************************************************************************)
(* The process table and the preemptive scheduler of the x86_64 kernel     *)
(* (proc/process.c): one CPU, a fixed table of slots, one FIFO run queue   *)
(* per priority threaded through the slots by rq_next, parent/child lists, *)
(* signals, waitpid and the timer tick that switches processes.            *)
(*                                                                         *)
(* Every function of process.c runs its body with interrupts off and       *)
(* g_sched_lock held, so a body is one atomic action; what is interleaved  *)
(* is everything between two bodies: the timer interrupt, the keyboard     *)
(* interrupt, and the windows in which waitpid and exit have changed the   *)
(* state of the running process but not yet left the CPU.                  *)
(***************************************************************************)
EXTENDS Integers, Sequences, FiniteSets

CONSTANTS
  MaxSlots,         \* PROCESS_MAX_COUNT; slot 1 is bootstrap, slot 2 is idle
  Priorities,       \* the priorities in use; a lower number runs first
  NewPriorities,    \* those that process_set_priority is called with
  DefaultPriority,  \* PROCESS_DEFAULT_PRIORITY
  TimeSlice,        \* PROCESS_DEFAULT_TIMESLICE
  Signals,          \* the signal numbers that are sent
  Handlers,         \* the dispositions that signal_register is called with
  Masks,            \* the signal masks that signal_mask sets
  ExitCodes,        \* the codes processes exit with
  MaxPid,           \* bound: the last pid that is handed out
  CarefulKill       \* TRUE: no SIGKILL is aimed at a process that is on the
                    \* run queue or running, and no signal at the idle process

SIGINT  == 2
SIGKILL == 9

ASSUME SlotAssumption ==
  /\ MaxSlots \in Nat /\ MaxSlots >= 2
  /\ MaxPid \in Nat /\ MaxPid >= 2   \* bootstrap and idle have pids 1 and 2
ASSUME PriorityAssumption ==
  /\ Priorities \subseteq Nat /\ IsFiniteSet(Priorities)
  /\ DefaultPriority \in Priorities
  /\ NewPriorities \subseteq Priorities
  /\ TimeSlice \in Nat \ {0}
ASSUME SignalAssumption ==
  /\ Signals \subseteq 1..63
  /\ Handlers \subseteq {"DFL", "IGN", "FN"}
  /\ Masks \subseteq SUBSET Signals
  /\ ExitCodes \subseteq 0..255
  /\ CarefulKill \in BOOLEAN

Slots     == 1..MaxSlots
NULL      == 0                       \* the null process_t pointer
Pointers  == Slots \cup {NULL}
bootstrap == 1
idle      == 2

States == {"CREATED", "READY", "RUNNING", "BLOCKED", "ZOMBIE", "DEAD"}

WAIT_STATUS_EXIT(code)  == (code % 256) * 256
WAIT_STATUS_SIGNAL(sig) == sig % 128
Statuses == {0} \cup {WAIT_STATUS_EXIT(c) : c \in ExitCodes}
                \cup {WAIT_STATUS_SIGNAL(s) : s \in Signals}

(***************************************************************************)
(* process_t.  The intrusive child list (children_head, parent_next_child, *)
(* children[]) is the sequence children, newest child first.  pgid is left *)
(* out: it is assigned once, to the pid, and never changed.                *)
(***************************************************************************)
ProcRecord ==
  [ used : BOOLEAN, pid : 0..MaxPid, ppid : 0..MaxPid, state : States,
    is_idle : BOOLEAN, priority : Priorities, time_slice : 0..TimeSlice,
    rq_next : Pointers, children : Seq(Slots), wait_status : Statuses,
    pending : SUBSET Signals, mask : SUBSET Signals,
    handlers : [Signals -> {"DFL", "IGN", "FN"}] ]

\* A slot of the zeroed table.
ZeroSlot ==
  [ used |-> FALSE, pid |-> 0, ppid |-> 0, state |-> "CREATED",
    is_idle |-> FALSE, priority |-> DefaultPriority, time_slice |-> TimeSlice,
    rq_next |-> NULL, children |-> << >>, wait_status |-> 0,
    pending |-> {}, mask |-> {}, handlers |-> [s \in Signals |-> "DFL"] ]

\* waitpid's target argument: a child's pid (its group, which has the same
\* number, when negative), or any child.
AnyChild == -1
Targets  == {AnyChild} \cup 1..MaxPid

VARIABLES
  proc,      \* g_processes: the slots
  rq,        \* g_runq_head, g_runq_tail: [head, tail] of the queue per priority
  current,   \* g_current[0]
  next_pid,  \* g_next_pid
  ctl,       \* where the code on each slot's kernel stack is
  booted     \* kernel_main has executed sti

vars == << proc, rq, current, next_pid, ctl, booted >>

(***************************************************************************)
(* Control points: "run" in the entry function, between two calls into the *)
(* kernel; "wait" in waitpid, blocked but before its int 32; "retry" in    *)
(* waitpid after that int 32; "exit" in process_exit after mark_zombie;    *)
(* "hlt" in the halt loop of idle, of bootstrap or after process_exit.     *)
(***************************************************************************)
Controls == [at : {"run", "wait", "retry", "exit", "hlt"}, target : Targets]
Running(at) == [at |-> at, target |-> AnyChild]

\* The part of the state the locked helpers read and write.
Table == [proc : [Slots -> ProcRecord],
          rq   : [head : [Priorities -> Pointers], tail : [Priorities -> Pointers]]]
T == [proc |-> proc, rq |-> rq]

SetState(t, p, s) == [t EXCEPT !.proc[p].state = s]

---------------------------------------------------------------------------
(* Lookup. *)

find_by_pid_locked(t, pid) ==
  LET hit == {p \in Slots : t.proc[p].used /\ t.proc[p].pid = pid}
  IN  IF hit = {} THEN NULL ELSE CHOOSE p \in hit : \A q \in hit : p <= q

alloc_process_slot_locked(t) ==
  LET free == {p \in Slots : ~t.proc[p].used}
  IN  IF free = {} THEN NULL ELSE CHOOSE p \in free : \A q \in free : p <= q

---------------------------------------------------------------------------
(* The run queues. *)

\* Faulty variant: the process is put at the front of its queue.
runq_push_front(t, p) ==
  LET pri == t.proc[p].priority
  IN  [t EXCEPT !.proc[p].rq_next = t.rq.head[pri], !.rq.head[pri] = p,
                !.rq.tail[pri] = IF t.rq.head[pri] = NULL THEN p ELSE @]

runq_push_locked(t, p) ==
  LET pri  == t.proc[p].priority
      last == t.rq.tail[pri]
      t1   == [t EXCEPT !.proc[p].rq_next = NULL, !.rq.tail[pri] = p]
  IN  IF t.rq.head[pri] = NULL
      THEN [t1 EXCEPT !.rq.head[pri] = p]
      ELSE [t1 EXCEPT !.proc[last].rq_next = p]

Waiting(t) == {pri \in Priorities : t.rq.head[pri] # NULL}

runq_best_priority_locked(t) ==
  IF Waiting(t) = {} THEN -1
  ELSE CHOOSE pri \in Waiting(t) : \A r \in Waiting(t) : pri <= r

\* The process runq_pop_locked returns, and the queues it leaves.
PopWho(t) ==
  IF Waiting(t) = {} THEN NULL ELSE t.rq.head[runq_best_priority_locked(t)]

runq_pop_locked(t) ==
  LET pri == runq_best_priority_locked(t)
      p   == t.rq.head[pri]
      nxt == t.proc[p].rq_next
  IN  IF Waiting(t) = {} THEN t
      ELSE [t EXCEPT !.rq.head[pri] = nxt,
                     !.rq.tail[pri] = IF nxt = NULL THEN NULL ELSE @,
                     !.proc[p].rq_next = NULL]

\* The k-th slot of the queue that starts at first, NULL past its end.
Walk(t, first) ==
  LET at[k \in 0..MaxSlots] ==
        IF k = 0 THEN first
        ELSE IF at[k-1] = NULL THEN NULL ELSE t.proc[at[k-1]].rq_next
  IN  at

OnQueue(t, pri) ==
  LET at == Walk(t, t.rq.head[pri])
  IN  {p \in Slots : \E k \in 0..MaxSlots : at[k] = p}

\* Faulty variant: the tail is not moved back when the last process leaves.
runq_remove_keeps_tail(t, p) ==
  LET pri == t.proc[p].priority
      nxt == t.proc[p].rq_next
      pre == {q \in OnQueue(t, pri) : t.proc[q].rq_next = p}
  IN  IF p \notin OnQueue(t, pri) THEN t
      ELSE IF t.rq.head[pri] = p
           THEN [t EXCEPT !.proc[p].rq_next = NULL, !.rq.head[pri] = nxt,
                          !.rq.tail[pri] = IF nxt = NULL THEN NULL ELSE @]
           ELSE [t EXCEPT !.proc[p].rq_next = NULL,
                          !.proc[CHOOSE q \in pre : TRUE].rq_next = nxt]

runq_remove_locked(t, p) ==
  LET pri  == t.proc[p].priority
      nxt  == t.proc[p].rq_next
      pre  == {q \in OnQueue(t, pri) : t.proc[q].rq_next = p}
      prev == IF t.rq.head[pri] = p \/ pre = {} THEN NULL
              ELSE CHOOSE q \in pre : TRUE
      t1   == [t EXCEPT !.proc[p].rq_next = NULL,
                        !.rq.tail[pri] = IF @ = p THEN prev ELSE @]
  IN  IF p \notin OnQueue(t, pri) THEN t
      ELSE IF prev = NULL
           THEN [t1 EXCEPT !.rq.head[pri] = nxt]
           ELSE [t1 EXCEPT !.proc[prev].rq_next = nxt]

---------------------------------------------------------------------------
(* Death, and the signals that lead to it. *)

\* Faulty variant: the parent is not woken.
wake_parent_never(t, p) == t

wake_parent_if_waiting_locked(t, p) ==
  LET parent == find_by_pid_locked(t, t.proc[p].ppid)
  IN  IF t.proc[p].ppid # 0 /\ parent # NULL /\ t.proc[parent].state = "BLOCKED"
      THEN runq_push_locked(SetState(t, parent, "READY"), parent)
      ELSE t

\* Faulty variant: a process that is dead already dies again.
mark_zombie_again(t, p, status) ==
  wake_parent_if_waiting_locked(
    [t EXCEPT !.proc[p].wait_status = status, !.proc[p].state = "ZOMBIE"], p)

mark_zombie_locked(t, p, status) ==
  IF t.proc[p].state \in {"ZOMBIE", "DEAD"} THEN t
  ELSE wake_parent_if_waiting_locked(
         [t EXCEPT !.proc[p].wait_status = status, !.proc[p].state = "ZOMBIE"], p)

Deliverable(t, p) == t.proc[p].pending \ t.proc[p].mask

signal_pick_lowest(S) == CHOOSE s \in S : \A r \in S : s <= r

\* Faulty variant: a caught signal stays pending.
prepare_signal_keeps_bit(t, p) ==
  LET sig == signal_pick_lowest(Deliverable(t, p))
      t1  == [t EXCEPT !.proc[p].pending = @ \ {sig}]
      h   == t.proc[p].handlers[sig]
  IN  IF t.proc[p].state \in {"ZOMBIE", "DEAD"} \/ Deliverable(t, p) = {} THEN t
      ELSE IF h # "IGN" /\ (h = "DFL" \/ sig \in {SIGKILL, SIGINT})
           THEN mark_zombie_locked(t1, p, WAIT_STATUS_SIGNAL(sig))
           ELSE t

\* The handler of a caught signal is called by the tick after the switch and
\* returns into it; it touches no scheduler state of its own.
prepare_signal_action_locked(t, p) ==
  LET sig == signal_pick_lowest(Deliverable(t, p))
      t1  == [t EXCEPT !.proc[p].pending = @ \ {sig}]
      h   == t.proc[p].handlers[sig]
  IN  IF t.proc[p].state \in {"ZOMBIE", "DEAD"} \/ Deliverable(t, p) = {} THEN t
      ELSE IF h # "IGN" /\ (h = "DFL" \/ sig \in {SIGKILL, SIGINT})
           THEN mark_zombie_locked(t1, p, WAIT_STATUS_SIGNAL(sig))
           ELSE t1

\* What process_kill and process_kill_pgid do to one process.
SendSignal(t, p, sig) ==
  LET t1 == [t EXCEPT !.proc[p].pending = @ \cup {sig}]
  IN  IF sig = SIGKILL THEN mark_zombie_locked(t, p, WAIT_STATUS_SIGNAL(sig))
      ELSE IF t.proc[p].state = "BLOCKED"
           THEN runq_push_locked(SetState(t1, p, "READY"), p)
           ELSE t1

---------------------------------------------------------------------------
(* Birth. *)

\* create_kernel_process_locked up to the allocation of the stack.
NewProcess(t, pid, parent) ==
  [ZeroSlot EXCEPT !.used = TRUE, !.pid = pid, !.state = "READY",
                   !.ppid = t.proc[parent].pid,
                   !.priority = t.proc[parent].priority]

create_kernel_process_locked(t, p, pid, parent) ==
  LET t1 == [t EXCEPT !.proc[p] = NewProcess(t, pid, parent)]
      t2 == [t1 EXCEPT !.proc[parent].children = << p >> \o @]
  IN  runq_push_locked(t2, p)

\* The path that cannot allocate a stack: the slot is given back.
CreateFails(t, p, pid, parent) ==
  [t EXCEPT !.proc[p] = [NewProcess(t, pid, parent) EXCEPT !.used = FALSE]]

reset_process_slot_locked(t, p) ==
  [t EXCEPT !.proc[p].used = FALSE, !.proc[p].state = "DEAD",
            !.proc[p].rq_next = NULL, !.proc[p].children = << >>]

\* Faulty variant: the reaped child stays on its parent's list.
parent_keeps_child(t, parent, p) == t

parent_unlink_child_locked(t, parent, p) ==
  LET kids  == t.proc[parent].children
      where == {i \in DOMAIN kids : kids[i] = p}
      first == CHOOSE i \in where : \A j \in where : i <= j
      rest  == [j \in 1..(Len(kids) - 1) |-> IF j < first THEN kids[j] ELSE kids[j + 1]]
  IN  IF where = {} THEN t ELSE [t EXCEPT !.proc[parent].children = rest]

---------------------------------------------------------------------------
(* The tick. *)

\* next = pop, or idle; it is marked RUNNING and becomes current.
Chosen(t)   == IF PopWho(t) = NULL THEN idle ELSE PopWho(t)
Dispatch(t) == SetState(runq_pop_locked(t), Chosen(t), "RUNNING")

\* The tick's treatment of the running process: a signal, its time slice.
Charged(t, cur) ==
  LET t1 == IF t.proc[cur].state = "RUNNING"
            THEN prepare_signal_action_locked(t, cur) ELSE t
      ts == t1.proc[cur].time_slice
  IN  IF t1.proc[cur].state = "RUNNING" /\ ~t1.proc[cur].is_idle /\ ts > 0
      THEN [t1 EXCEPT !.proc[cur].time_slice = ts - 1] ELSE t1

KeepsCpu(t, cur) ==
  /\ t.proc[cur].state = "RUNNING"
  /\ ~t.proc[cur].is_idle
  /\ t.proc[cur].time_slice > 0
  /\ \/ runq_best_priority_locked(t) = -1
     \/ t.proc[cur].priority <= runq_best_priority_locked(t)

Preempted(t, cur) ==
  IF t.proc[cur].state # "RUNNING" THEN t
  ELSE IF t.proc[cur].is_idle THEN SetState(t, cur, "READY")
  ELSE runq_push_locked([SetState(t, cur, "READY") EXCEPT
                           !.proc[cur].time_slice = TimeSlice], cur)

---------------------------------------------------------------------------
(* Initial state: process_init has made bootstrap and idle; interrupts are *)
(* still off and kernel_main runs as bootstrap.                            *)

Init ==
  /\ proc = [p \in Slots |->
       CASE p = bootstrap -> [ZeroSlot EXCEPT !.used = TRUE, !.pid = 1,
                                              !.state = "BLOCKED"]
         [] p = idle      -> [ZeroSlot EXCEPT !.used = TRUE, !.pid = 2,
                                              !.state = "READY", !.is_idle = TRUE]
         [] OTHER         -> ZeroSlot]
  /\ rq = [head |-> [pri \in Priorities |-> NULL],
           tail |-> [pri \in Priorities |-> NULL]]
  /\ current = bootstrap
  /\ next_pid = 3
  /\ ctl = [p \in Slots |-> IF p = idle THEN Running("hlt") ELSE Running("run")]
  /\ booted = FALSE

SetTable(t) == proc' = t.proc /\ rq' = t.rq

\* The running process is in its entry function and may call the kernel.
Calls == ctl[current].at = "run"
\* After the sti of kernel_main.
Active == Calls /\ booted

---------------------------------------------------------------------------
(* Operations of the running process. *)

\* kernel_main: sti, then the halt loop of process_start_scheduler.
StartScheduler ==
  /\ ~booted
  /\ booted' = TRUE
  /\ ctl' = [ctl EXCEPT ![bootstrap] = Running("hlt")]
  /\ UNCHANGED << proc, rq, current, next_pid >>

\* process_spawn_kernel.  ok: the stack could be allocated.
Spawn ==
  \E ok \in BOOLEAN :
    LET p == alloc_process_slot_locked(T)
    IN  /\ Calls
        /\ p # NULL
        /\ next_pid <= MaxPid
        /\ SetTable(IF ok THEN create_kernel_process_locked(T, p, next_pid, current)
                          ELSE CreateFails(T, p, next_pid, current))
        /\ next_pid' = next_pid + 1
        /\ ctl' = IF ok THEN [ctl EXCEPT ![p] = Running("run")] ELSE ctl
        /\ UNCHANGED << current, booted >>

\* process_exec on another process.  The fresh context is written into its
\* kernel stack; bootstrap has none, and idle's trampoline halts again.
Exec ==
  \E pid \in 1..MaxPid :
    LET p == find_by_pid_locked(T, pid)
    IN  /\ Active
        /\ p \notin {NULL, current}
        /\ proc[p].state \notin {"DEAD", "ZOMBIE"}
        /\ proc' = [proc EXCEPT ![p].pending = {}, ![p].mask = {},
                                ![p].handlers = [s \in Signals |-> "DFL"]]
        /\ ctl' = IF p \in {bootstrap, idle} THEN ctl
                  ELSE [ctl EXCEPT ![p] = Running("run")]
        /\ UNCHANGED << rq, current, next_pid, booted >>

\* process_exit, up to its process_yield.
Exit ==
  \E code \in ExitCodes :
    /\ Active
    /\ SetTable(mark_zombie_locked(T, current, WAIT_STATUS_EXIT(code)))
    /\ ctl' = [ctl EXCEPT ![current] = Running("exit")]
    /\ UNCHANGED << current, next_pid, booted >>

wait_match_child(t, child, target) ==
  target = AnyChild \/ t.proc[child].pid = target

\* One iteration of the loop of process_waitpid in the running process.
WaitIteration(target, nohang) ==
  LET kids    == proc[current].children
      matches == {i \in DOMAIN kids : wait_match_child(T, kids[i], target)}
      dead    == {i \in matches : proc[kids[i]].state = "ZOMBIE"}
      child   == kids[CHOOSE i \in dead : \A j \in dead : i <= j]
      returns == ctl' = [ctl EXCEPT ![current] = Running("run")]
  IN  /\ \/ /\ dead # {}
            /\ SetTable(reset_process_slot_locked(
                          parent_unlink_child_locked(T, current, child), child))
            /\ returns
         \/ /\ dead = {}
            /\ matches = {} \/ nohang
            /\ returns
            /\ UNCHANGED << proc, rq >>
         \/ /\ dead = {}
            /\ matches # {} /\ ~nohang
            /\ SetTable(SetState(T, current, "BLOCKED"))
            /\ ctl' = [ctl EXCEPT ![current] = [at |-> "wait", target |-> target]]
      /\ UNCHANGED << current, next_pid, booted >>

Waitpid ==
  \E target \in Targets, nohang \in BOOLEAN :
    /\ Active
    /\ proc[current].used
    /\ WaitIteration(target, nohang)

WaitRetry ==
  /\ ctl[current].at = "retry"
  /\ WaitIteration(ctl[current].target, FALSE)

\* The callers CarefulKill rules out, see the README.
MaySignal(p, sig) ==
  CarefulKill => p # idle /\ (sig = SIGKILL => proc[p].state \in {"BLOCKED", "ZOMBIE"})

\* process_kill.
Kill ==
  \E pid \in 1..MaxPid, sig \in Signals :
    LET p == find_by_pid_locked(T, pid)
    IN  /\ Active
        /\ p # NULL
        /\ proc[p].state # "DEAD"
        /\ MaySignal(p, sig)
        /\ SetTable(SendSignal(T, p, sig))
        /\ UNCHANGED << current, next_pid, ctl, booted >>

\* process_kill_pgid.  A group is one process: pgid is always the pid.
KillPgid(pgid, sig) ==
  LET p == find_by_pid_locked(T, pgid)
  IN  /\ p # NULL
      /\ proc[p].state \notin {"DEAD", "ZOMBIE"}
      /\ MaySignal(p, sig)
      /\ SetTable(SendSignal(T, p, sig))
      /\ UNCHANGED << current, next_pid, ctl, booted >>

\* SYSTEM_CMD_TTY_KILL_FG: tty_kill_foreground with any signal.
TtyKillForeground ==
  \E pgid \in 1..MaxPid, sig \in Signals : Active /\ KillPgid(pgid, sig)

\* Faulty variant: a READY process stays on the queue of its old priority.
SetPriority_not_requeued ==
  \E pid \in 1..MaxPid, pri \in NewPriorities :
    LET p == find_by_pid_locked(T, pid)
    IN  /\ Active
        /\ p # NULL
        /\ proc[p].state # "DEAD"
        /\ SetTable([T EXCEPT !.proc[p].priority = pri])
        /\ UNCHANGED << current, next_pid, ctl, booted >>

\* process_set_priority.
SetPriority ==
  \E pid \in 1..MaxPid, pri \in NewPriorities :
    LET p  == find_by_pid_locked(T, pid)
        t1 == [runq_remove_locked(T, p) EXCEPT !.proc[p].priority = pri]
    IN  /\ Active
        /\ p # NULL
        /\ proc[p].state # "DEAD"
        /\ SetTable(IF proc[p].state = "READY" THEN runq_push_locked(t1, p)
                    ELSE [T EXCEPT !.proc[p].priority = pri])
        /\ UNCHANGED << current, next_pid, ctl, booted >>

\* process_signal_register: SIGKILL keeps its default action.
SignalRegister ==
  \E sig \in Signals, h \in Handlers :
    /\ Active
    /\ proc[current].used
    /\ sig = SIGKILL => h = "DFL"
    /\ proc' = [proc EXCEPT ![current].handlers[sig] = h]
    /\ UNCHANGED << rq, current, next_pid, ctl, booted >>

\* process_signal_mask with SIG_SETMASK: SIGKILL is never masked.
SignalMask ==
  \E m \in Masks :
    /\ Active
    /\ proc[current].used
    /\ proc' = [proc EXCEPT ![current].mask = m \ {SIGKILL}]
    /\ UNCHANGED << rq, current, next_pid, ctl, booted >>

---------------------------------------------------------------------------
(* Interrupts. *)

\* The switch away from a process that does not keep the CPU.
Switch(t) == /\ SetTable(Dispatch(t))
             /\ current' = Chosen(t)

process_schedule_tick(t) ==
  /\ \E c \in {Charged(t, current)} :
       \/ KeepsCpu(c, current) /\ SetTable(c) /\ UNCHANGED current
       \/ ~KeepsCpu(c, current) /\ \E d \in {Preempted(c, current)} : Switch(d)
  /\ UNCHANGED << next_pid, booted >>

\* IRQ 0 of the timer.
Tick == booted /\ process_schedule_tick(T) /\ UNCHANGED ctl

\* Where the code continues once its int 32 returns.
AfterYield(at) ==
  CASE at = "wait" -> "retry"
    [] at = "exit" -> "hlt"
    [] OTHER       -> at

\* process_yield: give up the slice and raise int 32.
Yield ==
  /\ booted
  /\ ctl[current].at \in {"run", "wait", "exit"}
  /\ process_schedule_tick([T EXCEPT !.proc[current].time_slice = 0])
  /\ ctl' = [ctl EXCEPT ![current].at = AfterYield(@)]

\* IRQ 1: Ctrl+C sends SIGINT to the foreground group of the active tty.
CtrlC ==
  /\ booted
  /\ SIGINT \in Signals
  /\ \E pgid \in 1..MaxPid : KillPgid(pgid, SIGINT)

---------------------------------------------------------------------------

Next ==
  \/ StartScheduler \/ Spawn \/ Exec \/ Exit \/ Waitpid \/ WaitRetry
  \/ Kill \/ TtyKillForeground \/ SetPriority \/ SignalRegister \/ SignalMask
  \/ Tick \/ Yield \/ CtrlC

Spec == Init /\ [][Next]_vars

(***************************************************************************)
(* Fairness: the timer keeps ticking and kernel_main reaches its sti.  A   *)
(* process that is dispatched executes some of its instructions before the *)
(* next tick 10 ms later, so one that is dispatched again and again inside *)
(* the few instructions of waitpid gets through them.                      *)
(***************************************************************************)
InWaitpid(p) == /\ current = p
                /\ \/ WaitRetry
                   \/ ctl[p].at = "wait" /\ Yield

Fairness == /\ WF_vars(StartScheduler)
            /\ WF_vars(Tick)
            /\ \A p \in Slots \ {bootstrap, idle} : SF_vars(InWaitpid(p))

FairSpec == Spec /\ Fairness

---------------------------------------------------------------------------
(* Properties. *)

\* Type correctness of the table, the queues and the control points.
TypeOK ==
  /\ T \in Table
  /\ current \in Slots
  /\ next_pid \in 3..(MaxPid + 1)
  /\ ctl \in [Slots -> Controls]
  /\ booted \in BOOLEAN

\* runq_push_locked never asks whether the process is queued already, and a
\* wake-up, a preemption, a new priority and a signal may each push it: a
\* process is on at most one queue, at most once, of its own priority, and
\* only while it is READY, and its slot is in use.
Enqueued(p) == (\E pri \in Priorities : rq.head[pri] = p)
            \/ (\E q \in Slots : proc[q].rq_next = p)
QueueHoldsReady ==
  /\ \A p \in Slots :
       Enqueued(p) => proc[p].used /\ proc[p].state = "READY"
  /\ \A pri \in Priorities :
       rq.head[pri] # NULL => /\ proc[rq.head[pri]].priority = pri
                             /\ \A q \in Slots : proc[q].rq_next # rq.head[pri]
  /\ \A p, q \in Slots :
       proc[p].rq_next # NULL /\ proc[p].rq_next = proc[q].rq_next => p = q

\* The other direction: no READY process falls out of the queues, which is
\* what a wake-up before the tick, a corrupted list or a removal at the tail
\* would do.  The queue of each priority ends, at its tail.
ReadyIsQueued ==
  /\ \A p \in Slots \ {idle} :
       proc[p].used /\ proc[p].state = "READY" => p \in OnQueue(T, proc[p].priority)
  /\ \A pri \in Priorities :
       LET at == Walk(T, rq.head[pri])
       IN  /\ at[MaxSlots] = NULL
           /\ rq.head[pri] = NULL <=> rq.tail[pri] = NULL
           /\ \A k \in 0..(MaxSlots - 1) :
                at[k] # NULL /\ at[k + 1] = NULL => at[k] = rq.tail[pri]

\* One CPU: only the current process is RUNNING, whatever callers do.
OneRunning == \A p \in Slots : proc[p].state = "RUNNING" => p = current

\* Together: the queues, the states and the CPU tell one story, between any
\* two calls of process.c.
SchedulerConsistent == QueueHoldsReady /\ ReadyIsQueued /\ OneRunning

\* waitpid gives up the lock between deciding to block and leaving the CPU,
\* and any number of exits, kills and ticks may fall in between: a process
\* that is BLOCKED in waitpid has a matching child that is still alive, and no
\* dead one it has not been told of.
NoLostWakeup ==
  \A p \in Slots :
    proc[p].used /\ proc[p].state = "BLOCKED" /\ ctl[p].at \in {"wait", "retry"} =>
      LET kids == {proc[p].children[i] : i \in {j \in DOMAIN proc[p].children :
                     wait_match_child(T, proc[p].children[j], ctl[p].target)}}
      IN  kids # {} /\ \A c \in kids : proc[c].state # "ZOMBIE"

\* The two records of a family agree: a child on a list is a live slot that
\* names the owner of the list as its parent, on no other place of any list;
\* and a process whose parent still exists can be found (and reaped) by it.
FamilyConsistent ==
  /\ \A p \in Slots : \A i \in DOMAIN proc[p].children :
       LET c == proc[p].children[i]
       IN  /\ proc[c].used /\ proc[c].ppid = proc[p].pid
           /\ \A q \in Slots : \A j \in DOMAIN proc[q].children :
                proc[q].children[j] = c => q = p /\ i = j
  /\ \A c, p \in Slots :
       proc[c].used /\ proc[p].used /\ proc[c].ppid = proc[p].pid
         => \E i \in DOMAIN proc[p].children : proc[p].children[i] = c

\* A parent frees the kernel stack of the child it reaps: the slot on whose
\* stack the CPU executes is never one that has been given back.
CurrentStackLive == proc[current].used

\* Together: what every call of process.c relies on when it takes the lock.
SchedulerSound == SchedulerConsistent /\ CurrentStackLive

\* What a careless kill leads to: a zombie that is still queued is dispatched,
\* or one that is still on the CPU goes on into waitpid.
Revived(p) ==
  \/ proc'[p].state = "RUNNING" /\ current' = p
  \/ proc'[p].state = "BLOCKED" /\ current = p

\* A dead process stays dead: once a process is a zombie no step changes the
\* status its parent will read, and none makes it run, until waitpid resets the
\* slot.  When READY or RUNNING processes are killed from outside a zombie may
\* be revived, but by nothing else than the dispatch of what is still queued
\* and by its own code.
DeadStaysDead ==
  [][\A p \in Slots :
       proc[p].used /\ proc[p].state = "ZOMBIE" =>
         /\ proc'[p].wait_status = proc[p].wait_status
         /\ \/ proc'[p].state = "ZOMBIE"
            \/ proc'[p].state = "DEAD" /\ ~proc'[p].used
            \/ ~CarefulKill /\ Revived(p)]_vars

\* What the self-tests expect of SIGKILL: "kill, then wait" reports SIGKILL as
\* the cause of death.  A process killed by SIGKILL keeps that status, and
\* never runs again, until its parent reaps it.
KillIsFinal ==
  [][\A p \in Slots \ {bootstrap, idle} :
       proc[p].used /\ proc[p].state = "ZOMBIE"
         /\ proc[p].wait_status = WAIT_STATUS_SIGNAL(SIGKILL) =>
           \/ proc'[p].state = "ZOMBIE" /\ proc'[p].wait_status = proc[p].wait_status
           \/ proc'[p].state = "DEAD"]_vars

\* The fixed-priority policy: whenever the tick takes the CPU from one process
\* and gives it to another, no READY process has a better priority.
BestRunsFirst ==
  [][current' # current =>
       \A q \in Slots \ {idle} :
         proc'[q].used /\ proc'[q].state = "READY" =>
           proc'[current'].priority <= proc'[q].priority]_vars

\* With one priority, and nobody calling process_set_priority (which moves its
\* target to the back of the queue), every READY process is dispatched.
EveryReadyRuns ==
  \A p \in Slots \ {idle} :
    (proc[p].used /\ proc[p].state = "READY") ~> (proc[p].state # "READY")

\* A process blocked in waitpid on a child that has died returns from it, or
\* is itself dead.
WaiterReturns ==
  \A p \in Slots \ {bootstrap, idle} :
    (/\ ctl[p].at \in {"wait", "retry"}
     /\ \E i \in DOMAIN proc[p].children :
          /\ wait_match_child(T, proc[p].children[i], ctl[p].target)
          /\ proc[proc[p].children[i]].state = "ZOMBIE")
      ~> (ctl[p].at \in {"run", "exit", "hlt"} \/ proc[p].state \in {"ZOMBIE", "DEAD"})

\* A signal that is pending and not masked is taken at some tick, unless the
\* process masks it, dies, or goes (back) to sleep in waitpid: a tick looks
\* for signals only in a process that is RUNNING.
SignalTaken ==
  \A p \in Slots \ {idle} : \A sig \in Signals :
    (proc[p].used /\ sig \in Deliverable(T, p))
      ~> (sig \notin Deliverable(T, p) \/ proc[p].state \in {"BLOCKED", "ZOMBIE", "DEAD"})
=============================================================================
