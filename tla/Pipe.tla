-------------------------------- MODULE Pipe --------------------------------
(***************************************************************************)
(* The bytes of one pipe (fs/vfs.c): the ring that vfs_write fills and     *)
(* vfs_read drains a byte at a time, with no lock, by the processes that   *)
(* inherited its two ends.  The k-th byte written carries the number k.    *)
(*                                                                         *)
(* As the kernel is built (-O2) vfs_write loads p->size once, before its   *)
(* loop, and stores it after every byte; vfs_read loads p->size and        *)
(* p->read_pos after it has taken a byte and then stores both.             *)
(***************************************************************************)
EXTENDS Integers, Sequences

CONSTANTS
  Readers,      \* processes that inherit the read end
  Writers,      \* processes that inherit the write end
  CAPACITY,     \* VFS_PIPE_CAPACITY
  MaxSent,      \* bound on the bytes written
  MaxCount,     \* bound on the count of one call
  Preemptible   \* whether a read or write may be preempted by another one

ASSUME PipeAssumption ==
  /\ CAPACITY \in Nat \ {0} /\ MaxSent \in Nat /\ MaxCount \in Nat \ {0}
  /\ Preemptible \in BOOLEAN

VARIABLES
  data, read_pos, write_pos, size,
  readers, writers,     \* the processes that still hold an end
  io,                   \* each process's call: what is left of it, and its registers
  sent, got             \* the number of bytes written, and the bytes read

vars == <<data, read_pos, write_pos, size, readers, writers, io, sent, got>>

Procs == Readers \cup Writers
Pos == 0..(CAPACITY - 1)
\* size_t wraps below zero: some value no pipe can hold.
Huge == 2 * CAPACITY
NoIo == [at |-> "idle", left |-> 0, size |-> 0, pos |-> 0]

Init ==
  /\ data = [i \in Pos |-> 0]
  /\ read_pos = 0 /\ write_pos = 0 /\ size = 0
  /\ readers = Readers /\ writers = Writers
  /\ io = [p \in Procs |-> NoIo]
  /\ sent = 0 /\ got = << >>

MayRun(p) == Preemptible \/ \A q \in Procs \ {p} : io[q].at = "idle"
Next1(i) == (i + 1) % CAPACITY
Less1(n) == IF n = 0 THEN Huge ELSE n - 1

----------------------------------------------------------------------------
(* vfs_write on the write end *)

\* Nothing is written when no reader is left or the ring is full.
WriteCall(p, count) ==
  /\ p \in writers /\ io[p].at = "idle" /\ MayRun(p)
  /\ readers # {} /\ size < CAPACITY
  /\ sent + count <= MaxSent
  /\ io' = [io EXCEPT ![p] = [at |-> "write", left |-> count, size |-> size, pos |-> 0]]
  /\ UNCHANGED <<data, read_pos, write_pos, size, readers, writers, sent, got>>

WriteByte(p) ==
  LET n == io[p].size + 1
      left == io[p].left - 1
  IN  /\ io[p].at = "write" /\ MayRun(p)
      /\ data' = [data EXCEPT ![write_pos] = sent + 1]
      /\ sent' = sent + 1
      /\ write_pos' = Next1(write_pos)
      /\ size' = n
      /\ io' = [io EXCEPT ![p] = IF left > 0 /\ n < CAPACITY
                                 THEN [@ EXCEPT !.left = left, !.size = n] ELSE NoIo]
      /\ UNCHANGED <<read_pos, readers, writers, got>>

----------------------------------------------------------------------------
(* vfs_read on the read end: an empty pipe gives nothing *)

ReadCall(p, count) ==
  /\ p \in readers /\ io[p].at = "idle" /\ MayRun(p)
  /\ size > 0
  /\ io' = [io EXCEPT ![p] = [at |-> "take", left |-> count, size |-> 0, pos |-> 0]]
  /\ UNCHANGED <<data, read_pos, write_pos, size, readers, writers, sent, got>>

ReadTake(p) ==
  /\ io[p].at = "take" /\ MayRun(p)
  /\ got' = Append(got, data[read_pos])
  /\ io' = [io EXCEPT ![p].at = "store", ![p].size = size, ![p].pos = read_pos]
  /\ UNCHANGED <<data, read_pos, write_pos, size, readers, writers, sent>>

\* A fault: the last byte of a call is copied out and left in the ring.
ReadStore_keeps_last(p) ==
  LET n == Less1(io[p].size)
      left == io[p].left - 1
  IN  /\ io[p].at = "store" /\ MayRun(p)
      /\ read_pos' = IF left > 0 THEN Next1(io[p].pos) ELSE io[p].pos
      /\ size' = IF left > 0 THEN n ELSE io[p].size
      /\ io' = [io EXCEPT ![p] = IF left > 0 /\ n > 0
                                 THEN [@ EXCEPT !.at = "take", !.left = left] ELSE NoIo]
      /\ UNCHANGED <<data, write_pos, readers, writers, sent, got>>

ReadStore(p) ==
  LET n == Less1(io[p].size)
      left == io[p].left - 1
  IN  /\ io[p].at = "store" /\ MayRun(p)
      /\ read_pos' = Next1(io[p].pos)
      /\ size' = n
      /\ io' = [io EXCEPT ![p] = IF left > 0 /\ n > 0
                                 THEN [@ EXCEPT !.at = "take", !.left = left] ELSE NoIo]
      /\ UNCHANGED <<data, write_pos, readers, writers, sent, got>>

----------------------------------------------------------------------------
(* vfs_close, or the exit of a process, also while another is inside a call: *)
(* the end goes with its last holder.                                        *)

CloseRead(p) ==
  /\ io[p].at = "idle" /\ p \in readers
  /\ readers' = readers \ {p}
  /\ UNCHANGED <<data, read_pos, write_pos, size, writers, io, sent, got>>

CloseWrite(p) ==
  /\ io[p].at = "idle" /\ p \in writers
  /\ writers' = writers \ {p}
  /\ UNCHANGED <<data, read_pos, write_pos, size, readers, io, sent, got>>

Next == \E p \in Procs :
  \/ \E count \in 1..MaxCount : WriteCall(p, count) \/ ReadCall(p, count)
  \/ WriteByte(p) \/ ReadTake(p) \/ ReadStore(p) \/ CloseRead(p) \/ CloseWrite(p)

Spec == Init /\ [][Next]_vars

\* vfs_file_poll_mask for the read end.
PollRead == (IF size > 0 THEN {"POLLIN"} ELSE {}) \cup (IF writers = {} THEN {"POLLHUP"} ELSE {})

----------------------------------------------------------------------------
(* Properties *)

\* The positions stay in the ring and the size within its capacity.
TypeOK ==
  /\ data \in [Pos -> 0..MaxSent]
  /\ read_pos \in Pos /\ write_pos \in Pos /\ size \in 0..CAPACITY
  /\ readers \subseteq Readers /\ writers \subseteq Writers
  /\ io \in [Procs -> [at : {"idle", "write", "take", "store"}, left : 0..MaxCount,
                        size : 0..CAPACITY, pos : Pos]]
  /\ sent \in 0..MaxSent /\ got \in Seq(0..MaxSent)

\* No two processes are inside vfs_read or vfs_write of this pipe.
OneCall == \A p, q \in Procs : io[p].at # "idle" /\ io[q].at # "idle" => p = q

\* The bytes come out in the order they went in, none twice, none left out, none
\* that was never written (the ring's two positions and its size agree however
\* calls of different lengths fill, drain and wrap it).
BytesInOrder == \A i \in DOMAIN got : got[i] = i

\* Nothing stays behind or is invented: between calls the ring holds what was
\* written and not yet read.
Conserved ==
  (\A p \in Procs : io[p].at = "idle") =>
    /\ size = sent - Len(got)
    /\ \A i \in 0..(size - 1) : data[(read_pos + i) % CAPACITY] = Len(got) + i + 1

\* A reader that polls POLLHUP without POLLIN has seen the end of the stream:
\* every byte any writer wrote has been read, and none is being written.
HangupMeansDrained ==
  PollRead = {"POLLHUP"} /\ (\A p \in Procs : io[p].at \notin {"take", "store"}) =>
    Len(got) = sent /\ \A p \in Procs : io[p].at # "write"

\* What a pipe promises the processes at its two ends: the three above.
PipeSound == BytesInOrder /\ Conserved /\ HangupMeansDrained

============================================================================
