-------------------------------- MODULE Vfs --------------------------------
(***************************************************************************)
(* Descriptors: the per-process descriptor tables, the global table of     *)
(* open files and the pipe table of fs/vfs.c, as processes open, duplicate,*)
(* inherit, clone and close descriptors, exit, are killed and are reaped.  *)
(*                                                                         *)
(* fs/vfs.c takes no lock and system calls run with interrupts on, so a    *)
(* process may be preempted inside a call; proc/process.c calls into it    *)
(* (spawn, clone, exit, kill, reap) with interrupts off.  Contents and     *)
(* offsets are left out: a file is a regular file or one end of a pipe.    *)
(***************************************************************************)
EXTENDS Integers, FiniteSets

CONSTANTS
  Procs,     \* process slots
  First,     \* the one that runs at first
  FDS,       \* PROCESS_MAX_OPEN_FILES
  FILES,     \* VFS_MAX_OPEN_GLOBAL
  PIPES,     \* VFS_MAX_PIPES
  MaxRef,    \* bound on refcount, above the table entries there are unless references leak
  Races      \* what this instance admits, see below

(***************************************************************************)
(* Races:                                                                  *)
(*   "alloc"   another process runs between file_alloc's test of `used`    *)
(*             and its store, while it clears the file                     *)
(*   "release" another process runs between file_release's load of         *)
(*             refcount and its store                                      *)
(*   "kill"    a process is killed inside a call                           *)
(*   "create"  create_kernel_process_locked fails after the descriptors    *)
(*             were inherited                                              *)
(***************************************************************************)
RaceNames == {"alloc", "release", "kill", "create"}

ASSUME VfsAssumption ==
  /\ First \in Procs /\ IsFiniteSet(Procs)
  /\ FDS \in Nat \ {0} /\ FILES \in Nat \ {0} /\ PIPES \in Nat \ {0} /\ MaxRef \in Nat
  /\ Races \subseteq RaceNames

VARIABLES
  life,      \* Procs -> "free", "live" or "zombie"
  fds,       \* Procs -> open_files[]
  file,      \* g_open_files
  pipe,      \* g_pipes, without the bytes
  call       \* each process's place in a call, and its locals

vars == <<life, fds, file, pipe, call>>

Null == -1                   \* an empty table entry, and "none found"
Reserved == -2               \* (void *)1
FD == 0..(FDS - 1)
File == 0..(FILES - 1)
Pipe == 0..(PIPES - 1)
Ends == {"r", "w"}

FileType == [used : BOOLEAN, refcount : 0..(Cardinality(Procs) * FDS),
             backend : {"none", "regular", "pipe"}, pipe : Pipe \cup {Null}, ends : SUBSET Ends]
PipeType == [used : BOOLEAN, readers : 0..1, writers : 0..1]

FreeFile == [used |-> FALSE, refcount |-> 0, backend |-> "none", pipe |-> Null, ends |-> {}]
FreePipe == [used |-> FALSE, readers |-> 0, writers |-> 0]

\* A call's locals: fd_r and fd_w, the pipe p, the files fr (or f) and fw, the
\* refcount file_release has loaded, the child being spawned.
NoCall == [at |-> "idle", fd_r |-> Null, fd_w |-> Null, p |-> Null, fr |-> Null, fw |-> Null,
           loaded |-> 0, child |-> Null]
Places == {"idle", "open.claim", "open.fill", "pipe.first", "pipe.second", "pipe.fill",
           "close", "spawn"}
CallType == [at : Places, fd_r : FD \cup {Null}, fd_w : FD \cup {Null}, p : Pipe \cup {Null},
             fr : File \cup {Null}, fw : File \cup {Null}, loaded : Nat, child : Procs \cup {Null}]

Empty == [fd \in FD |-> Null]

Init ==
  /\ life = [p \in Procs |-> IF p = First THEN "live" ELSE "free"]
  /\ fds = [p \in Procs |-> Empty]
  /\ file = [f \in File |-> FreeFile]
  /\ pipe = [q \in Pipe |-> FreePipe]
  /\ call = [p \in Procs |-> NoCall]

----------------------------------------------------------------------------
(* Helpers *)

\* The first element of S, as the scans of the three tables find it.
FirstOf(S) == IF S = {} THEN Null ELSE CHOOSE x \in S : \A y \in S : x <= y

process_fd_alloc(tbl) == FirstOf({fd \in FD : tbl[fd] = Null})
FreeFiles(files) == FirstOf({f \in File : ~files[f].used})

\* file_alloc's second half: the file is cleared and claimed.
Claimed(files, f) ==
  IF f = Null THEN files ELSE [files EXCEPT ![f] = [FreeFile EXCEPT !.used = TRUE, !.refcount = 1]]

\* file_release called k[f] times for each file f: a count above one is lowered,
\* the last reference frees the file (its other fields stay as they are, unread
\* until file_alloc clears them) ...
Gone(files, k) == {f \in File : files[f].used /\ k[f] > 0 /\ files[f].refcount <= k[f]}
FilesAfter(files, k) ==
  [f \in File |->
     IF f \in Gone(files, k) THEN FreeFile
     ELSE IF files[f].used THEN [files[f] EXCEPT !.refcount = @ - k[f]] ELSE files[f]]

\* A count less the ends in S, never below zero.
Lowered(n, S) == IF n > Cardinality(S) THEN n - Cardinality(S) ELSE 0

\* A fault: the pipe goes with either of its ends.
PipesAfter_either_end(files, k) ==
  [q \in Pipe |->
     LET gone == {f \in Gone(files, k) : files[f].backend = "pipe" /\ files[f].pipe = q}
         readers == Lowered(pipe[q].readers, {f \in gone : "r" \in files[f].ends})
         writers == Lowered(pipe[q].writers, {f \in gone : "w" \in files[f].ends})
     IN  IF gone = {} THEN pipe[q]
         ELSE [used |-> pipe[q].used /\ ~(readers = 0 \/ writers = 0),
               readers |-> readers, writers |-> writers]]

\* A fault: an end goes with any reference to it.
PipesAfter_every_close(files, k) ==
  [q \in Pipe |->
     LET gone == {f \in File : k[f] > 0 /\ files[f].backend = "pipe" /\ files[f].pipe = q}
         readers == Lowered(pipe[q].readers, {f \in gone : "r" \in files[f].ends})
         writers == Lowered(pipe[q].writers, {f \in gone : "w" \in files[f].ends})
     IN  IF gone = {} THEN pipe[q]
         ELSE [used |-> pipe[q].used /\ ~(readers = 0 /\ writers = 0),
               readers |-> readers, writers |-> writers]]

\* ... and with it its end of a pipe; the pipe goes with its last end.
PipesAfter(files, k) ==
  [q \in Pipe |->
     LET gone == {f \in Gone(files, k) : files[f].backend = "pipe" /\ files[f].pipe = q}
         readers == Lowered(pipe[q].readers, {f \in gone : "r" \in files[f].ends})
         writers == Lowered(pipe[q].writers, {f \in gone : "w" \in files[f].ends})
     IN  IF gone = {} THEN pipe[q]
         ELSE [used |-> pipe[q].used /\ ~(readers = 0 /\ writers = 0),
               readers |-> readers, writers |-> writers]]

\* How often each file is in the entries S of a table.
Entries(tbl, S) == [f \in File |-> Cardinality({fd \in S : tbl[fd] = f})]
Once(f) == [g \in File |-> IF g = f THEN 1 ELSE 0]

\* fd_close_on_table of the entries S of p's table.
Closing(p, S) ==
  /\ file' = FilesAfter(file, Entries(fds[p], S))
  /\ pipe' = PipesAfter(file, Entries(fds[p], S))
  /\ fds' = [fds EXCEPT ![p] = [fd \in FD |-> IF fd \in S THEN Null ELSE @[fd]]]

\* The cap on counts that grow when references leak.
Bounded == \A f \in File : file'[f].refcount <= MaxRef

Idle(p) == life[p] = "live" /\ call[p].at = "idle"

\* Whether p may run: a call is interrupted only inside a window this instance
\* admits.  A spawn is not such a window: its steps are critical sections with
\* interrupts on between them.
Window(at) == CASE at \in {"open.claim", "pipe.first", "pipe.second"} -> "alloc" \in Races
                [] at = "close" -> "release" \in Races
                [] at \in {"open.fill", "pipe.fill"} -> "alloc" \in Races \/ "release" \in Races
                [] OTHER -> TRUE
MayRun(p) == \A q \in Procs \ {p} : life[q] = "live" => Window(call[q].at)

Returns(p) == call' = [call EXCEPT ![p] = NoCall]

----------------------------------------------------------------------------
(* vfs_open_flags, once the path is resolved and the mount allows the flags *)

OpenScan(p) ==
  /\ Idle(p) /\ MayRun(p)
  /\ FreeFiles(file) # Null
  /\ call' = [call EXCEPT ![p] = [NoCall EXCEPT !.at = "open.claim", !.fr = FreeFiles(file)]]
  /\ UNCHANGED <<life, fds, file, pipe>>

OpenClaim(p) ==
  /\ call[p].at = "open.claim" /\ MayRun(p)
  /\ file' = Claimed(file, call[p].fr)
  /\ call' = [call EXCEPT ![p].at = "open.fill"]
  /\ UNCHANGED <<life, fds, pipe>>

\* The backend opens the file and it gets a descriptor ...
OpenInstall(p) ==
  /\ call[p].at = "open.fill" /\ MayRun(p)
  /\ process_fd_alloc(fds[p]) # Null
  /\ file' = [file EXCEPT ![call[p].fr].backend = "regular"]
  /\ fds' = [fds EXCEPT ![p][process_fd_alloc(fds[p])] = call[p].fr]
  /\ Returns(p)
  /\ UNCHANGED <<life, pipe>>

\* ... or the backend has no such file, or the table is full, and it is released.
OpenBackOut(p) ==
  /\ call[p].at = "open.fill" /\ MayRun(p)
  /\ file' = FilesAfter(file, Once(call[p].fr))
  /\ pipe' = PipesAfter(file, Once(call[p].fr))
  /\ Returns(p)
  /\ UNCHANGED <<life, fds>>

----------------------------------------------------------------------------
(* vfs_close, vfs_dup, vfs_dup2 *)

\* fd_close_on_table empties the entry, then file_release reads the count.
CloseEntry(p, fd) ==
  /\ Idle(p) /\ MayRun(p)
  /\ fds[p][fd] # Null
  /\ fds' = [fds EXCEPT ![p][fd] = Null]
  /\ call' = [call EXCEPT ![p] = IF fds[p][fd] = Reserved \/ ~file[fds[p][fd]].used THEN NoCall
                                 ELSE [NoCall EXCEPT !.at = "close", !.fr = fds[p][fd],
                                                     !.loaded = file[fds[p][fd]].refcount]]
  /\ UNCHANGED <<life, file, pipe>>

\* A count above one is stored back lowered; otherwise the file goes.
CloseRelease(p) ==
  LET f == call[p].fr
  IN  /\ call[p].at = "close" /\ MayRun(p)
      /\ IF call[p].loaded > 1
         THEN /\ file' = [file EXCEPT ![f].refcount = call[p].loaded - 1]
              /\ UNCHANGED pipe
         ELSE /\ file' = FilesAfter([file EXCEPT ![f].refcount = 1], Once(f))
              /\ pipe' = PipesAfter([file EXCEPT ![f].refcount = 1], Once(f))
      /\ Returns(p)
      /\ UNCHANGED <<life, fds>>

Dup(p, oldfd) ==
  LET f == fds[p][oldfd]
      newfd == process_fd_alloc(fds[p])
  IN  /\ Idle(p) /\ MayRun(p)
      /\ f \in File /\ newfd # Null
      /\ file' = [file EXCEPT ![f].refcount = @ + 1] /\ Bounded
      /\ fds' = [fds EXCEPT ![p][newfd] = f]
      /\ UNCHANGED <<life, pipe, call>>

Dup2(p, oldfd, newfd) ==
  LET f == fds[p][oldfd]
      k == Entries(fds[p], {newfd})
  IN  /\ Idle(p) /\ MayRun(p)
      /\ f \in File /\ oldfd # newfd
      /\ file' = [FilesAfter(file, k) EXCEPT ![f].refcount = @ + 1] /\ Bounded
      /\ pipe' = PipesAfter(file, k)
      /\ fds' = [fds EXCEPT ![p][newfd] = f]
      /\ UNCHANGED <<life, call>>

----------------------------------------------------------------------------
(* vfs_pipe *)

\* Two entries are reserved and a pipe is claimed (pipe_alloc), if there is one;
\* file_alloc looks for the first file.
PipeReserve(p) ==
  LET fd_r == process_fd_alloc(fds[p])
      fd_w == FirstOf({fd \in FD : fds[p][fd] = Null /\ fd # fd_r})
      q == FirstOf({r \in Pipe : ~pipe[r].used})
  IN  /\ Idle(p) /\ MayRun(p)
      /\ fd_r # Null /\ fd_w # Null
      /\ fds' = [fds EXCEPT ![p][fd_r] = Reserved, ![p][fd_w] = Reserved]
      /\ pipe' = IF q = Null THEN pipe ELSE [pipe EXCEPT ![q] = [FreePipe EXCEPT !.used = TRUE]]
      /\ call' = [call EXCEPT ![p] = [NoCall EXCEPT !.at = "pipe.first", !.fd_r = fd_r,
                                        !.fd_w = fd_w, !.p = q, !.fr = FreeFiles(file)]]
      /\ UNCHANGED <<life, file>>

PipeFirst(p) ==
  /\ call[p].at = "pipe.first" /\ MayRun(p)
  /\ file' = Claimed(file, call[p].fr)
  /\ call' = [call EXCEPT ![p].at = "pipe.second", ![p].fw = FreeFiles(file')]
  /\ UNCHANGED <<life, fds, pipe>>

PipeSecond(p) ==
  /\ call[p].at = "pipe.second" /\ MayRun(p)
  /\ file' = Claimed(file, call[p].fw)
  /\ call' = [call EXCEPT ![p].at = "pipe.fill"]
  /\ UNCHANGED <<life, fds, pipe>>

PipeEnd(files, f, q, end) ==
  [files EXCEPT ![f].backend = "pipe", ![f].pipe = q, ![f].ends = {end}]

PipeInstall(p) ==
  LET c == call[p]
  IN  /\ c.at = "pipe.fill" /\ MayRun(p)
      /\ Null \notin {c.p, c.fr, c.fw}
      /\ file' = PipeEnd(PipeEnd(file, c.fr, c.p, "r"), c.fw, c.p, "w")
      /\ pipe' = [pipe EXCEPT ![c.p].readers = 1, ![c.p].writers = 1]
      /\ fds' = [fds EXCEPT ![p][c.fd_r] = c.fr, ![p][c.fd_w] = c.fw]
      /\ Returns(p)
      /\ UNCHANGED life

\* Something was missing: what was claimed is given back.
PipeBackOut(p) ==
  LET c == call[p]
      k == [f \in File |-> IF f \in {c.fr, c.fw} THEN 1 ELSE 0]
  IN  /\ c.at = "pipe.fill" /\ MayRun(p)
      /\ Null \in {c.p, c.fr, c.fw}
      /\ file' = FilesAfter(file, k)
      /\ pipe' = IF c.p = Null THEN pipe ELSE [pipe EXCEPT ![c.p].used = FALSE]
      /\ fds' = [fds EXCEPT ![p][c.fd_r] = Null, ![p][c.fd_w] = Null]
      /\ Returns(p)
      /\ UNCHANGED life

----------------------------------------------------------------------------
(* Processes *)

\* A fault: the child's references are not counted.
Inherited_uncounted(p) == file

Inherited(p) == [f \in File |-> [file[f] EXCEPT !.refcount = @ + Entries(fds[p], FD)[f]]]

\* process_spawn_kernel: the child's slot is cleared and vfs_process_inherit
\* copies the parent's table.  SYSTEM_CMD_SPAWN_EX goes on to clone descriptors.
Spawn(p, c) ==
  /\ Idle(p) /\ MayRun(p)
  /\ life[c] = "free"
  /\ life' = [life EXCEPT ![c] = "live"]
  /\ fds' = [fds EXCEPT ![c] = fds[p]]
  /\ file' = Inherited(p) /\ Bounded
  /\ call' = [call EXCEPT ![p] = [NoCall EXCEPT !.at = "spawn", !.child = c], ![c] = NoCall]
  /\ UNCHANGED pipe

\* No stack for the child: the slot is free again, what it inherited is not
\* given back.
SpawnFails(p, c) ==
  /\ "create" \in Races
  /\ Idle(p) /\ MayRun(p)
  /\ life[c] = "free"
  /\ file' = Inherited(p) /\ Bounded
  /\ UNCHANGED <<life, fds, pipe, call>>

\* process_clone_fd(child, dst_fd, parent, src_fd): the child may have run, and
\* may have exited, since it was made.
CloneFd(p, dst_fd, src_fd) ==
  LET c == call[p].child
      f == fds[p][src_fd]
      k == Entries(fds[c], {dst_fd})
  IN  /\ life[p] = "live" /\ call[p].at = "spawn" /\ MayRun(p)
      /\ f \in File
      /\ file' = [FilesAfter(file, k) EXCEPT ![f].refcount = @ + 1] /\ Bounded
      /\ pipe' = PipesAfter(file, k)
      /\ fds' = [fds EXCEPT ![c][dst_fd] = f]
      /\ UNCHANGED <<life, call>>

SpawnDone(p) ==
  /\ life[p] = "live" /\ call[p].at = "spawn" /\ MayRun(p)
  /\ Returns(p)
  /\ UNCHANGED <<life, fds, file, pipe>>

\* mark_zombie_locked, through vfs_process_cleanup: at exit, or when the process
\* is killed between calls, in a spawn or (Races) inside any call.  What the
\* release of a reserved entry does to memory is left out.
Die(p) ==
  /\ life[p] = "live"
  /\ \/ call[p].at = "idle" /\ MayRun(p)
     \/ call[p].at = "spawn" /\ MayRun(p)
     \/ "kill" \in Races /\ \E q \in Procs \ {p} : Idle(q)
  /\ life' = [life EXCEPT ![p] = "zombie"]
  /\ Closing(p, FD)
  /\ Returns(p)

\* free_process_resources_locked: the parent's waitpid cleans up once more.
Reap(p) ==
  /\ life[p] = "zombie" /\ MayRun(p)
  /\ \A q \in Procs : life[q] = "live" => call[q].child # p
  /\ life' = [life EXCEPT ![p] = "free"]
  /\ Closing(p, FD)
  /\ UNCHANGED call

Next ==
  \/ \E p \in Procs :
       \/ OpenScan(p) \/ OpenClaim(p) \/ OpenInstall(p) \/ OpenBackOut(p)
       \/ CloseRelease(p)
       \/ PipeReserve(p) \/ PipeFirst(p) \/ PipeSecond(p) \/ PipeInstall(p) \/ PipeBackOut(p)
       \/ SpawnDone(p) \/ Die(p) \/ Reap(p)
  \/ \E p \in Procs, fd \in FD : CloseEntry(p, fd) \/ Dup(p, fd)
  \/ \E p \in Procs, a, b \in FD : Dup2(p, a, b) \/ CloneFd(p, a, b)
  \/ \E p, c \in Procs : Spawn(p, c) \/ SpawnFails(p, c)

Spec == Init /\ [][Next]_vars

----------------------------------------------------------------------------
(* Properties *)

\* The tables keep their types; no count exceeds the number of table entries.
TypeOK ==
  /\ life \in [Procs -> {"free", "live", "zombie"}]
  /\ fds \in [Procs -> [FD -> File \cup {Null, Reserved}]]
  /\ file \in [File -> FileType]
  /\ pipe \in [Pipe -> PipeType]
  /\ call \in [Procs -> CallType]

\* The table entries of processes that are not reaped, and the calls, that refer
\* to file f.
Holders(f) == {h \in Procs \X FD : life[h[1]] # "free" /\ fds[h[1]][h[2]] = f}
Callers(f) == {p \in Procs : \/ call[p].at \in {"open.fill", "close", "pipe.second"} /\ call[p].fr = f
                             \/ call[p].at = "pipe.fill" /\ f \in {call[p].fr, call[p].fw}}
Refs(f) == Cardinality(Holders(f)) + Cardinality(Callers(f))

\* refcount is the number of descriptors of all processes that refer to the file,
\* and no descriptor refers to a file that was released, however dup, dup2,
\* inheritance, clones, exits and reaps interleave (fs/vfs.c, file_release).
RefCountsExact ==
  \A f \in File : IF file[f].used THEN file[f].refcount = Refs(f) ELSE Refs(f) = 0

Held(q, end) ==
  \E p \in Procs, fd \in FD :
    /\ life[p] # "free" /\ fds[p][fd] \in File
    /\ file[fds[p][fd]].backend = "pipe" /\ file[fds[p][fd]].pipe = q
    /\ end \in file[fds[p][fd]].ends

\* Calls that have a pipe or one of its files in hand.
Quiet(q) == \A p \in Procs : call[p].p # q /\ (call[p].at = "close" => file[call[p].fr].pipe # q)

\* A pipe counts an end exactly while some process holds a descriptor of it: the
\* reader's POLLHUP, and the writer's, come when the last one is closed and not
\* before, and a pipe is freed exactly when both ends are gone.
HangupIsExact ==
  \A q \in Pipe : Quiet(q) =>
    /\ pipe[q].readers > 0 <=> Held(q, "r")
    /\ pipe[q].writers > 0 <=> Held(q, "w")
    /\ pipe[q].used <=> Held(q, "r") \/ Held(q, "w")

\* Together: every reference to an open file is counted, and so is every end of
\* a pipe, whatever the order of opens, closes, clones, exits and reaps.
CountsExact == RefCountsExact /\ HangupIsExact

\* What a descriptor refers to never changes under it: an open file is not
\* recycled while some table still points at it.
FileKept ==
  \A p \in Procs, fd \in FD :
     LET f == fds[p][fd]
     IN  /\ life[p] # "free" /\ f \in File /\ fds'[p][fd] = f
         /\ life'[p] # "free"
         => /\ file'[f].used
            /\ file'[f].backend = file[f].backend
            /\ file'[f].pipe = file[f].pipe /\ file'[f].ends = file[f].ends
DescriptorKeepsItsFile == [][FileKept]_vars

\* Even when processes are killed inside calls and spawns fail half way, no
\* descriptor refers to a released file, and no count is below the number of
\* descriptors: references may be left behind, never dropped twice.
NoDanglingFd ==
  \A f \in File : Holders(f) # {} => file[f].used /\ file[f].refcount >= Cardinality(Holders(f))

\* ... and no hangup comes early: while a descriptor of an end is held, the pipe
\* lives and counts the end.
HangupNeverEarly ==
  \A q \in Pipe : /\ Held(q, "r") => pipe[q].used /\ pipe[q].readers > 0
                  /\ Held(q, "w") => pipe[q].used /\ pipe[q].writers > 0

\* Both: what a kill inside a call cannot do.
KillSafe == NoDanglingFd /\ HangupNeverEarly

\* The entries vfs_pipe reserves are its own: only the vfs_pipe that reserved an
\* entry ends the reservation.
ReservedUntilDone ==
  [][\A p \in Procs, fd \in FD :
       fds[p][fd] = Reserved /\ fds'[p][fd] # Reserved => call[p].at = "pipe.fill" /\ life'[p] = "live"]_vars

============================================================================
