-------------------------------- MODULE Shell --------------------------------
(***************************************************************************)
(* The shell (user/lib/shell.c) as the terminal and the start-up scripts   *)
(* use it: a line of commands is a pipeline of processes, started with     *)
(* SYSTEM_CMD_SPAWN_EX, that hand bytes to each other through pipes, and   *)
(* the shell waits for them.                                               *)
(*                                                                         *)
(* Every system call is one step and any process may run between two of    *)
(* them, a child between the calls that set up its command line and its    *)
(* descriptors included.  Descriptor numbers are real: no process has      *)
(* 0, 1 and 2 reserved, so a pipe may well get them.  Parsing is left out: *)
(* a line is its commands and whether it redirects; a byte stands for a    *)
(* write of the program.  What a line returns is left out: only the        *)
(* self-tests look at it.                                                  *)
(***************************************************************************)
EXTENDS Integers, FiniteSets, SequencesExt

CONSTANTS
  Jobs,            \* [caller: "terminal" or "script", lines: Seq of lines]
  Text,            \* the bytes echo prints when it sees its arguments
  PIPE_CAPACITY,   \* VFS_PIPE_CAPACITY
  MaxFds,          \* PROCESS_MAX_OPEN_FILES
  MaxProcs,        \* bound on the processes a job starts
  Faults           \* subset of {"kill", "nopipe", "noopen"}

VARIABLES
  job,      \* what the calling process does
  ln,       \* the line it is at
  pc,       \* its place in shell_exec_line
  k,        \* the stage or pipe it is at
  pids,     \* stage -> process of the current line
  redir,    \* redir_fd, -1
  pipefds,  \* pipe -> <<read end, write end>> of the current line
  closing,  \* descriptors still to be closed
  tbl,      \* process -> descriptor table; 0 is the caller
  child,    \* the processes started
  data,     \* pipe -> its bytes
  npipes,   \* pipes made so far
  file,     \* the redirection target
  shown,    \* what the terminal has shown
  hit       \* whether a fault has happened

vars == <<job, ln, pc, k, pids, redir, pipefds, closing, tbl, child, data, npipes,
          file, shown, hit>>
shellvars == <<job, ln, pids, redir, pipefds, closing>>

Procs == 1..MaxProcs
Fds == 0..(MaxFds - 1)
NoFile == <<"none", 0>>
Pipes == DOMAIN data
NoTable == [fd \in Fds |-> NoFile]
NoChild == [st |-> "none", cmd |-> "", args |-> FALSE, got |-> <<>>, todo |-> <<>>, at |-> "start",
            late |-> {}]  \* ghost: descriptors given to it after it had ended

Line == job.lines[ln]
Stages == Len(Line.cmds)
Terminal == job.caller = "terminal"
\* term_capture_shell passes its pipe's write end, a script 1 and 2.
out_fd == 1
err_fd == IF Terminal THEN 1 ELSE 2

-----------------------------------------------------------------------------
(* Descriptors, pipes and files as the calls see them.                     *)

Open(t, f) == \E p \in DOMAIN t, fd \in Fds : t[p][fd] = f
Free(p) == {fd \in Fds : tbl[p][fd] = NoFile}
Lowest(S) == CHOOSE x \in S : \A y \in S : x <= y
Lookup(p, fd) == IF fd \in Fds THEN tbl[p][fd] ELSE NoFile

\* vfs_read of one byte: an empty pipe reads as the end of the input.
Readable(f) == f[1] = "R" /\ data[f[2]] # <<>>
\* vfs_write of one byte.
Writable(f) == f[1] = "file" \/ (f[1] = "W" /\ Open(tbl, <<"R", f[2]>>) /\ Len(data[f[2]]) < PIPE_CAPACITY)
Write(f, b) ==
  /\ file' = IF f[1] = "file" THEN Append(file, b) ELSE file
  /\ data' = IF f[1] = "W" /\ Writable(f) THEN [data EXCEPT ![f[2]] = Append(@, b)] ELSE data

-----------------------------------------------------------------------------
(* The calling process: shell_exec_line.                                   *)

Init ==
  /\ job \in Jobs
  /\ ln = 1 /\ pc = "begin" /\ k = 1
  /\ pids = <<>> /\ redir = -1 /\ pipefds = <<>> /\ closing = <<>>
  /\ tbl = [p \in {0} \cup Procs |-> NoTable]
  /\ child = [p \in Procs |-> NoChild]
  /\ data = [i \in {} |-> <<>>] /\ npipes = 0
  /\ file = <<>> /\ shown = <<>> /\ hit = FALSE

Kids == <<child, file, shown, hit>>
Spawned == Cardinality({p \in Procs : child[p].st # "none"})

\* pipe(): the two lowest descriptors.
MakePipe(i) ==
  LET r == Lowest(Free(0))  w == Lowest(Free(0) \ {r})
  IN  /\ Cardinality(Free(0)) >= 2
      /\ tbl' = [tbl EXCEPT ![0][r] = <<"R", i>>, ![0][w] = <<"W", i>>]
      /\ data' = [j \in Pipes \cup {i} |-> IF j = i THEN <<>> ELSE data[j]]
      /\ npipes' = npipes + 1

\* term_capture_shell makes the pipe that will hold the output; a script has none.
Begin ==
  /\ pc = "begin"
  /\ IF Terminal THEN MakePipe(npipes + 1) ELSE UNCHANGED <<tbl, data, npipes>>
  /\ pc' = IF Line.cmds = <<"cd">> THEN "return" ELSE "open"
  /\ k' = 1 /\ pids' = <<>> /\ pipefds' = <<>> /\ redir' = -1
  /\ UNCHANGED <<job, ln, closing, Kids>>

\* The terminal gets no pipe: the line is not run.
BeginFails ==
  /\ pc = "begin" /\ Terminal /\ "nopipe" \in Faults
  /\ hit' = TRUE
  /\ shown' = Append(shown, "err")
  /\ pc' = "next"
  /\ UNCHANGED <<k, shellvars, tbl, child, data, npipes, file>>

OpenRedirection ==
  /\ pc = "open"
  /\ IF Line.redir
     THEN LET fd == Lowest(Free(0))
          IN  redir' = fd /\ tbl' = [tbl EXCEPT ![0][fd] = <<"file", 0>>] /\ file' = <<>>
     ELSE UNCHANGED <<redir, tbl, file>>
  /\ pc' = IF Stages > 1 THEN "pipe" ELSE "spawn"
  /\ UNCHANGED <<job, ln, k, pids, pipefds, closing, child, data, npipes, shown, hit>>

\* The file cannot be opened: the line is over before anything was started.
OpenFails ==
  /\ pc = "open" /\ Line.redir /\ "noopen" \in Faults
  /\ hit' = TRUE
  /\ Write(Lookup(0, err_fd), "err")
  /\ pc' = "return"
  /\ UNCHANGED <<k, shellvars, tbl, child, npipes, shown>>

PipeMade ==
  /\ pc = "pipe"
  /\ MakePipe(npipes + 1)
  /\ pipefds' = Append(pipefds, <<Lowest(Free(0)), Lowest(Free(0) \ {Lowest(Free(0))})>>)
  /\ IF k + 1 < Stages THEN k' = k + 1 /\ UNCHANGED pc ELSE k' = 1 /\ pc' = "spawn"
  /\ UNCHANGED <<job, ln, pids, redir, closing, Kids>>

\* A fault: the write ends are not closed.
Ends_read(fds, r) == [i \in DOMAIN fds |-> fds[i][1]] \o (IF r >= 0 THEN <<r>> ELSE <<>>)
Ends(fds, r) == FlattenSeq(fds) \o (IF r >= 0 THEN <<r>> ELSE <<>>)
Cleanup == pc' = "cleanup" /\ closing' = Ends(pipefds, redir)

\* Every pipe of the system is taken: reported like a command that is not found.
PipeFails ==
  /\ pc = "pipe" /\ "nopipe" \in Faults
  /\ hit' = TRUE
  /\ Write(Lookup(0, err_fd), "err")
  /\ Cleanup
  /\ UNCHANGED <<job, ln, k, pids, redir, pipefds, tbl, child, npipes, shown>>

in_target == IF k = 1 THEN 0 ELSE pipefds[k - 1][1]
out_target == IF k < Stages THEN pipefds[k][2] ELSE IF redir >= 0 THEN redir ELSE out_fd

\* SYSTEM_CMD_SPAWN_EX, step by step: the process exists, ready to run, with its
\* parent's descriptors ...
SpawnProcess ==
  LET p == Spawned + 1
  IN  /\ pc = "spawn" /\ Line.cmds[k] # "bad" /\ p \in Procs
      /\ child' = [child EXCEPT ![p] = [NoChild EXCEPT !.st = "live", !.cmd = Line.cmds[k]]]
      /\ tbl' = [tbl EXCEPT ![p] = tbl[0]]
      /\ pids' = Append(pids, p)
      /\ pc' = "cmdline"
      /\ UNCHANGED <<job, ln, k, redir, pipefds, closing, data, npipes, file, shown, hit>>

\* ... a name that is no built-in is reported and ends the line ...
SpawnFails ==
  /\ pc = "spawn" /\ Line.cmds[k] = "bad"
  /\ Write(Lookup(0, err_fd), "err")
  /\ Cleanup
  /\ UNCHANGED <<job, ln, k, pids, redir, pipefds, tbl, child, npipes, shown, hit>>

\* ... its command line is set, if it is still there ...
SetCmdline ==
  /\ pc = "cmdline"
  /\ child' = [child EXCEPT ![pids[k]].args = TRUE]
  /\ pc' = "fd0"
  /\ UNCHANGED <<k, shellvars, tbl, data, npipes, file, shown, hit>>

\* ... and its descriptors 0, 1 and 2 are replaced one at a time.  A process
\* that has ended has closed all of its descriptors, but is given these too.
Clone(dst, src, next) ==
  LET f == Lookup(0, src)  p == pids[k]
  IN  /\ tbl' = IF f = NoFile THEN tbl ELSE [tbl EXCEPT ![p][dst] = f]
      /\ child' = IF f # NoFile /\ child[p].st = "zombie" THEN [child EXCEPT ![p].late = @ \cup {dst}] ELSE child
      /\ pc' = next
      /\ UNCHANGED <<shellvars, data, npipes, file, shown, hit>>

CloneStdin == pc = "fd0" /\ Clone(0, in_target, "fd1") /\ UNCHANGED k
CloneStdout == pc = "fd1" /\ Clone(1, out_target, "fd2") /\ UNCHANGED k
CloneStderr ==
  /\ pc = "fd2"
  /\ IF k < Stages THEN Clone(2, err_fd, "spawn") /\ k' = k + 1
                   ELSE Clone(2, err_fd, "wait") /\ k' = 1

\* waitpid of each stage in turn: it reaps the process.
WaitStage ==
  /\ pc = "wait" /\ child[pids[k]].st = "zombie"
  /\ child' = [child EXCEPT ![pids[k]].st = "gone"]
  /\ tbl' = [tbl EXCEPT ![pids[k]] = NoTable]
  /\ IF k < Stages THEN k' = k + 1 /\ UNCHANGED <<pc, closing>> ELSE k' = 1 /\ Cleanup
  /\ UNCHANGED <<job, ln, pids, redir, pipefds, data, npipes, file, shown, hit>>

CloseOne ==
  /\ pc = "cleanup" /\ closing # <<>>
  /\ tbl' = [tbl EXCEPT ![0][Head(closing)] = NoFile]
  /\ closing' = Tail(closing)
  /\ UNCHANGED <<job, ln, pc, k, pids, redir, pipefds, data, npipes, Kids>>

LineEnds ==
  /\ pc = "cleanup" /\ closing = <<>>
  /\ pc' = "return"
  /\ UNCHANGED <<k, shellvars, tbl, data, npipes, Kids>>

\* The terminal closes its write end, shows what the pipe holds, and closes the
\* other; a script (shell_run_rc_file) goes on.
Returned ==
  /\ pc = "return"
  /\ IF Terminal THEN tbl' = [tbl EXCEPT ![0][1] = NoFile] /\ pc' = "drain"
                 ELSE UNCHANGED tbl /\ pc' = "next"
  /\ UNCHANGED <<k, shellvars, data, npipes, Kids>>

Drain ==
  LET f == Lookup(0, 0)
  IN  /\ pc = "drain"
      /\ IF Readable(f)
         THEN /\ shown' = Append(shown, Head(data[f[2]]))
              /\ data' = [data EXCEPT ![f[2]] = Tail(@)]
              /\ UNCHANGED <<tbl, pc>>
         ELSE tbl' = [tbl EXCEPT ![0][0] = NoFile] /\ pc' = "next" /\ UNCHANGED <<shown, data>>
      /\ UNCHANGED <<k, shellvars, npipes, child, file, hit>>

NextLine ==
  /\ pc = "next" /\ ln < Len(job.lines)
  /\ ln' = ln + 1 /\ pc' = "begin"
  /\ UNCHANGED <<job, k, pids, redir, pipefds, closing, tbl, data, npipes, Kids>>

Caller ==
  \/ Begin \/ BeginFails \/ OpenRedirection \/ OpenFails \/ PipeMade \/ PipeFails \/ SpawnProcess \/ SpawnFails
  \/ SetCmdline \/ CloneStdin \/ CloneStdout \/ CloneStderr \/ WaitStage \/ CloseOne
  \/ LineEnds \/ Returned \/ Drain \/ NextLine

-----------------------------------------------------------------------------
(* The programs: echo prints its arguments; cat copies as it reads; grep   *)
(* and sort read to the end, then print.                                   *)

Running(p, at) == child[p].st = "live" /\ child[p].at = at
Step(p, c) == child' = [child EXCEPT ![p] = c]
Exit(p) == tbl' = [tbl EXCEPT ![p] = NoTable]

\* app_run_main reads the command line once.
ProgramStarts(p) ==
  LET c == child[p]
  IN  /\ Running(p, "start")
      /\ Step(p, IF c.cmd = "echo"
                 THEN [c EXCEPT !.at = "write", !.todo = (IF c.args THEN Text ELSE <<>>) \o <<"nl">>]
                 ELSE [c EXCEPT !.at = "read"])
      /\ UNCHANGED <<pc, k, shellvars, tbl, data, npipes, file, shown, hit>>

ProgramReads(p) ==
  LET c == child[p]  f == tbl[p][0]
  IN  /\ Running(p, "read")
      /\ \/ /\ Readable(f)
            /\ Step(p, IF c.cmd = "cat" THEN [c EXCEPT !.at = "write", !.todo = <<Head(data[f[2]])>>]
                                        ELSE [c EXCEPT !.got = Append(@, Head(data[f[2]]))])
            /\ data' = [data EXCEPT ![f[2]] = Tail(@)]
         \/ /\ ~Readable(f)
            /\ Step(p, IF c.cmd = "cat" THEN [c EXCEPT !.at = "exit"]
                                        ELSE [c EXCEPT !.at = "write", !.todo = c.got])
            /\ UNCHANGED data
      /\ UNCHANGED <<pc, k, shellvars, tbl, npipes, file, shown, hit>>

\* A byte that does not fit is lost; cat gives up.
\* A fault: it is tried again.
AfterWrite_again(c, f) == IF Writable(f) THEN [c EXCEPT !.todo = Tail(@)] ELSE c
AfterWrite(c, f) ==
  IF c.cmd = "cat" /\ ~Writable(f) THEN [c EXCEPT !.at = "exit"] ELSE [c EXCEPT !.todo = Tail(@)]

ProgramWrites(p) ==
  LET c == child[p]  f == tbl[p][1]
  IN  /\ Running(p, "write")
      /\ \/ /\ c.todo = <<>>
            /\ Step(p, [c EXCEPT !.at = IF c.cmd = "cat" THEN "read" ELSE "exit"])
            /\ UNCHANGED <<data, file>>
         \/ /\ c.todo # <<>>
            /\ Write(f, Head(c.todo))
            /\ Step(p, AfterWrite(c, f))
      /\ UNCHANGED <<pc, k, shellvars, tbl, npipes, shown, hit>>

\* process_exit closes everything and leaves a zombie.
ProgramExits(p) ==
  /\ Running(p, "exit")
  /\ Step(p, [child[p] EXCEPT !.st = "zombie"])
  /\ Exit(p)
  /\ UNCHANGED <<pc, k, shellvars, data, npipes, file, shown, hit>>

Kill(p) ==
  /\ "kill" \in Faults /\ ~hit /\ child[p].st = "live"
  /\ Step(p, [child[p] EXCEPT !.st = "zombie"])
  /\ Exit(p)
  /\ hit' = TRUE
  /\ UNCHANGED <<pc, k, shellvars, data, npipes, file, shown>>

Program(p) == ProgramStarts(p) \/ ProgramReads(p) \/ ProgramWrites(p) \/ ProgramExits(p)

Finished == pc = "next" /\ ln = Len(job.lines) /\ \A p \in Procs : child[p].st # "live"
Done == Finished /\ UNCHANGED vars

Next == Caller \/ (\E p \in Procs : Program(p) \/ Kill(p)) \/ Done

\* The scheduler runs every ready process again and again.
Fairness == WF_vars(Caller) /\ \A p \in Procs : WF_vars(Program(p))
Spec == Init /\ [][Next]_vars /\ Fairness

-----------------------------------------------------------------------------
(* Properties.                                                             *)

\* When the job is over and its processes have ended, the caller has the
\* descriptors it started with and every end of every pipe has been given back -
\* whichever stage was not found, was killed or started before it had its
\* descriptors.  One case is left: a process that had ended when it was given a
\* descriptor (process_clone_fd does not look) keeps it until it is waited for,
\* and nobody waits for the stages before a command that is not found.
PipesReleased ==
  Finished =>
    /\ tbl[0] = NoTable
    /\ \A p \in Procs, fd \in Fds :
         tbl[p][fd] # NoFile => child[p].st = "zombie" /\ fd \in child[p].late

\* The last stage prints into the pipe it reads from: a script without
\* redirection, whose out_fd 1 is the write end of its own first pipe.
FedItself(p) == child[p].st = "live" /\ tbl[p][0][1] = "R" /\ tbl[p][1] = <<"W", tbl[p][0][2]>>

\* Every job comes to its end, whatever is killed and however the processes are
\* scheduled: shell_exec_line keeps both ends of every pipe while it waits, so it
\* must never be that a stage waits for an end of input that only the shell can
\* give it.  Excepted is a process that reads what it prints, for ever.
JobsEnd == <>Finished \/ \E p \in Procs : <>[]FedItself(p)

\* phase7_shell_pipeline_test: what the first command prints is, when the line
\* has returned, what the last one has written to the file.
PipelineDelivers ==
  (pc = "next" /\ Line.redir /\ ~hit /\ \A i \in 1..Stages : Line.cmds[i] # "bad")
    => file = Append(Text, "nl")
=============================================================================
