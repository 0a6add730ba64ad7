------------------------------ MODULE PseudoFs ------------------------------
(***************************************************************************)
(* The file systems whose files are made when they are opened: fs/procfs.c,*)
(* fs/sysfs.c, fs/bootfs.c and the devices of fs/vfs.c.  What a file says  *)
(* is left out but for the list of processes; what matters is which paths  *)
(* each of stat, list and open knows.  pids is the set of processes that   *)
(* exist (0 is the kernel's own), self the one that calls, modules the     *)
(* names of the boot modules, in order.                                    *)
(***************************************************************************)
EXTENDS Integers, Sequences, FiniteSets, SequencesExt, TLC

PidName(pid) == ToString(pid)

\* What process.c tells about processes: all that are neither unused nor dead
\* (sorted here, in the order of their slots there), and one of them, but not
\* process 0.
process_snapshot(pids) == SetToSortSeq(pids, LAMBDA a, b : a < b)
process_get_info(pid, pids) == IF pid > 0 /\ pid \in pids THEN {<<pid>>} ELSE {}
Visible(pids) == {p \in pids : process_get_info(p, pids) # {}}

----------------------------------------------------------------------------
(* /proc *)

procfs_stat(path, pids) ==
  CASE path \in {<<>>, <<"self">>} -> "dir"
    [] path \in {<<"processes">>, <<"self", "status">>} -> "file"
    [] \E p \in Visible(pids) : path = <<PidName(p)>> -> "dir"
    [] \E p \in Visible(pids) : path = <<PidName(p), "status">> -> "file"
    [] OTHER -> "none"

procfs_list(path, pids) ==
  IF path = <<>> THEN {"processes", "self"} \cup {PidName(p) : p \in Visible(pids)}
  ELSE IF procfs_stat(path, pids) = "dir" THEN {"status"} ELSE {}

\* fill_status: one process's fields, for as long as there is such a process.
\* Every file below is made in memory that kmalloc may refuse, and /sys/net/stats
\* also needs network_get_stats: an open that fails so leaves no trace (the text
\* written up to there is freed), so it is the open that does not happen.  What
\* is defined here is the text of one that succeeds.
fill_status(pid, pids) == process_get_info(pid, pids)

\* The contents: a row for each process, or the one process asked for.
procfs_read_file(path, pids, self) ==
  CASE path = <<"processes">> -> {process_snapshot(pids)}
    [] path = <<"self", "status">> -> fill_status(self, pids)
    [] OTHER -> UNION {fill_status(p, pids) : p \in {q \in pids : path = <<PidName(q), "status">>}}

----------------------------------------------------------------------------
(* /sys *)

SysDirs == {<<>>, <<"devices">>, <<"net">>}
SysFiles == {<<"memory">>, <<"devices", "summary">>, <<"devices", "pci">>, <<"mounts">>,
             <<"net", "status">>, <<"net", "stats">>}

sysfs_stat(path) ==
  IF path \in SysDirs THEN "dir" ELSE IF path \in SysFiles THEN "file" ELSE "none"

sysfs_list(path) ==
  CASE path = <<>> -> {"memory", "devices", "mounts", "net"}
    [] path = <<"devices">> -> {"summary", "pci"}
    [] path = <<"net">> -> {"status", "stats"}
    [] OTHER -> {}

\* A report whose wording is left out; the table of mounts is kept.
Report == <<"report">>
build_mounts(mounts) == [i \in DOMAIN mounts |-> mounts[i].path]

\* sysfs_read_file: a report is whole or it is not there.  The directory /devices
\* can be read too.
sysfs_read_file(path, mounts) ==
  CASE path = <<"mounts">> -> {build_mounts(mounts)}
    [] path \in (SysFiles \ {<<"mounts">>}) \cup {<<"devices">>} -> {Report}
    [] OTHER -> {}

----------------------------------------------------------------------------
(* /boot *)

\* build_module_name: the last segment of the module's path, if it has one.
build_module_name(path) == IF path = <<>> \/ Last(path) = "" THEN "module" ELSE Last(path)

\* bootfs_init: as many modules as the table holds.
bootfs_init(paths, max) ==
  [i \in 1..(IF Len(paths) < max THEN Len(paths) ELSE max) |-> build_module_name(paths[i])]

bootfs_stat(path, modules) ==
  CASE path = <<>> -> "dir"
    [] path = <<"modules">> -> "file"
    [] Len(path) = 1 /\ path[1] \in ToSet(modules) -> "file"
    [] OTHER -> "none"

bootfs_list(path, modules) ==
  IF path = <<>> THEN {"modules"} \cup ToSet(modules) ELSE {}

\* The index, or the first module of that name: two modules may share one, and
\* one called "modules" cannot be reached.
bootfs_read_file(path, modules) ==
  CASE path = <<"modules">> -> {modules}
    [] Len(path) = 1 /\ path # <<"modules">> /\ path[1] \in ToSet(modules) ->
         {<<CHOOSE i \in DOMAIN modules : modules[i] = path[1] /\ \A j \in 1..(i - 1) : modules[j] # path[1]>>}
    [] OTHER -> {}

----------------------------------------------------------------------------
(* /dev *)

DevNames == {"fb0", "tty"} \cup {"tty" \o ToString(i) : i \in 0..9} \cup {"keyboard", "mouse"}

dev_lookup(path) == IF Len(path) = 1 /\ path[1] \in DevNames THEN path[1] ELSE "none"
dev_stat(path) == IF path = <<>> THEN "dir" ELSE IF dev_lookup(path) = "none" THEN "none" ELSE "char"
dev_list(path) == IF path = <<>> THEN DevNames ELSE {}
============================================================================
