------------------------------- MODULE Paths -------------------------------
(***************************************************************************)
(* Names of files: how fs/vfs.c turns what a process passes into a mount   *)
(* and a path inside it.  A path is a sequence of segments; a raw path may *)
(* also hold empty segments (two slashes together), "." and "..".          *)
(* fs/fat32.c normalises the path it is given once more, the same way.     *)
(***************************************************************************)
EXTENDS Integers, Sequences, FiniteSets, SequencesExt

CONSTANT MAXSEGS      \* segs[32] of normalize_path_for_process

NoPath == [ok |-> FALSE, segs |-> <<>>]
Path(segs) == [ok |-> TRUE, segs |-> segs]

\* One segment of the scan: ".." drops the last one, and does nothing at the root.
Push(st, s) ==
  IF ~st.ok \/ s \in {"", "."} THEN st
  ELSE IF s = ".." THEN (IF st.segs = <<>> THEN st ELSE Path(Front(st.segs)))
  ELSE IF Len(st.segs) >= MAXSEGS THEN NoPath ELSE Path(Append(st.segs, s))

\* normalize_path_for_process: raw = [abs, segs], joined to cwd when it is relative.
Normalize(cwd, raw) ==
  FoldLeft(Push, Path(<<>>), IF raw.abs THEN raw.segs ELSE cwd \o raw.segs)

\* A mount is [path, backend, ro]; the table is a sequence.  It covers a path
\* that is its own or goes on below it with a slash.
MountFits(mnt, segs) == IsPrefix(mnt.path, segs)

\* mount_lookup: the longest path that fits, the first of equals.
MountLookup(mounts, segs) ==
  LET fits == {i \in DOMAIN mounts : MountFits(mounts[i], segs)}
      best == {i \in fits : \A j \in fits : Len(mounts[j].path) <= Len(mounts[i].path)}
  IN  mounts[CHOOSE i \in best : \A j \in best : i <= j]

MountSubpath(mnt, segs) == SubSeq(segs, Len(mnt.path) + 1, Len(segs))

\* vfs_init's mount table.  The root is bootfs when the boot loader passed
\* modules, else the initrd, else memfs.
MountTable(modules, initrd, fat12, fat32) ==
  LET mount(path, backend, ro) == <<[path |-> path, backend |-> backend, ro |-> ro]>>
  IN  (IF modules > 0 THEN mount(<<>>, "bootfs", TRUE)
       ELSE IF initrd THEN mount(<<>>, "initrd", TRUE) ELSE mount(<<>>, "memfs", FALSE))
      \o (IF fat12 THEN mount(<<"fat12">>, "fat12", FALSE) ELSE <<>>)
      \o mount(<<"tmp">>, "memfs", FALSE)
      \o (IF fat32 THEN mount(<<"disk">>, "fat32", FALSE) ELSE <<>>)
      \o mount(<<"proc">>, "procfs", TRUE)
      \o mount(<<"sys">>, "sysfs", TRUE)
      \o mount(<<"dev">>, "devfs", FALSE)
      \o (IF modules > 0 THEN mount(<<"boot">>, "bootfs", TRUE) ELSE <<>>)

\* append_root_mount_names: the first segments of the mounts, none twice, as far
\* as the caller's array of max names goes.
AppendRootNames(mounts, names, max) ==
  FoldLeft(LAMBDA acc, mnt :
             IF mnt.path = <<>> \/ Head(mnt.path) \in ToSet(acc) \/ Len(acc) >= max THEN acc
             ELSE Append(acc, Head(mnt.path)),
           names, mounts)

----------------------------------------------------------------------------
(* What the scan computes, said without a scan: of the segments, the names   *)
(* that no later ".." takes back, in order.                                  *)
Names(s, i, j) == Cardinality({k \in i..j : s[k] \notin {"", ".", ".."}})
Ups(s, i, j) == Cardinality({k \in i..j : s[k] = ".."})
Kept(s) == {i \in DOMAIN s : s[i] \notin {"", ".", ".."} /\ \A j \in i..Len(s) : Names(s, i, j) > Ups(s, i, j)}
Denoted(s) == LET kept == SetToSortSeq(Kept(s), LAMBDA a, b : a < b) IN [k \in DOMAIN kept |-> s[kept[k]]]
============================================================================
