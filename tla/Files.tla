------------------------------- MODULE Files -------------------------------
(***************************************************************************)
(* Open files and what they hold: fs/vfs.c over the file systems it mounts.*)
(*                                                                         *)
(* A file on a FAT volume is read whole into a buffer of its own when it   *)
(* is opened, and written back whole by the last close.  A memfs file is   *)
(* shared by all who have it open.  A file of /proc, /sys or /boot is made *)
(* when it is opened; /dev/fb0 is the frame buffer.  Descriptors and       *)
(* reference counts are Vfs's matter: here an open file is a slot of       *)
(* g_open_files with one descriptor.                                       *)
(*                                                                         *)
(* Calls are whole steps; Fat32 gives the outcomes of disk errors.  In one *)
(* behaviour the processes use one part of the system (`part`): the parts  *)
(* share nothing but the tables' limits.                                   *)
(***************************************************************************)
EXTENDS Paths, Fat12, Memfs, Fat32, PseudoFs

CONSTANTS
  Handles,       \* slots of g_open_files
  FDS,           \* descriptors a process has
  Targets,       \* part -> the paths that are opened there
  OpenModes,     \* part -> the flags open is called with there
  Writes,        \* part -> the byte sequences that are written there
  VFS_BUF_INIT,  \* the first buffer of a file that had none, 64 bytes
  MaxSize,       \* part -> bound on the length of a file
  Image12,       \* the FAT12 image the boot loader passes
  Image32,       \* the FAT32 disk at the first boot
  Renames,       \* pairs of FAT32 paths
  RawPaths,      \* what chdir and stat are called with
  Dirs,          \* the directories there are
  Pids,          \* processes that may exist
  BootPaths,     \* the paths of the modules the boot loader passes
  BOOTFS_MAX_MODULES,
  FBSIZE,        \* bytes of the frame buffer
  WORD           \* 2^WORD - 1 is the largest size_t

VARIABLES
  part,      \* which part is used
  inodes,    \* memfs: g_inodes
  ram,       \* FAT12: the image in memory
  disk,      \* FAT32: the disk
  open,      \* g_open_files
  cwd,       \* the process's working directory
  pids,      \* the processes there are
  mapped,    \* ranges of the frame buffer vfs_mmap gave out
  lost,      \* history: paths whose last write-back failed
  spoilt     \* history: "full" when FAT12 ran out of space, "cut" when a memfs file was
             \* truncated under another who has it open
fvars == <<part, inodes, ram, disk, open, cwd, pids, mapped, lost, spoilt>>

Parts == {"memfs", "fat12", "fat32", "pseudo", "names", "dev"}

Modules == bootfs_init(BootPaths, BOOTFS_MAX_MODULES)

\* The mount table in use: everything is present.
Mounted == MountTable(Len(Modules), TRUE, TRUE, TRUE)

Free == [used |-> FALSE, path |-> <<>>, rd |-> FALSE, wr |-> FALSE, append |-> FALSE, dirty |-> FALSE,
         pos |-> 0, buf |-> <<>>, cap |-> 0, inode |-> 0]

Init ==
  /\ part \in Parts
  /\ inodes = memfs_init
  /\ ram = Image12
  /\ disk = Image32
  /\ open = [h \in Handles |-> Free]
  /\ cwd = <<>>
  /\ pids \in IF part = "pseudo" THEN {{0, p} : p \in Pids} ELSE {{0}}
  /\ mapped = {}
  /\ lost = {}
  /\ spoilt = {}

\* Sizes are of type size_t: what goes below zero comes round at the top.
Wrap(n) == n % 2^WORD

----------------------------------------------------------------------------
(* What is in the files *)

\* The contents of a path on the volumes t, r and d, as a set: empty when there
\* is no such file.
ContentsOn(path, t, r, d) ==
  CASE part = "memfs" -> LET i == memfs_open(t, path[1]) IN IF i = 0 THEN {} ELSE {SubSeq(t[i].data, 1, t[i].size)}
    [] part = "fat12" -> IF find_dirent(r, path[1]) = 0 THEN {} ELSE {fat12_read_file(r, path[1])}
    [] part = "fat32" -> LET e == fat32_stat(d, path) IN IF e.kind # "file" THEN {} ELSE {Contents32(d, e)}
    [] OTHER -> {}
Contents(path) == ContentsOn(path, inodes, ram, disk)

\* Two paths of one file: FAT12 keeps eight characters and three.
SameFile(p, q) ==
  IF part = "fat12" THEN Short(p[1]) = Short(q[1]) ELSE p = q

\* What vfs_seek and vfs_size take as the size of an open file.
SizeOf(f) ==
  CASE part = "memfs" -> memfs_size(inodes, f.inode)
    [] part = "dev" -> IF f.path = <<"fb0">> THEN FBSIZE ELSE 0
    [] OTHER -> Len(f.buf)

----------------------------------------------------------------------------
(* Opening *)

InUse == {h \in Handles : open[h].used}
FreeHandles == Handles \ InUse

\* flags_to_mode: neither reading nor writing asked for means reading.
Opened(path, fl) ==
  [Free EXCEPT !.used = TRUE, !.path = path, !.rd = fl.rd \/ ~fl.wr, !.wr = fl.wr, !.append = fl.append]

\* flush_regular_file: what becomes of the volumes r and d when f is released.
\* FAT12 refuses a buffer that was never allocated, so there a file only truncated
\* stays as it was.
Flushed(r, d, f) ==
  IF ~(f.dirty /\ f.wr) THEN {[ram |-> r, disk |-> d, says |-> "clean"]}
  ELSE IF part = "fat12"
  THEN LET w == IF f.cap = 0 THEN [ok |-> FALSE, d |-> r] ELSE fat12_write_file(r, f.path[1], f.buf)
       IN  {[ram |-> w.d, disk |-> d, says |-> IF w.ok THEN "ok" ELSE IF f.cap = 0 THEN "refused" ELSE "full"]}
  ELSE {[ram |-> r, disk |-> w.d, says |-> IF w.ok THEN "ok" ELSE "error"] : w \in fat32_write_file(d, f.path, f.buf)}

\* A fault: what was changed is not written back.
file_release_drops(r, d, f) ==
  /\ ram' = r /\ disk' = d
  /\ UNCHANGED <<lost, spoilt>>

\* file_release of the last reference: the flush, whose failure goes nowhere.
file_release(r, d, f) ==
  \E w \in Flushed(r, d, f) :
    /\ ram' = w.ram /\ disk' = w.disk
    /\ lost' = CASE w.says = "ok" -> {p \in lost : ~SameFile(p, f.path)}
                 [] w.says = "clean" -> lost
                 [] OTHER -> lost \cup {f.path}
    /\ spoilt' = IF w.says = "full" THEN spoilt \cup {"full"} ELSE spoilt

\* The end of vfs_open_flags: without a free descriptor the file is released again,
\* written back if it was truncated.
Install(h, f, r, d) ==
  IF Cardinality(InUse) < FDS
  THEN open' = [open EXCEPT ![h] = f] /\ ram' = r /\ disk' = d /\ UNCHANGED <<lost, spoilt>>
  ELSE file_release(r, d, f) /\ UNCHANGED open

\* open_memfs_file: truncation is at once, and for all who have the file open.
OpenMemfs(h, path, fl) ==
  /\ part = "memfs"
  /\ \E mem \in BOOLEAN :
       LET found == memfs_open(inodes, path[1])
           made == IF found # 0 THEN [inode |-> found, t |-> inodes]
                   ELSE IF fl.creat THEN memfs_create(inodes, path[1], mem) ELSE [inode |-> 0, t |-> inodes]
           cut == IF fl.trunc THEN memfs_truncate(made.t, made.inode) ELSE made.t
           f == [Opened(path, fl) EXCEPT !.inode = made.inode,
                                         !.pos = IF fl.append THEN memfs_size(cut, made.inode) ELSE 0]
       IN  /\ made.inode # 0
           /\ inodes' = cut
           /\ open' = IF Cardinality(InUse) < FDS THEN [open EXCEPT ![h] = f] ELSE open
           /\ spoilt' = IF fl.trunc /\ \E g \in InUse : open[g].inode = made.inode THEN spoilt \cup {"cut"} ELSE spoilt
  /\ UNCHANGED <<part, ram, disk, cwd, pids, mapped, lost>>

\* open_regular_buffered on FAT12: a missing file is made at once if asked for.
OpenFat12(h, path, fl) ==
  /\ part = "fat12"
  /\ LET st == fat12_stat(ram, path[1])
         made == IF st.kind # "none" THEN [ok |-> TRUE, d |-> ram]
                 ELSE IF fl.creat THEN fat12_write_file(ram, path[1], <<>>) ELSE [ok |-> FALSE, d |-> ram]
     IN  /\ st.kind # "dir" /\ made.ok
         /\ LET buf == IF fl.trunc THEN <<>> ELSE fat12_read_file(made.d, path[1])
            IN  Install(h, [Opened(path, fl) EXCEPT !.buf = buf, !.cap = Len(buf), !.dirty = fl.trunc,
                                                    !.pos = IF fl.append THEN Len(buf) ELSE 0],
                        made.d, disk)
  /\ UNCHANGED <<part, inodes, cwd, pids, mapped>>

\* open_regular_buffered on FAT32, which creates no file.  A disk that fails
\* gives a shorter file, which is what a later close writes back.
OpenFat32(h, path, fl) ==
  /\ part = "fat32"
  /\ fat32_stat(disk, path).kind = "file"
  /\ \E buf \in IF fl.trunc THEN {<<>>} ELSE fat32_read_file(disk, path) :
       Install(h, [Opened(path, fl) EXCEPT !.buf = buf, !.cap = Len(buf), !.dirty = fl.trunc,
                                           !.pos = IF fl.append THEN Len(buf) ELSE 0],
               ram, disk)
  /\ UNCHANGED <<part, inodes, cwd, pids, mapped>>

\* /proc, /sys and /boot are read-only mounts; the file is made here and now.
\* path[1] is the mount, the rest the path inside it.
PseudoText(path) ==
  CASE path[1] = "proc" -> procfs_read_file(Tail(path), pids, 1)
    [] path[1] = "sys" -> sysfs_read_file(Tail(path), Mounted)
    [] path[1] = "boot" -> bootfs_read_file(Tail(path), Modules)
    [] OTHER -> {}

OpenPseudo(h, path, fl) ==
  /\ part = "pseudo"
  /\ ~fl.wr /\ ~fl.creat /\ ~fl.trunc
  /\ Cardinality(InUse) < FDS
  /\ \E text \in PseudoText(path) :
       open' = [open EXCEPT ![h] = [Opened(path, fl) EXCEPT !.rd = TRUE, !.buf = text, !.cap = Len(text)]]
  /\ UNCHANGED <<part, inodes, ram, disk, cwd, pids, mapped, lost, spoilt>>

OpenDev(h, path, fl) ==
  /\ part = "dev"
  /\ dev_lookup(path) # "none"
  /\ Cardinality(InUse) < FDS
  /\ open' = [open EXCEPT ![h] = Opened(path, fl)]
  /\ UNCHANGED <<part, inodes, ram, disk, cwd, pids, mapped, lost, spoilt>>

vfs_open_flags(h, path, fl) ==
  \/ OpenMemfs(h, path, fl) \/ OpenFat12(h, path, fl) \/ OpenFat32(h, path, fl)
  \/ OpenPseudo(h, path, fl) \/ OpenDev(h, path, fl)

----------------------------------------------------------------------------
(* Reading, writing, seeking, closing *)

\* vfs_read: as far as the file goes; the bytes themselves go to the caller.
vfs_read(h, count) ==
  LET f == open[h]
      left == IF f.pos >= SizeOf(f) THEN 0 ELSE SizeOf(f) - f.pos
  IN  /\ f.used /\ f.rd
      /\ open' = [open EXCEPT ![h].pos = @ + (IF count > left THEN left ELSE count)]
      /\ UNCHANGED <<part, inodes, ram, disk, cwd, pids, mapped, lost, spoilt>>

\* bytes put into a buffer at pos, which is never beyond its end.
Put(buf, pos, bytes) ==
  [u \in 1..(IF pos + Len(bytes) > Len(buf) THEN pos + Len(bytes) ELSE Len(buf)) |->
     IF u \in (pos + 1)..(pos + Len(bytes)) THEN bytes[u - pos] ELSE buf[u]]

\* ensure_regular_capacity doubles the buffer until need fits.
Doubled(cap, need) ==
  LET from == IF cap = 0 THEN VFS_BUF_INIT ELSE cap
  IN  CHOOSE c \in {from * 2^k : k \in 0..need} : c >= need /\ (c = from \/ c \div 2 < need)

\* Where vfs_write writes: an appending descriptor moves to the end first.  (For a
\* device the size is another member of the union, zero there.)
WriteAt(f) == IF ~f.append THEN f.pos ELSE IF part = "dev" THEN 0 ELSE SizeOf(f)

\* vfs_write; mem is whether kmalloc succeeds should the buffer have to grow.
WriteMemfs(h, bytes, mem) ==
  LET at == WriteAt(open[h])
      w == memfs_write(inodes, open[h].inode, at, bytes, mem)
  IN  /\ part = "memfs" /\ at + Len(bytes) <= MaxSize[part]
      /\ inodes' = w.t
      /\ open' = [open EXCEPT ![h].pos = at + w.wr]
      /\ UNCHANGED <<part, ram, disk, cwd, pids, mapped, lost, spoilt>>

WriteBuffer(h, bytes, mem) ==
  LET f == open[h]
      at == WriteAt(f)
      grow == at + Len(bytes) > f.cap
  IN  /\ part \in {"fat12", "fat32"} /\ at + Len(bytes) <= MaxSize[part]
      /\ open' = IF grow /\ ~mem THEN [open EXCEPT ![h].pos = at]
                 ELSE [open EXCEPT ![h].pos = at + Len(bytes), ![h].dirty = TRUE,
                                   ![h].buf = Put(f.buf, at, bytes),
                                   ![h].cap = IF grow THEN Doubled(f.cap, at + Len(bytes)) ELSE @]
      /\ UNCHANGED <<part, inodes, ram, disk, cwd, pids, mapped, lost, spoilt>>

WriteDev(h, bytes) ==
  LET f == open[h]
      left == IF WriteAt(f) >= SizeOf(f) THEN 0 ELSE SizeOf(f) - WriteAt(f)
  IN  /\ part = "dev"
      /\ open' = [open EXCEPT ![h].pos = WriteAt(f) + (IF Len(bytes) > left THEN left ELSE Len(bytes))]
      /\ UNCHANGED <<part, inodes, ram, disk, cwd, pids, mapped, lost, spoilt>>

vfs_write(h, bytes) ==
  /\ open[h].used /\ open[h].wr
  /\ \/ \E mem \in BOOLEAN : WriteMemfs(h, bytes, mem) \/ WriteBuffer(h, bytes, mem)
     \/ WriteDev(h, bytes)

\* vfs_seek: an offset below zero comes round, and what is past the end is the end.
vfs_seek(h, offset, whence) ==
  LET f == open[h]
      from == CASE whence = "set" -> 0 [] whence = "cur" -> f.pos [] whence = "end" -> SizeOf(f)
      pos == Wrap(from + offset)
  IN  /\ f.used
      /\ open' = [open EXCEPT ![h].pos = IF pos > SizeOf(f) THEN SizeOf(f) ELSE pos]
      /\ UNCHANGED <<part, inodes, ram, disk, cwd, pids, mapped, lost, spoilt>>

\* F_SETFL changes O_APPEND (and O_NONBLOCK, which nothing looks at).
vfs_fcntl(h, append) ==
  /\ open[h].used
  /\ open' = [open EXCEPT ![h].append = append]
  /\ UNCHANGED <<part, inodes, ram, disk, cwd, pids, mapped, lost, spoilt>>

vfs_close(h) ==
  /\ open[h].used
  /\ file_release(ram, disk, open[h])
  /\ open' = [open EXCEPT ![h] = Free]
  /\ UNCHANGED <<part, inodes, cwd, pids, mapped>>

\* A fault: the end of the range is computed and compared, and may wrap round.
vfs_mmap_sum(h, offset, length) ==
  /\ part = "dev" /\ open[h].used /\ open[h].path = <<"fb0">> /\ length > 0
  /\ Wrap(offset + length) <= FBSIZE
  /\ mapped' = mapped \cup {<<offset, length>>}
  /\ UNCHANGED <<part, inodes, ram, disk, open, cwd, pids, lost, spoilt>>

vfs_mmap(h, offset, length) ==
  /\ part = "dev" /\ open[h].used /\ open[h].path = <<"fb0">> /\ length > 0
  /\ offset < FBSIZE /\ length <= FBSIZE - offset
  /\ mapped' = mapped \cup {<<offset, length>>}
  /\ UNCHANGED <<part, inodes, ram, disk, open, cwd, pids, lost, spoilt>>

\* vfs_munmap only says whether it would be a range of the frame buffer.
vfs_munmap(range) == range[2] > 0 /\ range[1] < FBSIZE /\ range[2] <= FBSIZE - range[1]

----------------------------------------------------------------------------
(* Directories *)

\* What a path is, through the mount table.
backend_stat(mnt, sub) ==
  IF sub = <<>> THEN "dir"
  ELSE CASE mnt.backend = "memfs" -> memfs_stat(inodes, sub[1]).kind
         [] mnt.backend = "fat12" -> fat12_stat(ram, sub[1]).kind
         [] mnt.backend = "fat32" -> fat32_stat(disk, sub).kind
         [] mnt.backend = "procfs" -> procfs_stat(sub, pids)
         [] mnt.backend = "sysfs" -> sysfs_stat(sub)
         [] mnt.backend = "bootfs" -> bootfs_stat(sub, Modules)
         [] mnt.backend = "devfs" -> dev_stat(sub)
         [] OTHER -> "file"        \* the initrd answers to any name
vfs_stat(segs) == LET mnt == MountLookup(Mounted, segs) IN backend_stat(mnt, MountSubpath(mnt, segs))

\* vfs_list of a directory; at the root the mounts are added.
vfs_list(segs) ==
  LET mnt == MountLookup(Mounted, segs)
      sub == MountSubpath(mnt, segs)
      own == CASE mnt.backend = "memfs" -> ToSet(memfs_list(inodes))
               [] mnt.backend = "fat12" -> ToSet(fat12_list_dir(ram))
               [] mnt.backend = "fat32" -> ToSet(fat32_list_dir(disk, sub))
               [] mnt.backend = "procfs" -> procfs_list(sub, pids)
               [] mnt.backend = "sysfs" -> sysfs_list(sub)
               [] mnt.backend = "bootfs" -> bootfs_list(sub, Modules)
               [] mnt.backend = "devfs" -> dev_list(sub)
               [] OTHER -> {"initrd"}
  IN  IF segs = <<>> THEN ToSet(AppendRootNames(Mounted, SetToSeq(own), 64)) ELSE own

vfs_chdir(raw) ==
  LET abs == Normalize(cwd, raw)
  IN  /\ part = "names"
      /\ abs.ok /\ vfs_stat(abs.segs) = "dir"
      /\ cwd' = abs.segs
      /\ UNCHANGED <<part, inodes, ram, disk, open, pids, mapped, lost, spoilt>>

----------------------------------------------------------------------------
(* The rest of the world *)

\* Processes come and go while their list is read.
ProcessChange ==
  /\ part = "pseudo"
  /\ pids' \in {pids \cup {p} : p \in Pids} \cup {pids \ {p} : p \in Pids}
  /\ UNCHANGED <<part, inodes, ram, disk, open, cwd, mapped, lost, spoilt>>

\* The driver's rename, which no system call reaches.
Rename(old, new) ==
  /\ part = "fat32"
  /\ \E w \in fat32_rename(disk, old, new) : disk' = w.d
  /\ UNCHANGED <<part, inodes, ram, open, cwd, pids, mapped, lost, spoilt>>

\* Power is lost and the system starts again: vfs_init, with the disk as it is.
Reboot ==
  /\ part \in {"fat12", "fat32", "memfs"}
  /\ inodes' = memfs_init /\ ram' = Image12
  /\ open' = [h \in Handles |-> Free]
  /\ cwd' = <<>> /\ mapped' = {}
  /\ lost' = {} /\ spoilt' = {}
  /\ UNCHANGED <<part, disk, pids>>

\* Offsets and origins that seek is called with.
Seeks == {<<0, "set">>, <<-1, "cur">>, <<1, "end">>}

Next ==
  \/ \E h \in FreeHandles, path \in Targets[part] : \E fl \in OpenModes[part] : vfs_open_flags(h, path, fl)
  \/ \E h \in Handles :
       \/ \E count \in 1..2 : vfs_read(h, count)
       \/ \E bytes \in Writes[part] : vfs_write(h, bytes)
       \/ \E to \in Seeks : vfs_seek(h, to[1], to[2])
       \/ part = "memfs" /\ \E append \in BOOLEAN : vfs_fcntl(h, append)
       \/ vfs_close(h)
       \/ part = "dev" /\ mapped = {} /\ \E offset \in 0..(2^WORD - 1), length \in 0..(2^WORD - 1) : vfs_mmap(h, offset, length)
  \/ part = "names" /\ \E raw \in RawPaths : vfs_chdir(raw)
  \/ ProcessChange
  \/ \E pair \in Renames : Rename(pair[1], pair[2])
  \/ Reboot

Spec == Init /\ [][Next]_fvars

----------------------------------------------------------------------------
(* Properties *)

\* The FAT12 volume is sound after any sequence of writes, whatever failed: each
\* file's chain is as long as its size needs, ends properly and belongs to it alone,
\* none of its clusters is free, no name is there twice; and a cluster that is
\* neither free nor anyone's was lost when the disk ran full.
Fat12Sound ==
  LET owned == UNION {Owned12(ram, i) : i \in Files12(ram)}
  IN  /\ \A i \in Files12(ram) :
           LET cs == Chain12(ram, ram.dir[i].first)
           IN  /\ Len(cs) = (ram.dir[i].size + FAT12_UNITS - 1) \div FAT12_UNITS
               /\ Cardinality(ToSet(cs)) = Len(cs) /\ ToSet(cs) \subseteq Cluster12
               /\ cs # <<>> => fat12_get_next_cluster(ram, Last(cs)) = Eoc12
               /\ \A j \in Files12(ram) \ {i} : Owned12(ram, j) \cap ToSet(cs) = {}
                                              /\ ram.dir[j].name # ram.dir[i].name
      /\ owned \cap Free12(ram) = {}
      /\ "full" \in spoilt \/ owned \cup Free12(ram) = Cluster12

\* On the FAT32 disk a file never claims more than its chain holds, and every name
\* stays where it was, whatever sector fails and whenever the power goes.
Fat32Sound ==
  \A dir \in DOMAIN disk.dir :
    /\ iterate_dir(disk.dir[dir]) = iterate_dir(Image32.dir[dir])
    /\ \A i \in DOMAIN disk.dir[dir] :
         disk.dir[dir][i].kind = "file" => disk.dir[dir][i].size <= Len(Chain32(disk.dir[dir][i].first))

\* Both kinds of volume stay sound: the two conjuncts above, for fs/fat12.c and
\* fs/fat32.c.
VolumesSound == Fat12Sound /\ Fat32Sound

\* No file shows what nobody wrote: not the slack of a cluster after an interrupted
\* FAT32 write, not a fresh buffer of memfs - there only when the file was truncated
\* by one process while another had it open.  That exception is why an open file's
\* offset stays within the file otherwise, and within its buffer always.
OnlyWrittenBytes ==
  /\ \A path \in Targets[part] : \A c \in Contents(path) : Junk \in ToSet(c) => "cut" \in spoilt
  /\ \A h \in InUse : /\ open[h].pos <= SizeOf(open[h]) \/ "cut" \in spoilt
                      /\ part \in {"fat12", "fat32"} => Len(open[h].buf) <= open[h].cap /\ Junk \notin ToSet(open[h].buf)

\* Which handle a step closes.
Closes(h) == open[h].used /\ ~open'[h].used

\* What the last close leaves in a FAT file is the whole of the closing descriptor's
\* buffer, unless the write-back failed; nobody else's open file changes; and a file's
\* contents change only by a close, by writing or truncating it, by making it.
ClosedWins ==
  (<<ram, disk>> # <<ram', disk'>> \/ \E h \in Handles : Closes(h)) /\ part \in {"fat12", "fat32"} =>
    \A path \in Targets[part] :
       LET closers == {h \in Handles : Closes(h) /\ open[h].dirty /\ open[h].wr /\ SameFile(open[h].path, path)}
           after == ContentsOn(path, inodes', ram', disk')
           reboot == open' = [g \in Handles |-> Free] /\ ram' = Image12 /\ disk' = disk
       IN  /\ \A h \in closers : after = {open[h].buf} \/ reboot \/ \E p \in lost' : SameFile(p, path)
           /\ \/ after = Contents(path) \/ closers # {} \/ reboot
              \/ Contents(path) = {} /\ after = {<<>>}
              \/ open' = open /\ Cardinality(InUse) = FDS     \* an open that had to give up
LastCloseWins == [][ClosedWins]_fvars

\* Every name a directory lists can be looked up in it, and every file of /proc,
\* /sys and /boot that can be looked up can be opened.
ListedExists ==
  part \in {"pseudo", "names"} =>
    \A dir \in Dirs : vfs_stat(dir) = "dir" =>
        \A name \in vfs_list(dir) :
          /\ vfs_stat(dir \o <<name>>) # "none"
          /\ vfs_stat(dir \o <<name>>) = "file" /\ part = "pseudo" /\ 1 \in pids
             /\ dir # <<>> /\ dir[1] \in {"proc", "sys", "boot"} => PseudoText(dir \o <<name>>) # {}

\* The working directory is always a directory, written without "." and ".."; a raw
\* path means what it says, segment by segment; and the mount it resolves to is the
\* deepest one above it.
PathsResolve ==
  part = "names" =>
  /\ vfs_stat(cwd) = "dir" /\ Normalize(cwd, [abs |-> FALSE, segs |-> <<>>]) = Path(cwd)
  /\ \A raw \in RawPaths :
       LET all == IF raw.abs THEN raw.segs ELSE cwd \o raw.segs
           abs == Normalize(cwd, raw)
       IN  /\ abs.ok => abs.segs = Denoted(all)
           /\ ~abs.ok => Len(SelectSeq(all, LAMBDA s : s \notin {"", ".", ".."})) > MAXSEGS
           /\ abs.ok => \A i \in DOMAIN Mounted :
                IsPrefix(Mounted[i].path, abs.segs) => IsPrefix(Mounted[i].path, MountLookup(Mounted, abs.segs).path)

\* A range of the frame buffer that mmap gives out lies inside it, whatever offset
\* and length were asked for, and munmap knows it again.
MappingInside ==
  \A range \in mapped : range[1] + range[2] <= FBSIZE /\ vfs_munmap(range)

\* What a name leads to: what is listed exists, a path resolves to what it denotes,
\* and a device's memory is mapped inside the device (fs/vfs.c).
NamespaceSound == ListedExists /\ PathsResolve /\ MappingInside
============================================================================
