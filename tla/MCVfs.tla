------------------------------- MODULE MCVfs -------------------------------
(***************************************************************************)
(* The file layer in three parts side by side: three processes that share  *)
(* descriptors; two of which one may be killed inside a call; and the      *)
(* files of every file system.  A behaviour is of one part.  The first     *)
(* part has the variables of Vfs; v1..v5 are those of the second part, or  *)
(* v1..v10 those of Files.                                                 *)
(***************************************************************************)
EXTENDS Vfs, TLC

CONSTANTS p1, p2, p3, p4, h1, h2, h3,
  MAXSEGS, FAT12_CLUSTERS, FAT12_UNITS, FAT12_ENTRIES, Short(_), MEMFS_MAX_FILES, MEMFS_INIT_CAP,
  Fat32Next, Fat32Root, FoldCase(_), Handles, Targets, OpenModes, Writes, VFS_BUF_INIT, MaxSize,
  Image12, Image32, Renames, RawPaths, Dirs, Pids, BootPaths, BOOTFS_MAX_MODULES, FBSIZE, WORD

VARIABLES which, v1, v2, v3, v4, v5, v6, v7, v8, v9, v10

K == INSTANCE Vfs WITH Procs <- {p1, p4}, MaxRef <- 4, Races <- {"kill", "create"},
                       life <- v1, fds <- v2, file <- v3, pipe <- v4, call <- v5
F == INSTANCE Files WITH part <- v1, inodes <- v2, ram <- v3, disk <- v4, open <- v5, cwd <- v6,
                         pids <- v7, mapped <- v8, lost <- v9, spoilt <- v10

Volume == INSTANCE Fat12      \* to make the image the boot loader passes

filevars == <<v1, v2, v3, v4, v5, v6, v7, v8, v9, v10>>
NoMore == v6 = "" /\ v7 = "" /\ v8 = "" /\ v9 = "" /\ v10 = ""
NoFiles == v1 = "" /\ v2 = "" /\ v3 = "" /\ v4 = "" /\ v5 = "" /\ NoMore

LayerInit ==
  /\ Init
  /\ \/ which = "tables" /\ NoFiles
     \/ which = "killed" /\ K!Init /\ NoMore
     \/ which = "files" /\ F!Init
LayerNext ==
  \/ which = "tables" /\ Next /\ UNCHANGED <<which, filevars>>
  \/ which = "killed" /\ K!Next /\ UNCHANGED <<which, v6, v7, v8, v9, v10, vars>>
  \/ which = "files" /\ F!Next /\ UNCHANGED <<which, vars>>
LayerSpec == LayerInit /\ [][LayerNext]_<<which, vars, filevars>>

\* The slots of Files are alike.
Interchangeable == Permutations(Handles)

-----------------------------------------------------------------------------
(* The properties of the second and the third part, where they are         *)
(* explained; those of the first are Vfs's own.                            *)

\* A kill inside a call drops no reference and no pipe end early: Vfs!KillSafe.
KilledInCallSafe == which = "killed" => K!KillSafe
\* The volumes stay well formed after every failure: Files!VolumesSound.
VolumesSound == which = "files" => F!VolumesSound
\* A file holds only what was written to it: Files!OnlyWrittenBytes.
OnlyWrittenBytes == which = "files" => F!OnlyWrittenBytes
\* Listed names exist, paths resolve, mappings lie inside: Files!NamespaceSound.
NamespaceSound == which = "files" => F!NamespaceSound
\* Of several descriptors on a FAT path the last to be closed decides: Files!ClosedWins.
LastCloseWins == [][which = "files" => F!ClosedWins]_filevars

-----------------------------------------------------------------------------
(* Files.                                                                  *)

\* The parts of Files, and its marks for unwritten contents and the end of a chain.
FileParts == {"memfs", "fat12", "fat32", "pseudo", "names", "dev"}
Unwritten == -1
EndOfChain == 0

\* Eight characters and three: the two long names are one file to FAT12.
MCShort(n) == CASE n \in {"longname1", "longname2"} -> "LONGNAME" [] n = "b" -> "B" [] OTHER -> n
MCFoldCase(n) == CASE n = "F" -> "f" [] n = "Long" -> "long" [] OTHER -> n

\* What is renamed to what on the FAT32 disk.
MCRenames == {<<<<"sub", "Long">>, <<"sub", "g">>>>, <<<<"f">>, <<"sub", "long">>>>, <<<<"f">>, <<"F">>>>}

MCTargets == [p \in FileParts |->
  CASE p = "memfs" -> {<<"a">>, <<"b">>}
    [] p = "fat12" -> {<<"longname1">>, <<"longname2">>}
    [] p = "fat32" -> {<<"sub", "Long">>}
    [] p = "pseudo" -> {<<"proc", "processes">>, <<"proc", "self", "status">>, <<"proc", "2", "status">>,
                        <<"sys", "memory">>, <<"sys", "devices">>, <<"boot", "modules">>, <<"boot", "ramdisk">>}
    [] p = "dev" -> {<<"fb0">>, <<"tty1">>}
    [] OTHER -> {}]

Mode(rd, wr, append, creat, trunc) ==
  [rd |-> rd, wr |-> wr, append |-> append, creat |-> creat, trunc |-> trunc]
MCOpenModes == [p \in FileParts |->
  {Mode(FALSE, TRUE, FALSE, TRUE, TRUE), Mode(TRUE, TRUE, TRUE, FALSE, FALSE)}
  \cup IF p \in {"fat12", "fat32"} THEN {} ELSE {Mode(TRUE, FALSE, FALSE, FALSE, FALSE)}]

\* The root directory is in cluster 2, the directory sub in 3; Long's chain has two
\* clusters and f's one.  What is beyond a file's size is junk.
Ent(kind, name, first, len) == [kind |-> kind, name |-> name, first |-> first, size |-> len]
MCNext == [c \in 2..6 |-> IF c = 4 THEN 5 ELSE EndOfChain]
MCImage32 ==
  [dir |-> [c \in {2, 3} |->
     IF c = 2 THEN <<Ent("label", "DISK", 0, 0), Ent("lfn", "gone", 0, 0), Ent("deleted", "GONE", 0, 0),
                     Ent("file", "f", 6, 1), Ent("dir", "sub", 3, 0), Ent("free", "", 0, 0)>>
     ELSE <<Ent("dot", ".", 3, 0), Ent("dot", "..", 0, 0), Ent("lfn", "long", 0, 0), Ent("file", "LONG~1", 4, 1)>>],
   data |-> [c \in 4..6 |-> IF c = 5 THEN Unwritten ELSE 1]]

\* One file of one unit, an entry never used behind a deleted one.
MCImage12 ==
  LET empty == [Volume!Blank12 EXCEPT !.dir[1].kind = "deleted"]
  IN  Volume!fat12_write_file(empty, "b", <<1>>).d

\* One module more than there is room for, one named as the index is, one unnamed.
MCBootPaths == <<<<"boot", "ramdisk">>, <<"modules">>, <<>>, <<"more">>>>

\* On FAT12 two units make a cluster, and a write may fill more than one.
MCWrites == [p \in FileParts |->
  CASE p = "fat12" -> {<<1>>, <<1, 1, 1>>} [] p = "fat32" -> {<<2>>} [] OTHER -> {<<1>>, <<2>>}]
MCMaxSize == [p \in FileParts |-> IF p = "fat12" THEN 3 ELSE 2]

Segs == {"", ".", "..", "tmp", "tmpx", "sub", "disk", "proc"}
MCDirs == {<<>>, <<"sys">>, <<"sys", "devices">>, <<"sys", "net">>, <<"boot">>, <<"dev">>, <<"fat12">>, <<"tmp">>,
           <<"disk">>, <<"disk", "sub">>, <<"proc">>, <<"proc", "self">>, <<"proc", "2">>}
MCRawPaths ==
  {[abs |-> a, segs |-> s] : a \in BOOLEAN, s \in UNION {[1..n -> Segs] : n \in 0..3}}
  \cup {[abs |-> TRUE, segs |-> s] : s \in MCDirs}
=============================================================================
