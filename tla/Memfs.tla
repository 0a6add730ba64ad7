------------------------------- MODULE Memfs -------------------------------
(***************************************************************************)
(* The file system in memory, fs/memfs.c: a table of inodes, each with a   *)
(* name, a buffer as long as its capacity and the size of the file in it.  *)
(* A buffer fresh from kmalloc holds Junk.  Nothing ever deletes a file.   *)
(***************************************************************************)
EXTENDS Integers, Sequences

CONSTANTS
  MEMFS_MAX_FILES,
  MEMFS_INIT_CAP      \* in units of contents

Junk == -1
Inode == 1..MEMFS_MAX_FILES
FreeInode == [used |-> FALSE, name |-> "", data |-> <<>>, size |-> 0]
memfs_init == [i \in Inode |-> FreeInode]

Fresh(cap) == [u \in 1..cap |-> Junk]
FirstInode(S) == IF S = {} THEN 0 ELSE CHOOSE i \in S : \A j \in S : i <= j

memfs_open(t, name) == FirstInode({i \in Inode : t[i].used /\ t[i].name = name})

\* memfs_create: the file of that name, or the first free inode.  Without memory
\* (mem is whether kmalloc succeeds) the file exists all the same, with no buffer.
memfs_create(t, name, mem) ==
  LET old == memfs_open(t, name)
      free == FirstInode({i \in Inode : ~t[i].used})
      new == [used |-> TRUE, name |-> name, size |-> 0, data |-> IF mem THEN Fresh(MEMFS_INIT_CAP) ELSE <<>>]
  IN  IF old # 0 THEN [inode |-> old, t |-> t]
      ELSE IF free = 0 THEN [inode |-> 0, t |-> t]
      ELSE [inode |-> free, t |-> [t EXCEPT ![free] = new]]

memfs_size(t, i) == t[i].size

memfs_read(t, i, pos, count) ==
  SubSeq(t[i].data, pos + 1, IF count > t[i].size - pos THEN t[i].size ELSE pos + count)

\* The capacity doubles until need fits.
Grown(cap, need) ==
  LET from == IF cap = 0 THEN MEMFS_INIT_CAP ELSE cap * 2
  IN  CHOOSE c \in {from * 2^k : k \in 0..need} : c >= need /\ (c = from \/ c \div 2 < need)

\* The new buffer has the size bytes of the old one and is junk behind them.
Regrown(n, need) ==
  [u \in 1..Grown(Len(n.data), need) |-> IF u <= n.size THEN n.data[u] ELSE Junk]

\* memfs_write: nothing is written when the file must grow and there is no memory.
memfs_write(t, i, pos, bytes, mem) ==
  LET need == pos + Len(bytes)
      grow == need > Len(t[i].data)
      data == IF grow THEN Regrown(t[i], need) ELSE t[i].data
  IN  IF grow /\ ~mem THEN [wr |-> 0, t |-> t]
      ELSE [wr |-> Len(bytes),
            t |-> [t EXCEPT ![i].data = [u \in DOMAIN data |-> IF u \in (pos + 1)..need THEN bytes[u - pos] ELSE data[u]],
                            ![i].size = IF need > @ THEN need ELSE @]]

memfs_truncate(t, i) == [t EXCEPT ![i].size = 0]

memfs_list(t) == [k \in 1..Len(SelectSeq(t, LAMBDA n : n.used)) |-> SelectSeq(t, LAMBDA n : n.used)[k].name]

memfs_stat(t, name) ==
  LET i == memfs_open(t, name)
  IN  IF i = 0 THEN [kind |-> "none", size |-> 0] ELSE [kind |-> "file", size |-> t[i].size]
============================================================================
