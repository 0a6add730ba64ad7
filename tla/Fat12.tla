------------------------------- MODULE Fat12 -------------------------------
(***************************************************************************)
(* The FAT12 driver, fs/fat12.c, on an image in memory: operators that     *)
(* take the disk d = [fat, dir, data] and give what a call returns.        *)
(* Table entries are 12 bits, packed two in three bytes, and are kept so.  *)
(* Contents are counted in units, FAT12_UNITS of them to a cluster.        *)
(***************************************************************************)
EXTENDS Integers, Sequences, FiniteSets, SequencesExt

CONSTANTS
  FAT12_CLUSTERS,     \* g_total_clusters
  FAT12_UNITS,        \* units of contents in a cluster
  FAT12_ENTRIES,      \* g_root_entry_cnt
  Short(_)            \* str_to_fat83: upper case, eight characters and three

Eoc12 == 4095
Cluster12 == 2..(FAT12_CLUSTERS + 1)
InChain12(c) == c >= 2 /\ c < 4088

FreeSlot12 == [kind |-> "free", name |-> "", first |-> 0, size |-> 0]

\* A formatted, empty disk.  The bytes run to the end of the last entry.
Blank12 == [fat |-> [b \in 0..(((FAT12_CLUSTERS + 1) * 3) \div 2 + 1) |-> 0],
            dir |-> [i \in 1..FAT12_ENTRIES |-> FreeSlot12],
            data |-> [c \in Cluster12 |-> [u \in 1..FAT12_UNITS |-> 0]]]

fat12_get_next_cluster(d, c) ==
  IF c < 2 \/ c > FAT12_CLUSTERS + 1 THEN Eoc12
  ELSE LET b == (c * 3) \div 2
           val == d.fat[b] + 256 * d.fat[b + 1]
       IN  IF c % 2 = 1 THEN val \div 16 ELSE val % 4096

\* A fault: an odd entry takes the whole of the byte it shares.
fat12_set_cluster_clobbers(d, c, val) ==
  LET b == (c * 3) \div 2
  IN  IF c % 2 = 1
      THEN [d EXCEPT !.fat[b] = (val % 16) * 16, !.fat[b + 1] = val \div 16]
      ELSE [d EXCEPT !.fat[b] = val % 256, !.fat[b + 1] = (@ \div 16) * 16 + val \div 256]

\* fat12_set_cluster: half of the shared byte is the neighbour's.  (The copies
\* of the table are written alike and only the first is read.)
fat12_set_cluster(d, c, val) ==
  LET b == (c * 3) \div 2
  IN  IF c % 2 = 1
      THEN [d EXCEPT !.fat[b] = (@ % 16) + (val % 16) * 16, !.fat[b + 1] = val \div 16]
      ELSE [d EXCEPT !.fat[b] = val % 256, !.fat[b + 1] = (@ \div 16) * 16 + val \div 256]

\* The clusters of the chain at c, as the reading and the freeing loops meet them.
Chain12(d, c) ==
  LET at[i \in 1..(FAT12_CLUSTERS + 1)] ==
        IF i = 1 THEN c
        ELSE LET prev == at[i - 1] IN IF InChain12(prev) THEN fat12_get_next_cluster(d, prev) ELSE Eoc12
  IN  SelectSeq(at, InChain12)

Free12(d) == {c \in Cluster12 : fat12_get_next_cluster(d, c) = 0}

\* find_dirent: the scan ends at the first slot never used.
find_dirent(d, name) ==
  LET hits == {i \in 1..FAT12_ENTRIES :
                 /\ d.dir[i].kind \in {"file", "dir"} /\ d.dir[i].name = Short(name)
                 /\ \A j \in 1..i : d.dir[j].kind # "free"}
  IN  IF hits = {} THEN 0 ELSE CHOOSE i \in hits : \A j \in hits : i <= j

\* fat12_list_dir gives the root directory whatever path it is asked for.
fat12_list_dir(d) ==
  LET live == SelectSeq(d.dir, LAMBDA e : e.kind \in {"file", "dir"}) IN [i \in DOMAIN live |-> live[i].name]

fat12_stat(d, name) ==
  LET i == find_dirent(d, name)
  IN  IF i = 0 THEN [kind |-> "none", size |-> 0] ELSE [kind |-> d.dir[i].kind, size |-> d.dir[i].size]

\* The units of cs's clusters one after the other.
Units12(d, cs) == FlattenSeq([i \in DOMAIN cs |-> d.data[cs[i]]])

\* fat12_read_file, up to the size of the file.
fat12_read_file(d, name) ==
  LET e == d.dir[find_dirent(d, name)]
      units == Units12(d, Chain12(d, e.first))
  IN  SubSeq(units, 1, IF Len(units) < e.size THEN Len(units) ELSE e.size)

\* A new directory entry goes into the first slot free or deleted.
FreeEntry(d) ==
  LET open == {i \in 1..FAT12_ENTRIES : d.dir[i].kind \in {"free", "deleted"}}
  IN  IF open = {} THEN 0 ELSE CHOOSE i \in open : \A j \in open : i <= j

FreeChain(d, i) ==
  LET freed == FoldLeft(LAMBDA acc, c : fat12_set_cluster(acc, c, 0), d, Chain12(d, d.dir[i].first))
  IN  [freed EXCEPT !.dir[i].first = 0, !.dir[i].size = 0]

\* The clusters of cs are taken one by one, each linked behind the last.
Linked(d, cs) ==
  FoldLeft(LAMBDA acc, k :
             LET taken == fat12_set_cluster(acc, cs[k], Eoc12)
             IN  IF k = 1 THEN taken ELSE fat12_set_cluster(taken, cs[k - 1], cs[k]),
           d, [k \in DOMAIN cs |-> k])

\* bytes laid out over cs; the rest of the last cluster keeps what it had.
Filled(d, cs, bytes) ==
  [d EXCEPT !.data = [c \in Cluster12 |->
     IF c \notin ToSet(cs) THEN d.data[c]
     ELSE LET k == CHOOSE j \in DOMAIN cs : cs[j] = c
              at(u) == (k - 1) * FAT12_UNITS + u
          IN  [u \in 1..FAT12_UNITS |-> IF at(u) <= Len(bytes) THEN bytes[at(u)] ELSE d.data[c][u]]]]

\* The first n free clusters, as the search from the start of the table meets
\* them; all there are when there are fewer.
Take12(d, n) ==
  LET free == SetToSortSeq(Free12(d), LAMBDA a, b : a < b)
  IN  SelectSeq(free, LAMBDA c : Cardinality({x \in Free12(d) : x <= c}) <= n)

\* bytes go into the clusters cs and these, last, into the entry at slot.  When
\* there are too few the clusters taken belong to nobody.
Store12(d, slot, cs, bytes) ==
  LET laid == Filled(Linked(d, cs), cs, bytes)
  IN  IF bytes = <<>> THEN [ok |-> TRUE, d |-> d]
      ELSE IF Len(cs) * FAT12_UNITS < Len(bytes) THEN [ok |-> FALSE, d |-> laid]
      ELSE [ok |-> TRUE, d |-> [laid EXCEPT !.dir[slot].first = cs[1], !.dir[slot].size = Len(bytes)]]

Rewrite12(d, slot, bytes) ==
  Store12(d, slot, Take12(d, (Len(bytes) + FAT12_UNITS - 1) \div FAT12_UNITS), bytes)

\* fat12_write_file: find or make the entry, free the old contents, store the new
\* ones.  When the disk is full the old contents are gone.
fat12_write_file(d, name, bytes) ==
  LET found == find_dirent(d, name)
      slot == FreeEntry(d)
  IN  IF found # 0 THEN Rewrite12(FreeChain(d, found), found, bytes)
      ELSE IF slot = 0 THEN [ok |-> FALSE, d |-> d]
      ELSE Rewrite12(FreeChain([d EXCEPT !.dir[slot] = [FreeSlot12 EXCEPT !.kind = "file", !.name = Short(name)]], slot),
                     slot, bytes)

Files12(d) == {i \in 1..FAT12_ENTRIES : d.dir[i].kind = "file"}
Owned12(d, i) == ToSet(Chain12(d, d.dir[i].first))
============================================================================
