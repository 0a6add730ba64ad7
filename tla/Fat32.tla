------------------------------- MODULE Fat32 -------------------------------
(***************************************************************************)
(* The FAT32 driver, fs/fat32.c, on an ATA disk.  The driver never takes   *)
(* or frees a cluster and never adds or removes an entry, so the table and *)
(* the shape of the directories are those of the image; a write changes    *)
(* the data clusters of one file and then the size in its entry.           *)
(*                                                                         *)
(* The disk is d = [dir, data]: dir gives the entries of each directory by *)
(* its cluster, in the order of its sectors.  One unit of contents is one  *)
(* cluster.  Any sector may fail to be read or written; the operators that *)
(* use the disk give the set of the outcomes there are.                    *)
(***************************************************************************)
EXTENDS Integers, Sequences, FiniteSets, SequencesExt

CONSTANTS
  Fat32Next,      \* the table: cluster -> next cluster, or Eoc32
  Fat32Root,      \* g_root_cluster
  FoldCase(_)     \* k_strncmpi compares names up to case

Eoc32 == 0
NoEntry == [kind |-> "none", name |-> "", first |-> 0, size |-> 0]

Chain32(c) ==
  LET at[i \in 1..(Cardinality(DOMAIN Fat32Next) + 1)] ==
        IF i = 1 THEN c ELSE LET prev == at[i - 1] IN IF prev = Eoc32 THEN Eoc32 ELSE Fat32Next[prev]
  IN  SelectSeq(at, LAMBDA x : x # Eoc32)

\* iterate_dir, and find_entry_raw alike: an entry never used ends the directory;
\* a long name stands for the entry right behind it, and is forgotten when that is
\* deleted, a label or a dot entry.  Gives <<name, position>> pairs.
iterate_dir(es) ==
  LET live == {i \in DOMAIN es : es[i].kind \in {"file", "dir"} /\ \A j \in 1..i : es[j].kind # "free"}
      name(i) == IF i > 1 /\ es[i - 1].kind = "lfn" THEN es[i - 1].name ELSE es[i].name
  IN  SelectSeq([i \in DOMAIN es |-> <<name(i), i>>], LAMBDA e : e[2] \in live)

\* The position of the entry called name, 0 when there is none.
LookUp(d, dir, name) ==
  LET hits == SelectSeq(iterate_dir(d.dir[dir]), LAMBDA e : FoldCase(e[1]) = FoldCase(name))
  IN  IF hits = <<>> THEN 0 ELSE hits[1][2]

\* resolve_parent: the cluster of the directory that holds the last segment, 0
\* when a directory on the way is missing.  An entry without a cluster means the root.
resolve_parent(d, segs) ==
  FoldLeft(LAMBDA cur, s :
             LET dirs == SelectSeq(iterate_dir(d.dir[cur]),
                                   LAMBDA e : d.dir[cur][e[2]].kind = "dir" /\ FoldCase(e[1]) = FoldCase(s))
             IN  IF cur = 0 \/ dirs = <<>> THEN 0
                 ELSE LET c == d.dir[cur][dirs[1][2]].first IN IF c = 0 THEN Fat32Root ELSE c,
           Fat32Root, Front(segs))

\* Where a path's entry is: its directory and position, 0 when there is none.
Entry32(d, segs) ==
  LET parent == resolve_parent(d, segs)
  IN  [dir |-> parent, at |-> IF parent = 0 THEN 0 ELSE LookUp(d, parent, Last(segs))]

fat32_stat(d, segs) ==
  IF segs = <<>> THEN [NoEntry EXCEPT !.kind = "dir", !.first = Fat32Root]
  ELSE LET e == Entry32(d, segs) IN IF e.at = 0 THEN NoEntry ELSE d.dir[e.dir][e.at]

fat32_list_dir(d, segs) ==
  LET seen == iterate_dir(d.dir[fat32_stat(d, segs).first]) IN [i \in DOMAIN seen |-> seen[i][1]]

\* The contents of a file: its chain up to its size.
Contents32(d, e) ==
  LET cs == Chain32(e.first) IN [i \in 1..(IF Len(cs) < e.size THEN Len(cs) ELSE e.size) |-> d.data[cs[i]]]

\* fat32_read_file: a sector that cannot be read ends it with what it has.
fat32_read_file(d, segs) ==
  LET all == Contents32(d, fat32_stat(d, segs)) IN {SubSeq(all, 1, n) : n \in 0..Len(all)}

\* The first n clusters of cs written with bytes and zeros behind them.
Overwritten(d, cs, bytes, n) ==
  [d EXCEPT !.data = [c \in DOMAIN d.data |->
     IF \E i \in 1..n : cs[i] = c
     THEN LET i == CHOOSE j \in 1..n : cs[j] = c IN IF i <= Len(bytes) THEN bytes[i] ELSE 0
     ELSE d.data[c]]]

\* A fault: the size is entered before the contents are written.
fat32_write_file_size_first(d, segs, bytes) ==
  LET e == Entry32(d, segs)
      cs == Chain32(d.dir[e.dir][e.at].first)
      sized == [d EXCEPT !.dir[e.dir][e.at].size = Len(bytes)]
  IN  IF e.at = 0 \/ Len(bytes) > Len(cs) THEN {[ok |-> FALSE, d |-> d]}
      ELSE {[ok |-> n = Len(cs), d |-> Overwritten(sized, cs, bytes, n)] : n \in 0..Len(cs)}

\* fat32_write_file: the file must exist and its chain be long enough.  n is how
\* many clusters are written before a sector fails or the table cannot be read
\* (a table that cannot be read ends the chain: when the contents are already
\* written the call goes on).  The size is entered last.
fat32_write_file(d, segs, bytes) ==
  LET e == Entry32(d, segs)
      ent == d.dir[e.dir][e.at]
      cs == Chain32(ent.first)
      refused == {[ok |-> FALSE, d |-> d]}
  IN  IF e.at = 0 THEN refused
      ELSE IF ent.kind = "dir" \/ (ent.first = 0 /\ bytes # <<>>) \/ Len(bytes) > Len(cs) THEN refused
      ELSE {[ok |-> FALSE, d |-> Overwritten(d, cs, bytes, n)] : n \in 0..Len(cs)}
           \cup {[ok |-> TRUE, d |-> [Overwritten(d, cs, bytes, n) EXCEPT !.dir[e.dir][e.at].size = Len(bytes)]] :
                   n \in Len(bytes)..Len(cs)}

\* fat32_rename resolves both paths into one static array of segments, so the
\* old name it then looks for is the new one.  It is found or it is not: either
\* way the call fails, unless the second search cannot read the directory, when
\* the entry is given the short name it is being looked up by.
fat32_rename(d, old, new) ==
  LET from == resolve_parent(d, old)
      to == resolve_parent(d, new)
      at == LookUp(d, to, Last(new))
      refused == {[ok |-> FALSE, d |-> d]}
  IN  IF from = 0 \/ to = 0 \/ from # to THEN refused
      ELSE IF at = 0 THEN refused
      ELSE refused \cup {[ok |-> TRUE, d |-> [d EXCEPT !.dir[to][at].name = FoldCase(Last(new))]]}
============================================================================
