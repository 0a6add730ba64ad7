----------------------------- MODULE VfsProofs -----------------------------
(***************************************************************************)
(* What holds of Vfs for every number of processes, descriptors, open      *)
(* files and pipes, when no process is preempted inside a table operation. *)
(***************************************************************************)
EXTENDS Vfs, TLAPS, FiniteSetTheorems, WellFoundedInduction

----------------------------------------------------------------------------
(* The inductive invariant *)

\* What the proofs take Races to be: no preemption inside a table operation.
Careful == Races \cap {"alloc", "release"} = {}

\* p is inside a call other than a spawn.
InCall(p) == call[p].at \notin {"idle", "spawn"}
\* ... and inside vfs_pipe.
InPipe(p) == call[p].at \in {"pipe.first", "pipe.second", "pipe.fill"}

\* The types, with counts that may grow where references leak.
FileShape == [used : BOOLEAN, refcount : Nat, backend : {"none", "regular", "pipe"},
              pipe : Pipe \cup {Null}, ends : SUBSET Ends]
Shapes ==
  /\ life \in [Procs -> {"free", "live", "zombie"}]
  /\ fds \in [Procs -> [FD -> File \cup {Null, Reserved}]]
  /\ file \in [File -> FileShape]
  /\ pipe \in [Pipe -> PipeType]
  /\ call \in [Procs -> CallType]

\* A process that is not live is in no call, one that is gone has no table, and
\* at most one is inside a call.
CallsSound ==
  /\ \A p \in Procs : life[p] # "live" => call[p] = NoCall
  /\ \A p \in Procs : life[p] = "free" => \A fd \in FD : fds[p][fd] = Null
  /\ \A p, q \in Procs : InCall(p) /\ InCall(q) => p = q
  /\ \A p \in Procs : call[p].at = "spawn" =>
       call[p].child \in Procs \ {p} /\ life[call[p].child] # "free"
  /\ \A p \in Procs : call[p].p # Null => InPipe(p)

\* A claimed file: open, and nobody's but the call's.
New(f) == file[f].used /\ file[f].refcount = 1 /\ file[f].backend = "none"

\* What the call of p has in hand.
HandsOf(p) ==
  /\ call[p].at = "open.claim" => call[p].fr \in File /\ ~file[call[p].fr].used
  /\ call[p].at = "open.fill" => call[p].fr \in File /\ New(call[p].fr)
  /\ call[p].at = "close" => /\ call[p].fr \in File /\ file[call[p].fr].used
                             /\ call[p].loaded >= file[call[p].fr].refcount
                             /\ Races = {} => call[p].loaded = file[call[p].fr].refcount
  /\ call[p].at = "pipe.first" /\ call[p].fr \in File => ~file[call[p].fr].used
  /\ call[p].at \in {"pipe.second", "pipe.fill"} /\ call[p].fr \in File => New(call[p].fr)
  /\ call[p].at = "pipe.second" /\ call[p].fw \in File => ~file[call[p].fw].used
  /\ call[p].at = "pipe.fill" /\ call[p].fw \in File => New(call[p].fw) /\ call[p].fr # call[p].fw
  /\ InPipe(p) => /\ call[p].fd_r \in FD /\ fds[p][call[p].fd_r] = Reserved
                  /\ call[p].fd_w \in FD /\ fds[p][call[p].fd_w] = Reserved
                  /\ call[p].fd_r # call[p].fd_w
\* ... and every call.
HandsSound == \A p \in Procs : HandsOf(p)

\* Every reference is counted; none is counted too often unless Races leak one.
RefsCounted ==
  \A f \in File :
    /\ file[f].used => /\ file[f].refcount >= 1 /\ file[f].refcount >= Refs(f)
                       /\ Races = {} => file[f].refcount = Refs(f)
    /\ ~file[f].used => Refs(f) = 0

\* f is open on the end e of pipe q.
HasEnd(f, q, e) ==
  file[f].used /\ file[f].backend = "pipe" /\ file[f].pipe = q /\ e \in file[f].ends
\* ... as some file is.
Opened(q, e) == \E f \in File : HasEnd(f, q, e)

\* One open file for each end of a pipe, which counts it; a pipe that is being made
\* has none yet.
EndsCounted ==
  /\ \A f \in File : file[f].used /\ file[f].backend = "pipe" => file[f].ends # {}
  /\ \A f, g \in File, q \in Pipe, e \in Ends : HasEnd(f, q, e) /\ HasEnd(g, q, e) => f = g
  /\ \A q \in Pipe :
       /\ pipe[q].readers = (IF Opened(q, "r") THEN 1 ELSE 0)
       /\ pipe[q].writers = (IF Opened(q, "w") THEN 1 ELSE 0)
       /\ Opened(q, "r") \/ Opened(q, "w") => pipe[q].used
       /\ Races = {} /\ pipe[q].used =>
            Opened(q, "r") \/ Opened(q, "w") \/ \E p \in Procs : call[p].p = q
  /\ \A p \in Procs : call[p].p # Null =>
       pipe[call[p].p].used /\ ~Opened(call[p].p, "r") /\ ~Opened(call[p].p, "w")

\* The inductive invariant.
IInv == Shapes /\ CallsSound /\ HandsSound /\ RefsCounted /\ EndsCounted

----------------------------------------------------------------------------
(* Lemmas about the operators of Vfs *)

\* A scan of a table finds an entry when there is one.
LEMMA FirstOfIn ==
  ASSUME NEW S, S \subseteq Nat
  PROVE  /\ S = {} => FirstOf(S) = Null
         /\ S # {} => FirstOf(S) \in S
<1>1. CASE S = {}
  BY <1>1 DEF FirstOf
<1>2. CASE S # {}
  <2>1. PICK i \in S : \A j \in S : ~(<<j, i>> \in OpToRel(<, Nat))
    BY <1>2, NatLessThanWellFounded, WFMin, Zenon
  <2>2. \A j \in S : i <= j
    <3>1. TAKE j \in S
    <3>2. <<j, i>> \notin {ss \in Nat \X Nat : ss[1] < ss[2]}
      BY <2>1 DEF OpToRel
    <3>3. ~(j < i)
      BY <3>2
    <3> QED
      BY <3>3
  <2> QED
    BY <1>2, <2>2 DEF FirstOf
<1> QED
  BY <1>1, <1>2

\* The tables' indices.
LEMMA Indices == File \subseteq Nat /\ FD \subseteq Nat /\ Pipe \subseteq Nat
BY VfsAssumption DEF File, FD, Pipe

\* What file_alloc and process_fd_alloc find.
LEMMA ScanFinds ==
  /\ \A files : \/ FreeFiles(files) = Null
                \/ FreeFiles(files) \in File /\ ~files[FreeFiles(files)].used
  /\ \A tbl : \/ process_fd_alloc(tbl) = Null
              \/ process_fd_alloc(tbl) \in FD /\ tbl[process_fd_alloc(tbl)] = Null
<1>1. ASSUME NEW files
      PROVE  \/ FreeFiles(files) = Null
             \/ FreeFiles(files) \in File /\ ~files[FreeFiles(files)].used
  <2> DEFINE S == {f \in File : ~files[f].used}
  <2>1. S \subseteq Nat
    BY Indices
  <2>2. FirstOf(S) = Null \/ FirstOf(S) \in S
    BY <2>1, FirstOfIn
  <2> QED
    BY <2>2 DEF FreeFiles
<1>2. ASSUME NEW tbl
      PROVE  \/ process_fd_alloc(tbl) = Null
             \/ process_fd_alloc(tbl) \in FD /\ tbl[process_fd_alloc(tbl)] = Null
  <2> DEFINE S == {fd \in FD : tbl[fd] = Null}
  <2>1. S \subseteq Nat
    BY Indices
  <2>2. FirstOf(S) = Null \/ FirstOf(S) \in S
    BY <2>1, FirstOfIn
  <2> QED
    BY <2>2 DEF process_fd_alloc
<1> QED
  BY <1>1, <1>2

\* Null and Reserved are no entries of any table.
LEMMA NoEntries ==
  /\ Null \notin File /\ Reserved \notin File /\ Null # Reserved
  /\ Null \notin Pipe /\ Null \notin FD
BY VfsAssumption DEF Null, Reserved, File, Pipe, FD

\* Two finite sets that differ in at most one element.
LEMMA OneElement ==
  ASSUME NEW S, NEW T, IsFiniteSet(S), IsFiniteSet(T), NEW x,
         \A y : y # x => (y \in S <=> y \in T)
  PROVE  /\ Cardinality(S) \in Nat /\ Cardinality(T) \in Nat
         /\ x \in S /\ x \notin T => Cardinality(S) = Cardinality(T) + 1
         /\ x \notin S /\ x \in T => Cardinality(T) = Cardinality(S) + 1
         /\ (x \in S <=> x \in T) => Cardinality(S) = Cardinality(T)
<1>1. Cardinality(S) \in Nat /\ Cardinality(T) \in Nat
  BY FS_CardinalityType
<1>2. ASSUME x \in S, x \notin T PROVE Cardinality(S) = Cardinality(T) + 1
  <2>1. S = T \cup {x}
    BY <1>2
  <2> QED
    BY <1>2, <2>1, FS_AddElement
<1>3. ASSUME x \notin S, x \in T PROVE Cardinality(T) = Cardinality(S) + 1
  <2>1. T = S \cup {x}
    BY <1>3
  <2> QED
    BY <1>3, <2>1, FS_AddElement
<1>4. ASSUME x \in S <=> x \in T PROVE Cardinality(S) = Cardinality(T)
  <2>1. S = T
    BY <1>4
  <2> QED
    BY <2>1
<1> QED
  BY <1>1, <1>2, <1>3, <1>4

\* The sets that reference counts count are finite.
LEMMA CountedFinite ==
  /\ \A S : S \subseteq Procs \X FD => IsFiniteSet(S) /\ Cardinality(S) \in Nat
  /\ \A S : S \subseteq Procs => IsFiniteSet(S) /\ Cardinality(S) \in Nat
  /\ \A S : S \subseteq FD => IsFiniteSet(S) /\ Cardinality(S) \in Nat
<1>1. IsFiniteSet(FD)
  BY VfsAssumption, FS_Interval DEF FD
<1>2. IsFiniteSet(Procs \X FD)
  BY <1>1, VfsAssumption, FS_Product
<1> QED
  BY <1>1, <1>2, VfsAssumption, FS_Subset, FS_CardinalityType

\* The entry fd of q refers to f; so does the call of q.
Refers(q, fd, f) == life[q] # "free" /\ fds[q][fd] = f
InHand(q, f) ==
  \/ call[q].at \in {"open.fill", "close", "pipe.second"} /\ call[q].fr = f
  \/ call[q].at = "pipe.fill" /\ f \in {call[q].fr, call[q].fw}

\* The references of tables and of calls, counted apart.
Held1(f) == Cardinality(Holders(f))
Held2(f) == Cardinality(Callers(f))

\* The references to a file are the two together.
LEMMA RefsSplit ==
  ASSUME NEW f
  PROVE  /\ Refs(f) = Held1(f) + Held2(f) /\ Refs(f)' = Held1(f)' + Held2(f)'
         /\ Held1(f) \in Nat /\ Held2(f) \in Nat /\ Held1(f)' \in Nat /\ Held2(f)' \in Nat
         /\ Refs(f) \in Nat /\ Refs(f)' \in Nat
<1>1. Holders(f) \subseteq Procs \X FD /\ Callers(f) \subseteq Procs
  BY DEF Holders, Callers
<1>2. Holders(f)' \subseteq Procs \X FD /\ Callers(f)' \subseteq Procs
  BY DEF Holders, Callers
<1>3. Held1(f) \in Nat /\ Held2(f) \in Nat
  BY <1>1, CountedFinite DEF Held1, Held2
<1>4. Held1(f)' \in Nat /\ Held2(f)' \in Nat
  BY <1>2, CountedFinite DEF Held1, Held2
<1> QED
  BY <1>3, <1>4 DEF Refs, Held1, Held2

\* One entry of one table changes.
LEMMA EntryMoves ==
  ASSUME NEW p \in Procs, NEW fd \in FD, NEW f,
         \A q \in Procs, e \in FD : q # p \/ e # fd => (Refers(q, e, f)' <=> Refers(q, e, f))
  PROVE  /\ Refers(p, fd, f) /\ ~Refers(p, fd, f)' => Held1(f) = Held1(f)' + 1
         /\ ~Refers(p, fd, f) /\ Refers(p, fd, f)' => Held1(f)' = Held1(f) + 1
         /\ (Refers(p, fd, f)' <=> Refers(p, fd, f)) => Held1(f)' = Held1(f)
<1> DEFINE S == Holders(f)
           T == Holders(f)'
           x == <<p, fd>>
<1>1. S \subseteq Procs \X FD /\ T \subseteq Procs \X FD
  BY DEF Holders
<1>2. IsFiniteSet(S) /\ IsFiniteSet(T)
  BY <1>1, CountedFinite
<1>3. \A q \in Procs, e \in FD : (<<q, e>> \in S <=> Refers(q, e, f)) /\ (<<q, e>> \in T <=> Refers(q, e, f)')
  BY DEF Holders, Refers
<1>4. \A y : y # x => (y \in S <=> y \in T)
  <2> SUFFICES ASSUME NEW y \in Procs \X FD, y # x PROVE y \in S <=> y \in T
    BY <1>1
  <2>1. PICK q \in Procs, e \in FD : y = <<q, e>>
    OBVIOUS
  <2>2. q # p \/ e # fd
    BY <2>1
  <2> QED
    BY <2>1, <2>2, <1>3
<1>5. Held1(f) = Cardinality(S) /\ Held1(f)' = Cardinality(T)
  BY DEF Held1
<1>6. (x \in S <=> Refers(p, fd, f)) /\ (x \in T <=> Refers(p, fd, f)')
  BY <1>3
<1> HIDE DEF S, T, x
<1> QED
  BY <1>2, <1>4, <1>5, <1>6, OneElement

\* No entry changes.
LEMMA EntriesSame ==
  ASSUME NEW f, \A q \in Procs, e \in FD : Refers(q, e, f)' <=> Refers(q, e, f)
  PROVE  Held1(f)' = Held1(f)
<1>1. Holders(f)' = Holders(f)
  BY DEF Holders, Refers
<1> QED
  BY <1>1 DEF Held1

\* The call of one process moves on.
LEMMA CallerMoves ==
  ASSUME NEW p \in Procs, NEW f,
         \A q \in Procs : q # p => (InHand(q, f)' <=> InHand(q, f))
  PROVE  /\ InHand(p, f) /\ ~InHand(p, f)' => Held2(f) = Held2(f)' + 1
         /\ ~InHand(p, f) /\ InHand(p, f)' => Held2(f)' = Held2(f) + 1
         /\ (InHand(p, f)' <=> InHand(p, f)) => Held2(f)' = Held2(f)
<1> DEFINE S == Callers(f)
           T == Callers(f)'
<1>1. S \subseteq Procs /\ T \subseteq Procs
  BY DEF Callers
<1>2. IsFiniteSet(S) /\ IsFiniteSet(T)
  BY <1>1, CountedFinite
<1>3. \A q \in Procs : (q \in S <=> InHand(q, f)) /\ (q \in T <=> InHand(q, f)')
  BY DEF Callers, InHand
<1>4. \A y : y # p => (y \in S <=> y \in T)
  BY <1>1, <1>3
<1>5. Held2(f) = Cardinality(S) /\ Held2(f)' = Cardinality(T)
  BY DEF Held2
<1> HIDE DEF S, T
<1> QED
  BY <1>2, <1>3, <1>4, <1>5, OneElement

\* A reference in hand or in a table is counted.
LEMMA RefsAtLeast ==
  ASSUME NEW f
  PROVE  /\ \A p \in Procs : InHand(p, f) => Held2(f) >= 1
         /\ \A p \in Procs, fd \in FD : Refers(p, fd, f) => Held1(f) >= 1
<1>1. Holders(f) \subseteq Procs \X FD /\ Callers(f) \subseteq Procs
  BY DEF Holders, Callers
<1>2. IsFiniteSet(Holders(f)) /\ IsFiniteSet(Callers(f))
  BY <1>1, CountedFinite
<1>3. ASSUME NEW p \in Procs, InHand(p, f) PROVE Callers(f) # {}
  BY <1>3 DEF Callers, InHand
<1>4. ASSUME NEW p \in Procs, NEW fd \in FD, Refers(p, fd, f) PROVE Holders(f) # {}
  <2>1. <<p, fd>> \in Holders(f)
    BY <1>4 DEF Holders, Refers
  <2> QED
    BY <2>1
<1>5. Callers(f) # {} => Held2(f) >= 1
  BY <1>2, FS_EmptySet, FS_CardinalityType DEF Held2
<1>6. Holders(f) # {} => Held1(f) >= 1
  BY <1>2, FS_EmptySet, FS_CardinalityType DEF Held1
<1> QED
  BY <1>3, <1>4, <1>5, <1>6

----------------------------------------------------------------------------
(* Releasing files *)

\* No reference.
None == [f \in File |-> 0]

\* A file is as it was but for its count.
SameFile(f) ==
  /\ file'[f].backend = file[f].backend /\ file'[f].pipe = file[f].pipe
  /\ file'[f].ends = file[f].ends

\* k[f] references to f are released and j[f] are added; counts may end up too high
\* where Races leak references.
Released(k, j) ==
  \A f \in File :
    /\ f \in Gone(file, k) => ~file'[f].used /\ j[f] = 0
    /\ ~file[f].used => ~file'[f].used /\ j[f] = 0
    /\ file[f].used /\ f \notin Gone(file, k) =>
         /\ file'[f].used /\ SameFile(f)
         /\ file'[f].refcount >= (file[f].refcount - k[f]) + j[f]
         /\ Races = {} => file'[f].refcount = (file[f].refcount - k[f]) + j[f]

\* References come and go as the counts do.
LEMMA RefStep ==
  ASSUME Shapes, Shapes', RefsCounted, NEW k \in [File -> Nat], NEW j \in [File -> Nat], Released(k, j),
         \A f \in File : /\ k[f] <= Refs(f)
                         /\ Refs(f)' + k[f] <= Refs(f) + j[f]
                         /\ Races = {} => Refs(f)' + k[f] = Refs(f) + j[f]
  PROVE  RefsCounted'
<1> SUFFICES ASSUME NEW f \in File
             PROVE  /\ file'[f].used => /\ file'[f].refcount >= 1 /\ file'[f].refcount >= Refs(f)'
                                        /\ Races = {} => file'[f].refcount = Refs(f)'
                    /\ ~file'[f].used => Refs(f)' = 0
  BY DEF RefsCounted
<1>1. PICK a, b, m, n : a = Refs(f) /\ b = Refs(f)' /\ m = k[f] /\ n = j[f]
  OBVIOUS
<1>2. a \in Nat /\ b \in Nat /\ m \in Nat /\ n \in Nat /\ file[f].refcount \in Nat /\ file'[f].refcount \in Nat
  BY <1>1, RefsSplit DEF Shapes, FileShape
<1>3. m <= a /\ b + m <= a + n /\ (Races = {} => b + m = a + n)
  BY <1>1
<1>4. CASE ~file[f].used
  <2>1. a = 0 /\ n = 0 /\ ~file'[f].used
    BY <1>1, <1>4 DEF RefsCounted, Released
  <2>2. b = 0
    BY <1>2, <1>3, <2>1
  <2> QED
    BY <1>1, <2>1, <2>2
<1>5. CASE f \in Gone(file, k)
  <2>1. n = 0 /\ ~file'[f].used
    BY <1>1, <1>5 DEF Released
  <2>2. file[f].used /\ file[f].refcount <= m
    BY <1>1, <1>5 DEF Gone
  <2>3. file[f].refcount >= a
    BY <1>1, <2>2 DEF RefsCounted
  <2>4. b = 0
    BY <1>2, <1>3, <2>1, <2>2, <2>3
  <2> QED
    BY <1>1, <2>1, <2>4
<1>6. CASE file[f].used /\ f \notin Gone(file, k)
  <2>1. /\ file'[f].used /\ file'[f].refcount >= (file[f].refcount - m) + n
        /\ Races = {} => file'[f].refcount = (file[f].refcount - m) + n
    BY <1>1, <1>6 DEF Released
  <2>2. /\ file[f].refcount >= 1 /\ file[f].refcount >= a
        /\ Races = {} => file[f].refcount = a
    BY <1>1, <1>6 DEF RefsCounted
  <2>3. m = 0 \/ file[f].refcount > m
    BY <1>1, <1>2, <1>6 DEF Gone
  <2>4. file'[f].refcount >= 1
    BY <1>2, <2>1, <2>2, <2>3
  <2>5. file'[f].refcount >= b
    BY <1>2, <1>3, <2>1, <2>2
  <2>6. Races = {} => file'[f].refcount = b
    BY <1>2, <1>3, <2>1, <2>2
  <2> QED
    BY <1>1, <2>1, <2>4, <2>5, <2>6
<1> QED
  BY <1>4, <1>5, <1>6 DEF Gone

\* file_release, k[f] times.
LEMMA AfterReleased ==
  ASSUME Shapes, NEW k \in [File -> Nat], file' = FilesAfter(file, k)
  PROVE  Released(k, None) /\ file' \in [File -> FileShape]
<1>1. ASSUME NEW f \in File
      PROVE  /\ f \in Gone(file, k) => file'[f] = FreeFile
             /\ file[f].used /\ f \notin Gone(file, k) => file'[f] = [file[f] EXCEPT !.refcount = @ - k[f]]
             /\ ~file[f].used => file'[f] = file[f]
             /\ file[f] \in FileShape /\ k[f] \in Nat
  BY DEF FilesAfter, Gone, Shapes
<1>2. FreeFile \in FileShape /\ ~FreeFile.used
  BY VfsAssumption DEF FreeFile, FileShape, Ends
<1>3. ASSUME NEW f \in File, file[f].used, f \notin Gone(file, k)
      PROVE  /\ file'[f].used /\ SameFile(f) /\ file'[f] \in FileShape
             /\ file'[f].refcount = (file[f].refcount - k[f]) + 0
             /\ file'[f].refcount >= (file[f].refcount - k[f]) + 0
  <2>1. file'[f] = [file[f] EXCEPT !.refcount = @ - k[f]] /\ file[f] \in FileShape /\ k[f] \in Nat
    BY <1>1, <1>3
  <2>2. file[f].refcount - k[f] \in Nat
    <3>1. k[f] = 0 \/ file[f].refcount > k[f]
      BY <1>3, <2>1 DEF Gone, FileShape
    <3> QED
      BY <2>1, <3>1 DEF FileShape
  <2> QED
    BY <1>3, <2>1, <2>2 DEF FileShape, SameFile
<1>4. file' \in [File -> FileShape]
  <2>1. \A f \in File : file'[f] \in FileShape
    BY <1>1, <1>2, <1>3 DEF Gone
  <2> QED
    BY <2>1 DEF FilesAfter
<1>5. ASSUME NEW f \in File
      PROVE  /\ f \in Gone(file, k) => ~file'[f].used
             /\ ~file[f].used => ~file'[f].used
             /\ None[f] = 0
  BY <1>1, <1>2 DEF None
<1>6. Released(k, None)
  BY <1>3, <1>5 DEF Released
<1> QED
  BY <1>4, <1>6

\* The numbers of the pipe table after a release.
LEMMA LoweredOne ==
  ASSUME NEW S
  PROVE  /\ S = {} => Lowered(0, S) = 0 /\ Lowered(1, S) = 1
         /\ (\E x : S = {x}) => Lowered(1, S) = 0
<1>1. S = {} => Cardinality(S) = 0
  BY FS_EmptySet
<1>2. (\E x : S = {x}) => Cardinality(S) = 1
  BY FS_Singleton
<1> QED
  BY <1>1, <1>2 DEF Lowered

\* The end e of pipe q, when the files of Gone(file, k) go.
LEMMA EndGoes ==
  ASSUME Shapes, EndsCounted, NEW k \in [File -> Nat], NEW j, Released(k, j),
         NEW q \in Pipe, NEW e \in Ends, NEW n,
         n = (IF Opened(q, e) THEN 1 ELSE 0),
         NEW S, S = {f \in Gone(file, k) : HasEnd(f, q, e)}
  PROVE  Lowered(n, S) = (IF Opened(q, e)' THEN 1 ELSE 0)
<1>1. \A f \in File : HasEnd(f, q, e)' <=> HasEnd(f, q, e) /\ f \notin Gone(file, k)
  BY DEF Released, HasEnd, SameFile, Gone
<1>2. S \subseteq File
  BY DEF Gone
<1>3. CASE ~Opened(q, e)
  <2>1. S = {} /\ ~Opened(q, e)'
    BY <1>1, <1>2, <1>3 DEF Opened
  <2> QED
    BY <1>3, <2>1, LoweredOne
<1>4. CASE Opened(q, e)
  <2>1. PICK f \in File : HasEnd(f, q, e)
    BY <1>4 DEF Opened
  <2>2. \A g \in File : HasEnd(g, q, e) => g = f
    BY <2>1 DEF EndsCounted
  <2>3. CASE f \in Gone(file, k)
    <3>1. S = {f}
      BY <1>2, <2>1, <2>2, <2>3
    <3>2. ~Opened(q, e)'
      BY <1>1, <2>2, <2>3 DEF Opened
    <3> QED
      BY <1>4, <3>1, <3>2, LoweredOne
  <2>4. CASE f \notin Gone(file, k)
    <3>1. S = {}
      BY <1>2, <2>2, <2>4
    <3>2. Opened(q, e)'
      BY <1>1, <2>1, <2>4 DEF Opened
    <3> QED
      BY <1>4, <3>1, <3>2, LoweredOne
  <2> QED
    BY <2>3, <2>4
<1> QED
  BY <1>3, <1>4

\* A released pipe end is uncounted, and the pipe goes with its last end.
LEMMA EndsRelease ==
  ASSUME Shapes, EndsCounted, NEW k \in [File -> Nat], NEW j, Released(k, j),
         pipe' = PipesAfter(file, k),
         \A p \in Procs : \/ call'[p].p = call[p].p
                          \/ call'[p].p = Null /\ (Races = {} => call[p].p = Null)
  PROVE  EndsCounted' /\ pipe' \in [Pipe -> PipeType]
<1>1. \A f \in File : file'[f].used => file[f].used /\ SameFile(f) /\ f \notin Gone(file, k)
  BY DEF Released
<1>2. \A f \in File, q \in Pipe, e \in Ends :
        HasEnd(f, q, e)' <=> HasEnd(f, q, e) /\ f \notin Gone(file, k)
  BY DEF Released, HasEnd, SameFile, Gone
<1>3. ASSUME NEW q \in Pipe
      PROVE  /\ pipe'[q].readers = (IF Opened(q, "r")' THEN 1 ELSE 0)
             /\ pipe'[q].writers = (IF Opened(q, "w")' THEN 1 ELSE 0)
             /\ Opened(q, "r")' \/ Opened(q, "w")' => pipe'[q].used
             /\ pipe'[q] \in PipeType
             /\ pipe'[q].used => pipe[q].used
             /\ ~Opened(q, "r") /\ ~Opened(q, "w") => pipe'[q] = pipe[q]
             /\ pipe'[q].used => \/ Opened(q, "r")' \/ Opened(q, "w")'
                                 \/ ~Opened(q, "r") /\ ~Opened(q, "w")
  <2>1. PICK gone : gone = {f \in Gone(file, k) : file[f].backend = "pipe" /\ file[f].pipe = q}
    OBVIOUS
  <2>2. PICK R, W : /\ R = {f \in gone : "r" \in file[f].ends}
                    /\ W = {f \in gone : "w" \in file[f].ends}
    OBVIOUS
  <2>3. /\ R = {f \in Gone(file, k) : HasEnd(f, q, "r")}
        /\ W = {f \in Gone(file, k) : HasEnd(f, q, "w")}
    BY <2>1, <2>2 DEF HasEnd, Gone
  <2>4. PICK r, w : r = Lowered(pipe[q].readers, R) /\ w = Lowered(pipe[q].writers, W)
    OBVIOUS
  <2>5. pipe'[q] = IF gone = {} THEN pipe[q]
                   ELSE [used |-> pipe[q].used /\ ~(r = 0 /\ w = 0), readers |-> r, writers |-> w]
    BY <2>1, <2>2, <2>4 DEF PipesAfter
  <2>6. /\ pipe[q].readers = (IF Opened(q, "r") THEN 1 ELSE 0)
        /\ pipe[q].writers = (IF Opened(q, "w") THEN 1 ELSE 0)
        /\ Opened(q, "r") \/ Opened(q, "w") => pipe[q].used
        /\ pipe[q] \in PipeType
    BY DEF EndsCounted, Shapes
  <2>7. r = (IF Opened(q, "r")' THEN 1 ELSE 0) /\ w = (IF Opened(q, "w")' THEN 1 ELSE 0)
    BY <2>3, <2>4, <2>6, EndGoes DEF Ends
  <2>8. /\ Opened(q, "r")' => Opened(q, "r")
        /\ Opened(q, "w")' => Opened(q, "w")
    BY <1>2 DEF Opened, Ends
  <2>9. CASE gone = {}
    <3>1. \A f \in File, e \in Ends : HasEnd(f, q, e)' <=> HasEnd(f, q, e)
      BY <1>2, <2>1, <2>9 DEF HasEnd
    <3>2. (Opened(q, "r")' <=> Opened(q, "r")) /\ (Opened(q, "w")' <=> Opened(q, "w"))
      BY <3>1 DEF Opened, Ends
    <3>3. pipe'[q] = pipe[q]
      BY <2>5, <2>9
    <3> QED
      BY <2>6, <3>2, <3>3
  <2>10. CASE gone # {}
    <3>1. pipe'[q] = [used |-> pipe[q].used /\ ~(r = 0 /\ w = 0), readers |-> r, writers |-> w]
      BY <2>5, <2>10
    <3>2. pipe'[q].readers = r /\ pipe'[q].writers = w /\ (pipe'[q].used <=> pipe[q].used /\ ~(r = 0 /\ w = 0))
      <4>1. PICK u \in BOOLEAN : u = (pipe[q].used /\ ~(r = 0 /\ w = 0))
        BY <2>6 DEF PipeType
      <4>2. pipe'[q] = [used |-> u, readers |-> r, writers |-> w]
        BY <3>1, <4>1
      <4>3. pipe'[q].readers = r /\ pipe'[q].writers = w /\ pipe'[q].used = u
        BY <4>2
      <4>4. u <=> pipe[q].used /\ ~(r = 0 /\ w = 0)
        BY <4>1, Zenon
      <4> QED
        BY <4>3, <4>4
    <3>3. Opened(q, "r") \/ Opened(q, "w")
      <4>1. PICK f \in gone : TRUE
        BY <2>10
      <4>2. f \in File /\ file[f].used /\ file[f].backend = "pipe" /\ file[f].pipe = q
        BY <2>1, <4>1 DEF Gone
      <4>3. file[f].ends # {} /\ file[f].ends \subseteq Ends
        BY <4>2 DEF EndsCounted, Shapes, FileShape
      <4>4. PICK e \in Ends : HasEnd(f, q, e)
        BY <4>2, <4>3 DEF HasEnd
      <4> QED
        BY <4>2, <4>4 DEF Opened, Ends
    <3>4. pipe'[q] \in PipeType
      <4>1. r \in 0..1 /\ w \in 0..1
        BY <2>7
      <4> QED
        BY <3>1, <4>1, <2>6 DEF PipeType
    <3> QED
      BY <2>6, <2>7, <2>8, <3>2, <3>3, <3>4
  <2> QED
    BY <2>9, <2>10
<1>4. \A f \in File : file'[f].used /\ file'[f].backend = "pipe" => file'[f].ends # {}
  BY <1>1 DEF SameFile, EndsCounted
<1>5. \A f, g \in File, q \in Pipe, e \in Ends : HasEnd(f, q, e)' /\ HasEnd(g, q, e)' => f = g
  BY <1>2 DEF EndsCounted
<1>6. ASSUME NEW q \in Pipe, Races = {}, pipe'[q].used
      PROVE  Opened(q, "r")' \/ Opened(q, "w")' \/ \E p \in Procs : call'[p].p = q
  <2>1. CASE ~Opened(q, "r") /\ ~Opened(q, "w")
    <3>1. PICK p \in Procs : call[p].p = q
      BY <1>3, <1>6, <2>1 DEF EndsCounted
    <3>2. call'[p].p = q
      BY <1>6, <3>1, NoEntries
    <3> QED
      BY <3>2
  <2> QED
    BY <1>3, <1>6, <2>1
<1>7. ASSUME NEW p \in Procs, call'[p].p # Null
      PROVE  pipe'[call'[p].p].used /\ ~Opened(call[p].p, "r")' /\ ~Opened(call[p].p, "w")'
  <2>1. PICK q : q = call[p].p
    OBVIOUS
  <2>2. call'[p].p = q /\ q \in Pipe
    BY <1>7, <2>1 DEF Shapes, CallType
  <2>3. pipe[q].used /\ ~Opened(q, "r") /\ ~Opened(q, "w")
    BY <1>7, <2>1, <2>2 DEF EndsCounted
  <2>4. pipe'[q] = pipe[q]
    BY <1>3, <2>2, <2>3
  <2>5. ~Opened(q, "r")' /\ ~Opened(q, "w")'
    BY <1>2, <2>2, <2>3 DEF Opened, Ends
  <2> QED
    BY <2>2, <2>3, <2>4, <2>5
<1>8. pipe' \in [Pipe -> PipeType]
  BY <1>3 DEF PipesAfter
<1> QED
  BY <1>3, <1>4, <1>5, <1>6, <1>7, <1>8 DEF EndsCounted

\* No end of a pipe is opened, released or moved.
LEMMA EndsSame ==
  ASSUME Shapes, EndsCounted, pipe' = pipe,
         \A f \in File : file'[f].used /\ file'[f].backend = "pipe" => file[f].used /\ SameFile(f),
         \A f \in File : file[f].used /\ file[f].backend = "pipe" => file'[f].used /\ SameFile(f),
         \A p \in Procs : \/ call'[p].p = call[p].p
                          \/ call'[p].p = Null /\ (Races = {} => call[p].p = Null)
  PROVE  EndsCounted'
<1>1. \A f \in File : \A q, e : HasEnd(f, q, e)' <=> HasEnd(f, q, e)
  BY DEF HasEnd, SameFile
<1>2. \A q, e : Opened(q, e)' <=> Opened(q, e)
  BY <1>1 DEF Opened
<1>3. \A f \in File : file'[f].used /\ file'[f].backend = "pipe" => file'[f].ends # {}
  BY DEF SameFile, EndsCounted
<1>4. \A f, g \in File, q \in Pipe, e \in Ends : HasEnd(f, q, e)' /\ HasEnd(g, q, e)' => f = g
  BY <1>1 DEF EndsCounted
<1>5. \A q \in Pipe :
       /\ pipe'[q].readers = (IF Opened(q, "r")' THEN 1 ELSE 0)
       /\ pipe'[q].writers = (IF Opened(q, "w")' THEN 1 ELSE 0)
       /\ Opened(q, "r")' \/ Opened(q, "w")' => pipe'[q].used
  BY <1>2 DEF EndsCounted
<1>6. ASSUME NEW q \in Pipe, Races = {}, pipe'[q].used
      PROVE  Opened(q, "r")' \/ Opened(q, "w")' \/ \E p \in Procs : call'[p].p = q
  <2>1. CASE \E p \in Procs : call[p].p = q
    BY <1>6, <2>1, NoEntries
  <2> QED
    BY <1>2, <1>6, <2>1 DEF EndsCounted
<1>7. ASSUME NEW p \in Procs, call'[p].p # Null
      PROVE  pipe'[call'[p].p].used /\ ~Opened(call[p].p, "r")' /\ ~Opened(call[p].p, "w")'
  BY <1>2, <1>7 DEF EndsCounted
<1> QED
  BY <1>3, <1>4, <1>5, <1>6, <1>7 DEF EndsCounted

----------------------------------------------------------------------------
(* What the steps have in common *)

\* While one process runs, nobody else is inside a call.
LEMMA Alone ==
  ASSUME Careful, IInv, NEW p \in Procs, MayRun(p)
  PROVE  \A q \in Procs : q # p => ~InCall(q)
<1> SUFFICES ASSUME NEW q \in Procs, q # p, InCall(q) PROVE FALSE
  OBVIOUS
<1>1. life[q] = "live"
  BY DEF IInv, CallsSound, InCall, NoCall
<1>2. Window(call[q].at)
  BY <1>1 DEF MayRun
<1>3. call[q].at \in Places \ {"idle", "spawn"}
  BY DEF InCall, IInv, Shapes, CallType
<1> QED
  BY <1>2, <1>3 DEF Window, Careful, Places

\* Nothing is in hand outside a call.
LEMMA OutOfCall ==
  ASSUME NEW q
  PROVE  /\ ~InCall(q) => HandsOf(q) /\ \A f : ~InHand(q, f)
         /\ ~InCall(q)' => HandsOf(q)' /\ \A f : ~InHand(q, f)'
BY DEF InCall, HandsOf, InHand, InPipe

\* A step of p's own call.
Own(p) ==
  /\ Careful /\ IInv /\ MayRun(p) /\ life[p] = "live"
  /\ life' = life /\ Shapes'
  /\ \A q \in Procs : q # p => call'[q] = call[q] /\ fds'[q] = fds[q]
  /\ call'[p].at = "spawn" => call'[p] = call[p]
  /\ call'[p].p # Null => InPipe(p)'
  /\ HandsOf(p)'

\* Such a step keeps the calls sound, and the others have nothing in hand.
LEMMA OwnStep ==
  ASSUME NEW p \in Procs, Own(p)
  PROVE  /\ CallsSound' /\ HandsSound'
         /\ \A q \in Procs : q # p => ~InCall(q) /\ ~InCall(q)'
         /\ \A q \in Procs : q # p => \A f : ~InHand(q, f) /\ ~InHand(q, f)'
<1> USE DEF Own
<1>1. \A q \in Procs : q # p => ~InCall(q)
  BY Alone
<1>2. \A q \in Procs : q # p => ~InCall(q)'
  BY <1>1 DEF InCall
<1>3. HandsSound'
  BY <1>2, OutOfCall DEF HandsSound
<1>4. CallsSound'
  <2>1. \A q \in Procs : life'[q] # "live" => call'[q] = NoCall
    BY DEF IInv, CallsSound
  <2>2. \A q \in Procs : life'[q] = "free" => \A fd \in FD : fds'[q][fd] = Null
    BY DEF IInv, CallsSound
  <2>3. \A q, o \in Procs : InCall(q)' /\ InCall(o)' => q = o
    BY <1>2
  <2>4. ASSUME NEW q \in Procs, call'[q].at = "spawn"
        PROVE  call'[q].child \in Procs \ {q} /\ life'[call'[q].child] # "free"
    <3>1. call'[q] = call[q]
      BY <2>4
    <3> QED
      BY <2>4, <3>1 DEF IInv, CallsSound
  <2>5. ASSUME NEW q \in Procs, call'[q].p # Null
        PROVE  InPipe(q)'
    <3>1. CASE q = p
      BY <3>1, <2>5
    <3>2. CASE q # p
      BY <3>2, <2>5 DEF IInv, CallsSound, InPipe
    <3> QED
      BY <3>1, <3>2
  <2> QED
    BY <2>1, <2>2, <2>3, <2>4, <2>5 DEF CallsSound
<1> QED
  BY <1>1, <1>2, <1>3, <1>4, OutOfCall

\* References move, counts stay.
LEMMA RefsMoved ==
  ASSUME RefsCounted,
         \A f \in File : /\ file'[f].used <=> file[f].used
                         /\ file'[f].refcount = file[f].refcount
                         /\ Refs(f)' = Refs(f)
  PROVE  RefsCounted'
BY DEF RefsCounted

\* No table entry changes its file.
LEMMA TablesSame ==
  ASSUME life' = life, fds' = fds
  PROVE  \A f : Held1(f)' = Held1(f)
BY EntriesSame DEF Refers

\* The call of p takes nothing up and puts nothing down.
LEMMA HandSame ==
  ASSUME NEW p \in Procs, Own(p), NEW f, InHand(p, f)' <=> InHand(p, f)
  PROVE  Held2(f)' = Held2(f)
BY OwnStep, CallerMoves

\* The call of p puts f down, or takes it up.
LEMMA PutsDown ==
  ASSUME NEW p \in Procs, Own(p), NEW f, InHand(p, f), ~InHand(p, f)'
  PROVE  Held2(f) = Held2(f)' + 1
BY OwnStep, CallerMoves

\* ... and takes it up.
LEMMA TakesUp ==
  ASSUME NEW p \in Procs, Own(p), NEW f, ~InHand(p, f), InHand(p, f)'
  PROVE  Held2(f)' = Held2(f) + 1
BY OwnStep, CallerMoves

\* A claimed file is an open one.
LEMMA ClaimedShape ==
  ASSUME Shapes, NEW f \in File, file' = Claimed(file, f)
  PROVE  /\ file' \in [File -> FileShape]
         /\ \A g \in File : g # f => file'[g] = file[g]
         /\ file'[f].used /\ file'[f].refcount = 1 /\ file'[f].backend = "none"
<1>1. PICK n : n = [FreeFile EXCEPT !.used = TRUE, !.refcount = 1]
  OBVIOUS
<1>2. n \in FileShape /\ n.used /\ n.refcount = 1 /\ n.backend = "none"
  BY <1>1 DEF FreeFile, FileShape, Ends
<1>3. file' = [file EXCEPT ![f] = n]
  BY <1>1, NoEntries DEF Claimed
<1> QED
  BY <1>2, <1>3 DEF Shapes

\* A call goes on.
LEMMA CallAt ==
  ASSUME Shapes, NEW p \in Procs, NEW x \in Places, call' = [call EXCEPT ![p].at = x]
  PROVE  call' \in [Procs -> CallType]
<1>1. PICK c : c = [call[p] EXCEPT !.at = x]
  OBVIOUS
<1>2. c \in CallType
  BY ZenonT(40), <1>1 DEF Shapes, CallType
<1>3. call' = [call EXCEPT ![p] = c]
  BY <1>1
<1> QED
  BY <1>2, <1>3 DEF Shapes

\* A process that has returned has nothing in hand.
LEMMA NoCallType ==
  /\ NoCall \in CallType /\ NoCall.at = "idle" /\ NoCall.p = Null
BY DEF NoCall, CallType, Places

\* ... and its place in a call is no place of a spawn or a pipe.
LEMMA NoCallHands ==
  ASSUME NEW p, call'[p] = NoCall
  PROVE  HandsOf(p)' /\ ~InCall(p)' /\ (\A f : ~InHand(p, f)')
         /\ (call'[p].at = "spawn" => FALSE) /\ call'[p].p = Null
BY NoCallType DEF HandsOf, InCall, InHand, InPipe

\* file_alloc claims f for the call of p.
LEMMA ClaimStep ==
  ASSUME NEW p \in Procs, Own(p), NEW f \in File, ~file[f].used, file' = Claimed(file, f),
         fds' = fds, pipe' = pipe, InHand(p, f)',
         \A g \in File : g # f => (InHand(p, g)' <=> InHand(p, g)),
         call'[p].p = call[p].p
  PROVE  RefsCounted' /\ EndsCounted'
<1>1. /\ \A g \in File : g # f => file'[g] = file[g]
      /\ file'[f].used /\ file'[f].refcount = 1 /\ file'[f].backend = "none"
  BY ClaimedShape DEF Own, IInv
<1>2. \A g \in File : g # f => Refs(g)' = Refs(g)
  BY HandSame, TablesSame, RefsSplit DEF Own
<1>3. Refs(f) = 0
  BY DEF Own, IInv, RefsCounted
<1>4. Held1(f) = 0 /\ Held2(f) = 0
  BY <1>3, RefsSplit
<1>5. ~InHand(p, f)
  BY <1>4, RefsAtLeast
<1>6. Refs(f)' = 1
  BY <1>4, <1>5, TakesUp, TablesSame, RefsSplit DEF Own
<1>7. RefsCounted'
  BY <1>1, <1>2, <1>6 DEF RefsCounted, Own, IInv
<1>8. \A q \in Procs : call'[q].p = call[q].p
  BY DEF Own
<1>9. EndsCounted'
  <2>1. \A g \in File : file'[g].used /\ file'[g].backend = "pipe" => file[g].used /\ SameFile(g)
    BY <1>1 DEF SameFile
  <2>2. \A g \in File : file[g].used /\ file[g].backend = "pipe" => file'[g].used /\ SameFile(g)
    BY <1>1 DEF SameFile
  <2> QED
    BY <1>8, <2>1, <2>2, EndsSame DEF Own, IInv
<1> QED
  BY <1>7, <1>9

----------------------------------------------------------------------------
(* vfs_open_flags *)

\* OpenScan keeps the invariant.
LEMMA OpenScanStep ==
  ASSUME Careful, IInv, NEW p \in Procs, OpenScan(p)
  PROVE  IInv'
<1>1. PICK f : f = FreeFiles(file)
  OBVIOUS
<1>2. f \in File /\ ~file[f].used
  BY <1>1, ScanFinds DEF OpenScan
<1>3. /\ call' = [call EXCEPT ![p] = [NoCall EXCEPT !.at = "open.claim", !.fr = f]]
      /\ UNCHANGED <<life, fds, file, pipe>> /\ life[p] = "live" /\ call[p].at = "idle" /\ MayRun(p)
  BY <1>1 DEF OpenScan, Idle
<1>4. /\ call'[p].at = "open.claim" /\ call'[p].fr = f /\ call'[p].p = Null
      /\ \A q \in Procs : q # p => call'[q] = call[q]
  BY <1>3 DEF IInv, Shapes, NoCall
<1>5. Shapes'
  <2>1. [NoCall EXCEPT !.at = "open.claim", !.fr = f] \in CallType
    BY <1>2 DEF CallType, NoCall, Places
  <2> QED
    BY <2>1, <1>3 DEF IInv, Shapes
<1>6. HandsOf(p)'
  BY <1>2, <1>3, <1>4 DEF HandsOf, InPipe
<1>7. Own(p)
  BY <1>3, <1>4, <1>5, <1>6 DEF Own
<1>8. \A g : ~InHand(p, g) /\ ~InHand(p, g)'
  BY <1>3, <1>4 DEF InHand
<1>9. \A g \in File : Refs(g)' = Refs(g)
  BY <1>3, <1>7, <1>8, HandSame, TablesSame, RefsSplit
<1>10. RefsCounted'
  BY <1>3, <1>9, RefsMoved DEF IInv
<1>11. call[p].p = Null
  BY <1>3 DEF IInv, CallsSound, InPipe
<1>12. EndsCounted'
  BY <1>3, <1>4, <1>11, EndsSame DEF IInv, SameFile
<1> QED
  BY <1>5, <1>7, <1>10, <1>12, OwnStep DEF IInv

\* OpenClaim keeps the invariant.
LEMMA OpenClaimStep ==
  ASSUME Careful, IInv, NEW p \in Procs, OpenClaim(p)
  PROVE  IInv'
<1>1. PICK f : f = call[p].fr
  OBVIOUS
<1>2. call[p].at = "open.claim" /\ MayRun(p) /\ f \in File /\ ~file[f].used /\ life[p] = "live"
  BY <1>1 DEF OpenClaim, IInv, HandsSound, HandsOf, CallsSound, NoCall
<1>3. /\ call' = [call EXCEPT ![p].at = "open.fill"] /\ file' = Claimed(file, f)
      /\ UNCHANGED <<life, fds, pipe>>
  BY <1>1 DEF OpenClaim
<1>4. /\ call'[p].at = "open.fill" /\ call'[p].fr = f /\ call'[p].p = call[p].p
      /\ \A q \in Procs : q # p => call'[q] = call[q]
  BY <1>1, <1>3 DEF IInv, Shapes, CallType
<1>5. Shapes'
  <2>1. call' \in [Procs -> CallType]
    BY <1>3, CallAt DEF IInv, Shapes, Places
  <2>2. file' \in [File -> FileShape]
    BY <1>2, <1>3, ClaimedShape DEF IInv
  <2> QED
    BY <2>1, <2>2, <1>3 DEF IInv, Shapes
<1>6. call[p].p = Null
  BY <1>2 DEF IInv, CallsSound, InPipe
<1>7. HandsOf(p)'
  <2>1. New(f)'
    BY <1>2, <1>3, ClaimedShape DEF IInv, New
  <2> QED
    BY <1>2, <1>4, <2>1 DEF HandsOf, InPipe, New
<1>8. Own(p)
  BY <1>2, <1>3, <1>4, <1>5, <1>6, <1>7 DEF Own
<1>9. InHand(p, f)' /\ \A g \in File : g # f => (InHand(p, g)' <=> InHand(p, g))
  BY <1>1, <1>2, <1>4 DEF InHand
<1> QED
  BY <1>2, <1>3, <1>4, <1>5, <1>8, <1>9, ClaimStep, OwnStep DEF IInv

\* OpenInstall keeps the invariant: the reference moves from the call to the table.
LEMMA OpenInstallStep ==
  ASSUME Careful, IInv, NEW p \in Procs, OpenInstall(p)
  PROVE  IInv'
<1>1. PICK f, e : f = call[p].fr /\ e = process_fd_alloc(fds[p])
  OBVIOUS
<1>2. call[p].at = "open.fill" /\ MayRun(p) /\ f \in File /\ New(f) /\ life[p] = "live"
  BY <1>1 DEF OpenInstall, IInv, HandsSound, HandsOf, CallsSound, NoCall
<1>3. e \in FD /\ fds[p][e] = Null
  BY <1>1, ScanFinds DEF OpenInstall
<1>4. /\ call' = [call EXCEPT ![p] = NoCall]
      /\ file' = [file EXCEPT ![f].backend = "regular"]
      /\ fds' = [fds EXCEPT ![p][e] = f]
      /\ UNCHANGED <<life, pipe>>
  BY <1>1 DEF OpenInstall, Returns
<1>5. /\ call'[p] = NoCall /\ \A q \in Procs : q # p => call'[q] = call[q] /\ fds'[q] = fds[q]
      /\ fds'[p][e] = f /\ \A d \in FD : d # e => fds'[p][d] = fds[p][d]
      /\ \A g \in File : g # f => file'[g] = file[g]
      /\ file'[f].used /\ file'[f].refcount = file[f].refcount /\ file'[f].backend = "regular"
  BY <1>2, <1>3, <1>4 DEF IInv, Shapes, FileShape, New
<1>6. Shapes'
  <2>1. call' \in [Procs -> CallType]
    BY <1>4, NoCallType DEF IInv, Shapes
  <2>2. file' \in [File -> FileShape]
    BY <1>2, <1>4 DEF IInv, Shapes, FileShape
  <2>3. fds' \in [Procs -> [FD -> File \cup {Null, Reserved}]]
    BY <1>2, <1>3, <1>4 DEF IInv, Shapes
  <2> QED
    BY <2>1, <2>2, <2>3, <1>4 DEF IInv, Shapes
<1>7. Own(p)
  BY <1>2, <1>4, <1>5, <1>6, NoCallHands DEF Own
<1>8. ASSUME NEW g \in File PROVE Refs(g)' = Refs(g)
  <2>1. \A q \in Procs, d \in FD : q # p \/ d # e => (Refers(q, d, g)' <=> Refers(q, d, g))
    BY <1>4, <1>5 DEF Refers
  <2>2. ~Refers(p, e, g) /\ (Refers(p, e, g)' <=> g = f)
    BY <1>2, <1>3, <1>4, <1>5, NoEntries DEF Refers
  <2>3. ~InHand(p, g)' /\ (InHand(p, g) <=> g = f)
    BY <1>1, <1>2, <1>5 DEF InHand, NoCall
  <2>4. CASE g = f
    <3>1. Held1(g)' = Held1(g) + 1
      BY <1>3, <2>1, <2>2, <2>4, EntryMoves
    <3>2. Held2(g) = Held2(g)' + 1
      BY <1>7, <2>3, <2>4, PutsDown
    <3> QED
      BY <3>1, <3>2, RefsSplit
  <2>5. CASE g # f
    <3>1. Held1(g)' = Held1(g)
      BY <1>3, <2>1, <2>2, <2>5, EntryMoves
    <3>2. Held2(g)' = Held2(g)
      BY <1>7, <2>3, <2>5, HandSame
    <3> QED
      BY <3>1, <3>2, RefsSplit
  <2> QED
    BY <2>4, <2>5
<1>9. RefsCounted'
  <2>1. \A g \in File : file'[g].used <=> file[g].used
    BY <1>2, <1>5 DEF New
  <2>2. \A g \in File : file'[g].refcount = file[g].refcount
    BY <1>5
  <2> QED
    BY <1>8, <2>1, <2>2, RefsMoved DEF IInv
<1>10. EndsCounted'
  <2>1. call[p].p = Null
    BY <1>2 DEF IInv, CallsSound, InPipe
  <2>2. \A q \in Procs : call'[q].p = call[q].p
    BY <1>5, <2>1 DEF NoCall
  <2>3. \A g \in File : file'[g].used /\ file'[g].backend = "pipe" => file[g].used /\ SameFile(g)
    BY <1>5 DEF SameFile
  <2>4. \A g \in File : file[g].used /\ file[g].backend = "pipe" => file'[g].used /\ SameFile(g)
    BY <1>2, <1>5 DEF SameFile, New
  <2> QED
    BY <1>4, <2>2, <2>3, <2>4, EndsSame DEF IInv
<1> QED
  BY <1>6, <1>7, <1>9, <1>10, OwnStep DEF IInv

\* Releasing one reference, or several.
LEMMA OnceNat == \A f : Once(f) \in [File -> Nat] /\ \A g \in File : Once(f)[g] = IF g = f THEN 1 ELSE 0
BY DEF Once

\* Releasing none.
LEMMA NoneNat == None \in [File -> Nat] /\ \A f \in File : None[f] = 0
BY DEF None

\* The call of p puts down the files in S and the counts follow.
LEMMA PutDownStep ==
  ASSUME NEW p \in Procs, Own(p), NEW k \in [File -> Nat], Released(k, None),
         \A f \in File : Held1(f)' = Held1(f), call'[p] = NoCall,
         \A f \in File : k[f] = IF InHand(p, f) THEN 1 ELSE 0
  PROVE  RefsCounted'
<1>1. ASSUME NEW f \in File
      PROVE  k[f] <= Refs(f) /\ Refs(f)' + k[f] = Refs(f) + None[f]
  <2>1. Held1(f)' = Held1(f)
    OBVIOUS
  <2>2. ~InHand(p, f)'
    BY NoCallHands
  <2>3. CASE InHand(p, f)
    <3>1. Held2(f) = Held2(f)' + 1
      BY <2>2, <2>3, PutsDown
    <3> QED
      BY <2>1, <2>3, <3>1, RefsSplit, NoneNat
  <2>4. CASE ~InHand(p, f)
    <3>1. Held2(f) = Held2(f)'
      BY <2>2, <2>4, HandSame
    <3> QED
      BY <2>1, <2>4, <3>1, RefsSplit, NoneNat
  <2> QED
    BY <2>3, <2>4
<1>2. \A f \in File : /\ k[f] <= Refs(f)
                      /\ Refs(f)' + k[f] <= Refs(f) + None[f]
                      /\ Races = {} => Refs(f)' + k[f] = Refs(f) + None[f]
  <2> SUFFICES ASSUME NEW f \in File
               PROVE  Refs(f)' + k[f] <= Refs(f) + None[f]
    BY <1>1
  <2> QED
    BY <1>1, RefsSplit, NoneNat
<1> QED
  BY <1>2, NoneNat, RefStep DEF Own, IInv

\* OpenBackOut keeps the invariant.
LEMMA OpenBackOutStep ==
  ASSUME Careful, IInv, NEW p \in Procs, OpenBackOut(p)
  PROVE  IInv'
<1>1. PICK f, k : f = call[p].fr /\ k = Once(f)
  OBVIOUS
<1>2. call[p].at = "open.fill" /\ MayRun(p) /\ f \in File /\ life[p] = "live"
  BY <1>1 DEF OpenBackOut, IInv, HandsSound, HandsOf, CallsSound, NoCall
<1>3. /\ call' = [call EXCEPT ![p] = NoCall] /\ file' = FilesAfter(file, k) /\ pipe' = PipesAfter(file, k)
      /\ UNCHANGED <<life, fds>>
  BY <1>1 DEF OpenBackOut, Returns
<1>4. call'[p] = NoCall /\ \A q \in Procs : q # p => call'[q] = call[q]
  BY <1>3 DEF IInv, Shapes
<1>5. k \in [File -> Nat] /\ \A g \in File : k[g] = IF g = f THEN 1 ELSE 0
  BY <1>1, OnceNat
<1>6. Released(k, None) /\ file' \in [File -> FileShape]
  BY <1>3, <1>5, AfterReleased DEF IInv
<1>7. call[p].p = Null
  BY <1>2 DEF IInv, CallsSound, InPipe
<1>8. \A q \in Procs : call'[q].p = call[q].p
  BY <1>4, <1>7, NoCallType
<1>9. EndsCounted' /\ pipe' \in [Pipe -> PipeType]
  BY <1>3, <1>5, <1>6, <1>8, EndsRelease DEF IInv
<1>10. Shapes'
  BY <1>3, <1>6, <1>9, NoCallType DEF IInv, Shapes
<1>11. Own(p)
  BY <1>2, <1>3, <1>4, <1>10, NoCallHands DEF Own
<1>12. \A g \in File : k[g] = IF InHand(p, g) THEN 1 ELSE 0
  BY <1>1, <1>2, <1>5 DEF InHand
<1>13. RefsCounted'
  BY <1>3, <1>4, <1>5, <1>6, <1>11, <1>12, TablesSame, PutDownStep
<1> QED
  BY <1>9, <1>10, <1>11, <1>13, OwnStep DEF IInv

----------------------------------------------------------------------------
(* vfs_close *)

\* CloseEntry keeps the invariant: the reference moves from the table to the call.
LEMMA CloseEntryStep ==
  ASSUME Careful, IInv, NEW p \in Procs, NEW fd \in FD, CloseEntry(p, fd)
  PROVE  IInv'
<1>1. PICK f : f = fds[p][fd]
  OBVIOUS
<1>2. PICK c : c = IF f = Reserved \/ ~file[f].used THEN NoCall
                   ELSE [NoCall EXCEPT !.at = "close", !.fr = f, !.loaded = file[f].refcount]
  OBVIOUS
<1>3. /\ life[p] = "live" /\ call[p].at = "idle" /\ MayRun(p) /\ f # Null
      /\ fds' = [fds EXCEPT ![p][fd] = Null] /\ call' = [call EXCEPT ![p] = c]
      /\ UNCHANGED <<life, file, pipe>>
  BY <1>1, <1>2 DEF CloseEntry, Idle
<1>4. f \in File \cup {Reserved}
  BY <1>1, <1>3 DEF IInv, Shapes
<1>5. /\ fds'[p][fd] = Null /\ \A d \in FD : d # fd => fds'[p][d] = fds[p][d]
      /\ \A q \in Procs : q # p => fds'[q] = fds[q] /\ call'[q] = call[q]
      /\ call'[p] = c
      /\ fds' \in [Procs -> [FD -> File \cup {Null, Reserved}]]
  BY <1>3 DEF IInv, Shapes
<1>6. ASSUME NEW g \in File
      PROVE  /\ \A q \in Procs, d \in FD : q # p \/ d # fd => (Refers(q, d, g)' <=> Refers(q, d, g))
             /\ ~Refers(p, fd, g)' /\ (Refers(p, fd, g) <=> g = f)
             /\ ~InHand(p, g)
  BY <1>1, <1>3, <1>5, NoEntries DEF Refers, InHand
<1>7. call[p].p = Null
  BY <1>3 DEF IInv, CallsSound, InPipe
<1>8. CASE f \in File
  <2>1. file[f].used
    <3>1. Held1(f) >= 1
      BY <1>6, <1>8, RefsAtLeast
    <3>2. Refs(f) # 0
      BY <3>1, RefsSplit
    <3> QED
      BY <1>8, <3>2 DEF IInv, RefsCounted
  <2>2. c = [NoCall EXCEPT !.at = "close", !.fr = f, !.loaded = file[f].refcount]
    BY <1>2, <1>8, <2>1, NoEntries
  <2>3. c.at = "close" /\ c.fr = f /\ c.loaded = file[f].refcount /\ c.p = Null /\ c \in CallType
    <3>1. file[f].refcount \in Nat
      BY <1>8 DEF IInv, Shapes, FileShape
    <3> QED
      BY <2>2, <1>8, <3>1 DEF NoCall, CallType, Places
  <2>4. Shapes'
    BY <1>3, <1>5, <2>3 DEF IInv, Shapes
  <2>5. HandsOf(p)'
    BY <1>3, <1>5, <1>8, <2>1, <2>3 DEF HandsOf, InPipe, IInv, Shapes, FileShape
  <2>6. Own(p)
    BY <1>3, <1>5, <2>3, <2>4, <2>5 DEF Own
  <2>7. ASSUME NEW g \in File PROVE Refs(g)' = Refs(g)
    <3>1. InHand(p, g)' <=> g = f
      BY <1>5, <2>3 DEF InHand
    <3>2. CASE g = f
      <4>1. Held1(g) = Held1(g)' + 1
        BY <1>6, <3>2, EntryMoves
      <4>2. Held2(g)' = Held2(g) + 1
        BY <1>6, <2>6, <3>1, <3>2, TakesUp
      <4> QED
        BY <4>1, <4>2, RefsSplit
    <3>3. CASE g # f
      <4>1. Held1(g)' = Held1(g)
        BY <1>6, <3>3, EntryMoves
      <4>2. Held2(g)' = Held2(g)
        BY <1>6, <2>6, <3>1, <3>3, HandSame
      <4> QED
        BY <4>1, <4>2, RefsSplit
    <3> QED
      BY <3>2, <3>3
  <2>8. RefsCounted'
    BY <1>3, <2>7, RefsMoved DEF IInv
  <2>9. EndsCounted'
    BY <1>3, <1>5, <1>7, <2>3, EndsSame DEF IInv, SameFile
  <2> QED
    BY <2>4, <2>6, <2>8, <2>9, OwnStep DEF IInv
<1>9. CASE f = Reserved
  <2>1. call'[p] = NoCall
    BY <1>2, <1>5, <1>9
  <2>2. Shapes'
    BY <1>2, <1>3, <1>5, <1>9, NoCallType DEF IInv, Shapes
  <2>3. Own(p)
    BY <1>3, <1>5, <2>1, <2>2, NoCallHands DEF Own
  <2>4. ASSUME NEW g \in File PROVE Refs(g)' = Refs(g)
    <3>1. Held1(g)' = Held1(g)
      BY <1>6, <1>9, NoEntries, EntryMoves
    <3>2. Held2(g)' = Held2(g)
      BY <1>6, <2>1, <2>3, NoCallHands, HandSame
    <3> QED
      BY <3>1, <3>2, RefsSplit
  <2>5. RefsCounted'
    BY <1>3, <2>4, RefsMoved DEF IInv
  <2>6. EndsCounted'
    BY <1>3, <1>5, <1>7, <2>1, NoCallType, EndsSame DEF IInv, SameFile
  <2> QED
    BY <2>2, <2>3, <2>5, <2>6, OwnStep DEF IInv
<1> QED
  BY <1>4, <1>8, <1>9

\* CloseRelease keeps the invariant: the count that was loaded is still the count, or above it.
LEMMA CloseReleaseStep ==
  ASSUME Careful, IInv, NEW p \in Procs, CloseRelease(p)
  PROVE  IInv'
<1>1. PICK f, n, k : f = call[p].fr /\ n = call[p].loaded /\ k = Once(f)
  OBVIOUS
<1>2. /\ call[p].at = "close" /\ MayRun(p) /\ f \in File /\ life[p] = "live" /\ file[f].used
      /\ n >= file[f].refcount /\ (Races = {} => n = file[f].refcount)
      /\ n \in Nat /\ file[f].refcount \in Nat /\ file[f] \in FileShape
  BY <1>1 DEF CloseRelease, IInv, HandsSound, HandsOf, CallsSound, NoCall, Shapes, CallType, FileShape
<1>3. file[f].refcount >= 1
  BY <1>2 DEF IInv, RefsCounted
<1>4. /\ call' = [call EXCEPT ![p] = NoCall] /\ UNCHANGED <<life, fds>>
      /\ call'[p] = NoCall /\ \A q \in Procs : q # p => call'[q] = call[q]
  BY DEF CloseRelease, Returns, IInv, Shapes
<1>5. k \in [File -> Nat] /\ \A g \in File : k[g] = IF g = f THEN 1 ELSE 0
  BY <1>1, OnceNat
<1>6. call[p].p = Null
  BY <1>2 DEF IInv, CallsSound, InPipe
<1>7. \A q \in Procs : call'[q].p = call[q].p
  BY <1>4, <1>6, NoCallType
<1>8. \A g \in File : InHand(p, g) <=> g = f
  BY <1>1, <1>2 DEF InHand
<1>9. ASSUME Shapes' PROVE Own(p)
  BY <1>2, <1>4, <1>9, NoCallHands DEF Own
<1>10. CASE n <= 1
  <2>1. file[f].refcount = 1
    BY <1>2, <1>3, <1>10
  <2>2. [file EXCEPT ![f].refcount = 1] = file
    <3>1. [file[f] EXCEPT !.refcount = 1] = file[f]
      BY <1>2, <2>1 DEF FileShape
    <3>2. file \in [File -> FileShape]
      BY DEF IInv, Shapes
    <3> QED
      BY <1>2, <3>1, <3>2
  <2>3. file' = FilesAfter(file, k) /\ pipe' = PipesAfter(file, k)
    <3>1. ~(n > 1)
      BY <1>2, <1>10
    <3> QED
      BY <1>1, <2>2, <3>1 DEF CloseRelease
  <2>4. Released(k, None) /\ file' \in [File -> FileShape]
    BY <1>5, <2>3, AfterReleased DEF IInv
  <2>5. EndsCounted' /\ pipe' \in [Pipe -> PipeType]
    BY <1>5, <1>7, <2>3, <2>4, EndsRelease DEF IInv
  <2>6. Shapes'
    BY <1>4, <2>4, <2>5, NoCallType DEF IInv, Shapes
  <2>7. RefsCounted'
    BY <1>4, <1>5, <1>8, <1>9, <2>4, <2>6, TablesSame, PutDownStep
  <2> QED
    BY <1>9, <2>5, <2>6, <2>7, OwnStep DEF IInv
<1>11. CASE n > 1
  <2>1. file' = [file EXCEPT ![f].refcount = n - 1] /\ pipe' = pipe
    BY <1>1, <1>11 DEF CloseRelease
  <2>2. n - 1 \in Nat /\ n - 1 >= 1
    BY <1>2, <1>11
  <2>3. /\ \A g \in File : g # f => file'[g] = file[g]
        /\ file'[f].refcount = n - 1 /\ file'[f].used /\ SameFile(f)
        /\ file' \in [File -> FileShape]
    BY <1>2, <2>1, <2>2 DEF IInv, Shapes, FileShape, SameFile
  <2>4. Shapes'
    BY <1>4, <2>1, <2>3, NoCallType DEF IInv, Shapes
  <2>5. \A g \in File : (file'[g].used <=> file[g].used) /\ SameFile(g)
    BY <1>2, <2>3 DEF SameFile
  <2>6. EndsCounted'
    BY <1>7, <2>1, <2>5, EndsSame DEF IInv
  <2>7. ASSUME NEW g \in File, g # f PROVE Refs(g)' = Refs(g) /\ file'[g] = file[g]
    <3>1. Held2(g)' = Held2(g)
      BY <1>4, <1>8, <1>9, <2>4, <2>7, HandSame, NoCallHands
    <3> QED
      BY <1>4, <2>3, <2>7, <3>1, TablesSame, RefsSplit
  <2>8. Refs(f) = Refs(f)' + 1
    <3>1. Held2(f) = Held2(f)' + 1
      BY <1>2, <1>4, <1>8, <1>9, <2>4, PutsDown, NoCallHands
    <3> QED
      BY <1>4, <3>1, TablesSame, RefsSplit
  <2>9. RefsCounted'
    <3>1. file[f].refcount >= Refs(f) /\ (Races = {} => file[f].refcount = Refs(f))
      BY <1>2 DEF IInv, RefsCounted
    <3>2. file'[f].refcount >= Refs(f)' /\ (Races = {} => file'[f].refcount = Refs(f)')
      BY <1>2, <2>3, <2>8, <3>1, RefsSplit
    <3>3. file'[f].refcount >= 1
      BY <2>2, <2>3
    <3> QED
      BY <2>3, <2>7, <3>2, <3>3 DEF IInv, RefsCounted
  <2> QED
    BY <1>9, <2>4, <2>6, <2>9, OwnStep DEF IInv
<1> QED
  BY <1>2, <1>10, <1>11

----------------------------------------------------------------------------
(* vfs_dup, vfs_dup2 and process_clone_fd *)

\* The entry e of c's table is given f, in place of what it held, and the counts
\* follow.
LEMMA EntryStep ==
  ASSUME IInv, Shapes', EndsCounted', NEW c \in Procs, NEW e \in FD, NEW f \in File,
         life[c] # "free", \A q \in Procs : ~InCall(q),
         life' = life, call' = call, fds' = [fds EXCEPT ![c][e] = f],
         NEW k \in [File -> Nat], Released(k, Once(f)),
         \A g \in File : k[g] = IF g = fds[c][e] THEN 1 ELSE 0
  PROVE  IInv'
<1>1. /\ fds'[c][e] = f /\ \A d \in FD : d # e => fds'[c][d] = fds[c][d]
      /\ \A q \in Procs : q # c => fds'[q] = fds[q]
  BY DEF IInv, Shapes
<1>2. HandsSound'
  <2>1. \A q \in Procs : ~InCall(q)'
    BY DEF InCall
  <2> QED
    BY <2>1, OutOfCall DEF HandsSound
<1>3. CallsSound'
  <2>1. \A q \in Procs : life'[q] # "live" => call'[q] = NoCall
    BY DEF IInv, CallsSound
  <2>2. \A q \in Procs : life'[q] = "free" => \A d \in FD : fds'[q][d] = Null
    BY <1>1 DEF IInv, CallsSound
  <2>3. \A q, o \in Procs : InCall(q)' /\ InCall(o)' => q = o
    BY DEF InCall
  <2>4. \A q \in Procs : call'[q].at = "spawn" =>
          call'[q].child \in Procs \ {q} /\ life'[call'[q].child] # "free"
    BY DEF IInv, CallsSound
  <2>5. \A q \in Procs : call'[q].p # Null => InPipe(q)'
    BY DEF IInv, CallsSound, InPipe
  <2> QED
    BY <2>1, <2>2, <2>3, <2>4, <2>5 DEF CallsSound
<1>4. ASSUME NEW g \in File
      PROVE  k[g] <= Refs(g) /\ Refs(g)' + k[g] = Refs(g) + Once(f)[g]
  <2>1. \A q \in Procs, d \in FD : q # c \/ d # e => (Refers(q, d, g)' <=> Refers(q, d, g))
    BY <1>1 DEF Refers
  <2>2. (Refers(c, e, g) <=> g = fds[c][e]) /\ (Refers(c, e, g)' <=> g = f)
    BY <1>1 DEF Refers
  <2>3. Held2(g)' = Held2(g)
    <3>1. \A q \in Procs : InHand(q, g)' <=> InHand(q, g)
      BY DEF InHand
    <3> QED
      BY <3>1, CallerMoves
  <2>4. Held1(g)' + k[g] = Held1(g) + Once(f)[g]
    <3>1. CASE g = fds[c][e] /\ g # f
      <4>1. Held1(g) = Held1(g)' + 1
        BY <2>1, <2>2, <3>1, EntryMoves
      <4> QED
        BY <4>1, <3>1, OnceNat, RefsSplit
    <3>2. CASE g # fds[c][e] /\ g = f
      <4>1. Held1(g)' = Held1(g) + 1
        BY <2>1, <2>2, <3>2, EntryMoves
      <4> QED
        BY <4>1, <3>2, OnceNat, RefsSplit
    <3>3. CASE g = fds[c][e] <=> g = f
      <4>1. Held1(g)' = Held1(g)
        BY <2>1, <2>2, <3>3, EntryMoves
      <4> QED
        BY <4>1, <3>3, OnceNat, RefsSplit
    <3> QED
      BY <3>1, <3>2, <3>3
  <2>5. k[g] <= Held1(g)
    <3>1. CASE g = fds[c][e]
      BY <2>2, <3>1, RefsAtLeast
    <3>2. CASE g # fds[c][e]
      BY <3>2, RefsSplit
    <3> QED
      BY <3>1, <3>2
  <2>6. k[g] \in Nat /\ Once(f)[g] \in Nat
    BY OnceNat
  <2> QED
    BY <2>3, <2>4, <2>5, <2>6, RefsSplit
<1>5. \A g \in File : /\ k[g] <= Refs(g)
                      /\ Refs(g)' + k[g] <= Refs(g) + Once(f)[g]
                      /\ Races = {} => Refs(g)' + k[g] = Refs(g) + Once(f)[g]
  <2> SUFFICES ASSUME NEW g \in File PROVE Refs(g)' + k[g] <= Refs(g) + Once(f)[g]
    BY <1>4
  <2>1. PICK a, b : a = Refs(g)' + k[g] /\ b = Refs(g) + Once(f)[g]
    OBVIOUS
  <2>2. a = b /\ a \in Nat
    BY <1>4, <2>1, RefsSplit
  <2> QED
    BY <2>1, <2>2
<1>6. RefsCounted'
  BY <1>5, OnceNat, RefStep DEF IInv
<1> QED
  BY <1>2, <1>3, <1>6 DEF IInv

\* What a release leaves of each file.
LEMMA AfterFiles ==
  ASSUME Shapes, NEW k \in [File -> Nat]
  PROVE  /\ FilesAfter(file, k) \in [File -> FileShape]
         /\ \A f \in File :
              /\ f \in Gone(file, k) => ~FilesAfter(file, k)[f].used
              /\ ~file[f].used => ~FilesAfter(file, k)[f].used
              /\ file[f].used /\ f \notin Gone(file, k) =>
                   FilesAfter(file, k)[f] = [file[f] EXCEPT !.refcount = @ - k[f]]
<1>1. PICK F : F = FilesAfter(file, k)
  OBVIOUS
<1>2. FreeFile \in FileShape /\ ~FreeFile.used
  BY VfsAssumption DEF FreeFile, FileShape, Ends
<1>3. ASSUME NEW f \in File
      PROVE  /\ f \in Gone(file, k) => F[f] = FreeFile
             /\ file[f].used /\ f \notin Gone(file, k) => F[f] = [file[f] EXCEPT !.refcount = @ - k[f]]
             /\ ~file[f].used => F[f] = file[f]
             /\ file[f] \in FileShape /\ k[f] \in Nat
  BY <1>1 DEF FilesAfter, Gone, Shapes
<1>4. ASSUME NEW f \in File, file[f].used, f \notin Gone(file, k)
      PROVE  F[f] \in FileShape
  <2>1. F[f] = [file[f] EXCEPT !.refcount = @ - k[f]] /\ file[f] \in FileShape /\ k[f] \in Nat
    BY <1>3, <1>4
  <2>2. file[f].refcount - k[f] \in Nat
    <3>1. k[f] = 0 \/ file[f].refcount > k[f]
      BY <1>4, <2>1 DEF Gone, FileShape
    <3> QED
      BY <2>1, <3>1 DEF FileShape
  <2> QED
    BY <2>1, <2>2 DEF FileShape
<1>5. F \in [File -> FileShape]
  <2>1. \A f \in File : F[f] \in FileShape
    BY <1>2, <1>3, <1>4 DEF Gone
  <2> QED
    BY <1>1, <2>1 DEF FilesAfter
<1> QED
  BY <1>1, <1>2, <1>3, <1>5

\* A file held by two entries counts at least two.
LEMMA TwoEntries ==
  ASSUME IInv, NEW f \in File, NEW p \in Procs, NEW o \in FD, NEW c \in Procs, NEW e \in FD,
         Refers(p, o, f), Refers(c, e, f), p # c \/ o # e
  PROVE  file[f].used /\ file[f].refcount >= 2
<1> DEFINE S == Holders(f)
<1>1. S \subseteq Procs \X FD
  BY DEF Holders
<1>2. IsFiniteSet(S)
  BY <1>1, CountedFinite
<1>3. <<p, o>> \in S /\ <<c, e>> \in S /\ <<p, o>> # <<c, e>>
  BY DEF Holders, Refers
<1>4. IsFiniteSet(S \ {<<p, o>>}) /\ Cardinality(S \ {<<p, o>>}) = Cardinality(S) - 1
  BY <1>2, <1>3, FS_RemoveElement
<1>5. S \ {<<p, o>>} # {}
  BY <1>3
<1>6. Cardinality(S \ {<<p, o>>}) >= 1 /\ Cardinality(S) \in Nat
  BY SMTT(30), <1>2, <1>4, <1>5, FS_EmptySet, FS_CardinalityType
<1>7. Held1(f) >= 2
  BY <1>4, <1>6 DEF Held1
<1>8. Refs(f) >= 2 /\ Refs(f) # 0
  BY <1>7, RefsSplit
<1>9. file[f].refcount \in Nat
  BY DEF IInv, Shapes, FileShape
<1> QED
  BY <1>8, <1>9, RefsSplit DEF IInv, RefsCounted

\* An entry that refers to a file refers to an open one.
LEMMA EntryUsed ==
  ASSUME IInv, NEW f \in File, NEW p \in Procs, NEW o \in FD, Refers(p, o, f)
  PROVE  file[f].used
<1>1. Refs(f) # 0
  BY RefsAtLeast, RefsSplit
<1> QED
  BY <1>1 DEF IInv, RefsCounted

\* vfs_dup2 and process_clone_fd: the old file of the entry is released, then the
\* count of the new one goes up; it is still held by the entry it comes from.
LEMMA RetargetStep ==
  ASSUME IInv, NEW p \in Procs, NEW o \in FD, NEW c \in Procs, NEW e \in FD, NEW f \in File,
         NEW k, k = Entries(fds[c], {e}),
         Refers(p, o, f), p # c \/ o # e, life[c] # "free", \A q \in Procs : ~InCall(q),
         life' = life, call' = call, fds' = [fds EXCEPT ![c][e] = f],
         file' = [FilesAfter(file, k) EXCEPT ![f].refcount = @ + 1], pipe' = PipesAfter(file, k)
  PROVE  IInv'
<1>1. k \in [File -> Nat] /\ \A g \in File : k[g] = IF g = fds[c][e] THEN 1 ELSE 0
  <2>1. ASSUME NEW g \in File
        PROVE  Cardinality({d \in {e} : fds[c][d] = g}) = IF g = fds[c][e] THEN 1 ELSE 0
    <3>1. {d \in {e} : fds[c][d] = g} = IF g = fds[c][e] THEN {e} ELSE {}
      OBVIOUS
    <3> QED
      BY <3>1, FS_EmptySet, FS_Singleton
  <2> QED
    BY <2>1 DEF Entries
<1>2. PICK F : F = FilesAfter(file, k)
  OBVIOUS
<1>3. /\ F \in [File -> FileShape]
      /\ \A g \in File :
           /\ g \in Gone(file, k) => ~F[g].used
           /\ ~file[g].used => ~F[g].used
           /\ file[g].used /\ g \notin Gone(file, k) => F[g] = [file[g] EXCEPT !.refcount = @ - k[g]]
  BY <1>1, <1>2, AfterFiles DEF IInv
<1>4. file[f].used /\ f \notin Gone(file, k)
  <2>1. file[f].used /\ file[f].refcount \in Nat
    BY EntryUsed DEF IInv, Shapes, FileShape
  <2>2. CASE f = fds[c][e]
    <3>1. Refers(c, e, f)
      BY <2>2 DEF Refers
    <3>2. file[f].refcount >= 2 /\ k[f] = 1
      BY <1>1, <2>2, <3>1, TwoEntries
    <3> QED
      BY <2>1, <3>2 DEF Gone
  <2>3. CASE f # fds[c][e]
    <3>1. k[f] = 0
      BY <1>1, <2>3
    <3> QED
      BY <2>1, <3>1 DEF Gone
  <2> QED
    BY <2>2, <2>3
<1>5. PICK r : r = [F[f] EXCEPT !.refcount = @ + 1]
  OBVIOUS
<1>6. /\ file' = [F EXCEPT ![f] = r] /\ r \in FileShape /\ F[f] \in FileShape
      /\ \A g \in File : g # f => file'[g] = F[g]
      /\ file'[f] = r /\ file' \in [File -> FileShape]
  <2>1. file' = [F EXCEPT ![f] = r]
    BY <1>2, <1>5
  <2>2. F[f] \in FileShape
    BY <1>3
  <2>3. r \in FileShape
    BY <1>5, <2>2 DEF FileShape
  <2> QED
    BY ZenonT(40), <1>3, <2>1, <2>2, <2>3
<1>7. Released(k, Once(f))
  <2> SUFFICES ASSUME NEW g \in File
               PROVE  /\ g \in Gone(file, k) => ~file'[g].used /\ Once(f)[g] = 0
                      /\ ~file[g].used => ~file'[g].used /\ Once(f)[g] = 0
                      /\ file[g].used /\ g \notin Gone(file, k) =>
                           /\ file'[g].used /\ SameFile(g)
                           /\ file'[g].refcount = (file[g].refcount - k[g]) + Once(f)[g]
                           /\ file'[g].refcount >= (file[g].refcount - k[g]) + Once(f)[g]
    BY DEF Released
  <2>1. PICK a, b, n : a = file[g] /\ b = F[g] /\ n = k[g]
    OBVIOUS
  <2>2. a \in FileShape /\ b \in FileShape /\ n \in Nat
    BY <1>1, <1>3, <2>1 DEF IInv, Shapes
  <2>3. PICK m \in Int : m = a.refcount - n
    BY <2>2 DEF FileShape
  <2>4. ASSUME a.used, g \notin Gone(file, k)
        PROVE  /\ b.refcount = m /\ b.used /\ b.backend = a.backend
               /\ b.pipe = a.pipe /\ b.ends = a.ends
    <3>1. b = [a EXCEPT !.refcount = @ - n]
      BY <1>3, <2>1, <2>4
    <3> QED
      BY <2>2, <2>4, <2>3, <3>1 DEF FileShape
  <2>5. CASE g = f
    <3>1. /\ r.refcount = b.refcount + 1 /\ r.used = b.used /\ r.backend = b.backend
          /\ r.pipe = b.pipe /\ r.ends = b.ends
      BY <1>5, <2>1, <2>2, <2>5 DEF FileShape
    <3>2. file'[g] = r /\ Once(f)[g] = 1 /\ a.used /\ g \notin Gone(file, k)
      BY <1>4, <1>6, <2>1, <2>5, OnceNat
    <3>3. SameFile(g)
      BY <2>1, <2>4, <3>1, <3>2 DEF SameFile
    <3>4. file'[g].used /\ file'[g].refcount = m + 1
      BY <2>4, <3>1, <3>2
    <3>5. file'[g].refcount = (file[g].refcount - k[g]) + Once(f)[g]
      BY <2>1, <2>3, <3>2, <3>4
    <3>6. file'[g].refcount >= (file[g].refcount - k[g]) + Once(f)[g]
      BY <2>1, <2>3, <3>2, <3>4
    <3> QED
      BY <2>1, <3>2, <3>3, <3>4, <3>5, <3>6
  <2>6. CASE g # f
    <3>1. file'[g] = b /\ Once(f)[g] = 0
      BY <1>6, <2>1, <2>6, OnceNat
    <3>2. ASSUME a.used, g \notin Gone(file, k)
          PROVE  /\ file'[g].used /\ SameFile(g)
                 /\ file'[g].refcount = (file[g].refcount - k[g]) + Once(f)[g]
                 /\ file'[g].refcount >= (file[g].refcount - k[g]) + Once(f)[g]
      <4>1. file'[g].used /\ file'[g].refcount = m
        BY <2>4, <3>1, <3>2
      <4>2. SameFile(g)
        BY <2>1, <2>4, <3>1, <3>2 DEF SameFile
      <4>3. m = m + 0 /\ m >= m + 0
        BY <2>3
      <4> QED
        BY <2>1, <2>3, <3>1, <4>1, <4>2, <4>3
    <3> QED
      BY <1>3, <2>1, <3>1, <3>2
  <2> QED
    BY <2>5, <2>6
<1>8. EndsCounted' /\ pipe' \in [Pipe -> PipeType]
  BY <1>1, <1>7, EndsRelease DEF IInv
<1>9. Shapes'
  <2>1. fds' \in [Procs -> [FD -> File \cup {Null, Reserved}]]
    BY DEF IInv, Shapes
  <2> QED
    BY <1>6, <1>8, <2>1 DEF IInv, Shapes
<1> QED
  BY <1>1, <1>7, <1>8, <1>9, EntryStep

\* Nobody is inside a call when a process between its calls runs.
LEMMA NobodyInCall ==
  ASSUME Careful, IInv, NEW p \in Procs, MayRun(p), call[p].at \in {"idle", "spawn"}
  PROVE  \A q \in Procs : ~InCall(q)
BY Alone DEF InCall

\* Dup2 keeps the invariant.
LEMMA Dup2Step ==
  ASSUME Careful, IInv, NEW p \in Procs, NEW o \in FD, NEW e \in FD, Dup2(p, o, e)
  PROVE  IInv'
<1>1. PICK f, k : f = fds[p][o] /\ k = Entries(fds[p], {e})
  OBVIOUS
<1>2. /\ life[p] = "live" /\ call[p].at = "idle" /\ MayRun(p) /\ f \in File /\ o # e
      /\ file' = [FilesAfter(file, k) EXCEPT ![f].refcount = @ + 1] /\ pipe' = PipesAfter(file, k)
      /\ fds' = [fds EXCEPT ![p][e] = f] /\ life' = life /\ call' = call
  BY <1>1 DEF Dup2, Idle
<1>3. Refers(p, o, f) /\ \A q \in Procs : ~InCall(q)
  BY <1>1, <1>2, NobodyInCall DEF Refers
<1> QED
  BY <1>1, <1>2, <1>3, RetargetStep

\* CloneFd keeps the invariant: the child may have ended, but it is not reaped.
LEMMA CloneFdStep ==
  ASSUME Careful, IInv, NEW p \in Procs, NEW e \in FD, NEW o \in FD, CloneFd(p, e, o)
  PROVE  IInv'
<1>1. PICK c, f, k : c = call[p].child /\ f = fds[p][o] /\ k = Entries(fds[c], {e})
  OBVIOUS
<1>2. /\ life[p] = "live" /\ call[p].at = "spawn" /\ MayRun(p) /\ f \in File
      /\ file' = [FilesAfter(file, k) EXCEPT ![f].refcount = @ + 1] /\ pipe' = PipesAfter(file, k)
      /\ fds' = [fds EXCEPT ![c][e] = f] /\ life' = life /\ call' = call
  BY <1>1 DEF CloneFd
<1>3. c \in Procs \ {p} /\ life[c] # "free"
  BY <1>1, <1>2 DEF IInv, CallsSound
<1>4. Refers(p, o, f) /\ \A q \in Procs : ~InCall(q)
  BY <1>1, <1>2, NobodyInCall DEF Refers
<1> QED
  BY ZenonT(40), <1>1, <1>2, <1>3, <1>4, RetargetStep

\* Dup keeps the invariant.
LEMMA DupStep ==
  ASSUME Careful, IInv, NEW p \in Procs, NEW o \in FD, Dup(p, o)
  PROVE  IInv'
<1>1. PICK f, e : f = fds[p][o] /\ e = process_fd_alloc(fds[p])
  OBVIOUS
<1>2. /\ life[p] = "live" /\ call[p].at = "idle" /\ MayRun(p) /\ f \in File /\ e # Null
      /\ file' = [file EXCEPT ![f].refcount = @ + 1]
      /\ fds' = [fds EXCEPT ![p][e] = f] /\ UNCHANGED <<life, pipe, call>>
  BY <1>1 DEF Dup, Idle
<1>3. e \in FD /\ fds[p][e] = Null
  BY <1>1, <1>2, ScanFinds
<1>4. Refers(p, o, f) /\ \A q \in Procs : ~InCall(q)
  BY <1>1, <1>2, NobodyInCall DEF Refers
<1>5. file[f].used
  BY <1>2, <1>4, EntryUsed
<1>6. /\ \A g \in File : g # f => file'[g] = file[g]
      /\ file'[f].refcount = file[f].refcount + 1 /\ file'[f].used /\ SameFile(f)
      /\ file' \in [File -> FileShape]
  <2>1. PICK a, r : a = file[f] /\ r = [a EXCEPT !.refcount = @ + 1]
    OBVIOUS
  <2>2. file' = [file EXCEPT ![f] = r] /\ a \in FileShape
    BY <1>2, <2>1 DEF IInv, Shapes
  <2>3. /\ r \in FileShape /\ r.refcount = a.refcount + 1 /\ r.used = a.used
        /\ r.backend = a.backend /\ r.pipe = a.pipe /\ r.ends = a.ends
    BY <2>1, <2>2 DEF FileShape
  <2>4. file'[f] = r
    BY <1>2, <2>2 DEF IInv, Shapes
  <2> QED
    BY <1>2, <1>5, <2>1, <2>2, <2>3, <2>4 DEF IInv, Shapes, SameFile
<1>7. Released(None, Once(f))
  <2> SUFFICES ASSUME NEW g \in File
               PROVE  /\ g \notin Gone(file, None)
                      /\ ~file[g].used => ~file'[g].used /\ Once(f)[g] = 0
                      /\ file[g].used =>
                           /\ file'[g].used /\ SameFile(g)
                           /\ file'[g].refcount = (file[g].refcount - None[g]) + Once(f)[g]
                           /\ file'[g].refcount >= (file[g].refcount - None[g]) + Once(f)[g]
    BY DEF Released
  <2>1. g \notin Gone(file, None)
    BY NoneNat DEF Gone
  <2>2. None[g] = 0 /\ Once(f)[g] = (IF g = f THEN 1 ELSE 0) /\ file[g].refcount \in Nat
    BY NoneNat, OnceNat DEF IInv, Shapes, FileShape
  <2> QED
    BY <1>5, <1>6, <2>1, <2>2 DEF SameFile
<1>8. EndsCounted'
  <2>1. \A g \in File : (file'[g].used <=> file[g].used) /\ SameFile(g)
    BY <1>5, <1>6 DEF SameFile
  <2> QED
    BY <1>2, <2>1, EndsSame DEF IInv
<1>9. Shapes'
  BY <1>2, <1>3, <1>6 DEF IInv, Shapes
<1>10. \A g \in File : None[g] = IF g = fds[p][e] THEN 1 ELSE 0
  BY <1>3, NoneNat, NoEntries
<1> QED
  BY <1>2, <1>3, <1>4, <1>7, <1>8, <1>9, <1>10, NoneNat, EntryStep

----------------------------------------------------------------------------
(* vfs_pipe *)

\* Two entries change, and neither refers to a file before or after.
LEMMA PairSame ==
  ASSUME NEW p \in Procs, NEW d \in FD, NEW e \in FD, life' = life,
         \A q \in Procs, o \in FD : q # p \/ (o # d /\ o # e) => fds'[q][o] = fds[q][o],
         \A o \in {d, e} : fds[p][o] \notin File /\ fds'[p][o] \notin File
  PROVE  \A f \in File : Held1(f)' = Held1(f)
<1> SUFFICES ASSUME NEW f \in File PROVE Held1(f)' = Held1(f)
  OBVIOUS
<1>1. \A q \in Procs, o \in FD : Refers(q, o, f)' <=> Refers(q, o, f)
  BY DEF Refers
<1> QED
  BY <1>1, EntriesSame

\* Two entries of one table are assigned.
Assigned(p, d, x, e, y) == [fds EXCEPT ![p][d] = x, ![p][e] = y]

\* Nothing else of the tables changes.
LEMMA PairAssigned ==
  ASSUME Shapes, NEW p \in Procs, NEW d \in FD, NEW e \in FD, d # e,
         NEW x \in File \cup {Null, Reserved}, NEW y \in File \cup {Null, Reserved},
         fds' = Assigned(p, d, x, e, y)
  PROVE  /\ fds' \in [Procs -> [FD -> File \cup {Null, Reserved}]]
         /\ fds'[p][d] = x /\ fds'[p][e] = y
         /\ \A q \in Procs : q # p => fds'[q] = fds[q]
         /\ \A o \in FD : o # d /\ o # e => fds'[p][o] = fds[p][o]
<1>1. PICK t : t = [[fds[p] EXCEPT ![d] = x] EXCEPT ![e] = y]
  OBVIOUS
<1>2. fds[p] \in [FD -> File \cup {Null, Reserved}] /\ fds \in [Procs -> [FD -> File \cup {Null, Reserved}]]
  BY DEF Shapes
<1>3. /\ t \in [FD -> File \cup {Null, Reserved}] /\ t[d] = x /\ t[e] = y
      /\ \A o \in FD : o # d /\ o # e => t[o] = fds[p][o]
  BY <1>1, <1>2
<1>4. fds' = [fds EXCEPT ![p] = t]
  <2>1. PICK G : G = [fds EXCEPT ![p][d] = x]
    OBVIOUS
  <2>2. fds' = [G EXCEPT ![p][e] = y]
    BY <2>1 DEF Assigned
  <2>3. PICK u : u = [fds[p] EXCEPT ![d] = x]
    OBVIOUS
  <2>4. G = [fds EXCEPT ![p] = u]
    BY <2>1, <2>3
  <2>5. G[p] = u /\ t = [u EXCEPT ![e] = y]
    BY <1>1, <1>2, <2>3, <2>4
  <2>6. fds' = [G EXCEPT ![p] = t]
    BY <2>2, <2>5
  <2> QED
    BY <1>2, <2>4, <2>6
<1> QED
  BY <1>2, <1>3, <1>4

\* PipeReserve keeps the invariant.
LEMMA PipeReserveStep ==
  ASSUME Careful, IInv, NEW p \in Procs, PipeReserve(p)
  PROVE  IInv'
<1>1. PICK d, e, q, g, c :
        /\ d = process_fd_alloc(fds[p])
        /\ e = FirstOf({fd \in FD : fds[p][fd] = Null /\ fd # d})
        /\ q = FirstOf({r \in Pipe : ~pipe[r].used})
        /\ g = FreeFiles(file)
        /\ c = [NoCall EXCEPT !.at = "pipe.first", !.fd_r = d, !.fd_w = e, !.p = q, !.fr = g]
  OBVIOUS
<1>2. /\ life[p] = "live" /\ call[p].at = "idle" /\ MayRun(p) /\ d # Null /\ e # Null
      /\ fds' = [fds EXCEPT ![p][d] = Reserved, ![p][e] = Reserved]
      /\ pipe' = IF q = Null THEN pipe ELSE [pipe EXCEPT ![q] = [FreePipe EXCEPT !.used = TRUE]]
      /\ call' = [call EXCEPT ![p] = c] /\ UNCHANGED <<life, file>>
  BY <1>1 DEF PipeReserve, Idle
<1>3. d \in FD /\ fds[p][d] = Null
  BY <1>1, <1>2, ScanFinds
<1>4. e \in FD /\ fds[p][e] = Null /\ e # d
  <2>1. PICK S : S = {fd \in FD : fds[p][fd] = Null /\ fd # d}
    OBVIOUS
  <2>2. S \subseteq Nat /\ e = FirstOf(S)
    BY <1>1, <2>1, Indices
  <2>3. e \in S
    BY <1>2, <2>2, FirstOfIn
  <2> QED
    BY <2>1, <2>3
<1>5. q = Null \/ (q \in Pipe /\ ~pipe[q].used)
  <2>1. PICK S : S = {r \in Pipe : ~pipe[r].used}
    OBVIOUS
  <2>2. S \subseteq Nat /\ q = FirstOf(S)
    BY <1>1, <2>1, Indices
  <2>3. q = Null \/ q \in S
    BY <2>2, FirstOfIn
  <2> QED
    BY <2>1, <2>3, Zenon
<1>6. g = Null \/ (g \in File /\ ~file[g].used)
  <2>1. g = FreeFiles(file)
    BY <1>1
  <2> QED
    BY <2>1, ScanFinds, Zenon
<1>7. /\ c \in CallType /\ c.at = "pipe.first" /\ c.fd_r = d /\ c.fd_w = e /\ c.p = q /\ c.fr = g
  BY <1>1, <1>3, <1>4, <1>5, <1>6 DEF CallType, NoCall, Places
<1>8. call'[p] = c /\ \A o \in Procs : o # p => call'[o] = call[o]
  BY <1>2 DEF IInv, Shapes
<1>9. /\ fds' \in [Procs -> [FD -> File \cup {Null, Reserved}]]
      /\ fds'[p][d] = Reserved /\ fds'[p][e] = Reserved
      /\ \A o \in Procs : o # p => fds'[o] = fds[o]
      /\ \A o \in FD : o # d /\ o # e => fds'[p][o] = fds[p][o]
  <2>1. Reserved \in File \cup {Null, Reserved} /\ Shapes /\ d # e
    BY <1>4 DEF IInv
  <2>2. fds' = Assigned(p, d, Reserved, e, Reserved)
    BY <1>2 DEF Assigned
  <2> QED
    BY <1>3, <1>4, <2>1, <2>2, PairAssigned
<1>10. PICK n : n = [FreePipe EXCEPT !.used = TRUE]
  OBVIOUS
<1>11. n \in PipeType /\ n.used /\ n.readers = 0 /\ n.writers = 0
  <2>1. n = [used |-> TRUE, readers |-> 0, writers |-> 0]
    BY <1>10 DEF FreePipe
  <2> QED
    BY <2>1 DEF PipeType
<1>12. /\ pipe' \in [Pipe -> PipeType]
       /\ \A r \in Pipe : r # q => pipe'[r] = pipe[r]
       /\ q # Null => pipe'[q] = n
  <2>1. CASE q = Null
    BY <1>2, <2>1 DEF IInv, Shapes
  <2>2. CASE q # Null
    BY <1>2, <1>5, <1>10, <1>11, <2>2 DEF IInv, Shapes
  <2> QED
    BY <2>1, <2>2
<1>13. Shapes'
  BY <1>2, <1>7, <1>9, <1>12 DEF IInv, Shapes
<1>14. HandsOf(p)'
  BY <1>2, <1>3, <1>4, <1>6, <1>7, <1>8, <1>9, NoEntries DEF HandsOf, InPipe
<1>15. Own(p)
  BY <1>2, <1>7, <1>8, <1>9, <1>13, <1>14 DEF Own, InPipe
<1>16. RefsCounted'
  <2>1. \A f \in File : Held1(f)' = Held1(f)
    BY <1>2, <1>3, <1>4, <1>9, NoEntries, PairSame
  <2>2. \A f : ~InHand(p, f) /\ ~InHand(p, f)'
    BY <1>2, <1>7, <1>8 DEF InHand
  <2>3. \A f \in File : Refs(f)' = Refs(f)
    BY <1>15, <2>1, <2>2, HandSame, RefsSplit
  <2> QED
    BY <1>2, <2>3, RefsMoved DEF IInv
<1>17. EndsCounted'
  <2>1. \A f \in File : \A r, x : HasEnd(f, r, x)' <=> HasEnd(f, r, x)
    BY <1>2 DEF HasEnd
  <2>2. \A r, x : Opened(r, x)' <=> Opened(r, x)
    BY <2>1 DEF Opened
  <2>3. q # Null => ~Opened(q, "r") /\ ~Opened(q, "w")
    BY <1>5 DEF IInv, EndsCounted
  <2>4. call[p].p = Null
    BY <1>2 DEF IInv, CallsSound, InPipe
  <2>5. ASSUME NEW r \in Pipe
        PROVE  /\ pipe'[r].readers = (IF Opened(r, "r")' THEN 1 ELSE 0)
               /\ pipe'[r].writers = (IF Opened(r, "w")' THEN 1 ELSE 0)
               /\ Opened(r, "r")' \/ Opened(r, "w")' => pipe'[r].used
               /\ Races = {} /\ pipe'[r].used =>
                    Opened(r, "r")' \/ Opened(r, "w")' \/ \E o \in Procs : call'[o].p = r
    <3>1. CASE r = q
      <4>1. q # Null
        BY <3>1, NoEntries
      <4> QED
        BY <1>7, <1>8, <1>11, <1>12, <2>2, <2>3, <3>1, <4>1
    <3>2. CASE r # q
      <4>1. pipe'[r] = pipe[r]
        BY <1>12, <3>2
      <4>2. (\E o \in Procs : call[o].p = r) => (\E o \in Procs : call'[o].p = r)
        BY <1>8, <2>4, NoEntries
      <4> QED
        BY <2>2, <4>1, <4>2 DEF IInv, EndsCounted
    <3> QED
      BY <3>1, <3>2
  <2>6. ASSUME NEW o \in Procs, call'[o].p # Null
        PROVE  pipe'[call'[o].p].used /\ ~Opened(call[o].p, "r")' /\ ~Opened(call[o].p, "w")'
    <3>1. CASE o = p
      <4>1. call'[o].p = q /\ q # Null /\ call[o].p = Null
        BY <1>7, <1>8, <2>4, <2>6, <3>1
      <4>2. pipe'[q].used
        BY <1>11, <1>12, <4>1
      <4> QED
        BY <2>2, <2>3, <4>1, <4>2
    <3>2. CASE o # p
      <4>1. PICK r : r = call[o].p
        OBVIOUS
      <4>2. call'[o].p = r /\ r \in Pipe /\ pipe[r].used /\ ~Opened(r, "r") /\ ~Opened(r, "w")
        BY <1>8, <2>6, <3>2, <4>1 DEF IInv, EndsCounted, Shapes, CallType
      <4>3. r # q
        BY <1>5, <4>2, NoEntries
      <4> QED
        BY <1>12, <2>2, <4>1, <4>2, <4>3
    <3> QED
      BY <3>1, <3>2
  <2> QED
    BY <1>2, <2>1, <2>5, <2>6 DEF IInv, EndsCounted
<1> QED
  BY <1>13, <1>15, <1>16, <1>17, OwnStep DEF IInv

\* No file is claimed or released and the call of p takes nothing up.
LEMMA NothingClaimed ==
  ASSUME NEW p \in Procs, Own(p), file' = file, fds' = fds, pipe' = pipe, call'[p].p = call[p].p,
         \A g \in File : InHand(p, g)' <=> InHand(p, g)
  PROVE  RefsCounted' /\ EndsCounted'
<1>1. \A g \in File : Refs(g)' = Refs(g)
  BY HandSame, TablesSame, RefsSplit DEF Own
<1>2. RefsCounted'
  BY <1>1, RefsMoved DEF Own, IInv
<1>3. \A q \in Procs : call'[q].p = call[q].p
  BY DEF Own
<1>4. EndsCounted'
  BY <1>3, EndsSame DEF Own, IInv, SameFile
<1> QED
  BY <1>2, <1>4

\* PipeFirst keeps the invariant.
LEMMA PipeFirstStep ==
  ASSUME Careful, IInv, NEW p \in Procs, PipeFirst(p)
  PROVE  IInv'
<1>1. PICK f, g, c : /\ f = call[p].fr /\ g = FreeFiles(file')
                     /\ c = [[call[p] EXCEPT !.at = "pipe.second"] EXCEPT !.fw = g]
  OBVIOUS
<1>2. /\ call[p].at = "pipe.first" /\ MayRun(p) /\ file' = Claimed(file, f)
      /\ call' = [call EXCEPT ![p].at = "pipe.second", ![p].fw = g]
      /\ UNCHANGED <<life, fds, pipe>> /\ life[p] = "live"
  <2>1. life[p] = "live"
    BY DEF PipeFirst, IInv, CallsSound, NoCall
  <2> QED
    BY <1>1, <2>1 DEF PipeFirst
<1>3. g = Null \/ (g \in File /\ ~file'[g].used)
  <2>1. g = FreeFiles(file')
    BY <1>1
  <2> QED
    BY <2>1, ScanFinds
<1>4. call[p] \in CallType /\ f \in File \cup {Null}
  BY <1>1 DEF IInv, Shapes, CallType
<1>5. /\ c \in CallType /\ c.at = "pipe.second" /\ c.fr = f /\ c.fw = g /\ c.p = call[p].p
      /\ c.fd_r = call[p].fd_r /\ c.fd_w = call[p].fd_w
  BY <1>1, <1>3, <1>4 DEF CallType, Places
<1>6. call' = [call EXCEPT ![p] = c]
  BY <1>1, <1>2 DEF IInv, Shapes
<1>7. call'[p] = c /\ \A o \in Procs : o # p => call'[o] = call[o]
  BY <1>6 DEF IInv, Shapes
<1>8. HandsOf(p)
  BY DEF IInv, HandsSound
<1>9. InPipe(p) /\ InPipe(p)'
  BY <1>2, <1>5, <1>7 DEF InPipe
<1>10. f \in File => /\ file' \in [File -> FileShape] /\ ~file[f].used /\ New(f)'
                     /\ \A h \in File : h # f => file'[h] = file[h]
  <2> HAVE f \in File
  <2>1. ~file[f].used
    BY <1>1, <1>2, <1>8 DEF HandsOf
  <2> QED
    BY <1>2, <2>1, ClaimedShape DEF IInv, New
<1>11. f = Null => file' = file
  BY <1>2 DEF Claimed
<1>12. Shapes'
  BY <1>2, <1>4, <1>5, <1>6, <1>10, <1>11 DEF IInv, Shapes
<1>13. HandsOf(p)'
  <2>1. f \in File => New(f)'
    BY <1>10
  <2>2. /\ call[p].fd_r \in FD /\ fds'[p][call[p].fd_r] = Reserved
        /\ call[p].fd_w \in FD /\ fds'[p][call[p].fd_w] = Reserved
        /\ call[p].fd_r # call[p].fd_w
    BY <1>2, <1>8, <1>9 DEF HandsOf
  <2> QED
    BY <1>3, <1>5, <1>7, <2>1, <2>2, NoEntries DEF HandsOf, New
<1>14. Own(p)
  BY <1>2, <1>5, <1>7, <1>9, <1>12, <1>13 DEF Own
<1>15. \A h : ~InHand(p, h) /\ (InHand(p, h)' <=> h = f)
  BY <1>2, <1>5, <1>7 DEF InHand
<1>16. RefsCounted' /\ EndsCounted'
  <2>1. CASE f \in File
    BY <1>2, <1>5, <1>7, <1>10, <1>14, <1>15, <2>1, ClaimStep
  <2>2. CASE f = Null
    BY <1>2, <1>5, <1>7, <1>11, <1>14, <1>15, <2>2, NoEntries, NothingClaimed
  <2> QED
    BY <1>4, <2>1, <2>2
<1> QED
  BY <1>12, <1>14, <1>16, OwnStep DEF IInv

\* PipeSecond keeps the invariant.
LEMMA PipeSecondStep ==
  ASSUME Careful, IInv, NEW p \in Procs, PipeSecond(p)
  PROVE  IInv'
<1>1. PICK f, g, c : f = call[p].fw /\ g = call[p].fr /\ c = [call[p] EXCEPT !.at = "pipe.fill"]
  OBVIOUS
<1>2. /\ call[p].at = "pipe.second" /\ MayRun(p) /\ file' = Claimed(file, f)
      /\ call' = [call EXCEPT ![p] = c]
      /\ UNCHANGED <<life, fds, pipe>> /\ life[p] = "live"
  <2>1. life[p] = "live"
    BY DEF PipeSecond, IInv, CallsSound, NoCall
  <2> QED
    BY <1>1, <2>1 DEF PipeSecond
<1>4. call[p] \in CallType /\ f \in File \cup {Null} /\ g \in File \cup {Null}
  BY <1>1 DEF IInv, Shapes, CallType
<1>5. /\ c \in CallType /\ c.at = "pipe.fill" /\ c.fr = g /\ c.fw = f /\ c.p = call[p].p
      /\ c.fd_r = call[p].fd_r /\ c.fd_w = call[p].fd_w
  BY <1>1, <1>4 DEF CallType, Places
<1>7. call'[p] = c /\ \A o \in Procs : o # p => call'[o] = call[o]
  BY <1>2 DEF IInv, Shapes
<1>8. HandsOf(p)
  BY DEF IInv, HandsSound
<1>9. InPipe(p) /\ InPipe(p)'
  BY <1>2, <1>5, <1>7 DEF InPipe
<1>10. f \in File => /\ file' \in [File -> FileShape] /\ ~file[f].used /\ New(f)'
                     /\ \A h \in File : h # f => file'[h] = file[h]
  <2> HAVE f \in File
  <2>1. ~file[f].used
    BY <1>1, <1>2, <1>8 DEF HandsOf
  <2> QED
    BY <1>2, <2>1, ClaimedShape DEF IInv, New
<1>11. f = Null => file' = file
  BY <1>2 DEF Claimed
<1>12. Shapes'
  BY <1>2, <1>4, <1>5, <1>10, <1>11 DEF IInv, Shapes
<1>13. g \in File => New(g) /\ New(g)' /\ g # f
  <2> HAVE g \in File
  <2>1. New(g)
    BY <1>1, <1>2, <1>8 DEF HandsOf
  <2>2. g # f
    BY <1>10, <2>1 DEF New
  <2>3. file'[g] = file[g]
    BY <1>4, <1>10, <1>11, <2>2
  <2> QED
    BY <2>1, <2>2, <2>3 DEF New
<1>14. HandsOf(p)'
  <2>1. /\ call[p].fd_r \in FD /\ fds'[p][call[p].fd_r] = Reserved
        /\ call[p].fd_w \in FD /\ fds'[p][call[p].fd_w] = Reserved
        /\ call[p].fd_r # call[p].fd_w
    BY <1>2, <1>8, <1>9 DEF HandsOf
  <2>2. f \in File => New(f)' /\ g # f
    BY <1>10, <1>13
  <2> QED
    BY <1>5, <1>7, <1>13, <2>1, <2>2 DEF HandsOf, New
<1>15. Own(p)
  BY <1>2, <1>5, <1>7, <1>9, <1>12, <1>14 DEF Own
<1>16. \A h : (InHand(p, h) <=> h = g) /\ (InHand(p, h)' <=> h = g \/ h = f)
  BY <1>1, <1>2, <1>5, <1>7 DEF InHand
<1>17. RefsCounted' /\ EndsCounted'
  <2>1. CASE f \in File
    BY <1>2, <1>5, <1>7, <1>10, <1>15, <1>16, <2>1, ClaimStep
  <2>2. CASE f = Null
    BY <1>2, <1>5, <1>7, <1>11, <1>15, <1>16, <2>2, NoEntries, NothingClaimed
  <2> QED
    BY <1>4, <2>1, <2>2
<1> QED
  BY <1>12, <1>15, <1>17, OwnStep DEF IInv

\* A claimed file becomes the end x of pipe q.
LEMMA EndShape ==
  ASSUME NEW files \in [File -> FileShape], NEW f \in File, NEW q \in Pipe, NEW x \in Ends
  PROVE  /\ PipeEnd(files, f, q, x) \in [File -> FileShape]
         /\ \A g \in File : g # f => PipeEnd(files, f, q, x)[g] = files[g]
         /\ PipeEnd(files, f, q, x)[f].used = files[f].used
         /\ PipeEnd(files, f, q, x)[f].refcount = files[f].refcount
         /\ PipeEnd(files, f, q, x)[f].backend = "pipe"
         /\ PipeEnd(files, f, q, x)[f].pipe = q
         /\ PipeEnd(files, f, q, x)[f].ends = {x}
<1>1. PICK a, b, c, r : /\ a = files[f] /\ b = [a EXCEPT !.backend = "pipe"]
                        /\ c = [b EXCEPT !.pipe = q] /\ r = [c EXCEPT !.ends = {x}]
  OBVIOUS
<1>2. a \in FileShape
  BY <1>1
<1>3. b \in FileShape /\ b.used = a.used /\ b.refcount = a.refcount /\ b.backend = "pipe"
  BY <1>1, <1>2 DEF FileShape
<1>4. c \in FileShape /\ c.used = a.used /\ c.refcount = a.refcount /\ c.backend = "pipe" /\ c.pipe = q
  BY <1>1, <1>3 DEF FileShape
<1>5. /\ r \in FileShape /\ r.used = a.used /\ r.refcount = a.refcount /\ r.backend = "pipe"
      /\ r.pipe = q /\ r.ends = {x}
  BY <1>1, <1>4 DEF FileShape
<1>6. PipeEnd(files, f, q, x) = [files EXCEPT ![f] = r]
  <2>1. PICK A : A = [files EXCEPT ![f].backend = "pipe"]
    OBVIOUS
  <2>2. A = [files EXCEPT ![f] = b]
    BY <1>1, <2>1
  <2>3. PICK B : B = [A EXCEPT ![f].pipe = q]
    OBVIOUS
  <2>4. A[f] = b
    BY <2>2
  <2>5. B = [A EXCEPT ![f] = c]
    BY <1>1, <2>3, <2>4
  <2>6. B[f] = c
    BY <2>2, <2>5
  <2>7. PipeEnd(files, f, q, x) = [B EXCEPT ![f].ends = {x}]
    BY <2>1, <2>3 DEF PipeEnd
  <2>8. PipeEnd(files, f, q, x) = [B EXCEPT ![f] = r]
    BY <1>1, <2>6, <2>7
  <2> QED
    BY <2>2, <2>5, <2>8
<1>7. PICK P : P = [files EXCEPT ![f] = r]
  OBVIOUS
<1>8. P \in [File -> FileShape] /\ P[f] = r /\ \A g \in File : g # f => P[g] = files[g]
  BY <1>5, <1>7
<1> QED
  BY <1>1, <1>5, <1>6, <1>7, <1>8

\* PipeInstall keeps the invariant.
LEMMA PipeInstallStep ==
  ASSUME Careful, IInv, NEW p \in Procs, PipeInstall(p)
  PROVE  IInv'
<1>1. PICK f, g, q, d, e, F : /\ f = call[p].fr /\ g = call[p].fw /\ q = call[p].p
                              /\ d = call[p].fd_r /\ e = call[p].fd_w
                              /\ F = PipeEnd(file, f, q, "r")
  OBVIOUS
<1>2. /\ call[p].at = "pipe.fill" /\ MayRun(p) /\ f # Null /\ g # Null /\ q # Null
      /\ file' = PipeEnd(F, g, q, "w")
      /\ pipe' = [pipe EXCEPT ![q].readers = 1, ![q].writers = 1]
      /\ fds' = Assigned(p, d, f, e, g)
      /\ call' = [call EXCEPT ![p] = NoCall] /\ life' = life
  BY <1>1 DEF PipeInstall, Returns, Assigned
<1>3. life[p] = "live" /\ f \in File /\ g \in File /\ q \in Pipe
  BY <1>1, <1>2 DEF IInv, CallsSound, NoCall, Shapes, CallType
<1>4. /\ New(f) /\ New(g) /\ f # g /\ d \in FD /\ e \in FD /\ d # e
      /\ fds[p][d] = Reserved /\ fds[p][e] = Reserved
  <2>1. HandsOf(p) /\ InPipe(p)
    BY <1>2 DEF IInv, HandsSound, InPipe
  <2> QED
    BY <1>1, <1>2, <1>3, <2>1 DEF HandsOf
<1>5. /\ call'[p] = NoCall /\ \A o \in Procs : o # p => call'[o] = call[o]
      /\ call' \in [Procs -> CallType]
  BY <1>2, NoCallType DEF IInv, Shapes
<1>6. /\ fds' \in [Procs -> [FD -> File \cup {Null, Reserved}]]
      /\ fds'[p][d] = f /\ fds'[p][e] = g
      /\ \A o \in Procs : o # p => fds'[o] = fds[o]
      /\ \A o \in FD : o # d /\ o # e => fds'[p][o] = fds[p][o]
  <2>1. Shapes /\ f \in File \cup {Null, Reserved} /\ g \in File \cup {Null, Reserved}
    BY <1>3 DEF IInv
  <2> QED
    BY <1>2, <1>4, <2>1, PairAssigned
<1>7. /\ file' \in [File -> FileShape]
      /\ \A h \in File : h # f /\ h # g => file'[h] = file[h]
      /\ file'[f].used /\ file'[f].refcount = 1 /\ file'[f].backend = "pipe"
      /\ file'[f].pipe = q /\ file'[f].ends = {"r"}
      /\ file'[g].used /\ file'[g].refcount = 1 /\ file'[g].backend = "pipe"
      /\ file'[g].pipe = q /\ file'[g].ends = {"w"}
  <2>1. file \in [File -> FileShape] /\ "r" \in Ends /\ "w" \in Ends
    BY DEF IInv, Shapes, Ends
  <2>2. /\ F \in [File -> FileShape] /\ \A h \in File : h # f => F[h] = file[h]
        /\ F[f].used = file[f].used /\ F[f].refcount = file[f].refcount
        /\ F[f].backend = "pipe" /\ F[f].pipe = q /\ F[f].ends = {"r"}
    BY <1>1, <1>3, <2>1, EndShape
  <2>3. /\ file' \in [File -> FileShape] /\ \A h \in File : h # g => file'[h] = F[h]
        /\ file'[g].used = F[g].used /\ file'[g].refcount = F[g].refcount
        /\ file'[g].backend = "pipe" /\ file'[g].pipe = q /\ file'[g].ends = {"w"}
    BY <1>2, <1>3, <2>1, <2>2, EndShape
  <2>4. file'[f] = F[f] /\ F[g] = file[g]
    BY <1>3, <1>4, <2>2, <2>3
  <2>5. file[f].used /\ file[f].refcount = 1 /\ file[g].used /\ file[g].refcount = 1
    BY <1>4 DEF New
  <2> QED
    BY <2>2, <2>3, <2>4, <2>5
<1>8. /\ pipe' \in [Pipe -> PipeType] /\ \A r \in Pipe : r # q => pipe'[r] = pipe[r]
      /\ pipe'[q].readers = 1 /\ pipe'[q].writers = 1 /\ pipe'[q].used = pipe[q].used
  <2>1. PICK a, b : a = [pipe[q] EXCEPT !.readers = 1] /\ b = [a EXCEPT !.writers = 1]
    OBVIOUS
  <2>2. pipe[q] \in PipeType
    BY <1>3 DEF IInv, Shapes
  <2>3. a \in PipeType /\ a.readers = 1 /\ a.used = pipe[q].used
    BY <2>1, <2>2 DEF PipeType
  <2>4. b \in PipeType /\ b.readers = 1 /\ b.writers = 1 /\ b.used = pipe[q].used
    BY <2>1, <2>3 DEF PipeType
  <2>5. pipe' = [pipe EXCEPT ![q] = b]
    <3>1. PICK P : P = [pipe EXCEPT ![q].readers = 1]
      OBVIOUS
    <3>2. P = [pipe EXCEPT ![q] = a]
      BY <2>1, <3>1
    <3>3. P[q] = a
      BY <1>3, <3>2 DEF IInv, Shapes
    <3>4. pipe' = [P EXCEPT ![q].writers = 1]
      BY <1>2, <3>1
    <3>5. pipe' = [P EXCEPT ![q] = b]
      BY <2>1, <3>3, <3>4
    <3> QED
      BY <3>2, <3>5 DEF IInv, Shapes
  <2> QED
    BY <1>3, <2>4, <2>5 DEF IInv, Shapes
<1>9. Shapes'
  BY <1>2, <1>5, <1>6, <1>7, <1>8 DEF IInv, Shapes
<1>10. Own(p)
  BY <1>2, <1>3, <1>5, <1>6, <1>9, NoCallHands DEF Own
<1>11. ASSUME NEW h \in File PROVE Refs(h)' = Refs(h)
  <2>1. \A o \in Procs, s \in FD : o # p \/ (s # d /\ s # e) => (Refers(o, s, h)' <=> Refers(o, s, h))
    BY <1>2, <1>6 DEF Refers
  <2>2. ~Refers(p, d, h) /\ ~Refers(p, e, h) /\ (Refers(p, d, h)' <=> h = f) /\ (Refers(p, e, h)' <=> h = g)
    BY <1>2, <1>3, <1>4, <1>6, NoEntries DEF Refers
  <2>3. ~InHand(p, h)' /\ (InHand(p, h) <=> h = f \/ h = g)
    BY <1>1, <1>2, <1>5, NoCallHands DEF InHand
  <2>4. CASE h = f
    <3>1. \A o \in Procs, s \in FD : o # p \/ s # d => (Refers(o, s, h)' <=> Refers(o, s, h))
      BY <1>4, <2>1, <2>2, <2>4
    <3>2. Held1(h)' = Held1(h) + 1
      BY <1>4, <2>2, <2>4, <3>1, EntryMoves
    <3>3. Held2(h) = Held2(h)' + 1
      BY <1>10, <2>3, <2>4, PutsDown
    <3> QED
      BY <3>2, <3>3, RefsSplit
  <2>5. CASE h = g
    <3>1. \A o \in Procs, s \in FD : o # p \/ s # e => (Refers(o, s, h)' <=> Refers(o, s, h))
      BY <1>4, <2>1, <2>2, <2>5
    <3>2. Held1(h)' = Held1(h) + 1
      BY <1>4, <2>2, <2>5, <3>1, EntryMoves
    <3>3. Held2(h) = Held2(h)' + 1
      BY <1>10, <2>3, <2>5, PutsDown
    <3> QED
      BY <3>2, <3>3, RefsSplit
  <2>6. CASE h # f /\ h # g
    <3>1. \A o \in Procs, s \in FD : Refers(o, s, h)' <=> Refers(o, s, h)
      BY <2>1, <2>2, <2>6
    <3>2. Held1(h)' = Held1(h)
      BY <3>1, EntriesSame
    <3>3. Held2(h)' = Held2(h)
      BY <1>10, <2>3, <2>6, HandSame
    <3> QED
      BY <3>2, <3>3, RefsSplit
  <2> QED
    BY <2>4, <2>5, <2>6
<1>12. RefsCounted'
  <2>1. \A h \in File : file'[h].used <=> file[h].used
    BY <1>4, <1>7 DEF New
  <2>2. \A h \in File : file'[h].refcount = file[h].refcount
    BY <1>4, <1>7 DEF New
  <2> QED
    BY <1>11, <2>1, <2>2, RefsMoved DEF IInv
<1>13. EndsCounted'
  <2>1. \A h \in File : \A r, x :
          HasEnd(h, r, x)' <=> \/ HasEnd(h, r, x)
                               \/ r = q /\ ((h = f /\ x = "r") \/ (h = g /\ x = "w"))
    <3> SUFFICES ASSUME NEW h \in File, NEW r, NEW x
                 PROVE  HasEnd(h, r, x)' <=> \/ HasEnd(h, r, x)
                                             \/ r = q /\ ((h = f /\ x = "r") \/ (h = g /\ x = "w"))
      OBVIOUS
    <3>1. CASE h = f
      BY <1>4, <1>7, <3>1 DEF HasEnd, New
    <3>2. CASE h = g
      BY <1>4, <1>7, <3>2 DEF HasEnd, New
    <3>3. CASE h # f /\ h # g
      BY <1>7, <3>3 DEF HasEnd
    <3> QED
      BY <3>1, <3>2, <3>3
  <2>2. pipe[q].used /\ ~Opened(q, "r") /\ ~Opened(q, "w")
    BY <1>1, <1>2 DEF IInv, EndsCounted
  <2>3. Opened(q, "r")' /\ Opened(q, "w")'
    BY <1>3, <2>1 DEF Opened
  <2>4. \A r, x : r # q => (Opened(r, x)' <=> Opened(r, x))
    BY <2>1 DEF Opened
  <2>5. \A h \in File : file'[h].used /\ file'[h].backend = "pipe" => file'[h].ends # {}
    <3>1. {"r"} # {} /\ {"w"} # {}
      OBVIOUS
    <3> QED
      BY <1>7, <3>1 DEF IInv, EndsCounted
  <2>6. ASSUME NEW h \in File, NEW i \in File, NEW r \in Pipe, NEW x \in Ends,
               HasEnd(h, r, x)', HasEnd(i, r, x)'
        PROVE  h = i
    <3>1. CASE r = q
      <4>1. ~HasEnd(h, r, x) /\ ~HasEnd(i, r, x)
        BY <2>2, <3>1 DEF Opened, Ends
      <4> QED
        BY <2>1, <2>6, <4>1
    <3>2. CASE r # q
      BY <2>1, <2>6, <3>2 DEF IInv, EndsCounted
    <3> QED
      BY <3>1, <3>2
  <2>7. ASSUME NEW r \in Pipe
        PROVE  /\ pipe'[r].readers = (IF Opened(r, "r")' THEN 1 ELSE 0)
               /\ pipe'[r].writers = (IF Opened(r, "w")' THEN 1 ELSE 0)
               /\ Opened(r, "r")' \/ Opened(r, "w")' => pipe'[r].used
               /\ Races = {} /\ pipe'[r].used =>
                    Opened(r, "r")' \/ Opened(r, "w")' \/ \E o \in Procs : call'[o].p = r
    <3>1. CASE r = q
      BY <1>8, <2>2, <2>3, <3>1
    <3>2. CASE r # q
      <4>1. pipe'[r] = pipe[r]
        BY <1>8, <3>2
      <4>2. (\E o \in Procs : call[o].p = r) => (\E o \in Procs : call'[o].p = r)
        BY <1>1, <1>5, <3>2
      <4> QED
        BY <2>4, <3>2, <4>1, <4>2 DEF IInv, EndsCounted
    <3> QED
      BY <3>1, <3>2
  <2>8. ASSUME NEW o \in Procs, call'[o].p # Null
        PROVE  pipe'[call'[o].p].used /\ ~Opened(call[o].p, "r")' /\ ~Opened(call[o].p, "w")'
    <3>1. o # p
      BY <1>5, <2>8, NoCallType
    <3>2. InCall(o)
      BY <1>5, <2>8, <3>1 DEF IInv, CallsSound, InPipe, InCall
    <3> QED
      BY <1>10, <3>1, <3>2, OwnStep
  <2> QED
    BY <2>5, <2>6, <2>7, <2>8 DEF EndsCounted
<1> QED
  BY <1>9, <1>10, <1>12, <1>13, OwnStep DEF IInv

\* PipeBackOut keeps the invariant.
LEMMA PipeBackOutStep ==
  ASSUME Careful, IInv, NEW p \in Procs, PipeBackOut(p)
  PROVE  IInv'
<1>1. PICK f, g, q, d, e, k :
        /\ f = call[p].fr /\ g = call[p].fw /\ q = call[p].p
        /\ d = call[p].fd_r /\ e = call[p].fd_w
        /\ k = [h \in File |-> IF h \in {f, g} THEN 1 ELSE 0]
  OBVIOUS
<1>2. /\ call[p].at = "pipe.fill" /\ MayRun(p)
      /\ file' = FilesAfter(file, k)
      /\ pipe' = IF q = Null THEN pipe ELSE [pipe EXCEPT ![q].used = FALSE]
      /\ fds' = Assigned(p, d, Null, e, Null)
      /\ call' = [call EXCEPT ![p] = NoCall] /\ life' = life
  BY <1>1 DEF PipeBackOut, Returns, Assigned
<1>3. life[p] = "live" /\ q \in Pipe \cup {Null}
  BY <1>1, <1>2 DEF IInv, CallsSound, NoCall, Shapes, CallType
<1>4. /\ f \in File => New(f)
      /\ g \in File => New(g)
      /\ d \in FD /\ e \in FD /\ d # e
      /\ fds[p][d] = Reserved /\ fds[p][e] = Reserved
  <2>1. HandsOf(p) /\ InPipe(p)
    BY <1>2 DEF IInv, HandsSound, InPipe
  <2> QED
    BY <1>1, <1>2, <1>3, <2>1 DEF HandsOf
<1>5. /\ call'[p] = NoCall /\ \A o \in Procs : o # p => call'[o] = call[o]
      /\ call' \in [Procs -> CallType]
  BY <1>2, NoCallType DEF IInv, Shapes
<1>6. /\ fds' \in [Procs -> [FD -> File \cup {Null, Reserved}]]
      /\ fds'[p][d] = Null /\ fds'[p][e] = Null
      /\ \A o \in Procs : o # p => fds'[o] = fds[o]
      /\ \A o \in FD : o # d /\ o # e => fds'[p][o] = fds[p][o]
  <2>1. Shapes /\ Null \in File \cup {Null, Reserved}
    BY DEF IInv
  <2> QED
    BY <1>2, <1>4, <2>1, PairAssigned
<1>7. k \in [File -> Nat] /\ \A h \in File : k[h] = IF h \in {f, g} THEN 1 ELSE 0
  BY <1>1
<1>8. Released(k, None) /\ file' \in [File -> FileShape]
  BY <1>2, <1>7, AfterReleased DEF IInv
<1>9. /\ pipe' \in [Pipe -> PipeType] /\ \A r \in Pipe : r # q => pipe'[r] = pipe[r]
      /\ q # Null => /\ ~pipe'[q].used /\ pipe'[q].readers = pipe[q].readers
                     /\ pipe'[q].writers = pipe[q].writers
  <2>1. CASE q = Null
    BY <1>2, <2>1 DEF IInv, Shapes
  <2>2. CASE q # Null
    <3>1. PICK a : a = [pipe[q] EXCEPT !.used = FALSE]
      OBVIOUS
    <3>2. pipe[q] \in PipeType /\ q \in Pipe
      BY <1>3, <2>2 DEF IInv, Shapes
    <3>3. a \in PipeType /\ ~a.used /\ a.readers = pipe[q].readers /\ a.writers = pipe[q].writers
      BY <3>1, <3>2 DEF PipeType
    <3>4. pipe' = [pipe EXCEPT ![q] = a]
      BY <1>2, <2>2, <3>1
    <3> QED
      BY <3>2, <3>3, <3>4 DEF IInv, Shapes
  <2> QED
    BY <2>1, <2>2
<1>10. Shapes'
  BY <1>2, <1>5, <1>6, <1>8, <1>9 DEF IInv, Shapes
<1>11. Own(p)
  BY <1>2, <1>3, <1>5, <1>6, <1>10, NoCallHands DEF Own
<1>12. RefsCounted'
  <2>1. \A h \in File : Held1(h)' = Held1(h)
    BY <1>2, <1>4, <1>6, NoEntries, PairSame
  <2>2. \A h \in File : k[h] = IF InHand(p, h) THEN 1 ELSE 0
    BY <1>1, <1>2, <1>7 DEF InHand
  <2> QED
    BY <1>5, <1>7, <1>8, <1>11, <2>1, <2>2, PutDownStep
<1>13. EndsCounted'
  <2>1. \A h \in File : file'[h].used => file[h].used /\ SameFile(h)
    BY <1>8 DEF Released
  <2>2. \A h \in File : file[h].used /\ file[h].backend = "pipe" => file'[h].used /\ SameFile(h)
    <3> SUFFICES ASSUME NEW h \in File, file[h].used, file[h].backend = "pipe"
                 PROVE  file'[h].used /\ SameFile(h)
      OBVIOUS
    <3>1. h # f /\ h # g
      BY <1>4 DEF New
    <3>2. k[h] = 0
      BY <1>7, <3>1
    <3>3. h \notin Gone(file, k)
      BY <3>2 DEF Gone
    <3> QED
      BY <1>8, <3>3 DEF Released
  <2>3. \A h \in File : \A r, x : HasEnd(h, r, x)' <=> HasEnd(h, r, x)
    BY <2>1, <2>2 DEF HasEnd, SameFile
  <2>4. \A r, x : Opened(r, x)' <=> Opened(r, x)
    BY <2>3 DEF Opened
  <2>5. q # Null => ~Opened(q, "r") /\ ~Opened(q, "w")
    BY <1>1 DEF IInv, EndsCounted
  <2>6. \A h \in File : file'[h].used /\ file'[h].backend = "pipe" => file'[h].ends # {}
    BY <2>1 DEF SameFile, IInv, EndsCounted
  <2>7. \A h, i \in File, r \in Pipe, x \in Ends : HasEnd(h, r, x)' /\ HasEnd(i, r, x)' => h = i
    BY <2>3 DEF IInv, EndsCounted
  <2>8. ASSUME NEW r \in Pipe
        PROVE  /\ pipe'[r].readers = (IF Opened(r, "r")' THEN 1 ELSE 0)
               /\ pipe'[r].writers = (IF Opened(r, "w")' THEN 1 ELSE 0)
               /\ Opened(r, "r")' \/ Opened(r, "w")' => pipe'[r].used
               /\ Races = {} /\ pipe'[r].used =>
                    Opened(r, "r")' \/ Opened(r, "w")' \/ \E o \in Procs : call'[o].p = r
    <3>1. CASE r = q
      <4>1. q # Null
        BY <3>1, NoEntries
      <4>2. pipe[r].readers = 0 /\ pipe[r].writers = 0
        BY <2>5, <3>1, <4>1 DEF IInv, EndsCounted
      <4> QED
        BY <1>9, <2>4, <2>5, <3>1, <4>1, <4>2
    <3>2. CASE r # q
      <4>1. pipe'[r] = pipe[r]
        BY <1>9, <3>2
      <4>2. (\E o \in Procs : call[o].p = r) => (\E o \in Procs : call'[o].p = r)
        BY <1>1, <1>5, <3>2
      <4> QED
        BY <2>4, <3>2, <4>1, <4>2 DEF IInv, EndsCounted
    <3> QED
      BY <3>1, <3>2
  <2>9. ASSUME NEW o \in Procs, call'[o].p # Null
        PROVE  pipe'[call'[o].p].used /\ ~Opened(call[o].p, "r")' /\ ~Opened(call[o].p, "w")'
    <3>1. o # p
      BY <1>5, <2>9, NoCallType
    <3>2. InCall(o)
      BY <1>5, <2>9, <3>1 DEF IInv, CallsSound, InPipe, InCall
    <3> QED
      BY <1>11, <3>1, <3>2, OwnStep
  <2> QED
    BY <2>6, <2>7, <2>8, <2>9 DEF EndsCounted
<1> QED
  BY <1>10, <1>11, <1>12, <1>13, OwnStep DEF IInv

----------------------------------------------------------------------------
(* Processes *)

\* A whole row of references, that of process c, is added to S.
LEMMA RowAdds ==
  ASSUME NEW c \in Procs, NEW S, S \subseteq Procs \X FD, NEW E, E \subseteq FD,
         NEW T, T \subseteq Procs \X FD,
         \A e \in FD : <<c, e>> \notin S /\ (<<c, e>> \in T <=> e \in E),
         \A q \in Procs, e \in FD : q # c => (<<q, e>> \in T <=> <<q, e>> \in S)
  PROVE  Cardinality(T) = Cardinality(S) + Cardinality(E)
<1>1. PICK R : R = {c} \X E
  OBVIOUS
<1>2. T = S \cup R
  <2>1. ASSUME NEW x \in Procs \X FD PROVE x \in T <=> x \in S \/ x \in R
    <3>1. PICK q \in Procs, e \in FD : x = <<q, e>>
      OBVIOUS
    <3>2. x \in R <=> q = c /\ e \in E
      BY <1>1, <3>1
    <3> QED
      BY <3>1, <3>2
  <2>2. R \subseteq Procs \X FD
    BY <1>1
  <2> QED
    BY <2>1, <2>2
<1>3. S \cap R = {}
  BY <1>1
<1>4. IsFiniteSet(S) /\ IsFiniteSet(E) /\ Cardinality(S) \in Nat /\ Cardinality(E) \in Nat
  BY CountedFinite
<1>5. IsFiniteSet({c}) /\ Cardinality({c}) = 1
  BY FS_Singleton
<1>6. IsFiniteSet(R) /\ Cardinality(R) = 1 * Cardinality(E)
  BY <1>1, <1>4, <1>5, FS_Product
<1>7. Cardinality(S \cup R) = Cardinality(S) + Cardinality(R) - Cardinality({})
  BY <1>3, <1>4, <1>6, FS_Union
<1> QED
  BY <1>2, <1>4, <1>6, <1>7, FS_EmptySet

\* How often a table refers to a file.
LEMMA EntriesType ==
  ASSUME NEW tbl
  PROVE  /\ Entries(tbl, FD) \in [File -> Nat]
         /\ \A f \in File : Entries(tbl, FD)[f] = Cardinality({e \in FD : tbl[e] = f})
<1>1. \A f \in File : Cardinality({e \in FD : tbl[e] = f}) \in Nat
  BY CountedFinite
<1> QED
  BY <1>1 DEF Entries

\* A table is emptied: its references go.
LEMMA RowGoes ==
  ASSUME NEW p \in Procs, NEW f \in File, life[p] # "free",
         \A q \in Procs, e \in FD : q # p => (Refers(q, e, f)' <=> Refers(q, e, f)),
         \A e \in FD : ~Refers(p, e, f)'
  PROVE  Held1(f) = Held1(f)' + Entries(fds[p], FD)[f]
<1>1. PICK S, T, E : S = Holders(f)' /\ T = Holders(f) /\ E = {e \in FD : fds[p][e] = f}
  OBVIOUS
<1>2. S \subseteq Procs \X FD /\ T \subseteq Procs \X FD /\ E \subseteq FD
  BY <1>1 DEF Holders
<1>3. \A q \in Procs, e \in FD : (<<q, e>> \in S <=> Refers(q, e, f)') /\ (<<q, e>> \in T <=> Refers(q, e, f))
  BY <1>1 DEF Holders, Refers
<1>4. \A e \in FD : Refers(p, e, f) <=> e \in E
  BY <1>1 DEF Refers
<1>5. Cardinality(T) = Cardinality(S) + Cardinality(E)
  BY <1>2, <1>3, <1>4, RowAdds
<1> QED
  BY <1>1, <1>5, EntriesType DEF Held1

\* A table is copied: its references come.
LEMMA RowComes ==
  ASSUME NEW p \in Procs, NEW c \in Procs, NEW f \in File,
         \A q \in Procs, e \in FD : q # c => (Refers(q, e, f)' <=> Refers(q, e, f)),
         \A e \in FD : ~Refers(c, e, f) /\ (Refers(c, e, f)' <=> fds[p][e] = f)
  PROVE  Held1(f)' = Held1(f) + Entries(fds[p], FD)[f]
<1>1. PICK S, T, E : S = Holders(f) /\ T = Holders(f)' /\ E = {e \in FD : fds[p][e] = f}
  OBVIOUS
<1>2. S \subseteq Procs \X FD /\ T \subseteq Procs \X FD /\ E \subseteq FD
  BY <1>1 DEF Holders
<1>3. \A q \in Procs, e \in FD : (<<q, e>> \in T <=> Refers(q, e, f)') /\ (<<q, e>> \in S <=> Refers(q, e, f))
  BY <1>1 DEF Holders, Refers
<1>4. \A e \in FD : Refers(c, e, f)' <=> e \in E
  BY <1>1
<1>5. Cardinality(T) = Cardinality(S) + Cardinality(E)
  BY <1>2, <1>3, <1>4, RowAdds
<1> QED
  BY <1>1, <1>5, EntriesType DEF Held1

\* vfs_process_inherit counts a reference for each entry copied.
LEMMA InheritedReleased ==
  ASSUME IInv, NEW p \in Procs, life[p] = "live", file' = Inherited(p)
  PROVE  /\ Released(None, Entries(fds[p], FD)) /\ file' \in [File -> FileShape]
         /\ \A f \in File : (file'[f].used <=> file[f].used) /\ SameFile(f)
<1>1. PICK j : j = Entries(fds[p], FD)
  OBVIOUS
<1>2. j \in [File -> Nat] /\ \A f \in File : j[f] = Cardinality({e \in FD : fds[p][e] = f})
  BY <1>1, EntriesType
<1>3. ASSUME NEW f \in File
      PROVE  /\ file'[f] \in FileShape /\ file'[f].refcount = file[f].refcount + j[f]
             /\ file'[f].used = file[f].used /\ SameFile(f)
  <2>1. PICK a, n : a = file[f] /\ n = j[f]
    OBVIOUS
  <2>2. a \in FileShape /\ n \in Nat
    BY <1>2, <2>1 DEF IInv, Shapes
  <2>3. file'[f] = [a EXCEPT !.refcount = @ + n]
    BY <1>1, <2>1 DEF Inherited
  <2>4. /\ file'[f] \in FileShape /\ file'[f].refcount = a.refcount + n /\ file'[f].used = a.used
        /\ file'[f].backend = a.backend /\ file'[f].pipe = a.pipe /\ file'[f].ends = a.ends
    BY <2>2, <2>3 DEF FileShape
  <2> QED
    BY <2>1, <2>4 DEF SameFile
<1>4. file' \in [File -> FileShape]
  BY <1>3 DEF Inherited
<1>5. ASSUME NEW f \in File, ~file[f].used PROVE j[f] = 0
  <2>1. \A e \in FD : fds[p][e] # f
    BY <1>5, EntryUsed DEF Refers
  <2>2. {e \in FD : fds[p][e] = f} = {}
    BY <2>1
  <2> QED
    BY <1>2, <2>2, FS_EmptySet
<1>6. Released(None, j)
  <2> SUFFICES ASSUME NEW f \in File
               PROVE  /\ f \notin Gone(file, None)
                      /\ ~file[f].used => ~file'[f].used /\ j[f] = 0
                      /\ file[f].used =>
                           /\ file'[f].used /\ SameFile(f)
                           /\ file'[f].refcount = (file[f].refcount - None[f]) + j[f]
                           /\ file'[f].refcount >= (file[f].refcount - None[f]) + j[f]
    BY DEF Released
  <2>1. f \notin Gone(file, None)
    BY NoneNat DEF Gone
  <2>2. file[f].refcount \in Nat /\ j[f] \in Nat /\ None[f] = 0
    BY <1>2, NoneNat DEF IInv, Shapes, FileShape
  <2>3. file'[f].refcount = (file[f].refcount - None[f]) + j[f]
    BY <1>3, <2>2
  <2>4. file'[f].refcount >= (file[f].refcount - None[f]) + j[f]
    BY <1>3, <2>2
  <2> QED
    BY <1>3, <1>5, <2>1, <2>3, <2>4
<1> QED
  BY <1>1, <1>3, <1>4, <1>6

\* Spawn keeps the invariant.
LEMMA SpawnStep ==
  ASSUME Careful, IInv, NEW p \in Procs, NEW c \in Procs, Spawn(p, c)
  PROVE  IInv'
<1>1. PICK x, j : x = [NoCall EXCEPT !.at = "spawn", !.child = c] /\ j = Entries(fds[p], FD)
  OBVIOUS
<1>2. /\ life[p] = "live" /\ call[p].at = "idle" /\ MayRun(p) /\ life[c] = "free"
      /\ life' = [life EXCEPT ![c] = "live"] /\ fds' = [fds EXCEPT ![c] = fds[p]]
      /\ file' = Inherited(p) /\ call' = [call EXCEPT ![p] = x, ![c] = NoCall]
      /\ pipe' = pipe
  BY <1>1 DEF Spawn, Idle
<1>3. c # p
  BY <1>2
<1>4. x \in CallType /\ x.at = "spawn" /\ x.child = c /\ x.p = Null
  BY <1>1 DEF CallType, NoCall, Places
<1>5. /\ call' \in [Procs -> CallType] /\ call'[p] = x /\ call'[c] = NoCall
      /\ \A q \in Procs : q # p /\ q # c => call'[q] = call[q]
  <2>1. PICK C : C = [call EXCEPT ![p] = x]
    OBVIOUS
  <2>2. C \in [Procs -> CallType] /\ C[p] = x /\ \A q \in Procs : q # p => C[q] = call[q]
    BY <1>4, <2>1 DEF IInv, Shapes
  <2>3. call' = [C EXCEPT ![c] = NoCall]
    BY <1>2, <2>1
  <2> QED
    BY <1>3, <2>2, <2>3, NoCallType
<1>6. /\ life'[c] = "live" /\ \A q \in Procs : q # c => life'[q] = life[q]
      /\ fds'[c] = fds[p] /\ \A q \in Procs : q # c => fds'[q] = fds[q]
      /\ life' \in [Procs -> {"free", "live", "zombie"}]
      /\ fds' \in [Procs -> [FD -> File \cup {Null, Reserved}]]
  BY <1>2 DEF IInv, Shapes
<1>7. /\ Released(None, j) /\ file' \in [File -> FileShape]
      /\ \A f \in File : (file'[f].used <=> file[f].used) /\ SameFile(f)
  BY <1>1, <1>2, InheritedReleased
<1>8. Shapes'
  BY <1>2, <1>5, <1>6, <1>7 DEF IInv, Shapes
<1>9. call[c] = NoCall /\ call[p].p = Null /\ \A q \in Procs : ~InCall(q)
  <2>1. call[c] = NoCall /\ call[p].p = Null
    BY <1>2 DEF IInv, CallsSound, InPipe
  <2> QED
    BY <1>2, <2>1, NobodyInCall
<1>10. \A q \in Procs : ~InCall(q)'
  BY <1>4, <1>5, <1>9, NoCallType DEF InCall
<1>11. HandsSound'
  BY <1>10, OutOfCall DEF HandsSound
<1>12. CallsSound'
  <2>1. \A q \in Procs : life'[q] # "live" => call'[q] = NoCall
    BY <1>2, <1>5, <1>6 DEF IInv, CallsSound
  <2>2. \A q \in Procs : life'[q] = "free" => \A e \in FD : fds'[q][e] = Null
    BY <1>6 DEF IInv, CallsSound
  <2>3. \A q, o \in Procs : InCall(q)' /\ InCall(o)' => q = o
    BY <1>10
  <2>4. ASSUME NEW q \in Procs, call'[q].at = "spawn"
        PROVE  call'[q].child \in Procs \ {q} /\ life'[call'[q].child] # "free"
    <3>1. CASE q = p
      BY <1>3, <1>4, <1>5, <1>6, <3>1
    <3>2. CASE q = c
      BY <1>5, <2>4, <3>2, NoCallType
    <3>3. CASE q # p /\ q # c
      <4>1. call[q].child \in Procs \ {q} /\ life[call[q].child] # "free"
        BY <1>5, <2>4, <3>3 DEF IInv, CallsSound
      <4> QED
        BY <1>5, <1>6, <3>3, <4>1
    <3> QED
      BY <3>1, <3>2, <3>3
  <2>5. \A q \in Procs : call'[q].p # Null => InPipe(q)'
    BY <1>4, <1>5, NoCallType DEF IInv, CallsSound, InPipe
  <2> QED
    BY <2>1, <2>2, <2>3, <2>4, <2>5 DEF CallsSound
<1>13. ASSUME NEW f \in File
       PROVE  /\ None[f] <= Refs(f)
              /\ Refs(f)' + None[f] = Refs(f) + j[f] /\ Refs(f)' + None[f] <= Refs(f) + j[f]
  <2>1. Held1(f)' = Held1(f) + j[f]
    <3>1. \A q \in Procs, e \in FD : q # c => (Refers(q, e, f)' <=> Refers(q, e, f))
      BY <1>6 DEF Refers
    <3>2. \A e \in FD : ~Refers(c, e, f) /\ (Refers(c, e, f)' <=> fds[p][e] = f)
      BY <1>2, <1>6 DEF Refers
    <3> QED
      BY <1>1, <3>1, <3>2, RowComes
  <2>2. Held2(f)' = Held2(f)
    <3>1. \A q \in Procs : ~InHand(q, f) /\ ~InHand(q, f)'
      BY <1>9, <1>10, OutOfCall
    <3> QED
      BY <3>1, CallerMoves
  <2>3. j[f] \in Nat /\ None[f] = 0
    BY <1>1, EntriesType, NoneNat
  <2>4. PICK a, b : a = Refs(f)' /\ b = Refs(f) + j[f]
    OBVIOUS
  <2>5. a = b /\ a \in Nat
    BY <2>1, <2>2, <2>3, <2>4, RefsSplit
  <2>6. a + None[f] = b /\ a + None[f] <= b
    BY <2>3, <2>5
  <2> QED
    BY <2>3, <2>4, <2>6, RefsSplit
<1>14. RefsCounted'
  <2>1. j \in [File -> Nat]
    BY <1>1, EntriesType
  <2> QED
    BY <1>7, <1>8, <1>13, <2>1, NoneNat, RefStep DEF IInv
<1>15. EndsCounted'
  <2>1. \A q \in Procs : call'[q].p = call[q].p
    BY <1>4, <1>5, <1>9
  <2> QED
    BY <1>2, <1>7, <2>1, EndsSame DEF IInv
<1> QED
  BY <1>8, <1>11, <1>12, <1>14, <1>15 DEF IInv

\* SpawnFails keeps the invariant: counts only grow.
LEMMA SpawnFailsStep ==
  ASSUME Careful, IInv, NEW p \in Procs, NEW c \in Procs, SpawnFails(p, c)
  PROVE  IInv'
<1>1. /\ life[p] = "live" /\ call[p].at = "idle" /\ MayRun(p) /\ Races # {}
      /\ file' = Inherited(p) /\ UNCHANGED <<life, fds, pipe, call>>
  BY DEF SpawnFails, Idle
<1>2. PICK j : j = Entries(fds[p], FD)
  OBVIOUS
<1>3. /\ Released(None, j) /\ file' \in [File -> FileShape]
      /\ \A f \in File : (file'[f].used <=> file[f].used) /\ SameFile(f)
  BY <1>1, <1>2, InheritedReleased
<1>4. j \in [File -> Nat]
  BY <1>2, EntriesType
<1>5. Shapes'
  BY <1>1, <1>3 DEF IInv, Shapes
<1>6. \A q \in Procs : ~InCall(q)
  BY <1>1, NobodyInCall
<1>7. HandsSound'
  <2>1. \A q \in Procs : ~InCall(q)'
    BY <1>1, <1>6 DEF InCall
  <2> QED
    BY <2>1, OutOfCall DEF HandsSound
<1>8. CallsSound'
  BY <1>1 DEF IInv, CallsSound, InCall, InPipe
<1>9. RefsCounted'
  <2>1. ASSUME NEW f \in File
        PROVE  None[f] <= Refs(f) /\ Refs(f)' + None[f] <= Refs(f) + j[f]
    <3>1. \A q \in Procs : InHand(q, f)' <=> InHand(q, f)
      BY <1>1 DEF InHand
    <3>2. Held2(f)' = Held2(f)
      BY <3>1, CallerMoves
    <3>3. Held1(f)' = Held1(f)
      BY <1>1, TablesSame
    <3>4. j[f] \in Nat /\ None[f] = 0
      BY <1>4, NoneNat
    <3>5. PICK a, b : a = Refs(f)' /\ b = Refs(f)
      OBVIOUS
    <3>6. a = b /\ a \in Nat
      BY <3>2, <3>3, <3>5, RefsSplit
    <3> QED
      BY <3>4, <3>5, <3>6
  <2> QED
    BY <1>1, <1>3, <1>4, <1>5, <2>1, NoneNat, RefStep DEF IInv
<1>10. EndsCounted'
  BY <1>1, <1>3, EndsSame DEF IInv
<1> QED
  BY <1>5, <1>7, <1>8, <1>9, <1>10 DEF IInv

\* SpawnDone keeps the invariant.
LEMMA SpawnDoneStep ==
  ASSUME Careful, IInv, NEW p \in Procs, SpawnDone(p)
  PROVE  IInv'
<1>1. /\ life[p] = "live" /\ call[p].at = "spawn" /\ MayRun(p) /\ call' = [call EXCEPT ![p] = NoCall]
      /\ UNCHANGED <<life, fds, file, pipe>>
  BY DEF SpawnDone, Returns
<1>2. /\ call'[p] = NoCall /\ \A q \in Procs : q # p => call'[q] = call[q]
      /\ call' \in [Procs -> CallType]
  BY <1>1, NoCallType DEF IInv, Shapes
<1>3. Shapes'
  BY <1>1, <1>2 DEF IInv, Shapes
<1>4. Own(p)
  BY <1>1, <1>2, <1>3, NoCallHands DEF Own
<1>5. call[p].p = Null /\ \A f : ~InHand(p, f) /\ ~InHand(p, f)'
  BY <1>1, <1>2, NoCallHands DEF IInv, CallsSound, InPipe, InHand
<1>6. RefsCounted' /\ EndsCounted'
  BY <1>1, <1>2, <1>4, <1>5, NoCallType, NothingClaimed
<1> QED
  BY <1>3, <1>4, <1>6, OwnStep DEF IInv

\* vfs_process_cleanup empties the table of p and releases what it held.
LEMMA ClosingAll ==
  ASSUME IInv, NEW p \in Procs, Closing(p, FD), NEW k, k = Entries(fds[p], FD)
  PROVE  /\ fds' \in [Procs -> [FD -> File \cup {Null, Reserved}]]
         /\ \A e \in FD : fds'[p][e] = Null
         /\ \A q \in Procs : q # p => fds'[q] = fds[q]
         /\ k \in [File -> Nat]
         /\ file' = FilesAfter(file, k) /\ pipe' = PipesAfter(file, k)
         /\ Released(k, None) /\ file' \in [File -> FileShape]
<1>1. PICK t : t = [e \in FD |-> IF e \in FD THEN Null ELSE fds[p][e]]
  OBVIOUS
<1>2. t \in [FD -> File \cup {Null, Reserved}] /\ \A e \in FD : t[e] = Null
  BY <1>1
<1>3. fds' = [fds EXCEPT ![p] = t]
  BY <1>1 DEF Closing
<1>4. /\ fds' \in [Procs -> [FD -> File \cup {Null, Reserved}]]
      /\ fds'[p] = t /\ \A q \in Procs : q # p => fds'[q] = fds[q]
  BY <1>2, <1>3 DEF IInv, Shapes
<1>5. k \in [File -> Nat]
  BY EntriesType
<1>6. file' = FilesAfter(file, k) /\ pipe' = PipesAfter(file, k)
  BY DEF Closing
<1>7. Released(k, None) /\ file' \in [File -> FileShape]
  BY <1>5, <1>6, AfterReleased DEF IInv
<1> QED
  BY <1>2, <1>4, <1>5, <1>6, <1>7

\* The references of the table of p go, whoever else holds a file.
LEMMA ClosingRefs ==
  ASSUME IInv, NEW p \in Procs, Closing(p, FD), life[p] # "free",
         \A q \in Procs : q # p => life'[q] = life[q], NEW f \in File
  PROVE  Held1(f) = Held1(f)' + Entries(fds[p], FD)[f]
<1>1. /\ \A e \in FD : fds'[p][e] = Null
      /\ \A q \in Procs : q # p => fds'[q] = fds[q]
  BY ClosingAll
<1>2. \A q \in Procs, e \in FD : q # p => (Refers(q, e, f)' <=> Refers(q, e, f))
  BY <1>1 DEF Refers
<1>3. \A e \in FD : ~Refers(p, e, f)'
  BY <1>1, NoEntries DEF Refers
<1> QED
  BY <1>2, <1>3, RowGoes

\* What another process has in hand while p dies stays in its hand.
LEMMA OthersHands ==
  ASSUME IInv, NEW p \in Procs, NEW o \in Procs, o # p, Races # {},
         Closing(p, FD), life[p] = "live",
         \A q \in Procs : q # p => life'[q] = life[q], call'[o] = call[o]
  PROVE  HandsOf(o)'
<1>1. PICK k : k = Entries(fds[p], FD)
  OBVIOUS
<1>2. /\ \A q \in Procs : q # p => fds'[q] = fds[q]
      /\ k \in [File -> Nat] /\ file' = FilesAfter(file, k)
      /\ Released(k, None) /\ file' \in [File -> FileShape]
  BY <1>1, ClosingAll
<1>3. HandsOf(o)
  BY DEF IInv, HandsSound
<1>4. \A f \in File : ~file[f].used => ~file'[f].used
  BY <1>2 DEF Released
<1>5. ASSUME NEW f \in File, file[f].used, InHand(o, f)
      PROVE  /\ file'[f].used /\ file'[f].refcount <= file[f].refcount
             /\ New(f) => New(f)'
  <2>1. PICK a, n : a = file[f] /\ n = k[f]
    OBVIOUS
  <2>2. a \in FileShape /\ n \in Nat /\ a.refcount \in Nat
    BY <1>2, <2>1 DEF IInv, Shapes, FileShape
  <2>3. Held1(f) = Held1(f)' + n
    BY <1>1, <2>1, ClosingRefs
  <2>4. Held2(f) >= 1
    BY <1>5, RefsAtLeast
  <2>5. a.refcount >= Refs(f)
    BY <1>5, <2>1 DEF IInv, RefsCounted
  <2>6. a.refcount > n
    BY <2>2, <2>3, <2>4, <2>5, RefsSplit
  <2>7. f \notin Gone(file, k)
    BY <2>1, <2>2, <2>6 DEF Gone
  <2>8. file'[f] = [a EXCEPT !.refcount = @ - n]
    BY <1>2, <1>5, <2>1, <2>7, AfterFiles DEF IInv
  <2>9. file'[f].refcount = a.refcount - n /\ file'[f].used = a.used /\ file'[f].backend = a.backend
    BY <2>2, <2>8 DEF FileShape
  <2>10. a.refcount = 1 => n = 0
    BY <2>2, <2>6
  <2>11. file'[f].refcount <= a.refcount
    BY <2>2, <2>9
  <2>12. New(f) => New(f)'
    BY <2>1, <2>2, <2>9, <2>10 DEF New
  <2> QED
    BY <1>5, <2>1, <2>9, <2>11, <2>12
<1>6. \A f \in File : New(f) /\ InHand(o, f) => New(f)'
  BY <1>5 DEF New
<1>7. call'[o] = call[o] /\ fds'[o] = fds[o]
  BY <1>2
<1>8. /\ call'[o].at = "open.claim" => call'[o].fr \in File /\ ~file'[call'[o].fr].used
      /\ call'[o].at = "pipe.first" /\ call'[o].fr \in File => ~file'[call'[o].fr].used
      /\ call'[o].at = "pipe.second" /\ call'[o].fw \in File => ~file'[call'[o].fw].used
  BY <1>3, <1>4, <1>7 DEF HandsOf
<1>9. call'[o].at = "open.fill" => call'[o].fr \in File /\ New(call[o].fr)'
  <2> HAVE call'[o].at = "open.fill"
  <2>1. call[o].fr \in File /\ New(call[o].fr) /\ InHand(o, call[o].fr)
    BY <1>3, <1>7 DEF HandsOf, InHand
  <2> QED
    BY <1>6, <1>7, <2>1 DEF New
<1>10. call'[o].at \in {"pipe.second", "pipe.fill"} /\ call'[o].fr \in File => New(call[o].fr)'
  <2> HAVE call'[o].at \in {"pipe.second", "pipe.fill"} /\ call'[o].fr \in File
  <2>1. call[o].fr \in File /\ New(call[o].fr) /\ InHand(o, call[o].fr)
    BY <1>3, <1>7 DEF HandsOf, InHand
  <2> QED
    BY <1>6, <1>7, <2>1 DEF New
<1>11. call'[o].at = "pipe.fill" /\ call'[o].fw \in File => New(call[o].fw)' /\ call'[o].fr # call'[o].fw
  <2> HAVE call'[o].at = "pipe.fill" /\ call'[o].fw \in File
  <2>1. /\ call[o].fw \in File /\ New(call[o].fw) /\ InHand(o, call[o].fw)
        /\ call[o].fr # call[o].fw
    BY <1>3, <1>7 DEF HandsOf, InHand
  <2> QED
    BY <1>6, <1>7, <2>1 DEF New
<1>12. call'[o].at = "close" => /\ call'[o].fr \in File /\ file'[call'[o].fr].used
                               /\ call'[o].loaded >= file'[call'[o].fr].refcount
  <2> HAVE call'[o].at = "close"
  <2>1. PICK f, n : f = call[o].fr /\ n = call[o].loaded
    OBVIOUS
  <2>2. f \in File /\ file[f].used /\ n >= file[f].refcount /\ InHand(o, f)
    BY <1>3, <1>7, <2>1 DEF HandsOf, InHand
  <2>3. n \in Nat /\ file[f].refcount \in Nat /\ file'[f].refcount \in Nat
    BY <1>2, <2>1, <2>2 DEF IInv, Shapes, CallType, FileShape
  <2>4. file'[f].used /\ file'[f].refcount <= file[f].refcount
    BY <1>5, <2>2
  <2>5. n >= file'[f].refcount
    BY <2>2, <2>3, <2>4
  <2> QED
    BY <1>7, <2>1, <2>2, <2>4, <2>5
<1>13. InPipe(o)' => /\ call'[o].fd_r \in FD /\ fds'[o][call'[o].fd_r] = Reserved
                     /\ call'[o].fd_w \in FD /\ fds'[o][call'[o].fd_w] = Reserved
                     /\ call'[o].fd_r # call'[o].fd_w
  BY <1>3, <1>7 DEF HandsOf, InPipe
<1> QED
  BY <1>8, <1>9, <1>10, <1>11, <1>12, <1>13 DEF HandsOf

\* Die keeps the invariant: what a killed process had in hand stays counted.
LEMMA DieStep ==
  ASSUME Careful, IInv, NEW p \in Procs, Die(p)
  PROVE  IInv'
<1>1. /\ life[p] = "live" /\ life' = [life EXCEPT ![p] = "zombie"] /\ Closing(p, FD)
      /\ call' = [call EXCEPT ![p] = NoCall]
      /\ Races = {} => call[p].at \in {"idle", "spawn"} /\ MayRun(p)
  BY DEF Die, Returns
<1>2. PICK k : k = Entries(fds[p], FD)
  OBVIOUS
<1>3. /\ fds' \in [Procs -> [FD -> File \cup {Null, Reserved}]]
      /\ \A e \in FD : fds'[p][e] = Null
      /\ \A q \in Procs : q # p => fds'[q] = fds[q]
      /\ k \in [File -> Nat] /\ pipe' = PipesAfter(file, k)
      /\ Released(k, None) /\ file' \in [File -> FileShape]
  BY <1>1, <1>2, ClosingAll
<1>4. /\ life' \in [Procs -> {"free", "live", "zombie"}] /\ life'[p] = "zombie"
      /\ \A q \in Procs : q # p => life'[q] = life[q]
      /\ call' \in [Procs -> CallType] /\ call'[p] = NoCall
      /\ \A q \in Procs : q # p => call'[q] = call[q]
  BY <1>1, NoCallType DEF IInv, Shapes
<1>5. Races = {} => /\ call[p].p = Null /\ \A f : ~InHand(p, f)
                    /\ \A q \in Procs : ~InCall(q)
  BY <1>1, NobodyInCall DEF IInv, CallsSound, InPipe, InHand
<1>6. EndsCounted' /\ pipe' \in [Pipe -> PipeType]
  <2>1. \A q \in Procs : \/ call'[q].p = call[q].p
                         \/ call'[q].p = Null /\ (Races = {} => call[q].p = Null)
    BY <1>4, <1>5, NoCallType
  <2> QED
    BY <1>3, <2>1, EndsRelease DEF IInv
<1>7. Shapes'
  BY <1>3, <1>4, <1>6 DEF IInv, Shapes
<1>8. HandsSound'
  <2> SUFFICES ASSUME NEW o \in Procs PROVE HandsOf(o)'
    BY DEF HandsSound
  <2>1. CASE o = p
    BY <1>4, <2>1, NoCallHands
  <2>2. CASE o # p /\ Races = {}
    <3>1. ~InCall(o)'
      BY <1>4, <1>5, <2>2 DEF InCall
    <3> QED
      BY <3>1, OutOfCall
  <2>3. CASE o # p /\ Races # {}
    BY <1>1, <1>4, <2>3, OthersHands
  <2> QED
    BY <2>1, <2>2, <2>3
<1>9. CallsSound'
  <2>1. \A q \in Procs : life'[q] # "live" => call'[q] = NoCall
    BY <1>4 DEF IInv, CallsSound
  <2>2. \A q \in Procs : life'[q] = "free" => \A e \in FD : fds'[q][e] = Null
    BY <1>3, <1>4 DEF IInv, CallsSound
  <2>3. \A q, o \in Procs : InCall(q)' /\ InCall(o)' => q = o
    <3>1. \A q \in Procs : InCall(q)' => q # p /\ InCall(q)
      BY <1>4, NoCallHands DEF InCall
    <3> QED
      BY <3>1 DEF IInv, CallsSound
  <2>4. ASSUME NEW q \in Procs, call'[q].at = "spawn"
        PROVE  call'[q].child \in Procs \ {q} /\ life'[call'[q].child] # "free"
    <3>1. q # p /\ call'[q] = call[q]
      BY <1>4, <2>4, NoCallType
    <3>2. call[q].child \in Procs \ {q} /\ life[call[q].child] # "free"
      BY <2>4, <3>1 DEF IInv, CallsSound
    <3>3. life'[call[q].child] # "free"
      BY <1>4, <3>2
    <3> QED
      BY <3>1, <3>2, <3>3
  <2>5. \A q \in Procs : call'[q].p # Null => InPipe(q)'
    BY <1>4, NoCallType DEF IInv, CallsSound, InPipe
  <2> QED
    BY <2>1, <2>2, <2>3, <2>4, <2>5 DEF CallsSound
<1>10. ASSUME NEW f \in File
       PROVE  /\ k[f] <= Refs(f)
              /\ Refs(f)' + k[f] <= Refs(f) + None[f]
              /\ Races = {} => Refs(f)' + k[f] = Refs(f) + None[f]
  <2>1. Held1(f) = Held1(f)' + k[f]
    BY <1>1, <1>2, <1>4, ClosingRefs
  <2>2. /\ ~InHand(p, f)' /\ \A q \in Procs : q # p => (InHand(q, f)' <=> InHand(q, f))
    BY <1>4, NoCallHands DEF InHand
  <2>3. Held2(f) = Held2(f)' \/ Held2(f) = Held2(f)' + 1
    BY <2>2, CallerMoves
  <2>4. Races = {} => Held2(f) = Held2(f)'
    BY <1>5, <2>2, CallerMoves
  <2>5. k[f] \in Nat /\ None[f] = 0
    BY <1>3, NoneNat
  <2>6. k[f] <= Refs(f)
    BY <2>1, <2>5, RefsSplit
  <2>7. Refs(f)' + k[f] <= Refs(f) + None[f]
    BY <2>1, <2>3, <2>5, RefsSplit
  <2>8. Races = {} => Refs(f)' + k[f] = Refs(f) + None[f]
    BY <2>1, <2>4, <2>5, RefsSplit
  <2> QED
    BY <2>6, <2>7, <2>8
<1>11. RefsCounted'
  BY <1>3, <1>7, <1>10, NoneNat, RefStep DEF IInv
<1> QED
  BY <1>6, <1>7, <1>8, <1>9, <1>11 DEF IInv

\* Reap keeps the invariant: what a clone gave the dead process goes with it.
LEMMA ReapStep ==
  ASSUME Careful, IInv, NEW p \in Procs, Reap(p)
  PROVE  IInv'
<1>1. /\ life[p] = "zombie" /\ MayRun(p) /\ life' = [life EXCEPT ![p] = "free"] /\ Closing(p, FD)
      /\ call' = call /\ \A q \in Procs : life[q] = "live" => call[q].child # p
  BY DEF Reap
<1>2. PICK k : k = Entries(fds[p], FD)
  OBVIOUS
<1>3. /\ fds' \in [Procs -> [FD -> File \cup {Null, Reserved}]]
      /\ \A e \in FD : fds'[p][e] = Null
      /\ \A q \in Procs : q # p => fds'[q] = fds[q]
      /\ k \in [File -> Nat] /\ pipe' = PipesAfter(file, k)
      /\ Released(k, None) /\ file' \in [File -> FileShape]
  BY <1>1, <1>2, ClosingAll
<1>4. /\ life' \in [Procs -> {"free", "live", "zombie"}] /\ life'[p] = "free"
      /\ \A q \in Procs : q # p => life'[q] = life[q]
  BY <1>1 DEF IInv, Shapes
<1>5. call[p] = NoCall /\ \A q \in Procs : ~InCall(q)
  <2>1. call[p] = NoCall
    BY <1>1 DEF IInv, CallsSound
  <2> QED
    BY <1>1, <2>1, NoCallType, NobodyInCall
<1>6. EndsCounted' /\ pipe' \in [Pipe -> PipeType]
  BY <1>1, <1>3, EndsRelease DEF IInv
<1>7. Shapes'
  BY <1>1, <1>3, <1>4, <1>6 DEF IInv, Shapes
<1>8. \A q \in Procs : ~InCall(q)'
  BY <1>1, <1>5 DEF InCall
<1>9. HandsSound'
  BY <1>8, OutOfCall DEF HandsSound
<1>10. CallsSound'
  <2>1. \A q \in Procs : life'[q] # "live" => call'[q] = NoCall
    BY <1>1, <1>4, <1>5 DEF IInv, CallsSound
  <2>2. \A q \in Procs : life'[q] = "free" => \A e \in FD : fds'[q][e] = Null
    BY <1>3, <1>4 DEF IInv, CallsSound
  <2>3. \A q, o \in Procs : InCall(q)' /\ InCall(o)' => q = o
    BY <1>8
  <2>4. ASSUME NEW q \in Procs, call'[q].at = "spawn"
        PROVE  call'[q].child \in Procs \ {q} /\ life'[call'[q].child] # "free"
    <3>1. call[q].child \in Procs \ {q} /\ life[call[q].child] # "free"
      BY <1>1, <2>4 DEF IInv, CallsSound
    <3>2. life[q] = "live"
      BY <1>1, <2>4, NoCallType DEF IInv, CallsSound
    <3>3. call[q].child # p
      BY <1>1, <3>2
    <3> QED
      BY <1>1, <1>4, <3>1, <3>3
  <2>5. \A q \in Procs : call'[q].p # Null => InPipe(q)'
    BY <1>1 DEF IInv, CallsSound, InPipe
  <2> QED
    BY <2>1, <2>2, <2>3, <2>4, <2>5 DEF CallsSound
<1>11. ASSUME NEW f \in File
       PROVE  /\ k[f] <= Refs(f)
              /\ Refs(f)' + k[f] <= Refs(f) + None[f]
              /\ Races = {} => Refs(f)' + k[f] = Refs(f) + None[f]
  <2>1. Held1(f) = Held1(f)' + k[f]
    BY <1>1, <1>2, <1>4, ClosingRefs
  <2>2. Held2(f) = Held2(f)'
    <3>1. \A q \in Procs : InHand(q, f)' <=> InHand(q, f)
      BY <1>1 DEF InHand
    <3> QED
      BY <3>1, CallerMoves
  <2>3. k[f] \in Nat /\ None[f] = 0
    BY <1>3, NoneNat
  <2>4. k[f] <= Refs(f)
    BY <2>1, <2>3, RefsSplit
  <2>5. Refs(f)' + k[f] <= Refs(f) + None[f]
    BY <2>1, <2>2, <2>3, RefsSplit
  <2>6. Races = {} => Refs(f)' + k[f] = Refs(f) + None[f]
    BY <2>1, <2>2, <2>3, RefsSplit
  <2> QED
    BY <2>4, <2>5, <2>6
<1>12. RefsCounted'
  BY <1>3, <1>7, <1>11, NoneNat, RefStep DEF IInv
<1> QED
  BY <1>6, <1>7, <1>9, <1>10, <1>12 DEF IInv

----------------------------------------------------------------------------
(* The invariant *)

\* It holds at boot.
LEMMA IInvInit == Init => IInv
<1> SUFFICES ASSUME Init PROVE IInv
  OBVIOUS
<1>1. FreeFile \in FileShape /\ ~FreeFile.used
  BY DEF FreeFile, FileShape, Ends
<1>2. FreePipe \in PipeType /\ ~FreePipe.used /\ FreePipe.readers = 0 /\ FreePipe.writers = 0
  BY DEF FreePipe, PipeType
<1>3. /\ \A p \in Procs : call[p] = NoCall /\ \A e \in FD : fds[p][e] = Null
      /\ \A f \in File : file[f] = FreeFile
      /\ \A q \in Pipe : pipe[q] = FreePipe
  BY DEF Init, Empty
<1>4. Shapes
  <2>1. Empty \in [FD -> File \cup {Null, Reserved}]
    BY DEF Empty
  <2> QED
    BY <1>1, <1>2, <2>1, NoCallType DEF Init, Shapes
<1>5. \A p \in Procs : ~InCall(p) /\ ~InPipe(p) /\ call[p].at # "spawn" /\ call[p].p = Null
  BY <1>3, NoCallType DEF InCall, InPipe
<1>6. CallsSound
  BY <1>3, <1>5 DEF CallsSound
<1>7. HandsSound
  BY <1>5, OutOfCall DEF HandsSound
<1>8. RefsCounted
  <2> SUFFICES ASSUME NEW f \in File PROVE ~file[f].used /\ Refs(f) = 0
    BY DEF RefsCounted
  <2>1. Holders(f) = {}
    <3>1. \A h \in Procs \X FD : fds[h[1]][h[2]] # f
      BY <1>3, NoEntries
    <3> QED
      BY <3>1 DEF Holders
  <2>2. Callers(f) = {}
    BY <1>3, NoCallType DEF Callers
  <2> QED
    BY <1>1, <1>3, <2>1, <2>2, FS_EmptySet DEF Refs
<1>9. EndsCounted
  <2>1. \A f \in File : ~file[f].used
    BY <1>1, <1>3
  <2>2. \A f \in File : \A q, e : ~HasEnd(f, q, e)
    BY <2>1 DEF HasEnd
  <2>3. \A q, e : ~Opened(q, e)
    BY <2>2 DEF Opened
  <2> QED
    BY <1>2, <1>3, <1>5, <2>1, <2>2, <2>3 DEF EndsCounted
<1> QED
  BY <1>4, <1>6, <1>7, <1>8, <1>9 DEF IInv

\* A step that changes nothing keeps it.
LEMMA IInvStutter ==
  ASSUME IInv, UNCHANGED vars
  PROVE  IInv'
<1>1. life' = life /\ fds' = fds /\ file' = file /\ pipe' = pipe /\ call' = call
  BY DEF vars
<1>2. Shapes' /\ CallsSound'
  BY <1>1 DEF IInv, Shapes, CallsSound, InCall, InPipe
<1>3. HandsSound'
  BY <1>1 DEF IInv, HandsSound, HandsOf, InPipe, New
<1>4. \A f : Holders(f)' = Holders(f) /\ Callers(f)' = Callers(f)
  BY <1>1 DEF Holders, Callers
<1>5. RefsCounted'
  BY <1>1, <1>4 DEF IInv, RefsCounted, Refs
<1>6. EndsCounted'
  BY <1>1, EndsSame DEF IInv, SameFile
<1> QED
  BY <1>2, <1>3, <1>5, <1>6 DEF IInv

\* Every step keeps it.
LEMMA IInvStep ==
  ASSUME Careful, IInv, [Next]_vars
  PROVE  IInv'
<1>1. ASSUME NEW p \in Procs,
             \/ OpenScan(p) \/ OpenClaim(p) \/ OpenInstall(p) \/ OpenBackOut(p)
             \/ CloseRelease(p)
             \/ PipeReserve(p) \/ PipeFirst(p) \/ PipeSecond(p) \/ PipeInstall(p) \/ PipeBackOut(p)
             \/ SpawnDone(p) \/ Die(p) \/ Reap(p)
      PROVE  IInv'
  BY <1>1, OpenScanStep, OpenClaimStep, OpenInstallStep, OpenBackOutStep, CloseReleaseStep,
     PipeReserveStep, PipeFirstStep, PipeSecondStep, PipeInstallStep, PipeBackOutStep,
     SpawnDoneStep, DieStep, ReapStep
<1>2. ASSUME NEW p \in Procs, NEW fd \in FD, CloseEntry(p, fd) \/ Dup(p, fd)
      PROVE  IInv'
  BY <1>2, CloseEntryStep, DupStep
<1>3. ASSUME NEW p \in Procs, NEW a \in FD, NEW b \in FD, Dup2(p, a, b) \/ CloneFd(p, a, b)
      PROVE  IInv'
  BY <1>3, Dup2Step, CloneFdStep
<1>4. ASSUME NEW p \in Procs, NEW c \in Procs, Spawn(p, c) \/ SpawnFails(p, c)
      PROVE  IInv'
  BY <1>4, SpawnStep, SpawnFailsStep
<1>5. CASE UNCHANGED vars
  BY <1>5, IInvStutter
<1> QED
  BY <1>1, <1>2, <1>3, <1>4, <1>5 DEF Next

\* The invariant, for every number of processes, descriptors, files and pipes.
LEMMA IInvAlways ==
  ASSUME Careful
  PROVE  Spec => []IInv
<1>1. IInv /\ [Next]_vars => IInv'
  BY IInvStep
<1> QED
  BY <1>1, IInvInit, PTL DEF Spec

----------------------------------------------------------------------------
(* The theorems *)

\* While nobody has a pipe's file in hand, an end of the pipe is open exactly if
\* a descriptor of it is.
LEMMA HeldIsOpened ==
  ASSUME IInv, NEW q \in Pipe, NEW e \in Ends
  PROVE  /\ Held(q, e) => Opened(q, e)
         /\ Races = {} /\ Quiet(q) /\ Opened(q, e) => Held(q, e)
<1>1. ASSUME Held(q, e) PROVE Opened(q, e)
  <2>1. PICK p \in Procs, fd \in FD :
          /\ life[p] # "free" /\ fds[p][fd] \in File
          /\ file[fds[p][fd]].backend = "pipe" /\ file[fds[p][fd]].pipe = q
          /\ e \in file[fds[p][fd]].ends
    BY <1>1 DEF Held
  <2>2. PICK f : f = fds[p][fd]
    OBVIOUS
  <2>3. f \in File /\ Refers(p, fd, f)
    BY <2>1, <2>2 DEF Refers
  <2>4. file[f].used
    BY <2>3, EntryUsed
  <2> QED
    BY <2>1, <2>2, <2>3, <2>4 DEF Opened, HasEnd
<1>2. ASSUME Quiet(q), Opened(q, e), Races = {} PROVE Held(q, e)
  <2>1. PICK f \in File : HasEnd(f, q, e)
    BY <1>2 DEF Opened
  <2>2. file[f].used /\ file[f].backend = "pipe" /\ file[f].pipe = q /\ e \in file[f].ends
    BY <2>1 DEF HasEnd
  <2>3. file[f].refcount >= 1 /\ file[f].refcount = Refs(f)
    BY <1>2, <2>2 DEF IInv, RefsCounted
  <2>4. \A p \in Procs : ~InHand(p, f)
    <3> SUFFICES ASSUME NEW p \in Procs, InHand(p, f) PROVE FALSE
      OBVIOUS
    <3>1. HandsOf(p) /\ ~New(f)
      BY <2>2 DEF IInv, HandsSound, New
    <3>2. call[p].at = "close" /\ call[p].fr = f
      BY <3>1 DEF InHand, HandsOf
    <3> QED
      BY <1>2, <2>2, <3>2 DEF Quiet
  <2>5. Callers(f) = {}
    BY <2>4 DEF Callers, InHand
  <2>6. Held2(f) = 0
    BY <2>5, FS_EmptySet DEF Held2
  <2>7. Held1(f) >= 1
    BY <2>3, <2>6, RefsSplit
  <2>8. Holders(f) # {}
    BY <2>7, FS_EmptySet DEF Held1
  <2>9. PICK h \in Procs \X FD : life[h[1]] # "free" /\ fds[h[1]][h[2]] = f
    BY <2>8 DEF Holders
  <2>10. h[1] \in Procs /\ h[2] \in FD
    OBVIOUS
  <2> QED
    BY <2>2, <2>9, <2>10 DEF Held
<1> QED
  BY <1>1, <1>2

\* CountsExact: when nobody is preempted or killed inside a call and no spawn fails
\* half way, refcount is the number of references and a pipe's ends are counted
\* exactly while a descriptor holds them (file_release, fs/vfs.c).
THEOREM CountsAlwaysExact ==
  ASSUME Races = {}
  PROVE  Spec => []CountsExact
<1>1. Careful
  BY DEF Careful
<1>2. IInv => CountsExact
  <2> SUFFICES ASSUME IInv PROVE RefCountsExact /\ HangupIsExact
    BY DEF CountsExact
  <2>1. RefCountsExact
    BY DEF IInv, RefsCounted, RefCountsExact
  <2>2. ASSUME NEW q \in Pipe, Quiet(q)
        PROVE  /\ pipe[q].readers > 0 <=> Held(q, "r")
               /\ pipe[q].writers > 0 <=> Held(q, "w")
               /\ pipe[q].used <=> Held(q, "r") \/ Held(q, "w")
    <3>1. (Opened(q, "r") <=> Held(q, "r")) /\ (Opened(q, "w") <=> Held(q, "w"))
      BY <2>2, HeldIsOpened DEF Ends
    <3>2. /\ pipe[q].readers = (IF Opened(q, "r") THEN 1 ELSE 0)
          /\ pipe[q].writers = (IF Opened(q, "w") THEN 1 ELSE 0)
          /\ Opened(q, "r") \/ Opened(q, "w") => pipe[q].used
          /\ pipe[q].used =>
               Opened(q, "r") \/ Opened(q, "w") \/ \E p \in Procs : call[p].p = q
      BY <2>2 DEF IInv, EndsCounted
    <3>3. ~\E p \in Procs : call[p].p = q
      BY <2>2 DEF Quiet
    <3>4. pipe[q].readers > 0 <=> Held(q, "r")
      BY <3>1, <3>2
    <3>5. pipe[q].writers > 0 <=> Held(q, "w")
      BY <3>1, <3>2
    <3>6. pipe[q].used <=> Held(q, "r") \/ Held(q, "w")
      BY <3>1, <3>2, <3>3
    <3> QED
      BY <3>4, <3>5, <3>6
  <2> QED
    BY <2>1, <2>2 DEF HangupIsExact
<1> QED
  BY <1>1, <1>2, IInvAlways, PTL

\* KillSafe: where processes may be killed inside calls and spawns may fail half way,
\* no descriptor refers to a released file, no count is below the number of
\* descriptors, and no hangup comes early (vfs_process_cleanup, fs/vfs.c).
THEOREM KillAlwaysSafe ==
  ASSUME Careful
  PROVE  Spec => []KillSafe
<1>1. IInv => KillSafe
  <2> SUFFICES ASSUME IInv PROVE NoDanglingFd /\ HangupNeverEarly
    BY DEF KillSafe
  <2>1. ASSUME NEW f \in File, Holders(f) # {}
        PROVE  file[f].used /\ file[f].refcount >= Cardinality(Holders(f))
    <3>1. PICK h \in Procs \X FD : life[h[1]] # "free" /\ fds[h[1]][h[2]] = f
      BY <2>1 DEF Holders
    <3>2. h[1] \in Procs /\ h[2] \in FD /\ Refers(h[1], h[2], f)
      BY <3>1 DEF Refers
    <3>3. file[f].used
      BY <3>2, EntryUsed
    <3>4. file[f].refcount >= Refs(f) /\ file[f].refcount \in Nat
      BY <3>3 DEF IInv, RefsCounted, Shapes, FileShape
    <3>5. file[f].refcount >= Held1(f)
      BY <3>4, RefsSplit
    <3> QED
      BY <3>3, <3>5 DEF Held1
  <2>2. ASSUME NEW q \in Pipe
        PROVE  /\ Held(q, "r") => pipe[q].used /\ pipe[q].readers > 0
               /\ Held(q, "w") => pipe[q].used /\ pipe[q].writers > 0
    <3>1. (Held(q, "r") => Opened(q, "r")) /\ (Held(q, "w") => Opened(q, "w"))
      BY HeldIsOpened DEF Ends
    <3> QED
      BY <3>1 DEF IInv, EndsCounted
  <2> QED
    BY <2>1, <2>2 DEF NoDanglingFd, HangupNeverEarly
<1> QED
  BY <1>1, IInvAlways, PTL

\* A file in a table is not in a call's hand as a new one, nor up to be claimed.
LEMMA HeldNotNew ==
  ASSUME IInv, NEW p \in Procs, NEW fd \in FD, NEW f \in File, Refers(p, fd, f)
  PROVE  file[f].used /\ \A q \in Procs : InHand(q, f) => ~New(f)
<1>1. file[f].used
  BY EntryUsed
<1>2. ASSUME NEW q \in Procs, InHand(q, f), New(f) PROVE FALSE
  <2>1. Held1(f) >= 1 /\ Held2(f) >= 1
    BY <1>2, RefsAtLeast
  <2>2. file[f].refcount = 1 /\ file[f].refcount >= Refs(f)
    BY <1>1, <1>2 DEF IInv, RefsCounted, New
  <2> QED
    BY <2>1, <2>2, RefsSplit
<1> QED
  BY <1>1, <1>2

\* A file that is released, or shared once more, is the same file until it goes.
LEMMA ReleasedKeeps ==
  ASSUME NEW k, NEW j, Released(k, j), NEW f \in File, file'[f].used
  PROVE  SameFile(f)
BY DEF Released

\* A step of vfs_open_flags, vfs_close or vfs_pipe leaves the files of the tables alone.
LEMMA CallKeepsFile ==
  ASSUME Careful, IInv, NEW o \in Procs,
         NEW p \in Procs, NEW fd \in FD, NEW f \in File, Refers(p, fd, f), file'[f].used,
         \/ OpenClaim(o) \/ OpenInstall(o) \/ OpenBackOut(o) \/ CloseRelease(o)
         \/ PipeFirst(o) \/ PipeSecond(o) \/ PipeInstall(o) \/ PipeBackOut(o)
  PROVE  SameFile(f)
<1>1. file[f].used /\ \A q \in Procs : InHand(q, f) => ~New(f)
  BY HeldNotNew
<1>2. HandsOf(o) /\ Shapes /\ file \in [File -> FileShape] /\ call[o] \in CallType
  BY DEF IInv, HandsSound, Shapes
<1>3. ASSUME NEW g \in File \cup {Null}, file' = Claimed(file, g), g \in File => ~file[g].used
      PROVE  SameFile(f)
  <2>1. f # g
    BY <1>1, <1>3
  <2>2. file'[f] = file[f]
    BY <1>2, <1>3, <2>1, ClaimedShape DEF Claimed
  <2> QED
    BY <2>2 DEF SameFile
<1>4. ASSUME NEW k \in [File -> Nat], file' = FilesAfter(file, k) PROVE SameFile(f)
  BY <1>2, <1>4, AfterReleased, ReleasedKeeps
<1>5. CASE OpenClaim(o)
  <2>1. call[o].fr \in File /\ ~file[call[o].fr].used /\ file' = Claimed(file, call[o].fr)
    BY <1>2, <1>5 DEF OpenClaim, HandsOf
  <2> QED
    BY <1>3, <2>1
<1>6. CASE PipeFirst(o)
  <2>1. /\ call[o].fr \in File \cup {Null} /\ file' = Claimed(file, call[o].fr)
        /\ call[o].fr \in File => ~file[call[o].fr].used
    BY <1>2, <1>6 DEF PipeFirst, HandsOf, CallType
  <2> QED
    BY <1>3, <2>1
<1>7. CASE PipeSecond(o)
  <2>1. /\ call[o].fw \in File \cup {Null} /\ file' = Claimed(file, call[o].fw)
        /\ call[o].fw \in File => ~file[call[o].fw].used
    BY <1>2, <1>7 DEF PipeSecond, HandsOf, CallType
  <2> QED
    BY <1>3, <2>1
<1>8. CASE OpenInstall(o)
  <2>1. /\ call[o].fr \in File /\ New(call[o].fr) /\ InHand(o, call[o].fr)
        /\ file' = [file EXCEPT ![call[o].fr].backend = "regular"]
    BY <1>2, <1>8 DEF OpenInstall, HandsOf, InHand
  <2>2. f # call[o].fr
    BY <1>1, <2>1
  <2> QED
    BY <1>2, <2>1, <2>2 DEF SameFile
<1>9. CASE OpenBackOut(o)
  BY <1>4, <1>9, OnceNat DEF OpenBackOut
<1>10. CASE CloseRelease(o)
  <2>1. PICK g, n : g = call[o].fr /\ n = call[o].loaded
    OBVIOUS
  <2>2. g \in File
    BY <1>2, <1>10, <2>1 DEF CloseRelease, HandsOf
  <2>3. CASE f # g
    <3>1. CASE n > 1
      BY <1>2, <1>10, <2>1, <2>2, <2>3, <3>1 DEF CloseRelease, SameFile
    <3>2. CASE ~(n > 1)
      <4>1. PICK F : F = [file EXCEPT ![g].refcount = 1]
        OBVIOUS
      <4>2. file' = FilesAfter(F, Once(g))
        BY <1>10, <2>1, <3>2, <4>1 DEF CloseRelease
      <4>3. F[f] = file[f] /\ Once(g)[f] = 0
        BY <1>2, <2>2, <2>3, <4>1, OnceNat
      <4>4. f \notin Gone(F, Once(g))
        BY <4>3 DEF Gone
      <4>5. PICK a : a = file[f]
        OBVIOUS
      <4>6. file'[f] = IF a.used THEN [a EXCEPT !.refcount = @ - 0] ELSE a
        BY <4>2, <4>3, <4>4, <4>5 DEF FilesAfter
      <4>7. a \in FileShape
        BY <1>2, <4>5
      <4>8. file'[f].backend = a.backend /\ file'[f].pipe = a.pipe /\ file'[f].ends = a.ends
        BY <4>6, <4>7 DEF FileShape
      <4> QED
        BY <4>5, <4>8 DEF SameFile
    <3> QED
      BY <3>1, <3>2
  <2>4. CASE f = g
    <3>1. /\ n \in Nat /\ n >= file[g].refcount /\ file[g] \in FileShape
          /\ call[o].at = "close" /\ InHand(o, g)
      BY <1>2, <1>10, <2>1, <2>2 DEF CloseRelease, HandsOf, CallType, InHand
    <3>2. Held1(g) >= 1 /\ Held2(g) >= 1
      BY <2>4, <3>1, RefsAtLeast
    <3>3. file[g].refcount >= Refs(g) /\ file[g].refcount \in Nat
      BY <1>1, <2>4, <3>1 DEF IInv, RefsCounted, FileShape
    <3>4. n > 1
      BY <3>1, <3>2, <3>3, RefsSplit
    <3>5. PICK m : m = n - 1
      OBVIOUS
    <3>6. file' = [file EXCEPT ![g].refcount = m]
      BY <1>10, <2>1, <3>4, <3>5 DEF CloseRelease
    <3>7. PICK a, r : a = file[g] /\ r = [a EXCEPT !.refcount = m]
      OBVIOUS
    <3>8. file' = [file EXCEPT ![g] = r]
      BY <3>6, <3>7
    <3>9. file'[g] = r
      BY <1>2, <2>2, <3>8
    <3>10. r.backend = a.backend /\ r.pipe = a.pipe /\ r.ends = a.ends
      BY <3>1, <3>7 DEF FileShape
    <3> QED
      BY <2>4, <3>7, <3>9, <3>10 DEF SameFile
  <2> QED
    BY <2>3, <2>4
<1>11. CASE PipeInstall(o)
  <2>1. PICK g, h, q, F : /\ g = call[o].fr /\ h = call[o].fw /\ q = call[o].p
                          /\ F = PipeEnd(file, g, q, "r")
    OBVIOUS
  <2>2. /\ call[o].at = "pipe.fill" /\ g \in File /\ h \in File /\ q \in Pipe
        /\ file' = PipeEnd(F, h, q, "w")
    BY <1>2, <1>11, <2>1 DEF PipeInstall, CallType
  <2>3. New(g) /\ New(h) /\ InHand(o, g) /\ InHand(o, h)
    BY <1>2, <2>1, <2>2 DEF HandsOf, InHand
  <2>4. f # g /\ f # h
    BY <1>1, <2>3
  <2>5. F \in [File -> FileShape] /\ F[f] = file[f]
    BY <1>2, <2>1, <2>2, <2>4, EndShape DEF Ends
  <2>6. file'[f] = F[f]
    BY <2>2, <2>4, <2>5, EndShape DEF Ends
  <2> QED
    BY <2>5, <2>6 DEF SameFile
<1>12. CASE PipeBackOut(o)
  <2>1. PICK k : k = [g \in File |-> IF g \in {call[o].fr, call[o].fw} THEN 1 ELSE 0]
    OBVIOUS
  <2>2. k \in [File -> Nat] /\ file' = FilesAfter(file, k)
    BY <1>12, <2>1 DEF PipeBackOut
  <2> QED
    BY <1>4, <2>2
<1> QED
  BY <1>5, <1>6, <1>7, <1>8, <1>9, <1>10, <1>11, <1>12

\* Nor does a step that shares files or releases whole tables.
LEMMA TableKeepsFile ==
  ASSUME Careful, IInv, NEW o \in Procs, NEW f \in File, file'[f].used,
         \/ \E a \in FD : Dup(o, a)
         \/ \E a, b \in FD : Dup2(o, a, b) \/ CloneFd(o, a, b)
         \/ \E c \in Procs : Spawn(o, c) \/ SpawnFails(o, c)
         \/ Die(o) \/ Reap(o)
  PROVE  SameFile(f)
<1>1. Shapes /\ file \in [File -> FileShape]
  BY DEF IInv, Shapes
<1>2. ASSUME NEW F \in [File -> FileShape], NEW g \in File, file' = [F EXCEPT ![g].refcount = @ + 1]
      PROVE  /\ file'[f].used = F[f].used /\ file'[f].backend = F[f].backend
             /\ file'[f].pipe = F[f].pipe /\ file'[f].ends = F[f].ends
  <2>1. PICK a, r : a = F[g] /\ r = [a EXCEPT !.refcount = @ + 1]
    OBVIOUS
  <2>2. file' = [F EXCEPT ![g] = r]
    BY <1>2, <2>1
  <2>3. a \in FileShape
    BY <1>2, <2>1
  <2>4. r.used = a.used /\ r.backend = a.backend /\ r.pipe = a.pipe /\ r.ends = a.ends
    BY <2>1, <2>3 DEF FileShape
  <2>5. file'[f] = IF f = g THEN r ELSE F[f]
    BY <2>2
  <2>6. CASE f = g
    BY <2>1, <2>4, <2>5, <2>6
  <2>7. CASE f # g
    BY <2>5, <2>7
  <2> QED
    BY <2>6, <2>7
<1>3. ASSUME NEW k \in [File -> Nat], NEW g \in File,
             file' = [FilesAfter(file, k) EXCEPT ![g].refcount = @ + 1]
      PROVE  SameFile(f)
  <2>1. PICK F : F = FilesAfter(file, k)
    OBVIOUS
  <2>2. /\ F \in [File -> FileShape]
        /\ f \in Gone(file, k) => ~F[f].used
        /\ ~file[f].used => ~F[f].used
        /\ file[f].used /\ f \notin Gone(file, k) => F[f] = [file[f] EXCEPT !.refcount = @ - k[f]]
    BY <1>1, <1>3, <2>1, AfterFiles
  <2>3. /\ file'[f].used = F[f].used /\ file'[f].backend = F[f].backend
        /\ file'[f].pipe = F[f].pipe /\ file'[f].ends = F[f].ends
    BY <1>2, <1>3, <2>1, <2>2
  <2>4. F[f] = [file[f] EXCEPT !.refcount = @ - k[f]]
    BY <2>2, <2>3
  <2>5. PICK a, n : a = file[f] /\ n = a.refcount - k[f]
    OBVIOUS
  <2>6. a \in FileShape /\ F[f] = [a EXCEPT !.refcount = n]
    BY <1>1, <2>4, <2>5
  <2>7. F[f].backend = a.backend /\ F[f].pipe = a.pipe /\ F[f].ends = a.ends
    BY <2>6 DEF FileShape
  <2> QED
    BY <2>3, <2>5, <2>7 DEF SameFile
<1>4. ASSUME NEW tbl, NEW e PROVE Entries(tbl, {e}) \in [File -> Nat]
  <2>1. ASSUME NEW g \in File PROVE Cardinality({d \in {e} : tbl[d] = g}) \in Nat
    <3>1. {d \in {e} : tbl[d] = g} \in {{}, {e}}
      OBVIOUS
    <3>2. Cardinality({}) = 0 /\ Cardinality({e}) = 1
      BY FS_EmptySet, FS_Singleton
    <3> QED
      BY <3>1, <3>2
  <2> QED
    BY <2>1 DEF Entries
<1>5. ASSUME NEW a \in FD, Dup(o, a) PROVE SameFile(f)
  <2>1. PICK g : g = fds[o][a]
    OBVIOUS
  <2>2. g \in File /\ file' = [file EXCEPT ![g].refcount = @ + 1]
    BY <1>5, <2>1 DEF Dup
  <2> QED
    BY <1>1, <1>2, <2>2 DEF SameFile
<1>6. ASSUME NEW a \in FD, NEW b \in FD, Dup2(o, a, b) PROVE SameFile(f)
  <2>1. PICK g, k : g = fds[o][a] /\ k = Entries(fds[o], {b})
    OBVIOUS
  <2>2. g \in File /\ file' = [FilesAfter(file, k) EXCEPT ![g].refcount = @ + 1]
    BY <1>6, <2>1 DEF Dup2
  <2>3. k \in [File -> Nat]
    BY <1>4, <2>1
  <2> QED
    BY <1>3, <2>2, <2>3
<1>7. ASSUME NEW a \in FD, NEW b \in FD, CloneFd(o, a, b) PROVE SameFile(f)
  <2>1. PICK g, k : g = fds[o][b] /\ k = Entries(fds[call[o].child], {a})
    OBVIOUS
  <2>2. g \in File /\ file' = [FilesAfter(file, k) EXCEPT ![g].refcount = @ + 1]
    BY <1>7, <2>1 DEF CloneFd
  <2>3. k \in [File -> Nat]
    BY <1>4, <2>1
  <2> QED
    BY <1>3, <2>2, <2>3
<1>8. ASSUME NEW c \in Procs, Spawn(o, c) \/ SpawnFails(o, c) PROVE SameFile(f)
  <2>1. life[o] = "live" /\ file' = Inherited(o)
    BY <1>8 DEF Spawn, SpawnFails, Idle
  <2> QED
    BY <2>1, InheritedReleased
<1>9. CASE Die(o) \/ Reap(o)
  <2>1. Closing(o, FD)
    BY <1>9 DEF Die, Reap
  <2>2. Released(Entries(fds[o], FD), None)
    BY <2>1, ClosingAll
  <2> QED
    BY <2>2, ReleasedKeeps
<1> QED
  BY <1>5, <1>6, <1>7, <1>8, <1>9

\* DescriptorKeepsItsFile: no file is recycled, and none changes its backend, its
\* pipe or its end, under a descriptor, wherever processes are killed and spawns
\* fail (file_alloc and file_release, fs/vfs.c).
THEOREM DescriptorsKeepFiles ==
  ASSUME Careful
  PROVE  Spec => DescriptorKeepsItsFile
<1>1. ASSUME IInv, IInv', [Next]_vars PROVE FileKept
  <2> SUFFICES ASSUME NEW p \in Procs, NEW fd \in FD, NEW f, f = fds[p][fd],
                      life[p] # "free", f \in File, fds'[p][fd] = f, life'[p] # "free"
               PROVE  file'[f].used /\ SameFile(f)
    BY DEF FileKept, SameFile
  <2>1. Refers(p, fd, f) /\ Refers(p, fd, f)'
    BY DEF Refers
  <2>2. file'[f].used
    <3>1. Held1(f)' >= 1
      <4>1. Holders(f)' \subseteq Procs \X FD /\ <<p, fd>> \in Holders(f)'
        BY DEF Holders
      <4>2. IsFiniteSet(Holders(f)') /\ Holders(f)' # {}
        BY <4>1, CountedFinite
      <4>3. Cardinality(Holders(f)') \in Nat /\ Cardinality(Holders(f)') # 0
        BY <4>2, FS_EmptySet, FS_CardinalityType
      <4> QED
        BY <4>3 DEF Held1
    <3>2. Refs(f)' # 0
      BY <3>1, RefsSplit
    <3> QED
      BY <1>1, <3>2 DEF IInv, RefsCounted
  <2>3. ASSUME NEW o \in Procs,
               \/ OpenScan(o) \/ PipeReserve(o) \/ SpawnDone(o)
               \/ \E e \in FD : CloseEntry(o, e)
        PROVE  SameFile(f)
    <3>1. file' = file
      BY <2>3 DEF OpenScan, PipeReserve, SpawnDone, CloseEntry
    <3> QED
      BY SMTT(30), <3>1 DEF SameFile
  <2>4. ASSUME UNCHANGED vars PROVE SameFile(f)
    <3>1. file' = file
      BY <2>4 DEF vars
    <3> QED
      BY <3>1 DEF SameFile
  <2>5. ASSUME NEW o \in Procs,
               \/ OpenClaim(o) \/ OpenInstall(o) \/ OpenBackOut(o) \/ CloseRelease(o)
               \/ PipeFirst(o) \/ PipeSecond(o) \/ PipeInstall(o) \/ PipeBackOut(o)
        PROVE  SameFile(f)
    BY <1>1, <2>1, <2>2, <2>5, CallKeepsFile
  <2>6. ASSUME NEW o \in Procs,
               \/ \E a \in FD : Dup(o, a)
               \/ \E a, b \in FD : Dup2(o, a, b) \/ CloneFd(o, a, b)
               \/ \E c \in Procs : Spawn(o, c) \/ SpawnFails(o, c)
               \/ Die(o) \/ Reap(o)
        PROVE  SameFile(f)
    BY <1>1, <2>2, <2>6, TableKeepsFile
  <2>7. SameFile(f)
    <3>1. CASE Next
      <4>1. PICK o \in Procs :
              \/ OpenScan(o) \/ OpenClaim(o) \/ OpenInstall(o) \/ OpenBackOut(o)
              \/ CloseRelease(o)
              \/ PipeReserve(o) \/ PipeFirst(o) \/ PipeSecond(o) \/ PipeInstall(o) \/ PipeBackOut(o)
              \/ SpawnDone(o) \/ Die(o) \/ Reap(o)
              \/ \E e \in FD : CloseEntry(o, e)
              \/ \E a \in FD : Dup(o, a)
              \/ \E a, b \in FD : Dup2(o, a, b) \/ CloneFd(o, a, b)
              \/ \E c \in Procs : Spawn(o, c) \/ SpawnFails(o, c)
        BY <3>1 DEF Next
      <4> QED
        BY <2>3, <2>5, <2>6, <4>1
    <3> QED
      BY <1>1, <2>4, <3>1
  <2> QED
    BY <2>2, <2>7
<1>2. IInv /\ IInv' /\ [Next]_vars => [FileKept]_vars
  BY <1>1
<1> QED
  BY <1>2, IInvAlways, PTL DEF Spec, DescriptorKeepsItsFile
============================================================================
