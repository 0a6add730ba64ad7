----------------------------- MODULE PipeProofs -----------------------------
(***************************************************************************)
(* As long as no two processes are inside a call on it (OneCall), a pipe   *)
(* is a first-in first-out channel with an exact end of stream, for every  *)
(* capacity, every set of readers and writers and every bound on the bytes *)
(* and on the calls' lengths.  Ends may be closed while a call is under    *)
(* way.  Of overlapping calls nothing is claimed: they do lose bytes.      *)
(***************************************************************************)
EXTENDS Pipe, TLAPS

---------------------------------------------------------------------------
(* Positions in the ring *)

LEMMA ModLow ==
  ASSUME NEW c \in Nat \ {0}, NEW x \in 0..(c - 1)
  PROVE  x % c = x
  BY SMT

LEMMA ModHigh ==
  ASSUME NEW c \in Nat \ {0}, NEW x \in c..(2 * c - 1)
  PROVE  x % c = x - c
  BY SMT

\* A sum of a position and an offset within the ring wraps at most once.
LEMMA WrapOnce ==
  ASSUME NEW c \in Nat \ {0}, NEW r \in 0..(c - 1), NEW i \in 0..c
  PROVE  /\ (r + i) % c = IF r + i < c THEN r + i ELSE r + i - c
         /\ (r + i) % c \in 0..(c - 1)
<1>1. CASE r + i < c
  <2>1. r + i \in 0..(c - 1) BY <1>1
  <2> QED BY <2>1, ModLow, <1>1
<1>2. CASE ~(r + i < c)
  <2>1. r + i \in c..(2 * c - 1) BY <1>2
  <2>2. (r + i) % c = r + i - c BY <2>1, ModHigh
  <2> QED BY <2>2, <2>1, <1>2
<1> QED BY <1>1, <1>2

\* Offsets that differ by less than the capacity are different places.
LEMMA Apart ==
  ASSUME NEW c \in Nat \ {0}, NEW r \in 0..(c - 1), NEW i \in 0..(c - 1), NEW j \in 0..(c - 1),
         i # j
  PROVE  (r + i) % c # (r + j) % c
<1>1. i \in 0..c /\ j \in 0..c OBVIOUS
<1>2. (r + i) % c = IF r + i < c THEN r + i ELSE r + i - c
  BY <1>1, WrapOnce
<1>3. (r + j) % c = IF r + j < c THEN r + j ELSE r + j - c
  BY <1>1, WrapOnce
<1> QED BY <1>2, <1>3

\* Moving the start forward by one moves every offset back by one.
LEMMA Shift ==
  ASSUME NEW c \in Nat \ {0}, NEW r \in 0..(c - 1), NEW i \in 0..(c - 1)
  PROVE  (((r + 1) % c) + i) % c = (r + (i + 1)) % c
<1>1. 1 \in 0..c /\ i \in 0..c /\ i + 1 \in 0..c OBVIOUS
<1>2. (r + 1) % c \in 0..(c - 1) /\ (r + 1) % c = IF r + 1 < c THEN r + 1 ELSE r + 1 - c
  BY <1>1, WrapOnce
<1>3. (((r + 1) % c) + i) % c =
        IF ((r + 1) % c) + i < c THEN ((r + 1) % c) + i ELSE ((r + 1) % c) + i - c
  BY <1>1, <1>2, WrapOnce
<1>4. (r + (i + 1)) % c = IF r + (i + 1) < c THEN r + (i + 1) ELSE r + (i + 1) - c
  BY <1>1, WrapOnce
<1> QED BY <1>2, <1>3, <1>4

\* Moving on by one from an offset is the next offset.
LEMMA Onward ==
  ASSUME NEW c \in Nat \ {0}, NEW r \in 0..(c - 1), NEW i \in 0..(c - 1)
  PROVE  (((r + i) % c) + 1) % c = (r + (i + 1)) % c
<1>1. 1 \in 0..c /\ i \in 0..c /\ i + 1 \in 0..c OBVIOUS
<1>2. (r + i) % c \in 0..(c - 1) /\ (r + i) % c = IF r + i < c THEN r + i ELSE r + i - c
  BY <1>1, WrapOnce
<1>3. (((r + i) % c) + 1) % c =
        IF ((r + i) % c) + 1 < c THEN ((r + i) % c) + 1 ELSE ((r + i) % c) + 1 - c
  BY <1>1, <1>2, WrapOnce
<1>4. (r + (i + 1)) % c = IF r + (i + 1) < c THEN r + (i + 1) ELSE r + (i + 1) - c
  BY <1>1, WrapOnce
<1> QED BY <1>2, <1>3, <1>4

---------------------------------------------------------------------------
(* The inductive invariant *)

\* What a process inside a call knows.
Writing == \A p \in Procs : io[p].at = "write" =>
  p \in writers /\ io[p].left > 0 /\ io[p].size = size /\ size < CAPACITY
  /\ sent + io[p].left <= MaxSent
Reading == \A p \in Procs :
  /\ io[p].at \in {"take", "store"} => io[p].left > 0 /\ size > 0
  /\ io[p].at = "store" => io[p].size = size /\ io[p].pos = read_pos

\* The ring holds the last size bytes written, in order, from read_pos.
Ring ==
  /\ size <= sent
  /\ write_pos = (read_pos + size) % CAPACITY
  /\ \A i \in 0..(size - 1) : data[(read_pos + i) % CAPACITY] = sent - size + (i + 1)

\* A byte that is taken stays in the ring until the positions are stored.
Taken ==
  /\ (\E p \in Procs : io[p].at = "store") => Len(got) = sent - size + 1
  /\ (\A p \in Procs : io[p].at # "store") => Len(got) = sent - size

IoType == [at : {"idle", "write", "take", "store"}, left : 0..MaxCount, size : 0..CAPACITY, pos : Pos]

IInv == TypeOK /\ OneCall /\ Writing /\ Reading /\ Ring /\ Taken /\ BytesInOrder

LEMMA IInvInit == Init => IInv
<1> USE PipeAssumption
<1> SUFFICES ASSUME Init PROVE IInv OBVIOUS
<1>1. 0 % CAPACITY = 0
  BY ModLow
<1>2. TypeOK
  BY DEF Init, TypeOK, Pos, NoIo
<1>3. OneCall /\ Writing /\ Reading
  BY DEF Init, OneCall, Writing, Reading, NoIo
<1>4. Ring
  BY <1>1 DEF Init, Ring
<1>5. Taken /\ BytesInOrder
  BY DEF Init, Taken, BytesInOrder, NoIo
<1> QED BY <1>2, <1>3, <1>4, <1>5 DEF IInv

---------------------------------------------------------------------------
(* The steps *)

\* Calls that begin, and ends that close, leave the bytes alone.
LEMMA QuietStep ==
  ASSUME IInv, OneCall', NEW p \in Procs,
         \/ \E count \in 1..MaxCount : WriteCall(p, count) \/ ReadCall(p, count)
         \/ CloseRead(p) \/ CloseWrite(p)
  PROVE  IInv'
<1> USE PipeAssumption
<1>1. TypeOK /\ OneCall /\ Writing /\ Reading /\ Ring /\ Taken /\ BytesInOrder BY DEF IInv
<1>2. UNCHANGED <<data, read_pos, write_pos, size, sent, got>>
  BY DEF WriteCall, ReadCall, CloseRead, CloseWrite
<1>4. io[p].at = "idle"
  BY DEF WriteCall, ReadCall, CloseRead, CloseWrite
<1>5. Ring' /\ BytesInOrder'
  BY <1>1, <1>2 DEF Ring, BytesInOrder
<1>8. CASE \E count \in 1..MaxCount : WriteCall(p, count)
  <2>1. PICK count \in 1..MaxCount : WriteCall(p, count) BY <1>8
  <2>2. io' = [io EXCEPT ![p] = [at |-> "write", left |-> count, size |-> size, pos |-> 0]]
    BY <2>1 DEF WriteCall
  <2>3. TypeOK'
    <3>1. [at |-> "write", left |-> count, size |-> size, pos |-> 0] \in IoType
      BY <1>1 DEF IoType, TypeOK, Pos
    <3>2. io' \in [Procs -> IoType]
      BY <1>1, <2>2, <3>1 DEF TypeOK, IoType
    <3>3. readers' = readers /\ writers' = writers
      BY <2>1 DEF WriteCall
    <3> QED BY <1>1, <1>2, <3>2, <3>3 DEF TypeOK, IoType
  <2>4. /\ io'[p] = [at |-> "write", left |-> count, size |-> size, pos |-> 0]
        /\ \A q \in Procs \ {p} : io'[q] = io[q]
    BY <1>1, <2>2 DEF TypeOK
  <2>41. \A q \in Procs : io[q].at = "idle"
    BY <1>4, <2>4 DEF OneCall
  <2>42. Len(got) = sent - size
    BY <1>1, <2>41 DEF Taken
  <2>5. OneCall' /\ Reading' /\ Taken'
    BY <1>2, <2>4, <2>41, <2>42 DEF OneCall, Reading, Taken
  <2>6. Writing'
    <3>1. \A q \in Procs \ {p} : io'[q].at = "idle" BY <2>4, <2>41
    <3>2. /\ io'[p].at = "write" /\ io'[p].left = count /\ io'[p].size = size
          /\ p \in writers' /\ size < CAPACITY /\ sent + count <= MaxSent
      <4>1. p \in writers' /\ size < CAPACITY /\ sent + count <= MaxSent
        BY <2>1 DEF WriteCall
      <4> QED BY <2>4, <4>1
    <3> QED BY <1>2, <3>1, <3>2 DEF Writing
  <2> QED BY <1>5, <2>3, <2>5, <2>6 DEF IInv
<1>9. CASE \E count \in 1..MaxCount : ReadCall(p, count)
  <2>1. PICK count \in 1..MaxCount : ReadCall(p, count) BY <1>9
  <2>2. io' = [io EXCEPT ![p] = [at |-> "take", left |-> count, size |-> 0, pos |-> 0]]
    BY <2>1 DEF ReadCall
  <2>3. TypeOK'
    <3>1. [at |-> "take", left |-> count, size |-> 0, pos |-> 0] \in IoType
      BY <1>1 DEF IoType, TypeOK, Pos
    <3>2. io' \in [Procs -> IoType]
      BY <1>1, <2>2, <3>1 DEF TypeOK, IoType
    <3>3. readers' = readers /\ writers' = writers
      BY <2>1 DEF ReadCall
    <3> QED BY <1>1, <1>2, <3>2, <3>3 DEF TypeOK, IoType
  <2>4. /\ io'[p] = [at |-> "take", left |-> count, size |-> 0, pos |-> 0]
        /\ \A q \in Procs \ {p} : io'[q] = io[q]
    BY <1>1, <2>2 DEF TypeOK
  <2>41. \A q \in Procs : io[q].at = "idle"
    BY <1>4, <2>4 DEF OneCall
  <2>42. Len(got) = sent - size
    BY <1>1, <2>41 DEF Taken
  <2>5. OneCall' /\ Writing' /\ Taken'
    BY <1>2, <2>4, <2>41, <2>42 DEF OneCall, Writing, Taken
  <2>6. Reading'
    <3>1. \A q \in Procs \ {p} : io'[q].at = "idle" BY <2>4, <2>41
    <3>2. io'[p].at = "take" /\ io'[p].left = count /\ size > 0
      <4>1. size > 0 BY <2>1 DEF ReadCall
      <4> QED BY <2>4, <4>1
    <3> QED BY <1>2, <3>1, <3>2 DEF Reading
  <2> QED BY <1>5, <2>3, <2>5, <2>6 DEF IInv
<1>10. CASE CloseRead(p) \/ CloseWrite(p)
  <2>1. io' = io /\ readers' \subseteq readers /\ writers' \subseteq writers
    BY <1>10 DEF CloseRead, CloseWrite
  <2>2. TypeOK'
    BY <1>1, <1>2, <2>1 DEF TypeOK
  <2>3. OneCall' /\ Writing' /\ Reading' /\ Taken'
    <3>1. \A q \in writers \ {p} : q \in writers'
      BY <1>10 DEF CloseRead, CloseWrite
    <3>2. \A q \in Procs : io[q].at = "write" => q # p
      BY <1>4
    <3> QED BY <1>1, <1>2, <2>1, <3>1, <3>2 DEF OneCall, Writing, Reading, Taken
  <2> QED BY <1>5, <2>2, <2>3 DEF IInv
<1> QED BY <1>8, <1>9, <1>10

LEMMA WriteStep ==
  ASSUME IInv, OneCall', NEW p \in Procs, WriteByte(p)
  PROVE  IInv'
<1> USE PipeAssumption
<1> DEFINE n == io[p].size + 1
           left == io[p].left - 1
           more == left > 0 /\ n < CAPACITY
<1>1. TypeOK /\ OneCall /\ Writing /\ Reading /\ Ring /\ Taken /\ BytesInOrder BY DEF IInv
<1>2. /\ io[p].at = "write"
      /\ \A q \in Procs \ {p} : io[q].at = "idle"
  BY <1>1 DEF WriteByte, OneCall
<1>3. /\ p \in writers /\ io[p].left > 0 /\ io[p].size = size /\ size < CAPACITY
      /\ sent + io[p].left <= MaxSent
      /\ io[p].left \in 0..MaxCount /\ size \in Nat /\ sent \in Nat /\ n = size + 1
  BY <1>1, <1>2 DEF Writing, TypeOK
<1>4. /\ data' = [data EXCEPT ![write_pos] = sent + 1]
      /\ sent' = sent + 1 /\ size' = size + 1
      /\ write_pos' = (write_pos + 1) % CAPACITY
      /\ UNCHANGED <<read_pos, readers, writers, got>>
  BY <1>3 DEF WriteByte, Next1
<1>5. /\ \A q \in Procs \ {p} : io'[q] = io[q]
      /\ io'[p] = IF more THEN [io[p] EXCEPT !.left = left, !.size = n] ELSE NoIo
  BY <1>1 DEF WriteByte, TypeOK
<1>6. io' \in [Procs -> IoType]
  <2>1. [io[p] EXCEPT !.left = left, !.size = n] \in IoType
    <3>1. io[p] \in IoType BY <1>1 DEF TypeOK, IoType
    <3>2. left \in 0..MaxCount /\ n \in 0..CAPACITY BY <1>3
    <3> HIDE DEF left, n
    <3> QED BY <3>1, <3>2 DEF IoType
  <2>2. NoIo \in IoType
    BY DEF NoIo, Pos, IoType
  <2>3. io' = [io EXCEPT ![p] = IF more THEN [io[p] EXCEPT !.left = left, !.size = n] ELSE NoIo]
    BY DEF WriteByte
  <2>4. io \in [Procs -> IoType] BY <1>1 DEF TypeOK, IoType
  <2> HIDE DEF more, left, n
  <2> QED BY <2>1, <2>2, <2>3, <2>4
<1>7. read_pos \in 0..(CAPACITY - 1) /\ write_pos = (read_pos + size) % CAPACITY
      /\ write_pos \in Pos
  BY <1>1 DEF TypeOK, Ring, Pos
<1>8. write_pos' = (read_pos + (size + 1)) % CAPACITY
  <2>1. size \in 0..(CAPACITY - 1) BY <1>3
  <2> QED BY <1>4, <1>7, <2>1, Onward
<1>9. write_pos' \in Pos
  <2>1. size + 1 \in 0..CAPACITY BY <1>3
  <2> QED BY <1>7, <1>8, <2>1, WrapOnce DEF Pos
<1>10. TypeOK'
  <2>1. sent + 1 \in 0..MaxSent /\ size' \in 0..CAPACITY BY <1>3, <1>4
  <2>2. data' \in [Pos -> 0..MaxSent] BY <1>1, <1>4, <2>1 DEF TypeOK
  <2> QED BY <1>1, <1>4, <1>6, <1>9, <2>1, <2>2 DEF TypeOK, IoType
<1>11. io'[p].at \in {"write", "idle"} /\ (io'[p].at = "write" => more)
  BY <1>1, <1>2, <1>5 DEF TypeOK, NoIo
<1>12. OneCall' /\ Reading'
  <2>1. \A q \in Procs \ {p} : io'[q].at = "idle" BY <1>2, <1>5
  <2>2. \A q \in Procs : io'[q].at \notin {"take", "store"} BY <1>11, <2>1
  <2>3. OneCall' BY <2>1 DEF OneCall
  <2>4. Reading' BY <2>2 DEF Reading
  <2> QED BY <2>3, <2>4
<1>13. Writing'
  <2>1. SUFFICES ASSUME NEW q \in Procs, io'[q].at = "write"
        PROVE  q \in writers' /\ io'[q].left > 0 /\ io'[q].size = size' /\ size' < CAPACITY
               /\ sent' + io'[q].left <= MaxSent
    BY DEF Writing
  <2>2. q = p
    BY <1>2, <1>5, <2>1
  <2>3. more /\ io'[p].left = left /\ io'[p].size = n
    BY <1>1, <1>5, <1>11, <2>1, <2>2 DEF TypeOK
  <2> QED BY <1>3, <1>4, <2>2, <2>3
<1>14. Ring'
  <2>1. \A i \in 0..(size - 1) : data'[(read_pos + i) % CAPACITY] = sent - size + (i + 1)
    <3>1. TAKE i \in 0..(size - 1)
    <3>2. i \in 0..(CAPACITY - 1) /\ size \in 0..(CAPACITY - 1) /\ i # size
      BY <1>3
    <3>3. (read_pos + i) % CAPACITY # write_pos
      BY <1>7, <3>2, Apart
    <3>4. (read_pos + i) % CAPACITY \in Pos
      <4>1. i \in 0..CAPACITY BY <3>2
      <4> QED BY <1>7, <4>1, WrapOnce DEF Pos
    <3>5. data[(read_pos + i) % CAPACITY] = sent - size + (i + 1)
      BY <1>1 DEF Ring
    <3> QED BY <1>1, <1>4, <3>3, <3>4, <3>5 DEF TypeOK
  <2>2. data'[(read_pos + size) % CAPACITY] = sent + 1
    BY <1>1, <1>4, <1>7 DEF TypeOK
  <2>3. \A i \in 0..size : data'[(read_pos + i) % CAPACITY] = sent - size + (i + 1)
    <3>1. TAKE i \in 0..size
    <3>2. CASE i = size BY <1>3, <2>2, <3>2
    <3>3. CASE i # size
      <4>1. i \in 0..(size - 1) BY <1>3, <3>3
      <4> QED BY <2>1, <4>1
    <3> QED BY <3>2, <3>3
  <2>4. size' - 1 = size /\ sent' - size' = sent - size /\ size' <= sent'
    BY <1>1, <1>3, <1>4 DEF Ring
  <2> QED BY <1>4, <1>8, <2>3, <2>4 DEF Ring
<1>15. Taken'
  <2>1. \A q \in Procs : io[q].at # "store" /\ io'[q].at # "store"
    BY <1>2, <1>5, <1>11
  <2>2. Len(got) = sent - size
    BY <1>1, <2>1 DEF Taken
  <2> QED BY <1>3, <1>4, <2>1, <2>2 DEF Taken
<1>16. BytesInOrder'
  BY <1>1, <1>4 DEF BytesInOrder
<1> QED BY <1>10, <1>12, <1>13, <1>14, <1>15, <1>16 DEF IInv

LEMMA TakeStep ==
  ASSUME IInv, OneCall', NEW p \in Procs, ReadTake(p)
  PROVE  IInv'
<1> USE PipeAssumption
<1>1. TypeOK /\ OneCall /\ Writing /\ Reading /\ Ring /\ Taken /\ BytesInOrder BY DEF IInv
<1>2. /\ io[p].at = "take"
      /\ \A q \in Procs \ {p} : io[q].at = "idle"
  BY <1>1 DEF ReadTake, OneCall
<1>3. /\ io[p].left > 0 /\ size > 0 /\ size \in Nat /\ sent \in Nat /\ size <= sent
      /\ Len(got) = sent - size
  <2>1. size \in Nat /\ sent \in Nat
    BY <1>1 DEF TypeOK
  <2>2. io[p].left > 0 /\ size > 0
    BY <1>1, <1>2 DEF Reading
  <2>3. \A q \in Procs : io[q].at # "store"
    BY <1>2
  <2>4. Len(got) = sent - size
    BY <1>1, <2>3 DEF Taken
  <2>5. size <= sent
    BY <1>1 DEF Ring
  <2> QED BY <2>1, <2>2, <2>4, <2>5
<1>4. /\ got' = Append(got, data[read_pos])
      /\ UNCHANGED <<data, read_pos, write_pos, size, readers, writers, sent>>
  BY DEF ReadTake
<1>5. /\ \A q \in Procs \ {p} : io'[q] = io[q]
      /\ io'[p] = [io[p] EXCEPT !.at = "store", !.size = size, !.pos = read_pos]
  BY <1>1 DEF ReadTake, TypeOK
<1>6. io' \in [Procs -> IoType]
  BY ZenonT(40), <1>1 DEF ReadTake, TypeOK, IoType
<1>7. data[read_pos] = Len(got) + 1
  <2>1. read_pos \in 0..(CAPACITY - 1) /\ 0 \in 0..(size - 1)
    BY <1>1, <1>3 DEF TypeOK, Pos
  <2>2. (read_pos + 0) % CAPACITY = read_pos
    BY <2>1, ModLow
  <2>3. data[(read_pos + 0) % CAPACITY] = sent - size + (0 + 1)
    BY <1>1, <2>1 DEF Ring
  <2> QED BY <1>3, <2>2, <2>3
<1>8. data[read_pos] \in 0..MaxSent
  BY <1>1 DEF TypeOK
<1>9. TypeOK'
  <2>1. got' \in Seq(0..MaxSent)
    <3>1. got \in Seq(0..MaxSent) BY <1>1 DEF TypeOK
    <3> QED BY <1>4, <1>8, <3>1
  <2> QED BY <1>1, <1>4, <1>6, <2>1, SMTT(30) DEF TypeOK, IoType
<1>10. OneCall' /\ Writing' /\ Reading'
  <2>1. \A q \in Procs \ {p} : io'[q].at = "idle" BY <1>2, <1>5
  <2>2. io'[p].at = "store" /\ io'[p].left = io[p].left /\ io'[p].size = size /\ io'[p].pos = read_pos
    BY <1>1, <1>5 DEF TypeOK
  <2>3. OneCall' BY <2>1 DEF OneCall
  <2>4. Writing' BY <2>1, <2>2 DEF Writing
  <2>5. Reading' BY <1>3, <1>4, <2>1, <2>2 DEF Reading
  <2> QED BY <2>3, <2>4, <2>5
<1>11. Ring'
  BY <1>1, <1>4 DEF Ring
<1>12. got \in Seq(0..MaxSent) /\ Len(got') = Len(got) + 1
  BY <1>1, <1>4, <1>8 DEF TypeOK
<1>13. Taken'
  <2>1. io'[p].at = "store"
    BY <1>1, <1>5 DEF TypeOK
  <2> QED BY <1>3, <1>4, <1>12, <2>1 DEF Taken
<1>14. BytesInOrder'
  <2>1. SUFFICES ASSUME NEW i \in DOMAIN got' PROVE got'[i] = i
    BY DEF BytesInOrder
  <2>2. CASE i = Len(got) + 1
    BY <1>4, <1>7, <1>8, <1>12, <2>2
  <2>3. CASE i # Len(got) + 1
    <3>1. i \in DOMAIN got
      BY <1>4, <1>8, <1>12, <2>1, <2>3
    <3>2. got'[i] = got[i]
      BY <1>4, <1>8, <1>12, <3>1
    <3> QED BY <1>1, <3>1, <3>2 DEF BytesInOrder
  <2> QED BY <2>2, <2>3
<1> QED BY <1>9, <1>10, <1>11, <1>13, <1>14 DEF IInv

LEMMA StoreStep ==
  ASSUME IInv, OneCall', NEW p \in Procs, ReadStore(p)
  PROVE  IInv'
<1> USE PipeAssumption
<1> DEFINE left == io[p].left - 1
           more == left > 0 /\ size - 1 > 0
<1>1. TypeOK /\ OneCall /\ Writing /\ Reading /\ Ring /\ Taken /\ BytesInOrder BY DEF IInv
<1>2. /\ io[p].at = "store"
      /\ \A q \in Procs \ {p} : io[q].at = "idle"
  BY <1>1 DEF ReadStore, OneCall
<1>3. /\ io[p].left > 0 /\ size > 0 /\ size \in 0..CAPACITY /\ sent \in Nat /\ size <= sent
      /\ io[p].size = size /\ io[p].pos = read_pos /\ Less1(io[p].size) = size - 1
      /\ io[p].left \in 0..MaxCount
      /\ Len(got) = sent - size + 1
  <2>1. size \in 0..CAPACITY /\ sent \in Nat /\ io[p].left \in 0..MaxCount
    BY <1>1 DEF TypeOK, IoType
  <2>2. io[p].left > 0 /\ size > 0 /\ io[p].size = size /\ io[p].pos = read_pos
    BY <1>1, <1>2 DEF Reading
  <2>3. size <= sent BY <1>1 DEF Ring
  <2>4. Less1(io[p].size) = size - 1 BY <2>1, <2>2 DEF Less1
  <2>5. Len(got) = sent - size + 1 BY <1>1, <1>2 DEF Taken
  <2> QED BY <2>1, <2>2, <2>3, <2>4, <2>5
<1>4. /\ read_pos' = (read_pos + 1) % CAPACITY
      /\ size' = size - 1
      /\ UNCHANGED <<data, write_pos, readers, writers, sent, got>>
  BY <1>3 DEF ReadStore, Next1
<1>5. io' = [io EXCEPT ![p] = IF more THEN [io[p] EXCEPT !.at = "take", !.left = left] ELSE NoIo]
  BY <1>3 DEF ReadStore
<1>6. /\ \A q \in Procs \ {p} : io'[q] = io[q]
      /\ io'[p] = IF more THEN [io[p] EXCEPT !.at = "take", !.left = left] ELSE NoIo
  BY <1>1, <1>5 DEF TypeOK
<1>7. io' \in [Procs -> IoType]
  <2>1. [io[p] EXCEPT !.at = "take", !.left = left] \in IoType
    <3>1. io[p] \in IoType BY <1>1 DEF TypeOK, IoType
    <3>2. left \in 0..MaxCount BY <1>3
    <3> HIDE DEF left
    <3> QED BY <3>1, <3>2 DEF IoType
  <2>2. NoIo \in IoType
    BY DEF NoIo, Pos, IoType
  <2>3. io \in [Procs -> IoType] BY <1>1 DEF TypeOK, IoType
  <2> HIDE DEF more, left
  <2> QED BY <1>5, <2>1, <2>2, <2>3
<1>8. read_pos \in 0..(CAPACITY - 1)
  BY <1>1 DEF TypeOK, Pos
<1>9. read_pos' \in Pos
  <2>1. 1 \in 0..CAPACITY OBVIOUS
  <2> QED BY <1>4, <1>8, <2>1, WrapOnce DEF Pos
<1>10. TypeOK'
  <2>1. size' \in 0..CAPACITY BY <1>3, <1>4
  <2> QED BY <1>1, <1>4, <1>7, <1>9, <2>1 DEF TypeOK, IoType
<1>11. io'[p].at \in {"take", "idle"} /\ (io'[p].at = "take" => more /\ io'[p].left = left)
  BY <1>1, <1>6 DEF TypeOK, NoIo
<1>12. OneCall' /\ Writing' /\ Reading'
  <2>1. \A q \in Procs \ {p} : io'[q].at = "idle" BY <1>2, <1>6
  <2>2. io'[p].at = "take" => io'[p].left > 0 /\ size' > 0
    BY <1>3, <1>4, <1>11
  <2>3. OneCall' BY <2>1 DEF OneCall
  <2>4. Writing' BY <1>11, <2>1 DEF Writing
  <2>5. Reading' BY <1>11, <2>1, <2>2 DEF Reading
  <2> QED BY <2>3, <2>4, <2>5
<1>13. Ring'
  <2>1. \A i \in 0..(size - 1) : (read_pos' + i) % CAPACITY = (read_pos + (i + 1)) % CAPACITY
    <3>1. TAKE i \in 0..(size - 1)
    <3>2. i \in 0..(CAPACITY - 1) BY <1>3
    <3> QED BY <1>4, <1>8, <3>2, Shift
  <2>2. write_pos' = (read_pos' + size') % CAPACITY
    <3>1. size - 1 \in 0..(size - 1) /\ (size - 1) + 1 = size BY <1>3
    <3>2. (read_pos' + (size - 1)) % CAPACITY = (read_pos + size) % CAPACITY
      BY <2>1, <3>1
    <3> QED BY <1>1, <1>4, <3>2 DEF Ring
  <2>3. \A i \in 0..(size' - 1) : data'[(read_pos' + i) % CAPACITY] = sent' - size' + (i + 1)
    <3>1. TAKE i \in 0..(size' - 1)
    <3>2. i \in 0..(size - 1) /\ i + 1 \in 0..(size - 1) BY <1>3, <1>4
    <3>3. data[(read_pos + (i + 1)) % CAPACITY] = sent - size + ((i + 1) + 1)
      BY <1>1, <3>2 DEF Ring
    <3>4. sent - size + ((i + 1) + 1) = sent' - size' + (i + 1)
      BY <1>3, <1>4, <3>2
    <3>5. data' = data BY <1>4
    <3>6. (read_pos' + i) % CAPACITY = (read_pos + (i + 1)) % CAPACITY BY <2>1, <3>2
    <3> QED BY <3>3, <3>4, <3>5, <3>6
  <2>4. size' <= sent' BY <1>3, <1>4
  <2> QED BY <2>2, <2>3, <2>4 DEF Ring
<1>14. Taken'
  <2>1. \A q \in Procs : io'[q].at # "store"
    BY <1>2, <1>6, <1>11
  <2>2. Len(got') = sent' - size'
    <3>1. got' = got /\ sent' = sent /\ size' = size - 1 BY <1>4
    <3>2. sent - size + 1 = sent - (size - 1) BY <1>3
    <3> QED BY <1>3, <3>1, <3>2
  <2> QED BY <2>1, <2>2 DEF Taken
<1>15. BytesInOrder'
  BY <1>1, <1>4 DEF BytesInOrder
<1> QED BY <1>10, <1>12, <1>13, <1>14, <1>15 DEF IInv

LEMMA IInvAlways == Spec /\ []OneCall => []IInv
<1>1. IInv /\ OneCall' /\ [Next]_vars => IInv'
  <2>1. SUFFICES ASSUME IInv, OneCall', [Next]_vars PROVE IInv' OBVIOUS
  <2>2. CASE UNCHANGED vars
    BY <2>1, <2>2 DEF vars, IInv, TypeOK, OneCall, Writing, Reading, Ring, Taken, BytesInOrder
  <2>3. CASE Next
    BY <2>1, <2>3, QuietStep, WriteStep, TakeStep, StoreStep DEF Next
  <2> QED BY <2>1, <2>2, <2>3
<1> QED BY <1>1, IInvInit, PTL DEF Spec

---------------------------------------------------------------------------
(* The theorems *)

\* The positions, the size and the registers of calls keep their ranges.
THEOREM TypeCorrect == Spec /\ []OneCall => []TypeOK
<1>1. IInv => TypeOK BY DEF IInv
<1> QED BY IInvAlways, <1>1, PTL

\* What vfs_read returns is what vfs_write was given, in order, each byte once.
THEOREM BytesAlwaysInOrder == Spec /\ []OneCall => []BytesInOrder
<1>1. IInv => BytesInOrder BY DEF IInv
<1> QED BY IInvAlways, <1>1, PTL

\* Between calls the ring holds exactly the bytes written and not yet read.
THEOREM AlwaysConserved == Spec /\ []OneCall => []Conserved
<1>1. IInv => Conserved
  <2>1. SUFFICES ASSUME IInv, \A p \in Procs : io[p].at = "idle"
        PROVE  /\ size = sent - Len(got)
               /\ \A i \in 0..(size - 1) : data[(read_pos + i) % CAPACITY] = Len(got) + i + 1
    BY DEF Conserved
  <2>2. Len(got) = sent - size /\ size \in Nat /\ sent \in Nat
    BY <2>1, PipeAssumption DEF IInv, Taken, TypeOK
  <2> QED BY <2>1, <2>2 DEF IInv, Ring
<1> QED BY IInvAlways, <1>1, PTL

\* A hangup with nothing to read is the end of the stream.
THEOREM HangupAlwaysDrained == Spec /\ []OneCall => []HangupMeansDrained
<1>1. IInv => HangupMeansDrained
  <2>1. SUFFICES ASSUME IInv, PollRead = {"POLLHUP"},
                        \A p \in Procs : io[p].at \notin {"take", "store"}
        PROVE  Len(got) = sent /\ \A p \in Procs : io[p].at # "write"
    BY DEF HangupMeansDrained
  <2>2. ~(size > 0) /\ writers = {}
    BY <2>1 DEF PollRead
  <2>3. size = 0 /\ sent \in Nat
    BY <2>1, <2>2, PipeAssumption DEF IInv, TypeOK
  <2>4. Len(got) = sent
    BY <2>1, <2>3 DEF IInv, Taken
  <2> QED BY <2>1, <2>2, <2>4 DEF IInv, Writing
<1> QED BY IInvAlways, <1>1, PTL

\* The three together, for any capacity, any number of processes at either end and
\* reads and writes of any length, while no two processes are inside vfs_read or
\* vfs_write of the pipe.  Two that are may lose bytes (vfs.c:1208), so the
\* premise cannot be dropped.
THEOREM PipeAlwaysSound == Spec /\ []OneCall => []PipeSound
<1>1. BytesInOrder /\ Conserved /\ HangupMeansDrained => PipeSound BY DEF PipeSound
<1> QED BY BytesAlwaysInOrder, AlwaysConserved, HangupAlwaysDrained, <1>1, PTL

============================================================================
