---------------------------- MODULE InputProofs ----------------------------
(***************************************************************************)
(* The event ring of input/event.c implements the bounded queue of         *)
(* EventFifo, for every ring size, every keyboard and every mouse; and the *)
(* events that pass through it tell the desktop what the devices do.       *)
(***************************************************************************)
EXTENDS Input, TLAPS, SequenceTheorems, WellFoundedInduction

\* The slots of the ring.
N == EVENT_BUF_SIZE

-----------------------------------------------------------------------------
(* Positions in a ring. *)

\* The remainder within the first turn ...
LEMMA ModLow ==
  ASSUME NEW c \in Nat \ {0}, NEW x \in 0..(c - 1)
  PROVE  x % c = x
  BY SMT

\* ... and within the second.
LEMMA ModHigh ==
  ASSUME NEW c \in Nat \ {0}, NEW x \in c..(2 * c - 1)
  PROVE  x % c = x - c
  BY SMT

\* A position plus an offset of at most one turn wraps at most once.
LEMMA Wrap ==
  ASSUME NEW c \in Nat \ {0}, NEW h \in 0..(c - 1), NEW i \in 0..c
  PROVE  /\ (h + i) % c = IF h + i < c THEN h + i ELSE h + i - c
         /\ (h + i) % c \in 0..(c - 1)
<1>1. CASE h + i < c
  <2>1. h + i \in 0..(c - 1)
    BY <1>1
  <2> QED
    BY <2>1, ModLow, <1>1
<1>2. CASE ~(h + i < c)
  <2>1. h + i \in c..(2 * c - 1)
    BY <1>2
  <2>2. (h + i) % c = h + i - c
    BY <2>1, ModHigh
  <2> QED
    BY <2>2, <2>1, <1>2
<1> QED
  BY <1>1, <1>2

\* Two offsets of less than one turn from the head are two slots.
LEMMA Apart ==
  ASSUME NEW c \in Nat \ {0}, NEW h \in 0..(c - 1), NEW i \in 0..(c - 1), NEW j \in 0..(c - 1),
         (h + i) % c = (h + j) % c
  PROVE  i = j
<1>1. i \in 0..c /\ j \in 0..c
  OBVIOUS
<1>2. (h + i) % c = IF h + i < c THEN h + i ELSE h + i - c
  BY <1>1, Wrap
<1>3. (h + j) % c = IF h + j < c THEN h + j ELSE h + j - c
  BY <1>1, Wrap
<1> QED
  BY <1>2, <1>3

\* Going on from the slot at offset i by j: the slot at offset i + j, or a turn less.
LEMMA Further ==
  ASSUME NEW c \in Nat \ {0}, NEW h \in 0..(c - 1), NEW i \in 0..c, NEW j \in 0..c
  PROVE  /\ i + j \in 0..c => (((h + i) % c) + j) % c = (h + (i + j)) % c
         /\ i + j - c \in 0..c => (((h + i) % c) + j) % c = (h + (i + j - c)) % c
<1> DEFINE s == (h + i) % c
<1>1. s \in 0..(c - 1) /\ s = IF h + i < c THEN h + i ELSE h + i - c
  BY Wrap
<1> HIDE DEF s
<1>2. (s + j) % c = IF s + j < c THEN s + j ELSE s + j - c
  BY <1>1, Wrap
<1>3. ASSUME i + j \in 0..c PROVE (s + j) % c = (h + (i + j)) % c
  <2>1. (h + (i + j)) % c = IF h + (i + j) < c THEN h + (i + j) ELSE h + (i + j) - c
    BY <1>3, Wrap
  <2> QED
    BY <2>1, <1>1, <1>2
<1>4. ASSUME i + j - c \in 0..c PROVE (s + j) % c = (h + (i + j - c)) % c
  <2>1. (h + (i + j - c)) % c =
          IF h + (i + j - c) < c THEN h + (i + j - c) ELSE h + (i + j - c) - c
    BY <1>4, Wrap
  <2> QED
    BY <2>1, <1>1, <1>2, <1>4
<1> QED
  BY <1>3, <1>4 DEF s

-----------------------------------------------------------------------------
(* Sequences, element by element. *)

\* A function on 1..n is a sequence of length n.
LEMMA SeqOf ==
  ASSUME NEW S, NEW n \in Nat, NEW f \in [1..n -> S]
  PROVE  f \in Seq(S) /\ Len(f) = n /\ DOMAIN f = 1..n
  BY LenProperties, SeqDef

-----------------------------------------------------------------------------
\* A set of naturals that is not empty has the least member that the search of
\* try_drop_low_priority_locked stops at.
LEMMA LeastIn ==
  ASSUME NEW S, S \subseteq Nat, S # {}
  PROVE  LET i == CHOOSE i \in S : \A j \in S : i <= j
         IN  i \in S /\ \A j \in S : i <= j
<1>1. PICK i \in S : \A j \in S : ~(<<j, i>> \in OpToRel(<, Nat))
  BY NatLessThanWellFounded, WFMin, Zenon
<1>2. \A j \in S : i <= j
  <2>1. TAKE j \in S
  <2>2. <<j, i>> \notin {ss \in Nat \X Nat : ss[1] < ss[2]}
    BY <1>1 DEF OpToRel
  <2>3. ~(j < i)
    BY <2>2
  <2> QED
    BY <2>3
<1> QED
  BY <1>2

-----------------------------------------------------------------------------
(* The ring as a sequence. *)

\* The events in n slots from h on, oldest first.
View(buf, h, n) == [i \in 1..n |-> buf[(h + (i - 1)) % N]]

\* q is that sequence, of members of E.
Shows(q, E, buf, h, n) ==
  /\ q \in Seq(E) /\ Len(q) = n
  /\ \A i \in 1..n : q[i] = buf[(h + (i - 1)) % N] /\ (h + (i - 1)) % N \in Slots

\* The ring has slots 0 to N - 1, and at least one.
LEMMA NFacts == N \in Nat \ {0} /\ Slots = 0..(N - 1)
  BY InputAssumption DEF N, Slots

\* View is a sequence, and its slots are the ring's.
LEMMA ViewType ==
  ASSUME NEW E, NEW buf \in [Slots -> E], NEW h \in Slots, NEW n \in 0..N
  PROVE  Shows(View(buf, h, n), E, buf, h, n)
<1>1. \A i \in 1..n : i - 1 \in 0..N
  BY NFacts
<1>2. \A i \in 1..n : (h + (i - 1)) % N \in Slots
  BY <1>1, NFacts, Wrap
<1>3. View(buf, h, n) \in [1..n -> E]
  BY <1>2 DEF View
<1> HIDE DEF N
<1> QED
  BY <1>2, <1>3, SeqOf, NFacts DEF View, Shows

\* One place overwritten.
Written(f, x, e) == [f EXCEPT ![x] = e]

\* try_coalesce_tail_locked overwrites the youngest.
LEMMA ViewOverwrite ==
  ASSUME NEW E, NEW buf \in [Slots -> E], NEW h \in Slots, NEW n \in 1..N, NEW e \in E
  PROVE  View(Written(buf, (h + (n - 1)) % N, e), h, n) = Written(View(buf, h, n), n, e)
<1> DEFINE s  == (h + (n - 1)) % N
           b2 == [buf EXCEPT ![s] = e]
<1>1. ASSUME NEW i \in 1..n PROVE (h + (i - 1)) % N = s <=> i = n
  <2>1. i - 1 \in 0..(N - 1) /\ n - 1 \in 0..(N - 1) /\ h \in 0..(N - 1) /\ N \in Nat \ {0}
    BY NFacts
  <2>2. ASSUME (h + (i - 1)) % N = s PROVE i - 1 = n - 1
    BY <2>1, <2>2, Apart
  <2> QED
    BY <2>2
<1>2. n \in 0..N
  BY NFacts
<1>q. Shows(View(buf, h, n), E, buf, h, n)
  BY <1>2, ViewType
<1>3. s \in Slots /\ b2 \in [Slots -> E]
  <2>1. s \in Slots
    BY <1>q DEF Shows
  <2> QED
    BY <2>1
<1>4. \A i \in 1..n : b2[(h + (i - 1)) % N] = IF i = n THEN e ELSE buf[(h + (i - 1)) % N]
  BY <1>1, <1>3, <1>q DEF Shows
<1> HIDE DEF s, b2
<1> QED
  BY <1>4 DEF View, Written, b2, s

\* event_enqueue adds at the tail.
LEMMA ViewAppend ==
  ASSUME NEW E, NEW buf \in [Slots -> E], NEW h \in Slots, NEW n \in 0..(N - 1), NEW e \in E
  PROVE  View(Written(buf, (h + n) % N, e), h, n + 1) = Append(View(buf, h, n), e)
<1> DEFINE s  == (h + n) % N
           b2 == [buf EXCEPT ![s] = e]
<1>1. n \in 0..N /\ n + 1 \in 0..N /\ n + 1 \in Nat /\ (n + 1) - 1 = n
  BY NFacts
<1>2. s \in Slots
  BY <1>1, NFacts, Wrap
<1>3. ASSUME NEW i \in 1..n PROVE (h + (i - 1)) % N # s
  <2>1. i - 1 \in 0..(N - 1) /\ n \in 0..(N - 1) /\ h \in 0..(N - 1) /\ N \in Nat \ {0} /\ i - 1 # n
    BY NFacts
  <2> QED
    BY <2>1, Apart
<1>4. b2 \in [Slots -> E] /\ b2[s] = e
  BY <1>2
<1>q. Shows(View(buf, h, n), E, buf, h, n)
  BY <1>1, ViewType
<1>5. \A i \in 1..n : b2[(h + (i - 1)) % N] = buf[(h + (i - 1)) % N]
  BY <1>3, <1>q DEF Shows
<1> DEFINE p == View(b2, h, n + 1)
           q == View(buf, h, n)
<1> HIDE DEF b2
<1>6. p \in Seq(E) /\ Len(p) = n + 1 /\ \A i \in 1..(n + 1) : p[i] = b2[(h + (i - 1)) % N]
  <2>1. Shows(p, E, b2, h, n + 1)
    BY <1>1, <1>4, ViewType
  <2> HIDE DEF p
  <2> QED
    BY <2>1 DEF Shows
<1>7. q \in Seq(E) /\ Len(q) = n /\ \A i \in 1..n : q[i] = buf[(h + (i - 1)) % N]
  BY <1>q DEF Shows
<1>8. p[n + 1] = e
  <2>1. n + 1 \in 1..(n + 1)
    BY <1>1
  <2> QED
    BY <2>1, <1>1, <1>4, <1>6
<1> HIDE DEF p, q, s
<1>9. \A i \in 1..n : p[i] = q[i]
  BY <1>5, <1>6, <1>7
<1>10. p = Append(q, e)
  BY <1>6, <1>7, <1>8, <1>9, AppendProperties, SeqEqual
<1> QED
  BY <1>10 DEF p, q, b2, s, Written

\* event_dequeue, and the drop of the oldest, move the head.
LEMMA ViewTail ==
  ASSUME NEW E, NEW buf \in [Slots -> E], NEW h \in Slots, NEW n \in 1..N
  PROVE  /\ View(buf, h, n) # <<>> /\ Head(View(buf, h, n)) = buf[h]
         /\ View(buf, (h + 1) % N, n - 1) = Tail(View(buf, h, n))
         /\ (h + 1) % N \in Slots
<1> DEFINE g == (h + 1) % N
           p == View(buf, g, n - 1)
           q == View(buf, h, n)
<1>1. n \in 0..N /\ n - 1 \in 0..N /\ 1 \in 0..N /\ h \in 0..(N - 1) /\ N \in Nat \ {0} /\ n - 1 \in Nat
  BY NFacts
<1>2. g \in Slots
  BY <1>1, NFacts, Wrap
<1>3. \A i \in 1..(n - 1) : (g + (i - 1)) % N = (h + i) % N
  <2> TAKE i \in 1..(n - 1)
  <2>1. i - 1 \in 0..N /\ 1 + (i - 1) \in 0..N /\ 1 + (i - 1) = i
    BY <1>1
  <2> QED
    BY <2>1, <1>1, Further
<1>4. q \in Seq(E) /\ Len(q) = n /\ \A i \in 1..n : q[i] = buf[(h + (i - 1)) % N]
  <2>1. Shows(q, E, buf, h, n)
    BY <1>1, ViewType
  <2> HIDE DEF q
  <2> QED
    BY <2>1 DEF Shows
<1>5. p \in Seq(E) /\ Len(p) = n - 1 /\ \A i \in 1..(n - 1) : p[i] = buf[(g + (i - 1)) % N]
  <2>1. Shows(p, E, buf, g, n - 1)
    BY <1>1, <1>2, ViewType
  <2> HIDE DEF p
  <2> QED
    BY <2>1 DEF Shows
<1> HIDE DEF p, q, g
<1>6. q # <<>> /\ Head(q) = buf[h]
  <2>1. q[1] = buf[(h + 0) % N]
    BY <1>4
  <2>2. (h + 0) % N = h
    BY <1>1, NFacts, ModLow
  <2> QED
    BY <1>4, <2>1, <2>2, HeadTailProperties
<1>7. \A i \in 1..(n - 1) : p[i] = q[i + 1]
  <2> TAKE i \in 1..(n - 1)
  <2>1. i + 1 \in 1..n /\ (i + 1) - 1 = i
    BY <1>1
  <2> QED
    BY <2>1, <1>3, <1>4, <1>5
<1>8. p = Tail(q)
  BY <1>4, <1>5, <1>6, <1>7, HeadTailProperties, SeqEqual
<1> QED
  BY <1>2, <1>6, <1>8 DEF p, q, g

\* try_drop_low_priority_locked moves what is younger than offset f down by one.
Squeeze(buf, h, n, f) ==
  [s \in Slots |-> LET rel == (s + N - h) % N
                   IN  IF rel >= f /\ rel + 1 < n THEN buf[(h + (rel + 1)) % N] ELSE buf[s]]

\* The view afterwards is the view without that event.
LEMMA ViewSqueeze ==
  ASSUME NEW E, NEW buf \in [Slots -> E], NEW h \in Slots, NEW n \in 1..N, NEW f \in 0..(n - 1)
  PROVE  /\ Squeeze(buf, h, n, f) \in [Slots -> E]
         /\ View(Squeeze(buf, h, n, f), h, n - 1) = Fifo!Without(View(buf, h, n), f + 1)
<1> DEFINE b2 == Squeeze(buf, h, n, f)
<1>0. b2 = [s \in Slots |->
              LET rel == (s + N - h) % N
              IN  IF rel >= f /\ rel + 1 < n THEN buf[(h + (rel + 1)) % N] ELSE buf[s]]
  BY DEF Squeeze
<1> HIDE DEF b2
<1>1. n \in 0..N /\ n - 1 \in 0..N /\ n - 1 \in Nat /\ h \in 0..(N - 1) /\ N \in Nat \ {0} /\ f \in Nat
  BY NFacts
<1>2. ASSUME NEW k \in 0..(N - 1)
      PROVE  /\ (h + k) % N \in Slots
             /\ (((h + k) % N) + N - h) % N = k
  <2> DEFINE s == (h + k) % N
  <2>1. k \in 0..N /\ N - h \in 0..N
    BY <1>1
  <2>2. s \in 0..(N - 1) /\ s = IF h + k < N THEN h + k ELSE h + k - N
    BY <2>1, <1>1, Wrap
  <2> HIDE DEF s
  <2>3. (s + (N - h)) % N = IF s + (N - h) < N THEN s + (N - h) ELSE s + (N - h) - N
    BY <2>1, <2>2, <1>1, Wrap
  <2>4. s + (N - h) = s + N - h
    BY <2>2, <1>1
  <2>5. (s + N - h) % N = k
    BY <2>2, <2>3, <2>4, <1>1
  <2> QED
    BY <2>2, <2>5, NFacts DEF s
<1>3. \A s \in Slots : (s + N - h) % N \in 0..(N - 1)
  <2> TAKE s \in Slots
  <2>1. s \in 0..(N - 1) /\ N - h \in 0..N /\ s + (N - h) = s + N - h
    BY <1>1, NFacts
  <2> QED
    BY <2>1, <1>1, Wrap
<1>4. b2 \in [Slots -> E]
  <2>1. ASSUME NEW s \in Slots
        PROVE  (LET rel == (s + N - h) % N
                IN  IF rel >= f /\ rel + 1 < n THEN buf[(h + (rel + 1)) % N] ELSE buf[s]) \in E
    <3> DEFINE rel == (s + N - h) % N
    <3>1. rel \in 0..(N - 1)
      BY <1>3
    <3> HIDE DEF rel
    <3>2. rel + 1 < n => rel + 1 \in 0..(N - 1)
      BY <3>1, <1>1
    <3>3. rel + 1 < n => (h + (rel + 1)) % N \in Slots
      BY <3>2, <1>2
    <3>4. (IF rel >= f /\ rel + 1 < n THEN buf[(h + (rel + 1)) % N] ELSE buf[s]) \in E
      BY <3>3
    <3> QED
      BY <3>4 DEF rel
  <2> QED
    BY <2>1, <1>0
<1> DEFINE p == View(b2, h, n - 1)
           q == View(buf, h, n)
<1>5. q \in Seq(E) /\ Len(q) = n /\ \A i \in 1..n : q[i] = buf[(h + (i - 1)) % N]
  <2>1. Shows(q, E, buf, h, n)
    BY <1>1, ViewType
  <2> HIDE DEF q
  <2> QED
    BY <2>1 DEF Shows
<1>6. p = [i \in 1..(n - 1) |-> b2[(h + (i - 1)) % N]]
  BY DEF View
<1> HIDE DEF p, q
<1>7. ASSUME NEW i \in 1..(n - 1)
      PROVE  b2[(h + (i - 1)) % N] = IF i < f + 1 THEN q[i] ELSE q[i + 1]
  <2> DEFINE k == i - 1
             s == (h + k) % N
  <2>1. /\ k \in 0..(N - 1) /\ k + 1 = i /\ k + 1 < n /\ i + 1 \in 1..n /\ i \in 1..n
        /\ (i + 1) - 1 = i /\ (k >= f <=> ~(i < f + 1))
    BY <1>1
  <2>2. s \in Slots /\ (s + N - h) % N = k
    BY <2>1, <1>2
  <2> HIDE DEF s, k
  <2>3. b2[s] = IF k >= f /\ k + 1 < n THEN buf[(h + (k + 1)) % N] ELSE buf[s]
    BY <2>2, <1>0
  <2>4. q[i] = buf[s] /\ q[i + 1] = buf[(h + i) % N]
    BY <1>5, <2>1 DEF s, k
  <2>5. b2[s] = IF i < f + 1 THEN q[i] ELSE q[i + 1]
    BY <2>1, <2>3, <2>4
  <2> QED
    BY <2>5 DEF s, k
<1>8. Fifo!Without(q, f + 1) = [i \in 1..(n - 1) |-> IF i < f + 1 THEN q[i] ELSE q[i + 1]]
  BY <1>5 DEF Fifo!Without
<1>9. p = Fifo!Without(q, f + 1)
  BY <1>6, <1>7, <1>8
<1> QED
  BY <1>4, <1>9 DEF p, q, b2

-----------------------------------------------------------------------------
(* The inductive invariant, and the steps. *)

\* The three counters describe one run of slots of the ring.
RingOK ==
  /\ event_buf = [s \in Slots |-> event_buf[s]]
  /\ event_head \in Slots /\ event_count \in 0..N
  /\ event_tail = (event_head + event_count) % N

\* Retained, the refinement mapping, is a view.
LEMMA RetainedIs == Retained = View(event_buf, event_head, event_count)
  BY DEF Retained, View, queue_idx_from_head, N

\* The slot of the youngest event.
LEMMA TailIdxIs ==
  ASSUME RingOK, event_count # 0
  PROVE  TailIdx = (event_head + (event_count - 1)) % N
<1>1. /\ event_head \in 0..(N - 1) /\ N \in Nat \ {0} /\ event_count \in 0..N /\ N - 1 \in 0..N
      /\ event_count + (N - 1) - N \in 0..N /\ event_count + (N - 1) - N = event_count - 1
  BY NFacts DEF RingOK
<1>2. (((event_head + event_count) % N) + (N - 1)) % N = (event_head + (event_count - 1)) % N
  BY <1>1, Further
<1>3. (event_head + event_count) % N \in 0..(N - 1)
  BY <1>1, Wrap
<1>4. ((event_head + event_count) % N) + (N - 1) = ((event_head + event_count) % N) + N - 1
  BY <1>1, <1>3
<1> QED
  BY <1>2, <1>4 DEF TailIdx, RingOK, N

\* event_enqueue's room: the ring r is full but for one slot, and has lost what the
\* queue gives up.
Roomy(r, E) ==
  /\ r.buf \in [Slots -> E] /\ r.head \in Slots /\ r.count = N - 1
  /\ r.tail = (r.head + r.count) % N
  /\ View(r.buf, r.head, r.count) = Fifo!Without(Retained, Fifo!Victim(Retained))

\* With no low-value event in the ring the oldest goes.
LEMMA RoomFromOldest ==
  ASSUME NEW E, event_buf \in [Slots -> E], RingOK, Full, LowPositions = {}
  PROVE  Roomy(MakeRoom, E)
<1> DEFINE q == Retained
           h == event_head
           r == MakeRoom
<1>1. event_count = N /\ N \in 1..N /\ N \in 0..N /\ N - 1 \in 0..N /\ N \in Nat \ {0} /\ h \in 0..(N - 1)
  BY NFacts DEF RingOK, Full, N
<1>2. Shows(q, E, event_buf, h, N)
  BY <1>1, RetainedIs, ViewType DEF RingOK
<1>3. r = [buf |-> event_buf, head |-> (h + 1) % N, tail |-> event_tail, count |-> event_count - 1]
  BY DEF MakeRoom, N
<1>4. /\ q # <<>> /\ View(event_buf, (h + 1) % N, N - 1) = Tail(q)
      /\ (h + 1) % N \in Slots
  BY <1>1, RetainedIs, ViewTail DEF RingOK
<1>5. {i \in 1..Len(q) : Fifo!Low(q[i])} = {}
  <2> SUFFICES ASSUME NEW i \in 1..N PROVE ~Fifo!Low(q[i])
    BY <1>2 DEF Shows
  <2>1. i - 1 \in 0..(event_count - 1)
    BY <1>1
  <2>2. q[i] = event_buf[queue_idx_from_head(i - 1)]
    BY <1>2 DEF Shows, queue_idx_from_head, N
  <2> QED
    BY <2>1, <2>2 DEF LowPositions, Fifo!Low, is_low_priority_event
<1>6. Fifo!Victim(q) = 1
  BY <1>5 DEF Fifo!Victim
<1>7. Fifo!Without(q, 1) = Tail(q)
  <2>1. Fifo!Without(q, 1) = [j \in 1..(N - 1) |-> q[j + 1]]
    <3>1. \A j \in 1..(N - 1) : ~(j < 1)
      BY <1>1
    <3> QED
      BY <1>2, <3>1 DEF Fifo!Without, Shows
  <2>2. Tail(q) \in Seq(E) /\ Len(Tail(q)) = N - 1 /\ \A j \in 1..(N - 1) : Tail(q)[j] = q[j + 1]
    BY <1>2, <1>4, HeadTailProperties DEF Shows
  <2>3. Tail(q) = [j \in 1..(N - 1) |-> Tail(q)[j]]
    BY <2>2, LenProperties
  <2> QED
    BY <2>1, <2>2, <2>3
<1>8. (((h + 1) % N) + (N - 1)) % N = event_tail
  <2>1. 1 \in 0..N /\ N - 1 \in 0..N /\ 1 + (N - 1) \in 0..N /\ 1 + (N - 1) = N
    BY <1>1
  <2> QED
    BY <2>1, <1>1, Further DEF RingOK
<1> QED
  BY <1>1, <1>3, <1>4, <1>6, <1>7, <1>8 DEF Roomy

\* With one, the oldest of those goes, wherever it is.
LEMMA RoomFromLow ==
  ASSUME NEW E, event_buf \in [Slots -> E], RingOK, Full, LowPositions # {}
  PROVE  Roomy(MakeRoom, E)
<1> DEFINE q == Retained
           h == event_head
           r == MakeRoom
           low == {i \in 1..Len(q) : Fifo!Low(q[i])}
<1>1. event_count = N /\ N \in 1..N /\ N \in 0..N /\ N - 1 \in 0..N /\ N \in Nat \ {0} /\ h \in 0..(N - 1)
  BY NFacts DEF RingOK, Full, N
<1>2. Shows(q, E, event_buf, h, N)
  BY <1>1, RetainedIs, ViewType DEF RingOK
<1>3. \A k \in 0..(N - 1) : k \in LowPositions <=> k + 1 \in low
  <2> TAKE k \in 0..(N - 1)
  <2>1. k + 1 \in 1..N /\ (k + 1) - 1 = k /\ k \in 0..(event_count - 1)
    BY <1>1
  <2>2. q[k + 1] = event_buf[queue_idx_from_head(k)] /\ Len(q) = N
    BY <1>2, <2>1 DEF Shows, queue_idx_from_head, N
  <2> QED
    BY <2>1, <2>2 DEF LowPositions, Fifo!Low, is_low_priority_event
<1>4. LowPositions \subseteq 0..(N - 1) /\ low \subseteq 1..N
  BY <1>1, <1>2 DEF LowPositions, Shows
<1> HIDE DEF low, q, h
<1>5. LowPositions \subseteq Nat
  BY <1>4
<1>6. FirstLow \in LowPositions /\ \A j \in LowPositions : FirstLow <= j
  BY <1>5, LeastIn DEF FirstLow
<1>7. FirstLow \in 0..(N - 1) /\ FirstLow + 1 \in low
  BY <1>3, <1>4, <1>6
<1>8. \A i \in low : FirstLow + 1 <= i
  <2> TAKE i \in low
  <2>1. i - 1 \in 0..(N - 1) /\ (i - 1) + 1 = i
    BY <1>1, <1>4
  <2>2. i - 1 \in LowPositions
    BY <2>1, <1>3
  <2> QED
    BY <2>1, <2>2, <1>6, <1>7
<1>9. Fifo!Victim(q) = FirstLow + 1
  <2> DEFINE v == CHOOSE i \in low : \A j \in low : i <= j
  <2>1. v \in low /\ \A j \in low : v <= j
    BY <1>7, <1>8
  <2>2. Fifo!Victim(q) = v
    BY <1>7 DEF Fifo!Victim, low, q
  <2> HIDE DEF v
  <2>3. v <= FirstLow + 1 /\ FirstLow + 1 <= v /\ v \in 1..N
    BY <1>4, <1>7, <1>8, <2>1
  <2> QED
    BY <2>2, <2>3, <1>7
<1>10. /\ Squeezed \in [Slots -> E]
       /\ View(Squeezed, h, N - 1) = Fifo!Without(q, FirstLow + 1)
  <2>1. Squeezed = Squeeze(event_buf, h, N, FirstLow)
    BY <1>1 DEF Squeezed, Squeeze, queue_idx_from_head, N, h
  <2>2. h \in Slots /\ q = View(event_buf, h, N)
    BY <1>1, RetainedIs DEF RingOK, h, q
  <2>3. /\ Squeezed \in [Slots -> E]
        /\ View(Squeezed, h, N - 1) = Fifo!Without(View(event_buf, h, N), FirstLow + 1)
    BY <2>1, <2>2, <1>1, <1>7, ViewSqueeze
  <2> QED
    BY <2>2, <2>3
<1>11. r = [buf |-> Squeezed, head |-> h, tail |-> TailIdx, count |-> event_count - 1]
  BY DEF MakeRoom, h
<1>12. TailIdx = (h + (N - 1)) % N
  BY <1>1, TailIdxIs DEF h
<1> QED
  BY <1>1, <1>9, <1>10, <1>11, <1>12 DEF Roomy, RingOK, h, q

\* event_enqueue is Put: the queue afterwards is Enqueue of the queue before, and ends
\* with the event that was put in.
LEMMA EnqueueIsPut ==
  ASSUME RingOK, event_enqueue
  PROVE  /\ RingOK'
         /\ Retained' = Fifo!Enqueue(Retained, Head(irq), N)
         /\ Retained' # <<>> /\ Retained'[Len(Retained')] = Head(irq)
         /\ ev' = ev
<1> DEFINE e == Head(irq)
           E == {event_buf[s] : s \in Slots} \cup {e}
           q == Retained
           n == event_count
           h == event_head
<1>1. event_buf \in [Slots -> E] /\ e \in E /\ h \in Slots /\ n \in 0..N
  BY DEF RingOK
<1>2. N \in Nat \ {0} /\ h \in 0..(N - 1)
  BY <1>1, NFacts
<1>3. ev' = ev
  BY DEF event_enqueue
<1> HIDE DEF E, e
<1>4. q = View(event_buf, h, n) /\ Shows(q, E, event_buf, h, n)
  BY <1>1, RetainedIs, ViewType
<1>5. Retained' = View(event_buf', event_head', event_count')
  BY DEF Retained, View, queue_idx_from_head, N
<1>6. Fifo!Merges(q, e) <=> Coalesces(e)
  <2>1. CASE n = 0
    BY <2>1, <1>4 DEF Shows, Coalesces, Fifo!Merges
  <2>2. CASE n # 0
    <3>1. n \in 1..n /\ Len(q) = n
      BY <1>1, <1>4, <2>2 DEF Shows
    <3>2. q # <<>>
      BY <3>1, <2>2
    <3>3. q[n] = event_buf[TailIdx]
      BY <1>4, <2>2, <3>1, TailIdxIs DEF Shows
    <3> QED
      BY <3>1, <3>2, <3>3, <2>2 DEF Coalesces, Fifo!Merges, Fifo!Low, is_low_priority_event
  <2> QED
    BY <2>1, <2>2
<1>7. CASE Coalesces(e)
  <2>1. /\ event_buf' = [event_buf EXCEPT ![TailIdx] = e]
        /\ event_head' = h /\ event_tail' = event_tail /\ event_count' = n
    BY <1>7 DEF event_enqueue, e
  <2>2. n # 0 /\ n \in 1..N /\ TailIdx = (h + (n - 1)) % N
    BY <1>1, <1>7, TailIdxIs DEF Coalesces
  <2>3. Retained' = [q EXCEPT ![n] = e]
    <3>1. View(Written(event_buf, (h + (n - 1)) % N, e), h, n) = Written(View(event_buf, h, n), n, e)
      BY <2>2, <1>1, ViewOverwrite
    <3>2. event_buf' = Written(event_buf, (h + (n - 1)) % N, e)
      BY <2>1, <2>2 DEF Written
    <3>3. Retained' = View(Written(event_buf, (h + (n - 1)) % N, e), h, n)
      BY <2>1, <3>2, <1>5
    <3> QED
      BY <3>1, <3>3, <1>4 DEF Written
  <2>4. [q EXCEPT ![n] = e] \in Seq(E) /\ Len([q EXCEPT ![n] = e]) = n /\ [q EXCEPT ![n] = e][n] = e
    <3>1. q \in [1..n -> E] /\ n \in 1..n /\ n \in Nat
      BY <1>4, <2>2, LenProperties DEF Shows
    <3>2. [q EXCEPT ![n] = e] \in [1..n -> E]
      BY <3>1, <1>1
    <3> QED
      BY <3>1, <3>2, SeqOf
  <2>5. RingOK'
    <3>1. event_buf' = [s \in Slots |-> event_buf'[s]]
      BY <1>1, <2>1
    <3> QED
      BY <3>1, <2>1 DEF RingOK
  <2>6. Fifo!Enqueue(q, e, N) = [q EXCEPT ![n] = e]
    BY <1>4, <1>6, <1>7 DEF Fifo!Enqueue, Shows
  <2> QED
    BY <2>2, <2>3, <2>4, <2>5, <2>6, <1>3 DEF e
<1>8. CASE ~Coalesces(e)
  <2> DEFINE r == MakeRoom
             kept == IF Full THEN Fifo!Without(q, Fifo!Victim(q)) ELSE q
  <2>1. /\ event_buf' = [r.buf EXCEPT ![r.tail] = e] /\ event_head' = r.head
        /\ event_tail' = (r.tail + 1) % N /\ event_count' = r.count + 1
    BY <1>8 DEF event_enqueue, e, N
  <2>2. Full <=> Len(q) >= N
    BY <1>4 DEF Shows, Full, N
  <2>3. /\ r.buf \in [Slots -> E] /\ r.head \in Slots /\ r.count \in 0..(N - 1)
        /\ r.tail = (r.head + r.count) % N
        /\ View(r.buf, r.head, r.count) = kept
    <3>1. CASE Full
      <4>1. Roomy(r, E)
        BY <3>1, <1>1, RoomFromOldest, RoomFromLow
      <4>2. N - 1 \in 0..(N - 1)
        BY <1>2
      <4> QED
        BY <3>1, <4>1, <4>2 DEF Roomy
    <3>2. CASE ~Full
      <4>1. r = [buf |-> event_buf, head |-> h, tail |-> event_tail, count |-> n]
        BY <3>2 DEF MakeRoom
      <4>2. n \in 0..(N - 1)
        BY <3>2, <1>1, <1>2 DEF Full, N
      <4> QED
        BY <3>2, <4>1, <4>2, <1>1, <1>4 DEF RingOK
    <3> QED
      BY <3>1, <3>2
  <2> HIDE DEF r, kept
  <2>4. r.count \in 0..N /\ r.count + 1 \in 0..N /\ r.count + 1 \in Nat \ {0}
    BY <2>3, <1>2
  <2>5. (r.head + r.count) % N \in Slots
    BY <2>3, <2>4, <1>2, NFacts, Wrap
  <2>6. Retained' = Append(kept, e)
    <3>1. View(Written(r.buf, (r.head + r.count) % N, e), r.head, r.count + 1)
            = Append(View(r.buf, r.head, r.count), e)
      BY ZenonT(40), <2>3, <1>1, ViewAppend
    <3>2. event_buf' = Written(r.buf, (r.head + r.count) % N, e)
      BY <2>1, <2>3 DEF Written
    <3>3. Retained' = View(Written(r.buf, (r.head + r.count) % N, e), r.head, r.count + 1)
      BY <2>1, <3>2, <1>5
    <3> QED
      BY <3>1, <3>3, <2>3
  <2>7. kept \in Seq(E)
    <3>1. Shows(View(r.buf, r.head, r.count), E, r.buf, r.head, r.count)
      BY <2>3, <2>4, ViewType
    <3> QED
      BY <3>1, <2>3 DEF Shows
  <2>8. Append(kept, e) # <<>> /\ Append(kept, e)[Len(Append(kept, e))] = e
    BY <2>7, <1>1, AppendProperties
  <2>9. RingOK'
    <3>1. event_buf' \in [Slots -> E]
      BY <2>1, <2>3, <1>1
    <3>2. event_buf' = [s \in Slots |-> event_buf'[s]]
      BY <3>1
    <3>3. r.head \in 0..(N - 1) /\ 1 \in 0..N
      BY <2>3, <1>2, NFacts
    <3>4. (((r.head + r.count) % N) + 1) % N = (r.head + (r.count + 1)) % N
      BY <3>3, <2>4, <1>2, Further
    <3> QED
      BY <2>1, <2>3, <2>4, <3>2, <3>4 DEF RingOK
  <2>10. Fifo!Enqueue(q, e, N) = Append(kept, e)
    BY <1>6, <1>8, <2>2 DEF Fifo!Enqueue, kept
  <2> QED
    BY <2>6, <2>8, <2>9, <2>10, <1>3 DEF e
<1> QED
  BY <1>7, <1>8

\* event_dequeue is Take, or changes nothing when the ring is empty.
LEMMA DequeueIsTake ==
  ASSUME RingOK, DequeueTake
  PROVE  RingOK' /\ (Fifo!Take \/ (Retained' = Retained /\ ev' = ev))
<1> DEFINE E == {event_buf[s] : s \in Slots}
           n == event_count
           h == event_head
<1>1. event_buf \in [Slots -> E] /\ h \in Slots /\ n \in 0..N /\ N \in Nat \ {0} /\ h \in 0..(N - 1)
  BY NFacts DEF RingOK
<1>2. Retained = View(event_buf, h, n) /\ Retained' = View(event_buf', event_head', event_count')
  BY DEF Retained, View, queue_idx_from_head, N
<1> HIDE DEF E
<1>3. CASE n = 0
  <2>1. event_buf' = event_buf /\ event_head' = h /\ event_count' = n /\ event_tail' = event_tail /\ ev' = ev
    BY <1>3 DEF DequeueTake, ring
  <2> QED
    BY <2>1, <1>2 DEF RingOK
<1>4. CASE n # 0
  <2>1. /\ event_buf' = event_buf /\ event_head' = (h + 1) % N /\ event_count' = n - 1
        /\ event_tail' = event_tail /\ ev' = event_buf[h]
    BY <1>4 DEF DequeueTake, N
  <2>2. n \in 1..N /\ n - 1 \in 0..N /\ 1 \in 0..N /\ 1 + (n - 1) = n
    BY <1>1, <1>4
  <2>3. /\ Retained # <<>> /\ Head(Retained) = event_buf[h]
        /\ View(event_buf, (h + 1) % N, n - 1) = Tail(Retained)
        /\ (h + 1) % N \in Slots
    BY <2>2, <1>1, <1>2, ViewTail
  <2>4. (((h + 1) % N) + (n - 1)) % N = (h + n) % N
    BY <2>2, <1>1, Further
  <2>5. RingOK'
    BY <2>1, <2>2, <2>3, <2>4 DEF RingOK
  <2>6. Retained' = Tail(Retained)
    BY <2>1, <2>3, <1>2
  <2> QED
    BY <2>1, <2>3, <2>5, <2>6 DEF Fifo!Take
<1> QED
  BY <1>3, <1>4

\* No other step touches the ring or the event in the desktop's hands.
LEMMA OthersKeepRing ==
  ASSUME \/ Device \/ KeyboardIrq \/ MouseIrq \/ TimerIrq
         \/ DequeueLock \/ Dispatch \/ RedrawAndHalt \/ UNCHANGED vars
  PROVE  /\ event_buf' = event_buf /\ event_head' = event_head
         /\ event_tail' = event_tail /\ event_count' = event_count /\ ev' = ev
  BY DEF Device, KeyDown, KeyUp, MouseReport, KeyboardIrq, MouseIrq, TimerIrq, DequeueLock, Dispatch,
         RedrawAndHalt, vars, ring

\* Every step keeps the ring in order and is a step of the queue, or none.
LEMMA StepRefines ==
  ASSUME RingOK, [Next]_vars
  PROVE  RingOK' /\ [Fifo!Next]_<<Retained, ev>>
<1>1. CASE event_enqueue
  <2>1. /\ RingOK' /\ ev' = ev
        /\ Retained' = Fifo!Enqueue(Retained, Head(irq), N)
        /\ Retained' # <<>> /\ Retained'[Len(Retained')] = Head(irq)
    BY <1>1, EnqueueIsPut
  <2>2. Fifo!Put(Retained'[Len(Retained')])
    BY <2>1 DEF Fifo!Put, N
  <2> QED
    BY <2>1, <2>2 DEF Fifo!Next
<1>2. CASE DequeueTake
  BY <1>2, DequeueIsTake DEF Fifo!Next
<1>3. CASE \/ Device \/ KeyboardIrq \/ MouseIrq \/ TimerIrq
           \/ DequeueLock \/ Dispatch \/ RedrawAndHalt \/ UNCHANGED vars
  <2>1. /\ event_buf' = event_buf /\ event_head' = event_head
        /\ event_tail' = event_tail /\ event_count' = event_count /\ ev' = ev
    BY <1>3, OthersKeepRing
  <2>2. Retained' = Retained
    BY <2>1 DEF Retained, queue_idx_from_head
  <2> QED
    BY <2>1, <2>2 DEF RingOK
<1> QED
  BY <1>1, <1>2, <1>3 DEF Next, Desktop

-----------------------------------------------------------------------------
(* What a row of reports makes of a belief.                                *)
(*                                                                         *)
(* A belief about one thing, a key or the buttons, is sure if it is true   *)
(* and stays true when low-value events are dropped.  Firm is a set of     *)
(* reports that make it sure, Against one of reports that contradict it.   *)

Sure == "sure"
Unsure == "unsure"

\* The belief after one report, and after a row of them.
Hear(e, Firm, Against, b) ==
  IF e \in Firm \/ (b = Sure /\ e \notin Against) THEN Sure ELSE Unsure
Belief(q, Firm, Against, b) ==
  IF \/ \E i \in 1..Len(q) : q[i] \in Firm /\ \A j \in 1..Len(q) : j > i => q[j] \notin Against
     \/ b = Sure /\ \A j \in 1..Len(q) : q[j] \notin Against
  THEN Sure ELSE Unsure

-----------------------------------------------------------------------------
(* The reports on their way. *)

Sent == [id : {"key", "keyup", "mousemove", "mousedown", "mouseup", "rightclick"},
         key : Int, x : Int, y : Int]
KeyCodes == {KeycodeOf(k) : k \in Keys}
\* The events of the two handlers: those of the keyboard are about its keys.
Known == {e \in Sent : IsKey(e) => e.key \in KeyCodes}

\* The bytes on the keyboard's wire, when p came before them; 256 marks a byte with
\* a prefix.  The event of a marked byte, or NoEvent.
Before(p, w, i) == IF i = 1 THEN p ELSE w[i - 1]
Marked(p, w) == [i \in 1..Len(w) |-> IF Before(p, w, i) = 224 THEN w[i] + 256 ELSE w[i]]
Decoded(ext, sc) ==
  LET es == ps2kbd_handler(ext, sc).events IN IF es = <<>> THEN NoEvent ELSE es[1]
MarkedEvent(m) == IF m >= 256 THEN Decoded(TRUE, m - 256) ELSE Decoded(FALSE, m)
LastByte == IF g_ext_prefix THEN 224 ELSE 0
Scans == Marked(LastByte, kbwire)

\* The reports that the key with code c is up or down.
Says(c, id) == {e \in Sent : e.id = id /\ e.key = c}
ScanSays(c, id) == {m \in Nat : MarkedEvent(m) \in Says(c, id)}
IdOf(k) == IF k \in held THEN "key" ELSE "keyup"
NotId(id) == IF id = "key" THEN "keyup" ELSE "key"
KeyTold(c, id, keys) == IF c \in keys <=> id = "key" THEN Sure ELSE Unsure

\* Those that change the buttons to v, and those that report something else.
ClickTo(v) == {e \in Sent : e.id \in {"mousedown", "mouseup", "rightclick"} /\ e.key = v}
NotAt(v) == {e \in Sent : ~IsKey(e) /\ e.key # v}
ButtonsTold(v, b) == IF b = v THEN Sure ELSE Unsure

\* The belief after the events the desktop has in hand, in the ring and in the handler.
Front(Firm, Against, b) == IF pc = "dispatch" THEN Hear(ev, Firm, Against, b) ELSE b
Queued(Firm, Against, b) ==
  Belief(irq, Firm, Against, Belief(Retained, Firm, Against, Front(Firm, Against, b)))

KeyQueued(c, id) == Queued(Says(c, id), Says(c, NotId(id)), KeyTold(c, id, told.keys))
ButtonsQueued(v) == Queued(ClickTo(v), NotAt(v), ButtonsTold(v, told.buttons))

-----------------------------------------------------------------------------
(* The inductive invariant. *)

\* No two keys have the same code (Alt and the digit 8 do: a code that has no
\* character is the scan code itself, and 56 is the character 8).
DistinctCodes == \A k, l \in Keys : KeycodeOf(k) = KeycodeOf(l) => k = l

KeyboardShapes ==
  /\ held \subseteq Keys /\ kbwire \in Seq(0..255) /\ g_ext_prefix \in BOOLEAN
  /\ \A i \in 1..Len(kbwire) : MarkedEvent(Scans[i]) \in Known \cup {NoEvent}
  /\ g_ctrl_down \in BOOLEAN
MouseShapes ==
  /\ buttons \in 0..7 /\ mwire \in Seq(Int) /\ cur \in Int \X Int
  /\ mouse \in [cycle : 0..2, bytes : Int \X Int, prev : 0..7]
QueueShapes ==
  /\ RingOK /\ irq \in Seq(Known) /\ Retained \in Seq(Known)
  /\ pc = "dispatch" => ev \in Known
  /\ told \in [buttons : Int, keys : SUBSET KeyCodes]

\* A prefix is followed by the code it belongs to.
PrefixSound ==
  /\ kbwire # <<>> => kbwire[Len(kbwire)] # 224
  /\ kbwire = <<>> => ~g_ext_prefix

\* The mouse's bytes are whole packets but for what the driver has of the first; the
\* last status byte has the buttons.
PacketsSound ==
  /\ (Len(mwire) + mouse.cycle) % 3 = 0
  /\ \A i \in 1..Len(mwire) : (i + mouse.cycle) % 3 = 1 => Bit(mwire[i], 8)
  /\ IF Len(mwire) >= 3 THEN mwire[Len(mwire) - 2] % 8 = buttons
     ELSE IF mouse.cycle # 0 THEN mouse.bytes[1] % 8 = buttons
     ELSE mouse.prev = buttons

\* Of each key, what is on its way leaves the consumer with the truth.
KeysFollow ==
  ~lost => \A k \in Keys :
    Belief(Scans, ScanSays(KeycodeOf(k), IdOf(k)), ScanSays(KeycodeOf(k), NotId(IdOf(k))),
           KeyQueued(KeycodeOf(k), IdOf(k))) = Sure

\* Of the buttons, with what the driver last reported.
ButtonsFollow == ~lost => ButtonsQueued(mouse.prev) = Sure

\* Of the left Ctrl key, on the way to the terminal.
CtrlMake == IF "ctrl" \in held THEN {29} ELSE {157}
CtrlBreak == IF "ctrl" \in held THEN {157} ELSE {29}
CtrlTold == IF g_ctrl_down <=> "ctrl" \in held THEN Sure ELSE Unsure
CtrlFollows == "ctrl" \in Keys => Belief(Scans, CtrlMake, CtrlBreak, CtrlTold) = Sure

TrackInv ==
  /\ KeyboardShapes /\ MouseShapes /\ QueueShapes
  /\ PrefixSound /\ PacketsSound
  /\ KeysFollow /\ ButtonsFollow /\ CtrlFollows

\* A sequence without one of its elements.
LEMMA WithoutIs ==
  ASSUME NEW E, NEW q \in Seq(E), NEW n \in 1..Len(q)
  PROVE  LET w == Fifo!Without(q, n)
         IN  /\ Len(q) \in Nat \ {0} /\ w \in Seq(E) /\ Len(w) = Len(q) - 1
             /\ \A j \in 1..(Len(q) - 1) : w[j] = IF j < n THEN q[j] ELSE q[j + 1]
<1> DEFINE w == Fifo!Without(q, n)
<1>1. Len(q) \in Nat \ {0} /\ \A j \in 1..Len(q) : q[j] \in E
  BY LenProperties, ElementOfSeq
<1>2. w = [j \in 1..(Len(q) - 1) |-> IF j < n THEN q[j] ELSE q[j + 1]]
  BY DEF Fifo!Without
<1> HIDE DEF w
<1>3. \A j \in 1..(Len(q) - 1) : j \in 1..Len(q) /\ j + 1 \in 1..Len(q)
  BY <1>1
<1>4. w \in [1..(Len(q) - 1) -> E] /\ Len(q) - 1 \in Nat
  BY <1>1, <1>2, <1>3
<1> QED
  BY <1>1, <1>2, <1>4, SeqOf DEF w

-----------------------------------------------------------------------------
(* How a belief passes along. *)

\* Nothing on its way: the belief is what it was.
LEMMA BeliefEmpty ==
  ASSUME NEW Firm, NEW Against, NEW b
  PROVE  Belief(<<>>, Firm, Against, b) = Sure <=> b = Sure
  BY DEF Belief, Sure, Unsure

\* What is sure of a belief holds of a better one.
LEMMA BeliefMore ==
  ASSUME NEW q, NEW Firm, NEW Against, NEW b, NEW c, b = Sure => c = Sure,
         Belief(q, Firm, Against, b) = Sure
  PROVE  Belief(q, Firm, Against, c) = Sure
  BY DEF Belief, Sure, Unsure

\* The first report is heard first.
LEMMA BeliefHead ==
  ASSUME NEW E, NEW q \in Seq(E), q # <<>>, NEW Firm, NEW Against, NEW b,
         Belief(q, Firm, Against, b) = Sure
  PROVE  Belief(Tail(q), Firm, Against, Hear(Head(q), Firm, Against, b)) = Sure
<1> DEFINE t == Tail(q)
           h == Head(q)
<1>1. /\ t \in Seq(E) /\ Len(t) = Len(q) - 1 /\ Len(q) \in Nat \ {0} /\ h = q[1]
      /\ \A i \in 1..Len(t) : t[i] = q[i + 1]
  BY HeadTailProperties, EmptySeq, LenProperties
<1> HIDE DEF t, h
<1>2. CASE b = Sure /\ \A j \in 1..Len(q) : q[j] \notin Against
  <2>1. h \notin Against /\ \A j \in 1..Len(t) : t[j] \notin Against
    BY <1>1, <1>2
  <2> QED
    BY <1>2, <2>1 DEF Belief, Hear, t, h
<1>3. CASE \E i \in 1..Len(q) : q[i] \in Firm /\ \A j \in 1..Len(q) : j > i => q[j] \notin Against
  <2>1. PICK i \in 1..Len(q) : q[i] \in Firm /\ \A j \in 1..Len(q) : j > i => q[j] \notin Against
    BY <1>3
  <2>2. CASE i = 1
    <3>1. h \in Firm /\ \A j \in 1..Len(t) : t[j] \notin Against
      BY <1>1, <2>1, <2>2
    <3> QED
      BY <3>1 DEF Belief, Hear, t, h
  <2>3. CASE i # 1
    <3>1. i - 1 \in 1..Len(t) /\ t[i - 1] \in Firm
      BY <1>1, <2>1, <2>3
    <3>2. \A j \in 1..Len(t) : j > i - 1 => t[j] \notin Against
      BY <1>1, <2>1, <2>3
    <3> QED
      BY <3>1, <3>2 DEF Belief, t
  <2> QED
    BY <2>2, <2>3
<1> QED
  BY <1>2, <1>3 DEF Belief, Sure, Unsure

\* ... and the last one last.
LEMMA BeliefLast ==
  ASSUME NEW E, NEW q \in Seq(E), NEW e \in E, NEW Firm, NEW Against, NEW b,
         Hear(e, Firm, Against, Belief(q, Firm, Against, b)) = Sure
  PROVE  Belief(Append(q, e), Firm, Against, b) = Sure
<1> DEFINE a == Append(q, e)
<1>1. /\ Len(q) \in Nat /\ Len(a) = Len(q) + 1 /\ a[Len(q) + 1] = e
      /\ \A i \in 1..Len(q) : a[i] = q[i]
  BY AppendProperties, LenProperties
<1> HIDE DEF a
<1>2. CASE e \in Firm
  <2>1. Len(q) + 1 \in 1..Len(a) /\ a[Len(q) + 1] \in Firm
    BY <1>1, <1>2
  <2>2. \A j \in 1..Len(a) : j > Len(q) + 1 => a[j] \notin Against
    BY <1>1
  <2> QED
    BY <2>1, <2>2 DEF Belief, a
<1>3. CASE e \notin Firm
  <2>1. e \notin Against /\ Belief(q, Firm, Against, b) = Sure
    BY <1>3 DEF Hear, Sure, Unsure
  <2>2. CASE b = Sure /\ \A j \in 1..Len(q) : q[j] \notin Against
    <3>1. \A j \in 1..Len(a) : a[j] \notin Against
      BY <1>1, <2>1, <2>2
    <3> QED
      BY <2>2, <3>1 DEF Belief, a
  <2>3. CASE \E i \in 1..Len(q) : q[i] \in Firm /\ \A j \in 1..Len(q) : j > i => q[j] \notin Against
    <3>1. PICK i \in 1..Len(q) : q[i] \in Firm /\ \A j \in 1..Len(q) : j > i => q[j] \notin Against
      BY <2>3
    <3>2. i \in 1..Len(a) /\ a[i] \in Firm
      BY <1>1, <3>1
    <3>3. \A j \in 1..Len(a) : j > i => a[j] \notin Against
      BY <1>1, <2>1, <3>1
    <3> QED
      BY <3>2, <3>3 DEF Belief, a
  <2> QED
    BY <2>1, <2>2, <2>3 DEF Belief, Sure, Unsure
<1> QED
  BY <1>2, <1>3

\* An event that makes nothing sure can be dropped.
LEMMA BeliefWithout ==
  ASSUME NEW E, NEW q \in Seq(E), NEW n \in 1..Len(q), NEW Firm, NEW Against, NEW b,
         q[n] \notin Firm, Belief(q, Firm, Against, b) = Sure
  PROVE  Belief(Fifo!Without(q, n), Firm, Against, b) = Sure
<1> DEFINE w == Fifo!Without(q, n)
<1>1. /\ Len(q) \in Nat \ {0} /\ w \in Seq(E) /\ Len(w) = Len(q) - 1
      /\ \A j \in 1..(Len(q) - 1) : w[j] = IF j < n THEN q[j] ELSE q[j + 1]
  BY WithoutIs
<1> HIDE DEF w
<1>2. \A j \in 1..Len(w) : j \in 1..Len(q) /\ j + 1 \in 1..Len(q)
  BY <1>1
<1>3. CASE b = Sure /\ \A j \in 1..Len(q) : q[j] \notin Against
  <2>1. \A j \in 1..Len(w) : w[j] \notin Against
    BY <1>1, <1>2, <1>3
  <2> QED
    BY <1>3, <2>1 DEF Belief, w
<1>4. CASE \E i \in 1..Len(q) : q[i] \in Firm /\ \A j \in 1..Len(q) : j > i => q[j] \notin Against
  <2>1. PICK i \in 1..Len(q) : q[i] \in Firm /\ \A j \in 1..Len(q) : j > i => q[j] \notin Against
    BY <1>4
  <2> DEFINE m == IF i < n THEN i ELSE i - 1
  <2>2. i # n
    BY <2>1
  <2>3. m \in 1..Len(w) /\ w[m] = q[i]
    BY <1>1, <2>2
  <2>4. \A j \in 1..Len(w) : j > m => w[j] \notin Against
    BY <1>1, <1>2, <2>1, <2>2
  <2> HIDE DEF m
  <2> QED
    BY <2>1, <2>3, <2>4 DEF Belief, w
<1> QED
  BY <1>3, <1>4 DEF Belief, Sure, Unsure

\* More reports, none of which contradicts ...
LEMMA BeliefOn ==
  ASSUME NEW E, NEW q \in Seq(E), NEW r \in Seq(E), NEW Firm, NEW Against, NEW b,
         \A j \in 1..Len(r) : r[j] \notin Against, Belief(q, Firm, Against, b) = Sure
  PROVE  Belief(q \o r, Firm, Against, b) = Sure
<1> DEFINE a == q \o r
<1>1. /\ Len(q) \in Nat /\ Len(r) \in Nat /\ Len(a) = Len(q) + Len(r)
      /\ \A i \in 1..Len(q) + Len(r) : a[i] = IF i <= Len(q) THEN q[i] ELSE r[i - Len(q)]
  BY ConcatProperties, LenProperties
<1> HIDE DEF a
<1>2. \A j \in 1..Len(a) : j > Len(q) => a[j] \notin Against
  <2> SUFFICES ASSUME NEW j \in 1..Len(a), j > Len(q) PROVE a[j] \notin Against
    OBVIOUS
  <2>1. j - Len(q) \in 1..Len(r) /\ a[j] = r[j - Len(q)]
    BY <1>1
  <2> QED
    BY <2>1
<1>3. CASE b = Sure /\ \A j \in 1..Len(q) : q[j] \notin Against
  <2>1. \A j \in 1..Len(a) : a[j] \notin Against
    BY <1>1, <1>2, <1>3
  <2> QED
    BY <1>3, <2>1 DEF Belief, a
<1>4. CASE \E i \in 1..Len(q) : q[i] \in Firm /\ \A j \in 1..Len(q) : j > i => q[j] \notin Against
  <2>1. PICK i \in 1..Len(q) : q[i] \in Firm /\ \A j \in 1..Len(q) : j > i => q[j] \notin Against
    BY <1>4
  <2>2. i \in 1..Len(a) /\ a[i] \in Firm
    BY <1>1, <2>1
  <2>3. \A j \in 1..Len(a) : j > i => a[j] \notin Against
    <3> SUFFICES ASSUME NEW j \in 1..Len(a), j > i PROVE a[j] \notin Against
      OBVIOUS
    <3>1. CASE j <= Len(q)
      BY <3>1, <1>1, <2>1
    <3>2. CASE j > Len(q)
      BY <3>2, <1>2
    <3> QED
      BY <3>1, <3>2, <1>1
  <2> QED
    BY <2>2, <2>3 DEF Belief, a
<1> QED
  BY <1>3, <1>4 DEF Belief, Sure, Unsure

\* ... and more reports of which one is firm and none after it contradicts.
LEMMA BeliefNew ==
  ASSUME NEW E, NEW q \in Seq(E), NEW r \in Seq(E), NEW Firm, NEW Against, NEW b,
         NEW i \in 1..Len(r), r[i] \in Firm, \A j \in 1..Len(r) : j > i => r[j] \notin Against
  PROVE  Belief(q \o r, Firm, Against, b) = Sure
<1> DEFINE a == q \o r
<1>1. /\ Len(q) \in Nat /\ Len(r) \in Nat /\ Len(a) = Len(q) + Len(r)
      /\ \A k \in 1..Len(q) + Len(r) : a[k] = IF k <= Len(q) THEN q[k] ELSE r[k - Len(q)]
  BY ConcatProperties, LenProperties
<1> HIDE DEF a
<1>2. Len(q) + i \in 1..Len(a) /\ a[Len(q) + i] = r[i]
  BY <1>1
<1>3. \A j \in 1..Len(a) : j > Len(q) + i => a[j] \notin Against
  <2> SUFFICES ASSUME NEW j \in 1..Len(a), j > Len(q) + i PROVE a[j] \notin Against
    OBVIOUS
  <2>1. j - Len(q) \in 1..Len(r) /\ a[j] = r[j - Len(q)] /\ j - Len(q) > i
    BY <1>1
  <2> QED
    BY <2>1
<1> QED
  BY <1>2, <1>3 DEF Belief, a

\* A row that is not firm anywhere and contradicts nothing, or one that is firm.
LEMMA BeliefRow ==
  ASSUME NEW E, NEW r \in Seq(E), NEW Firm, NEW Against, NEW b,
         \A j \in 1..Len(r) : r[j] \notin Against,
         b = Sure \/ \E i \in 1..Len(r) : r[i] \in Firm
  PROVE  Belief(r, Firm, Against, b) = Sure
  BY DEF Belief

\* The last report on a topic does not contradict what is sure.
LEMMA LastDecides ==
  ASSUME NEW E, NEW q \in Seq(E), NEW Firm, NEW Against, NEW b, Firm \cap Against = {},
         Belief(q, Firm, Against, b) = Sure, NEW T, Firm \subseteq T
  PROVE  /\ (\A i \in 1..Len(q) : q[i] \notin T) => b = Sure
         /\ \A m \in 1..Len(q) :
              (q[m] \in T /\ \A i \in 1..Len(q) : q[i] \in T => i <= m) => q[m] \notin Against
<1>1. CASE b = Sure /\ \A j \in 1..Len(q) : q[j] \notin Against
  BY <1>1
<1>2. CASE \E i \in 1..Len(q) : q[i] \in Firm /\ \A j \in 1..Len(q) : j > i => q[j] \notin Against
  <2>1. PICK i \in 1..Len(q) : q[i] \in Firm /\ \A j \in 1..Len(q) : j > i => q[j] \notin Against
    BY <1>2
  <2>2. q[i] \in T /\ q[i] \notin Against
    BY <2>1
  <2>3. ASSUME NEW m \in 1..Len(q), \A j \in 1..Len(q) : q[j] \in T => j <= m
        PROVE  q[m] \notin Against
    <3>1. m >= i
      BY <2>2, <2>3, LenProperties
    <3>2. CASE m = i
      BY <3>2, <2>2
    <3>3. CASE m > i
      BY <3>3, <2>1
    <3> QED
      BY <3>1, <3>2, <3>3, LenProperties
  <2> QED
    BY <2>2, <2>3
<1> QED
  BY <1>1, <1>2 DEF Belief, Sure, Unsure

-----------------------------------------------------------------------------
(* Beliefs and the ring. *)

\* Whatever the ring merges or gives up, what is firm stays, unless the oldest event goes.
LEMMA PutBelief ==
  ASSUME NEW E, NEW q \in Seq(E), NEW e \in E, NEW n \in Nat \ {0}, NEW Firm, NEW Against, NEW b,
         \A f \in Firm : ~Fifo!Low(f),
         \/ Fifo!Merges(q, e) \/ Len(q) < n \/ \E i \in 1..Len(q) : Fifo!Low(q[i]),
         Hear(e, Firm, Against, Belief(q, Firm, Against, b)) = Sure
  PROVE  Belief(Fifo!Enqueue(q, e, n), Firm, Against, b) = Sure
<1> DEFINE z == Fifo!Enqueue(q, e, n)
<1>0. Len(q) \in Nat
  BY LenProperties
<1>1. ASSUME NEW v \in 1..Len(q), Fifo!Low(q[v])
      PROVE  Belief(Append(Fifo!Without(q, v), e), Firm, Against, b) = Sure
  <2>1. q[v] \notin Firm
    BY <1>1
  <2>2. Fifo!Without(q, v) \in Seq(E)
    BY WithoutIs
  <2>3. Belief(q, Firm, Against, b) = Sure => Belief(Fifo!Without(q, v), Firm, Against, b) = Sure
    BY <2>1, BeliefWithout
  <2>4. Hear(e, Firm, Against, Belief(Fifo!Without(q, v), Firm, Against, b)) = Sure
    BY <2>3 DEF Hear, Sure, Unsure
  <2> QED
    BY <2>2, <2>4, BeliefLast
<1>2. CASE Fifo!Merges(q, e)
  <2>1. z = [q EXCEPT ![Len(q)] = e] /\ q # <<>> /\ Fifo!Low(q[Len(q)])
    BY <1>2 DEF Fifo!Enqueue, Fifo!Merges, Fifo!Low
  <2>2. Len(q) \in 1..Len(q)
    BY <1>0, <2>1, EmptySeq
  <2>3. z = Append(Fifo!Without(q, Len(q)), e)
    <3> DEFINE w == Fifo!Without(q, Len(q))
    <3>1. /\ w \in Seq(E) /\ Len(w) = Len(q) - 1
          /\ \A j \in 1..(Len(q) - 1) : w[j] = q[j]
      BY <2>2, WithoutIs
    <3> HIDE DEF w
    <3>2. /\ Append(w, e) \in Seq(E) /\ Len(Append(w, e)) = Len(q) /\ Append(w, e)[Len(q)] = e
          /\ \A j \in 1..(Len(q) - 1) : Append(w, e)[j] = q[j]
      BY <3>1, <2>2, AppendProperties
    <3>3. \A j \in 1..Len(q) : Append(w, e)[j] = IF j = Len(q) THEN e ELSE q[j]
      BY <3>2, <2>2
    <3>4. DOMAIN Append(w, e) = 1..Len(q) /\ Append(w, e) = [j \in 1..Len(q) |-> Append(w, e)[j]]
      BY <3>2, LenProperties
    <3>5. q = [j \in 1..Len(q) |-> q[j]] /\ DOMAIN q = 1..Len(q)
      BY LenProperties
    <3>6. [q EXCEPT ![Len(q)] = e] = [j \in 1..Len(q) |-> IF j = Len(q) THEN e ELSE q[j]]
      BY <3>5
    <3> QED
      BY <2>1, <3>3, <3>4, <3>6 DEF w
  <2> QED
    BY <2>1, <2>2, <2>3, <1>1
<1>3. CASE ~Fifo!Merges(q, e) /\ Len(q) < n
  <2>1. z = Append(q, e)
    BY <1>0, <1>3 DEF Fifo!Enqueue
  <2> QED
    BY <2>1, BeliefLast
<1>4. CASE ~Fifo!Merges(q, e) /\ ~(Len(q) < n)
  <2> DEFINE low == {i \in 1..Len(q) : Fifo!Low(q[i])}
             v == CHOOSE i \in low : \A j \in low : i <= j
  <2>1. low # {} /\ low \subseteq Nat
    BY <1>0, <1>4
  <2>2. z = Append(Fifo!Without(q, Fifo!Victim(q)), e)
    BY <1>0, <1>4 DEF Fifo!Enqueue
  <2>3. Fifo!Victim(q) = v
    BY <2>1 DEF Fifo!Victim
  <2> HIDE DEF low
  <2>4. v \in low
    BY <2>1, LeastIn
  <2>5. v \in 1..Len(q) /\ Fifo!Low(q[v])
    BY <2>4 DEF low
  <2> HIDE DEF v
  <2> QED
    BY <2>2, <2>3, <2>5, <1>1
<1> QED
  BY <1>2, <1>3, <1>4

\* The events in the ring after one was put in are those it had, and that one.
LEMMA PutType ==
  ASSUME NEW E, NEW q \in Seq(E), NEW e \in E, NEW n \in Nat \ {0}
  PROVE  Fifo!Enqueue(q, e, n) \in Seq(E)
<1>0. Len(q) \in Nat
  BY LenProperties
<1>1. CASE Fifo!Merges(q, e)
  <2>1. Fifo!Enqueue(q, e, n) = [q EXCEPT ![Len(q)] = e]
    BY <1>1 DEF Fifo!Enqueue
  <2>2. q \in [1..Len(q) -> E]
    BY LenProperties
  <2>3. [q EXCEPT ![Len(q)] = e] \in [1..Len(q) -> E]
    BY <2>2
  <2> QED
    BY <2>1, <2>3, <1>0, SeqOf
<1>2. CASE ~Fifo!Merges(q, e) /\ Len(q) < n
  BY <1>0, <1>2, AppendProperties DEF Fifo!Enqueue
<1>3. CASE ~Fifo!Merges(q, e) /\ ~(Len(q) < n)
  <2> DEFINE low == {i \in 1..Len(q) : Fifo!Low(q[i])}
  <2>1. Fifo!Enqueue(q, e, n) = Append(Fifo!Without(q, Fifo!Victim(q)), e)
    BY <1>0, <1>3 DEF Fifo!Enqueue
  <2>2. Fifo!Victim(q) \in 1..Len(q)
    <3>1. CASE low = {}
      <4>1. Fifo!Victim(q) = 1
        BY <3>1 DEF Fifo!Victim
      <4> QED
        BY <4>1, <1>0, <1>3
    <3>2. CASE low # {}
      <4> DEFINE v == CHOOSE i \in low : \A j \in low : i <= j
      <4>1. Fifo!Victim(q) = v
        BY <3>2 DEF Fifo!Victim
      <4>2. low \subseteq Nat /\ low \subseteq 1..Len(q)
        BY <1>0
      <4> HIDE DEF low
      <4>3. v \in low
        BY <3>2, <4>2, LeastIn
      <4> HIDE DEF v
      <4> QED
        BY <4>1, <4>2, <4>3
    <3> QED
      BY <3>1, <3>2
  <2> QED
    BY <2>1, <2>2, WithoutIs, AppendProperties
<1> QED
  BY <1>1, <1>2, <1>3

\* The ring has as many events as it counts.
LEMMA RetainedLen ==
  ASSUME RingOK
  PROVE  /\ Len(Retained) = event_count
         /\ \A i \in 1..event_count : Retained[i] = event_buf[queue_idx_from_head(i - 1)]
<1> DEFINE E == {event_buf[s] : s \in Slots}
<1>1. event_buf \in [Slots -> E] /\ event_head \in Slots /\ event_count \in 0..N
  BY DEF RingOK
<1> HIDE DEF E
<1>2. Shows(Retained, E, event_buf, event_head, event_count)
  BY <1>1, RetainedIs, ViewType
<1> QED
  BY <1>2 DEF Shows, queue_idx_from_head, N

\* ... which is the count.
LEMMA RetainedCounts == RingOK => Len(Retained) = event_count
  BY RetainedLen

\* An enqueue that overwrites nothing of value keeps what is sure.
LEMMA EnqueueQueued ==
  ASSUME QueueShapes, event_enqueue, ~lost', NEW Firm, NEW Against, NEW b,
         \A f \in Firm : ~Fifo!Low(f), Queued(Firm, Against, b) = Sure
  PROVE  Belief(irq', Firm, Against, Belief(Retained', Firm, Against, Front(Firm, Against, b))) = Sure
<1> DEFINE q == Retained
           e == Head(irq)
           f == Front(Firm, Against, b)
<1>1. /\ irq \in Seq(Known) /\ q \in Seq(Known) /\ RingOK /\ irq # <<>> /\ irq' = Tail(irq)
  BY DEF QueueShapes, event_enqueue
<1>2. e \in Known
  BY <1>1, HeadTailProperties
<1>3. Retained' = Fifo!Enqueue(q, e, N)
  BY <1>1, EnqueueIsPut
<1>4. \/ Fifo!Merges(q, e) \/ Len(q) < N \/ \E i \in 1..Len(q) : Fifo!Low(q[i])
  <2>1. Coalesces(e) \/ ~(Full /\ LowPositions = {})
    BY DEF event_enqueue
  <2>2. Len(q) = event_count /\ \A i \in 1..event_count : q[i] = event_buf[queue_idx_from_head(i - 1)]
    BY <1>1, RetainedLen
  <2>3. event_count \in 0..N /\ N \in Nat \ {0}
    BY <1>1, NFacts DEF RingOK
  <2>4. CASE Coalesces(e)
    <3>1. event_count # 0 /\ event_count \in 1..event_count /\ q # <<>>
      BY <2>2, <2>3, <2>4 DEF Coalesces
    <3>2. q[event_count] = event_buf[TailIdx]
      BY <2>2, <3>1, <1>1, TailIdxIs DEF queue_idx_from_head, N
    <3> QED
      BY <2>2, <2>4, <3>1, <3>2 DEF Coalesces, Fifo!Merges, Fifo!Low, is_low_priority_event
  <2>5. CASE ~Full
    BY <2>2, <2>3, <2>5 DEF Full, N
  <2>6. CASE LowPositions # {}
    <3>1. PICK r \in 0..(event_count - 1) : is_low_priority_event(event_buf[queue_idx_from_head(r)])
      BY <2>6 DEF LowPositions
    <3>2. r + 1 \in 1..event_count /\ (r + 1) - 1 = r
      BY <2>3
    <3>3. Fifo!Low(q[r + 1])
      BY <2>2, <3>1, <3>2 DEF Fifo!Low, is_low_priority_event
    <3> QED
      BY <2>2, <3>2, <3>3
  <2> QED
    BY <2>1, <2>4, <2>5, <2>6
<1>5. Belief(Tail(irq), Firm, Against, Hear(e, Firm, Against, Belief(q, Firm, Against, f))) = Sure
  BY <1>1, BeliefHead DEF Queued
<1>6. Hear(e, Firm, Against, Belief(q, Firm, Against, f)) = Sure
        => Belief(Fifo!Enqueue(q, e, N), Firm, Against, f) = Sure
  <2> HIDE DEF q, e, f
  <2> QED
    BY <1>1, <1>2, <1>4, NFacts, PutBelief
<1> HIDE DEF q, e, f
<1> QED
  BY <1>1, <1>3, <1>5, <1>6, BeliefMore DEF f

\* event_dequeue, as a step of the queue and of the desktop's loop.
LEMMA TakeIs ==
  ASSUME RingOK, DequeueTake
  PROVE  /\ irq' = irq /\ irq = <<>> /\ pc = "locked" /\ told' = told /\ lost' = lost
         /\ \/ Retained' = Retained /\ pc' = "redraw"
            \/ /\ Retained # <<>> /\ ev' = Head(Retained) /\ Retained' = Tail(Retained)
               /\ pc' = "dispatch"
<1>1. irq' = irq /\ irq = <<>> /\ pc = "locked" /\ told' = told /\ lost' = lost
  BY DEF DequeueTake, Runs
<1>2. RingOK' /\ (Fifo!Take \/ (Retained' = Retained /\ ev' = ev))
  BY DequeueIsTake
<1>3. CASE event_count = 0
  <2>1. event_buf' = event_buf /\ event_head' = event_head /\ event_count' = event_count /\ pc' = "redraw"
    BY <1>3 DEF DequeueTake, ring
  <2> QED
    BY <1>1, <2>1 DEF Retained, queue_idx_from_head
<1>4. CASE event_count # 0
  <2>1. pc' = "dispatch" /\ event_count' = event_count - 1
    BY <1>4 DEF DequeueTake
  <2>2. event_count \in Nat
    BY NFacts DEF RingOK
  <2>3. Len(Retained) = event_count
    BY RetainedLen
  <2>4. Len(Retained') = event_count'
    <3>1. (Len(Retained) = event_count)'
      BY <1>2, RetainedCounts, PTL
    <3> QED
      BY <3>1
  <2>5. Retained' # Retained
    BY <2>1, <2>2, <2>3, <2>4
  <2> QED
    BY <1>1, <1>2, <2>1, <2>5 DEF Fifo!Take
<1> QED
  BY <1>3, <1>4

-----------------------------------------------------------------------------
(* The keyboard's wire. *)

\* A byte, marked or not, is a number.
LEMMA ByteNat == \A x \in 0..255 : x \in Nat /\ x + 256 \in Nat
  OBVIOUS

\* A marked wire is as long as the wire.
LEMMA MarkedIs ==
  ASSUME NEW p, NEW w \in Seq(0..255)
  PROVE  /\ Marked(p, w) \in Seq(Nat) /\ Len(Marked(p, w)) = Len(w) /\ Len(w) \in Nat
         /\ \A i \in 1..Len(w) :
              Marked(p, w)[i] = IF Before(p, w, i) = 224 THEN w[i] + 256 ELSE w[i]
<1>1. Len(w) \in Nat /\ \A i \in 1..Len(w) : w[i] \in 0..255
  BY LenProperties, ElementOfSeq
<1>2. Marked(p, w) \in [1..Len(w) -> Nat]
  <2>1. ASSUME NEW i \in 1..Len(w) PROVE w[i] \in Nat /\ w[i] + 256 \in Nat
    <3>1. w[i] \in 0..255
      BY <1>1
    <3> QED
      BY <3>1, ByteNat
  <2> QED
    BY <2>1 DEF Marked
<1>3. Marked(p, w) \in Seq(Nat) /\ Len(Marked(p, w)) = Len(w)
  BY <1>1, <1>2, SeqOf
<1> QED
  BY <1>1, <1>3 DEF Marked

\* The first byte taken off the wire is what came before the rest.
LEMMA MarkedTail ==
  ASSUME NEW p, NEW w \in Seq(0..255), w # <<>>, NEW p2, p2 = 224 <=> Head(w) = 224
  PROVE  /\ Marked(p, w) # <<>>
         /\ Head(Marked(p, w)) = IF p = 224 THEN Head(w) + 256 ELSE Head(w)
         /\ Tail(Marked(p, w)) = Marked(p2, Tail(w))
<1> DEFINE a == Marked(p, w)
           t == Tail(w)
           z == Marked(p2, t)
<1>1. /\ t \in Seq(0..255) /\ Len(t) = Len(w) - 1 /\ Len(w) \in Nat \ {0} /\ Head(w) = w[1]
      /\ \A i \in 1..Len(t) : t[i] = w[i + 1]
  BY HeadTailProperties, EmptySeq, LenProperties
<1> HIDE DEF t
<1>2. /\ a \in Seq(Nat) /\ Len(a) = Len(w)
      /\ \A i \in 1..Len(w) : a[i] = IF Before(p, w, i) = 224 THEN w[i] + 256 ELSE w[i]
  BY MarkedIs
<1>3. /\ z \in Seq(Nat) /\ Len(z) = Len(t)
      /\ \A i \in 1..Len(t) : z[i] = IF Before(p2, t, i) = 224 THEN t[i] + 256 ELSE t[i]
  BY <1>1, MarkedIs
<1> HIDE DEF a, z
<1>4. a # <<>>
  BY <1>1, <1>2, EmptySeq
<1>5. Tail(a) \in Seq(Nat) /\ Len(Tail(a)) = Len(t) /\ \A i \in 1..Len(t) : Tail(a)[i] = a[i + 1]
  BY <1>1, <1>2, <1>4, HeadTailProperties
<1>6. ASSUME NEW i \in 1..Len(t) PROVE Tail(a)[i] = z[i]
  <2>1. i + 1 \in 1..Len(w) /\ i + 1 # 1 /\ (i + 1) - 1 = i
    BY <1>1
  <2>2. Before(p, w, i + 1) = w[i]
    BY <2>1 DEF Before
  <2>3. Before(p2, t, i) = 224 <=> w[i] = 224
    <3>1. CASE i = 1
      BY <3>1, <1>1 DEF Before
    <3>2. CASE i # 1
      <4>1. i - 1 \in 1..Len(t) /\ (i - 1) + 1 = i
        BY <3>2, <1>1
      <4> QED
        BY <3>2, <4>1, <1>1 DEF Before
    <3> QED
      BY <3>1, <3>2
  <2> QED
    BY <1>1, <1>2, <1>3, <1>5, <2>1, <2>2, <2>3
<1> DEFINE y == Tail(a)
<1>y. y \in Seq(Nat) /\ Len(y) = Len(z) /\ \A i \in 1..Len(y) : y[i] = z[i]
  BY <1>3, <1>5, <1>6
<1> HIDE DEF y
<1>7. y = z
  BY <1>y, <1>3, SeqEqual
<1>8. Head(a) = a[1] /\ 1 \in 1..Len(w) /\ Before(p, w, 1) = p
  BY <1>1, <1>2, <1>4 DEF Before
<1> QED
  BY <1>1, <1>2, <1>4, <1>7, <1>8 DEF a, z, t, y

\* What is put on a wire that does not end in a prefix is read as it is.
LEMMA MarkedMore ==
  ASSUME NEW p, NEW w \in Seq(0..255), NEW s \in Seq(0..255),
         IF w = <<>> THEN p # 224 ELSE w[Len(w)] # 224
  PROVE  Marked(p, w \o s) = Marked(p, w) \o Marked(0, s)
<1> DEFINE v == w \o s
           a == Marked(p, w)
           b == Marked(0, s)
           z == Marked(p, v)
<1>1. /\ Len(w) \in Nat /\ Len(s) \in Nat /\ v \in Seq(0..255) /\ Len(v) = Len(w) + Len(s)
      /\ \A i \in 1..Len(w) + Len(s) : v[i] = IF i <= Len(w) THEN w[i] ELSE s[i - Len(w)]
  BY ConcatProperties, LenProperties
<1> HIDE DEF v
<1>2. /\ a \in Seq(Nat) /\ Len(a) = Len(w)
      /\ \A i \in 1..Len(w) : a[i] = IF Before(p, w, i) = 224 THEN w[i] + 256 ELSE w[i]
  BY MarkedIs
<1>3. /\ b \in Seq(Nat) /\ Len(b) = Len(s)
      /\ \A i \in 1..Len(s) : b[i] = IF Before(0, s, i) = 224 THEN s[i] + 256 ELSE s[i]
  BY MarkedIs
<1>a. v \in Seq(0..255)
  BY <1>1
<1>4. /\ z \in Seq(Nat) /\ Len(z) = Len(v)
      /\ \A i \in 1..Len(v) : z[i] = IF Before(p, v, i) = 224 THEN v[i] + 256 ELSE v[i]
  BY <1>a, MarkedIs
<1> HIDE DEF a, b, z
<1>5. /\ a \o b \in Seq(Nat) /\ Len(a \o b) = Len(v)
      /\ \A i \in 1..Len(v) : (a \o b)[i] = IF i <= Len(w) THEN a[i] ELSE b[i - Len(w)]
  <2>1. /\ a \o b \in Seq(Nat) /\ Len(a \o b) = Len(a) + Len(b)
        /\ \A i \in 1..Len(a) + Len(b) : (a \o b)[i] = IF i <= Len(a) THEN a[i] ELSE b[i - Len(a)]
    <3>1. a \in Seq(Nat) /\ b \in Seq(Nat)
      BY <1>2, <1>3
    <3> QED
      BY <3>1, ConcatProperties
  <2>2. Len(a) = Len(w) /\ Len(b) = Len(s) /\ Len(v) = Len(w) + Len(s)
    BY <1>1, <1>2, <1>3
  <2> QED
    BY <2>1, <2>2
<1> DEFINE c == a \o b
<1>7. /\ c \in Seq(Nat) /\ Len(c) = Len(v)
      /\ \A i \in 1..Len(v) : c[i] = IF i <= Len(w) THEN a[i] ELSE b[i - Len(w)]
  BY <1>5
<1> HIDE DEF c
<1>6. ASSUME NEW i \in 1..Len(v) PROVE z[i] = c[i]
  <2>1. CASE i <= Len(w)
    <3>1. Before(p, v, i) = Before(p, w, i)
      <4>1. CASE i = 1
        BY <4>1 DEF Before
      <4>2. CASE i # 1
        <5>1. i - 1 \in 1..Len(w) + Len(s) /\ i - 1 <= Len(w)
          BY <4>2, <2>1, <1>1
        <5> QED
          BY <4>2, <5>1, <1>1 DEF Before
      <4> QED
        BY <4>1, <4>2
    <3>2. v[i] = w[i] /\ i \in 1..Len(w)
      BY <2>1, <1>1
    <3>3. c[i] = a[i] /\ a[i] = (IF Before(p, w, i) = 224 THEN w[i] + 256 ELSE w[i])
      BY <2>1, <3>2, <1>2, <1>7
    <3>4. z[i] = IF Before(p, v, i) = 224 THEN w[i] + 256 ELSE w[i]
      BY <3>2, <1>4
    <3> QED
      BY <3>1, <3>3, <3>4
  <2>2. CASE ~(i <= Len(w))
    <3> DEFINE j == i - Len(w)
    <3>1. j \in 1..Len(s) /\ v[i] = s[j]
      BY <2>2, <1>1
    <3>2. Before(p, v, i) = 224 <=> Before(0, s, j) = 224
      <4>1. CASE j = 1
        <5>1. CASE w = <<>>
          BY <4>1, <5>1, <1>1 DEF Before
        <5>2. CASE w # <<>>
          <6>1. Len(w) \in 1..Len(w) + Len(s) /\ i # 1 /\ i - 1 = Len(w)
            BY <4>1, <5>2, <1>1, EmptySeq
          <6>2. v[Len(w)] = w[Len(w)]
            BY <6>1, <1>1
          <6> QED
            BY <4>1, <5>2, <6>1, <6>2 DEF Before
        <5> QED
          BY <5>1, <5>2
      <4>2. CASE j # 1
        <5>1. /\ i - 1 \in 1..Len(w) + Len(s) /\ ~(i - 1 <= Len(w)) /\ (i - 1) - Len(w) = j - 1
              /\ i # 1
          BY <4>2, <3>1, <1>1
        <5>2. v[i - 1] = s[j - 1]
          BY <5>1, <1>1
        <5>3. Before(p, v, i) = v[i - 1] /\ Before(0, s, j) = s[j - 1]
          BY <4>2, <5>1 DEF Before
        <5> QED
          BY <5>2, <5>3
      <4> QED
        BY <4>1, <4>2
    <3>3. c[i] = b[j] /\ b[j] = (IF Before(0, s, j) = 224 THEN s[j] + 256 ELSE s[j])
      BY <2>2, <3>1, <1>3, <1>7
    <3>4. z[i] = IF Before(p, v, i) = 224 THEN s[j] + 256 ELSE s[j]
      BY <3>1, <1>4
    <3> QED
      BY <3>2, <3>3, <3>4
  <2> QED
    BY <2>1, <2>2
<1> QED
  <2>1. z = c
    BY <1>4, <1>7, <1>6, SeqEqual
  <2> QED
    BY <2>1 DEF a, b, z, v, c

\* A keyboard event.
Report(id, c) == [id |-> id, key |-> c, x |-> 0, y |-> 0]

\* The table of characters, and with it every keycode, has numbers only.
LEMMA KeycodeInt ==
  ASSUME NEW code \in 0..127
  PROVE  Keycode(TRUE, code) \in Int /\ Keycode(FALSE, code) \in Int
<1>1. Len(scan_to_key) = 58 /\ \A i \in 1..58 : scan_to_key[i] \in Int
  BY DEF scan_to_key
<1>2. ASSUME code < 58 PROVE scan_to_key[code + 1] \in Int
  <2>1. code + 1 \in 1..58
    BY <1>2
  <2> QED
    BY <2>1, <1>1
<1> QED
  BY <1>1, <1>2 DEF Keycode, INPUT_KEY_PRINTSCREEN

\* ps2kbd_handler on a make code ...
LEMMA DecodedMake ==
  ASSUME NEW x \in 1..127
  PROVE  /\ Decoded(FALSE, x) = Report("key", Keycode(FALSE, x))
         /\ x # 42 => Decoded(TRUE, x) = Report("key", Keycode(TRUE, x))
         /\ x = 42 => Decoded(TRUE, x) = NoEvent
<1>1. x % 128 = x /\ x < 128 /\ x # 224
  OBVIOUS
<1> QED
  BY <1>1 DEF Decoded, ps2kbd_handler, KeyEvent, NoEvent, Report

\* ... on a break code ...
LEMMA DecodedBreak ==
  ASSUME NEW x \in 1..127, x # 96
  PROVE  /\ Decoded(FALSE, x + 128) = Report("keyup", Keycode(FALSE, x))
         /\ x # 42 => Decoded(TRUE, x + 128) = Report("keyup", Keycode(TRUE, x))
         /\ x = 42 => Decoded(TRUE, x + 128) = NoEvent
<1>1. (x + 128) % 128 = x /\ ~(x + 128 < 128) /\ x + 128 # 224
  OBVIOUS
<1> QED
  BY <1>1 DEF Decoded, ps2kbd_handler, KeyEvent, NoEvent, Report

\* ... and on a prefix.
LEMMA DecodedPrefix == MarkedEvent(224) = NoEvent
  BY DEF MarkedEvent, Decoded, ps2kbd_handler

\* The kinds of keys: one byte, a byte with a prefix, and PrintScreen.
LEMMA WireShape ==
  ASSUME NEW k \in DOMAIN Wire
  PROVE  \/ k # "prtsc" /\ \E x \in 1..127 : x # 96 /\ Wire[k] = <<x>> /\ (x = 29 <=> k = "ctrl")
         \/ k # "prtsc" /\ k # "ctrl" /\ \E x \in 1..127 : x # 96 /\ x # 42 /\ Wire[k] = <<224, x>>
         \/ k = "prtsc" /\ Wire[k] = <<224, 42, 224, 55>>
<1>1. k \in {"ctrl", "rctrl", "alt", "ralt", "shift", "esc", "enter", "back", "space", "eight", "a", "c",
             "up", "down", "prtsc"}
  BY DEF Wire
<1>2. /\ Wire["ctrl"] = <<29>>
      /\ Wire["alt"] = <<56>>
      /\ Wire["shift"] = <<42>>
      /\ Wire["esc"] = <<1>>
      /\ Wire["enter"] = <<28>>
      /\ Wire["back"] = <<14>>
      /\ Wire["space"] = <<57>>
      /\ Wire["eight"] = <<9>>
      /\ Wire["a"] = <<30>>
      /\ Wire["c"] = <<46>>
      /\ Wire["rctrl"] = <<224, 29>>
      /\ Wire["ralt"] = <<224, 56>>
      /\ Wire["up"] = <<224, 72>>
      /\ Wire["down"] = <<224, 80>>
      /\ Wire["prtsc"] = <<224, 42, 224, 55>>
  BY DEF Wire
<1>3. CASE k \in {"ctrl", "alt", "shift", "esc", "enter", "back", "space", "eight", "a", "c"}
  BY <1>2, <1>3
<1>4. CASE k \in {"rctrl", "ralt", "up", "down"}
  BY <1>2, <1>4
<1>5. CASE k = "prtsc"
  BY <1>2, <1>5
<1> QED
  BY <1>1, <1>3, <1>4, <1>5

\* Such sequences, marked.
LEMMA MarkedOne ==
  ASSUME NEW x \in 0..255
  PROVE  Marked(0, <<x>>)[1] = x
  BY DEF Marked, Before

\* ... and of two bytes.
LEMMA MarkedTwo ==
  ASSUME NEW x \in 0..255
  PROVE  Marked(0, <<224, x>>)[1] = 224 /\ Marked(0, <<224, x>>)[2] = x + 256
  BY DEF Marked, Before

\* The bytes s make one report, and leave no prefix behind.
Sends(s, id, c) ==
  /\ s \in Seq(0..255) /\ s # <<>> /\ s[Len(s)] # 224
  /\ \E i \in 1..Len(s) :
       /\ MarkedEvent(Marked(0, s)[i]) = Report(id, c)
       /\ \A j \in 1..Len(s) : j # i => MarkedEvent(Marked(0, s)[j]) = NoEvent

\* No byte of s is the left Ctrl key's.
NotCtrl(s) == \A j \in 1..Len(s) : Marked(0, s)[j] \notin {29, 157}

\* One byte that makes a report ...
LEMMA SendsOne ==
  ASSUME NEW x \in 0..255, x # 224, NEW id, NEW c, MarkedEvent(x) = Report(id, c)
  PROVE  Sends(<<x>>, id, c) /\ (x \notin {29, 157} => NotCtrl(<<x>>))
<1>1. <<x>> \in Seq(0..255) /\ Len(<<x>>) = 1 /\ <<x>>[1] = x /\ <<x>> # <<>>
  OBVIOUS
<1>2. Marked(0, <<x>>)[1] = x
  BY MarkedOne
<1>3. 1 \in 1..1 /\ \A j \in 1..1 : j = 1
  OBVIOUS
<1> QED
  BY <1>1, <1>2, <1>3 DEF Sends, NotCtrl

\* ... and a byte with a prefix.
LEMMA SendsTwo ==
  ASSUME NEW x \in 0..255, x # 224, NEW id, NEW c, MarkedEvent(x + 256) = Report(id, c)
  PROVE  Sends(<<224, x>>, id, c) /\ NotCtrl(<<224, x>>)
<1> DEFINE s == <<224, x>>
<1>1. s \in Seq(0..255) /\ Len(s) = 2 /\ s[2] = x /\ s # <<>>
  OBVIOUS
<1>2. Marked(0, s)[1] = 224 /\ Marked(0, s)[2] = x + 256
  BY MarkedTwo
<1>3. 2 \in 1..2 /\ \A j \in 1..2 : j # 2 => j = 1
  OBVIOUS
<1>4. \A j \in 1..2 : j = 1 \/ j = 2
  OBVIOUS
<1>5. x + 256 \notin {29, 157}
  OBVIOUS
<1> HIDE DEF s
<1>6. Sends(s, id, c)
  <2>1. MarkedEvent(Marked(0, s)[2]) = Report(id, c)
    BY <1>2
  <2>2. \A j \in 1..2 : j # 2 => MarkedEvent(Marked(0, s)[j]) = NoEvent
    BY <1>2, <1>3, DecodedPrefix
  <2> QED
    BY <1>1, <1>3, <2>1, <2>2 DEF Sends
<1>7. NotCtrl(s)
  BY <1>1, <1>2, <1>4, <1>5 DEF NotCtrl
<1> QED
  BY <1>6, <1>7 DEF s

\* PrintScreen's pseudo-shift is silent: it comes first when the key goes down ...
LEMMA SendsFour ==
  ASSUME NEW x \in 0..255, NEW y \in 0..255, x # 224, y # 224, NEW id, NEW c,
         \/ MarkedEvent(x + 256) = NoEvent /\ MarkedEvent(y + 256) = Report(id, c)
         \/ MarkedEvent(x + 256) = Report(id, c) /\ MarkedEvent(y + 256) = NoEvent
  PROVE  Sends(<<224, x, 224, y>>, id, c) /\ NotCtrl(<<224, x, 224, y>>)
<1> DEFINE s == <<224, x, 224, y>>
           m == Marked(0, s)
<1>1. s \in Seq(0..255) /\ Len(s) = 4 /\ s[4] = y /\ s # <<>>
  OBVIOUS
<1>2. m[1] = 224 /\ m[2] = x + 256 /\ m[3] = 224 /\ m[4] = y + 256
  BY DEF Marked, Before
<1>3. 2 \in 1..4 /\ 4 \in 1..4 /\ \A j \in 1..4 : j = 1 \/ j = 2 \/ j = 3 \/ j = 4
  OBVIOUS
<1>5. x + 256 \notin {29, 157} /\ y + 256 \notin {29, 157}
  OBVIOUS
<1>6. MarkedEvent(m[1]) = NoEvent /\ MarkedEvent(m[3]) = NoEvent
  BY <1>2, DecodedPrefix
<1> HIDE DEF s, m
<1>7. CASE MarkedEvent(m[2]) = NoEvent /\ MarkedEvent(m[4]) = Report(id, c)
  <2>1. \A j \in 1..4 : j # 4 => MarkedEvent(m[j]) = NoEvent
    BY <1>3, <1>6, <1>7
  <2> QED
    BY <1>1, <1>2, <1>3, <1>5, <1>7, <2>1 DEF Sends, NotCtrl, m, s
<1>8. CASE MarkedEvent(m[2]) = Report(id, c) /\ MarkedEvent(m[4]) = NoEvent
  <2>1. \A j \in 1..4 : j # 2 => MarkedEvent(m[j]) = NoEvent
    BY <1>3, <1>6, <1>8
  <2> QED
    BY <1>1, <1>2, <1>3, <1>5, <1>8, <2>1 DEF Sends, NotCtrl, m, s
<1> QED
  BY <1>2, <1>7, <1>8

\* A key that goes down reports just that.
LEMMA MakeSends ==
  ASSUME NEW k \in DOMAIN Wire
  PROVE  /\ Sends(MakeBytes(k), "key", KeycodeOf(k)) /\ KeycodeOf(k) \in Int
         /\ IF k = "ctrl" THEN MakeBytes(k) = <<29>> ELSE NotCtrl(MakeBytes(k))
<1>1. ASSUME NEW x \in 1..127, x # 96, Wire[k] = <<x>>, x = 29 <=> k = "ctrl"
      PROVE  /\ Sends(MakeBytes(k), "key", KeycodeOf(k)) /\ KeycodeOf(k) \in Int
             /\ IF k = "ctrl" THEN MakeBytes(k) = <<29>> ELSE NotCtrl(MakeBytes(k))
  <2>1. MakeBytes(k) = <<x>> /\ x # 224 /\ x \in 0..255 /\ x # 157 /\ x \in 0..127 /\ ~(x >= 256)
    BY <1>1 DEF MakeBytes
  <2>2. KeycodeOf(k) = Keycode(FALSE, x)
    <3>1. MakeBytes(k)[1] = x /\ Len(MakeBytes(k)) = 1
      BY <2>1
    <3> QED
      BY <2>1, <3>1 DEF KeycodeOf, Keycode
  <2>3. MarkedEvent(x) = Report("key", Keycode(FALSE, x))
    BY <2>1, DecodedMake DEF MarkedEvent
  <2>4. Sends(<<x>>, "key", Keycode(FALSE, x)) /\ (x \notin {29, 157} => NotCtrl(<<x>>))
    BY <2>1, <2>3, SendsOne
  <2>5. Keycode(FALSE, x) \in Int
    BY <2>1, KeycodeInt
  <2>6. CASE k = "ctrl"
    <3>1. x = 29
      BY <1>1, <2>6
    <3>2. MakeBytes(k) = <<29>>
      BY <3>1, <2>1
    <3> QED
      BY <3>2, <2>1, <2>2, <2>4, <2>5, <2>6
  <2>7. CASE k # "ctrl"
    <3>1. x \notin {29, 157}
      BY <1>1, <2>1, <2>7
    <3> QED
      BY <3>1, <2>1, <2>2, <2>4, <2>5, <2>7
  <2> QED
    BY <2>6, <2>7
<1>2. ASSUME NEW x \in 1..127, x # 96, x # 42, Wire[k] = <<224, x>>
      PROVE  /\ Sends(MakeBytes(k), "key", KeycodeOf(k)) /\ KeycodeOf(k) \in Int
             /\ NotCtrl(MakeBytes(k))
  <2>1. MakeBytes(k) = <<224, x>> /\ x # 224 /\ x \in 0..255 /\ x \in 0..127
    BY <1>2 DEF MakeBytes
  <2>2. KeycodeOf(k) = Keycode(TRUE, x)
    <3>1. MakeBytes(k)[1] = 224 /\ Len(MakeBytes(k)) = 2 /\ MakeBytes(k)[2] = x
      BY <2>1
    <3> QED
      BY <2>1, <3>1 DEF KeycodeOf, Keycode
  <2>3. MarkedEvent(x + 256) = Report("key", Keycode(TRUE, x))
    <3>1. x + 256 >= 256 /\ (x + 256) - 256 = x
      OBVIOUS
    <3> QED
      BY <3>1, <1>2, DecodedMake DEF MarkedEvent
  <2> QED
    BY <2>1, <2>2, <2>3, SendsTwo, KeycodeInt
<1>3. ASSUME k = "prtsc", Wire[k] = <<224, 42, 224, 55>>
      PROVE  /\ Sends(MakeBytes(k), "key", KeycodeOf(k)) /\ KeycodeOf(k) \in Int
             /\ NotCtrl(MakeBytes(k))
  <2>1. MakeBytes(k) = <<224, 42, 224, 55>> /\ 55 \in 1..127 /\ 42 \in 1..127 /\ 55 \in 0..127
    BY <1>3 DEF MakeBytes
  <2>2. KeycodeOf(k) = Keycode(TRUE, 55)
    <3>1. MakeBytes(k)[1] = 224 /\ Len(MakeBytes(k)) = 4 /\ MakeBytes(k)[4] = 55
      BY <2>1
    <3> QED
      BY <2>1, <3>1 DEF KeycodeOf, Keycode
  <2>3. MarkedEvent(55 + 256) = Report("key", Keycode(TRUE, 55))
    <3>1. 55 + 256 >= 256 /\ (55 + 256) - 256 = 55 /\ 55 # 42
      OBVIOUS
    <3>2. Decoded(TRUE, 55) = Report("key", Keycode(TRUE, 55))
      BY <3>1, <2>1, DecodedMake
    <3> QED
      BY <3>1, <3>2 DEF MarkedEvent
  <2>4. MarkedEvent(42 + 256) = NoEvent
    <3>1. 42 + 256 >= 256 /\ (42 + 256) - 256 = 42
      OBVIOUS
    <3>2. Decoded(TRUE, 42) = NoEvent
      BY <2>1, DecodedMake
    <3> QED
      BY <3>1, <3>2 DEF MarkedEvent
  <2>5. 42 \in 0..255 /\ 55 \in 0..255 /\ 42 # 224 /\ 55 # 224
    OBVIOUS
  <2>6. Sends(<<224, 42, 224, 55>>, "key", Keycode(TRUE, 55)) /\ NotCtrl(<<224, 42, 224, 55>>)
    <3> DEFINE x == 42
               y == 55
               c == Keycode(TRUE, 55)
    <3>1. /\ x \in 0..255 /\ y \in 0..255 /\ x # 224 /\ y # 224
          /\ \/ MarkedEvent(x + 256) = NoEvent /\ MarkedEvent(y + 256) = Report("key", c)
             \/ MarkedEvent(x + 256) = Report("key", c) /\ MarkedEvent(y + 256) = NoEvent
      BY <2>3, <2>4, <2>5
    <3> HIDE DEF x, y, c
    <3>2. Sends(<<224, x, 224, y>>, "key", c) /\ NotCtrl(<<224, x, 224, y>>)
      BY <3>1, SendsFour
    <3> QED
      BY <3>2 DEF x, y, c
  <2> QED
    BY <2>1, <2>2, <2>6, KeycodeInt
<1> QED
  BY WireShape, <1>1, <1>2, <1>3

\* ... and one that goes up.
LEMMA BreakSends ==
  ASSUME NEW k \in DOMAIN Wire
  PROVE  /\ Sends(BreakBytes(k), "keyup", KeycodeOf(k))
         /\ IF k = "ctrl" THEN BreakBytes(k) = <<157>> ELSE NotCtrl(BreakBytes(k))
<1>1. ASSUME k # "prtsc", NEW x \in 1..127, x # 96, Wire[k] = <<x>>, x = 29 <=> k = "ctrl"
      PROVE  /\ Sends(BreakBytes(k), "keyup", KeycodeOf(k))
             /\ IF k = "ctrl" THEN BreakBytes(k) = <<157>> ELSE NotCtrl(BreakBytes(k))
  <2> DEFINE y == x + 128
  <2>1. y \in 0..255 /\ y # 224 /\ y # 29 /\ (y = 157 <=> k = "ctrl") /\ x # 224 /\ ~(y >= 256)
    BY <1>1
  <2>2. BreakBytes(k) = <<y>>
    BY <1>1, <2>1 DEF BreakBytes
  <2>3. KeycodeOf(k) = Keycode(FALSE, x)
    <3>1. MakeBytes(k)[1] = x /\ Len(MakeBytes(k)) = 1
      BY <1>1 DEF MakeBytes
    <3> QED
      BY <2>1, <3>1 DEF KeycodeOf, Keycode
  <2>9. Decoded(FALSE, y) = Report("keyup", Keycode(FALSE, x))
    BY <1>1, DecodedBreak
  <2> HIDE DEF y
  <2>4. MarkedEvent(y) = Report("keyup", Keycode(FALSE, x))
    BY <2>1, <2>9 DEF MarkedEvent
  <2> DEFINE c == Keycode(FALSE, x)
  <2>5. Sends(<<y>>, "keyup", c) /\ (y \notin {29, 157} => NotCtrl(<<y>>))
    <3>1. MarkedEvent(y) = Report("keyup", c)
      BY <2>4
    <3>2. y \in 0..255 /\ y # 224
      BY <2>1
    <3> HIDE DEF c
    <3> QED
      BY <3>1, <3>2, SendsOne
  <2>6. CASE k = "ctrl"
    <3>1. y = 157
      BY <2>1, <2>6
    <3>2. BreakBytes(k) = <<157>>
      BY <3>1, <2>2
    <3> QED
      BY <3>2, <2>2, <2>3, <2>5, <2>6
  <2>7. CASE k # "ctrl"
    <3>1. y \notin {29, 157}
      BY <2>1, <2>7
    <3> QED
      BY <3>1, <2>2, <2>3, <2>5, <2>7
  <2> QED
    BY <2>6, <2>7
<1>2. ASSUME k # "prtsc", NEW x \in 1..127, x # 96, x # 42, Wire[k] = <<224, x>>
      PROVE  Sends(BreakBytes(k), "keyup", KeycodeOf(k)) /\ NotCtrl(BreakBytes(k))
  <2> DEFINE y == x + 128
  <2>1. y \in 0..255 /\ y # 224 /\ x # 224 /\ y + 256 >= 256 /\ (y + 256) - 256 = y
    BY <1>2
  <2>2. BreakBytes(k) = <<224, y>>
    BY <1>2, <2>1 DEF BreakBytes
  <2>3. KeycodeOf(k) = Keycode(TRUE, x)
    <3>1. MakeBytes(k)[1] = 224 /\ Len(MakeBytes(k)) = 2 /\ MakeBytes(k)[2] = x
      BY <1>2 DEF MakeBytes
    <3> QED
      BY <3>1 DEF KeycodeOf, Keycode
  <2>4. Decoded(TRUE, y) = Report("keyup", Keycode(TRUE, x))
    BY <1>2, DecodedBreak
  <2> HIDE DEF y
  <2>5. MarkedEvent(y + 256) = Report("keyup", Keycode(TRUE, x))
    BY <2>1, <2>4 DEF MarkedEvent
  <2> DEFINE c == Keycode(TRUE, x)
  <2>6. y \in 0..255 /\ y # 224 /\ MarkedEvent(y + 256) = Report("keyup", c)
    BY <2>1, <2>5
  <2> HIDE DEF c
  <2>7. Sends(<<224, y>>, "keyup", c) /\ NotCtrl(<<224, y>>)
    BY <2>6, SendsTwo
  <2> QED
    BY <2>2, <2>3, <2>7 DEF c
<1>3. ASSUME k = "prtsc", Wire[k] = <<224, 42, 224, 55>>
      PROVE  Sends(BreakBytes(k), "keyup", KeycodeOf(k)) /\ NotCtrl(BreakBytes(k))
  <2>1. BreakBytes(k) = <<224, 183, 224, 170>>
    BY <1>3 DEF BreakBytes
  <2>2. KeycodeOf(k) = Keycode(TRUE, 55)
    <3>1. MakeBytes(k)[1] = 224 /\ Len(MakeBytes(k)) = 4 /\ MakeBytes(k)[4] = 55
      BY <1>3 DEF MakeBytes
    <3> QED
      BY <3>1 DEF KeycodeOf, Keycode
  <2>3. MarkedEvent(183 + 256) = Report("keyup", Keycode(TRUE, 55))
    <3>1. /\ 183 + 256 >= 256 /\ (183 + 256) - 256 = 55 + 128 /\ 55 # 42 /\ 55 # 96 /\ 55 \in 1..127
      OBVIOUS
    <3>2. Decoded(TRUE, 55 + 128) = Report("keyup", Keycode(TRUE, 55))
      BY <3>1, DecodedBreak
    <3> QED
      BY <3>1, <3>2 DEF MarkedEvent
  <2>4. MarkedEvent(170 + 256) = NoEvent
    <3>1. 170 + 256 >= 256 /\ (170 + 256) - 256 = 42 + 128 /\ 42 # 96 /\ 42 \in 1..127
      OBVIOUS
    <3>2. Decoded(TRUE, 42 + 128) = NoEvent
      BY <3>1, DecodedBreak
    <3> QED
      BY <3>1, <3>2 DEF MarkedEvent
  <2>5. 183 \in 0..255 /\ 170 \in 0..255 /\ 183 # 224 /\ 170 # 224
    OBVIOUS
  <2>6. Sends(<<224, 183, 224, 170>>, "keyup", Keycode(TRUE, 55)) /\ NotCtrl(<<224, 183, 224, 170>>)
    <3> DEFINE x == 183
               y == 170
               c == Keycode(TRUE, 55)
    <3>1. /\ x \in 0..255 /\ y \in 0..255 /\ x # 224 /\ y # 224
          /\ \/ MarkedEvent(x + 256) = NoEvent /\ MarkedEvent(y + 256) = Report("keyup", c)
             \/ MarkedEvent(x + 256) = Report("keyup", c) /\ MarkedEvent(y + 256) = NoEvent
      BY <2>3, <2>4, <2>5
    <3> HIDE DEF x, y, c
    <3>2. Sends(<<224, x, 224, y>>, "keyup", c) /\ NotCtrl(<<224, x, 224, y>>)
      BY <3>1, SendsFour
    <3> QED
      BY <3>2 DEF x, y, c
  <2> QED
    BY <2>1, <2>2, <2>6
<1> QED
  BY WireShape, <1>1, <1>2, <1>3

-----------------------------------------------------------------------------
(* Topics. *)

\* A report about a key is about nothing else, and is never dropped as low-value.
LEMMA KeyTopic ==
  ASSUME NEW c, NEW id \in {"key", "keyup"}
  PROVE  /\ NotId(id) \in {"key", "keyup"} /\ NotId(id) # id
         /\ \A f \in Says(c, id) : ~Fifo!Low(f) /\ IsKey(f)
         /\ Says(c, id) \cap Says(c, NotId(id)) = {}
         /\ \A v : Says(c, id) \cap NotAt(v) = {} /\ Says(c, id) \cap ClickTo(v) = {}
  BY DEF NotId, Says, Fifo!Low, IsKey, NotAt, ClickTo

\* The report that says how a key is.
LEMMA IdFacts == \A k : IdOf(k) \in {"key", "keyup"} /\ (IdOf(k) = "key" <=> k \in held)
  BY DEF IdOf

\* Nor is one that changes the buttons.
LEMMA ClickTopic ==
  ASSUME NEW v
  PROVE  /\ \A f \in ClickTo(v) : ~Fifo!Low(f) /\ ~IsKey(f)
         /\ ClickTo(v) \cap NotAt(v) = {}
  BY DEF ClickTo, NotAt, Fifo!Low, IsKey

\* A key's report, as a member of the sets of reports.
LEMMA ReportIn ==
  ASSUME NEW c \in Int, NEW id \in {"key", "keyup"}
  PROVE  /\ Report(id, c) \in Says(c, id) /\ Report(id, c) \in Sent /\ IsKey(Report(id, c))
         /\ \A d, i : (d # c \/ i # id) => Report(id, c) \notin Says(d, i)
         /\ c \in KeyCodes => Report(id, c) \in Known
         /\ Report(id, c) # NoEvent
  BY DEF Report, Says, Sent, Known, IsKey, NoEvent

\* The empty event is no report.
LEMMA NoEventOut == NoEvent \notin Sent /\ (\A c, id : NoEvent \notin Says(c, id)) /\ NoEvent \notin Known
  BY DEF NoEvent, Sent, Says, Known

-----------------------------------------------------------------------------
(* What a step that leaves a part alone keeps. *)

\* The keyboard ...
LEMMA KeyboardFrame ==
  ASSUME KeyboardShapes, PrefixSound, CtrlFollows, UNCHANGED <<held, kbwire, g_ext_prefix, g_ctrl_down>>
  PROVE  /\ KeyboardShapes' /\ PrefixSound' /\ CtrlFollows' /\ Scans' = Scans
         /\ \A k : IdOf(k)' = IdOf(k)
<1>1. /\ held' = held /\ kbwire' = kbwire /\ g_ext_prefix' = g_ext_prefix /\ g_ctrl_down' = g_ctrl_down
  OBVIOUS
<1>2. Scans' = Scans
  BY <1>1 DEF Scans, LastByte, Marked, Before
<1>3. KeyboardShapes' /\ PrefixSound'
  BY <1>1, <1>2 DEF KeyboardShapes, PrefixSound
<1>4. CtrlFollows'
  BY <1>1, <1>2 DEF CtrlFollows, CtrlMake, CtrlBreak, CtrlTold, Belief
<1> QED
  BY <1>1, <1>2, <1>3, <1>4 DEF IdOf

\* ... the mouse ...
LEMMA MouseFrame ==
  ASSUME MouseShapes, PacketsSound, UNCHANGED <<buttons, mwire, cur, mouse>>
  PROVE  MouseShapes' /\ PacketsSound' /\ mouse'.prev = mouse.prev
  BY DEF MouseShapes, PacketsSound, Bit

\* ... the queue ...
LEMMA QueueFrame ==
  ASSUME QueueShapes, UNCHANGED <<ring, irq, ev, told>>, pc' = "dispatch" <=> pc = "dispatch"
  PROVE  /\ QueueShapes' /\ Retained' = Retained
         /\ \A c, id : KeyQueued(c, id)' = KeyQueued(c, id)
         /\ \A v : ButtonsQueued(v)' = ButtonsQueued(v)
<1>1. /\ event_buf' = event_buf /\ event_head' = event_head /\ event_tail' = event_tail
      /\ event_count' = event_count /\ irq' = irq /\ ev' = ev /\ told' = told
  BY DEF ring
<1>2. Retained' = Retained
  BY <1>1 DEF Retained, queue_idx_from_head
<1>3. RingOK' <=> RingOK
  BY <1>1 DEF RingOK
<1>4. QueueShapes'
  BY <1>1, <1>2, <1>3 DEF QueueShapes
<1>5. \A F, A, b : Front(F, A, b)' = Front(F, A, b)
  BY <1>1 DEF Front, Hear
<1>6. \A F, A, b : Queued(F, A, b)' = Queued(F, A, b)
  BY <1>1, <1>2, <1>5 DEF Queued, Belief
<1> QED
  BY <1>1, <1>2, <1>4, <1>6 DEF KeyQueued, ButtonsQueued, KeyTold, ButtonsTold

\* ... and what is known of the keys.
LEMMA KeysFrame ==
  ASSUME KeysFollow, Scans' = Scans, lost' = lost, \A k : IdOf(k)' = IdOf(k),
         \A c, id : KeyQueued(c, id)' = KeyQueued(c, id)
  PROVE  KeysFollow'
  BY DEF KeysFollow

\* A step of the loop or of the timer that hands out no event.
LEMMA CalmStep ==
  ASSUME TrackInv,
         UNCHANGED <<device, kbwire, mwire, driver, irq, ring, ev, told, lost>>,
         pc' = "dispatch" <=> pc = "dispatch"
  PROVE  TrackInv'
<1>1. /\ UNCHANGED <<held, kbwire, g_ext_prefix, g_ctrl_down>>
      /\ UNCHANGED <<buttons, mwire, cur, mouse>>
      /\ UNCHANGED <<ring, irq, ev, told>> /\ lost' = lost
  BY DEF device, driver
<1>2. /\ KeyboardShapes' /\ PrefixSound' /\ CtrlFollows' /\ Scans' = Scans
      /\ \A k : IdOf(k)' = IdOf(k)
  BY <1>1, KeyboardFrame DEF TrackInv
<1>3. MouseShapes' /\ PacketsSound' /\ mouse'.prev = mouse.prev
  BY <1>1, MouseFrame DEF TrackInv
<1>4. /\ QueueShapes' /\ \A c, id : KeyQueued(c, id)' = KeyQueued(c, id)
      /\ \A v : ButtonsQueued(v)' = ButtonsQueued(v)
  BY <1>1, QueueFrame DEF TrackInv
<1>5. KeysFollow'
  BY <1>1, <1>2, <1>4, KeysFrame DEF TrackInv
<1>6. ButtonsFollow'
  BY <1>1, <1>3, <1>4 DEF TrackInv, ButtonsFollow
<1> QED
  BY <1>2, <1>3, <1>4, <1>5, <1>6 DEF TrackInv

-----------------------------------------------------------------------------
(* The steps. *)

\* An event of the running handler goes into the ring.
LEMMA EnqueueTracks ==
  ASSUME TrackInv, event_enqueue
  PROVE  TrackInv'
<1>1. /\ UNCHANGED <<held, kbwire, g_ext_prefix, g_ctrl_down>>
      /\ UNCHANGED <<buttons, mwire, cur, mouse>>
      /\ pc' = pc /\ ev' = ev /\ told' = told /\ irq # <<>> /\ irq' = Tail(irq) /\ (lost => lost')
  BY DEF event_enqueue, device, driver
<1>2. /\ KeyboardShapes' /\ PrefixSound' /\ CtrlFollows' /\ Scans' = Scans
      /\ \A k : IdOf(k)' = IdOf(k)
  BY <1>1, KeyboardFrame DEF TrackInv
<1>3. MouseShapes' /\ PacketsSound' /\ mouse'.prev = mouse.prev
  BY <1>1, MouseFrame DEF TrackInv
<1>4. QueueShapes'
  <2>1. irq \in Seq(Known) /\ Retained \in Seq(Known) /\ RingOK
    BY DEF TrackInv, QueueShapes
  <2>2. Head(irq) \in Known /\ Tail(irq) \in Seq(Known)
    BY <1>1, <2>1, HeadTailProperties
  <2>3. RingOK' /\ Retained' = Fifo!Enqueue(Retained, Head(irq), N)
    BY <2>1, EnqueueIsPut
  <2>4. Retained' \in Seq(Known)
    BY <2>1, <2>2, <2>3, NFacts, PutType
  <2> QED
    BY <1>1, <2>2, <2>3, <2>4 DEF TrackInv, QueueShapes
<1>5. ASSUME ~lost', NEW Firm, NEW Against, NEW b, \A f \in Firm : ~Fifo!Low(f),
             Queued(Firm, Against, b) = Sure
      PROVE  Queued(Firm, Against, b)' = Sure
  <2>1. Belief(irq', Firm, Against, Belief(Retained', Firm, Against, Front(Firm, Against, b))) = Sure
    BY <1>5, EnqueueQueued DEF TrackInv
  <2>2. Front(Firm, Against, b)' = Front(Firm, Against, b)
    BY <1>1 DEF Front, Hear
  <2> QED
    BY <2>1, <2>2 DEF Queued, Belief
<1>6. KeysFollow'
  <2> SUFFICES ASSUME ~lost', NEW k \in Keys
               PROVE  Belief(Scans, ScanSays(KeycodeOf(k), IdOf(k)), ScanSays(KeycodeOf(k), NotId(IdOf(k))),
                             KeyQueued(KeycodeOf(k), IdOf(k))') = Sure
    BY <1>2 DEF KeysFollow
  <2> DEFINE c == KeycodeOf(k)
             id == IdOf(k)
  <2>1. Belief(Scans, ScanSays(c, id), ScanSays(c, NotId(id)), KeyQueued(c, id)) = Sure
    BY <1>1 DEF TrackInv, KeysFollow
  <2>2. \A f \in Says(c, id) : ~Fifo!Low(f)
    BY IdFacts, KeyTopic
  <2> HIDE DEF c, id
  <2>3. ASSUME NEW i, \A f \in Says(c, i) : ~Fifo!Low(f), KeyQueued(c, i) = Sure
        PROVE  KeyQueued(c, i)' = Sure
    <3>1. KeyTold(c, i, told.keys)' = KeyTold(c, i, told.keys)
      BY <1>1 DEF KeyTold
    <3>2. Queued(Says(c, i), Says(c, NotId(i)), KeyTold(c, i, told.keys)) = Sure
      BY <2>3 DEF KeyQueued
    <3>3. \A b : Queued(Says(c, i), Says(c, NotId(i)), b) = Sure
                   => Queued(Says(c, i), Says(c, NotId(i)), b)' = Sure
      BY <1>5, <2>3
    <3> QED
      BY <3>1, <3>2, <3>3, <1>1 DEF KeyQueued, KeyTold
  <2>4. KeyQueued(c, id) = Sure => KeyQueued(KeycodeOf(k), IdOf(k))' = Sure
    BY <2>2, <2>3, <1>2 DEF c, id
  <2>5. IdOf(k)' = IdOf(k)
    BY <1>2
  <2> QED
    BY <2>1, <2>4, <2>5, BeliefMore DEF c, id
<1>7. ButtonsFollow'
  <2> SUFFICES ASSUME ~lost' PROVE ButtonsQueued(mouse.prev)' = Sure
    BY <1>1, <1>3 DEF ButtonsFollow
  <2>1. ButtonsQueued(mouse.prev) = Sure
    BY <1>1 DEF TrackInv, ButtonsFollow
  <2>2. ASSUME NEW v, ButtonsQueued(v) = Sure PROVE ButtonsQueued(v)' = Sure
    <3>1. Queued(ClickTo(v), NotAt(v), ButtonsTold(v, told.buttons)) = Sure
      BY <2>2 DEF ButtonsQueued
    <3>2. \A f \in ClickTo(v) : ~Fifo!Low(f)
      BY ClickTopic
    <3>3. \A b : Queued(ClickTo(v), NotAt(v), b) = Sure => Queued(ClickTo(v), NotAt(v), b)' = Sure
      BY <1>5, <3>2
    <3> QED
      BY <3>1, <3>3, <1>1 DEF ButtonsQueued, ButtonsTold
  <2> QED
    BY <2>1, <2>2, <1>1
<1> QED
  BY <1>2, <1>3, <1>4, <1>6, <1>7 DEF TrackInv

\* Keys are followed through a step that moves events on in the queue.
LEMMA KeysPass ==
  ASSUME KeysFollow, Scans' = Scans, lost' = lost, \A k : IdOf(k)' = IdOf(k),
         \A k \in Keys : KeyQueued(KeycodeOf(k), IdOf(k)) = Sure
                           => KeyQueued(KeycodeOf(k), IdOf(k))' = Sure
  PROVE  KeysFollow'
<1> SUFFICES ASSUME ~lost, NEW k \in Keys
             PROVE  Belief(Scans, ScanSays(KeycodeOf(k), IdOf(k)), ScanSays(KeycodeOf(k), NotId(IdOf(k))),
                           KeyQueued(KeycodeOf(k), IdOf(k))') = Sure
  BY DEF KeysFollow
<1>1. Belief(Scans, ScanSays(KeycodeOf(k), IdOf(k)), ScanSays(KeycodeOf(k), NotId(IdOf(k))),
             KeyQueued(KeycodeOf(k), IdOf(k))) = Sure
  BY DEF KeysFollow
<1> QED
  BY <1>1, BeliefMore

\* The desktop takes the oldest event.
LEMMA TakeTracks ==
  ASSUME TrackInv, DequeueTake
  PROVE  TrackInv'
<1>0. RingOK /\ Retained \in Seq(Known) /\ irq \in Seq(Known)
  BY DEF TrackInv, QueueShapes
<1>1. /\ UNCHANGED <<held, kbwire, g_ext_prefix, g_ctrl_down>>
      /\ UNCHANGED <<buttons, mwire, cur, mouse>>
  BY DEF DequeueTake, device, driver
<1>2. /\ KeyboardShapes' /\ PrefixSound' /\ CtrlFollows' /\ Scans' = Scans
      /\ \A k : IdOf(k)' = IdOf(k)
  BY <1>1, KeyboardFrame DEF TrackInv
<1>3. MouseShapes' /\ PacketsSound' /\ mouse'.prev = mouse.prev
  BY <1>1, MouseFrame DEF TrackInv
<1>4. /\ irq' = irq /\ irq = <<>> /\ pc = "locked" /\ told' = told /\ lost' = lost
      /\ \/ Retained' = Retained /\ pc' = "redraw"
         \/ /\ Retained # <<>> /\ ev' = Head(Retained) /\ Retained' = Tail(Retained)
            /\ pc' = "dispatch"
  BY <1>0, TakeIs
<1>5. QueueShapes'
  <2>1. RingOK'
    BY <1>0, DequeueIsTake
  <2>2. /\ Retained # <<>> => Head(Retained) \in Known /\ Tail(Retained) \in Seq(Known)
    BY <1>0, HeadTailProperties
  <2> QED
    BY <1>0, <1>4, <2>1, <2>2 DEF TrackInv, QueueShapes
<1>6. ASSUME NEW F, NEW A, NEW b, Queued(F, A, b) = Sure
      PROVE  Queued(F, A, b)' = Sure
  <2>1. Belief(Retained, F, A, b) = Sure
    BY <1>4, <1>6, BeliefEmpty DEF Queued, Front
  <2>2. Belief(Retained', F, A, Front(F, A, b)') = Sure
    <3>1. CASE Retained' = Retained /\ pc' = "redraw"
      BY <3>1, <2>1 DEF Front
    <3>2. CASE /\ Retained # <<>> /\ ev' = Head(Retained) /\ Retained' = Tail(Retained)
               /\ pc' = "dispatch"
      <4>1. Belief(Tail(Retained), F, A, Hear(Head(Retained), F, A, b)) = Sure
        BY <1>0, <2>1, <3>2, BeliefHead
      <4>2. Front(F, A, b)' = Hear(Head(Retained), F, A, b)
        BY <3>2 DEF Front, Hear
      <4> QED
        BY <4>1, <4>2, <3>2
    <3> QED
      BY <1>4, <3>1, <3>2
  <2> QED
    BY <1>4, <2>2, BeliefEmpty DEF Queued
<1>7. \A c, id : KeyQueued(c, id) = Sure => KeyQueued(c, id)' = Sure
  BY <1>4, <1>6 DEF KeyQueued, KeyTold
<1>8. \A v : ButtonsQueued(v) = Sure => ButtonsQueued(v)' = Sure
  BY <1>4, <1>6 DEF ButtonsQueued, ButtonsTold
<1>9. KeysFollow'
  BY <1>2, <1>4, <1>7, KeysPass DEF TrackInv
<1>10. ButtonsFollow'
  BY <1>3, <1>4, <1>8 DEF TrackInv, ButtonsFollow
<1> QED
  BY <1>2, <1>3, <1>5, <1>9, <1>10 DEF TrackInv

\* What is sure after an event is true once the event was dispatched.
LEMMA ToldKey ==
  ASSUME NEW c, NEW id \in {"key", "keyup"}, NEW e \in Known,
         NEW t \in [buttons : Int, keys : SUBSET KeyCodes],
         Hear(e, Says(c, id), Says(c, NotId(id)), KeyTold(c, id, t.keys)) = Sure
  PROVE  KeyTold(c, id, Tells(t, e).keys) = Sure
<1>1. e \in Sent
  BY DEF Known
<1>2. CASE e \in Says(c, id)
  <2>1. e.id = id /\ e.key = c
    BY <1>2 DEF Says
  <2>2. CASE id = "key"
    <3>1. Tells(t, e).keys = t.keys \cup {c}
      BY <2>1, <2>2 DEF Tells
    <3> QED
      BY <3>1, <2>2 DEF KeyTold
  <2>3. CASE id = "keyup"
    <3>1. Tells(t, e).keys = t.keys \ {c}
      BY <2>1, <2>3 DEF Tells
    <3> QED
      BY <3>1, <2>3 DEF KeyTold
  <2> QED
    BY <2>2, <2>3
<1>3. CASE e \notin Says(c, id)
  <2>1. KeyTold(c, id, t.keys) = Sure /\ e \notin Says(c, NotId(id))
    BY <1>3 DEF Hear, Sure, Unsure
  <2>2. ~(IsKey(e) /\ e.key = c)
    BY <1>1, <1>3, <2>1 DEF Says, NotId, IsKey
  <2>3. c \in Tells(t, e).keys <=> c \in t.keys
    BY <2>2 DEF Tells, IsKey
  <2> QED
    BY <2>1, <2>3 DEF KeyTold
<1> QED
  BY <1>2, <1>3

\* ... and so for the buttons.
LEMMA ToldButtons ==
  ASSUME NEW v, NEW e \in Known, NEW t \in [buttons : Int, keys : SUBSET KeyCodes],
         Hear(e, ClickTo(v), NotAt(v), ButtonsTold(v, t.buttons)) = Sure
  PROVE  ButtonsTold(v, Tells(t, e).buttons) = Sure
<1>1. e \in Sent
  BY DEF Known
<1>2. CASE IsKey(e)
  <2>1. Tells(t, e).buttons = t.buttons
    BY <1>2 DEF Tells, IsKey
  <2>2. e \notin ClickTo(v)
    BY <1>2, ClickTopic
  <2> QED
    BY <2>1, <2>2 DEF Hear, Sure, Unsure
<1>3. CASE ~IsKey(e)
  <2>1. Tells(t, e).buttons = e.key
    BY <1>3 DEF Tells, IsKey
  <2>2. e.key = v
    BY <1>1, <1>3 DEF Hear, Sure, Unsure, ClickTo, NotAt
  <2> QED
    BY <2>1, <2>2 DEF ButtonsTold
<1> QED
  BY <1>2, <1>3

\* What the consumer was told are keys and buttons.
LEMMA TellsType ==
  ASSUME NEW e \in Known, NEW t \in [buttons : Int, keys : SUBSET KeyCodes]
  PROVE  Tells(t, e) \in [buttons : Int, keys : SUBSET KeyCodes]
<1>1. e.key \in Int /\ (e.id \in {"key", "keyup"} => e.key \in KeyCodes)
  BY DEF Known, Sent, IsKey
<1> QED
  BY <1>1 DEF Tells

\* The desktop dispatches the event it took.
LEMMA DispatchTracks ==
  ASSUME TrackInv, Dispatch
  PROVE  TrackInv'
<1>1. /\ UNCHANGED <<held, kbwire, g_ext_prefix, g_ctrl_down>>
      /\ UNCHANGED <<buttons, mwire, cur, mouse>>
      /\ irq' = irq /\ irq = <<>> /\ pc = "dispatch" /\ pc' = "dequeue" /\ told' = Tells(told, ev)
      /\ ev' = ev /\ lost' = lost
      /\ event_buf' = event_buf /\ event_head' = event_head /\ event_tail' = event_tail
      /\ event_count' = event_count
  BY DEF Dispatch, device, driver, ring, Runs
<1>2. /\ KeyboardShapes' /\ PrefixSound' /\ CtrlFollows' /\ Scans' = Scans
      /\ \A k : IdOf(k)' = IdOf(k)
  BY <1>1, KeyboardFrame DEF TrackInv
<1>3. MouseShapes' /\ PacketsSound' /\ mouse'.prev = mouse.prev
  BY <1>1, MouseFrame DEF TrackInv
<1>4. Retained' = Retained
  BY <1>1 DEF Retained, queue_idx_from_head
<1>5. ev \in Known /\ told \in [buttons : Int, keys : SUBSET KeyCodes]
  BY <1>1 DEF TrackInv, QueueShapes
<1>6. QueueShapes'
  <2>1. RingOK' /\ Tells(told, ev) \in [buttons : Int, keys : SUBSET KeyCodes]
    BY <1>1, <1>5, TellsType DEF TrackInv, QueueShapes, RingOK
  <2> QED
    BY <1>1, <1>4, <2>1 DEF TrackInv, QueueShapes
<1>7. ASSUME NEW F, NEW A, NEW b, NEW c, Hear(ev, F, A, b) = Sure => c = Sure, Queued(F, A, b) = Sure
      PROVE  Belief(irq', F, A, Belief(Retained', F, A, c)) = Sure
  <2>1. Belief(Retained, F, A, Hear(ev, F, A, b)) = Sure
    BY <1>1, <1>7, BeliefEmpty DEF Queued, Front
  <2>2. Belief(Retained, F, A, c) = Sure
    BY <1>7, <2>1, BeliefMore
  <2> QED
    BY <1>1, <1>4, <2>2, BeliefEmpty
<1>8. ASSUME NEW k \in Keys, KeyQueued(KeycodeOf(k), IdOf(k)) = Sure
      PROVE  KeyQueued(KeycodeOf(k), IdOf(k))' = Sure
  <2>1. ASSUME NEW c, NEW j \in {"key", "keyup"}, KeyQueued(c, j) = Sure
        PROVE  KeyQueued(c, j)' = Sure
    <3> DEFINE F == Says(c, j)
               A == Says(c, NotId(j))
               b == KeyTold(c, j, told.keys)
               d == KeyTold(c, j, Tells(told, ev).keys)
    <3>1. Hear(ev, F, A, b) = Sure => d = Sure
      BY <1>5, ToldKey
    <3>2. Queued(F, A, b) = Sure
      BY <2>1 DEF KeyQueued
    <3>3. Belief(irq', F, A, Belief(Retained', F, A, d)) = Sure
      <4> HIDE DEF F, A, b, d
      <4> QED
        BY <3>1, <3>2, <1>7
    <3>4. KeyQueued(c, j)' = Belief(irq', F, A, Belief(Retained', F, A, KeyTold(c, j, told'.keys)))
      BY <1>1 DEF KeyQueued, Queued, Front, KeyTold
    <3> QED
      BY <1>1, <3>3, <3>4
  <2>2. IdOf(k) \in {"key", "keyup"} /\ IdOf(k)' = IdOf(k)
    BY <1>2, IdFacts
  <2> QED
    BY <1>8, <2>1, <2>2
<1>9. ASSUME NEW v, ButtonsQueued(v) = Sure
      PROVE  ButtonsQueued(v)' = Sure
  <2> DEFINE F == ClickTo(v)
             A == NotAt(v)
             b == ButtonsTold(v, told.buttons)
             d == ButtonsTold(v, Tells(told, ev).buttons)
  <2>1. Hear(ev, F, A, b) = Sure => d = Sure
    BY <1>5, ToldButtons
  <2>2. Queued(F, A, b) = Sure
    BY <1>9 DEF ButtonsQueued
  <2>3. Belief(irq', F, A, Belief(Retained', F, A, d)) = Sure
    <3> HIDE DEF F, A, b, d
    <3> QED
      BY <2>1, <2>2, <1>7
  <2>4. ButtonsQueued(v)' = Belief(irq', F, A, Belief(Retained', F, A, ButtonsTold(v, told'.buttons)))
    BY <1>1 DEF ButtonsQueued, Queued, Front, ButtonsTold
  <2> QED
    BY <1>1, <2>3, <2>4
<1>10. KeysFollow'
  BY <1>1, <1>2, <1>8, KeysPass DEF TrackInv
<1>11. ButtonsFollow'
  BY <1>1, <1>3, <1>9 DEF TrackInv, ButtonsFollow
<1> QED
  BY <1>2, <1>3, <1>6, <1>10, <1>11 DEF TrackInv

\* A key goes down or up.
LEMMA StrokeTracks ==
  ASSUME TrackInv, DistinctCodes, NEW k \in Keys, NEW id \in {"key", "keyup"}, NEW s,
         Sends(s, id, KeycodeOf(k)), KeycodeOf(k) \in Int,
         IF k = "ctrl" THEN s = <<IF id = "key" THEN 29 ELSE 157>> ELSE NotCtrl(s),
         kbwire' = kbwire \o s, held' = (IF id = "key" THEN held \cup {k} ELSE held \ {k}),
         UNCHANGED <<buttons, mwire, driver, irq, ring, pc, ev, told, lost>>
  PROVE  TrackInv'
<1> DEFINE c == KeycodeOf(k)
           r == Marked(0, s)
<1>1. /\ UNCHANGED <<buttons, mwire, cur, mouse>>
      /\ UNCHANGED <<ring, irq, ev, told>> /\ pc' = pc /\ lost' = lost
      /\ g_ext_prefix' = g_ext_prefix /\ g_ctrl_down' = g_ctrl_down
  BY DEF driver
<1>2. MouseShapes' /\ PacketsSound' /\ mouse'.prev = mouse.prev
  BY <1>1, MouseFrame DEF TrackInv
<1>3. /\ QueueShapes' /\ \A d, i : KeyQueued(d, i)' = KeyQueued(d, i)
      /\ \A v : ButtonsQueued(v)' = ButtonsQueued(v)
  BY <1>1, QueueFrame DEF TrackInv
<1>4. ButtonsFollow'
  BY <1>1, <1>2, <1>3 DEF TrackInv, ButtonsFollow
<1>5. /\ kbwire \in Seq(0..255) /\ s \in Seq(0..255) /\ s # <<>> /\ s[Len(s)] # 224
      /\ held \subseteq Keys
  BY DEF TrackInv, KeyboardShapes, Sends
<1>6. /\ Len(kbwire) \in Nat /\ Len(s) \in Nat \ {0} /\ kbwire' \in Seq(0..255)
      /\ Len(kbwire') = Len(kbwire) + Len(s)
      /\ \A i \in 1..Len(kbwire) + Len(s) :
           kbwire'[i] = IF i <= Len(kbwire) THEN kbwire[i] ELSE s[i - Len(kbwire)]
  BY <1>5, ConcatProperties, LenProperties, EmptySeq
<1>7. Scans \in Seq(Nat) /\ Len(Scans) = Len(kbwire) /\ r \in Seq(Nat) /\ Len(r) = Len(s)
  BY <1>5, MarkedIs DEF Scans
<1>8. Scans' = Scans \o r
  <2>1. IF kbwire = <<>> THEN LastByte # 224 ELSE kbwire[Len(kbwire)] # 224
    BY DEF TrackInv, PrefixSound, LastByte
  <2>2. Marked(LastByte, kbwire \o s) = Marked(LastByte, kbwire) \o Marked(0, s)
    BY <1>5, <2>1, MarkedMore
  <2>3. LastByte' = LastByte
    BY <1>1 DEF LastByte
  <2> QED
    BY <2>2, <2>3 DEF Scans
<1>9. PICK n \in 1..Len(s) : /\ MarkedEvent(r[n]) = Report(id, c)
                             /\ \A j \in 1..Len(s) : j # n => MarkedEvent(r[j]) = NoEvent
  BY DEF Sends
<1>10. PrefixSound'
  <2>1. kbwire' # <<>>
    BY <1>6, EmptySeq
  <2>2. Len(kbwire') \in 1..Len(kbwire) + Len(s) /\ ~(Len(kbwire') <= Len(kbwire))
        /\ Len(kbwire') - Len(kbwire) = Len(s)
    BY <1>6
  <2>3. kbwire'[Len(kbwire')] = s[Len(s)]
    BY <1>6, <2>2
  <2> QED
    BY <1>5, <2>1, <2>3 DEF PrefixSound
<1> HIDE DEF r, c
<1>11. c \in KeyCodes /\ c \in Int
  BY DEF KeyCodes, c
<1>12. KeyboardShapes'
  <2>1. \A i \in 1..Len(kbwire) : MarkedEvent(Scans[i]) \in Known \cup {NoEvent}
    BY DEF TrackInv, KeyboardShapes
  <2>2. \A j \in 1..Len(s) : MarkedEvent(r[j]) \in Known \cup {NoEvent}
    BY <1>9, <1>11, ReportIn
  <2>3. ASSUME NEW i \in 1..Len(kbwire') PROVE MarkedEvent((Scans \o r)[i]) \in Known \cup {NoEvent}
    <3>1. (Scans \o r)[i] = IF i <= Len(kbwire) THEN Scans[i] ELSE r[i - Len(kbwire)]
      BY <1>6, <1>7, ConcatProperties
    <3>2. CASE i <= Len(kbwire)
      BY <3>1, <3>2, <1>6, <2>1
    <3>3. CASE ~(i <= Len(kbwire))
      <4>1. i - Len(kbwire) \in 1..Len(s)
        BY <3>3, <1>6
      <4> QED
        BY <3>1, <3>3, <4>1, <2>2
    <3> QED
      BY <3>2, <3>3
  <2>4. held' \subseteq Keys
    BY <1>5
  <2> QED
    BY <1>1, <1>6, <1>8, <2>3, <2>4 DEF TrackInv, KeyboardShapes
<1>13. ASSUME NEW d, NEW i \in {"key", "keyup"}, NEW j \in 1..Len(r), r[j] \in ScanSays(d, i)
       PROVE  j = n /\ d = c /\ i = id
  <2>1. MarkedEvent(r[j]) \in Says(d, i)
    BY <1>13 DEF ScanSays
  <2>2. j = n
    BY <1>7, <1>9, <1>13, <2>1, NoEventOut
  <2> QED
    BY <1>9, <1>11, <2>1, <2>2, ReportIn
<1>14. KeysFollow'
  <2> SUFFICES ASSUME ~lost, NEW l \in Keys
               PROVE  Belief(Scans \o r, ScanSays(KeycodeOf(l), IdOf(l)'),
                             ScanSays(KeycodeOf(l), NotId(IdOf(l)')),
                             KeyQueued(KeycodeOf(l), IdOf(l)')) = Sure
    BY <1>1, <1>3, <1>8 DEF KeysFollow
  <2>1. CASE l = k
    <3>1. IdOf(l)' = id
      BY <2>1 DEF IdOf
    <3>2. n \in 1..Len(r) /\ r[n] \in Nat
      BY <1>7, ElementOfSeq
    <3>3. r[n] \in ScanSays(c, id)
      BY <1>9, <1>11, <3>2, ReportIn DEF ScanSays
    <3>4. NotId(id) \in {"key", "keyup"} /\ NotId(id) # id
      BY KeyTopic
    <3>5. \A j \in 1..Len(r) : j > n => r[j] \notin ScanSays(c, NotId(id))
      BY <1>13, <3>4
    <3>6. \A b : Belief(Scans \o r, ScanSays(c, id), ScanSays(c, NotId(id)), b) = Sure
      BY <1>7, <3>2, <3>3, <3>5, BeliefNew
    <3> QED
      BY <2>1, <3>1, <3>6 DEF c
  <2>2. CASE l # k
    <3>1. IdOf(l)' = IdOf(l)
      BY <2>2 DEF IdOf
    <3>2. KeycodeOf(l) # c
      BY <2>2 DEF c, DistinctCodes
    <3>3. NotId(IdOf(l)) \in {"key", "keyup"}
      BY IdFacts, KeyTopic
    <3>4. \A j \in 1..Len(r) : r[j] \notin ScanSays(KeycodeOf(l), NotId(IdOf(l)))
      BY <1>13, <3>2, <3>3
    <3>5. Belief(Scans, ScanSays(KeycodeOf(l), IdOf(l)), ScanSays(KeycodeOf(l), NotId(IdOf(l))),
                 KeyQueued(KeycodeOf(l), IdOf(l))) = Sure
      BY DEF TrackInv, KeysFollow
    <3> DEFINE F == ScanSays(KeycodeOf(l), IdOf(l))
               A == ScanSays(KeycodeOf(l), NotId(IdOf(l)))
               b == KeyQueued(KeycodeOf(l), IdOf(l))
    <3>6. Belief(Scans \o r, F, A, b) = Sure
      <4>1. Belief(Scans, F, A, b) = Sure /\ \A j \in 1..Len(r) : r[j] \notin A
        BY <3>4, <3>5
      <4> HIDE DEF F, A, b
      <4> QED
        BY <4>1, <1>7, BeliefOn
    <3> QED
      BY <3>1, <3>6
  <2> QED
    BY <2>1, <2>2
<1>15. CtrlFollows'
  <2> SUFFICES ASSUME "ctrl" \in Keys
               PROVE  Belief(Scans \o r, CtrlMake', CtrlBreak', CtrlTold') = Sure
    BY <1>8 DEF CtrlFollows
  <2>1. CASE k = "ctrl"
    <3>1. CASE id = "key"
      <4>1. s = <<29>> /\ CtrlMake' = {29} /\ CtrlBreak' = {157}
        BY <2>1, <3>1 DEF CtrlMake, CtrlBreak
      <4>2. Len(r) = 1 /\ r[1] = 29 /\ 29 \in 0..255
        BY <4>1, <1>7, MarkedOne DEF r
      <4> DEFINE F == {29}
                 A == {157}
      <4>3. 1 \in 1..Len(r) /\ r[1] \in F /\ \A j \in 1..Len(r) : j > 1 => r[j] \notin A
        BY <4>2
      <4>4. \A b : Belief(Scans \o r, F, A, b) = Sure
        <5> HIDE DEF F, A
        <5> QED
          BY <4>3, <1>7, BeliefNew
      <4> QED
        BY <4>1, <4>4
    <3>2. CASE id = "keyup"
      <4>1. s = <<157>> /\ CtrlMake' = {157} /\ CtrlBreak' = {29}
        BY <2>1, <3>2 DEF CtrlMake, CtrlBreak
      <4>2. Len(r) = 1 /\ r[1] = 157 /\ 157 \in 0..255
        BY <4>1, <1>7, MarkedOne DEF r
      <4> DEFINE F == {157}
                 A == {29}
      <4>3. 1 \in 1..Len(r) /\ r[1] \in F /\ \A j \in 1..Len(r) : j > 1 => r[j] \notin A
        BY <4>2
      <4>4. \A b : Belief(Scans \o r, F, A, b) = Sure
        <5> HIDE DEF F, A
        <5> QED
          BY <4>3, <1>7, BeliefNew
      <4> QED
        BY <4>1, <4>4
    <3> QED
      BY <3>1, <3>2
  <2>2. CASE k # "ctrl"
    <3>1. CtrlMake' = CtrlMake /\ CtrlBreak' = CtrlBreak /\ CtrlTold' = CtrlTold
      BY <2>2, <1>1 DEF CtrlMake, CtrlBreak, CtrlTold
    <3>2. \A j \in 1..Len(r) : r[j] \notin {29, 157}
      BY <2>2, <1>7 DEF NotCtrl, r
    <3>3. \A j \in 1..Len(r) : r[j] \notin CtrlBreak
      BY <3>2 DEF CtrlBreak
    <3>4. Belief(Scans, CtrlMake, CtrlBreak, CtrlTold) = Sure
      BY DEF TrackInv, CtrlFollows
    <3> QED
      BY <3>1, <3>3, <3>4, <1>7, BeliefOn
  <2> QED
    BY <2>1, <2>2
<1> QED
  BY <1>2, <1>3, <1>4, <1>10, <1>12, <1>14, <1>15 DEF TrackInv

\* The status byte of a packet.
LEMMA StatusByte ==
  ASSUME NEW b \in 0..7, NEW u \in {0, 16}, NEW v \in {0, 32}
  PROVE  Bit(8 + b + u + v, 8) /\ (8 + b + u + v) % 8 = b
  BY DEF Bit

\* The mouse sends a packet.
LEMMA ReportTracks ==
  ASSUME TrackInv, NEW d \in Moves, NEW b \in Buttons, MouseReport(d, b)
  PROVE  TrackInv'
<1>1. /\ UNCHANGED <<held, kbwire, g_ext_prefix, g_ctrl_down>>
      /\ UNCHANGED <<ring, irq, ev, told>> /\ pc' = pc /\ lost' = lost
      /\ cur' = cur /\ mouse' = mouse /\ buttons' = b /\ mwire' = mwire \o Packet(d[1], d[2], b)
  BY DEF MouseReport, driver
<1>2. /\ KeyboardShapes' /\ PrefixSound' /\ CtrlFollows' /\ Scans' = Scans
      /\ \A k : IdOf(k)' = IdOf(k)
  BY <1>1, KeyboardFrame DEF TrackInv
<1>3. /\ QueueShapes' /\ \A c, id : KeyQueued(c, id)' = KeyQueued(c, id)
      /\ \A v : ButtonsQueued(v)' = ButtonsQueued(v)
  BY <1>1, QueueFrame DEF TrackInv
<1>4. KeysFollow'
  BY <1>1, <1>2, <1>3, KeysFrame DEF TrackInv
<1>5. ButtonsFollow'
  BY <1>1, <1>3 DEF TrackInv, ButtonsFollow
<1> DEFINE p == Packet(d[1], d[2], b)
           n == Len(mwire)
           y == mouse.cycle
<1>6. b \in 0..7 /\ d[1] \in Int /\ d[2] \in Int
  BY InputAssumption
<1>7. /\ p \in Seq(Int) /\ Len(p) = 3
      /\ p[1] = 8 + b + (IF d[1] < 0 THEN 16 ELSE 0) + (IF d[2] < 0 THEN 32 ELSE 0)
  BY <1>6 DEF Packet
<1> HIDE DEF p
<1>8. Bit(p[1], 8) /\ p[1] % 8 = b
  <2> DEFINE u == IF d[1] < 0 THEN 16 ELSE 0
             v == IF d[2] < 0 THEN 32 ELSE 0
  <2>1. u \in {0, 16} /\ v \in {0, 32} /\ p[1] = 8 + b + u + v
    BY <1>7
  <2> HIDE DEF u, v
  <2>2. Bit(8 + b + u + v, 8) /\ (8 + b + u + v) % 8 = b
    BY <1>6, <2>1, StatusByte
  <2> QED
    BY <2>1, <2>2
<1>9. mwire \in Seq(Int) /\ n \in Nat /\ y \in 0..2
  BY LenProperties DEF TrackInv, MouseShapes
<1>10. /\ mwire' \in Seq(Int) /\ Len(mwire') = n + 3
       /\ \A i \in 1..(n + 3) : mwire'[i] = IF i <= n THEN mwire[i] ELSE p[i - n]
  <2>1. /\ mwire \o p \in Seq(Int) /\ Len(mwire \o p) = Len(mwire) + Len(p)
        /\ \A i \in 1..Len(mwire) + Len(p) :
             (mwire \o p)[i] = IF i <= Len(mwire) THEN mwire[i] ELSE p[i - Len(mwire)]
    BY <1>7, <1>9, ConcatProperties
  <2>2. mwire' = mwire \o p
    BY <1>1 DEF p
  <2> QED
    BY <2>1, <2>2, <1>7
<1>11. MouseShapes'
  BY <1>1, <1>6, <1>10 DEF TrackInv, MouseShapes
<1>12. (n + y) % 3 = 0 /\ \A i \in 1..n : (i + y) % 3 = 1 => Bit(mwire[i], 8)
  BY DEF TrackInv, PacketsSound
<1> HIDE DEF n, y
<1>13. (n + 3 + y) % 3 = 0
  BY <1>9, <1>12
<1>14. mwire'[n + 1] = p[1]
  <2>1. n + 1 \in 1..(n + 3) /\ ~(n + 1 <= n) /\ (n + 1) - n = 1
    BY <1>9
  <2> QED
    BY <2>1, <1>10
<1>15. ASSUME NEW i \in 1..(n + 3), (i + y) % 3 = 1 PROVE Bit(mwire'[i], 8)
  <2>1. CASE i <= n
    <3>1. i \in 1..n /\ mwire'[i] = mwire[i]
      BY <2>1, <1>9, <1>10
    <3> QED
      BY <3>1, <1>12, <1>15
  <2>2. CASE ~(i <= n)
    <3>1. i = n + 1
      BY <2>2, <1>9, <1>12, <1>15
    <3> QED
      BY <3>1, <1>14, <1>8
  <2> QED
    BY <2>1, <2>2
<1>16. n + 3 >= 3 /\ (n + 3) - 2 = n + 1
  BY <1>9
<1>17. PacketsSound'
  BY <1>1, <1>8, <1>10, <1>13, <1>14, <1>15, <1>16 DEF PacketsSound, y
<1> QED
  BY <1>2, <1>3, <1>4, <1>5, <1>11, <1>17 DEF TrackInv

\* ps2kbd_handler when it enqueues nothing ...
LEMMA HandlerQuiet ==
  ASSUME NEW sc
  PROVE  /\ sc = 224 => /\ ps2kbd_handler(TRUE, sc).ext = TRUE /\ ps2kbd_handler(FALSE, sc).ext = TRUE
                        /\ ps2kbd_handler(TRUE, sc).events = <<>>
                        /\ ps2kbd_handler(FALSE, sc).events = <<>>
                        /\ ps2kbd_handler(TRUE, sc).tty = FALSE /\ ps2kbd_handler(FALSE, sc).tty = FALSE
         /\ (sc # 224 /\ sc % 128 = 42) => /\ ps2kbd_handler(TRUE, sc).ext = FALSE
                                           /\ ps2kbd_handler(TRUE, sc).events = <<>>
                                           /\ ps2kbd_handler(TRUE, sc).tty = FALSE
  BY Zenon DEF ps2kbd_handler

\* ... and when it reports a key.
LEMMA HandlerTells ==
  ASSUME NEW sc, sc # 224
  PROVE  /\ sc % 128 # 42 =>
              /\ ps2kbd_handler(TRUE, sc).ext = FALSE
              /\ ps2kbd_handler(TRUE, sc).events = <<KeyEvent(sc < 128, Keycode(TRUE, sc % 128))>>
              /\ ps2kbd_handler(TRUE, sc).tty = FALSE
         /\ ps2kbd_handler(FALSE, sc).ext = FALSE
         /\ ps2kbd_handler(FALSE, sc).events = <<KeyEvent(sc < 128, Keycode(FALSE, sc % 128))>>
         /\ ps2kbd_handler(FALSE, sc).tty = TRUE
  BY Zenon DEF ps2kbd_handler

\* The handler enqueues at most the event of its byte, a key's ...
LEMMA HandlerSends ==
  ASSUME NEW ext \in BOOLEAN, NEW sc
  PROVE  LET es == ps2kbd_handler(ext, sc).events
         IN  es = <<>> \/ es = <<KeyEvent(sc < 128, Keycode(ext, sc % 128))>>
<1>1. CASE ext = TRUE
  BY <1>1, HandlerQuiet, HandlerTells
<1>2. CASE ext = FALSE
  BY <1>2, HandlerQuiet, HandlerTells
<1> QED
  BY <1>1, <1>2

\* ... which is what the byte decodes to.
LEMMA HandlerEvents ==
  ASSUME NEW ext \in BOOLEAN, NEW sc
  PROVE  LET es == ps2kbd_handler(ext, sc).events
         IN  \/ Decoded(ext, sc) = NoEvent /\ es = <<>>
             \/ /\ Decoded(ext, sc) # NoEvent /\ es = <<Decoded(ext, sc)>>
                /\ IsKey(Decoded(ext, sc))
<1> DEFINE es == ps2kbd_handler(ext, sc).events
           e  == KeyEvent(sc < 128, Keycode(ext, sc % 128))
<1>1. es = <<>> \/ es = <<e>>
  BY HandlerSends
<1>2. e # NoEvent /\ IsKey(e)
  BY DEF KeyEvent, NoEvent, IsKey
<1>3. Decoded(ext, sc) = IF es = <<>> THEN NoEvent ELSE es[1]
  BY DEF Decoded
<1> HIDE DEF es, e
<1> QED
  BY <1>1, <1>2, <1>3 DEF es

\* The next byte on the keyboard's wire, and that byte marked.
NextByte == Head(kbwire)
NextScan == IF LastByte = 224 THEN NextByte + 256 ELSE NextByte

\* The keyboard's interrupt, by the marked byte it takes.
LEMMA KeyboardIrqIs ==
  ASSUME KeyboardShapes, KeyboardIrq
  PROVE  /\ g_ext_prefix' \in BOOLEAN /\ (LastByte' = 224 <=> NextByte = 224)
         /\ g_ctrl_down' \in BOOLEAN
         /\ NextScan = 29 => g_ctrl_down' = TRUE
         /\ NextScan = 157 => g_ctrl_down' = FALSE
         /\ NextScan \notin {29, 157} => g_ctrl_down' = g_ctrl_down
         /\ \/ MarkedEvent(NextScan) = NoEvent /\ irq' = <<>>
            \/ MarkedEvent(NextScan) # NoEvent /\ irq' = <<MarkedEvent(NextScan)>>
<1> SUFFICES ASSUME NEW sc, sc = NextByte, NEW m, m = NextScan
             PROVE  /\ g_ext_prefix' \in BOOLEAN /\ (LastByte' = 224 <=> sc = 224)
                    /\ g_ctrl_down' \in BOOLEAN
                    /\ m = 29 => g_ctrl_down' = TRUE
                    /\ m = 157 => g_ctrl_down' = FALSE
                    /\ m \notin {29, 157} => g_ctrl_down' = g_ctrl_down
                    /\ \/ MarkedEvent(m) = NoEvent /\ irq' = <<>>
                       \/ MarkedEvent(m) # NoEvent /\ irq' = <<MarkedEvent(m)>>
  OBVIOUS
<1>0. sc = Head(kbwire) /\ m = IF LastByte = 224 THEN sc + 256 ELSE sc
  BY DEF NextByte, NextScan
<1>1. sc \in 0..255 /\ g_ctrl_down \in BOOLEAN /\ g_ext_prefix \in BOOLEAN
  BY <1>0, HeadTailProperties DEF KeyboardShapes, KeyboardIrq
<1>2. LET r == ps2kbd_handler(g_ext_prefix, sc)
      IN  /\ g_ext_prefix' = r.ext /\ irq' = r.events
          /\ r.tty = TRUE => g_ctrl_down' = IF sc % 128 = 29 THEN sc < 128 ELSE g_ctrl_down
          /\ r.tty = FALSE => g_ctrl_down' = g_ctrl_down
  BY <1>0 DEF KeyboardIrq, tty_handle_scancode
<1>3. \/ sc = 224 /\ g_ext_prefix' = TRUE
      \/ sc # 224 /\ g_ext_prefix' = FALSE
  <2>1. CASE g_ext_prefix = TRUE
    <3>1. g_ext_prefix' = ps2kbd_handler(TRUE, sc).ext
      BY <1>2, <2>1
    <3> QED
      BY <3>1, HandlerQuiet, HandlerTells
  <2>2. CASE g_ext_prefix = FALSE
    <3>1. g_ext_prefix' = ps2kbd_handler(FALSE, sc).ext
      BY <1>2, <2>2
    <3> QED
      BY <3>1, HandlerQuiet, HandlerTells
  <2> QED
    BY <1>1, <2>1, <2>2
<1>4. LastByte' = IF g_ext_prefix' THEN 224 ELSE 0
  BY DEF LastByte
<1>5. g_ext_prefix' \in BOOLEAN /\ (LastByte' = 224 <=> sc = 224)
  <2>1. CASE sc = 224 /\ g_ext_prefix' = TRUE
    BY <2>1, <1>4
  <2>2. CASE sc # 224 /\ g_ext_prefix' = FALSE
    <3>1. LastByte' = 0 /\ 0 # 224
      BY <2>2, <1>4
    <3> QED
      BY <2>2, <3>1
  <2> QED
    BY <1>3, <2>1, <2>2
<1>6. \/ Decoded(g_ext_prefix, sc) = NoEvent /\ irq' = <<>>
      \/ Decoded(g_ext_prefix, sc) # NoEvent /\ irq' = <<Decoded(g_ext_prefix, sc)>>
  BY <1>1, <1>2, HandlerEvents
<1>7. CASE g_ext_prefix = TRUE
  <2>1. LastByte = 224
    BY <1>7 DEF LastByte
  <2>2. m = sc + 256 /\ m >= 256 /\ m - 256 = sc /\ m # 29 /\ m # 157
    BY <1>0, <1>1, <2>1
  <2>3. MarkedEvent(m) = Decoded(g_ext_prefix, sc)
    BY <2>2, <1>7 DEF MarkedEvent
  <2>4. ps2kbd_handler(TRUE, sc).tty = FALSE
    BY HandlerQuiet, HandlerTells, Zenon
  <2>5. g_ctrl_down' = g_ctrl_down
    BY <1>2, <1>7, <2>4
  <2> QED
    BY <1>1, <1>5, <1>6, <2>2, <2>3, <2>5
<1>8. CASE g_ext_prefix = FALSE
  <2>1. LastByte = 0 /\ 0 # 224
    BY <1>8 DEF LastByte
  <2>2. m = sc /\ ~(m >= 256)
    BY <1>0, <1>1, <2>1
  <2>3. MarkedEvent(m) = Decoded(g_ext_prefix, sc)
    BY <2>2, <1>8 DEF MarkedEvent
  <2>4. CASE sc = 224
    <3>1. ps2kbd_handler(FALSE, sc).tty = FALSE
      BY <2>4, HandlerQuiet, HandlerTells, Zenon
    <3>2. g_ctrl_down' = g_ctrl_down
      BY <1>2, <1>8, <3>1
    <3> QED
      BY <1>1, <1>5, <1>6, <2>2, <2>3, <2>4, <3>2
  <2>5. CASE sc # 224
    <3>1. ps2kbd_handler(FALSE, sc).tty = TRUE
      BY <2>5, HandlerQuiet, HandlerTells, Zenon
    <3>2. g_ctrl_down' = IF sc % 128 = 29 THEN sc < 128 ELSE g_ctrl_down
      BY <1>2, <1>8, <3>1
    <3>3. CASE sc = 29
      <4>1. sc % 128 = 29 /\ sc < 128
        BY <3>3
      <4>2. g_ctrl_down' = TRUE
        BY <3>2, <4>1
      <4>3. m = 29 /\ m # 157 /\ m \in {29, 157}
        BY <3>3, <2>2
      <4>4. g_ctrl_down' \in BOOLEAN
        BY <4>2
      <4>5. /\ m = 29 => g_ctrl_down' = TRUE
            /\ m = 157 => g_ctrl_down' = FALSE
            /\ m \notin {29, 157} => g_ctrl_down' = g_ctrl_down
        BY <4>2, <4>3, Zenon
      <4>6. \/ MarkedEvent(m) = NoEvent /\ irq' = <<>>
            \/ MarkedEvent(m) # NoEvent /\ irq' = <<MarkedEvent(m)>>
        BY <1>6, <2>3
      <4> QED
        BY <4>4, <4>5, <4>6, <1>5
    <3>4. CASE sc = 157
      <4>1. sc % 128 = 29 /\ ~(sc < 128)
        BY <3>4
      <4>2. g_ctrl_down' = FALSE
        <5>1. (sc < 128) = FALSE
          BY <4>1
        <5> QED
          BY <3>2, <4>1, <5>1
      <4>3. m = 157 /\ m # 29 /\ m \in {29, 157}
        BY <3>4, <2>2
      <4>4. g_ctrl_down' \in BOOLEAN
        BY <4>2
      <4>5. /\ m = 29 => g_ctrl_down' = TRUE
            /\ m = 157 => g_ctrl_down' = FALSE
            /\ m \notin {29, 157} => g_ctrl_down' = g_ctrl_down
        BY <4>2, <4>3, Zenon
      <4>6. \/ MarkedEvent(m) = NoEvent /\ irq' = <<>>
            \/ MarkedEvent(m) # NoEvent /\ irq' = <<MarkedEvent(m)>>
        BY <1>6, <2>3
      <4> QED
        BY <4>4, <4>5, <4>6, <1>5
    <3>5. CASE sc \notin {29, 157}
      <4>1. sc % 128 # 29
        BY <3>5, <1>1
      <4>2. g_ctrl_down' = g_ctrl_down
        BY <3>2, <4>1
      <4> QED
        BY <4>2, <3>5, <1>1, <1>5, <1>6, <2>2, <2>3
    <3> QED
      BY <3>3, <3>4, <3>5
  <2> QED
    BY <2>4, <2>5
<1> QED
  BY <1>1, <1>7, <1>8

\* The first of the marked bytes.
LEMMA MarkedHead ==
  ASSUME NEW p, NEW w \in Seq(0..255), w # <<>>
  PROVE  Marked(p, w) # <<>> /\ Head(Marked(p, w)) = IF p = 224 THEN Head(w) + 256 ELSE Head(w)
<1> DEFINE a == Marked(p, w)
<1>1. Len(w) \in Nat \ {0} /\ Head(w) = w[1]
  BY HeadTailProperties, EmptySeq, LenProperties
<1>2. /\ a \in Seq(Nat) /\ Len(a) = Len(w)
      /\ \A i \in 1..Len(w) : a[i] = IF Before(p, w, i) = 224 THEN w[i] + 256 ELSE w[i]
  BY MarkedIs
<1> HIDE DEF a
<1>3. a # <<>>
  BY <1>1, <1>2, EmptySeq
<1>4. Head(a) = a[1] /\ 1 \in 1..Len(w) /\ Before(p, w, 1) = p
  BY <1>1, <1>2, <1>3 DEF Before
<1> QED
  BY <1>1, <1>2, <1>3, <1>4 DEF a

\* One report.
LEMMA BeliefOne ==
  ASSUME NEW e, NEW Firm, NEW Against, NEW b
  PROVE  Belief(<<e>>, Firm, Against, b) = Hear(e, Firm, Against, b)
<1> DEFINE q == <<e>>
<1>1. Len(q) = 1 /\ q[1] = e /\ 1..Len(q) = {1} /\ ~(1 > 1)
  OBVIOUS
<1> HIDE DEF q
<1>2. CASE e \in Firm
  <2>1. 1 \in 1..Len(q) /\ q[1] \in Firm /\ \A j \in 1..Len(q) : j > 1 => q[j] \notin Against
    BY <1>1, <1>2
  <2> QED
    BY <1>2, <2>1 DEF Belief, Hear, q
<1>3. CASE e \notin Firm
  <2>1. ~\E i \in 1..Len(q) : q[i] \in Firm /\ \A j \in 1..Len(q) : j > i => q[j] \notin Against
    BY <1>1, <1>3
  <2>2. (\A j \in 1..Len(q) : q[j] \notin Against) <=> e \notin Against
    BY <1>1
  <2> QED
    BY <1>3, <2>1, <2>2 DEF Belief, Hear, q
<1> QED
  BY <1>2, <1>3

\* What a handler that starts enqueues comes after all that is queued.
LEMMA IrqQueue ==
  ASSUME QueueShapes, UNCHANGED <<ring, ev, told>>, irq = <<>>, irq' \in Seq(Known),
         pc' = "dispatch" <=> pc = "dispatch"
  PROVE  /\ QueueShapes'
         /\ \A c, id : KeyQueued(c, id)' =
                         Belief(irq', Says(c, id), Says(c, NotId(id)), KeyQueued(c, id))
         /\ \A v : ButtonsQueued(v)' = Belief(irq', ClickTo(v), NotAt(v), ButtonsQueued(v))
<1>1. /\ event_buf' = event_buf /\ event_head' = event_head /\ event_tail' = event_tail
      /\ event_count' = event_count /\ ev' = ev /\ told' = told
  BY DEF ring
<1>2. Retained' = Retained
  BY <1>1 DEF Retained, queue_idx_from_head
<1>3. RingOK' <=> RingOK
  BY <1>1 DEF RingOK
<1>4. QueueShapes'
  BY <1>1, <1>2, <1>3 DEF QueueShapes
<1>5. \A F, A, b : Front(F, A, b)' = Front(F, A, b)
  BY <1>1 DEF Front, Hear
<1>6. ASSUME NEW F, NEW A, NEW b PROVE Queued(F, A, b)' = Belief(irq', F, A, Queued(F, A, b))
  <2> DEFINE x == Belief(Retained, F, A, Front(F, A, b))
  <2>1. Queued(F, A, b)' = Belief(irq', F, A, x)
    BY <1>2, <1>5 DEF Queued, Belief
  <2>2. Queued(F, A, b) = Belief(<<>>, F, A, x)
    BY DEF Queued
  <2>3. x \in {Sure, Unsure} /\ Sure # Unsure
    BY DEF Belief, Sure, Unsure
  <2> HIDE DEF x
  <2>4. Belief(<<>>, F, A, x) = Sure <=> x = Sure
    BY BeliefEmpty
  <2>5. Belief(<<>>, F, A, x) \in {Sure, Unsure}
    BY DEF Belief
  <2>6. Belief(<<>>, F, A, x) = x
    BY <2>3, <2>4, <2>5
  <2> QED
    BY <2>1, <2>2, <2>6
<1>7. \A F, A, b : Queued(F, A, b)' = Belief(irq', F, A, Queued(F, A, b))
  BY <1>6
<1> QED
  BY <1>1, <1>4, <1>7 DEF KeyQueued, ButtonsQueued, KeyTold, ButtonsTold

\* The keyboard's events are about keys.
LEMMA MarkedIsKey ==
  ASSUME NEW m \in Nat
  PROVE  MarkedEvent(m) = NoEvent \/ IsKey(MarkedEvent(m))
<1>2. \A ext \in BOOLEAN : \A sc : Decoded(ext, sc) = NoEvent \/ IsKey(Decoded(ext, sc))
  BY HandlerEvents
<1>3. CASE m >= 256
  BY <1>2, <1>3 DEF MarkedEvent
<1>4. CASE ~(m >= 256)
  BY <1>2, <1>4 DEF MarkedEvent
<1> QED
  BY <1>3, <1>4

\* The keyboard's handler takes a byte: what the byte said of a key is now said by an
\* event, or the byte says nothing.
LEMMA KeyboardTracks ==
  ASSUME TrackInv, KeyboardIrq
  PROVE  TrackInv'
<1>0. PICK sc, m : sc = NextByte /\ m = NextScan
  OBVIOUS
<1>b. sc = Head(kbwire) /\ m = IF LastByte = 224 THEN sc + 256 ELSE sc
  BY <1>0 DEF NextByte, NextScan
<1>a. KeyboardShapes /\ kbwire \in Seq(0..255)
  BY DEF TrackInv, KeyboardShapes
<1>1. /\ UNCHANGED <<buttons, mwire, cur, mouse>> /\ held' = held
      /\ UNCHANGED <<ring, ev, told>> /\ lost' = lost /\ irq = <<>>
      /\ kbwire # <<>> /\ kbwire' = Tail(kbwire)
      /\ pc' = "dispatch" <=> pc = "dispatch"
  BY DEF KeyboardIrq, Interruptible, device, WakeCpu
<1>2. MouseShapes' /\ PacketsSound' /\ mouse'.prev = mouse.prev
  BY <1>1, MouseFrame DEF TrackInv
<1>3. /\ g_ext_prefix' \in BOOLEAN /\ (LastByte' = 224 <=> sc = 224)
      /\ g_ctrl_down' \in BOOLEAN
      /\ m = 29 => g_ctrl_down' = TRUE
      /\ m = 157 => g_ctrl_down' = FALSE
      /\ m \notin {29, 157} => g_ctrl_down' = g_ctrl_down
      /\ \/ MarkedEvent(m) = NoEvent /\ irq' = <<>>
         \/ MarkedEvent(m) # NoEvent /\ irq' = <<MarkedEvent(m)>>
  BY <1>0, <1>a, KeyboardIrqIs
<1>4. kbwire \in Seq(0..255)
  BY <1>a
<1>5. Scans # <<>> /\ Head(Scans) = m /\ Tail(Scans) = Scans'
  <2>1. PICK p, p2, w : p = LastByte /\ p2 = LastByte' /\ w = kbwire
    OBVIOUS
  <2>2. w \in Seq(0..255) /\ w # <<>> /\ (p2 = 224 <=> Head(w) = 224)
    BY <1>b, <1>1, <1>3, <1>4, <2>1
  <2>3. Marked(p, w) # <<>> /\ Head(Marked(p, w)) = IF p = 224 THEN Head(w) + 256 ELSE Head(w)
    BY <2>2, MarkedHead
  <2>5. Tail(Marked(p, w)) = Marked(p2, Tail(w))
    BY <2>2, MarkedTail
  <2>4. Scans = Marked(p, kbwire) /\ Scans' = Marked(p2, Tail(kbwire))
    BY <1>1, <2>1 DEF Scans
  <2> QED
    BY <1>b, <2>1, <2>3, <2>4, <2>5
<1>6. /\ Scans \in Seq(Nat) /\ Len(Scans) = Len(kbwire) /\ Len(kbwire) \in Nat \ {0}
      /\ m \in Nat /\ m = Scans[1]
      /\ kbwire' \in Seq(0..255) /\ Len(kbwire') = Len(kbwire) - 1 /\ sc = kbwire[1]
      /\ \A i \in 1..Len(kbwire') : kbwire'[i] = kbwire[i + 1] /\ Scans'[i] = Scans[i + 1]
  <2>1. Scans \in Seq(Nat) /\ Len(Scans) = Len(kbwire)
    BY <1>4, MarkedIs DEF Scans
  <2>2. Len(kbwire) \in Nat \ {0}
    BY <1>1, <1>4, EmptySeq, LenProperties
  <2>3. /\ kbwire' \in Seq(0..255) /\ Len(kbwire') = Len(kbwire) - 1 /\ sc = kbwire[1]
        /\ \A i \in 1..Len(kbwire') : kbwire'[i] = kbwire[i + 1]
    BY <1>b, <1>1, <1>4, HeadTailProperties
  <2>4. /\ m \in Nat /\ m = Scans[1]
        /\ \A i \in 1..(Len(Scans) - 1) : Scans'[i] = Scans[i + 1]
    BY <1>5, <2>1, HeadTailProperties
  <2> QED
    BY <2>1, <2>2, <2>3, <2>4
<1>7. \A i \in 1..Len(kbwire) : MarkedEvent(Scans[i]) \in Known \cup {NoEvent}
  BY DEF TrackInv, KeyboardShapes
<1>8. KeyboardShapes'
  <2>1. ASSUME NEW i \in 1..Len(kbwire') PROVE MarkedEvent(Scans'[i]) \in Known \cup {NoEvent}
    <3>1. i + 1 \in 1..Len(kbwire) /\ Scans'[i] = Scans[i + 1]
      BY <1>6
    <3> QED
      BY <3>1, <1>7
  <2>2. held' \subseteq Keys
    BY <1>1 DEF TrackInv, KeyboardShapes
  <2> QED
    BY <1>3, <1>6, <2>1, <2>2 DEF KeyboardShapes
<1>9. irq' \in Seq(Known)
  <2>1. MarkedEvent(m) \in Known \cup {NoEvent}
    BY <1>6, <1>7
  <2>2. CASE irq' = <<>>
    BY <2>2
  <2>3. CASE MarkedEvent(m) # NoEvent /\ irq' = <<MarkedEvent(m)>>
    <3> DEFINE e == MarkedEvent(m)
    <3>1. e \in Known
      BY <2>1, <2>3
    <3> HIDE DEF e
    <3>2. <<e>> \in Seq(Known)
      BY <3>1
    <3> QED
      BY <3>2, <2>3 DEF e
  <2> QED
    BY <1>3, <2>2, <2>3
<1>10. /\ QueueShapes'
       /\ \A c, id : KeyQueued(c, id)' =
                       Belief(irq', Says(c, id), Says(c, NotId(id)), KeyQueued(c, id))
       /\ \A v : ButtonsQueued(v)' = Belief(irq', ClickTo(v), NotAt(v), ButtonsQueued(v))
  BY <1>1, <1>9, IrqQueue DEF TrackInv
<1>11. PrefixSound'
  <2>1. kbwire[Len(kbwire)] # 224
    BY <1>1 DEF TrackInv, PrefixSound
  <2>2. CASE kbwire' = <<>>
    <3>1. Len(kbwire) = 1
      <4>1. Len(kbwire') = 0
        BY <2>2
      <4>2. Len(kbwire') = Len(kbwire) - 1 /\ Len(kbwire) \in Nat
        BY <1>6
      <4> QED
        BY <4>1, <4>2
    <3>2. LastByte' # 224
      BY <3>1, <2>1, <1>3, <1>6
    <3> QED
      BY <2>2, <3>2 DEF PrefixSound, LastByte
  <2>3. CASE kbwire' # <<>>
    <3>1. Len(kbwire') \in 1..Len(kbwire') /\ Len(kbwire') + 1 = Len(kbwire)
      BY <2>3, <1>6, EmptySeq
    <3>2. kbwire'[Len(kbwire')] = kbwire[Len(kbwire)]
      BY <3>1, <1>6
    <3> QED
      BY <2>1, <2>3, <3>2 DEF PrefixSound
  <2> QED
    BY <2>2, <2>3
<1>12. KeysFollow'
  <2>a. \A k : IdOf(k)' = IdOf(k)
    BY <1>1 DEF IdOf
  <2> SUFFICES ASSUME ~lost, NEW k \in Keys, NEW id, id = IdOf(k)
               PROVE  Belief(Scans', ScanSays(KeycodeOf(k), id), ScanSays(KeycodeOf(k), NotId(id)),
                             KeyQueued(KeycodeOf(k), id)') = Sure
    BY <1>1, <2>a DEF KeysFollow
  <2> DEFINE c == KeycodeOf(k)
             F == ScanSays(c, id)
             A == ScanSays(c, NotId(id))
             b == KeyQueued(c, id)
             h == Belief(irq', Says(c, id), Says(c, NotId(id)), b)
  <2>1. Belief(Scans, F, A, b) = Sure
    BY DEF TrackInv, KeysFollow
  <2>2. m \in F <=> MarkedEvent(m) \in Says(c, id)
    BY <1>6 DEF ScanSays
  <2>3. m \in A <=> MarkedEvent(m) \in Says(c, NotId(id))
    BY <1>6 DEF ScanSays
  <2>4. h = KeyQueued(c, id)'
    BY <1>10
  <2>5. NoEvent \notin Says(c, id)
    BY NoEventOut
  <2> HIDE DEF F, A, b
  <2>6. Hear(m, F, A, b) = Sure => h = Sure
    <3>1. CASE MarkedEvent(m) = NoEvent /\ irq' = <<>>
      <4>1. h = Sure <=> b = Sure
        BY <3>1, BeliefEmpty
      <4> QED
        BY <3>1, <4>1, <2>2, <2>5 DEF Hear, Sure, Unsure
    <3>2. CASE irq' = <<MarkedEvent(m)>>
      <4>1. h = Hear(MarkedEvent(m), Says(c, id), Says(c, NotId(id)), b)
        BY <3>2, BeliefOne
      <4> QED
        BY <4>1, <2>2, <2>3 DEF Hear
    <3> QED
      BY <1>3, <3>1, <3>2
  <2> HIDE DEF h
  <2>7. Belief(Tail(Scans), F, A, Hear(Head(Scans), F, A, b)) = Sure
    BY <1>5, <1>6, <2>1, BeliefHead
  <2>8. Belief(Scans', F, A, Hear(m, F, A, b)) = Sure
    BY <1>5, <2>7
  <2>9. Belief(Scans', F, A, h) = Sure
    BY <2>6, <2>8, BeliefMore
  <2> QED
    BY <2>9, <2>4 DEF F, A
<1>13. ButtonsFollow'
  <2> SUFFICES ASSUME ~lost
               PROVE  Belief(irq', ClickTo(mouse.prev), NotAt(mouse.prev), ButtonsQueued(mouse.prev)) = Sure
    BY <1>1, <1>2, <1>10 DEF ButtonsFollow
  <2> DEFINE F == ClickTo(mouse.prev)
             A == NotAt(mouse.prev)
             b == ButtonsQueued(mouse.prev)
  <2>1. b = Sure
    BY DEF TrackInv, ButtonsFollow
  <2>2. MarkedEvent(m) # NoEvent => MarkedEvent(m) \notin A
    BY <1>6, MarkedIsKey DEF NotAt
  <2> HIDE DEF F, A, b
  <2>3. CASE irq' = <<>>
    <3>1. Belief(<<>>, F, A, b) = Sure
      BY <2>1, BeliefEmpty
    <3> QED
      BY <3>1, <2>3 DEF F, A, b
  <2>4. CASE MarkedEvent(m) # NoEvent /\ irq' = <<MarkedEvent(m)>>
    <3>1. Belief(<<MarkedEvent(m)>>, F, A, b) = Hear(MarkedEvent(m), F, A, b)
      BY BeliefOne
    <3>2. Hear(MarkedEvent(m), F, A, b) = Sure
      BY <2>1, <2>2, <2>4 DEF Hear
    <3> QED
      BY <3>1, <3>2, <2>4 DEF F, A, b
  <2> QED
    BY <1>3, <2>3, <2>4
<1>14. CtrlFollows'
  <2> SUFFICES ASSUME "ctrl" \in Keys
               PROVE  Belief(Scans', CtrlMake, CtrlBreak, CtrlTold') = Sure
    BY <1>1 DEF CtrlFollows, CtrlMake, CtrlBreak
  <2>1. Belief(Scans, CtrlMake, CtrlBreak, CtrlTold) = Sure
    BY DEF TrackInv, CtrlFollows
  <2>2. Belief(Tail(Scans), CtrlMake, CtrlBreak, Hear(Head(Scans), CtrlMake, CtrlBreak, CtrlTold)) = Sure
    BY <1>5, <1>6, <2>1, BeliefHead
  <2>3. Belief(Scans', CtrlMake, CtrlBreak, Hear(m, CtrlMake, CtrlBreak, CtrlTold)) = Sure
    BY <1>5, <2>2
  <2>4. ASSUME Hear(m, CtrlMake, CtrlBreak, CtrlTold) = Sure PROVE CtrlTold' = Sure
    <3>1. CtrlTold' = IF g_ctrl_down' <=> "ctrl" \in held THEN Sure ELSE Unsure
      BY <1>1 DEF CtrlTold
    <3>2. CASE "ctrl" \in held
      <4>1. CtrlMake = {29} /\ CtrlBreak = {157} /\ (CtrlTold = Sure => g_ctrl_down)
        BY <3>2 DEF CtrlMake, CtrlBreak, CtrlTold, Sure, Unsure
      <4>2. m = 29 \/ (m # 157 /\ g_ctrl_down)
        BY <4>1, <2>4 DEF Hear, Sure, Unsure
      <4>3. g_ctrl_down'
        BY <1>3, <4>2
      <4> QED
        BY <3>1, <3>2, <4>3
    <3>3. CASE "ctrl" \notin held
      <4>1. CtrlMake = {157} /\ CtrlBreak = {29} /\ (CtrlTold = Sure => ~g_ctrl_down)
        BY <3>3 DEF CtrlMake, CtrlBreak, CtrlTold, Sure, Unsure
      <4>2. m = 157 \/ (m # 29 /\ ~g_ctrl_down)
        BY <4>1, <2>4 DEF Hear, Sure, Unsure
      <4>3. ~g_ctrl_down'
        BY <1>3, <4>2
      <4> QED
        BY <3>1, <3>3, <4>3
    <3> QED
      BY <3>2, <3>3
  <2>5. Hear(m, CtrlMake, CtrlBreak, CtrlTold) = Sure => CtrlTold' = Sure
    BY <2>4
  <2> QED
    BY <2>3, <2>5, BeliefMore
<1> QED
  BY <1>2, <1>8, <1>10, <1>11, <1>12, <1>13, <1>14 DEF TrackInv

-----------------------------------------------------------------------------
(* The mouse's handler. *)

\* Mouse events that report the buttons v.
Reporting(v) == {e \in Sent : ~IsKey(e) /\ e.key = v}

\* A number of three bits is its bits.
LEMMA ThreeBits ==
  ASSUME NEW p \in 0..7, NEW q \in 0..7, Bit(p, 1) <=> Bit(q, 1), Bit(p, 2) <=> Bit(q, 2),
         Bit(p, 4) <=> Bit(q, 4)
  PROVE  p = q
<1>1. \A x \in 0..7 : x \in {0, 1, 2, 3, 4, 5, 6, 7}
  OBVIOUS
<1>2. /\ Bit(1, 1) /\ Bit(3, 1) /\ Bit(5, 1) /\ Bit(7, 1)
      /\ ~Bit(0, 1) /\ ~Bit(2, 1) /\ ~Bit(4, 1) /\ ~Bit(6, 1)
  BY DEF Bit
<1>3. /\ Bit(2, 2) /\ Bit(3, 2) /\ Bit(6, 2) /\ Bit(7, 2)
      /\ ~Bit(0, 2) /\ ~Bit(1, 2) /\ ~Bit(4, 2) /\ ~Bit(5, 2)
  BY DEF Bit
<1>4. /\ Bit(4, 4) /\ Bit(5, 4) /\ Bit(6, 4) /\ Bit(7, 4)
      /\ ~Bit(0, 4) /\ ~Bit(1, 4) /\ ~Bit(2, 4) /\ ~Bit(3, 4)
  BY DEF Bit
<1> QED
  BY <1>1, <1>2, <1>3, <1>4

\* A mouse event is one of those the consumers know.
LEMMA MouseEventIn ==
  ASSUME NEW kind \in {"mousemove", "mousedown", "mouseup", "rightclick"}, NEW v \in Int,
         NEW c \in Int \X Int
  PROVE  /\ MouseEvent(kind, v, c) \in Reporting(v)
         /\ kind # "mousemove" => MouseEvent(kind, v, c) \in ClickTo(v)
  BY DEF MouseEvent, Reporting, Sent, IsKey, ClickTo

\* ButtonEvents: a button that changed is reported.
LEMMA ButtonEventsAre ==
  ASSUME NEW b, NEW p, NEW v \in Int, NEW c \in Int \X Int
  PROVE  LET es == ButtonEvents(b, p, v, c)
         IN  /\ es \in Seq(Reporting(v))
             /\ ~(Pressed(p, b) <=> Pressed(v, b)) => \E i \in 1..Len(es) : es[i] \in ClickTo(v)
<1> DEFINE kind == IF ~Pressed(v, b) THEN "mouseup" ELSE IF b = Right THEN "rightclick" ELSE "mousedown"
           e == MouseEvent(kind, v, c)
           es == ButtonEvents(b, p, v, c)
<1>1. kind \in {"mousedown", "mouseup", "rightclick"}
  OBVIOUS
<1>2. es = IF Pressed(p, b) = Pressed(v, b) THEN <<>> ELSE <<e>>
  BY DEF ButtonEvents
<1> HIDE DEF kind, es
<1>3. e \in Reporting(v) /\ e \in ClickTo(v)
  BY <1>1, MouseEventIn
<1>4. (Pressed(p, b) = Pressed(v, b)) <=> (Pressed(p, b) <=> Pressed(v, b))
  BY DEF Pressed, Bit
<1> HIDE DEF e
<1>5. <<e>> \in Seq(Reporting(v)) /\ 1 \in 1..Len(<<e>>) /\ <<e>>[1] \in ClickTo(v)
  BY <1>3
<1>6. CASE Pressed(p, b) <=> Pressed(v, b)
  BY <1>2, <1>4, <1>6 DEF es
<1>7. CASE ~(Pressed(p, b) <=> Pressed(v, b))
  <2>1. es = <<e>>
    BY <1>2, <1>4, <1>7
  <2> QED
    BY <1>5, <2>1 DEF es
<1> QED
  BY <1>6, <1>7

\* What is in a row is in a longer one.
LEMMA InRow ==
  ASSUME NEW E, NEW q \in Seq(E), NEW r \in Seq(E), NEW F,
         (\E i \in 1..Len(q) : q[i] \in F) \/ (\E i \in 1..Len(r) : r[i] \in F)
  PROVE  q \o r \in Seq(E) /\ \E i \in 1..Len(q \o r) : (q \o r)[i] \in F
<1> DEFINE a == q \o r
<1>1. /\ Len(q) \in Nat /\ Len(r) \in Nat /\ Len(a) = Len(q) + Len(r) /\ a \in Seq(E)
      /\ \A k \in 1..Len(q) + Len(r) : a[k] = IF k <= Len(q) THEN q[k] ELSE r[k - Len(q)]
  BY ConcatProperties, LenProperties
<1> HIDE DEF a
<1>2. ASSUME NEW i \in 1..Len(q), q[i] \in F PROVE \E j \in 1..Len(a) : a[j] \in F
  <2>1. i \in 1..Len(a) /\ a[i] = q[i]
    BY <1>1
  <2> QED
    BY <1>2, <2>1
<1>3. ASSUME NEW i \in 1..Len(r), r[i] \in F PROVE \E j \in 1..Len(a) : a[j] \in F
  <2> DEFINE k == Len(q) + i
  <2>1. k \in 1..Len(q) + Len(r) /\ k \in 1..Len(a) /\ ~(k <= Len(q)) /\ k - Len(q) = i
    BY <1>1
  <2> HIDE DEF k
  <2>2. a[k] = r[i]
    BY <1>1, <2>1
  <2> QED
    BY <1>3, <2>1, <2>2
<1> QED
  BY <1>1, <1>2, <1>3 DEF a

\* The events of a packet all report its buttons, and when these changed one says so.
LEMMA PacketEvents ==
  ASSUME NEW m \in [cycle : 0..2, bytes : Int \X Int, prev : 0..7], NEW c \in Int \X Int, NEW b2 \in Int
  PROVE  LET r == DecodePacket(m, c, b2)
             v == m.bytes[1] % 8
         IN  /\ r.cur \in Int \X Int /\ r.m \in [cycle : 0..2, bytes : Int \X Int, prev : 0..7]
             /\ r.m.cycle = 0 /\ r.m.prev = v
             /\ r.events \in Seq(Reporting(v))
             /\ v # m.prev => \E i \in 1..Len(r.events) : r.events[i] \in ClickTo(v)
<1> DEFINE status == m.bytes[1]
           v  == status % 8
           dx == Delta(m.bytes[2], Bit(status, 16))
           dy == -Delta(b2, Bit(status, 32))
           d  == cursor_move(c, dx, dy)
           e0 == IF dx # 0 \/ dy # 0 THEN <<MouseEvent("mousemove", v, d)>> ELSE <<>>
           e1 == ButtonEvents(Left, m.prev, v, d)
           e2 == ButtonEvents(Right, m.prev, v, d)
           e4 == ButtonEvents(Middle, m.prev, v, d)
           es == e0 \o e1 \o e2 \o e4
           r  == DecodePacket(m, c, b2)
<1>1. status \in Int /\ m.bytes[2] \in Int /\ m.prev \in 0..7 /\ v \in 0..7 /\ v \in Int
  OBVIOUS
<1>2. dx \in Int /\ dy \in Int
  BY <1>1 DEF Delta, Int8
<1>3. d \in Int \X Int
  BY <1>2, ScreenAssumption DEF cursor_move, Clamp
<1>4. /\ r.m = [cycle |-> 0, bytes |-> <<status, m.bytes[2]>>, prev |-> v]
      /\ r.cur = d /\ r.events = es
  BY DEF DecodePacket
<1>5. r.m \in [cycle : 0..2, bytes : Int \X Int, prev : 0..7] /\ r.m.cycle = 0 /\ r.m.prev = v
  BY <1>1, <1>4
<1> HIDE DEF r, d, dx, dy, v, status
<1>6. e0 \in Seq(Reporting(v))
  <2> DEFINE e == MouseEvent("mousemove", v, d)
  <2>1. e \in Reporting(v)
    BY <1>1, <1>3, MouseEventIn
  <2> HIDE DEF e
  <2>2. <<e>> \in Seq(Reporting(v)) /\ <<>> \in Seq(Reporting(v))
    BY <2>1
  <2> QED
    BY <2>2 DEF e
<1> HIDE DEF e0
<1>7. /\ e1 \in Seq(Reporting(v)) /\ e2 \in Seq(Reporting(v)) /\ e4 \in Seq(Reporting(v))
      /\ ~(Pressed(m.prev, Left) <=> Pressed(v, Left)) => \E i \in 1..Len(e1) : e1[i] \in ClickTo(v)
      /\ ~(Pressed(m.prev, Right) <=> Pressed(v, Right)) => \E i \in 1..Len(e2) : e2[i] \in ClickTo(v)
      /\ ~(Pressed(m.prev, Middle) <=> Pressed(v, Middle)) => \E i \in 1..Len(e4) : e4[i] \in ClickTo(v)
  BY <1>1, <1>3, ButtonEventsAre
<1> HIDE DEF e1, e2, e4
<1>8. /\ e0 \o e1 \in Seq(Reporting(v)) /\ (e0 \o e1) \o e2 \in Seq(Reporting(v))
      /\ es \in Seq(Reporting(v))
  BY <1>6, <1>7, ConcatProperties
<1>9. ASSUME v # m.prev PROVE \E i \in 1..Len(es) : es[i] \in ClickTo(v)
  <2>1. \/ ~(Pressed(m.prev, Left) <=> Pressed(v, Left))
        \/ ~(Pressed(m.prev, Right) <=> Pressed(v, Right))
        \/ ~(Pressed(m.prev, Middle) <=> Pressed(v, Middle))
    BY <1>1, <1>9, ThreeBits DEF Pressed, Left, Right, Middle
  <2>2. \/ \E i \in 1..Len(e1) : e1[i] \in ClickTo(v)
        \/ \E i \in 1..Len(e2) : e2[i] \in ClickTo(v)
        \/ \E i \in 1..Len(e4) : e4[i] \in ClickTo(v)
    BY <2>1, <1>7
  <2>3. CASE \E i \in 1..Len(e4) : e4[i] \in ClickTo(v)
    BY <2>3, <1>7, <1>8, InRow
  <2> DEFINE f == e0 \o e1
             g == f \o e2
  <2>4. f \in Seq(Reporting(v)) /\ g \in Seq(Reporting(v)) /\ es = g \o e4
    BY <1>8
  <2>5. (\E i \in 1..Len(e1) : e1[i] \in ClickTo(v)) => \E i \in 1..Len(f) : f[i] \in ClickTo(v)
    BY <1>6, <1>7, InRow
  <2> HIDE DEF f
  <2>6. ((\E i \in 1..Len(f) : f[i] \in ClickTo(v)) \/ (\E i \in 1..Len(e2) : e2[i] \in ClickTo(v)))
          => \E i \in 1..Len(g) : g[i] \in ClickTo(v)
    BY <2>4, <1>7, InRow
  <2> HIDE DEF g, es
  <2>7. (\E i \in 1..Len(g) : g[i] \in ClickTo(v)) => \E i \in 1..Len(g \o e4) : (g \o e4)[i] \in ClickTo(v)
    BY <2>4, <1>7, InRow
  <2> QED
    BY <2>2, <2>3, <2>4, <2>5, <2>6, <2>7
<1> HIDE DEF es
<1> QED
  BY <1>3, <1>4, <1>5, <1>8, <1>9 DEF r, v, status

\* A byte of a packet is stored.
LEMMA SetByte ==
  ASSUME NEW b \in Int \X Int, NEW d \in Int
  PROVE  /\ [b EXCEPT ![1] = d] \in Int \X Int /\ [b EXCEPT ![1] = d][1] = d
         /\ [b EXCEPT ![2] = d] \in Int \X Int /\ [b EXCEPT ![2] = d][1] = b[1]
<1>1. PICK p \in Int, q \in Int : b = <<p, q>>
  OBVIOUS
<1>2. [b EXCEPT ![1] = d] = <<d, q>> /\ [b EXCEPT ![2] = d] = <<p, d>>
  BY <1>1
<1> QED
  BY <1>1, <1>2

\* The mouse's interrupt.
LEMMA MouseIrqIs ==
  ASSUME MouseShapes, MouseIrq
  PROVE  /\ mouse' \in [cycle : 0..2, bytes : Int \X Int, prev : 0..7] /\ cur' \in Int \X Int
         /\ (mouse.cycle = 0 /\ Bit(Head(mwire), 8)) =>
              /\ mouse'.cycle = 1 /\ mouse'.bytes[1] = Head(mwire)
              /\ mouse'.prev = mouse.prev /\ irq' = <<>>
         /\ mouse.cycle = 1 => /\ mouse'.cycle = 2 /\ mouse'.bytes[1] = mouse.bytes[1]
                               /\ mouse'.prev = mouse.prev /\ irq' = <<>>
         /\ mouse.cycle = 2 => mouse'.cycle = 0 /\ mouse'.prev = mouse.bytes[1] % 8
         /\ irq' \in Seq(Reporting(mouse'.prev))
         /\ mouse'.prev # mouse.prev => \E i \in 1..Len(irq') : irq'[i] \in ClickTo(mouse'.prev)
<1>1. /\ mouse \in [cycle : 0..2, bytes : Int \X Int, prev : 0..7] /\ cur \in Int \X Int
      /\ Head(mwire) \in Int
  BY HeadTailProperties DEF MouseShapes, MouseIrq
<1>2. PICK m, c, data : m = mouse /\ c = cur /\ data = Head(mwire)
  OBVIOUS
<1> DEFINE r == ps2mouse_handler(m, c, data)
<1>3. mouse' = r.m /\ cur' = r.cur /\ irq' = r.events
  BY <1>2 DEF MouseIrq
<1>4. m \in [cycle : 0..2, bytes : Int \X Int, prev : 0..7] /\ c \in Int \X Int /\ data \in Int
  BY <1>1, <1>2
<1>5. CASE m.cycle = 0
  <2>1. r = [m |-> [m EXCEPT !.bytes[1] = data, !.cycle = IF Bit(data, 8) THEN 1 ELSE 0],
             cur |-> c, events |-> <<>>]
    BY <1>5 DEF ps2mouse_handler
  <2> HIDE DEF r
  <2> DEFINE b == [m.bytes EXCEPT ![1] = data]
  <2>3. b \in Int \X Int /\ b[1] = data
    BY <1>4, SetByte
  <2>4. r.m = [cycle |-> IF Bit(data, 8) THEN 1 ELSE 0, bytes |-> b, prev |-> m.prev]
        /\ r.cur = c /\ r.events = <<>>
    BY <1>4, <2>1
  <2> HIDE DEF b
  <2>2. /\ r.m \in [cycle : 0..2, bytes : Int \X Int, prev : 0..7] /\ r.cur = c /\ r.events = <<>>
        /\ r.m.prev = m.prev /\ r.m.bytes[1] = data /\ (Bit(data, 8) => r.m.cycle = 1)
    BY <1>4, <2>3, <2>4
  <2> QED
    BY <1>2, <1>3, <1>4, <1>5, <2>2
<1>6. CASE m.cycle = 1
  <2>1. r = [m |-> [m EXCEPT !.bytes[2] = data, !.cycle = 2], cur |-> c, events |-> <<>>]
    BY <1>6 DEF ps2mouse_handler
  <2> HIDE DEF r
  <2> DEFINE b == [m.bytes EXCEPT ![2] = data]
  <2>3. b \in Int \X Int /\ b[1] = m.bytes[1]
    BY <1>4, SetByte
  <2>4. r.m = [cycle |-> 2, bytes |-> b, prev |-> m.prev] /\ r.cur = c /\ r.events = <<>>
    BY <1>4, <2>1
  <2> HIDE DEF b
  <2>2. /\ r.m \in [cycle : 0..2, bytes : Int \X Int, prev : 0..7] /\ r.cur = c /\ r.events = <<>>
        /\ r.m.prev = m.prev /\ r.m.bytes[1] = m.bytes[1] /\ r.m.cycle = 2
    BY <1>4, <2>3, <2>4
  <2> QED
    BY <1>2, <1>3, <1>4, <1>6, <2>2
<1>7. CASE m.cycle = 2
  <2>1. r = DecodePacket(m, c, data)
    BY <1>7 DEF ps2mouse_handler
  <2> HIDE DEF r
  <2> DEFINE v == m.bytes[1] % 8
  <2>2. /\ r.cur \in Int \X Int /\ r.m \in [cycle : 0..2, bytes : Int \X Int, prev : 0..7]
        /\ r.m.cycle = 0 /\ r.m.prev = v
        /\ r.events \in Seq(Reporting(v))
        /\ v # m.prev => \E i \in 1..Len(r.events) : r.events[i] \in ClickTo(v)
    BY <1>4, <2>1, PacketEvents
  <2> QED
    BY <1>2, <1>3, <1>7, <2>2
<1> QED
  BY <1>2, <1>4, <1>5, <1>6, <1>7

\* The place of a byte in its packet does not change when an earlier one is taken.
LEMMA PlaceShifts ==
  ASSUME NEW y \in 0..2, NEW z, z = IF y = 2 THEN 0 ELSE y + 1, NEW i \in Int
  PROVE  (i + z) % 3 = (i + 1 + y) % 3
<1>1. y = 0 \/ y = 1 \/ y = 2
  OBVIOUS
<1>2. CASE y = 0
  BY <1>2
<1>3. CASE y = 1
  BY <1>3
<1>4. CASE y = 2
  BY <1>4
<1> QED
  BY <1>1, <1>2, <1>3, <1>4

\* The mouse's handler takes a byte.
LEMMA MouseTracks ==
  ASSUME TrackInv, MouseIrq
  PROVE  TrackInv'
<1>1. /\ UNCHANGED <<held, kbwire, g_ext_prefix, g_ctrl_down>> /\ buttons' = buttons
      /\ UNCHANGED <<ring, ev, told>> /\ lost' = lost /\ irq = <<>>
      /\ mwire # <<>> /\ mwire' = Tail(mwire)
      /\ pc' = "dispatch" <=> pc = "dispatch"
  BY DEF MouseIrq, Interruptible, device, WakeCpu
<1>2. /\ KeyboardShapes' /\ PrefixSound' /\ CtrlFollows' /\ Scans' = Scans
      /\ \A k : IdOf(k)' = IdOf(k)
  BY <1>1, KeyboardFrame DEF TrackInv
<1>3. MouseShapes /\ mwire \in Seq(Int) /\ buttons \in 0..7
  BY DEF TrackInv, MouseShapes
<1>4. PICK y, z, v, n : y = mouse.cycle /\ z = mouse'.cycle /\ v = mouse'.prev /\ n = Len(mwire)
  OBVIOUS
<1>5. /\ y \in 0..2 /\ n \in Nat \ {0} /\ Len(mwire') = n - 1 /\ mwire' \in Seq(Int)
      /\ Head(mwire) = mwire[1] /\ \A i \in 1..(n - 1) : mwire'[i] = mwire[i + 1]
  <2>1. y \in 0..2
    BY <1>3, <1>4 DEF MouseShapes
  <2> QED
    BY <1>1, <1>3, <1>4, <2>1, HeadTailProperties, EmptySeq, LenProperties
<1>6. /\ (n + y) % 3 = 0
      /\ \A i \in 1..n : (i + y) % 3 = 1 => Bit(mwire[i], 8)
      /\ IF n >= 3 THEN mwire[n - 2] % 8 = buttons
         ELSE IF y # 0 THEN mouse.bytes[1] % 8 = buttons
         ELSE mouse.prev = buttons
  BY <1>4 DEF TrackInv, PacketsSound
<1>7. y = 0 => Bit(Head(mwire), 8)
  <2>1. 1 \in 1..n /\ (1 + 0) % 3 = 1
    BY <1>5
  <2> QED
    BY <2>1, <1>5, <1>6
<1>8. /\ mouse' \in [cycle : 0..2, bytes : Int \X Int, prev : 0..7] /\ cur' \in Int \X Int
      /\ y = 0 => z = 1 /\ mouse'.bytes[1] = mwire[1] /\ mouse'.prev = mouse.prev
      /\ y = 1 => z = 2 /\ mouse'.bytes[1] = mouse.bytes[1] /\ mouse'.prev = mouse.prev
      /\ y = 2 => z = 0 /\ mouse'.prev = mouse.bytes[1] % 8
      /\ irq' \in Seq(Reporting(v))
      /\ v # mouse.prev => \E i \in 1..Len(irq') : irq'[i] \in ClickTo(v)
  BY <1>3, <1>4, <1>5, <1>7, MouseIrqIs
<1>9. MouseShapes'
  BY <1>1, <1>3, <1>5, <1>8 DEF MouseShapes
<1>10. z = IF y = 2 THEN 0 ELSE y + 1
  BY <1>5, <1>8
<1>11. PacketsSound'
  <2>1. ((n - 1) + z) % 3 = 0
    <3>1. n - 1 \in Int /\ (n - 1) + 1 + y = n + y
      BY <1>5
    <3>2. ((n - 1) + z) % 3 = ((n - 1) + 1 + y) % 3
      <4>1. PICK i \in Int : i = n - 1
        BY <3>1
      <4>2. (i + z) % 3 = (i + 1 + y) % 3
        BY <1>5, <1>10, PlaceShifts
      <4> QED
        BY <4>1, <4>2
    <3> QED
      BY <3>1, <3>2, <1>6
  <2>2. ASSUME NEW i \in 1..(n - 1), (i + z) % 3 = 1 PROVE Bit(mwire'[i], 8)
    <3>1. i + 1 \in 1..n /\ mwire'[i] = mwire[i + 1] /\ i \in Int
      BY <1>5
    <3>2. (i + 1 + y) % 3 = 1
      BY <2>2, <3>1, <1>5, <1>10, PlaceShifts
    <3> QED
      BY <3>1, <3>2, <1>6
  <2>3. CASE n >= 4
    <3>1. n - 3 \in 1..(n - 1) /\ (n - 3) + 1 = n - 2 /\ (n - 1) - 2 = n - 3 /\ n - 1 >= 3 /\ n >= 3
      BY <2>3, <1>5
    <3>2. mwire'[(n - 1) - 2] % 8 = buttons
      BY <3>1, <1>5, <1>6
    <3> QED
      BY <1>1, <1>4, <1>5, <2>1, <2>2, <3>1, <3>2 DEF PacketsSound
  <2>4. CASE n < 4
    <3>1. ~(n - 1 >= 3) /\ ((n = 3 /\ y = 0) \/ (n = 2 /\ y = 1) \/ (n = 1 /\ y = 2))
      <4>1. n \in {1, 2, 3} /\ y \in {0, 1, 2} /\ (n + y) % 3 = 0
        BY <2>4, <1>5, <1>6
      <4> QED
        BY <4>1
    <3>2. IF z # 0 THEN mouse'.bytes[1] % 8 = buttons ELSE mouse'.prev = buttons
      BY <3>1, <1>6, <1>8
    <3> QED
      BY <1>1, <1>4, <1>5, <2>1, <2>2, <3>1, <3>2 DEF PacketsSound
  <2> QED
    BY <2>3, <2>4, <1>5
<1>12. /\ \A i \in 1..Len(irq') : irq'[i] \in Reporting(v)
       /\ irq' \in Seq(Known)
  <2>1. Reporting(v) \subseteq Known
    BY DEF Reporting, Known
  <2> QED
    BY <1>8, <2>1, ElementOfSeq, SeqOf
<1>13. /\ QueueShapes'
       /\ \A c, id : KeyQueued(c, id)' =
                       Belief(irq', Says(c, id), Says(c, NotId(id)), KeyQueued(c, id))
       /\ \A w : ButtonsQueued(w)' = Belief(irq', ClickTo(w), NotAt(w), ButtonsQueued(w))
  BY <1>1, <1>12, IrqQueue DEF TrackInv
<1>14. KeysFollow'
  <2>1. ASSUME NEW k \in Keys, NEW id, id = IdOf(k), KeyQueued(KeycodeOf(k), id) = Sure
        PROVE  KeyQueued(KeycodeOf(k), id)' = Sure
    <3> DEFINE c == KeycodeOf(k)
    <3>1. NotId(id) \in {"key", "keyup"}
      BY <2>1, IdFacts, KeyTopic
    <3>2. \A j \in 1..Len(irq') : irq'[j] \notin Says(c, NotId(id))
      BY <1>12, <3>1 DEF Reporting, Says, IsKey
    <3>3. Belief(irq', Says(c, id), Says(c, NotId(id)), KeyQueued(c, id)) = Sure
      BY <1>12, <2>1, <3>2, BeliefRow
    <3> QED
      BY <1>13, <3>3
  <2>2. \A k \in Keys : KeyQueued(KeycodeOf(k), IdOf(k)) = Sure
                           => KeyQueued(KeycodeOf(k), IdOf(k))' = Sure
    BY <1>2, <2>1
  <2> QED
    BY <1>1, <1>2, <2>2, KeysPass DEF TrackInv
<1>15. ButtonsFollow'
  <2> SUFFICES ASSUME ~lost PROVE Belief(irq', ClickTo(v), NotAt(v), ButtonsQueued(v)) = Sure
    BY <1>1, <1>4, <1>13 DEF ButtonsFollow
  <2>1. \A j \in 1..Len(irq') : irq'[j] \notin NotAt(v)
    BY <1>12 DEF Reporting, NotAt
  <2>2. ButtonsQueued(mouse.prev) = Sure
    BY DEF TrackInv, ButtonsFollow
  <2>3. ButtonsQueued(v) = Sure \/ \E i \in 1..Len(irq') : irq'[i] \in ClickTo(v)
    BY <1>8, <2>2
  <2> QED
    BY <1>12, <2>1, <2>3, BeliefRow
<1> QED
  BY <1>2, <1>9, <1>11, <1>13, <1>14, <1>15 DEF TrackInv

-----------------------------------------------------------------------------
(* The invariant. *)

\* A key goes down, repeats or goes up.
LEMMA KeyTracks ==
  ASSUME TrackInv, DistinctCodes, NEW k \in Keys, KeyDown(k) \/ KeyUp(k)
  PROVE  TrackInv'
<1>1. k \in DOMAIN Wire
  BY InputAssumption
<1>2. UNCHANGED <<buttons, mwire, driver, irq, ring, pc, ev, told, lost>>
  BY DEF KeyDown, KeyUp
<1>3. CASE KeyDown(k)
  <2> DEFINE s == MakeBytes(k)
  <2>1. /\ Sends(s, "key", KeycodeOf(k)) /\ KeycodeOf(k) \in Int
        /\ IF k = "ctrl" THEN s = <<29>> ELSE NotCtrl(s)
    BY <1>1, MakeSends
  <2>2. kbwire' = kbwire \o s /\ held' = held \cup {k}
    BY <1>3 DEF KeyDown
  <2> HIDE DEF s
  <2>3. PICK id \in {"key", "keyup"} : id = "key"
    OBVIOUS
  <2>4. /\ Sends(s, id, KeycodeOf(k)) /\ KeycodeOf(k) \in Int
        /\ IF k = "ctrl" THEN s = <<IF id = "key" THEN 29 ELSE 157>> ELSE NotCtrl(s)
        /\ held' = (IF id = "key" THEN held \cup {k} ELSE held \ {k})
    BY <2>1, <2>2, <2>3
  <2> QED
    BY <1>2, <2>2, <2>4, StrokeTracks
<1>4. CASE KeyUp(k)
  <2> DEFINE s == BreakBytes(k)
  <2>1. /\ Sends(s, "keyup", KeycodeOf(k)) /\ KeycodeOf(k) \in Int
        /\ IF k = "ctrl" THEN s = <<157>> ELSE NotCtrl(s)
    BY <1>1, MakeSends, BreakSends
  <2>2. kbwire' = kbwire \o s /\ held' = held \ {k}
    BY <1>4 DEF KeyUp
  <2> HIDE DEF s
  <2>3. PICK id \in {"key", "keyup"} : id = "keyup"
    OBVIOUS
  <2>4. /\ Sends(s, id, KeycodeOf(k)) /\ KeycodeOf(k) \in Int
        /\ IF k = "ctrl" THEN s = <<IF id = "key" THEN 29 ELSE 157>> ELSE NotCtrl(s)
        /\ held' = (IF id = "key" THEN held \cup {k} ELSE held \ {k})
    BY <2>1, <2>2, <2>3
  <2> QED
    BY <1>2, <2>2, <2>4, StrokeTracks
<1> QED
  BY <1>3, <1>4

\* Every step keeps the invariant.
LEMMA StepTracks ==
  ASSUME DistinctCodes, TrackInv, [Next]_vars
  PROVE  TrackInv'
<1>1. ASSUME NEW k \in Keys, KeyDown(k) \/ KeyUp(k) PROVE TrackInv'
  BY <1>1, KeyTracks
<1>2. ASSUME NEW d \in Moves, NEW b \in Buttons, MouseReport(d, b) PROVE TrackInv'
  BY <1>2, ReportTracks
<1>3. CASE KeyboardIrq
  BY <1>3, KeyboardTracks
<1>4. CASE MouseIrq
  BY <1>4, MouseTracks
<1>5. CASE event_enqueue
  BY <1>5, EnqueueTracks
<1>6. CASE DequeueTake
  BY <1>6, TakeTracks
<1>7. CASE Dispatch
  BY <1>7, DispatchTracks
<1>8. CASE TimerIrq \/ DequeueLock \/ RedrawAndHalt \/ UNCHANGED vars
  <2>1. /\ UNCHANGED <<device, kbwire, mwire, driver, irq, ring, ev, told, lost>>
        /\ pc' = "dispatch" <=> pc = "dispatch"
    BY <1>8 DEF TimerIrq, DequeueLock, RedrawAndHalt, WakeCpu, vars, device, driver, ring
  <2> QED
    BY <2>1, CalmStep
<1> QED
  BY <1>1, <1>2, <1>3, <1>4, <1>5, <1>6, <1>7, <1>8 DEF Next, Device, Desktop

\* It holds at first: nothing is pressed and nothing on its way.
LEMMA InitTracks ==
  ASSUME Init
  PROVE  TrackInv
<1>1. /\ held = {} /\ buttons = 0 /\ kbwire = <<>> /\ mwire = <<>> /\ g_ext_prefix = FALSE
      /\ g_ctrl_down = FALSE /\ mouse = [cycle |-> 0, bytes |-> <<0, 0>>, prev |-> 0]
      /\ cur = <<Width \div 2, Height \div 2>> /\ irq = <<>> /\ event_count = 0
      /\ pc = "dequeue" /\ told = [buttons |-> 0, keys |-> {}] /\ lost = FALSE
  BY DEF Init
<1>2. Retained = <<>> /\ Scans = <<>> /\ Len(kbwire) = 0 /\ Len(mwire) = 0
  <2>1. 1..0 = {} /\ Len(<<>>) = 0
    OBVIOUS
  <2> QED
    BY <1>1, <2>1 DEF Retained, Scans, Marked
<1>3. \A F, A, b : Queued(F, A, b) = Sure <=> b = Sure
  BY <1>1, <1>2, BeliefEmpty DEF Queued, Front
<1>4. KeyboardShapes /\ PrefixSound
  <2>1. \A i \in 1..Len(kbwire) : FALSE
    BY <1>2
  <2>2. kbwire \in Seq(0..255) /\ held \subseteq Keys
    BY <1>1
  <2>3. g_ext_prefix \in BOOLEAN /\ g_ctrl_down \in BOOLEAN /\ ~g_ext_prefix
    BY <1>1
  <2> QED
    BY <1>1, <2>1, <2>2, <2>3 DEF KeyboardShapes, PrefixSound
<1>5. MouseShapes /\ PacketsSound
  <2>1. Width \div 2 \in Int /\ Height \div 2 \in Int
    BY ScreenAssumption
  <2>2. cur \in Int \X Int
    BY <1>1, <2>1
  <2>3. MouseShapes
    BY <1>1, <2>2 DEF MouseShapes
  <2>4. mouse.cycle = 0 /\ mouse.prev = 0 /\ (0 + 0) % 3 = 0
    BY <1>1
  <2> QED
    BY <1>1, <1>2, <2>3, <2>4 DEF PacketsSound
<1>6. RingOK
  <2>1. N \in Nat \ {0} /\ 0 \in Slots /\ 0 \in 0..N /\ 0 \in 0..(N - 1)
    BY NFacts
  <2>2. 0 % N = 0
    BY <2>1, ModLow
  <2> QED
    BY <2>1, <2>2 DEF Init, RingOK
<1>7. QueueShapes
  BY <1>1, <1>2, <1>6 DEF QueueShapes
<1>8. KeysFollow
  <2> SUFFICES ASSUME NEW k \in Keys
               PROVE  Belief(Scans, ScanSays(KeycodeOf(k), IdOf(k)), ScanSays(KeycodeOf(k), NotId(IdOf(k))),
                             KeyQueued(KeycodeOf(k), IdOf(k))) = Sure
    BY DEF KeysFollow
  <2>1. IdOf(k) = "keyup"
    BY <1>1 DEF IdOf
  <2>2. KeyTold(KeycodeOf(k), IdOf(k), told.keys) = Sure
    BY <1>1, <2>1 DEF KeyTold
  <2>3. KeyQueued(KeycodeOf(k), IdOf(k)) = Sure
    BY <1>3, <2>2 DEF KeyQueued
  <2> QED
    BY <1>2, <2>3, BeliefEmpty
<1>9. ButtonsFollow
  BY <1>1, <1>3 DEF ButtonsFollow, ButtonsQueued, ButtonsTold
<1>10. CtrlFollows
  <2>1. CtrlTold = Sure
    BY <1>1 DEF CtrlTold
  <2> QED
    BY <1>2, <2>1, BeliefEmpty DEF CtrlFollows
<1> QED
  BY <1>4, <1>5, <1>7, <1>8, <1>9, <1>10 DEF TrackInv

-----------------------------------------------------------------------------
(* What the consumer will believe. *)

\* A bounded set of numbers that is not empty has a greatest.
LEMMA GreatestIn ==
  ASSUME NEW n \in Nat, NEW S, S \subseteq 1..n, S # {}
  PROVE  LET m == CHOOSE i \in S : \A j \in S : j <= i
         IN  m \in S /\ \A j \in S : j <= m
<1> DEFINE T == {n - i : i \in S}
           t == CHOOSE i \in T : \A j \in T : i <= j
<1>1. T \subseteq Nat /\ T # {}
  <2>1. \A i \in S : n - i \in Nat
    OBVIOUS
  <2>2. \E i \in S : n - i \in T
    OBVIOUS
  <2> QED
    BY <2>1, <2>2
<1>2. t \in T /\ \A j \in T : t <= j
  <2> HIDE DEF T
  <2> QED
    BY <1>1, LeastIn
<1> HIDE DEF t
<1>3. PICK m \in S : t = n - m
  BY <1>2
<1>4. \A j \in S : j <= m
  <2> SUFFICES ASSUME NEW j \in S PROVE j <= m
    OBVIOUS
  <2>1. n - j \in T
    OBVIOUS
  <2>2. n - m <= n - j
    BY <1>2, <1>3, <2>1
  <2>3. j \in Int /\ m \in Int
    OBVIOUS
  <2> QED
    BY <2>2, <2>3
<1> QED
  BY <1>4

\* An event in hand is heard before the others.
LEMMA BeliefCons ==
  ASSUME NEW E, NEW r \in Seq(E), NEW e \in E, NEW Firm, NEW Against, NEW b,
         Belief(r, Firm, Against, Hear(e, Firm, Against, b)) = Sure
  PROVE  Belief(<<e>> \o r, Firm, Against, b) = Sure
<1> DEFINE q == <<e>>
           a == q \o r
<1>1. /\ Len(r) \in Nat /\ Len(a) = 1 + Len(r)
      /\ \A k \in 1..1 + Len(r) : a[k] = IF k <= 1 THEN e ELSE r[k - 1]
  <2>1. q \in Seq(E) /\ Len(q) = 1 /\ q[1] = e /\ Len(r) \in Nat
    BY LenProperties
  <2>2. /\ Len(a) = Len(q) + Len(r)
        /\ \A k \in 1..Len(q) + Len(r) : a[k] = IF k <= Len(q) THEN q[k] ELSE r[k - Len(q)]
    <3> HIDE DEF q
    <3> QED
      BY <2>1, ConcatProperties
  <2> HIDE DEF q, a
  <2> QED
    BY <2>1, <2>2
<1> HIDE DEF a
<1>2. a[1] = e /\ \A j \in 1..Len(r) : a[j + 1] = r[j]
  <2>1. /\ 1 \in 1..1 + Len(r)
        /\ \A j \in 1..Len(r) : j + 1 \in 1..1 + Len(r) /\ ~(j + 1 <= 1) /\ (j + 1) - 1 = j
    BY <1>1
  <2> QED
    BY <1>1, <2>1
<1>3. \A k \in 1..Len(a) : k = 1 \/ \E j \in 1..Len(r) : k = j + 1
  <2> SUFFICES ASSUME NEW k \in 1..Len(a), k # 1 PROVE \E j \in 1..Len(r) : k = j + 1
    OBVIOUS
  <2>1. k - 1 \in 1..Len(r) /\ k = (k - 1) + 1
    BY <1>1
  <2> QED
    BY <2>1
<1>4. CASE \E i \in 1..Len(r) : r[i] \in Firm /\ \A j \in 1..Len(r) : j > i => r[j] \notin Against
  <2>1. PICK i \in 1..Len(r) : r[i] \in Firm /\ \A j \in 1..Len(r) : j > i => r[j] \notin Against
    BY <1>4
  <2>2. i + 1 \in 1..Len(a) /\ a[i + 1] \in Firm
    BY <1>1, <1>2, <2>1
  <2>3. ASSUME NEW k \in 1..Len(a), k > i + 1 PROVE a[k] \notin Against
    <3>1. k # 1
      BY <2>3, <1>1
    <3>2. PICK j \in 1..Len(r) : k = j + 1
      BY <1>3, <3>1
    <3>3. j > i
      BY <2>3, <3>2, <1>1
    <3> QED
      BY <1>2, <2>1, <3>2, <3>3
  <2> QED
    BY <2>2, <2>3 DEF Belief, a
<1>5. CASE Hear(e, Firm, Against, b) = Sure /\ \A j \in 1..Len(r) : r[j] \notin Against
  <2>1. ASSUME NEW k \in 1..Len(a), k # 1 PROVE a[k] \notin Against
    BY <1>2, <1>3, <1>5, <2>1
  <2>2. 1 \in 1..Len(a)
    BY <1>1
  <2>3. CASE e \in Firm
    <3>1. a[1] \in Firm /\ \A k \in 1..Len(a) : k > 1 => a[k] \notin Against
      BY <2>3, <1>2, <2>1
    <3> QED
      BY <2>2, <3>1 DEF Belief, a
  <2>4. CASE e \notin Firm
    <3>1. b = Sure /\ e \notin Against
      BY <2>4, <1>5 DEF Hear, Sure, Unsure
    <3>2. \A k \in 1..Len(a) : a[k] \notin Against
      BY <3>1, <1>2, <2>1
    <3> QED
      BY <3>1, <3>2 DEF Belief, a
  <2> QED
    BY <2>3, <2>4
<1> QED
  BY <1>4, <1>5 DEF Belief, Sure, Unsure

\* With no handler running, what is sure is sure of what is pending.
LEMMA PendingBelief ==
  ASSUME QueueShapes, irq = <<>>, NEW F, NEW A, NEW b, Queued(F, A, b) = Sure
  PROVE  Belief(Pending, F, A, b) = Sure
<1>1. Belief(Retained, F, A, Front(F, A, b)) = Sure
  BY BeliefEmpty DEF Queued
<1>2. Retained \in Seq(Known)
  BY DEF QueueShapes
<1>3. CASE pc = "dispatch"
  <2>1. ev \in Known /\ Front(F, A, b) = Hear(ev, F, A, b) /\ Pending = <<ev>> \o Retained
    BY <1>3 DEF QueueShapes, Front, Pending
  <2> QED
    BY <1>1, <1>2, <2>1, BeliefCons
<1>4. CASE pc # "dispatch"
  <2>1. Front(F, A, b) = b /\ Pending = <<>> \o Retained
    BY <1>4 DEF Front, Pending
  <2>2. Pending = Retained
    BY <1>2, <2>1, ConcatEmptySeq
  <2> QED
    BY <1>1, <2>1, <2>2
<1> QED
  BY <1>3, <1>4

\* What is pending are events the handlers sent.
LEMMA PendingKnown ==
  ASSUME QueueShapes
  PROVE  /\ Pending \in Seq(Known) /\ Len(Pending) \in Nat /\ DOMAIN Pending = 1..Len(Pending)
         /\ \A i \in 1..Len(Pending) : Pending[i] \in Known
<1>1. Retained \in Seq(Known)
  BY DEF QueueShapes
<1>2. Pending \in Seq(Known)
  <2>1. CASE pc = "dispatch"
    <3>1. ev \in Known /\ Pending = <<ev>> \o Retained
      BY <2>1 DEF QueueShapes, Pending
    <3>2. <<ev>> \in Seq(Known)
      BY <3>1
    <3> QED
      BY <1>1, <3>1, <3>2, ConcatProperties
  <2>2. CASE pc # "dispatch"
    BY <1>1, <2>2, ConcatEmptySeq DEF Pending
  <2> QED
    BY <2>1, <2>2
<1> QED
  BY <1>2, LenProperties, ElementOfSeq

\* The last of the pending events at the places H.
LastHit(H) == IF H = {} THEN NoEvent ELSE Pending[CHOOSE i \in H : \A j \in H : j <= i]

\* The last pending report on a topic.
LastTopic(T) == LastHit({i \in DOMAIN Pending : Pending[i] \in T})

\* It agrees with what is sure.
LEMMA LastTopicIs ==
  ASSUME QueueShapes, irq = <<>>, NEW F, NEW A, NEW b, Queued(F, A, b) = Sure,
         F \cap A = {}, NEW T, F \subseteq T
  PROVE  \/ LastTopic(T) = NoEvent /\ b = Sure
         \/ /\ LastTopic(T) \in Known /\ LastTopic(T) \in T /\ LastTopic(T) \notin A
            /\ LastTopic(T) # NoEvent /\ \E i \in DOMAIN Pending : LastTopic(T) = Pending[i]
<1> DEFINE q == Pending
           H == {i \in DOMAIN Pending : Pending[i] \in T}
           m == CHOOSE i \in H : \A j \in H : j <= i
<1>1. /\ q \in Seq(Known) /\ Len(q) \in Nat /\ DOMAIN q = 1..Len(q)
      /\ \A i \in 1..Len(q) : q[i] \in Known
  BY PendingKnown
<1>2. Belief(q, F, A, b) = Sure
  BY PendingBelief
<1> HIDE DEF q
<1>3. /\ (\A i \in 1..Len(q) : q[i] \notin T) => b = Sure
      /\ \A k \in 1..Len(q) :
           (q[k] \in T /\ \A i \in 1..Len(q) : q[i] \in T => i <= k) => q[k] \notin A
  BY <1>1, <1>2, LastDecides
<1>4. \A i : i \in H <=> i \in 1..Len(q) /\ q[i] \in T
  BY <1>1 DEF q
<1> HIDE DEF H
<1>a. LastTopic(T) = LastHit(H)
  BY DEF LastTopic, H
<1>5. CASE H = {}
  <2>1. b = Sure
    BY <1>3, <1>4, <1>5
  <2> QED
    BY <1>5, <1>a, <2>1 DEF LastHit
<1>6. CASE H # {}
  <2>1. m \in H /\ \A j \in H : j <= m
    <3>1. H \subseteq 1..Len(q)
      BY <1>4
    <3> QED
      BY <1>1, <1>6, <3>1, GreatestIn
  <2>2. LastHit(H) = q[m]
    BY <1>6 DEF LastHit, q
  <2> HIDE DEF m
  <2>3. m \in 1..Len(q) /\ q[m] \in T /\ \A i \in 1..Len(q) : q[i] \in T => i <= m
    BY <1>4, <2>1
  <2>4. q[m] \notin A /\ q[m] \in Known
    BY <1>1, <1>3, <2>3
  <2> QED
    BY <1>1, <1>a, <2>2, <2>3, <2>4, NoEventOut DEF q
<1> QED
  BY <1>5, <1>6

\* Once the wires are drained, the pending mouse events end in the buttons that are down ...
LEMMA LearnsButtons ==
  ASSUME TrackInv, irq = <<>>, mwire = <<>>, ~lost
  PROVE  WillSeeButtons = buttons
<1>1. QueueShapes /\ mouse.cycle \in 0..2
  BY DEF TrackInv, MouseShapes
<1>2. mouse.prev = buttons
  <2>1. Len(mwire) = 0 /\ ~(0 >= 3)
    OBVIOUS
  <2>2. (0 + mouse.cycle) % 3 = 0
    BY <2>1 DEF TrackInv, PacketsSound
  <2>3. mouse.cycle = 0
    BY <1>1, <2>2
  <2> QED
    BY <2>1, <2>3 DEF TrackInv, PacketsSound
<1> DEFINE v == buttons
           F == ClickTo(v)
           A == NotAt(v)
           b == ButtonsTold(v, told.buttons)
           T == {e \in Sent : ~IsKey(e)}
           l == LastTopic(T)
<1>3. Queued(F, A, b) = Sure
  BY <1>2 DEF TrackInv, ButtonsFollow, ButtonsQueued
<1>4. F \cap A = {} /\ F \subseteq T
  BY ClickTopic DEF ClickTo, IsKey
<1>5. \/ l = NoEvent /\ b = Sure
      \/ l \in Known /\ l \in T /\ l \notin A /\ l # NoEvent
  <2> HIDE DEF F, A, b, T
  <2> QED
    BY <1>1, <1>3, <1>4, LastTopicIs
<1>6. LastOf(LAMBDA e : ~IsKey(e)) = LastHit({i \in DOMAIN Pending : ~IsKey(Pending[i])})
  BY DEF LastOf, LastHit
<1>7. {i \in DOMAIN Pending : ~IsKey(Pending[i])} = {i \in DOMAIN Pending : Pending[i] \in T}
  BY <1>1, PendingKnown DEF Known
<1>8. WillSeeButtons = IF l = NoEvent THEN told.buttons ELSE l.key
  BY <1>6, <1>7 DEF WillSeeButtons, LastTopic
<1> HIDE DEF l
<1>9. b = Sure => told.buttons = v
  BY DEF ButtonsTold, Sure, Unsure
<1>10. (l \in T /\ l \notin A) => l.key = v
  BY DEF NotAt
<1> QED
  BY <1>5, <1>8, <1>9, <1>10

\* The reports on the key with code c.
OnKey(c) == {e \in Sent : IsKey(e) /\ e.key = c}

\* ... and the last pending report on a key is the truth about it.
LEMMA LearnsKey ==
  ASSUME TrackInv, irq = <<>>, kbwire = <<>>, ~lost, NEW k \in Keys, NEW c, c = KeycodeOf(k)
  PROVE  LET l == LastTopic(OnKey(c))
         IN  /\ l = NoEvent => (c \in told.keys <=> k \in held)
             /\ l # NoEvent => /\ l.id = "key" <=> k \in held
                               /\ \E i \in DOMAIN Pending : IsKey(Pending[i]) /\ Pending[i].key = c
<1>1. QueueShapes /\ irq = <<>>
  BY DEF TrackInv
<1>2. PICK id \in {"key", "keyup"} : id = IdOf(k)
  BY IdFacts
<1>3. id = "key" <=> k \in held
  BY <1>2, IdFacts
<1> DEFINE F == Says(c, id)
           A == Says(c, NotId(id))
           b == KeyTold(c, id, told.keys)
           T == OnKey(c)
           l == LastTopic(T)
<1>4. Queued(F, A, b) = Sure
  <2>1. Scans = <<>>
    <3>1. Len(kbwire) = 0 /\ 1..0 = {}
      OBVIOUS
    <3> QED
      BY <3>1 DEF Scans, Marked
  <2>2. Belief(Scans, ScanSays(c, id), ScanSays(c, NotId(id)), KeyQueued(c, id)) = Sure
    BY <1>2 DEF TrackInv, KeysFollow
  <2> QED
    BY <2>1, <2>2, BeliefEmpty DEF KeyQueued
<1>5. F \cap A = {} /\ F \subseteq T
  BY KeyTopic DEF Says, IsKey, OnKey
<1>6. \/ l = NoEvent /\ b = Sure
      \/ /\ l \in Known /\ l \in T /\ l \notin A /\ l # NoEvent
         /\ \E i \in DOMAIN Pending : l = Pending[i]
  <2> HIDE DEF F, A, b, T
  <2> QED
    BY <1>1, <1>4, <1>5, LastTopicIs
<1> HIDE DEF l
<1>10. b = Sure => (c \in told.keys <=> k \in held)
  BY <1>3 DEF KeyTold, Sure, Unsure
<1>11. ASSUME l \in T, l \notin A PROVE l.id = "key" <=> k \in held
  <2>1. l.id \in {"key", "keyup"} /\ l.key = c /\ l.id # NotId(id)
    BY <1>11 DEF Says, IsKey, OnKey
  <2> QED
    BY <1>3, <2>1 DEF NotId
<1>12. l \in T => IsKey(l) /\ l.key = c
  BY DEF OnKey
<1> QED
  BY <1>6, <1>10, <1>11, <1>12 DEF l

\* The invariant is about what is on its way; where nothing is, the kernel believes the truth.
LEMMA TrackedThen ==
  ASSUME TrackInv
  PROVE  DevicesTracked
<1>1. CtrlFollowsKey
  <2> SUFFICES ASSUME kbwire = <<>>, "ctrl" \in Keys PROVE g_ctrl_down = ("ctrl" \in held)
    BY DEF CtrlFollowsKey
  <2>1. Scans = <<>>
    <3>1. Len(kbwire) = 0 /\ 1..0 = {}
      OBVIOUS
    <3> QED
      BY <3>1 DEF Scans, Marked
  <2>2. CtrlTold = Sure
    BY <2>1, BeliefEmpty DEF TrackInv, CtrlFollows
  <2>3. g_ctrl_down <=> "ctrl" \in held
    BY <2>2 DEF CtrlTold, Sure, Unsure
  <2>4. g_ctrl_down = TRUE \/ g_ctrl_down = FALSE
    BY DEF TrackInv, KeyboardShapes
  <2> QED
    BY <2>3, <2>4
<1>2. ASSUME irq = <<>>, kbwire = <<>>, mwire = <<>>, ~lost
      PROVE  WillSeeKeys = {KeycodeOf(k) : k \in held}
  <2> DEFINE Last(c) == LastTopic(OnKey(c))
             Heard == {Pending[i].key : i \in {j \in DOMAIN Pending : IsKey(Pending[j])}} \cup told.keys
             Down(c) == IF Last(c) = NoEvent THEN c \in told.keys ELSE Last(c).id = "key"
  <2>1. WillSeeKeys = {c \in Heard : Down(c)}
    <3> DEFINE Hit(c) == LastHit({i \in DOMAIN Pending : IsKey(Pending[i]) /\ Pending[i].key = c})
    <3>1. WillSeeKeys = {c \in Heard : IF Hit(c) = NoEvent THEN c \in told.keys ELSE Hit(c).id = "key"}
      BY DEF WillSeeKeys, LastOf, LastHit
    <3>2. ASSUME NEW c PROVE Hit(c) = Last(c)
      <4>1. {i \in DOMAIN Pending : IsKey(Pending[i]) /\ Pending[i].key = c}
              = {i \in DOMAIN Pending : Pending[i] \in OnKey(c)}
        BY PendingKnown DEF TrackInv, Known, OnKey
      <4> QED
        BY <4>1 DEF LastTopic
    <3> HIDE DEF Hit, Last, Heard
    <3> QED
      BY <3>1, <3>2
  <2>2. ASSUME NEW k \in Keys
        PROVE  (Down(KeycodeOf(k)) <=> k \in held) /\ (k \in held => KeycodeOf(k) \in Heard)
    <3>1. PICK c : c = KeycodeOf(k)
      OBVIOUS
    <3>2. /\ Last(c) = NoEvent => (c \in told.keys <=> k \in held)
          /\ Last(c) # NoEvent =>
               /\ Last(c).id = "key" <=> k \in held
               /\ \E i \in DOMAIN Pending : IsKey(Pending[i]) /\ Pending[i].key = c
      BY <1>2, <3>1, LearnsKey
    <3> HIDE DEF Last
    <3> QED
      BY <3>1, <3>2
  <2>3. Heard \subseteq KeyCodes
    <3>1. told.keys \subseteq KeyCodes
      BY DEF TrackInv, QueueShapes
    <3>2. \A i \in DOMAIN Pending : IsKey(Pending[i]) => Pending[i].key \in KeyCodes
      BY PendingKnown DEF TrackInv, Known
    <3> QED
      BY <3>1, <3>2
  <2>4. held \subseteq Keys
    BY DEF TrackInv, KeyboardShapes
  <2> HIDE DEF Down, Heard
  <2>5. ASSUME NEW c \in Heard, Down(c) PROVE c \in {KeycodeOf(k) : k \in held}
    <3>1. PICK k \in Keys : c = KeycodeOf(k)
      BY <2>3 DEF KeyCodes
    <3> QED
      BY <2>2, <2>5, <3>1
  <2>6. ASSUME NEW k \in held PROVE KeycodeOf(k) \in Heard /\ Down(KeycodeOf(k))
    BY <2>2, <2>4
  <2> QED
    BY <2>1, <2>5, <2>6
<1>3. ConsumerLearnsDevice
  BY <1>2, LearnsButtons DEF ConsumerLearnsDevice, Runs
<1> QED
  BY <1>1, <1>3 DEF DevicesTracked

-----------------------------------------------------------------------------
(* What is proved. *)

\* head, tail and count of the ring agree in every reachable state, whatever interrupts
\* arrive and wherever the desktop's loop is.
THEOREM RingAlwaysOK == Spec => []RingOK
<1>1. Init => RingOK
  <2> SUFFICES ASSUME Init PROVE RingOK
    OBVIOUS
  <2>1. N \in Nat \ {0} /\ 0 \in Slots /\ 0 \in 0..N /\ 0 \in 0..(N - 1)
    BY NFacts
  <2>2. 0 % N = 0
    BY <2>1, ModLow
  <2> QED
    BY <2>1, <2>2 DEF Init, RingOK
<1>2. RingOK /\ [Next]_vars => RingOK'
  BY StepRefines
<1> QED
  BY <1>1, <1>2, PTL DEF Spec

\* The ring implements the bounded queue that event.h promises: events come out in the
\* order they went in, and pressure falls on low-value events first.
THEOREM RingImplementsFifo == Spec => ImplementsFifo
<1>1. Init => Fifo!Init
  <2> SUFFICES ASSUME Init PROVE Retained = <<>>
    BY DEF Fifo!Init
  <2>1. event_count = 0
    BY DEF Init
  <2>2. 1..0 = {}
    OBVIOUS
  <2> QED
    BY <2>1, <2>2 DEF Retained
<1>2. RingOK /\ [Next]_vars => [Fifo!Next]_<<Retained, ev>>
  BY StepRefines
<1> QED
  BY <1>1, <1>2, RingAlwaysOK, PTL DEF Spec, ImplementsFifo, Fifo!Spec

\* Whatever the user types and clicks, in whatever order interrupts and the desktop's loop
\* run: once the bytes at the controller are read, the events queued say exactly which keys and
\* buttons are down, unless the ring had to give up an important event, and the terminal's idea
\* of Ctrl is the key's.  No two of the keys may share a keycode.
THEOREM DevicesAlwaysTracked ==
  ASSUME DistinctCodes
  PROVE  Spec => []DevicesTracked
<1>1. Init => TrackInv
  BY InitTracks
<1>2. TrackInv /\ [Next]_vars => TrackInv'
  BY StepTracks
<1>3. TrackInv => DevicesTracked
  BY TrackedThen
<1> QED
  BY <1>1, <1>2, <1>3, PTL DEF Spec

=============================================================================
