------------------------- MODULE RingBuffer_proofs -------------------------
(***************************************************************************)
(* The ring's counters, its copies, and that it is a queue: for every      *)
(* capacity, counter width and block size.                                 *)
(***************************************************************************)
EXTENDS RingBuffer, SequenceTheorems, TLAPS

\* Adding to the producer's counter adds to the fill level, adding to the consumer's takes from it,
\* across the wrap as well, as long as the sum stays below the modulus.
LEMMA DistAdd ==
    ASSUME NEW h \in Counter, NEW t \in Counter, NEW n \in Nat,
           Dist(h, t) + n < Modulus
    PROVE  /\ Add(h, n) \in Counter
           /\ Dist(Add(h, n), t) = Dist(h, t) + n
BY SizeAssumption DEF Counter, Dist, Add

LEMMA DistRelease ==
    ASSUME NEW h \in Counter, NEW t \in Counter, NEW n \in Nat,
           n <= Dist(h, t)
    PROVE  /\ Add(t, n) \in Counter
           /\ Dist(h, Add(t, n)) = Dist(h, t) - n
BY SizeAssumption DEF Counter, Dist, Add

LEMMA DistNat ==
    ASSUME NEW h \in Counter, NEW t \in Counter
    PROVE  Dist(h, t) \in 0..(Modulus - 1)
BY SizeAssumption DEF Counter, Dist

\* What a slot index is: a slot of the array.
LEMMA SlotRange == ASSUME NEW x \in Nat PROVE Slot(x) \in 0..(Capacity - 1)
BY SizeAssumption DEF Slot

\* The shape of the state, without the array: enough for the counters.
Shape == /\ head \in Counter
         /\ tail \in Counter
         /\ w \in [n: Nat, src: Seq(Sample)]
         /\ w.n <= Len(w.src)
         /\ r \in [n: Nat, dst: Seq(Sample)]
         /\ Len(r.dst) <= r.n
         /\ data \in [0..(Capacity - 1) -> Sample]

\* Neither side disturbs what the other one counted on: each counter only moves in the direction
\* that gives the other side more.
IInv == Shape /\ FillBounded

LEMMA InitIInv == Init => IInv
<1> SUFFICES ASSUME Init PROVE IInv
  OBVIOUS
<1>1. <<>> \in Seq(Sample) /\ Len(<<>>) = 0
  OBVIOUS
<1>2. Shape
  BY <1>1, SizeAssumption DEF Init, Idle, Reading, Shape, Counter
<1>3. FillBounded
  BY <1>1, SizeAssumption DEF Init, Idle, Reading, FillBounded, Dist
<1> QED
  BY <1>2, <1>3 DEF IInv

LEMMA NextIInv == IInv /\ [Next]_vars => IInv'
<1> SUFFICES ASSUME IInv, [Next]_vars PROVE IInv'
  OBVIOUS
<1> USE DEF IInv
<1>1. ASSUME NEW n \in 1..MaxBlock, NEW block \in [1..n -> Sample], WriteBegin(n, block)
      PROVE  IInv'
  <2>1. block \in Seq(Sample) /\ Len(block) = n
    BY SizeAssumption, IsASeq, LenProperties
  <2>2. Shape'
    BY <1>1, <2>1 DEF Shape, WriteBegin
  <2>3. FillBounded'
    BY <1>1, <2>1, DistNat, SizeAssumption DEF Shape, WriteBegin, FillBounded, Free
  <2> QED
    BY <2>2, <2>3
<1>2. ASSUME WriteCopy PROVE IInv'
  <2>1. Add(head, w.n) \in Nat
    BY SizeAssumption DEF Shape, Add, Counter
  <2>2. w.src[w.n + 1] \in Sample
    BY <1>2, ElementOfSeq DEF Shape, WriteCopy
  <2>3. Shape'
    BY <1>2, <2>1, <2>2, SlotRange DEF Shape, WriteCopy
  <2>4. FillBounded'
    BY <1>2 DEF Shape, WriteCopy, FillBounded
  <2> QED
    BY <2>3, <2>4
<1>3. ASSUME WritePublish PROVE IInv'
  <2>1. Dist(head, tail) + w.n < Modulus
    BY <1>3, DistNat, SizeAssumption DEF Shape, WritePublish, FillBounded
  <2>2. head' \in Counter /\ Dist(head', tail) = Dist(head, tail) + w.n
    BY <1>3, <2>1, DistAdd DEF Shape, WritePublish
  <2>3. w' \in [n: Nat, src: Seq(Sample)] /\ w'.n = 0 /\ Len(w'.src) = 0
    BY <1>3 DEF WritePublish, Idle
  <2>4. Shape'
    BY <1>3, <2>2, <2>3 DEF Shape, WritePublish
  <2>5. FillBounded'
    BY <1>3, <2>2, <2>3, DistNat DEF Shape, WritePublish, FillBounded
  <2> QED
    BY <2>4, <2>5
<1>4. ASSUME NEW n \in 1..MaxBlock, ReadBegin(n) PROVE IInv'
  <2>1. r' \in [n: Nat, dst: Seq(Sample)] /\ r'.n = n /\ Len(r'.dst) = 0
    BY <1>4, SizeAssumption DEF ReadBegin, Reading
  <2>2. Shape'
    BY <1>4, <2>1 DEF Shape, ReadBegin
  <2>3. FillBounded'
    BY <1>4, <2>1 DEF Shape, ReadBegin, FillBounded
  <2> QED
    BY <2>2, <2>3
<1>5. ASSUME ReadCopy PROVE IInv'
  <2>1. Add(tail, Len(r.dst)) \in Nat
    BY SizeAssumption DEF Shape, Add, Counter
  <2>2. data[Slot(Add(tail, Len(r.dst)))] \in Sample
    BY <2>1, SlotRange DEF Shape
  <2> DEFINE dst == Append(r.dst, data[Slot(Add(tail, Len(r.dst)))])
  <2>a. r.dst \in Seq(Sample) /\ r.n \in Nat /\ r = [n |-> r.n, dst |-> r.dst]
    BY DEF Shape
  <2>b. dst \in Seq(Sample) /\ Len(dst) = Len(r.dst) + 1
    BY <2>a, <2>2, AppendProperties
  <2>c. r' = [n |-> r.n, dst |-> dst]
    BY <1>5, <2>a DEF ReadCopy
  <2> HIDE DEF dst
  <2>3. r' \in [n: Nat, dst: Seq(Sample)] /\ r'.n = r.n /\ Len(r'.dst) = Len(r.dst) + 1
    BY <2>a, <2>b, <2>c
  <2>4. Shape'
    BY <1>5, <2>3 DEF Shape, ReadCopy
  <2>5. FillBounded'
    BY <1>5, <2>3 DEF Shape, ReadCopy, FillBounded
  <2> QED
    BY <2>4, <2>5
<1>6. ASSUME ReadPublish PROVE IInv'
  <2>1. tail' \in Counter /\ Dist(head, tail') = Dist(head, tail) - r.n
    BY <1>6, DistRelease DEF Shape, ReadPublish, FillBounded
  <2>2. r' \in [n: Nat, dst: Seq(Sample)] /\ r'.n = 0 /\ Len(r'.dst) = 0
    BY <1>6 DEF ReadPublish, Reading
  <2>3. Shape'
    BY <1>6, <2>1, <2>2 DEF Shape, ReadPublish
  <2>4. FillBounded'
    <3>1. /\ Dist(head, tail) \in Nat /\ Len(w.src) \in Nat /\ r.n \in Nat /\ r.n <= Dist(head, tail)
          /\ Dist(head, tail) + Len(w.src) <= Capacity - 1 /\ Capacity \in Nat
      BY DistNat, SizeAssumption DEF Shape, FillBounded
    <3>2. head' = head /\ w' = w
      BY <1>6 DEF ReadPublish
    <3> QED
      BY <2>1, <2>2, <3>1, <3>2 DEF FillBounded
  <2> QED
    BY <2>3, <2>4
<1>7. CASE UNCHANGED vars
  BY <1>7 DEF vars, Shape, FillBounded
<1> QED
  BY <1>1, <1>2, <1>3, <1>4, <1>5, <1>6, <1>7 DEF Next, Produce, Consume

\* The fill level never passes Capacity - 1 and nobody's snapshot is overtaken, for every capacity,
\* counter width and block size (RingBuffer::write, RingBuffer::read).
THEOREM FillBoundedHolds == Spec => []FillBounded
<1>1. IInv => FillBounded
  BY DEF IInv
<1> QED
  BY <1>1, InitIInv, NextIInv, PTL DEF Spec

\* Every variable keeps its type.
THEOREM TypeCorrect == Spec => []TypeOK
<1>1. IInv => TypeOK
  BY DEF IInv, Shape, TypeOK
<1> QED
  BY <1>1, InitIInv, NextIInv, PTL DEF Spec

----------------------------------------------------------------------------
(* The copies: two counters less than Capacity apart never share a slot. *)

LEMMA DivMod ==
    ASSUME NEW x \in Nat, NEW c \in Nat, c > 0
    PROVE  x \div c \in Int /\ x % c \in 0..(c - 1) /\ x = c * (x \div c) + (x % c)
OBVIOUS

LEMMA NoMultiple ==
    ASSUME NEW c \in Nat, c > 0, NEW q \in Int, 0 < c * q, c * q < c
    PROVE  FALSE
<1>1. CASE q <= 0
  BY <1>1
<1>2. CASE q >= 1
  BY <1>2
<1> QED
  BY <1>1, <1>2

LEMMA Distrib ==
    ASSUME NEW c \in Nat, NEW a \in Int, NEW b \in Int
    PROVE  c * a - c * b = c * (a - b) /\ c * a + c * b = c * (a + b)
OBVIOUS

\* Here the capacity must divide the counters' range: with another width, two counters on either
\* side of the wrap could be masked to the same slot.
LEMMA SlotsApart ==
    ASSUME NEW x \in Counter, NEW y \in Counter, 0 < Dist(x, y), Dist(x, y) < Capacity
    PROVE  Slot(x) # Slot(y)
<1> SUFFICES ASSUME Slot(x) = Slot(y) PROVE FALSE
  OBVIOUS
<1> DEFINE qx == x \div Capacity
           qy == y \div Capacity
           qm == Modulus \div Capacity
           s == x % Capacity
<1>0. Capacity \in Nat /\ Capacity > 0 /\ Modulus \in Nat /\ x \in Nat /\ y \in Nat
  BY SizeAssumption DEF Counter
<1>1. qx \in Int /\ s \in Int /\ x = Capacity * qx + s
  BY <1>0, DivMod
<1>2. qy \in Int /\ y = Capacity * qy + s
  BY <1>0, DivMod DEF Slot
<1>3. qm \in Int /\ Modulus = Capacity * qm
  <2>1. qm \in Int /\ Modulus = Capacity * qm + (Modulus % Capacity)
    BY <1>0, DivMod
  <2>2. Modulus % Capacity = 0
    BY WidthAssumption
  <2> QED
    BY <1>0, <2>1, <2>2
<1> HIDE DEF qx, qy, qm, s
<1>4. x - y = Capacity * (qx - qy)
  <2>1. x - y = Capacity * qx - Capacity * qy
    BY <1>0, <1>1, <1>2
  <2> QED
    BY <1>0, <1>1, <1>2, <2>1, Distrib
<1>5. x - y + Modulus = Capacity * (qx - qy + qm)
  <2>1. qx - qy \in Int
    BY <1>1, <1>2
  <2> QED
    BY <1>0, <1>3, <1>4, <2>1, Distrib
<1>6. CASE x >= y
  <2>1. Dist(x, y) = Capacity * (qx - qy)
    BY <1>4, <1>6 DEF Dist
  <2> QED
    BY <1>0, <1>1, <1>2, <2>1, NoMultiple
<1>7. CASE ~(x >= y)
  <2>1. Dist(x, y) = Capacity * (qx - qy + qm)
    BY <1>5, <1>7 DEF Dist
  <2>2. qx - qy + qm \in Int
    BY <1>1, <1>2, <1>3
  <2> QED
    BY <1>0, <2>1, <2>2, NoMultiple
<1> QED
  BY <1>6, <1>7

\* What the callback still copies and what the drain still copies never share a slot, so no sample
\* is torn or overwritten unread (the memcpys of RingBuffer::write and RingBuffer::read).
THEOREM CopiesDisjointHolds == Spec => []CopiesDisjoint
<1>1. IInv => CopiesDisjoint
  <2> SUFFICES ASSUME IInv,
                      NEW i \in 0..(Len(w.src) - 1),
                      NEW j \in 0..(r.n - 1)
               PROVE  Slot(Add(head, i)) # Slot(Add(tail, j))
    BY DEF CopiesDisjoint
  <2>1. /\ head \in Counter /\ tail \in Counter
        /\ Len(w.src) \in Nat /\ r.n \in Nat /\ i \in Nat /\ j \in Nat
    BY DEF IInv, Shape
  <2>2. Dist(head, tail) \in Nat
    BY <2>1, DistNat
  <2>3. Dist(head, tail) + i < Capacity - 1 /\ j < Dist(head, tail)
    BY <2>1, <2>2, SizeAssumption DEF IInv, FillBounded
  <2> DEFINE h == Add(head, i)
             t == Add(tail, j)
  <2>4. h \in Counter /\ Dist(h, tail) = Dist(head, tail) + i
    BY <2>1, <2>2, <2>3, SizeAssumption, DistAdd
  <2>5. t \in Counter /\ Dist(h, t) = Dist(head, tail) + i - j
    BY <2>1, <2>2, <2>3, <2>4, DistRelease
  <2> HIDE DEF h, t
  <2>6. 0 < Dist(h, t) /\ Dist(h, t) < Capacity
    BY <2>1, <2>2, <2>3, <2>5, SizeAssumption
  <2>7. Slot(h) # Slot(t)
    BY <2>4, <2>5, <2>6, SlotsApart
  <2> QED
    BY <2>7 DEF h, t
<1> QED
  BY <1>1, InitIInv, NextIInv, PTL DEF Spec

----------------------------------------------------------------------------
(* The ring is a queue: what is in it, oldest first, and what each copy has done so far. *)

QueueOf(h, t, d) == [i \in 1..Dist(h, t) |-> d[Slot(Add(t, i - 1))]]
Held == QueueOf(head, tail, data)

\* The samples copied in stand behind the queue, and those copied out are the front of it.
Copied == /\ \A i \in 1..w.n : data[Slot(Add(head, i - 1))] = w.src[i]
          /\ \A j \in 1..Len(r.dst) : r.dst[j] = data[Slot(Add(tail, j - 1))]

LEMMA AddSum ==
    ASSUME NEW x \in Counter, NEW m \in Nat, NEW n \in Nat, m + n < Modulus
    PROVE  Add(Add(x, m), n) = Add(x, m + n)
BY SizeAssumption DEF Counter, Add

\* What follows the newest sample in the queue is what the producer copies next.
LEMMA AddDist ==
    ASSUME NEW h \in Counter, NEW t \in Counter, NEW n \in Nat, Dist(h, t) + n < Modulus
    PROVE  Add(t, Dist(h, t) + n) = Add(h, n)
BY SizeAssumption DEF Counter, Dist, Add

LEMMA AddApart ==
    ASSUME NEW x \in Counter, NEW m \in Nat, NEW n \in Nat, m < n, n < Capacity
    PROVE  Slot(Add(x, m)) # Slot(Add(x, n))
<1> DEFINE a == Add(x, m)
           b == Add(x, n)
<1>1. a \in Counter /\ b \in Counter /\ Dist(b, a) = n - m
  BY SizeAssumption DEF Counter, Add, Dist
<1> HIDE DEF a, b
<1>2. Slot(b) # Slot(a)
  BY <1>1, SizeAssumption, SlotsApart
<1> QED
  BY <1>2 DEF a, b

\* The facts about a state that the steps below need.
LEMMA Bounds ==
    ASSUME IInv
    PROVE  /\ head \in Counter /\ tail \in Counter /\ Dist(head, tail) \in Nat
           /\ Len(w.src) \in Nat /\ w.n \in Nat /\ w.n <= Len(w.src)
           /\ Len(r.dst) \in Nat /\ r.n \in Nat /\ Len(r.dst) <= r.n /\ r.n <= Dist(head, tail)
           /\ Dist(head, tail) + Len(w.src) < Capacity /\ Capacity \in Nat /\ Capacity < Modulus
           /\ Modulus \in Nat
BY DistNat, SizeAssumption DEF IInv, Shape, FillBounded

\* The queue is a sequence of samples.
LEMMA QueueSeq ==
    ASSUME NEW h \in Counter, NEW t \in Counter, NEW d \in [0..(Capacity - 1) -> Sample]
    PROVE  /\ QueueOf(h, t, d) \in Seq(Sample) /\ Len(QueueOf(h, t, d)) = Dist(h, t)
           /\ \A i \in 1..Dist(h, t) : QueueOf(h, t, d)[i] = d[Slot(Add(t, i - 1))]
<1> DEFINE q == QueueOf(h, t, d)
<1>1. \A i \in 1..Dist(h, t) : d[Slot(Add(t, i - 1))] \in Sample
  <2> TAKE i \in 1..Dist(h, t)
  <2>1. Add(t, i - 1) \in Nat
    BY DistNat, SizeAssumption DEF Counter, Add
  <2> QED
    BY <2>1, SlotRange
<1>2. q \in [1..Dist(h, t) -> Sample]
  BY <1>1 DEF QueueOf
<1>3. q \in Seq(Sample)
  BY <1>2, DistNat, SeqDef
<1>4. Len(q) \in Nat /\ 1..Len(q) = 1..Dist(h, t)
  BY <1>2, <1>3, LenProperties
<1>5. Len(q) = Dist(h, t)
  BY <1>4, DistNat
<1> QED
  BY <1>3, <1>5 DEF QueueOf

LEMMA HeldSeq ==
    ASSUME IInv
    PROVE  /\ Held \in Seq(Sample) /\ Len(Held) = Dist(head, tail)
           /\ \A i \in 1..Dist(head, tail) : Held[i] = data[Slot(Add(tail, i - 1))]
BY QueueSeq DEF IInv, Shape, Held

\* As long as the array and the counters stay, so do the queue and what is copied.
LEMMA WriteCopyQueue ==
    ASSUME IInv, Copied, WriteCopy
    PROVE  Copied' /\ Held' = Held
<1> DEFINE k == Slot(Add(head, w.n))
<1>1. /\ data' = [data EXCEPT ![k] = w.src[w.n + 1]]
      /\ w' = [w EXCEPT !.n = @ + 1] /\ w.n < Len(w.src) /\ UNCHANGED <<head, tail, r>>
  BY DEF WriteCopy
<1>2. w'.n = w.n + 1 /\ w'.src = w.src
  BY <1>1 DEF IInv, Shape
<1>3. k \in DOMAIN data
  <2>1. Add(head, w.n) \in Nat
    BY Bounds, SizeAssumption DEF Counter, Add
  <2> QED
    BY <2>1, SlotRange DEF IInv, Shape
<1>4. data'[k] = w.src[w.n + 1] /\ \A s : s # k => data'[s] = data[s]
  BY <1>1, <1>3 DEF IInv, Shape
<1>5. \A i \in 1..Dist(head, tail) : Slot(Add(tail, i - 1)) # k
  <2> TAKE i \in 1..Dist(head, tail)
  <2>1. k = Slot(Add(tail, Dist(head, tail) + w.n))
    BY <1>1, Bounds, AddDist
  <2>2. /\ i - 1 \in Nat /\ Dist(head, tail) + w.n \in Nat /\ i - 1 < Dist(head, tail) + w.n
        /\ Dist(head, tail) + w.n < Capacity
    BY <1>1, Bounds
  <2> QED
    BY <2>1, <2>2, Bounds, AddApart
<1>6. \A i \in 1..w.n : Slot(Add(head, i - 1)) # k
  <2> TAKE i \in 1..w.n
  <2>1. i - 1 \in Nat /\ i - 1 < w.n /\ w.n < Capacity
    BY <1>1, Bounds
  <2> QED
    BY <2>1, Bounds, AddApart
<1> HIDE DEF k
<1>7. Held' = Held
  BY <1>1, <1>4, <1>5 DEF Held, QueueOf
<1>8. \A i \in 1..w'.n : data'[Slot(Add(head', i - 1))] = w'.src[i]
  <2> TAKE i \in 1..w'.n
  <2>1. CASE i = w.n + 1
    BY <1>1, <1>2, <1>4, <2>1, Bounds DEF k
  <2>2. CASE i \in 1..w.n
    BY <1>1, <1>2, <1>4, <1>6, <2>2 DEF Copied
  <2> QED
    BY <1>2, <2>1, <2>2, Bounds
<1>9. \A j \in 1..Len(r'.dst) : r'.dst[j] = data'[Slot(Add(tail', j - 1))]
  <2> TAKE j \in 1..Len(r'.dst)
  <2>1. j \in 1..Len(r.dst) /\ j \in 1..Dist(head, tail)
    BY <1>1, Bounds
  <2> QED
    BY <1>1, <1>4, <1>5, <2>1 DEF Copied
<1> QED
  BY <1>7, <1>8, <1>9 DEF Copied

\* The block that was copied in joins the queue in one step.
LEMMA WritePublishQueue ==
    ASSUME IInv, IInv', Copied, WritePublish
    PROVE  /\ Copied' /\ Held' = Held \o w.src /\ got' = got
           /\ Len(w.src) \in 1..(Capacity - 1 - Len(Held)) /\ w.src \in [1..Len(w.src) -> Sample]
<1>1. /\ w.src # <<>> /\ w.n = Len(w.src) /\ head' = Add(head, w.n) /\ w'.n = 0
      /\ UNCHANGED <<tail, data, r, got>>
  BY DEF WritePublish, Idle
<1>2. w.src \in Seq(Sample) /\ w.src \in [1..Len(w.src) -> Sample] /\ Len(w.src) > 0
  BY <1>1, EmptySeq, LenProperties, Bounds DEF IInv, Shape
<1>3. Dist(head', tail') = Dist(head, tail) + w.n
  BY <1>1, Bounds, DistAdd
<1>4. Copied'
  BY <1>1 DEF Copied
<1>5. Held' = Held \o w.src
  <2>1. /\ Held' \in Seq(Sample) /\ Len(Held') = Dist(head, tail) + w.n
        /\ \A i \in 1..Dist(head, tail) + w.n : Held'[i] = data[Slot(Add(tail, i - 1))]
    <3>1. /\ Held' \in Seq(Sample) /\ Len(Held') = Dist(head', tail')
          /\ \A i \in 1..Dist(head', tail') : Held'[i] = data'[Slot(Add(tail', i - 1))]
      BY QueueSeq DEF IInv, Shape, Held
    <3> QED
      BY <1>1, <1>3, <3>1
  <2>2. /\ Held \o w.src \in Seq(Sample) /\ Len(Held \o w.src) = Dist(head, tail) + w.n
        /\ \A i \in 1..Dist(head, tail) + w.n :
             (Held \o w.src)[i] = IF i <= Dist(head, tail) THEN Held[i] ELSE w.src[i - Dist(head, tail)]
    <3>1. Held \in Seq(Sample) /\ Len(Held) = Dist(head, tail) /\ Len(w.src) = w.n
      BY <1>1, HeldSeq
    <3>2. /\ Held \o w.src \in Seq(Sample) /\ Len(Held \o w.src) = Len(Held) + Len(w.src)
          /\ \A i \in 1..Len(Held) + Len(w.src) :
               (Held \o w.src)[i] = IF i <= Len(Held) THEN Held[i] ELSE w.src[i - Len(Held)]
      BY <1>2, <3>1, ConcatProperties
    <3> QED
      BY <3>1, <3>2
  <2>3. ASSUME NEW i \in 1..Dist(head, tail) + w.n
        PROVE  Held'[i] = (Held \o w.src)[i]
    <3>1. CASE i <= Dist(head, tail)
      <4>1. i \in 1..Dist(head, tail)
        BY <2>3, <3>1, Bounds
      <4> QED
        BY <2>1, <2>2, <3>1, <4>1, HeldSeq
    <3>2. CASE ~(i <= Dist(head, tail))
      <4> DEFINE m == i - Dist(head, tail)
      <4>1. m \in 1..w.n /\ m - 1 \in Nat /\ i - 1 = Dist(head, tail) + (m - 1) /\ Dist(head, tail) + (m - 1) < Modulus
        BY <1>1, <2>3, <3>2, Bounds
      <4>2. Add(tail, i - 1) = Add(head, m - 1)
        BY <4>1, Bounds, AddDist
      <4>3. data[Slot(Add(head, m - 1))] = w.src[m]
        BY <4>1 DEF Copied
      <4> QED
        BY <2>1, <2>2, <2>3, <3>2, <4>2, <4>3
    <3> QED
      BY <3>1, <3>2
  <2> QED
    BY <2>1, <2>2, <2>3, SeqEqual
<1> QED
  BY <1>1, <1>2, <1>4, <1>5, HeldSeq, Bounds

\* One more sample of the front is copied out.
LEMMA ReadCopyQueue ==
    ASSUME IInv, Copied, ReadCopy
    PROVE  Copied' /\ Held' = Held
<1> DEFINE s == data[Slot(Add(tail, Len(r.dst)))]
<1>1. r' = [r EXCEPT !.dst = Append(@, s)] /\ UNCHANGED <<head, tail, data, w, got>>
  BY DEF ReadCopy
<1>2. s \in Sample
  <2>1. Add(tail, Len(r.dst)) \in Nat
    BY Bounds, SizeAssumption DEF Counter, Add
  <2> QED
    BY <2>1, SlotRange DEF IInv, Shape
<1>3. s = data[Slot(Add(tail, (Len(r.dst) + 1) - 1))]
  BY Bounds
<1> HIDE DEF s
<1>4. r'.dst = Append(r.dst, s) /\ r.dst \in Seq(Sample)
  BY <1>1 DEF IInv, Shape
<1>5. /\ Len(r'.dst) = Len(r.dst) + 1 /\ r'.dst[Len(r.dst) + 1] = s
      /\ \A j \in 1..Len(r.dst) : r'.dst[j] = r.dst[j]
  BY <1>2, <1>4, AppendProperties
<1>6. \A j \in 1..Len(r'.dst) : r'.dst[j] = data[Slot(Add(tail, j - 1))]
  <2> TAKE j \in 1..Len(r'.dst)
  <2>1. CASE j = Len(r.dst) + 1
    BY <1>3, <1>5, <2>1
  <2>2. CASE j \in 1..Len(r.dst)
    BY <1>5, <2>2 DEF Copied
  <2> QED
    BY <1>5, <2>1, <2>2, Bounds
<1> QED
  BY <1>1, <1>6 DEF Copied, Held, QueueOf

\* The block that was copied out is the front of the queue, and leaves it in one step.
LEMMA ReadPublishQueue ==
    ASSUME IInv, IInv', Copied, ReadPublish
    PROVE  /\ Copied' /\ r.n \in 1..Len(Held)
           /\ got' = SubSeq(Held, 1, r.n) /\ Held' = SubSeq(Held, r.n + 1, Len(Held))
<1>1. /\ r.n > 0 /\ Len(r.dst) = r.n /\ tail' = Add(tail, r.n) /\ got' = r.dst /\ r'.dst = <<>>
      /\ UNCHANGED <<head, data, w>>
  BY DEF ReadPublish, Reading
<1>2. Dist(head', tail') = Dist(head, tail) - r.n
  BY <1>1, Bounds, DistRelease
<1>3. Copied'
  <2>1. Len(r'.dst) = 0
    BY <1>1
  <2> QED
    BY <1>1, <2>1 DEF Copied
<1>4. r.n \in 1..Len(Held) /\ Len(Held) \in Nat /\ Len(Held) = Dist(head, tail) /\ Held \in Seq(Sample)
  BY <1>1, HeldSeq, Bounds
<1>5. \A i \in 1..Len(Held) : Held[i] \in Sample
  BY <1>4, ElementOfSeq
<1>6. got' = SubSeq(Held, 1, r.n)
  <2>1. /\ SubSeq(Held, 1, r.n) \in Seq(Sample) /\ Len(SubSeq(Held, 1, r.n)) = r.n
        /\ \A i \in 1..r.n : SubSeq(Held, 1, r.n)[i] = Held[i]
    <3>1. \A i \in 1..r.n : Held[i] \in Sample
      BY <1>4, <1>5
    <3>2. r.n - 1 + 1 = r.n /\ 1 <= r.n /\ r.n \in Int /\ 1 \in Int /\ \A i \in 1..r.n : 1 + i - 1 = i
      BY <1>4
    <3> QED
      BY <3>1, <3>2, SubSeqProperties
  <2>2. r.dst \in Seq(Sample) /\ Len(r.dst) = r.n
    BY <1>1 DEF IInv, Shape
  <2>3. \A i \in 1..r.n : r.dst[i] = Held[i]
    <3> TAKE i \in 1..r.n
    <3>1. i \in 1..Dist(head, tail)
      BY <1>4
    <3> QED
      BY <1>1, <3>1, HeldSeq DEF Copied
  <2>4. r.dst = SubSeq(Held, 1, r.n)
    BY <2>1, <2>2, <2>3, SeqEqual
  <2> QED
    BY <1>1, <2>4
<1>7. Held' = SubSeq(Held, r.n + 1, Len(Held))
  <2> DEFINE n == r.n
             d == Dist(head, tail)
  <2>1. n \in Nat /\ d \in Nat /\ n <= d /\ n > 0 /\ d < Modulus /\ Modulus \in Nat
    BY <1>1, Bounds
  <2>2. /\ Held' \in Seq(Sample) /\ Len(Held') = d - n
        /\ \A i \in 1..d - n : Held'[i] = data[Slot(Add(Add(tail, n), i - 1))]
    <3>1. /\ Held' \in Seq(Sample) /\ Len(Held') = Dist(head', tail')
          /\ \A i \in 1..Dist(head', tail') : Held'[i] = data'[Slot(Add(tail', i - 1))]
      BY QueueSeq DEF IInv, Shape, Held
    <3> QED
      BY <1>1, <1>2, <3>1
  <2> HIDE DEF n, d
  <2>3. /\ SubSeq(Held, n + 1, d) \in Seq(Sample) /\ Len(SubSeq(Held, n + 1, d)) = d - n
        /\ \A i \in 1..d - n : SubSeq(Held, n + 1, d)[i] = Held[n + i]
    <3>1. \A i \in n + 1..d : Held[i] \in Sample
      BY <1>4, <1>5, <2>1 DEF d
    <3>2. /\ d - (n + 1) + 1 = d - n /\ n + 1 \in Int /\ d \in Int
          /\ (IF n + 1 <= d THEN d - (n + 1) + 1 ELSE 0) = d - n
          /\ \A i \in 1..d - n : (n + 1) + i - 1 = n + i
      BY <2>1
    <3> QED
      BY <3>1, <3>2, SubSeqProperties
  <2>4. \A i \in 1..d - n : Held'[i] = SubSeq(Held, n + 1, d)[i]
    <3> TAKE i \in 1..d - n
    <3>1. i - 1 \in Nat /\ n + (i - 1) < Modulus /\ n + (i - 1) = (n + i) - 1 /\ n + i \in 1..d
      BY <2>1
    <3>2. Add(Add(tail, n), i - 1) = Add(tail, (n + i) - 1)
      BY <2>1, <3>1, Bounds, AddSum
    <3>3. Held[n + i] = data[Slot(Add(tail, (n + i) - 1))]
      BY <3>1, HeldSeq DEF d
    <3> QED
      BY <2>2, <2>3, <3>2, <3>3
  <2>5. Held' = SubSeq(Held, n + 1, d)
    BY <2>2, <2>3, <2>4, SeqEqual
  <2> QED
    BY <1>4, <2>5 DEF n, d
<1> QED
  BY <1>3, <1>4, <1>6, <1>7

LEMMA NextQueue ==
    ASSUME IInv, IInv', Copied, [Next]_vars
    PROVE  /\ Copied'
           /\ \/ UNCHANGED <<Held, got>>
              \/ \E n \in 1..(Capacity - 1 - Len(Held)) :
                    \E block \in [1..n -> Sample] : Held' = Held \o block /\ got' = got
              \/ \E n \in 1..Len(Held) :
                    got' = SubSeq(Held, 1, n) /\ Held' = SubSeq(Held, n + 1, Len(Held))
<1>1. ASSUME NEW n, NEW block, WriteBegin(n, block)
      PROVE  Copied' /\ UNCHANGED <<Held, got>>
  <2>1. w'.n = 0 /\ UNCHANGED <<head, tail, data, r, got>>
    BY <1>1 DEF WriteBegin
  <2> QED
    BY <2>1 DEF Copied, Held, QueueOf
<1>2. ASSUME NEW n, ReadBegin(n)
      PROVE  Copied' /\ UNCHANGED <<Held, got>>
  <2>1. Len(r'.dst) = 0 /\ UNCHANGED <<head, tail, data, w, got>>
    BY <1>2 DEF ReadBegin, Reading
  <2> QED
    BY <2>1 DEF Copied, Held, QueueOf
<1>3. CASE WriteCopy
  BY <1>3, WriteCopyQueue DEF WriteCopy
<1>4. CASE WritePublish
  BY <1>4, WritePublishQueue
<1>5. CASE ReadCopy
  BY <1>5, ReadCopyQueue DEF ReadCopy
<1>6. CASE ReadPublish
  BY <1>6, ReadPublishQueue
<1>7. CASE UNCHANGED vars
  BY <1>7 DEF vars, Copied, Held, QueueOf
<1> QED
  BY <1>1, <1>2, <1>3, <1>4, <1>5, <1>6, <1>7 DEF Next, Produce, Consume

LEMMA InitQueue == Init => Copied /\ Held = <<>> /\ got = <<>>
<1> SUFFICES ASSUME Init PROVE Copied /\ Held = <<>> /\ got = <<>>
  OBVIOUS
<1>1. w.n = 0 /\ Len(r.dst) = 0 /\ got = <<>> /\ Dist(head, tail) = 0
  BY DEF Init, Idle, Reading, Dist
<1>2. Held \in Seq(Sample) /\ Len(Held) = 0
  BY <1>1, InitIInv, HeldSeq
<1> QED
  BY <1>1, <1>2, EmptySeq DEF Copied

\* The ring is a bounded first-in first-out queue: sample by sample copied and published with two
\* counters that wrap, every block read is the oldest samples written, in order and none lost, and
\* to both threads a write or a read is one step.
THEOREM ImplementsQueueHolds == Spec => ImplementsQueue
<1>1. ImplementsQueue <=> Queue!QInit /\ [][Queue!QNext]_(Queue!qvars)
  BY DEF ImplementsQueue, Queue!QSpec
<1>2. Init => Copied /\ Queue!QInit
  BY InitQueue DEF Queue!QInit, Held, QueueOf
<1>3. ASSUME IInv, IInv', Copied, [Next]_vars
      PROVE  Copied' /\ [Queue!QNext]_(Queue!qvars)
  <2>1. Copied'
    BY <1>3, NextQueue
  <2>2. CASE UNCHANGED <<Held, got>>
    BY <2>1, <2>2 DEF Queue!qvars, Held, QueueOf
  <2>3. CASE \E n \in 1..(Capacity - 1 - Len(Held)) :
                \E block \in [1..n -> Sample] : Held' = Held \o block /\ got' = got
    BY <2>1, <2>3 DEF Queue!QNext, Queue!Put, Held, QueueOf
  <2>4. CASE \E n \in 1..Len(Held) :
                got' = SubSeq(Held, 1, n) /\ Held' = SubSeq(Held, n + 1, Len(Held))
    BY <2>1, <2>4 DEF Queue!QNext, Queue!Take, Held, QueueOf
  <2> QED
    BY <1>3, <2>2, <2>3, <2>4, <2>1, NextQueue
<1> QED
  BY <1>1, <1>2, <1>3, InitIInv, NextIInv, PTL DEF Spec
=============================================================================
