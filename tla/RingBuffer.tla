---------------------------- MODULE RingBuffer ----------------------------
(***************************************************************************)
(* The lock-free ring between one capture callback (producer, an audio     *)
(* thread) and the drain worker (consumer), RingBuffer.h.                  *)
(*                                                                         *)
(* The two atomic counters grow without masking and wrap at the width of   *)
(* size_t, here Modulus.  write() and read() take one snapshot of the      *)
(* other side's counter, copy sample by sample (the memcpys interleave     *)
(* with the other thread) and publish their own counter last.              *)
(***************************************************************************)
EXTENDS Integers, Sequences

CONSTANTS
    Capacity,   \* slots of the array, a power of two
    Modulus,    \* number of values of a counter: 2^w
    MaxBlock,   \* longest block handed to write() or asked of read()
    Sample,     \* the samples
    Zero        \* what the array holds at construction

ASSUME SizeAssumption ==
    /\ Capacity \in Nat /\ Capacity >= 2
    /\ Modulus \in Nat /\ Modulus >= 2 * Capacity
    /\ MaxBlock \in Nat /\ MaxBlock >= 1
    /\ Zero \in Sample

\* 2^w is a multiple of a power of two below it: masking a wrapped counter gives the right slot.
ASSUME WidthAssumption == Modulus % Capacity = 0

VARIABLES
    head,       \* samples ever written, modulo Modulus (the producer writes it)
    tail,       \* samples ever read, modulo Modulus (the consumer writes it)
    data,       \* the array
    w,          \* the producer inside write(): the samples to copy, how many are copied
    r,          \* the consumer inside read(): how many to copy, those copied
    got         \* the block the last read() returned

vars == <<head, tail, data, w, r, got>>

Counter == 0..(Modulus - 1)

\* Mutant of Add: the counter wraps one value late.
AddLate(x, n) == IF x + n > Modulus THEN x + n - Modulus ELSE x + n

\* Unsigned addition and subtraction at the counters' width.
Add(x, n) == IF x + n >= Modulus THEN x + n - Modulus ELSE x + n
Dist(h, t) == IF h >= t THEN h - t ELSE h - t + Modulus
Slot(x) == x % Capacity

\* One slot always stays empty.
Free(h, t) == Capacity - 1 - Dist(h, t)

Idle == [n |-> 0, src |-> <<>>]
Reading(n) == [n |-> n, dst |-> <<>>]

Init == /\ head = 0
        /\ tail = 0
        /\ data = [s \in 0..(Capacity - 1) |-> Zero]
        /\ w = Idle
        /\ r = Reading(0)
        /\ got = <<>>

----------------------------------------------------------------------------
(* write(src, count): the callback *)

\* head_ is the producer's own, tail_ is read once; what does not fit is dropped, and a write that
\* finds no room returns at once.
WriteBegin(n, block) ==
    /\ w.src = <<>>
    /\ n <= Free(head, tail)
    /\ w' = [n |-> 0, src |-> block]
    /\ UNCHANGED <<head, tail, data, r, got>>

\* One sample of the two memcpys.
WriteCopy ==
    /\ w.n < Len(w.src)
    /\ data' = [data EXCEPT ![Slot(Add(head, w.n))] = w.src[w.n + 1]]
    /\ w' = [w EXCEPT !.n = @ + 1]
    /\ UNCHANGED <<head, tail, r, got>>

\* head_.store(release)
WritePublish ==
    /\ w.src # <<>>
    /\ w.n = Len(w.src)
    /\ head' = Add(head, w.n)
    /\ w' = Idle
    /\ UNCHANGED <<tail, data, r, got>>

----------------------------------------------------------------------------
(* read(dst, count): the drain worker *)

\* Mutant of ReadBegin: the request is not cut to what is there.
ReadUnchecked(n) ==
    /\ r.n = 0
    /\ r' = Reading(n)
    /\ UNCHANGED <<head, tail, data, w, got>>

ReadBegin(n) ==
    /\ r.n = 0
    /\ n <= Dist(head, tail)
    /\ r' = Reading(n)
    /\ UNCHANGED <<head, tail, data, w, got>>

\* Mutant of ReadCopy: the second memcpy does not start at slot 0.
ReadPastEnd ==
    /\ Len(r.dst) < r.n
    /\ LET s == Slot(tail) + Len(r.dst)
       IN r' = [r EXCEPT !.dst = Append(@, data[IF s < Capacity THEN s ELSE Capacity - 1])]
    /\ UNCHANGED <<head, tail, data, w, got>>

ReadCopy ==
    /\ Len(r.dst) < r.n
    /\ r' = [r EXCEPT !.dst = Append(@, data[Slot(Add(tail, Len(@)))])]
    /\ UNCHANGED <<head, tail, data, w, got>>

\* tail_.store(release)
ReadPublish ==
    /\ r.n > 0
    /\ Len(r.dst) = r.n
    /\ tail' = Add(tail, r.n)
    /\ got' = r.dst
    /\ r' = Reading(0)
    /\ UNCHANGED <<head, data, w>>

Produce == \/ \E n \in 1..MaxBlock : \E block \in [1..n -> Sample] : WriteBegin(n, block)
           \/ WriteCopy
           \/ WritePublish

Consume == \/ \E n \in 1..MaxBlock : ReadBegin(n)
           \/ ReadCopy
           \/ ReadPublish

Next == Produce \/ Consume
Spec == Init /\ [][Next]_vars

----------------------------------------------------------------------------
TypeOK == /\ head \in Counter
          /\ tail \in Counter
          /\ data \in [0..(Capacity - 1) -> Sample]
          /\ w.src \in Seq(Sample) /\ w.n \in 0..Len(w.src)
          /\ r.dst \in Seq(Sample) /\ r.n \in Nat /\ Len(r.dst) \in 0..r.n

\* The fill level never passes Capacity - 1, a write under way still fits after it and a read under
\* way asks for no more than is there, whatever the other thread does between its snapshot and its
\* publication and wherever the counters wrapped.  (A counter that ran ahead makes distance() a huge
\* unsigned number and the drain reads garbage.)
FillBounded == /\ Dist(head, tail) + Len(w.src) <= Capacity - 1
               /\ r.n <= Dist(head, tail)

\* The slots the producer still copies into and the slots the consumer still copies from are
\* disjoint: no sample is read torn, and none is overwritten before it was read.
CopiesDisjoint ==
    \A i \in 0..(Len(w.src) - 1), j \in 0..(r.n - 1) :
        Slot(Add(head, i)) # Slot(Add(tail, j))

\* The ring implements the bounded FIFO: every block read is the oldest samples written, in order.
Queue == INSTANCE SampleQueue
           WITH Bound <- Capacity - 1,
                queue <- [i \in 1..Dist(head, tail) |-> data[Slot(Add(tail, i - 1))]]
ImplementsQueue == Queue!QSpec
=============================================================================
