---------------------------- MODULE SampleQueue ----------------------------
(***************************************************************************)
(* What a capture ring promises to its two users: a bounded first-in       *)
(* first-out queue of samples.  The producer hands over a block and a      *)
(* prefix of it is queued (the rest is dropped), the consumer takes a      *)
(* prefix of the queue.  RingBuffer implements this specification.         *)
(***************************************************************************)
EXTENDS Naturals, Sequences

CONSTANTS
    Bound,      \* most samples the queue ever holds
    Sample      \* the samples

VARIABLES
    queue,      \* samples written and not yet read, oldest first
    got         \* the block the last read returned

qvars == <<queue, got>>

QInit == queue = <<>> /\ got = <<>>

\* A non-empty block of at most Bound - Len(queue) samples joins the queue.
Put == /\ \E n \in 1..(Bound - Len(queue)) :
              \E block \in [1..n -> Sample] : queue' = queue \o block
       /\ UNCHANGED got

\* The oldest n samples leave the queue, in order, and are what the reader gets.
Take == \E n \in 1..Len(queue) :
            /\ got' = SubSeq(queue, 1, n)
            /\ queue' = SubSeq(queue, n + 1, Len(queue))

QNext == Put \/ Take
QSpec == QInit /\ [][QNext]_qvars
=============================================================================
