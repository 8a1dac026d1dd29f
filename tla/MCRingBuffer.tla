---------------------------- MODULE MCRingBuffer ----------------------------
(***************************************************************************)
(* RingBuffer on four slots and counters of three bits: every offset of    *)
(* the wrap of the array against the wrap of the counters occurs.          *)
(***************************************************************************)
EXTENDS RingBuffer
=============================================================================
