------------------------------ MODULE MCWorkflows ------------------------------
(***************************************************************************)
(* Two versions of the active tracks (a change before, during or after a   *)
(* mix), three transcripts (one, its separation, a re-transcription) and   *)
(* two cancels of a separation in flight.                                  *)
(***************************************************************************)
EXTENDS Workflows
================================================================================
