------------------------- MODULE MCRecordingService -------------------------
(***************************************************************************)
(* Two recordings one after the other; the .cfg files say which devices    *)
(* there are and in which states the callers start and stop.               *)
(***************************************************************************)
EXTENDS RecordingService
=============================================================================
