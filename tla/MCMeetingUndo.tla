------------------------------ MODULE MCMeetingUndo -------------------------------
(* Editor, tags and participants of one meeting, with small limits of the stacks. *)
EXTENDS MeetingUndo
=============================================================================
