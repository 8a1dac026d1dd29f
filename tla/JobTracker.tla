------------------------------ MODULE JobTracker ------------------------------
(***************************************************************************)
(* The job book of one meeting (MeetingJobTracker.cpp): at most one job of *)
(* a kind, and what is remembered when it closed.  The operators are the   *)
(* tracker's calls as functions from book to book, so that a handler which *)
(* makes several of them is one step.  Progress, titles and stages of a    *)
(* running job are left out: nothing reads them back.                      *)
(***************************************************************************)

Kinds == {"Transcribe", "Mixdown", "Identify"}

\* A closed job has no entry in m_jobs ("none"); cancelling is a mark on a running one.
JobStates == {"none", "running", "cancelling"}

\* Identify has no slot in processing.json: its failures are not remembered.
ErrorSlots == {"Transcribe", "Mixdown"}

Books == [job: [Kinds -> JobStates], errors: SUBSET ErrorSlots, identified: BOOLEAN]

EmptyBook == [job |-> [k \in Kinds |-> "none"], errors |-> {}, identified |-> FALSE]

IsRunning(b, k) == b.job[k] # "none"

\* begin replaces an entry of the same kind, its cancelling mark with it.
Begin(b, k) == [b EXCEPT !.job[k] = "running"]

SetCancelling(b, k) == IF IsRunning(b, k) THEN [b EXCEPT !.job[k] = "cancelling"] ELSE b

CloseJob(b, k) == [b EXCEPT !.job[k] = "none"]

\* Success forgets the error of the slot, also when no such job is open.
FinishJob(b, k) == CloseJob([b EXCEPT !.errors = @ \ {k}], k)

FailJob(b, k) == CloseJob([b EXCEPT !.errors = @ \cup ({k} \cap ErrorSlots)], k)

\* Mutant: a cancel is remembered as an error, also of a kind that has no slot.
CancelledRemembered(b, k) == CloseJob([b EXCEPT !.errors = @ \cup {k}], k)

CancelledJob(b, k) == CloseJob(b, k)

MarkIdentified(b, yes) == [b EXCEPT !.identified = yes]
===============================================================================
