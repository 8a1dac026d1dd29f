---------------------------- MODULE Workflows_proofs ----------------------------
(***************************************************************************)
(* Workflows.tla proved for every number of track changes, transcripts and *)
(* waiting calls.  The invariants that TLC checks are not inductive one by *)
(* one: the names and the mark of a transcript are safe only because a     *)
(* standalone identification that a new transcript will overtake has been  *)
(* cancelled (IdentifyStopped), because a separation of the chain dropped  *)
(* the mark before (ChainUnmarked), and the race of the mix is seen only   *)
(* because the running mix is told of a change (MixKnows).                 *)
(* CancelKnown, at the end, says what a cancelled transcription may be at. *)
(***************************************************************************)
EXTENDS Workflows, TLAPS

\* A standalone identification under a transcription on its way to a new transcript was cancelled.
IdentifyStopped ==
    Identifying /\ (wait # "none" \/ stt.run \/ (diar # "none" /\ ~manual)) => ident.cancelled

\* A transcript whose speakers are still being separated is not marked identified.
ChainUnmarked == diar # "none" /\ ~manual => ~book.identified

\* A mix that runs on other tracks than the active ones knows that they changed under it.
MixKnows == mix.run /\ mix.rev # tracks => mix.changed

\* The inductive invariant.
IInv ==
    /\ TypeOK
    /\ JobsMatchWork
    /\ NamesOfTranscript
    /\ IdentifiedIsCurrent /\ IdentifyStopped /\ ChainUnmarked
    /\ AudioIsCurrent /\ CleanUnlessRaced /\ MixKnows

----------------------------------------------------------------------------
(* The calls of the job book *)

\* Book c is b but for the job of kind k, which runs or does not; the mark "identified" is kept.
Is(b, c, k, runs) ==
    /\ c \in Books /\ c.identified = b.identified
    /\ IsRunning(c, k) = runs
    /\ \A j \in Kinds \ {k} : IsRunning(c, j) = IsRunning(b, j)

LEMMA BeginBook == ASSUME NEW b \in Books, NEW k \in Kinds PROVE Is(b, Begin(b, k), k, TRUE)
  BY DEF Is, Begin, Books, IsRunning, JobStates
LEMMA CloseBook == ASSUME NEW b \in Books, NEW k \in Kinds PROVE Is(b, CloseJob(b, k), k, FALSE)
  BY DEF Is, CloseJob, Books, IsRunning, JobStates
LEMMA FinishBook == ASSUME NEW b \in Books, NEW k \in Kinds PROVE Is(b, FinishJob(b, k), k, FALSE)
  <1> DEFINE c == [b EXCEPT !.errors = @ \ {k}]
  <1>1. c \in Books /\ c.job = b.job /\ c.identified = b.identified
    BY DEF Books
  <1>2. Is(c, CloseJob(c, k), k, FALSE)
    BY <1>1, CloseBook
  <1> QED BY <1>1, <1>2 DEF Is, FinishJob, IsRunning
LEMMA FailBook == ASSUME NEW b \in Books, NEW k \in Kinds PROVE Is(b, FailJob(b, k), k, FALSE)
  <1> DEFINE c == [b EXCEPT !.errors = @ \cup ({k} \cap ErrorSlots)]
  <1>1. c \in Books /\ c.job = b.job /\ c.identified = b.identified
    BY DEF Books
  <1>2. Is(c, CloseJob(c, k), k, FALSE)
    BY <1>1, CloseBook
  <1> QED BY <1>1, <1>2 DEF Is, FailJob, IsRunning
LEMMA CancelledBook == ASSUME NEW b \in Books, NEW k \in Kinds PROVE Is(b, CancelledJob(b, k), k, FALSE)
  BY CloseBook DEF CancelledJob
LEMMA CancellingBook ==
  ASSUME NEW b \in Books, NEW k \in Kinds PROVE Is(b, SetCancelling(b, k), k, IsRunning(b, k))
  BY DEF Is, SetCancelling, Books, IsRunning, JobStates
LEMMA MarkBook ==
  ASSUME NEW b \in Books, NEW yes \in BOOLEAN
  PROVE  /\ MarkIdentified(b, yes) \in Books /\ MarkIdentified(b, yes).identified = yes
         /\ \A j \in Kinds : IsRunning(MarkIdentified(b, yes), j) = IsRunning(b, j)
  BY DEF MarkIdentified, Books, IsRunning
LEMMA KindsAre == Kinds = {"Transcribe", "Mixdown", "Identify"}
  BY DEF Kinds
LEMMA FirstBook == EmptyBook \in Books /\ ~EmptyBook.identified /\ \A k \in Kinds : ~IsRunning(EmptyBook, k)
  BY DEF EmptyBook, Books, IsRunning, JobStates

----------------------------------------------------------------------------
(* What the shared parts of the handlers leave behind *)

LEMMA MixMarked ==
  ASSUME TypeOK, mix.run
  PROVE  mix \in MixRuns /\ [mix EXCEPT !.cancelled = TRUE] \in MixRuns
         /\ [mix EXCEPT !.changed = TRUE] \in MixRuns
  <1>1. mix \in MixRuns
    BY DEF TypeOK, NoRun
  <1> QED BY <1>1 DEF MixRuns

LEMMA IdentifyMarked ==
  ASSUME TypeOK, ident.run
  PROVE  ident \in IdentRuns /\ StopIdentify \in IdentRuns
         /\ StopIdentify.run /\ StopIdentify.stage = ident.stage /\ StopIdentify.stamp = ident.stamp
         /\ StopIdentify.cancelled
  <1>1. ident \in IdentRuns
    BY DEF TypeOK, NoRun
  <1> QED BY <1>1 DEF IdentRuns, StopIdentify

LEMMA NewIdentifyType ==
  ASSUME NEW g \in 1 .. MaxGen, NEW stage \in BOOLEAN
  PROVE  [run |-> TRUE, stamp |-> g, stage |-> stage, cancelled |-> FALSE] \in IdentRuns
  BY DEF IdentRuns

LEMMA RegenerateResult ==
  ASSUME IInv, NEW rev \in 1 .. MaxTracks, Regenerate(rev)
  PROVE  /\ book' \in Books /\ book'.identified = book.identified
         /\ IsRunning(book', "Transcribe") = IsRunning(book, "Transcribe")
         /\ IsRunning(book', "Identify") = IsRunning(book, "Identify")
         /\ IsRunning(book', "Mixdown") => mix'.run
         /\ mix' \in {NoRun} \cup MixRuns
         /\ mix.run => mix' = mix
         /\ ~mix.run /\ mix'.run => mix'.rev = rev
  <1>1. CASE UNCHANGED <<mix, book>>
    BY <1>1 DEF IInv, TypeOK, JobsMatchWork
  <1>2. CASE ~mix.run /\ mix' = NewMix(rev) /\ book' = Begin(book, "Mixdown")
    <2>1. Is(book, book', "Mixdown", TRUE)
      BY <1>2, BeginBook, KindsAre DEF IInv, TypeOK
    <2> QED BY <2>1, <1>2, KindsAre DEF Is, NewMix, MixRuns
  <1> QED BY <1>1, <1>2 DEF Regenerate

LEMMA StartSttResult ==
  ASSUME NEW b \in Books, NEW anew, NEW audio, NEW late, StartStt(b, anew, audio, late)
  PROVE  \/ /\ book' = b
            /\ stt' = [run |-> TRUE, clear |-> anew, audio |-> audio, want |-> tracks, raced |-> late]
         \/ Is(b, book', "Transcribe", FALSE) /\ stt' = NoRun
  BY FailBook, KindsAre DEF StartStt

\* The chain ended, perhaps with transcript g marked identified, or the naming thread runs on g.
ChainEnds(b, g, n) ==
    /\ book' \in Books /\ ~IsRunning(book', "Transcribe")
    /\ \A j \in Kinds \ {"Transcribe"} : IsRunning(book', j) = IsRunning(b, j)
    /\ \/ book'.identified = b.identified /\ covered' = covered
       \/ covered' = g
    /\ ident' = ident /\ names' \in {n, g}

NamingRuns(b, g, n) ==
    /\ book' = b /\ ~ident.run /\ g > 0
    /\ ident' = [run |-> TRUE, stamp |-> g, stage |-> TRUE, cancelled |-> FALSE]
    /\ covered' = covered /\ names' = n

LEMMA ContinueResult ==
  ASSUME NEW b \in Books, NEW g, NEW n, Continue(b, g, n)
  PROVE  ChainEnds(b, g, n) \/ NamingRuns(b, g, n)
  <1>1. CASE book' = FinishJob(b, "Transcribe") /\ names' \in {n, g} /\ UNCHANGED <<ident, covered>>
    <2>1. Is(b, book', "Transcribe", FALSE)
      BY <1>1, FinishBook, KindsAre
    <2> QED BY <2>1, <1>1 DEF Is, ChainEnds
  <1>2. CASE StartIdentify(b, g, TRUE) /\ names' = n
    <2> DEFINE done == MarkIdentified(b, TRUE)
    <2>1. done \in Books /\ \A j \in Kinds : IsRunning(done, j) = IsRunning(b, j)
      BY MarkBook
    <2>2. CASE UNCHANGED ident /\ covered' = g /\ book' = FinishJob(done, "Transcribe")
      <3>1. Is(done, book', "Transcribe", FALSE)
        BY <2>1, <2>2, FinishBook, KindsAre
      <3> QED BY <3>1, <2>1, <2>2, <1>2 DEF Is, ChainEnds
    <2>3. CASE NamingRuns(b, g, n)
      BY <2>3
    <2> QED BY <2>2, <2>3, <1>2 DEF StartIdentify, NamingRuns
  <1> QED BY <1>1, <1>2 DEF Continue

----------------------------------------------------------------------------
(* The steps *)

LEMMA RegenerateMixdownStep == ASSUME IInv, RegenerateMixdown PROVE IInv'
  <1>1. tracks \in 1 .. MaxTracks
    BY DEF IInv, TypeOK
  <1>2. Regenerate(tracks) /\ book' \in Books /\ book'.identified = book.identified
        /\ IsRunning(book', "Transcribe") = IsRunning(book, "Transcribe")
        /\ IsRunning(book', "Identify") = IsRunning(book, "Identify")
        /\ (IsRunning(book', "Mixdown") => mix'.run) /\ mix' \in {NoRun} \cup MixRuns
        /\ (mix.run => mix' = mix) /\ (~mix.run /\ mix'.run => mix'.rev = tracks)
    BY <1>1, RegenerateResult DEF RegenerateMixdown
  <1>3. TypeOK'
    BY <1>2 DEF IInv, TypeOK, RegenerateMixdown, tracked, stages, transcript
  <1>4. JobsMatchWork'
    BY <1>3, <1>2 DEF IInv, TypeOK, JobsMatchWork, StageHasJob, Identifying, InIdentifyStage,
        RegenerateMixdown, tracked, stages, transcript
  <1> QED
    BY <1>3, <1>4, <1>2 DEF IInv, TypeOK, JobsMatchWork, StageHasJob, Identifying, InIdentifyStage,
        NamesOfTranscript, IdentifiedIsCurrent, IdentifyStopped, ChainUnmarked, AudioIsCurrent,
        CleanUnlessRaced, MixKnows,
        RegenerateMixdown, tracked, stages, transcript

LEMMA SttFailsStep == ASSUME IInv, SttFails PROVE IInv'
  <1>1. Is(book, book', "Transcribe", FALSE)
    BY FailBook, KindsAre DEF IInv, TypeOK, SttFails
  <1>2. TypeOK'
    BY <1>1 DEF IInv, TypeOK, SttFails, tracked, transcript, Is, NoRun
  <1>3. JobsMatchWork'
    BY <1>2, <1>1, KindsAre DEF IInv, TypeOK, JobsMatchWork, StageHasJob, Identifying, InIdentifyStage,
        SttFails, tracked, transcript, Is, NoRun
  <1> QED
    BY <1>2, <1>3, <1>1, KindsAre
        DEF IInv, TypeOK, JobsMatchWork, StageHasJob, Identifying, InIdentifyStage,
        NamesOfTranscript, IdentifiedIsCurrent, IdentifyStopped, ChainUnmarked, AudioIsCurrent,
        CleanUnlessRaced, MixKnows,
        SttFails, tracked, transcript, Is, NoRun

LEMMA CancelMixdownStep == ASSUME IInv, CancelMixdown PROVE IInv'
  <1>1. Is(book, book', "Mixdown", IsRunning(book, "Mixdown"))
    BY CancellingBook, KindsAre
        DEF IInv, TypeOK, JobsMatchWork, CancelMixdown, tracked, stages, transcript
  <1>2. TypeOK'
    BY <1>1, MixMarked DEF IInv, TypeOK, CancelMixdown, tracked, stages, transcript, Is
  <1>3. JobsMatchWork'
    BY <1>2, <1>1, KindsAre DEF IInv, TypeOK, JobsMatchWork, StageHasJob, Identifying, InIdentifyStage,
        CancelMixdown, tracked, stages, transcript, Is
  <1> QED
    BY <1>2, <1>3, <1>1, KindsAre
        DEF IInv, TypeOK, JobsMatchWork, StageHasJob, Identifying, InIdentifyStage,
        NamesOfTranscript, IdentifiedIsCurrent, IdentifyStopped, ChainUnmarked, AudioIsCurrent,
        CleanUnlessRaced, MixKnows,
        CancelMixdown, tracked, stages, transcript, Is

LEMMA CancelIdentifyStep == ASSUME IInv, CancelIdentify PROVE IInv'
  <1>1. Is(book, book', "Identify", IsRunning(book, "Identify"))
    BY CancellingBook, KindsAre
        DEF IInv, TypeOK, JobsMatchWork, CancelIdentify, Identifying, tracked, transcript
  <1>2. TypeOK'
    BY <1>1, IdentifyMarked DEF IInv, TypeOK, CancelIdentify, Identifying, tracked, transcript, Is
  <1>3. JobsMatchWork'
    BY <1>2, <1>1, IdentifyMarked, KindsAre
        DEF IInv, TypeOK, JobsMatchWork, StageHasJob, Identifying, InIdentifyStage,
        CancelIdentify, Identifying, tracked, transcript, Is
  <1> QED
    BY <1>2, <1>3, <1>1, IdentifyMarked, KindsAre
        DEF IInv, TypeOK, JobsMatchWork, StageHasJob, Identifying, InIdentifyStage,
        NamesOfTranscript, IdentifiedIsCurrent, IdentifyStopped, ChainUnmarked, AudioIsCurrent,
        CleanUnlessRaced, MixKnows,
        CancelIdentify, Identifying, tracked, transcript, Is

LEMMA CancelDiarizationStep ==
  ASSUME IInv, CancelDiarization,
         UNCHANGED <<tracked, manual, transcript, names, check, covered>>
  PROVE  IInv'
  <1>1. Is(book, book', "Transcribe", IsRunning(book, "Transcribe"))
    BY CancellingBook, KindsAre DEF IInv, TypeOK, JobsMatchWork, CancelDiarization, tracked, transcript
  <1>2. TypeOK'
    BY <1>1, WorkflowsAssumption DEF IInv, TypeOK, CancelDiarization, tracked, transcript, Is
  <1>3. JobsMatchWork'
    BY <1>2, <1>1, KindsAre DEF IInv, TypeOK, JobsMatchWork, StageHasJob, Identifying, InIdentifyStage,
        CancelDiarization, tracked, transcript, Is
  <1> QED
    BY <1>2, <1>3, <1>1, KindsAre
        DEF IInv, TypeOK, JobsMatchWork, StageHasJob, Identifying, InIdentifyStage,
        NamesOfTranscript, IdentifiedIsCurrent, IdentifyStopped, ChainUnmarked, AudioIsCurrent,
        CleanUnlessRaced, MixKnows,
        CancelDiarization, tracked, transcript, Is

LEMMA CancelMixWaitStep ==
  ASSUME IInv, CancelMixWait,
         UNCHANGED <<tracked, manual, transcript, names, check, covered>>
  PROVE  IInv'
  <1>1. Is(book, book', "Transcribe", FALSE)
    BY CancelledBook, KindsAre DEF IInv, TypeOK, JobsMatchWork, CancelMixWait, tracked, transcript
  <1>2. mix' \in {NoRun} \cup MixRuns /\ mix'.run = mix.run
        /\ mix'.rev = mix.rev /\ mix'.changed = mix.changed
    <2>1. mix.run /\ mix \in MixRuns
      BY MixMarked DEF IInv, JobsMatchWork, CancelMixWait
    <2> QED BY <2>1 DEF CancelMixWait, MixRuns
  <1>3. TypeOK'
    BY <1>2, <1>1 DEF IInv, TypeOK, CancelMixWait, tracked, transcript, Is
  <1>4. JobsMatchWork'
    BY <1>2, <1>3, <1>1, KindsAre
        DEF IInv, TypeOK, JobsMatchWork, StageHasJob, Identifying, InIdentifyStage,
        CancelMixWait, tracked, transcript, Is
  <1> QED
    BY <1>2, <1>3, <1>4, <1>1, KindsAre
        DEF IInv, TypeOK, JobsMatchWork, StageHasJob, Identifying, InIdentifyStage,
        NamesOfTranscript, IdentifiedIsCurrent, IdentifyStopped, ChainUnmarked, AudioIsCurrent,
        CleanUnlessRaced, MixKnows,
        CancelMixWait, tracked, transcript, Is

LEMMA CancelSttStep ==
  ASSUME IInv, CancelStt,
         UNCHANGED <<tracked, manual, transcript, names, check, covered>>
  PROVE  IInv'
  <1>1. Is(book, book', "Transcribe", FALSE)
    BY CancelledBook, KindsAre DEF IInv, TypeOK, JobsMatchWork, CancelStt, tracked, transcript, NoRun
  <1>2. TypeOK'
    BY <1>1 DEF IInv, TypeOK, CancelStt, tracked, transcript, NoRun, Is
  <1>3. JobsMatchWork'
    BY <1>2, <1>1, KindsAre DEF IInv, TypeOK, JobsMatchWork, StageHasJob, Identifying, InIdentifyStage,
        CancelStt, tracked, transcript, NoRun, Is
  <1> QED
    BY <1>2, <1>3, <1>1, KindsAre
        DEF IInv, TypeOK, JobsMatchWork, StageHasJob, Identifying, InIdentifyStage,
        NamesOfTranscript, IdentifiedIsCurrent, IdentifyStopped, ChainUnmarked, AudioIsCurrent,
        CleanUnlessRaced, MixKnows,
        CancelStt, tracked, transcript, NoRun, Is

LEMMA CancelIdentifyStageStep ==
  ASSUME IInv, CancelIdentifyStage,
         UNCHANGED <<tracked, manual, transcript, names, check, covered>>
  PROVE  IInv'
  <1>1. Is(book, book', "Transcribe", IsRunning(book, "Transcribe"))
    BY CancellingBook, KindsAre
        DEF IInv, TypeOK, JobsMatchWork, CancelIdentifyStage, InIdentifyStage, tracked, transcript
  <1>2. TypeOK'
    BY <1>1, IdentifyMarked
        DEF IInv, TypeOK, CancelIdentifyStage, InIdentifyStage, tracked, transcript, Is
  <1>3. JobsMatchWork'
    BY <1>2, <1>1, IdentifyMarked, KindsAre
        DEF IInv, TypeOK, JobsMatchWork, StageHasJob, Identifying, InIdentifyStage,
        CancelIdentifyStage, InIdentifyStage, tracked, transcript, Is
  <1> QED
    BY <1>2, <1>3, <1>1, IdentifyMarked, KindsAre
        DEF IInv, TypeOK, JobsMatchWork, StageHasJob, Identifying, InIdentifyStage,
        NamesOfTranscript, IdentifiedIsCurrent, IdentifyStopped, ChainUnmarked, AudioIsCurrent,
        CleanUnlessRaced, MixKnows,
        CancelIdentifyStage, InIdentifyStage, tracked, transcript, Is

LEMMA StartSpeechCheckStep == ASSUME IInv, StartSpeechCheck PROVE IInv'
  <1>1. TypeOK'
    BY DEF IInv, TypeOK, StartSpeechCheck, tracked, stages, transcript
  <1> QED
    BY <1>1 DEF IInv, JobsMatchWork, StageHasJob, Identifying, InIdentifyStage,
        NamesOfTranscript, IdentifiedIsCurrent, IdentifyStopped, ChainUnmarked, AudioIsCurrent,
        CleanUnlessRaced, MixKnows,
        StartSpeechCheck, tracked, stages, transcript

LEMMA NameSpeakersStep == ASSUME IInv, NameSpeakers PROVE IInv'
  <1>1. TypeOK'
    BY DEF IInv, TypeOK, NameSpeakers, tracked, stages, transcript
  <1> QED
    BY <1>1 DEF IInv, JobsMatchWork, StageHasJob, Identifying, InIdentifyStage,
        NamesOfTranscript, IdentifiedIsCurrent, IdentifyStopped, ChainUnmarked, AudioIsCurrent,
        CleanUnlessRaced, MixKnows,
        NameSpeakers, tracked, stages, transcript

LEMMA StutterStep == ASSUME IInv, UNCHANGED vars PROVE IInv'
  <1>1. TypeOK'
    BY DEF IInv, TypeOK, vars, tracked, stages, transcript
  <1> QED
    BY <1>1 DEF IInv, JobsMatchWork, StageHasJob, Identifying, InIdentifyStage,
        NamesOfTranscript, IdentifiedIsCurrent, IdentifyStopped, ChainUnmarked, AudioIsCurrent,
        CleanUnlessRaced, MixKnows,
        vars, tracked, stages, transcript
LEMMA ChangeTracksStep == ASSUME IInv, ChangeTracks PROVE IInv'
  <1>1. tracks \in 1 .. MaxTracks /\ tracks' \in 1 .. MaxTracks /\ tracks' # tracks
        /\ dirty' /\ UNCHANGED <<mixFile, missed>>
    BY WorkflowsAssumption DEF IInv, TypeOK, ChangeTracks, MarkChanged
  <1>2. /\ book' \in Books /\ book'.identified = book.identified
        /\ IsRunning(book', "Transcribe") = IsRunning(book, "Transcribe")
        /\ IsRunning(book', "Identify") = IsRunning(book, "Identify")
        /\ (IsRunning(book', "Mixdown") => mix'.run) /\ mix' \in {NoRun} \cup MixRuns
        /\ (mix.run => mix'.run /\ mix'.rev = mix.rev /\ mix'.changed)
        /\ (~mix.run /\ mix'.run => mix'.rev = tracks')
    <2>1. CASE mix.run
      <3>1. mix \in MixRuns /\ mix' = [mix EXCEPT !.changed = TRUE] /\ mix' \in MixRuns /\ book' = book
        BY <2>1, MixMarked DEF IInv, ChangeTracks
      <3> QED BY <3>1, <2>1 DEF IInv, TypeOK, JobsMatchWork, MixRuns
    <2>2. CASE ~mix.run
      BY <1>1, <2>2, RegenerateResult DEF ChangeTracks
    <2> QED BY <2>1, <2>2
  <1>3. TypeOK'
    BY <1>1, <1>2, WorkflowsAssumption DEF IInv, TypeOK, ChangeTracks, MarkChanged, stages, transcript
  <1>4. JobsMatchWork'
    BY <1>1, <1>2, WorkflowsAssumption, KindsAre
        DEF IInv, TypeOK, JobsMatchWork, StageHasJob, Identifying, InIdentifyStage,
        ChangeTracks, MarkChanged, stages, transcript
  <1> QED
    BY <1>3, <1>4, <1>1, <1>2, WorkflowsAssumption, KindsAre
        DEF IInv, TypeOK, JobsMatchWork, StageHasJob, Identifying, InIdentifyStage,
        NamesOfTranscript, IdentifiedIsCurrent, IdentifyStopped, ChainUnmarked, AudioIsCurrent,
        CleanUnlessRaced, MixKnows,
        ChangeTracks, MarkChanged, stages, transcript

LEMMA FinishSpeechCheckStep == ASSUME IInv, FinishSpeechCheck PROVE IInv'
  <1>1. tracks \in 1 .. MaxTracks /\ tracks' \in 1 .. MaxTracks /\ dirty' \in BOOLEAN
        /\ UNCHANGED <<mixFile, missed>> /\ (tracks' # tracks \/ dirty' # dirty => dirty' = TRUE)
    <2>1. CASE UNCHANGED tracked
      BY <2>1 DEF IInv, TypeOK, tracked
    <2>2. CASE MarkChanged
      BY <2>2, WorkflowsAssumption DEF IInv, TypeOK, MarkChanged
    <2> QED BY <2>1, <2>2 DEF FinishSpeechCheck
  <1>2. /\ book' \in Books /\ book'.identified = book.identified
        /\ IsRunning(book', "Transcribe") = IsRunning(book, "Transcribe")
        /\ IsRunning(book', "Identify") = IsRunning(book, "Identify")
        /\ (IsRunning(book', "Mixdown") => mix'.run) /\ mix' \in {NoRun} \cup MixRuns
        /\ (mix.run => mix'.run /\ mix'.rev = mix.rev /\ (mix.changed \/ tracks' # tracks => mix'.changed))
        /\ (~mix.run /\ mix'.run => mix'.rev = tracks')
    <2>1. CASE mix.run
      <3>1. mix \in MixRuns /\ mix' = [mix EXCEPT !.changed = @ \/ tracks' # tracks] /\ book' = book
        BY <2>1, MixMarked DEF IInv, FinishSpeechCheck
      <3> QED BY <3>1, <2>1 DEF IInv, TypeOK, JobsMatchWork, MixRuns
    <2>2. CASE ~mix.run /\ check = "thenMix"
      BY <1>1, <2>2, RegenerateResult DEF FinishSpeechCheck
    <2>3. CASE ~mix.run /\ check # "thenMix"
      BY <2>3 DEF IInv, TypeOK, JobsMatchWork, FinishSpeechCheck
    <2> QED BY <2>1, <2>2, <2>3
  <1>3. TypeOK'
    BY <1>1, <1>2 DEF IInv, TypeOK, FinishSpeechCheck, stages, transcript
  <1>4. JobsMatchWork'
    BY <1>1, <1>2, KindsAre DEF IInv, TypeOK, JobsMatchWork, StageHasJob, Identifying, InIdentifyStage,
        FinishSpeechCheck, stages, transcript
  <1>5. CleanUnlessRaced' /\ MixKnows'
    BY <1>1, <1>2 DEF IInv, TypeOK, CleanUnlessRaced, MixKnows
  <1> QED
    BY <1>3, <1>4, <1>5, <1>2 DEF IInv, NamesOfTranscript, IdentifiedIsCurrent, IdentifyStopped,
        ChainUnmarked, AudioIsCurrent, Identifying, FinishSpeechCheck, stages, transcript

LEMMA DiarizeSpeakersStep == ASSUME IInv, DiarizeSpeakers PROVE IInv'
  <1>1. IF diar' # diar THEN Is(book, book', "Transcribe", TRUE) ELSE Is(book, book', "Transcribe", FALSE)
    <2>1. Is(book, Begin(book, "Transcribe"), "Transcribe", TRUE)
      BY BeginBook, KindsAre DEF IInv, TypeOK
    <2>2. Is(Begin(book, "Transcribe"), CancelledJob(Begin(book, "Transcribe"), "Transcribe"),
             "Transcribe", FALSE)
      BY <2>1, CancelledBook, KindsAre DEF Is
    <2>3. Is(book, CancelledJob(Begin(book, "Transcribe"), "Transcribe"), "Transcribe", FALSE)
      BY <2>1, <2>2 DEF Is
    <2> QED BY <2>1, <2>3 DEF DiarizeSpeakers
  <1>2. TypeOK'
    BY <1>1 DEF IInv, TypeOK, DiarizeSpeakers, tracked, transcript, Is
  <1>3. JobsMatchWork'
    BY <1>1, KindsAre DEF IInv, TypeOK, JobsMatchWork, StageHasJob, Identifying, InIdentifyStage,
        DiarizeSpeakers, tracked, transcript, Is
  <1> QED
    BY <1>2, <1>3, <1>1, KindsAre
        DEF IInv, TypeOK, JobsMatchWork, StageHasJob, Identifying, InIdentifyStage,
        NamesOfTranscript, IdentifiedIsCurrent, IdentifyStopped, ChainUnmarked, AudioIsCurrent,
        CleanUnlessRaced, MixKnows,
        DiarizeSpeakers, tracked, transcript, Is

LEMMA DiarUnchangedStep == ASSUME IInv, DiarUnchanged PROVE IInv'
  <1>1. ChainEnds(book, gen, names) \/ NamingRuns(book, gen, names)
    <2>1. CASE manual
      <3>1. Is(book, book', "Transcribe", FALSE)
        BY <2>1, FinishBook, KindsAre DEF IInv, TypeOK, DiarUnchanged
      <3> QED BY <2>1, <3>1 DEF DiarUnchanged, ChainEnds, Is
    <2>2. CASE ~manual
      BY <2>2, ContinueResult DEF IInv, TypeOK, DiarUnchanged
    <2> QED BY <2>1, <2>2
  <1>2. ident' \in {NoRun} \cup IdentRuns /\ covered' \in 0 .. MaxGen /\ names' \in 0 .. MaxGen /\ book' \in Books
    <2>1. gen > 0 => gen \in 1 .. MaxGen
      BY WorkflowsAssumption DEF IInv, TypeOK
    <2> QED BY <1>1, <2>1, NewIdentifyType DEF IInv, TypeOK, ChainEnds, NamingRuns
  <1>3. TypeOK'
    BY <1>2 DEF IInv, TypeOK, DiarUnchanged, tracked, transcript
  <1>4. JobsMatchWork'
    BY <1>1, WorkflowsAssumption, KindsAre
        DEF IInv, TypeOK, JobsMatchWork, StageHasJob, Identifying, InIdentifyStage,
        DiarUnchanged, ChainEnds, NamingRuns, IdentRuns, tracked, transcript
  <1> QED
    BY <1>3, <1>4, <1>1, WorkflowsAssumption, KindsAre
        DEF IInv, TypeOK, JobsMatchWork, StageHasJob, Identifying, InIdentifyStage,
        NamesOfTranscript, IdentifiedIsCurrent, IdentifyStopped, ChainUnmarked, AudioIsCurrent,
        CleanUnlessRaced, MixKnows,
        DiarUnchanged, ChainEnds, NamingRuns, IdentRuns, tracked, transcript

LEMMA DiarAppliedStep == ASSUME IInv, DiarApplied PROVE IInv'
  <1> DEFINE b == MarkDropped
  <1>1. b \in Books /\ ~b.identified /\ \A j \in Kinds : IsRunning(b, j) = IsRunning(book, j)
    BY MarkBook DEF MarkDropped, IInv, TypeOK, ChainUnmarked, DiarApplied
  <1>2. ChainEnds(b, gen', 0) \/ NamingRuns(b, gen', 0)
    BY <1>1, ContinueResult DEF DiarApplied
  <1> HIDE DEF b
  <1>3. gen' \in 1 .. MaxGen
    BY WorkflowsAssumption DEF IInv, TypeOK, DiarApplied
  <1>4. [run |-> TRUE, stamp |-> gen', stage |-> TRUE, cancelled |-> FALSE] \in IdentRuns
    BY <1>3 DEF IdentRuns
  <1>5. ident' \in {NoRun} \cup IdentRuns /\ covered' \in 0 .. MaxGen /\ names' \in 0 .. MaxGen /\ book' \in Books
    <2>1. CASE ChainEnds(b, gen', 0)
      BY <1>2, <1>3, <2>1, WorkflowsAssumption DEF IInv, TypeOK, ChainEnds
    <2>2. CASE NamingRuns(b, gen', 0)
      BY <1>1, <1>2, <1>4, <1>3, <2>2, WorkflowsAssumption DEF IInv, TypeOK, NamingRuns
    <2> QED BY <1>2, <2>1, <2>2
  <1>6. diar' = "none" /\ manual' = FALSE /\ speakers' = "local"
        /\ UNCHANGED <<tracks, mixFile, dirty, missed, mix, wait, clear, stt, posted, check>>
    BY DEF DiarApplied, tracked
  <1>7. gen' \in 0 .. MaxGen
    BY <1>3, WorkflowsAssumption
  <1>8. TypeOK'
    BY <1>7, <1>6, <1>5 DEF IInv, TypeOK
  <1>9. JobsMatchWork'
    BY <1>1, <1>2, WorkflowsAssumption, KindsAre
        DEF IInv, TypeOK, JobsMatchWork, StageHasJob, Identifying, InIdentifyStage,
        DiarApplied, ChainEnds, NamingRuns, IdentRuns, tracked
  <1> QED
    BY <1>8, <1>9, <1>1, <1>2, WorkflowsAssumption, KindsAre
        DEF IInv, TypeOK, JobsMatchWork, StageHasJob, Identifying, InIdentifyStage,
        NamesOfTranscript, IdentifiedIsCurrent, IdentifyStopped, ChainUnmarked, AudioIsCurrent,
        CleanUnlessRaced, MixKnows,
        DiarApplied, ChainEnds, NamingRuns, IdentRuns, tracked

LEMMA SttDoneStep == ASSUME IInv, SttDone PROVE IInv'
  <1> DEFINE b == MarkIdentified(book, FALSE)
             n == NamesAfterStt
  <1>1. b \in Books /\ ~b.identified /\ \A j \in Kinds : IsRunning(b, j) = IsRunning(book, j)
    BY MarkBook DEF IInv, TypeOK
  <1>2. n = 0
    BY DEF NamesAfterStt, IInv, TypeOK, NamesOfTranscript
  <1>3. \/ /\ diar = "none" /\ diar' = "live" /\ book' = b /\ names' = n /\ UNCHANGED <<ident, covered>>
        \/ diar' = diar /\ (ChainEnds(b, gen', n) \/ NamingRuns(b, gen', n))
    BY <1>1, ContinueResult DEF SttDone
  <1> HIDE DEF b, n
  <1>4. gen' \in 1 .. MaxGen
    BY WorkflowsAssumption DEF IInv, TypeOK, SttDone
  <1>5. [run |-> TRUE, stamp |-> gen', stage |-> TRUE, cancelled |-> FALSE] \in IdentRuns
    BY <1>4 DEF IdentRuns
  <1>6. ident' \in {NoRun} \cup IdentRuns /\ covered' \in 0 .. MaxGen /\ names' \in 0 .. MaxGen /\ book' \in Books
    <2>1. CASE ChainEnds(b, gen', n)
      BY <1>2, <1>4, <2>1, WorkflowsAssumption DEF IInv, TypeOK, ChainEnds
    <2>2. CASE NamingRuns(b, gen', n)
      BY <1>1, <1>2, <1>5, <1>4, <2>2, WorkflowsAssumption DEF IInv, TypeOK, NamingRuns
    <2>3. CASE book' = b /\ names' = n /\ UNCHANGED <<ident, covered>>
      BY <1>1, <1>2, <1>4, <2>3, WorkflowsAssumption DEF IInv, TypeOK
    <2> QED BY <1>3, <2>1, <2>2, <2>3
  <1>7. TypeOK'
    BY <1>6, <1>4, <1>3, WorkflowsAssumption DEF IInv, TypeOK, SttDone, tracked, NoRun
  <1>8. JobsMatchWork'
    BY <1>1, <1>2, <1>3, WorkflowsAssumption, KindsAre
        DEF IInv, TypeOK, JobsMatchWork, StageHasJob, Identifying, InIdentifyStage,
        SttDone, ChainEnds, NamingRuns, IdentRuns, NoRun, tracked
  <1> QED
    BY <1>7, <1>8, <1>1, <1>2, <1>3, WorkflowsAssumption, KindsAre
        DEF IInv, TypeOK, JobsMatchWork, StageHasJob, Identifying, InIdentifyStage,
        NamesOfTranscript, IdentifiedIsCurrent, IdentifyStopped, ChainUnmarked, AudioIsCurrent,
        CleanUnlessRaced, MixKnows,
        SttDone, ChainEnds, NamingRuns, IdentRuns, NoRun, tracked

LEMMA DiarCancelDeliveredStep == ASSUME IInv, DiarCancelDelivered PROVE IInv'
  <1>1. diar # "none" => Is(book, book', "Transcribe", FALSE)
    BY CancelledBook, KindsAre DEF IInv, TypeOK, DiarCancelDelivered, ClosesCancelled
  <1>2. posted' \in 0 .. MaxPosted
    BY WorkflowsAssumption DEF IInv, TypeOK, DiarCancelDelivered
  <1>3. book' \in Books /\ diar' = "none" /\ manual' \in BOOLEAN /\ UNCHANGED <<ident, names, covered>>
    BY <1>1 DEF IInv, TypeOK, DiarCancelDelivered, ClosesCancelled, Is
  <1>4. TypeOK'
    BY <1>3, <1>2 DEF IInv, TypeOK, DiarCancelDelivered, tracked, transcript
  <1>5. JobsMatchWork'
    BY <1>1, WorkflowsAssumption, KindsAre
        DEF IInv, TypeOK, JobsMatchWork, StageHasJob, Identifying, InIdentifyStage,
        DiarCancelDelivered, ClosesCancelled, Is, tracked, transcript
  <1> QED
    BY <1>4, <1>5, <1>1, WorkflowsAssumption, KindsAre
        DEF IInv, TypeOK, JobsMatchWork, StageHasJob, Identifying, InIdentifyStage,
        NamesOfTranscript, IdentifiedIsCurrent, IdentifyStopped, ChainUnmarked, AudioIsCurrent,
        CleanUnlessRaced, MixKnows,
        DiarCancelDelivered, ClosesCancelled, Is, tracked, transcript

LEMMA IdentifyStep == ASSUME IInv, Identify PROVE IInv'
  <1>1. ~ident.run /\ gen \in 1 .. MaxGen
    BY WorkflowsAssumption DEF IInv, TypeOK, Identify, StartIdentify
  <1>2. \/ /\ UNCHANGED ident /\ covered' = gen /\ book' \in Books
           /\ \A j \in Kinds : IsRunning(book', j) = IsRunning(book, j)
        \/ /\ ident' = [run |-> TRUE, stamp |-> gen, stage |-> FALSE, cancelled |-> FALSE]
           /\ UNCHANGED covered /\ Is(book, book', "Identify", TRUE)
    <2>1. CASE UNCHANGED ident /\ covered' = gen /\ book' = MarkIdentified(book, TRUE)
      BY <2>1, MarkBook DEF IInv, TypeOK
    <2>2. CASE /\ ident' = [run |-> TRUE, stamp |-> gen, stage |-> FALSE, cancelled |-> FALSE]
               /\ UNCHANGED covered /\ book' = Begin(book, "Identify")
      BY <2>2, BeginBook, KindsAre DEF IInv, TypeOK
    <2> QED BY <2>1, <2>2 DEF Identify, StartIdentify
  <1>3. ident' \in {NoRun} \cup IdentRuns
    BY <1>1, <1>2, NewIdentifyType DEF IInv, TypeOK
  <1>4. TypeOK'
    BY <1>1, <1>2, <1>3 DEF IInv, TypeOK, Identify, Is, tracked, transcript
  <1>5. JobsMatchWork'
    BY <1>1, <1>2, KindsAre DEF IInv, TypeOK, JobsMatchWork, StageHasJob, Identifying, InIdentifyStage,
        Identify, Is, tracked, transcript
  <1> QED
    BY <1>4, <1>5, <1>1, <1>2, KindsAre
        DEF IInv, TypeOK, JobsMatchWork, StageHasJob, Identifying, InIdentifyStage,
        NamesOfTranscript, IdentifiedIsCurrent, IdentifyStopped, ChainUnmarked, AudioIsCurrent,
        CleanUnlessRaced, MixKnows,
        Identify, Is, tracked, transcript

LEMMA IdentEndsStep == ASSUME IInv, IdentEnds PROVE IInv'
  <1> DEFINE whole == ~ident.cancelled /\ ~Stale
             b == IF whole THEN MarkIdentified(book, TRUE) ELSE book
  <1>1. ident \in IdentRuns
    BY IdentifyMarked DEF IInv, IdentEnds
  <1>2. /\ b \in Books /\ b.identified = (whole \/ book.identified)
        /\ \A j \in Kinds : IsRunning(b, j) = IsRunning(book, j)
    BY MarkBook DEF IInv, TypeOK, Books
  <1>3. Is(b, book', IF ident.stage THEN "Transcribe" ELSE "Identify", FALSE)
    BY <1>2, FinishBook, CancelledBook, KindsAre DEF IdentEnds
  <1>4. covered' = IF whole THEN ident.stamp ELSE covered
    BY DEF IdentEnds
  <1>5. whole => ident.stamp = gen
    BY DEF Stale
  <1>6. names' \in {names, ident.stamp} /\ (names' # names => names' = gen)
    BY DEF IdentEnds, Stale
  <1> HIDE DEF whole, b
  <1>7. covered' \in 0 .. MaxGen /\ names' \in 0 .. MaxGen
    BY <1>1, <1>4, <1>6, WorkflowsAssumption DEF IInv, TypeOK, IdentRuns
  <1>8. TypeOK'
    BY <1>3, <1>7 DEF IInv, TypeOK, Is, IdentEnds, tracked, transcript
  <1>9. JobsMatchWork'
    BY <1>2, <1>3, KindsAre DEF IInv, TypeOK, JobsMatchWork, StageHasJob, Identifying, InIdentifyStage,
        IdentEnds, Is, NoRun, tracked, transcript
  <1>10. ChainUnmarked'
    <2>1. CASE whole
      <3>1. whole => ~ident.cancelled
        BY DEF whole
      <3>2. diar' = "none" \/ manual'
        BY <1>1, <2>1, <3>1 DEF IInv, IdentEnds, IdentifyStopped, JobsMatchWork, StageHasJob, Identifying,
            InIdentifyStage
      <3> QED BY <3>2 DEF ChainUnmarked
    <2>2. CASE ~whole
      BY <1>2, <1>3, <2>2 DEF IInv, IdentEnds, ChainUnmarked, Is
    <2> QED BY <2>1, <2>2
  <1>11. IdentifiedIsCurrent'
    BY <1>2, <1>3, <1>4, <1>5 DEF IInv, IdentEnds, IdentifiedIsCurrent, Is, transcript
  <1> QED
    BY <1>8, <1>9, <1>10, <1>11, <1>6 DEF IInv, NamesOfTranscript, IdentifyStopped, AudioIsCurrent,
        CleanUnlessRaced, MixKnows, Identifying, IdentEnds, NoRun, tracked, transcript

LEMMA MixEndsStep == ASSUME IInv, MixEnds PROVE IInv'
  <1>1. PICK exit \in BOOLEAN :
          /\ IF Succeeds(exit) THEN mixFile' = mix.rev /\ dirty' = FALSE /\ missed' = mix.changed
                               ELSE UNCHANGED <<mixFile, dirty, missed>>
          /\ Announce(MixClosed(book, Succeeds(exit)), Succeeds(exit))
    BY DEF MixEnds
  <1> DEFINE ok == Succeeds(exit)
             b == MixClosed(book, ok)
  <1>2. mix \in MixRuns /\ mix' = NoRun
    BY MixMarked DEF IInv, MixEnds
  <1>3. Is(book, b, "Mixdown", FALSE)
    <2>1. CASE ~IsRunning(book, "Mixdown")
      BY <2>1 DEF MixClosed, IInv, TypeOK, Is
    <2>2. CASE IsRunning(book, "Mixdown")
      BY <2>2, FinishBook, CancelledBook, FailBook, KindsAre DEF MixClosed, IInv, TypeOK
    <2> QED BY <2>1, <2>2
  <1>4. ok \in BOOLEAN
    BY DEF Succeeds
  <1> HIDE DEF ok, b
  <1>5. \/ wait = "none" /\ book' = b /\ UNCHANGED <<wait, clear, stt>>
        \/ /\ wait # "none" /\ wait' = "none" /\ clear' = FALSE
           /\ \/ Is(b, book', "Transcribe", FALSE) /\ stt' \in {stt, NoRun}
              \/ /\ book' = b
                 /\ stt' = [run |-> TRUE, clear |-> clear, audio |-> mix.rev, want |-> tracks,
                            raced |-> mix.changed]
    <2>1. b \in Books
      BY <1>3 DEF Is
    <2>2. Is(b, FailJob(b, "Transcribe"), "Transcribe", FALSE)
      BY <2>1, FailBook, KindsAre
    <2>3. Announce(b, ok)
      BY <1>1 DEF b, ok
    <2> QED BY <2>1, <2>2, <2>3, StartSttResult DEF Announce
  <1>6. [run |-> TRUE, clear |-> clear, audio |-> mix.rev, want |-> tracks, raced |-> mix.changed]
          \in SttRuns
    BY <1>2, WorkflowsAssumption DEF IInv, TypeOK, MixRuns, SttRuns
  <1>7. /\ mixFile' \in 0 .. MaxTracks /\ dirty' \in BOOLEAN /\ missed' \in BOOLEAN /\ book' \in Books
        /\ stt' \in {NoRun} \cup SttRuns
    <2>1. mix.rev \in 0 .. MaxTracks /\ mix.changed \in BOOLEAN
      BY <1>2, WorkflowsAssumption DEF MixRuns
    <2>2. mixFile' \in 0 .. MaxTracks /\ dirty' \in BOOLEAN /\ missed' \in BOOLEAN
      BY <1>1, <2>1 DEF IInv, TypeOK
    <2> QED BY <1>3, <1>5, <1>6, <2>2 DEF IInv, TypeOK, Is
  <1>8. TypeOK'
    BY <1>2, <1>5, <1>7 DEF IInv, TypeOK, MixEnds, transcript
  <1>9. JobsMatchWork'
    BY <1>2, <1>3, <1>5, KindsAre
        DEF IInv, TypeOK, JobsMatchWork, StageHasJob, Identifying, InIdentifyStage,
        MixEnds, Is, NoRun, transcript
  <1>10. AudioIsCurrent'
    <2>1. CASE stt' \in {stt, NoRun}
      BY <2>1 DEF IInv, MixEnds, AudioIsCurrent, NoRun
    <2>2. CASE stt' = [run |-> TRUE, clear |-> clear, audio |-> mix.rev, want |-> tracks,
                       raced |-> mix.changed]
      <3>1. mix.rev # tracks => mix.changed
        BY DEF IInv, MixKnows, MixEnds
      <3>2. stt'.audio = mix.rev /\ stt'.want = tracks /\ stt'.raced = mix.changed
        BY <2>2
      <3> QED BY <3>1, <3>2 DEF AudioIsCurrent
    <2> QED BY <1>5, <2>1, <2>2
  <1>11. IdentifyStopped'
    BY <1>2, <1>5 DEF IInv, MixEnds, IdentifyStopped, Identifying, NoRun
  <1>12. CleanUnlessRaced' /\ MixKnows'
    BY <1>1, <1>2 DEF IInv, MixEnds, CleanUnlessRaced, MixKnows, NoRun
  <1> QED
    BY <1>8, <1>9, <1>10, <1>12, <1>11, <1>3, <1>5
        DEF IInv, MixEnds, NamesOfTranscript, IdentifiedIsCurrent,
        ChainUnmarked, Is, transcript

LEMMA TranscribeStep ==
  ASSUME IInv, NEW anew \in BOOLEAN, Transcribe(anew) PROVE IInv'
  <1> DEFINE b == Begin(BookStopIdentify, "Transcribe")
  <1>1. /\ b \in Books /\ b.identified = book.identified /\ IsRunning(b, "Transcribe")
        /\ IsRunning(b, "Identify") = IsRunning(book, "Identify")
        /\ IsRunning(b, "Mixdown") = IsRunning(book, "Mixdown")
    <2>1. Is(book, BookStopIdentify, "Identify", IsRunning(book, "Identify"))
      BY CancellingBook, KindsAre DEF IInv, TypeOK, BookStopIdentify, Is
    <2>2. Is(BookStopIdentify, b, "Transcribe", TRUE)
      BY <2>1, BeginBook, KindsAre DEF Is
    <2> QED BY <2>1, <2>2, KindsAre DEF Is
  <1>2. /\ ident' \in {NoRun} \cup IdentRuns /\ ident'.run = ident.run /\ ident'.stage = ident.stage
        /\ Identifying => ident'.cancelled
        /\ ~Identifying => ident' = ident
    BY IdentifyMarked DEF IInv, TypeOK, Transcribe, Identifying
  <1>3. ~IsRunning(book, "Transcribe") /\ wait = "none" /\ ~stt.run /\ diar = "none" /\ ~InIdentifyStage
    BY DEF IInv, JobsMatchWork, StageHasJob, Transcribe
  <1>4. \/ /\ mix.run /\ wait' = "waits" /\ clear' = anew /\ book' = b /\ UNCHANGED <<mix, stt>>
        \/ /\ wait' = "owns" /\ clear' = anew /\ book' = b /\ mix' = NewMix(tracks) /\ UNCHANGED stt
        \/ /\ Is(b, book', "Transcribe", FALSE) /\ stt' \in {stt, NoRun} /\ UNCHANGED <<wait, clear, mix>>
        \/ /\ ~NeedMix /\ book' = b /\ UNCHANGED <<wait, clear, mix>>
           /\ stt' = [run |-> TRUE, clear |-> anew, audio |-> mixFile, want |-> tracks, raced |-> missed]
    <2>1. Is(b, FailJob(b, "Transcribe"), "Transcribe", FALSE)
      BY <1>1, FailBook, KindsAre
    <2> QED BY <1>1, <2>1, StartSttResult DEF Transcribe
  <1> HIDE DEF b
  <1>5. UNCHANGED <<tracked, diar, posted, manual, transcript, names, check, covered>>
    BY DEF Transcribe
  <1>6. /\ [run |-> TRUE, clear |-> anew, audio |-> mixFile, want |-> tracks, raced |-> missed] \in SttRuns
        /\ NewMix(tracks) \in MixRuns
    BY WorkflowsAssumption DEF IInv, TypeOK, SttRuns, NewMix, MixRuns
  <1>7. book' \in Books /\ stt' \in {NoRun} \cup SttRuns /\ mix' \in {NoRun} \cup MixRuns
    BY <1>1, <1>4, <1>6 DEF IInv, TypeOK, Is
  <1>8. TypeOK'
    BY <1>2, <1>4, <1>5, <1>7 DEF IInv, TypeOK, tracked, transcript
  <1>9. JobsMatchWork'
    BY <1>1, <1>2, <1>3, <1>4, <1>5, KindsAre
        DEF IInv, TypeOK, JobsMatchWork, StageHasJob, Identifying, InIdentifyStage,
        Is, NoRun, NewMix
  <1>10. AudioIsCurrent'
    <2>1. CASE stt' \in {stt, NoRun}
      BY <2>1 DEF IInv, AudioIsCurrent, NoRun
    <2>2. CASE /\ ~NeedMix
               /\ stt' = [run |-> TRUE, clear |-> anew, audio |-> mixFile, want |-> tracks, raced |-> missed]
      <3>1. mixFile # tracks => missed
        BY <2>2 DEF IInv, CleanUnlessRaced, NeedMix
      <3>2. stt'.audio = mixFile /\ stt'.want = tracks /\ stt'.raced = missed
        BY <2>2
      <3> QED BY <3>1, <3>2 DEF AudioIsCurrent
    <2> QED BY <1>4, <2>1, <2>2
  <1>11. MixKnows' /\ CleanUnlessRaced'
    <2>0. NewMix(tracks).rev = tracks
      BY DEF NewMix
    <2>1. mix' = mix \/ mix'.rev = tracks
      BY <1>4, <2>0
    <2>2. UNCHANGED <<tracks, mixFile, dirty, missed>>
      BY <1>5 DEF tracked
    <2>3. MixKnows'
      BY <2>1, <2>2 DEF IInv, MixKnows
    <2> QED BY <2>2, <2>3 DEF IInv, CleanUnlessRaced
  <1>12. IdentifyStopped'
    BY <1>2, <1>3, <1>4, <1>5 DEF IInv, IdentifyStopped, Identifying
  <1> QED
    BY <1>8, <1>9, <1>10, <1>11, <1>12, <1>1, <1>4, <1>5 DEF IInv, NamesOfTranscript, IdentifiedIsCurrent,
        ChainUnmarked, Is, transcript

LEMMA CancelTranscribeStep == ASSUME IInv, CancelTranscribe PROVE IInv'
  BY CancelDiarizationStep, CancelMixWaitStep, CancelSttStep, CancelIdentifyStageStep DEF CancelTranscribe

LEMMA InitIInv == ASSUME Init PROVE IInv
  <1>1. 1 \in 1 .. MaxTracks /\ 0 \in 0 .. MaxTracks /\ 0 \in 0 .. MaxPosted /\ 0 \in 0 .. MaxGen
    BY WorkflowsAssumption
  <1>2. TypeOK
    BY <1>1, FirstBook DEF Init, TypeOK
  <1> QED
    BY <1>2, FirstBook, KindsAre DEF Init, IInv, JobsMatchWork, StageHasJob, Identifying, InIdentifyStage,
        NamesOfTranscript, IdentifiedIsCurrent, IdentifyStopped, ChainUnmarked, AudioIsCurrent,
        CleanUnlessRaced, MixKnows, NoRun

LEMMA NextIInv == ASSUME IInv, [Next]_vars PROVE IInv'
  BY RegenerateMixdownStep, ChangeTracksStep, StartSpeechCheckStep, FinishSpeechCheckStep, MixEndsStep,
     TranscribeStep, SttDoneStep, SttFailsStep, DiarizeSpeakersStep, DiarAppliedStep, DiarUnchangedStep,
     DiarCancelDeliveredStep, IdentifyStep, IdentEndsStep, NameSpeakersStep, CancelTranscribeStep,
     CancelMixdownStep, CancelIdentifyStep, StutterStep DEF Next

LEMMA Inductive == Spec => []IInv
  BY InitIInv, NextIInv, PTL DEF Spec

----------------------------------------------------------------------------

\* In every reachable state the members of the services have their types.
THEOREM TypeCorrect == Spec => []TypeOK
  <1>1. IInv => TypeOK
    BY DEF IInv
  <1> QED BY <1>1, Inductive, PTL

\* MeetingJobTracker and the services agree after every handler: a listed job is worked on and
\* work that is done is listed, for every number of transcripts, track changes and posted calls.
THEOREM JobsMatchWorkHolds == Spec => []JobsMatchWork
  <1>1. IInv => JobsMatchWork
    BY DEF IInv
  <1> QED BY <1>1, Inductive, PTL

\* No name of an older transcript lands on a newer one (the stamp of applyIdentification, the
\* cleared names of the transcription).
THEOREM NamesOfTranscriptHolds == Spec => []NamesOfTranscript
  <1>1. IInv => NamesOfTranscript
    BY DEF IInv
  <1> QED BY <1>1, Inductive, PTL

\* The mark "identified" is about the transcript on disk.
THEOREM IdentifiedIsCurrentHolds == Spec => []IdentifiedIsCurrent
  <1>1. IInv => IdentifiedIsCurrent
    BY DEF IInv
  <1> QED BY <1>1, Inductive, PTL

\* A transcription hears other tracks than the active ones only if they changed under the mix.
THEOREM AudioIsCurrentHolds == Spec => []AudioIsCurrent
  <1>1. IInv => AudioIsCurrent
    BY DEF IInv
  <1> QED BY <1>1, Inductive, PTL

\* A mix made of other tracks and not marked out of date comes from the same race only.
THEOREM CleanUnlessRacedHolds == Spec => []CleanUnlessRaced
  <1>1. IInv => CleanUnlessRaced
    BY DEF IInv
  <1> QED BY <1>1, Inductive, PTL
----------------------------------------------------------------------------
(* A cancelled transcription: what the action property CancelStopsChain needs beyond IInv *)

\* A cancel leaves the job open only for a separation, which is dead then, or for the naming thread.
CancelKnown == book.job["Transcribe"] = "cancelling" => diar = "dead" \/ InIdentifyStage

\* The step that CancelStopsChain allows after a cancel.
StopsChain ==
    book.job["Transcribe"] = "cancelling" =>
        /\ wait' # "none" => wait # "none"
        /\ stt'.run => stt.run
        /\ diar' # "none" => diar # "none"
        /\ ident'.run => ident.run
        /\ "Transcribe" \in book'.errors => "Transcribe" \in book.errors

\* Book c has the Transcribe job and the Transcribe error of book b.
SameTranscribe(b, c) ==
    c.job["Transcribe"] = b.job["Transcribe"] /\ ("Transcribe" \in c.errors <=> "Transcribe" \in b.errors)

\* Book c has no Transcribe job, and an error of it only if book b had.
NoTranscribe(b, c) ==
    c.job["Transcribe"] = "none" /\ ("Transcribe" \in c.errors => "Transcribe" \in b.errors)

LEMMA OtherKind ==
  ASSUME NEW b \in Books, NEW k \in {"Mixdown", "Identify"}
  PROVE  /\ SameTranscribe(b, Begin(b, k)) /\ SameTranscribe(b, SetCancelling(b, k))
         /\ SameTranscribe(b, FinishJob(b, k)) /\ SameTranscribe(b, FailJob(b, k))
         /\ SameTranscribe(b, CancelledJob(b, k))
  BY DEF SameTranscribe, Begin, SetCancelling, FinishJob, FailJob, CancelledJob, CloseJob, Books, Kinds

LEMMA MarkKind ==
  ASSUME NEW b \in Books, NEW yes
  PROVE  SameTranscribe(b, MarkIdentified(b, yes))
  BY DEF SameTranscribe, MarkIdentified, Books

LEMMA TranscribeKind ==
  ASSUME NEW b \in Books
  PROVE  /\ Begin(b, "Transcribe").job["Transcribe"] = "running"
         /\ NoTranscribe(b, FinishJob(b, "Transcribe")) /\ NoTranscribe(b, CancelledJob(b, "Transcribe"))
         /\ FailJob(b, "Transcribe").job["Transcribe"] = "none"
  BY DEF NoTranscribe, Begin, FinishJob, FailJob, CancelledJob, CloseJob, Books, Kinds

\* Under a cancelled job there is nothing left but the stage that will close it.
LEMMA CancelledStage ==
  ASSUME IInv, CancelKnown, book.job["Transcribe"] = "cancelling"
  PROVE  /\ wait = "none" /\ ~stt.run /\ IsRunning(book, "Transcribe")
         /\ diar # "live"
  BY DEF IInv, CancelKnown, JobsMatchWork, StageHasJob, IsRunning

\* What every step is shown to do: the book is not cancelled by it, or the stage is known.
CancelStep == CancelKnown' /\ StopsChain

\* A step that leaves the chain alone and touches other jobs of the book at most.
LEMMA AsideStep ==
  ASSUME IInv, CancelKnown, SameTranscribe(book, book'), UNCHANGED <<wait, stt, diar, ident>>
  PROVE  CancelStep
  BY DEF CancelStep, CancelKnown, StopsChain, SameTranscribe, InIdentifyStage

\* A step that closes the job, at most to let the naming thread run.
LEMMA ClosingStep ==
  ASSUME IInv, CancelKnown, NoTranscribe(book, book'),
         wait' # "none" => wait # "none", stt'.run => stt.run,
         diar' # "none" => diar # "none", ident'.run => ident.run
  PROVE  CancelStep
  BY DEF CancelStep, CancelKnown, StopsChain, NoTranscribe

\* A step that was not taken under a cancelled job and does not cancel.
LEMMA FreshStep ==
  ASSUME book.job["Transcribe"] # "cancelling", book'.job["Transcribe"] # "cancelling"
  PROVE  CancelStep
  BY DEF CancelStep, CancelKnown, StopsChain

LEMMA RegenerateAside ==
  ASSUME IInv, NEW rev, Regenerate(rev) PROVE SameTranscribe(book, book')
  BY OtherKind DEF IInv, TypeOK, Regenerate, SameTranscribe

LEMMA MixCancelStep ==
  ASSUME IInv, CancelKnown,
         RegenerateMixdown \/ ChangeTracks \/ StartSpeechCheck \/ FinishSpeechCheck \/ CancelMixdown
           \/ NameSpeakers
  PROVE  CancelStep
  <1>1. UNCHANGED <<wait, stt, diar, ident>>
    BY DEF RegenerateMixdown, ChangeTracks, StartSpeechCheck, FinishSpeechCheck, CancelMixdown,
        NameSpeakers, stages
  <1>2. SameTranscribe(book, book')
    <2>1. CASE book' = book
      BY <2>1 DEF SameTranscribe
    <2>2. CASE book' = SetCancelling(book, "Mixdown")
      BY <2>2, OtherKind DEF IInv, TypeOK
    <2>3. CASE \E rev : Regenerate(rev)
      BY <2>3, RegenerateAside
    <2> QED
      BY <2>1, <2>2, <2>3 DEF RegenerateMixdown, ChangeTracks, StartSpeechCheck, FinishSpeechCheck,
          CancelMixdown, NameSpeakers
  <1> QED BY <1>1, <1>2, AsideStep

LEMMA MixEndsCancelStep == ASSUME IInv, CancelKnown, MixEnds PROVE CancelStep
  <1>1. PICK exit \in BOOLEAN : Announce(MixClosed(book, Succeeds(exit)), Succeeds(exit))
    BY DEF MixEnds
  <1> DEFINE b == MixClosed(book, Succeeds(exit))
  <1>2. b \in Books /\ SameTranscribe(book, b)
    BY OtherKind, FinishBook, FailBook, CancelledBook, KindsAre
        DEF IInv, TypeOK, MixClosed, SameTranscribe, Is
  <1>3. CASE wait = "none"
    <2>1. book' = b /\ UNCHANGED <<wait, stt, diar, ident>>
      BY <1>1, <1>3 DEF Announce, MixEnds
    <2> QED BY <2>1, <1>2, AsideStep
  <1>4. CASE wait # "none"
    <2>1. book.job["Transcribe"] # "cancelling"
      BY <1>4, CancelledStage
    <2>2. b.job["Transcribe"] # "cancelling"
      BY <2>1, <1>2 DEF SameTranscribe
    <2>3. book' = b \/ book' = FailJob(b, "Transcribe")
      BY <1>1, <1>4 DEF Announce, StartStt
    <2> QED BY <2>1, <2>2, <2>3, <1>2, TranscribeKind, FreshStep
  <1> QED BY <1>3, <1>4

LEMMA TranscribeCancelStep ==
  ASSUME IInv, CancelKnown, NEW anew \in BOOLEAN, Transcribe(anew) PROVE CancelStep
  <1> DEFINE b == Begin(BookStopIdentify, "Transcribe")
  <1>1. book.job["Transcribe"] # "cancelling"
    BY DEF Transcribe, IsRunning
  <1>2. BookStopIdentify \in Books
    BY CancellingBook, KindsAre DEF IInv, TypeOK, BookStopIdentify, Is
  <1>3. b \in Books /\ b.job["Transcribe"] = "running"
    BY <1>2, BeginBook, TranscribeKind, KindsAre DEF Is
  <1>4. book' = b \/ book' = FailJob(b, "Transcribe")
    BY DEF Transcribe, StartStt
  <1> HIDE DEF b
  <1>5. book'.job["Transcribe"] # "cancelling"
    BY <1>3, <1>4, TranscribeKind
  <1> QED BY <1>1, <1>5, FreshStep

\* The end of the chain closes the job or lets the naming thread run under the same job.
LEMMA ContinueCancel ==
  ASSUME NEW b \in Books, NEW g, NEW n, Continue(b, g, n)
  PROVE  NoTranscribe(b, book') \/ book' = b
  <1>1. MarkIdentified(b, TRUE) \in Books /\ SameTranscribe(b, MarkIdentified(b, TRUE))
    BY MarkBook, MarkKind
  <1> QED BY <1>1, TranscribeKind DEF Continue, StartIdentify, NoTranscribe, SameTranscribe

LEMMA ChainCancelStep ==
  ASSUME IInv, CancelKnown, SttDone \/ SttFails \/ DiarApplied \/ DiarUnchanged \/ DiarizeSpeakers
  PROVE  CancelStep
  <1>1. book.job["Transcribe"] # "cancelling"
    BY CancelledStage DEF SttDone, SttFails, DiarApplied, DiarUnchanged, DiarizeSpeakers
  <1>2. \A b \in Books : b.job["Transcribe"] # "cancelling" =>
          MarkIdentified(b, FALSE) \in Books
          /\ MarkIdentified(b, FALSE).job["Transcribe"] # "cancelling"
    BY MarkBook, MarkKind DEF SameTranscribe
  <1>3. book \in Books
    BY DEF IInv, TypeOK
  <1>4. CASE SttDone
    <2> DEFINE b == MarkIdentified(book, FALSE)
    <2>1. book' = b \/ Continue(b, gen', NamesAfterStt)
      BY <1>4 DEF SttDone
    <2> QED BY <1>1, <1>2, <1>3, <2>1, ContinueCancel, FreshStep DEF NoTranscribe
  <1>5. CASE SttFails
    BY <1>1, <1>3, <1>5, TranscribeKind, FreshStep DEF SttFails
  <1>6. CASE DiarApplied
    <2>1. MarkDropped \in Books /\ MarkDropped.job["Transcribe"] # "cancelling"
      BY <1>1, <1>2, <1>3 DEF MarkDropped
    <2>2. Continue(MarkDropped, gen', 0)
      BY <1>6 DEF DiarApplied
    <2> QED BY <1>1, <2>1, <2>2, ContinueCancel, FreshStep DEF NoTranscribe
  <1>7. CASE DiarUnchanged
    <2>1. book' = FinishJob(book, "Transcribe") \/ Continue(book, gen, names)
      BY <1>7 DEF DiarUnchanged
    <2> QED BY <1>1, <1>3, <2>1, ContinueCancel, TranscribeKind, FreshStep DEF NoTranscribe
  <1>8. CASE DiarizeSpeakers
    <2> DEFINE b == Begin(book, "Transcribe")
    <2>1. b \in Books /\ b.job["Transcribe"] = "running"
      BY <1>3, BeginBook, TranscribeKind, KindsAre DEF Is
    <2>2. book' = b \/ book' = CancelledJob(b, "Transcribe")
      BY <1>8 DEF DiarizeSpeakers
    <2> HIDE DEF b
    <2> QED BY <1>1, <2>1, <2>2, TranscribeKind, FreshStep DEF NoTranscribe
  <1> QED BY <1>4, <1>5, <1>6, <1>7, <1>8

LEMMA DeliveredCancelStep == ASSUME IInv, CancelKnown, DiarCancelDelivered PROVE CancelStep
  <1>1. book \in Books /\ UNCHANGED <<wait, stt, ident>>
    BY DEF IInv, TypeOK, DiarCancelDelivered, ClosesCancelled
  <1>2. CASE diar = "none"
    BY <1>1, <1>2, AsideStep DEF DiarCancelDelivered, SameTranscribe
  <1>3. CASE diar # "none"
    BY <1>1, <1>3, TranscribeKind, ClosingStep DEF DiarCancelDelivered, ClosesCancelled
  <1> QED BY <1>2, <1>3

LEMMA IdentifyCancelStep == ASSUME IInv, CancelKnown, Identify PROVE CancelStep
  <1>1. book.job["Transcribe"] = "none" /\ book \in Books
    BY DEF IInv, TypeOK, Identify, IsRunning
  <1>2. SameTranscribe(book, book')
    BY <1>1, OtherKind, MarkKind DEF Identify, StartIdentify
  <1> QED BY <1>1, <1>2, FreshStep DEF SameTranscribe

LEMMA IdentEndsCancelStep == ASSUME IInv, CancelKnown, IdentEnds PROVE CancelStep
  <1> DEFINE whole == ~ident.cancelled /\ ~Stale
             b == IF whole THEN MarkIdentified(book, TRUE) ELSE book
  <1>1. b \in Books /\ SameTranscribe(book, b)
    BY MarkBook, MarkKind DEF IInv, TypeOK, SameTranscribe
  <1>2. IF ident.stage THEN book' = FinishJob(b, "Transcribe")
        ELSE book' \in {FinishJob(b, "Identify"), CancelledJob(b, "Identify")}
    <2>1. CASE ident.stage
      BY <2>1 DEF IdentEnds
    <2>2. CASE ~ident.stage
      BY <2>2 DEF IdentEnds
    <2> QED BY <2>1, <2>2
  <1>3. ~ident'.run /\ UNCHANGED <<wait, stt, diar>>
    BY DEF IdentEnds, NoRun
  <1> HIDE DEF b
  <1>4. CASE ident.stage
    <2>1. NoTranscribe(book, book')
      BY <1>1, <1>2, <1>4, TranscribeKind DEF NoTranscribe, SameTranscribe
    <2> QED BY <1>3, <2>1, ClosingStep
  <1>5. CASE ~ident.stage
    <2>1. SameTranscribe(book, book')
      BY <1>1, <1>2, <1>5, OtherKind DEF SameTranscribe
    <2> QED BY <1>3, <1>5, <2>1 DEF CancelStep, CancelKnown, StopsChain, SameTranscribe, InIdentifyStage
  <1> QED BY <1>4, <1>5

LEMMA SetCancellingBook ==
  ASSUME NEW b \in Books, NEW k \in Kinds PROVE SetCancelling(b, k).errors = b.errors
  BY DEF SetCancelling, Books

LEMMA CancelCancelStep ==
  ASSUME IInv, CancelKnown, CancelTranscribe PROVE CancelStep
  <1>1. book \in Books /\ SetCancelling(book, "Transcribe").errors = book.errors
    BY SetCancellingBook, KindsAre DEF IInv, TypeOK
  <1>2. CASE CancelDiarization
    BY <1>1, <1>2 DEF CancelDiarization, CancelStep, CancelKnown, StopsChain
  <1>3. CASE CancelMixWait
    BY <1>1, <1>3, TranscribeKind, ClosingStep DEF CancelMixWait
  <1>4. CASE CancelStt
    BY <1>1, <1>4, TranscribeKind, ClosingStep DEF CancelStt, NoRun
  <1>5. CASE CancelIdentifyStage
    <2>1. ident'.run /\ ident'.stage /\ ident.run
      BY <1>5, IdentifyMarked DEF IInv, CancelIdentifyStage, InIdentifyStage
    <2>2. UNCHANGED <<wait, stt, diar>> /\ book'.errors = book.errors
      BY <1>1, <1>5 DEF CancelIdentifyStage
    <2> QED BY <2>1, <2>2 DEF CancelStep, CancelKnown, StopsChain, InIdentifyStage
  <1> QED BY <1>2, <1>3, <1>4, <1>5 DEF CancelTranscribe

LEMMA IdentifyBookCancelStep == ASSUME IInv, CancelKnown, CancelIdentify PROVE CancelStep
  <1>1. SameTranscribe(book, book') /\ UNCHANGED <<wait, stt, diar>>
    BY OtherKind DEF IInv, TypeOK, CancelIdentify
  <1>2. ident.run /\ ident'.run /\ ident'.stage = ident.stage
    BY IdentifyMarked DEF IInv, CancelIdentify, Identifying
  <1> QED BY <1>1, <1>2 DEF CancelStep, CancelKnown, StopsChain, SameTranscribe, InIdentifyStage

LEMMA StutterCancelStep == ASSUME IInv, CancelKnown, UNCHANGED vars PROVE CancelStep
  BY AsideStep DEF vars, stages, SameTranscribe

LEMMA NextCancelStep == ASSUME IInv, CancelKnown, [Next]_vars PROVE CancelStep
  BY MixCancelStep, MixEndsCancelStep, TranscribeCancelStep, ChainCancelStep, DeliveredCancelStep,
     IdentifyCancelStep, IdentEndsCancelStep, CancelCancelStep, IdentifyBookCancelStep,
     StutterCancelStep DEF Next

\* Once the user cancelled the transcription no stage of it starts and no error is remembered,
\* whatever ends afterwards and in whatever order (Workflows::cancel and the services' handlers).
THEOREM CancelStopsChainHolds == Spec => CancelStopsChain
  <1>1. Init => CancelKnown
    BY KindsAre DEF Init, CancelKnown, EmptyBook
  <1>2. IInv /\ CancelKnown /\ [Next]_vars => CancelKnown'
    BY NextCancelStep DEF CancelStep
  <1>3. IInv /\ CancelKnown /\ [Next]_vars => [StopsChain]_vars
    BY NextCancelStep DEF CancelStep
  <1>4. Spec => [][StopsChain]_vars
    BY <1>1, <1>2, <1>3, Inductive, PTL DEF Spec
  <1> QED BY <1>4 DEF CancelStopsChain, StopsChain
=============================================================================
