------------------------------- MODULE Workflows -------------------------------
(***************************************************************************)
(* The processing of one meeting: the mix of its tracks (MixdownService),  *)
(* the transcription made from the mix (TranscriptionService), the local   *)
(* separation of speakers (DiarizationService), the naming of speakers by  *)
(* voice (VoiceAnalysisService) and the chains that Workflows builds from  *)
(* them.  Every service keys its state by meeting, so one meeting is the   *)
(* whole system; the handlers run on the main thread, one at a time, and   *)
(* what runs beside it (ffmpeg, the provider, the threads) is seen by the  *)
(* signal that ends it.                                                    *)
(*                                                                         *)
(* Contents are versions: tracks counts the changes of the set of active   *)
(* tracks, a mix is the version it was made of, gen counts transcripts and *)
(* names is the transcript whose labels the speaker names belong to.       *)
(***************************************************************************)
EXTENDS Naturals, JobTracker

CONSTANTS
    MaxTracks,  \* bound: versions of the set of active tracks
    MaxGen,     \* bound: transcripts written
    MaxPosted   \* bound: cancelled outcomes of the diarization waiting in the event loop

ASSUME WorkflowsAssumption == MaxTracks \in Nat \ {0} /\ MaxGen \in Nat /\ MaxPosted \in Nat

VARIABLES
    book,       \* MeetingJobTracker
    tracks,     \* the active tracks, by version
    mixFile,    \* Meeting::mixdownFile: the version it was made of, 0 for none
    dirty,      \* Meeting::mixdownDirty
    mix,        \* MixdownService procs and cancelled: the ffmpeg that runs
    wait,       \* m_mixWaits: "owns" if this transcription started the mix, "waits" if not
    clear,      \* m_clearSpeakers
    stt,        \* TranscriptionService m_runs
    diar,       \* DiarizationService m_runs: "live", or "dead" once its job was cancelled
    posted,     \* finish(cancelled) calls posted to the event loop
    manual,     \* m_manualDiarize
    gen,        \* the transcript on disk, 0 for none; also the stamp of it
    speakers,   \* who separated its speakers
    names,      \* Meeting::speakerMap
    ident,      \* VoiceAnalysisService identifyRuns
    check,      \* m_speechCheckRunning, and what its end does
    missed,     \* history: the active tracks changed while the mix on disk was being made
    covered     \* history: the transcript of the last identification that was marked done

tracked == <<tracks, mixFile, dirty, missed>>
transcript == <<gen, speakers>>
stages == <<wait, clear, stt, diar, posted, manual, ident>>
vars == <<book, tracked, mix, stages, transcript, names, check, covered>>

NoRun == [run |-> FALSE]
MixRuns == [run : {TRUE}, rev : 1 .. MaxTracks, cancelled : BOOLEAN, changed : BOOLEAN]
SttRuns == [run : {TRUE}, clear : BOOLEAN, audio : 0 .. MaxTracks, want : 1 .. MaxTracks,
            raced : BOOLEAN]
IdentRuns == [run : {TRUE}, stamp : 1 .. MaxGen, stage : BOOLEAN, cancelled : BOOLEAN]

Init ==
    /\ book = EmptyBook
    /\ tracks = 1 /\ mixFile = 0 /\ dirty = FALSE /\ mix = NoRun /\ missed = FALSE
    /\ wait = "none" /\ clear = FALSE /\ stt = NoRun
    /\ diar = "none" /\ posted = 0 /\ manual = FALSE
    /\ gen = 0 /\ speakers = "none" /\ names = 0 /\ ident = NoRun
    /\ check = "none" /\ covered = 0

Identifying == ident.run /\ ~ident.stage
InIdentifyStage == ident.run /\ ident.stage

----------------------------------------------------------------------------
(* MixdownService *)

NewMix(rev) == [run |-> TRUE, rev |-> rev, cancelled |-> FALSE, changed |-> FALSE]

\* regenerate() outside a transcription: a no-op while a mix runs, and when nothing can be mixed.
Regenerate(rev) ==
    \/ UNCHANGED <<mix, book>>
    \/ /\ ~mix.run
       /\ mix' = NewMix(rev)
       /\ book' = Begin(book, "Mixdown")

\* The mix button, or the automatic mix after a recording or an import.
RegenerateMixdown ==
    /\ Regenerate(tracks)
    /\ UNCHANGED <<tracked, stages, transcript, names, check, covered>>

\* Mutant: the change is saved without the mark.
UnmarkedChange ==
    /\ tracks < MaxTracks /\ tracks' = tracks + 1
    /\ UNCHANGED <<dirty, mixFile, missed>>

\* A change of the active tracks marks the mix out of date.
MarkChanged ==
    /\ tracks < MaxTracks /\ tracks' = tracks + 1
    /\ dirty' = TRUE /\ UNCHANGED <<mixFile, missed>>

\* includeTrack, excludeTrack and an undo of them remix; restoreTrack, deleteTrack and
\* relocateTrack only mark.
ChangeTracks ==
    /\ MarkChanged
    /\ IF mix.run THEN mix' = [mix EXCEPT !.changed = TRUE] /\ UNCHANGED book
                  ELSE Regenerate(tracks')
    /\ UNCHANGED <<stages, transcript, names, check, covered>>

\* startSpeechCheck: one measurement at a time; only the first caller's wish for a mix counts.
StartSpeechCheck ==
    /\ check = "none"
    /\ check' \in {"only", "thenMix"}
    /\ UNCHANGED <<book, tracked, mix, stages, transcript, names, covered>>

\* finishSpeechCheck: speechless tracks leave the mix.
FinishSpeechCheck ==
    /\ check # "none" /\ check' = "none"
    /\ \/ UNCHANGED tracked
       \/ MarkChanged
    /\ IF mix.run THEN mix' = [mix EXCEPT !.changed = @ \/ tracks' # tracks] /\ UNCHANGED book
       ELSE IF check = "thenMix" THEN Regenerate(tracks')
       ELSE UNCHANGED <<mix, book>>
    /\ UNCHANGED <<stages, transcript, names, covered>>

----------------------------------------------------------------------------
(* The transcription's stages *)

\* TranscriptionService::start: the provider call begins, or there is no such provider.
StartStt(b, anew, audio, late) ==
    \/ /\ stt' = [run |-> TRUE, clear |-> anew, audio |-> audio, want |-> tracks, raced |-> late]
       /\ book' = b
    \/ /\ stt' = NoRun
       /\ book' = FailJob(b, "Transcribe")

\* Mutant: a mix that is marked out of date will do.
NeedMixIfNone == mixFile = 0

NeedMix == mixFile = 0 \/ dirty

\* The names a standalone identification finds belong to the transcript about to go.
StopIdentify == [ident EXCEPT !.cancelled = TRUE]
BookStopIdentify == IF Identifying THEN SetCancelling(book, "Identify") ELSE book

\* transcribe(), and retranscribe() which also sets the flag.
Transcribe(anew) ==
    /\ ~IsRunning(book, "Transcribe")
    /\ ident' = IF Identifying THEN StopIdentify ELSE ident
    /\ LET b == Begin(BookStopIdentify, "Transcribe") IN
       \/ /\ NeedMix /\ mix.run                 \* wait for the mix that runs
          /\ wait' = "waits" /\ clear' = anew /\ book' = b
          /\ UNCHANGED <<mix, stt>>
       \/ /\ NeedMix /\ ~mix.run                \* a mix of its own, no Mixdown job
          /\ wait' = "owns" /\ clear' = anew /\ book' = b /\ mix' = NewMix(tracks)
          /\ UNCHANGED stt
       \/ /\ NeedMix /\ ~mix.run                \* finished(false) from inside regenerate()
          /\ book' = FailJob(b, "Transcribe")
          /\ UNCHANGED <<wait, clear, mix, stt>>
       \/ /\ ~NeedMix
          /\ StartStt(b, anew, mixFile, missed)
          /\ UNCHANGED <<wait, clear, mix>>
    /\ UNCHANGED <<tracked, diar, posted, manual, transcript, names, check, covered>>

\* The finished handler of ffmpeg: the book's Mixdown job closes ...
MixClosed(b, ok) ==
    IF ~IsRunning(b, "Mixdown") THEN b
    ELSE IF ok THEN FinishJob(b, "Mixdown")
    ELSE IF mix.cancelled THEN CancelledJob(b, "Mixdown") ELSE FailJob(b, "Mixdown")

\* A cancelled mix has failed even if ffmpeg had already written all of it.
Succeeds(ok) == ok /\ ~mix.cancelled

\* Mutant: only a mix that succeeded is announced.
AnnounceSuccess(b, ok) ==
    IF wait # "none" /\ ok
    THEN wait' = "none" /\ clear' = FALSE /\ StartStt(b, clear, mix.rev, mix.changed)
    ELSE book' = b /\ UNCHANGED <<wait, clear, stt>>

\* ... and finished() wakes the transcription that waits.
Announce(b, ok) ==
    IF wait = "none" THEN book' = b /\ UNCHANGED <<wait, clear, stt>>
    ELSE /\ wait' = "none" /\ clear' = FALSE
         /\ IF ok THEN StartStt(b, clear, mix.rev, mix.changed)
                  ELSE book' = FailJob(b, "Transcribe") /\ UNCHANGED stt

\* MixdownService: ffmpeg ended; the file is replaced and the mark cleared only on success.
MixEnds ==
    /\ mix.run /\ mix' = NoRun
    /\ \E exit \in BOOLEAN :
        LET ok == Succeeds(exit) IN
        /\ IF ok THEN mixFile' = mix.rev /\ dirty' = FALSE /\ missed' = mix.changed
                 ELSE UNCHANGED <<mixFile, dirty, missed>>
        /\ Announce(MixClosed(book, ok), ok)
    /\ UNCHANGED <<tracks, diar, posted, manual, ident, transcript, names, check, covered>>

----------------------------------------------------------------------------
(* The tail of the chain: speakers, then their names *)

\* startIdentify on transcript g: no anonymous speaker, or the thread starts with g's stamp.
StartIdentify(b, g, stage) ==
    /\ ~ident.run /\ g > 0
    /\ \/ /\ UNCHANGED ident /\ covered' = g
          /\ LET done == MarkIdentified(b, TRUE) IN
             book' = IF stage THEN FinishJob(done, "Transcribe") ELSE done
       \/ /\ ident' = [run |-> TRUE, stamp |-> g, stage |-> stage, cancelled |-> FALSE]
          /\ book' = IF stage THEN b ELSE Begin(b, "Identify")
          /\ UNCHANGED covered

\* continueAfterTranscript: the participants' decision names the speakers of g (n before it), or
\* identification is skipped, refused or started.
Continue(b, g, n) ==
    \/ /\ book' = FinishJob(b, "Transcribe")
       /\ names' \in {n, g}
       /\ UNCHANGED <<ident, covered>>
    \/ /\ StartIdentify(b, g, TRUE)
       /\ names' = n

\* Whenever a transcript existed the names go with it.
NamesAfterStt == IF stt.clear \/ gen > 0 THEN 0 ELSE names

\* The provider's result: the transcript is written, then the speakers are separated here if
\* the provider gave none, or the chain goes on.
SttDone ==
    /\ stt.run /\ stt' = NoRun
    /\ gen < MaxGen /\ gen' = gen + 1
    /\ speakers' \in {"none", "provider"}
    /\ LET b == MarkIdentified(book, FALSE) IN
       \/ /\ speakers' = "none" /\ diar = "none"
          /\ diar' = "live" /\ book' = b /\ names' = NamesAfterStt
          /\ UNCHANGED <<ident, covered>>
       \/ /\ Continue(b, gen', NamesAfterStt)
          /\ UNCHANGED diar
    /\ UNCHANGED <<tracked, mix, wait, clear, posted, manual, check>>

\* An error, or an empty result: the old transcript stays.
SttFails ==
    /\ stt.run /\ stt' = NoRun
    /\ book' = FailJob(book, "Transcribe")
    /\ UNCHANGED <<tracked, mix, wait, clear, diar, posted, manual, ident, transcript, names,
                   check, covered>>

\* diarizeSpeakers: the manual action on a transcript the provider did not separate.
DiarizeSpeakers ==
    /\ ~IsRunning(book, "Transcribe")
    /\ gen > 0 /\ speakers # "provider"
    /\ \/ /\ diar = "none" /\ diar' = "live" /\ manual' = TRUE
          /\ book' = Begin(book, "Transcribe")
       \/ /\ UNCHANGED <<diar, manual>>          \* not started
          /\ book' = CancelledJob(Begin(book, "Transcribe"), "Transcribe")
    /\ UNCHANGED <<tracked, mix, wait, clear, stt, posted, ident, transcript, names, check,
                   covered>>

\* Mutant: the mark of an identification survives the new separation.
MarkKept == book

\* The manual action's new speakers are not identified yet; the automatic one's mark is gone.
MarkDropped == IF manual THEN MarkIdentified(book, FALSE) ELSE book

\* The diarization ended and its result was merged: a new transcript without names.
DiarApplied ==
    /\ diar = "live" /\ diar' = "none" /\ manual' = FALSE
    /\ gen < MaxGen /\ gen' = gen + 1 /\ speakers' = "local"
    /\ Continue(MarkDropped, gen', 0)
    /\ UNCHANGED <<tracked, mix, wait, clear, stt, posted, check>>

\* It failed or changed nothing: the manual action ends, the chain goes on.
DiarUnchanged ==
    /\ diar = "live" /\ diar' = "none" /\ manual' = FALSE
    /\ IF manual THEN book' = FinishJob(book, "Transcribe") /\ UNCHANGED <<ident, names, covered>>
                 ELSE Continue(book, gen, names)
    /\ UNCHANGED <<tracked, mix, wait, clear, stt, posted, transcript, check>>

\* Mutant: the chain goes on after a cancelled separation.
GoesOn == Continue(book, gen, names)

\* The job closes as cancelled, without identification.
ClosesCancelled ==
    /\ book' = CancelledJob(book, "Transcribe")
    /\ UNCHANGED <<ident, names, covered>>

\* A posted finish(cancelled) is delivered; a run may be gone already.
DiarCancelDelivered ==
    /\ posted > 0 /\ posted' = posted - 1
    /\ IF diar = "none" THEN UNCHANGED <<book, diar, manual, ident, names, covered>>
       ELSE diar' = "none" /\ manual' = FALSE /\ ClosesCancelled
    /\ UNCHANGED <<tracked, mix, wait, clear, stt, transcript, check>>

\* identify(): refused while a transcription runs.
Identify ==
    /\ ~IsRunning(book, "Transcribe")
    /\ StartIdentify(book, gen, FALSE)
    /\ UNCHANGED <<tracked, mix, wait, clear, stt, diar, posted, manual, transcript, names, check>>

\* Mutant: the stamp of the transcript is not looked at.
NeverStale == FALSE

Stale == ident.stamp # gen

\* The thread ended: what it found is named even on cancel, unless the transcript is another.
IdentEnds ==
    /\ ident.run /\ ident' = NoRun
    /\ LET whole == ~ident.cancelled /\ ~Stale
           b == IF whole THEN MarkIdentified(book, TRUE) ELSE book
       IN  /\ covered' = IF whole THEN ident.stamp ELSE covered
           /\ book' = IF ident.stage THEN FinishJob(b, "Transcribe")
                      ELSE IF whole THEN FinishJob(b, "Identify") ELSE CancelledJob(b, "Identify")
    /\ \/ UNCHANGED names
       \/ ~Stale /\ names' = ident.stamp
    /\ UNCHANGED <<tracked, mix, wait, clear, stt, diar, posted, manual, transcript, check>>

\* The user (or the participants' approval) names speakers of the transcript on disk.
NameSpeakers ==
    /\ gen > 0 /\ names' = gen
    /\ UNCHANGED <<book, tracked, mix, stages, transcript, check, covered>>

----------------------------------------------------------------------------
(* cancel(kind) *)

\* The separation: its outcome comes by the event loop and closes the job.
CancelDiarization ==
    /\ diar # "none" /\ posted < MaxPosted
    /\ diar' = "dead" /\ posted' = posted + 1
    /\ book' = SetCancelling(book, "Transcribe")
    /\ UNCHANGED <<mix, wait, clear, stt, ident>>

\* Mutant: the chain is not broken, only its mix stopped.
CancelMixOnly ==
    /\ diar = "none" /\ wait # "none"
    /\ book' = CancelledJob(book, "Transcribe")
    /\ mix' = IF wait = "owns" THEN [mix EXCEPT !.cancelled = TRUE] ELSE mix
    /\ UNCHANGED <<wait, clear, stt, ident, diar, posted>>

\* The mix: the chain is broken and the mix stopped only if this transcription started it.
CancelMixWait ==
    /\ diar = "none" /\ wait # "none"
    /\ wait' = "none" /\ clear' = FALSE
    /\ mix' = IF wait = "owns" THEN [mix EXCEPT !.cancelled = TRUE] ELSE mix
    /\ book' = CancelledJob(book, "Transcribe")
    /\ UNCHANGED <<stt, ident, diar, posted>>

\* The provider's job reports failed("cancelled") from inside cancel().
CancelStt ==
    /\ diar = "none" /\ wait = "none" /\ stt.run
    /\ stt' = NoRun /\ book' = CancelledJob(book, "Transcribe")
    /\ UNCHANGED <<mix, wait, clear, ident, diar, posted>>

\* The last stage: only the identification is skipped.
CancelIdentifyStage ==
    /\ diar = "none" /\ wait = "none" /\ ~stt.run /\ InIdentifyStage
    /\ ident' = StopIdentify /\ book' = SetCancelling(book, "Transcribe")
    /\ UNCHANGED <<mix, wait, clear, stt, diar, posted>>

CancelTranscribe ==
    /\ CancelDiarization \/ CancelMixWait \/ CancelStt \/ CancelIdentifyStage
    /\ UNCHANGED <<tracked, manual, transcript, names, check, covered>>

CancelMixdown ==
    /\ mix.run /\ IsRunning(book, "Mixdown")
    /\ mix' = [mix EXCEPT !.cancelled = TRUE] /\ book' = SetCancelling(book, "Mixdown")
    /\ UNCHANGED <<tracked, stages, transcript, names, check, covered>>

CancelIdentify ==
    /\ Identifying
    /\ ident' = StopIdentify /\ book' = SetCancelling(book, "Identify")
    /\ UNCHANGED <<tracked, mix, wait, clear, stt, diar, posted, manual, transcript, names, check,
                   covered>>

----------------------------------------------------------------------------

Next ==
    \/ RegenerateMixdown \/ ChangeTracks \/ StartSpeechCheck \/ FinishSpeechCheck \/ MixEnds
    \/ \E anew \in BOOLEAN : Transcribe(anew)
    \/ SttDone \/ SttFails
    \/ DiarizeSpeakers \/ DiarApplied \/ DiarUnchanged \/ DiarCancelDelivered
    \/ Identify \/ IdentEnds \/ NameSpeakers
    \/ CancelTranscribe \/ CancelMixdown \/ CancelIdentify

Spec == Init /\ [][Next]_vars

\* ffmpeg exits, the provider answers or gives up, the threads end, posted calls are delivered.
Fairness ==
    /\ WF_vars(MixEnds) /\ WF_vars(SttDone \/ SttFails)
    /\ WF_vars(DiarApplied \/ DiarUnchanged) /\ WF_vars(DiarCancelDelivered)
    /\ WF_vars(IdentEnds)

FairSpec == Spec /\ Fairness

----------------------------------------------------------------------------
(* Properties *)

\* Every variable keeps the type its member has in the services.
TypeOK ==
    /\ book \in Books
    /\ tracks \in 1 .. MaxTracks /\ mixFile \in 0 .. MaxTracks
    /\ dirty \in BOOLEAN /\ missed \in BOOLEAN
    /\ mix \in {NoRun} \cup MixRuns /\ stt \in {NoRun} \cup SttRuns
    /\ ident \in {NoRun} \cup IdentRuns
    /\ wait \in {"none", "owns", "waits"} /\ clear \in BOOLEAN
    /\ diar \in {"none", "live", "dead"} /\ posted \in 0 .. MaxPosted /\ manual \in BOOLEAN
    /\ gen \in 0 .. MaxGen /\ speakers \in {"none", "provider", "local"}
    /\ names \in 0 .. MaxGen /\ covered \in 0 .. MaxGen
    /\ check \in {"none", "only", "thenMix"}

\* At most one stage of the chain works, and only under a Transcribe job; the job is open
\* exactly while one does.
StageHasJob ==
    /\ wait # "none" => ~stt.run /\ diar = "none" /\ ~InIdentifyStage
    /\ stt.run => diar = "none" /\ ~InIdentifyStage
    /\ diar # "none" => ~InIdentifyStage
    /\ IsRunning(book, "Transcribe") <=>
          wait # "none" \/ stt.run \/ diar # "none" \/ InIdentifyStage

\* The book and the services agree across all their handlers: a job that is listed is worked
\* on (else it would show as running for ever and refuse every new start), work that is done
\* is listed, and no mark of a chain outlives it.
JobsMatchWork ==
    /\ StageHasJob
    /\ IsRunning(book, "Identify") <=> Identifying
    /\ IsRunning(book, "Mixdown") => mix.run
    /\ wait # "none" => mix.run
    /\ clear => wait # "none"
    /\ manual => diar # "none"
    /\ diar = "dead" => posted > 0

\* Speaker names belong to the labels of the transcript on disk: whatever the order in which
\* transcriptions, separations, identifications and cancels end, no name of an older
\* transcript lands on a newer one.
NamesOfTranscript == names # 0 => names = gen

\* The remembered mark "identified" is about the transcript on disk.
IdentifiedIsCurrent == book.identified => covered = gen

\* A transcription that started from a mix made of other tracks than the active ones can only
\* come from a change made while that very mix was running.
AudioIsCurrent == stt.run /\ stt.audio # stt.want => stt.raced

\* A mix not marked out of date and yet made of other tracks comes from the same race only.
CleanUnlessRaced == mixFile # 0 /\ ~dirty /\ mixFile # tracks => missed

\* Once the user cancelled the transcription no stage of it starts and no error is remembered.
CancelStopsChain ==
    [][book.job["Transcribe"] = "cancelling" =>
         /\ wait' # "none" => wait # "none"
         /\ stt'.run => stt.run
         /\ diar' # "none" => diar # "none"
         /\ ident'.run => ident.run
         /\ "Transcribe" \in book'.errors => "Transcribe" \in book.errors]_vars

\* A transcription that was started comes to an end.
TranscribeCloses ==
    IsRunning(book, "Transcribe") ~> ~IsRunning(book, "Transcribe")
================================================================================
