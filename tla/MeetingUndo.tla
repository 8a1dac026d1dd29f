------------------------------- MODULE MeetingUndo --------------------------------
(***************************************************************************)
(* The undo shared by everything that edits one meeting.  The transcript   *)
(* editor (SpeakerEditSession) and the tags (TagService, one for all       *)
(* meetings) keep stacks of their own and can be undone directly.          *)
(* MeetingUndoService keeps the order of their steps and adds steps of its *)
(* own: operations on the participants, which restore a snapshot and       *)
(* absorb the editor step made on the way.                                 *)
(*                                                                         *)
(* What is edited is three values: the participants, the editor's overlay  *)
(* and the meeting's tags.  A change makes a value that was never there,   *)
(* named by the clock.                                                     *)
(***************************************************************************)
EXTENDS Naturals, Sequences, SequencesExt

CONSTANTS
    EditorLimit,    \* SpeakerUndoStack::kMaxSteps
    TagLimit,       \* kUndoLimit
    MaxEntries,     \* kMaxEntries
    MaxClock        \* bound: changes and redos

ASSUME UndoAssumption ==
    /\ {EditorLimit, TagLimit, MaxEntries} \subseteq Nat \ {0}
    /\ MaxClock \in Nat

VARIABLES
    now,            \* [parts, overlay, tags]: the meeting as it is
    service,        \* the meeting has its MeetingUndoService
    editor,         \* the editor session: "none", "open", "closing" (deleted later)
    edUndo, edRedo, \* its steps: [serial, before, after]
    tagUndo,        \* the steps of TagService: [serial, here: about this meeting, before]
    entries,        \* the shared stack: [source, serial, before, link]
    ignored,        \* ignoredTags: those before the service
    clock,          \* numbers steps and values
    was, is,        \* history: per step, the meeting before and after it
    made,           \* history: per step, when it was made, last redone or last put back on top
    lost            \* history: a step came when the shared stack was full

stacks == <<edUndo, edRedo, tagUndo>>
history == <<was, is, made>>
vars == <<now, service, editor, stacks, entries, ignored, clock, history, lost>>

Serials(stack) == {stack[i].serial : i \in DOMAIN stack}
TopSerial(stack) == IF stack = <<>> THEN 0 ELSE Last(stack).serial

Init ==
    /\ now = [parts |-> 0, overlay |-> 0, tags |-> 0]
    /\ service = FALSE /\ editor = "none"
    /\ edUndo = <<>> /\ edRedo = <<>> /\ tagUndo = <<>>
    /\ entries = <<>> /\ ignored = {} /\ clock = 0 /\ lost = FALSE
    /\ was = [s \in 1 .. MaxClock |-> now] /\ is = was
    /\ made = [s \in 1 .. MaxClock |-> 0]

----------------------------------------------------------------------------
(* MeetingUndoService: entries against the stacks of the sources *)

\* What is left of a list when the loops that call removeAt have gone through it.
\* (SelectSeq, written as a function so that it can be reasoned about.)
Only(list, S) ==
    LET kept[n \in 0 .. Len(list)] ==
            IF n = 0 THEN <<>>
            ELSE IF list[n] \in S THEN Append(kept[n - 1], list[n]) ELSE kept[n - 1]
    IN  kept[Len(list)]

\* Mutant: nothing drops.
Unlimited(stack, limit) == stack

\* A limited stack: the oldest drops.
Limited(stack, limit) == IF Len(stack) > limit THEN Tail(stack) ELSE stack

Entry(source, serial, before, link) ==
    [source |-> source, serial |-> serial, before |-> before, link |-> link]

\* Mutant: absorbed steps are not known.
KnownOwn(list, source, serial) ==
    \E i \in DOMAIN list : list[i].source = source /\ list[i].serial = serial

\* known: with an entry of its own or absorbed by one.
Known(list, source, serial) ==
    \E i \in DOMAIN list :
        \/ list[i].source = source /\ list[i].serial = serial
        \/ source = "speakers" /\ list[i].link = serial

\* reconcile: entries whose step is gone drop out, unknown steps of this meeting come on top.
Merged(list, source, steps) ==
    LET stay == {e \in Range(list) : e.source # source \/ e.serial \in Serials(steps)}
        new == Only(steps, {step \in Range(steps) : ~Known(list, source, step.serial)})
    IN  Only(list, stay) \o [i \in DOMAIN new |-> Entry(source, new[i].serial, 0, 0)]

Trimmed(list) == SubSeq(list, 1 + IF Len(list) > MaxEntries THEN Len(list) - MaxEntries ELSE 0, Len(list))

\* The tag steps that come here.
Belonging(tags) == Only(tags, {step \in Range(tags) : step.here /\ step.serial \notin ignored})

WithEditor(list, ed) == Trimmed(Merged(list, "speakers", ed))
WithTags(list, tags) == Trimmed(Merged(list, "tags", Belonging(tags)))

\* Mutant: whatever its source has on top.
UsableAny(i) == TRUE

\* The entry i can be undone: a step of a source only on top of its stack.
Usable(i) ==
    CASE entries[i].source = "speakers" -> entries[i].serial = TopSerial(edUndo)
      [] entries[i].source = "tags" -> entries[i].serial = TopSerial(tagUndo)
      [] OTHER -> TRUE

\* latestUsable, 0 if there is none.
LatestUsable ==
    LET usable == {i \in DOMAIN entries : Usable(i)}
    IN  IF usable = {} THEN 0 ELSE CHOOSE i \in usable : \A j \in usable : j <= i

\* detachEditor: its entries go, participant steps keep only their own part.
Detached(list) ==
    LET kept == Only(list, {e \in Range(list) : e.source # "speakers"})
    IN  [i \in DOMAIN kept |-> [kept[i] EXCEPT !.link = 0]]

Follow(list) ==
    /\ entries' = list
    /\ lost' = (lost \/ (Len(entries) = MaxEntries
                         /\ \E e \in Range(entries') : ~Known(entries, e.source, e.serial)))

----------------------------------------------------------------------------
(* Recording a step (history) *)

Tick(n) == clock + n <= MaxClock /\ clock' = clock + n

Noted(serial, before, after) ==
    /\ was' = [was EXCEPT ![serial] = before] /\ is' = [is EXCEPT ![serial] = after]
    /\ made' = [made EXCEPT ![serial] = clock']

----------------------------------------------------------------------------
(* SpeakerEditSession *)

EditorStep(serial, before) == [serial |-> serial, before |-> before, after |-> serial]

\* commit
Edit ==
    /\ editor = "open" /\ Tick(1)
    /\ LET step == EditorStep(clock', now.overlay) IN
        /\ edUndo' = Limited(Append(edUndo, step), EditorLimit) /\ edRedo' = <<>>
        /\ now' = [now EXCEPT !.overlay = clock']
    /\ Noted(clock', now, now')
    /\ Follow(WithEditor(entries, edUndo'))
    /\ UNCHANGED <<service, editor, tagUndo, ignored>>

\* undo() of the editor: the step's overlay comes back.
EditorUndone ==
    /\ edUndo # <<>>
    /\ edUndo' = Front(edUndo) /\ edRedo' = Append(edRedo, Last(edUndo))

UndoInEditor ==
    /\ editor = "open" /\ EditorUndone
    /\ now' = [now EXCEPT !.overlay = Last(edUndo).before]
    /\ Follow(WithEditor(entries, edUndo'))
    /\ UNCHANGED <<service, editor, tagUndo, ignored, clock, history>>

\* The step keeps its number; undoing it now leads back to here.
Redo ==
    /\ editor = "open" /\ edRedo # <<>> /\ Tick(1)
    /\ edRedo' = Front(edRedo) /\ edUndo' = Append(edUndo, Last(edRedo))
    /\ now' = [now EXCEPT !.overlay = Last(edRedo).after]
    /\ Noted(Last(edRedo).serial, now, now')
    /\ Follow(WithEditor(entries, edUndo'))
    /\ UNCHANGED <<service, editor, tagUndo, ignored>>

\* refreshFromDisk, reloadTranscript: somebody else changed the overlay or the transcript.
Reload ==
    /\ editor = "open" /\ Tick(1)
    /\ edUndo' = <<>> /\ edRedo' = <<>>
    /\ now' = [now EXCEPT !.overlay = clock']
    /\ Follow(WithEditor(entries, <<>>))
    /\ UNCHANGED <<service, editor, tagUndo, ignored, history>>

\* EditorSessions::open, and the shared undo with it.
Opened ==
    /\ editor' = "open" /\ edUndo' = <<>> /\ edRedo' = <<>>
    /\ service' = TRUE
    /\ ignored' = IF service THEN ignored ELSE Serials(tagUndo)

OpenEditor ==
    /\ editor # "open" /\ Opened
    /\ Follow(Detached(entries))
    /\ UNCHANGED <<now, tagUndo, clock, history>>

\* EditorSessions::close: deleteLater; the stack sees the session until it is destroyed.
CloseEditor ==
    /\ editor = "open" /\ editor' = "closing"
    /\ UNCHANGED <<now, service, stacks, entries, ignored, clock, history, lost>>

EditorDestroyed ==
    /\ editor = "closing" /\ editor' = "none"
    /\ edUndo' = <<>> /\ edRedo' = <<>>
    /\ Follow(Detached(entries))
    /\ UNCHANGED <<now, service, tagUndo, ignored, clock, history>>

----------------------------------------------------------------------------
(* TagService *)

\* undoChanged: the shared stack follows, once there is one.
FollowTags == Follow(IF service THEN WithTags(entries, tagUndo') ELSE <<>>)

\* closeStep: a step about this meeting, or about others only.
TagStep(here) ==
    /\ Tick(1)
    /\ tagUndo' = Limited(Append(tagUndo, [serial |-> clock', here |-> here, before |-> now.tags]), TagLimit)
    /\ now' = IF here THEN [now EXCEPT !.tags = clock'] ELSE now
    /\ Noted(clock', now, now')
    /\ FollowTags
    /\ UNCHANGED <<service, editor, edUndo, edRedo, ignored>>

\* undo(): without the lock of tags.json the step stays and nothing changes.
TagsUndone(refused) ==
    /\ tagUndo # <<>>
    /\ tagUndo' = IF refused THEN tagUndo ELSE Front(tagUndo)

TagsBefore(refused) ==
    IF refused \/ ~Last(tagUndo).here THEN now.tags ELSE Last(tagUndo).before

UndoInTags ==
    /\ TagsUndone(FALSE)
    /\ now' = [now EXCEPT !.tags = TagsBefore(FALSE)]
    /\ FollowTags
    /\ UNCHANGED <<service, editor, edUndo, edRedo, ignored, clock, history>>

----------------------------------------------------------------------------
(* Operations on the participants *)

\* MeetingUndoRegistry::forMeeting, without an editor.
CreateService ==
    /\ ~service /\ service' = TRUE
    /\ ignored' = Serials(tagUndo) /\ entries' = <<>>
    /\ UNCHANGED <<now, editor, stacks, clock, history, lost>>

\* pushStep
Absorbing(list, entry) ==
    LET others == {e \in Range(list) : ~(e.source = "speakers" /\ e.serial = entry.link)}
    IN  Append(Only(list, others), entry)

\* ParticipantUndoScope without a change of the transcript: approval before it, a track switched off...
ChangeParticipants ==
    /\ Tick(1)
    /\ now' = [now EXCEPT !.parts = clock'] /\ service' = TRUE
    /\ ignored' = IF service THEN ignored ELSE Serials(tagUndo)
    /\ Follow(Trimmed(Append(WithEditor(entries, edUndo), Entry("participants", clock', now.parts, 0))))
    /\ Noted(clock', now, now')
    /\ UNCHANGED <<editor, stacks>>

\* With one: the operation opens the editor and ends with one step of it, which the scope absorbs.
\* Track assignments copied on the way (copyParticipantTracksToOverlay) are steps of the editor before it.
ChangeBoth ==
    /\ editor = "open" /\ Tick(2)
    /\ LET step == EditorStep(clock + 1, now.overlay) IN
        /\ edUndo' = Limited(Append(edUndo, step), EditorLimit) /\ edRedo' = <<>>
        /\ now' = [now EXCEPT !.parts = clock', !.overlay = step.after]
        /\ Follow(Trimmed(Absorbing(WithEditor(WithEditor(entries, edUndo'), edUndo'),
                                    Entry("participants", clock', now.parts, step.serial))))
    /\ Noted(clock', now, now')
    /\ UNCHANGED <<service, editor, tagUndo, ignored>>

\* Participants change without a step: the analysis, the transcript that arrives, voice identification.
ChangeBehind ==
    /\ Tick(1)
    /\ now' = [now EXCEPT !.parts = clock']
    /\ UNCHANGED <<service, editor, stacks, entries, ignored, history, lost>>

----------------------------------------------------------------------------
(* undo() of the shared stack *)

Rest(i) == RemoveAt(entries, i)

\* Both sources are compared once more at the end.
Settle(list) == Follow(WithTags(WithEditor(list, edUndo'), tagUndo'))

UndoSpeakers ==
    /\ LatestUsable # 0 /\ entries[LatestUsable].source = "speakers"
    /\ UNCHANGED <<service, editor, tagUndo, ignored, clock, history>>
    /\ EditorUndone
    /\ now' = [now EXCEPT !.overlay = Last(edUndo).before]
    /\ Settle(WithEditor(Rest(LatestUsable), edUndo'))

\* Refused: the step comes back on top of the list (PutBack).
PutBack(serial) ==
    /\ Tick(1)
    /\ made' = [made EXCEPT ![serial] = clock'] /\ UNCHANGED <<was, is>>

UndoTags ==
    /\ LatestUsable # 0 /\ entries[LatestUsable].source = "tags"
    /\ UNCHANGED <<service, editor, edUndo, edRedo, ignored>>
    /\ \E refused \in BOOLEAN :
        /\ TagsUndone(refused)
        /\ IF refused THEN PutBack(TopSerial(tagUndo)) ELSE UNCHANGED <<clock, history>>
        /\ now' = [now EXCEPT !.tags = TagsBefore(refused)]
        /\ Settle(IF refused THEN Rest(LatestUsable) ELSE WithTags(Rest(LatestUsable), tagUndo'))

\* Mutant: the absorbed step is forgotten.
UndoSnapshot ==
    /\ LatestUsable # 0 /\ entries[LatestUsable].source = "participants"
    /\ now' = [now EXCEPT !.parts = entries[LatestUsable].before]
    /\ entries' = Rest(LatestUsable)
    /\ UNCHANGED <<service, editor, stacks, ignored, clock, history, lost>>

\* The absorbed step too, if it is on top; the snapshot in any case.
UndoParticipants ==
    /\ LatestUsable # 0 /\ entries[LatestUsable].source = "participants"
    /\ UNCHANGED <<service, editor, tagUndo, ignored, clock, history>>
    /\ LET e == entries[LatestUsable]
           both == e.link # 0 /\ e.link = TopSerial(edUndo)
       IN  /\ IF both THEN EditorUndone ELSE UNCHANGED <<edUndo, edRedo>>
           /\ now' = [now EXCEPT !.parts = e.before,
                                 !.overlay = IF both THEN Last(edUndo).before ELSE @]
           /\ Settle(IF both THEN WithEditor(Rest(LatestUsable), edUndo') ELSE Rest(LatestUsable))

Next ==
    \/ Edit \/ UndoInEditor \/ Redo \/ Reload \/ OpenEditor \/ CloseEditor \/ EditorDestroyed
    \/ TagStep(TRUE) \/ TagStep(FALSE) \/ UndoInTags
    \/ CreateService \/ ChangeParticipants \/ ChangeBoth \/ ChangeBehind
    \/ UndoSpeakers \/ UndoTags \/ UndoParticipants

Spec == Init /\ [][Next]_vars

----------------------------------------------------------------------------
Values == 0 .. MaxClock
Meetings == [parts : Values, overlay : Values, tags : Values]
Numbers == 1 .. MaxClock
EditorSteps == [serial : Numbers, before : Values, after : Values]
TagSteps == [serial : Numbers, here : BOOLEAN, before : Values]
Entries == [source : {"speakers", "tags", "participants"}, serial : Numbers, before : Values, link : Values]

TypeOK ==
    /\ now \in Meetings /\ service \in BOOLEAN /\ editor \in {"none", "open", "closing"}
    /\ {edUndo, edRedo} \subseteq Seq(EditorSteps) /\ Len(edUndo) <= EditorLimit
    /\ tagUndo \in Seq(TagSteps) /\ Len(tagUndo) <= TagLimit
    /\ entries \in Seq(Entries) /\ Len(entries) <= MaxEntries
    /\ ignored \subseteq Numbers /\ clock \in Values /\ lost \in BOOLEAN
    /\ {was, is} \subseteq [Numbers -> Meetings] /\ made \in [Numbers -> Values]

EntrySerials(source) == {entries[i].serial : i \in {j \in DOMAIN entries : entries[j].source = source}}
Absorbed == {entries[i].link : i \in DOMAIN entries} \ {0}

\* However the editor and the tags are undone, redone, limited, reloaded, closed or opened on their
\* own, the shared stack has every step of this meeting that can still be undone exactly once, alone
\* or absorbed, and no other (as long as none was dropped for its limit).
EntriesMirror ==
    service /\ ~lost =>
        /\ EntrySerials("speakers") \intersect Absorbed = {}
        /\ EntrySerials("speakers") \union (Absorbed \intersect Serials(edUndo)) = Serials(edUndo)
        /\ EntrySerials("tags") = Serials(Belonging(tagUndo))
        /\ \A i, j \in DOMAIN entries :
                entries[i].source = entries[j].source /\ entries[i].serial = entries[j].serial => i = j

\* What can be undone now: own steps, and a step on top of its own stack.
Undoable ==
    EntrySerials("participants")
    \union {s \in Serials(edUndo) \ Absorbed : s = TopSerial(edUndo)}
    \union {s \in Serials(Belonging(tagUndo)) : s = TopSerial(tagUndo)}

\* undo() takes back the step made or redone last, of those that can be undone; it does nothing only
\* if there is none.  (A tag step whose undo was refused counts as made then.)
UndoesLatest ==
    service /\ ~lost =>
        IF LatestUsable = 0 THEN Undoable = {}
        ELSE LET s == entries[LatestUsable].serial
             IN  s \in Undoable /\ \A other \in Undoable : made[other] <= made[s]

\* An undo right after the step, or after the later ones were taken back, leads to the meeting as it
\* was before the step: participants, overlay and tags together.  Not if the editor that had a part
\* of the step was closed or reloaded, or the tags could not be locked.
ExactlyBack ==
    [][LET e == entries[LatestUsable] IN
        /\ LatestUsable # 0 /\ now = is[e.serial]
        /\ UndoSpeakers \/ UndoTags \/ UndoParticipants
        /\ e.source = "tags" => tagUndo' # tagUndo
        /\ e.source = "participants" /\ was[e.serial].overlay # is[e.serial].overlay
                => e.link \in Serials(edUndo)
       => now' = was[e.serial]]_vars
=============================================================================
