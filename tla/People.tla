---------------------------------- MODULE People ----------------------------------
(***************************************************************************)
(* PeopleService: the operations on people that go through several files,  *)
(* people.json (who there is), voiceprints.json (whose voice samples are)  *)
(* and the meetings (whom a speaker is bound to).  An operation is a       *)
(* series of calls of the stores; each can be refused (another process     *)
(* holds the lock) or fail to save, and the other process may change the   *)
(* files between any two.  The service takes back what it can, and keeps   *)
(* an undo stack.                                                          *)
(*                                                                         *)
(* The other process (the command-line tool) changes the files in whole    *)
(* operations.  One meeting with one bound speaker stands for all.         *)
(***************************************************************************)
EXTENDS Naturals, Sequences, FiniteSets

CONSTANTS
    Persons,        \* bound: the person ids there can ever be
    FirstPersons,   \* those in people.json at the beginning
    Samples,        \* the voice samples
    FirstOwner,     \* their owners at the beginning
    MaxOthers,      \* bound: changes of the other process
    MaxBegun,       \* bound: operations begun by the user, undos not counted
    MaxFaults,      \* bound: calls refused, saves that fail, times a file cannot be opened
    MaxUndo         \* kMaxUndoSteps

Nobody == "nobody"

ASSUME PeopleAssumption ==
    /\ Nobody \notin Persons /\ FirstPersons \subseteq Persons
    /\ FirstOwner \in [Samples -> FirstPersons]
    /\ {MaxOthers, MaxBegun, MaxFaults, MaxUndo} \subseteq Nat

VARIABLES
    pDisk, pMem, pFresh, pLoading, pReadable, pUnsaved, \* people.json and its store
    vDisk, vMem, vFresh, vLoading, vReadable, vUnsaved, \* voiceprints.json and its: the owner of each sample
    ref,        \* the meeting: the person its speaker is bound to
    op,         \* the operation that runs
    undo,       \* the undo stack
    used,       \* history: the ids ever generated
    slip,       \* history: a call failed whose failure the service does not look at, or a file was barred
    begun,      \* history: operations begun
    faults,     \* history: what went wrong so far
    others,     \* history: changes of the other process
    foreign     \* history: the persons the other process removed or gave a sample

people == <<pDisk, pMem, pFresh, pLoading, pReadable, pUnsaved>>
prints == <<vDisk, vMem, vFresh, vLoading, vReadable, vUnsaved>>
mishaps == <<slip, faults>>
rest == <<used, begun, others, foreign>>
vars == <<people, prints, ref, op, undo, mishaps, rest>>

P == INSTANCE SharedStore WITH disk <- pDisk, mem <- pMem, fresh <- pFresh,
                               loading <- pLoading, readable <- pReadable, unsaved <- pUnsaved
V == INSTANCE SharedStore WITH disk <- vDisk, mem <- vMem, fresh <- vFresh,
                               loading <- vLoading, readable <- vReadable, unsaved <- vUnsaved

Owners == [Samples -> Persons \union {Nobody}]
SamplesOf(owner, person) == {s \in Samples : owner[s] = person}
Given(owner, ss, person) == [s \in Samples |-> IF s \in ss THEN person ELSE owner[s]]

\* What the operations are about, on disk.
OnDisk == <<pDisk, vDisk, ref>>

\* An operation: where it is, whom and what it is about, and (history) the state it began in.
Idle == [at |-> "idle", kind |-> "none", person |-> Nobody, other |-> Nobody, new |-> FALSE,
         samples |-> {}, bound |-> FALSE, base |-> <<>>, count |-> 0]

Init ==
    /\ pDisk = FirstPersons /\ pMem = FirstPersons /\ pFresh = TRUE
    /\ pLoading = FALSE /\ pReadable = TRUE /\ pUnsaved = {}
    /\ vDisk = FirstOwner /\ vMem = FirstOwner /\ vFresh = TRUE
    /\ vLoading = FALSE /\ vReadable = TRUE /\ vUnsaved = {}
    /\ ref \in FirstPersons \union {Nobody}
    /\ op = Idle /\ undo = <<>> /\ used = FirstPersons
    /\ slip = FALSE /\ faults = 0
    /\ begun = 0 /\ others = 0 /\ foreign = {}

----------------------------------------------------------------------------
(* The calls of the stores.  Saved or not, a call that got the lock has changed the memory. *)

Goto(at) == op' = [op EXCEPT !.at = at]
Refused == Goto("refused")

\* Something goes wrong; unseen if the service does not look at it.
Fault(unseen) ==
    /\ faults < MaxFaults /\ faults' = faults + 1
    /\ slip' = (slip \/ unseen)

ChangePeople(new, ids) ==
    \/ P!Rewrite(new, ids, TRUE) /\ UNCHANGED mishaps
    \/ P!Rewrite(new, ids, FALSE) /\ Fault(TRUE)

ChangePrints(new, ss) ==
    IF ss = {} THEN V!Find /\ UNCHANGED mishaps
    ELSE \/ V!Rewrite(new, ss, TRUE) /\ UNCHANGED mishaps
         \/ V!Rewrite(new, ss, FALSE) /\ Fault(TRUE)

\* PeopleStore::remove; a missing record is not written.
RemoveRecord(person) ==
    IF person \in P!Current THEN ChangePeople(P!Current \ {person}, {person})
                            ELSE P!Find /\ UNCHANGED mishaps

\* VoiceprintStore::merge, removePerson (to Nobody).
GiveAll(from, to) ==
    LET ss == SamplesOf(V!Current, from) IN ChangePrints(Given(V!Current, ss, to), ss)

\* VoiceprintStore::addPrint, removePrint (to Nobody).
SetOne(s, to) == ChangePrints(Given(V!Current, {s}, to), {s})

\* VoiceprintStore::movePrint; a sample that is gone, or there already, is not written.
GiveOne(s, to) == IF V!Current[s] \in {Nobody, to} THEN V!Find /\ UNCHANGED mishaps ELSE SetOne(s, to)

\* A refusal the service looks at, and one it does not.
RefusedCall == UNCHANGED <<people, prints>> /\ Fault(FALSE)
IgnoredRefusal == UNCHANGED <<people, prints>> /\ Fault(TRUE)

\* A new person, under a new id.
Create(next) ==
    \E id \in Persons \ used :
        /\ ChangePeople(P!Current \union {id}, {id})
        /\ used' = used \union {id}
        /\ op' = [op EXCEPT !.at = next, !.other = id]
        /\ UNCHANGED <<begun, others, foreign>>

----------------------------------------------------------------------------
(* An operation begins with reload(): people.json, then voiceprints.json (removeSample: the latter). *)

\* An operation of the user, or a plain reload.
Begin ==
    /\ op.at = "idle" /\ P!Stamp
    /\ op' = [Idle EXCEPT !.at = "people", !.base = OnDisk, !.count = others]
    /\ UNCHANGED <<prints, ref, undo, mishaps, rest>>

\* undo(): the last step is taken from the stack first.
BeginUndo ==
    /\ op.at = "idle" /\ undo # <<>> /\ P!Stamp
    /\ op' = [undo[Len(undo)] EXCEPT !.at = "people"]
    /\ undo' = SubSeq(undo, 1, Len(undo) - 1)
    /\ UNCHANGED <<prints, ref, mishaps, rest>>

ReloadPeople ==
    /\ op.at = "people" /\ Goto("prints")
    /\ P!Load /\ V!Stamp
    /\ UNCHANGED <<ref, undo, mishaps, rest>>

\* The voiceprints are loaded: an operation goes on with what it is about.
Reloaded(kind) ==
    /\ op.at = "prints" /\ op.kind = kind /\ V!Load
    /\ UNCHANGED <<people, ref, undo, mishaps, used, others, foreign>>

Start == Reloaded("none") /\ begun < MaxBegun /\ begun' = begun + 1
StartUndo(kind) == Reloaded(kind) /\ UNCHANGED begun

ReloadOnly == Reloaded("none") /\ UNCHANGED begun /\ op' = Idle

Done == op' = [op EXCEPT !.at = "done"]

\* Mutant: the stack has no limit.
PushAll(step) == undo' = Append(undo, step)

\* push: the oldest step drops out of a full stack.
Push(step) ==
    LET all == Append(undo, step) IN
        undo' = IF Len(all) > MaxUndo THEN Tail(all) ELSE all

\* The caller has the result; a refused or finished operation is over.
Finish ==
    /\ op.at \in {"refused", "done", "undone"} /\ op' = Idle
    /\ UNCHANGED <<people, prints, ref, undo, mishaps, rest>>

----------------------------------------------------------------------------
(* merge, mergeEverywhere: other folds into person *)

StartMerge ==
    /\ Start
    /\ \E keep, drop \in pMem :
        /\ keep # drop
        /\ op' = [op EXCEPT !.at = "contains", !.kind = "merged", !.person = keep, !.other = drop]

\* mergeEverywhere refreshes once more and looks for both.
BothKnown ==
    /\ op.at = "contains" /\ P!Find
    /\ Goto(IF {op.person, op.other} \subseteq P!Current THEN "fold" ELSE "refused")
    /\ UNCHANGED <<prints, ref, undo, mishaps, rest>>

\* PeopleStore::merge: if people.json is locked nothing else changes either.
FoldRecord ==
    /\ op.at = "fold"
    /\ \/ RefusedCall /\ Refused
       \/ /\ IF {op.person, op.other} \subseteq P!Current
             THEN ChangePeople(P!Current \ {op.other}, {op.other})
             ELSE P!Find /\ UNCHANGED mishaps
          /\ Goto("foldPrints") /\ UNCHANGED prints
    /\ UNCHANGED <<ref, undo, rest>>

\* Mutant: the wrong way round.
FoldBack ==
    /\ op.at = "foldPrints"
    /\ \/ IgnoredRefusal /\ Goto("foldRefs")
       \/ /\ GiveAll(op.person, op.other) /\ UNCHANGED people
          /\ op' = [op EXCEPT !.at = "foldRefs", !.samples = SamplesOf(V!Current, op.other)]
    /\ UNCHANGED <<ref, undo, rest>>

FoldPrints ==
    /\ op.at = "foldPrints"
    /\ \/ IgnoredRefusal /\ Goto("foldRefs")
       \/ /\ GiveAll(op.other, op.person) /\ UNCHANGED people
          /\ op' = [op EXCEPT !.at = "foldRefs", !.samples = SamplesOf(V!Current, op.other)]
    /\ UNCHANGED <<ref, undo, rest>>

FoldRefs ==
    /\ op.at = "foldRefs" /\ Done
    /\ ref' = IF ref = op.other THEN op.person ELSE ref
    /\ Push([op EXCEPT !.bound = (ref = op.other)])
    /\ UNCHANGED <<people, prints, mishaps, rest>>

\* undoMergeEverywhere: both records as they were, then what was moved and is still there.
UndoMerge == StartUndo("merged") /\ Goto("restoreDrop")

RestoreRecord(at, person, next) ==
    /\ op.at = at /\ Goto(next)
    /\ \/ IgnoredRefusal
       \/ ChangePeople(P!Current \union {person}, {person}) /\ UNCHANGED prints
    /\ UNCHANGED <<ref, undo, rest>>

RestoreDrop == RestoreRecord("restoreDrop", op.other, "restoreKeep")
RestoreKeep == RestoreRecord("restoreKeep", op.person, "refreshPrints")

RefreshPrints ==
    /\ op.at = "refreshPrints" /\ V!Find /\ Goto("unfoldPrints")
    /\ UNCHANGED <<people, ref, undo, mishaps, rest>>

\* One sample after the other, each with the lock for itself.
UnfoldPrints ==
    /\ op.at = "unfoldPrints"
    /\ \/ op.samples = {} /\ Goto("unfoldRefs") /\ UNCHANGED <<people, prints, mishaps>>
       \/ \E s \in op.samples :
            /\ op' = [op EXCEPT !.samples = @ \ {s}]
            /\ IF vMem[s] # op.person THEN UNCHANGED <<people, prints, mishaps>>
               ELSE \/ IgnoredRefusal
                    \/ GiveOne(s, op.other) /\ UNCHANGED people
    /\ UNCHANGED <<ref, undo, rest>>

UnfoldRefs ==
    /\ op.at = "unfoldRefs" /\ Goto("undone")
    /\ ref' = IF op.bound /\ ref = op.person THEN op.other ELSE ref
    /\ UNCHANGED <<people, prints, undo, mishaps, rest>>

----------------------------------------------------------------------------
(* removePerson, removeEverywhere: the samples can go to a new anonymous person, other *)

StartRemove ==
    /\ Start
    /\ \E person \in pMem, keepSamples \in BOOLEAN :
        /\ keepSamples /\ SamplesOf(vMem', person) # {} => used # Persons
        /\ op' = [op EXCEPT !.at = IF keepSamples /\ SamplesOf(vMem', person) # {}
                                   THEN "anonymous" ELSE "delete",
                            !.kind = "removed", !.person = person]

MakeAnonymous ==
    /\ op.at = "anonymous"
    /\ \/ RefusedCall /\ Refused /\ UNCHANGED rest
       \/ Create("keepPrints") /\ UNCHANGED prints
    /\ UNCHANGED <<ref, undo>>

KeepPrints ==
    /\ op.at = "keepPrints"
    /\ \/ RefusedCall /\ Goto("givePrintsBack")
       \/ GiveAll(op.person, op.other) /\ UNCHANGED people /\ Goto("delete")
    /\ UNCHANGED <<ref, undo, rest>>

\* PeopleStore::remove: if people.json is locked nothing is deleted.
DeleteRecord ==
    /\ op.at = "delete"
    /\ \/ RefusedCall /\ Goto(IF op.other = Nobody THEN "refused" ELSE "givePrintsBack")
       \/ RemoveRecord(op.person) /\ UNCHANGED prints /\ Goto("deletePrints")
    /\ UNCHANGED <<ref, undo, rest>>

DeletePrints ==
    /\ op.at = "deletePrints" /\ Goto("deleteRefs")
    /\ \/ IgnoredRefusal
       \/ GiveAll(op.person, Nobody) /\ UNCHANGED people
    /\ UNCHANGED <<ref, undo, rest>>

\* Mutant: the undo stack survives.
DeleteRefsOnly ==
    /\ op.at = "deleteRefs" /\ Done
    /\ ref' = IF ref = op.person THEN Nobody ELSE ref
    /\ UNCHANGED <<people, prints, undo, mishaps, rest>>

\* The meetings forget the person, and so does the undo stack.
DeleteRefs ==
    /\ op.at = "deleteRefs" /\ Done
    /\ ref' = IF ref = op.person THEN Nobody ELSE ref
    /\ undo' = <<>>
    /\ UNCHANGED <<people, prints, mishaps, rest>>

\* lockedOut: what already happened goes back.
GivePrintsBack ==
    /\ op.at = "givePrintsBack" /\ Goto("unmake")
    /\ \/ IgnoredRefusal
       \/ GiveAll(op.other, op.person) /\ UNCHANGED people
    /\ UNCHANGED <<ref, undo, rest>>

\* The person the operation made goes too; here and when a sample did not move.
Unmake ==
    /\ op.at = "unmake" /\ Refused
    /\ \/ IgnoredRefusal
       \/ RemoveRecord(op.other) /\ UNCHANGED prints
    /\ UNCHANGED <<ref, undo, rest>>

----------------------------------------------------------------------------
(* moveSample: from person to other, who may be new; removeSample *)

\* The caller found the target in the list of people.  (One that is no longer in it was removed by
\* the other process, and is foreign.)
StartMove ==
    /\ Start
    /\ \E s \in Samples :
        /\ vMem'[s] # Nobody
        /\ \/ \E to \in pMem \ {vMem'[s]} :
                op' = [op EXCEPT !.at = "move", !.kind = "moved", !.person = vMem'[s],
                                 !.other = to, !.samples = {s}]
           \/ /\ used # Persons
              /\ op' = [op EXCEPT !.at = "make", !.kind = "moved", !.person = vMem'[s],
                                  !.new = TRUE, !.samples = {s}]

MakePerson ==
    /\ op.at = "make"
    /\ \/ RefusedCall /\ Refused /\ UNCHANGED rest
       \/ Create("move") /\ UNCHANGED prints
    /\ UNCHANGED <<ref, undo>>

\* Mutant: the person made for the sample stays.
NotMovedOnly == Refused

NotMoved == Goto(IF op.new THEN "unmake" ELSE "refused")

MoveSample ==
    /\ op.at = "move"
    /\ \E s \in op.samples :
        \/ RefusedCall /\ NotMoved /\ UNCHANGED undo
        \/ V!Current[s] = Nobody /\ V!Find /\ NotMoved /\ UNCHANGED <<people, undo, mishaps>>
        \/ V!Current[s] # Nobody /\ GiveOne(s, op.other) /\ Done /\ Push(op) /\ UNCHANGED people
    /\ UNCHANGED <<ref, rest>>

UndoMove == StartUndo("moved") /\ Goto("moveBack")

MoveBack ==
    /\ op.at = "moveBack" /\ Goto("unused")
    /\ \E s \in op.samples :
        \/ IgnoredRefusal
        \/ GiveOne(s, op.person) /\ UNCHANGED people
    /\ UNCHANGED <<ref, undo, rest>>

\* The person made for the sample goes if nothing is bound to it.
DropUnused ==
    /\ op.at = "unused" /\ Goto("undone")
    /\ IF op.new /\ SamplesOf(vMem, op.other) = {} /\ op.other \in pMem /\ ref # op.other
       THEN \/ IgnoredRefusal
            \/ RemoveRecord(op.other) /\ UNCHANGED prints
       ELSE UNCHANGED <<people, prints, mishaps>>
    /\ UNCHANGED <<ref, undo, rest>>

BeginRemoveSample ==
    /\ op.at = "idle" /\ V!Stamp
    /\ op' = [Idle EXCEPT !.at = "sample", !.base = OnDisk, !.count = others]
    /\ UNCHANGED <<people, ref, undo, mishaps, rest>>

\* The sample may be gone.
StartRemoveSample ==
    /\ op.at = "sample" /\ V!Load
    /\ \/ op' = Idle /\ UNCHANGED begun
       \/ /\ begun < MaxBegun /\ begun' = begun + 1
          /\ \E s \in Samples :
                /\ vMem'[s] # Nobody
                /\ op' = [op EXCEPT !.at = "removeSample", !.kind = "sampleRemoved",
                                    !.person = vMem'[s], !.samples = {s}]
    /\ UNCHANGED <<people, ref, undo, mishaps, used, others, foreign>>

RemoveSample ==
    /\ op.at = "removeSample"
    /\ \E s \in op.samples :
        \/ RefusedCall /\ Refused /\ UNCHANGED undo
        \/ V!Current[s] = Nobody /\ V!Find /\ Refused /\ UNCHANGED <<people, undo, mishaps>>
        \/ V!Current[s] # Nobody /\ SetOne(s, Nobody) /\ Done /\ Push(op) /\ UNCHANGED people
    /\ UNCHANGED <<ref, rest>>

UndoRemoveSample == StartUndo("sampleRemoved") /\ Goto("addBack")

AddBack ==
    /\ op.at = "addBack" /\ Goto("undone")
    /\ \E s \in op.samples :
        \/ IgnoredRefusal
        \/ SetOne(s, op.person) /\ UNCHANGED people
    /\ UNCHANGED <<ref, undo, rest>>

----------------------------------------------------------------------------
(* The other process *)

Other(ids) ==
    /\ others < MaxOthers /\ others' = others + 1
    /\ foreign' = foreign \union ids
    /\ UNCHANGED <<op, undo, mishaps, begun>>

\* (Of the bounded ids it leaves the operation the one it is about to generate.)
OtherCreates ==
    /\ Other({}) /\ op.at \notin {"anonymous", "make"}
    /\ \E id \in Persons \ used : P!Overwritten(pDisk \union {id}) /\ used' = used \union {id}
    /\ UNCHANGED <<prints, ref>>

OtherRemoves ==
    \E id \in pDisk :
        /\ Other({id}) /\ P!Overwritten(pDisk \ {id})
        /\ IF SamplesOf(vDisk, id) = {} THEN UNCHANGED prints
           ELSE V!Overwritten(Given(vDisk, SamplesOf(vDisk, id), Nobody))
        /\ ref' = IF ref = id THEN Nobody ELSE ref
        /\ UNCHANGED used

OtherAddsSample ==
    \E id \in pDisk, s \in SamplesOf(vDisk, Nobody) :
        /\ Other({id}) /\ V!Overwritten(Given(vDisk, {s}, id))
        /\ UNCHANGED <<people, ref, used>>

----------------------------------------------------------------------------
(* Whether the files can be opened; load() of either store does not report that it could not. *)

BarFile ==
    /\ \/ P!Bar /\ UNCHANGED prints
       \/ V!Bar /\ UNCHANGED people
    /\ Fault(TRUE)
    /\ UNCHANGED <<ref, op, undo, rest>>

FreeFile ==
    /\ \/ P!Free /\ UNCHANGED prints
       \/ V!Free /\ UNCHANGED people
    /\ UNCHANGED <<ref, op, undo, mishaps, rest>>

Next ==
    \/ Begin \/ BeginUndo \/ ReloadPeople \/ ReloadOnly \/ Finish
    \/ StartMerge \/ BothKnown \/ FoldRecord \/ FoldPrints \/ FoldRefs
    \/ UndoMerge \/ RestoreDrop \/ RestoreKeep \/ RefreshPrints \/ UnfoldPrints \/ UnfoldRefs
    \/ StartRemove \/ MakeAnonymous \/ KeepPrints \/ DeleteRecord \/ DeletePrints \/ DeleteRefs
    \/ GivePrintsBack \/ Unmake
    \/ StartMove \/ MakePerson \/ MoveSample \/ UndoMove \/ MoveBack \/ DropUnused
    \/ BeginRemoveSample \/ StartRemoveSample \/ RemoveSample \/ UndoRemoveSample \/ AddBack
    \/ OtherCreates \/ OtherRemoves \/ OtherAddsSample \/ BarFile \/ FreeFile

Spec == Init /\ [][Next]_vars

----------------------------------------------------------------------------
Places ==
    {"idle", "people", "prints", "sample", "refused", "done", "undone",
     "contains", "fold", "foldPrints", "foldRefs",
     "restoreDrop", "restoreKeep", "refreshPrints", "unfoldPrints", "unfoldRefs",
     "anonymous", "keepPrints", "delete", "deletePrints", "deleteRefs", "givePrintsBack", "unmake",
     "make", "move", "moveBack", "unused", "removeSample", "addBack"}

Operations ==
    [at : Places, kind : {"none", "merged", "removed", "moved", "sampleRemoved"},
     person : Persons \union {Nobody}, other : Persons \union {Nobody}, new : BOOLEAN,
     samples : SUBSET Samples, bound : BOOLEAN,
     base : {<<>>} \union ((SUBSET Persons) \X Owners \X (Persons \union {Nobody})),
     count : 0 .. MaxOthers]

TypeOK ==
    /\ pDisk \subseteq used /\ pMem \subseteq Persons /\ pUnsaved \subseteq Persons
    /\ pFresh \in BOOLEAN /\ pLoading \in BOOLEAN /\ pReadable \in BOOLEAN
    /\ vDisk \in Owners /\ vMem \in Owners /\ vUnsaved \subseteq Samples
    /\ vFresh \in BOOLEAN /\ vLoading \in BOOLEAN /\ vReadable \in BOOLEAN
    /\ ref \in Persons \union {Nobody} /\ op \in Operations
    /\ undo \in Seq(Operations) /\ Len(undo) <= MaxUndo
    /\ used \subseteq Persons
    /\ slip \in BOOLEAN /\ faults \in 0 .. MaxFaults
    /\ begun \in 0 .. MaxBegun /\ others \in 0 .. MaxOthers /\ foreign \subseteq Persons

\* The store takes its memory for the file, or cannot look.
Blind == ~pReadable \/ (pFresh /\ ~pLoading /\ pMem \ pUnsaved # pDisk \ pUnsaved)
OfWriters(service, other) == [w \in {"service", "other"} |-> IF w = "service" THEN service ELSE other]

\* No update of people.json is lost, unless the file could not be opened: every write of either process
\* is one change of the records as they are on disk, never of the records one of them remembers.  Only
\* a store that was kept from opening the file since the other process wrote it writes what it
\* remembers (PeopleStore::load keeps the stamp then); it reads the file before that if the other
\* process writes again.
Shared == INSTANCE SharedSet
    WITH Writers <- {"service", "other"}, Ids <- Persons, content <- pDisk,
         remembered <- OfWriters(pMem, pDisk), unsaved <- OfWriters(pUnsaved, {}),
         readable <- OfWriters(pReadable, TRUE), blind <- OfWriters(Blind, FALSE)
NoLostUpdate == Shared!Spec

\* Between operations every voice sample, and the speaker of the meeting, belongs to a person there
\* is, apart from those the other process dealt with.
NothingOrphaned ==
    op.at = "idle" /\ ~slip =>
        \A person \in {vDisk[s] : s \in Samples} \union {ref} :
            person \in {Nobody} \union pDisk \union foreign

Undisturbed == op.count = others /\ ~slip

\* "Nothing is deleted, and what already happened goes back": an operation that was refused
\* somewhere on its way has changed nothing.
RefusedChangesNothing == op.at = "refused" /\ Undisturbed => OnDisk = op.base

\* An undo brings back exactly what was there before the operation, also after later operations
\* were undone.
UndoRestores == op.at = "undone" /\ Undisturbed => OnDisk = op.base
=============================================================================
