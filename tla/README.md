# Tanara in TLA+: recording, processing, shared data, undo

Tanara records meetings: several capture devices (microphones and the system audio) at once, each
into a file of its own, while devices come and go and the machine sleeps; it then mixes,
transcribes, summarises and edits what it recorded. This directory holds TLA+ modules translated
from the C++ source, the TLC runs that check them on small instances, and theorems checked by
TLAPS. `PROJECT.json` names every run, property, mutant, theorem and hazard, and maps every
definition to the source lines it stands for.

    tlc -workers 2 -config SessionReopen.cfg MCRecordingSession
    tlapm RecordingSession_proofs.tla

All source paths below are relative to `src/core/src/` unless they start with `src/`.

## 1. The system

### Parts, their state, how they meet

| part | state it keeps | operations | meets |
|---|---|---|---|
| **Capture ring** `recording/audio/RingBuffer.h` | two wrapping counters, the sample array | `write` (audio callback), `read` (drain worker), `available` | one producer thread, one consumer thread, no lock |
| **Audio engine** `recording/audio/AudioEngine.cpp` | a slot per device ever opened: ring, whether it captures | open, close, `deviceLost`, bounded teardown (`DetachedJob`) | callbacks write the rings; the session opens and closes |
| **Drain worker** `recording/audio/RecordingSession.cpp:60-420` | per track: encoder, clock of the last data, stall mark, sleep cut | `tick` every 20 ms; `addEncoder`, `closeEncoder`, `finalize` | own thread; commands queued from the session, signals queued to it, `addEncoder` blocks the session |
| **Recording session** `recording/audio/RecordingSession.cpp` | tracks, used file names, lost devices looked for, gaps, stall warnings, re-open timer | `start`, `addDevice`, `closeTrack`, `stop`, the loss watch, `onSlept`, `pollReopen`, `onFinalized`, destructor | main thread; the lister it calls may re-enter it |
| **Timing rules** `recording/audio/TrackTiming.cpp` | none | when silence is owed, what a stall and a sleep are | used by the worker and the session |
| **Recording service** `recording/RecordingService.cpp` | state, current session, three books of device names, absence counts, power inhibitor, watches | `start`, `stop`, `addDevice`, `stopDevice`, enumerations, handlers of the session's signals | the shells call it; sessions signal it |
| **Level monitor** `recording/audio/DeviceMonitor.cpp` | request generation, wanted, names | `start`, `stop`, levels | background thread that opens devices |
| **Mixdown** `recording/MixdownService.cpp` | the ffmpeg of a meeting, the cancelled set; mix and dirty mark in the meeting | `regenerate`, `cancel`, the end of ffmpeg | child process, meeting store, job tracker; the transcription waits for it |
| **Job tracker** `library/jobs/MeetingJobTracker.cpp` | running jobs, remembered errors (a file per meeting) | begin, cancelling, finish, fail, cancelled | every workflow |
| **Processing** `processing/` | a run per meeting of the transcription, the separation of speakers, their identification | start, the end of the run, cancel | provider, threads; ends come by the event loop |
| **Workflows** `app/Workflows.cpp` | what waits for a mix, flags of the chain | transcribe, retranscribe, separate, identify, the speech check, cancel | everything above |
| **File lock** `src/core/include/tanara/foundation/SharedFile.h` | a queue of tickets per process, a lock file, a marker of a waiter | lock with a deadline, unlock | threads of several processes |
| **People** `library/people/` | `people.json`, `voiceprints.json`, each with a copy in memory and a stamp; an undo stack | merge, remove, move or remove a sample, and their undo | the locks, the meetings, other processes |
| **Undo** `editing/undo/` | one list over the steps of the editor, of the tags and of its own | follow the sources, undo | `SpeakerEditSession`, `TagService` |
| **Meetings, summaries, catalog, import** `library/` | data of meetings | sequential transformations | main thread |
| **Providers, cloud** `providers/`, `cloud/` | protocols against services | | network |
| **Call watcher** `watcher/`, **foundation** `foundation/` | detector state; locks, settings, secrets | | |
| **Shells** `src/gui`, `src/cli`, `src/demo` | view state | they start and stop recordings | |

### What is hard

* **Two threads, two queues and one blocking call.** The session and the drain worker exchange
  queued calls; `openTrack` blocks on the worker behind every close posted before it, and a close
  may take seconds. What the session looked up before the wait must still hold after it, and
  signals handled after it may speak of tracks long replaced.
* **Loss, re-open, sleep, in any order.** A device is lost (noticed by the backend, by an
  enumeration, or by a sleep), looked for every 1.5 s, re-opened under its id or its name, perhaps
  renamed, switched on by hand meanwhile, lost again while the poll that looks for it enumerates.
* **Time.** The monotonic clock stands still in a sleep and the wall clock does not; the worker
  learns of it at its next tick, the session later still.
* **Ends.** `stop`, the destructor and a failed start meet whatever is under way.
* **Results that come late.** A mix, a transcript, a separation or a set of names arrives after the
  tracks, the transcript or the user's wish it was made for have changed, or after it was cancelled.
* **Several processes.** The window and the command-line tool rewrite the same files; either may die
  with a lock in its hand, and an operation on several files can be refused in the middle.
* **Three undo stacks seen as one.** Each is limited, cleared and undone on its own.
* **Books kept twice.** The service's lists of names shadow the session's tracks.
* **Lock-free counters** that wrap.

What makes each part correct is stated with its module below; every hazard met, covered or not, is
listed in `PROJECT.json` at its line.

## 2. The modules

    SampleQueue <-- implements -- RingBuffer <-- RingBuffer_proofs
    TrackTiming <-- DrainWorker <-- RecordingSession <-- RecordingSession_proofs
                                                         <-- RecordingTimeline_proofs
    RecordingService <-- RecordingService_proofs        (sees a session through its signals)
    JobTracker <-- Workflows <-- Workflows_proofs       (mix, transcription, speakers, names)
    FileLock <-- FileLock_proofs
    SharedStore (twice) <-- People <-- People_proofs
    SharedSet <-- implements -- People (its list of persons)
    MeetingUndo <-- MeetingUndo_proofs
    MC*: values for TLC

### RingBuffer, SampleQueue

`head`, `tail`, `data` are `head_`, `tail_`, `buf_`. `write()` is three actions: the snapshot of the
other side's counter with the choice of how much fits (`WriteBegin`), one sample of the `memcpy`s
(`WriteCopy`), the release store (`WritePublish`); `read()` likewise. The copies of the two threads
interleave sample by sample. The counters are taken modulo `Modulus`, which stands for 2^64; the
array size is a power of two below it (`SizeAssumption`, `WidthAssumption`). `SampleQueue` is the
promise: a bounded FIFO that takes a block whole or the part that fits and gives blocks in order.
The acquire/release pairs make each snapshot a value the other side published; the model takes them
as sequentially consistent, which is exactly what the two orderings give a single-producer
single-consumer ring. `available()` is the snapshot of `read()`; called from a third thread it can
see a tail newer than its head (hazard, no such caller exists).

### TrackTiming

The pure rules, in units of time at which a device delivers one frame, so that milliseconds and
frames are the same number. The thresholds are constants.

### DrainWorker

`enc` is the worker's vector of `EncTrack`, an encoder being the number of frames in its file
(`written`; kept for loopbacks only, the one kind whose file is filled with silence). `tick` is one
action: sleep detection, the cut of every track, the drain of every ring, stalls and their end.
`closeEncoder` and `finalize` are the commands taken from `inbox` in order; signals go to `outbox`.
The tracks of one tick share one signal entry: their handlers touch different names or the same way.
`eng` is the engine's slots (capturing or not, frames in the ring) and `clock` the recording clock.
Level metering is left out.

### RecordingSession

The main thread. A handler that runs to its end without calling out is one action. Three are not:

* `openTrack` — `BeginOpen` (device open, name taken, blocking call posted) and `AddEncoder` or
  `AddEncoderFails` (the worker reaches the call; the rest of `openTrack` and of `resolveReopen`);
* closing several tracks — `closing` holds the tracks left, `CloseNext` takes one: the worker and
  the devices go on in between;
* `pollReopen` — `PollBegin`, `PollListed` (the list is taken; during the call the owner may close a
  track: `CloseTrack` with `detached`), then one action per entry, by index, as the loop in the code.

`Free` says that the event loop may run another handler. `Destroy`/`DestroyEnd` are the destructor:
blocked until the worker has run `finalize`. `tracks`, `usedSlugs`, `pending`, `gaps` and `stalled`
are the members of those names in `Impl`. A file name is the base slug as a sequence of
numbers with a suffix appended, so that the slug of one device may be the suffixed slug of another.
`MakeTrack`/`Start` are a start that succeeds; a failed start leaves no session state and is
`StartFails` of the service. The meeting `onFinalized` assembles is kept (`meeting`, `Label`) for
the properties of later modules.

`closeDevice` is modelled as stopping the capture at once; the code gives the backend 1.5 s and then
leaves the device to a detached thread, which is a module of the plan.

### RecordingService

The state machine around sessions. A session is seen through its signals: names of open tracks,
names looked for, the names of all its tracks by index, and `recording`, `encoding`, `doomed`
(dropped with `deleteLater`), `gone`. Its own books are `recNames`, `recClosed`, `recOff`,
`recMissing`; `recNames` is a list as in the code, in which a device that came back is once more,
and the loop that counts absences comes to it as often (`Occurrences`). In which states callers call `start`
and `stop` is a parameter, since the shells guard the calls, not the service. The level monitor, tags
and remembered devices are not part of it.

### JobTracker, Workflows

What happens to one meeting after the recording; every service keys its state by meeting, so one
meeting is the whole system. The handlers run on the main thread and each is one action:
`RegenerateMixdown`, `ChangeTracks`, `StartSpeechCheck` and `FinishSpeechCheck`; `Transcribe`
(also re-transcribe); the ends of what runs beside the main thread, `MixEnds`, `SttDone`, `SttFails`,
`DiarApplied`, `DiarUnchanged`, `DiarCancelDelivered`, `IdentEnds`; the manual `DiarizeSpeakers`,
`Identify`, `NameSpeakers`; and the cancels by what they find running. Signals are direct calls in
the code, so `finished` of the mix, the wake-up of the waiting transcription and its start at the
provider are one step (`MixEnds`, `Announce`, `StartStt`). What is asynchronous stays so: a
cancelled separation posts its outcome (`posted`), and a newer separation may run when it arrives.

Contents are versions. `tracks` counts changes of the active tracks, a mix is the version it was made
of, `gen` counts transcripts and is also the stamp an identification keeps of what it listened to,
`names` says to which transcript the speaker names belong. `JobTracker` gives the calls of the book
as functions from book to book, because a handler makes several.

### FileLock

`SharedFileLock`: `queue` and `gate` are the `FileGate` of each process, `file` the lock file of
`QLockFile` (the process it names, whether it counts as stale), `marker` the file a waiter leaves.
A thread goes through `TakeTicket`, `PassGate`, `YieldToWaiter` (and `EndYield`), then tries
(`Acquire`, `RemoveLeftover`, `Poll`) until it holds or gives up. Faults: a deadline, a deletion that
fails, a process that dies anywhere; it may start again. Real time enters twice, both as the code's
constants intend: a stand-back outlasts one poll of every waiter (`owed`), and a lock file is stale
only after nobody holds it: a holder holds for milliseconds, the stale time is half a minute
(`SharedFile.h:207`). A process suspended for longer while it holds is outside the model.

### SharedSet, SharedStore, People

`SharedStore` is the cycle both stores have: take the lock, reread if the stamp differs, change,
write; and the unlocked `refresh`. A locked change is one step, by `FileLock`; the unlocked load is
two, stamp and content. A save that fails leaves the memory ahead of the disk (`unsaved`). `load()` takes
the stamp first and keeps the old records if the file cannot be opened then; `readable` says whether
it can (`Bar`, `Free`: another program keeps it, a scanner or a backup), and `Stays` that a modification
starts from the memory, because the stamp is the file's or because the reload under the lock could not
open it. A file that is missing or damaged is not modelled.
`SharedSet` is the promise to the writers: each write is one change of what is on disk, but that of a
writer that could not open the file when it last looked (`blind`), which is one change of what it
remembers. A blind writer that can open the file again sees it after the next write of another.

`People` uses two stores and a meeting. An operation (merge, removal, moving or removing a sample,
and the undo of each) is a program counter `op.at` over the calls of `PeopleService`; at each call
the other process may have changed a file, the lock may be refused, or the save may fail, and the
service takes back what it did before, as far as the code does. `slip` records the failures the
service ignores (they are listed below) and that a file could not be opened (`BarFile`), which it is not
told; `count` and `others` tell whether the other process intervened. The target of a moved sample is
picked among the people the store knows: `PeopleStore::resolve` takes any id, but one the list no
longer has was removed by the other process, and `NothingOrphaned` excepts those (`foreign`).

### MeetingUndo

`edUndo`, `edRedo`, `tagUndo` are the stacks of the editor and of `TagService`, which are also undone
directly; `entries` is the shared list, brought up to date by `Follow` after every change: `Merged`
drops the entries whose step is gone and appends the steps not known, `Trimmed` keeps the limit,
`WithEditor` and `WithTags` do it for one source. `Only` stands for the loops of `removeAt`; it is
written as a recursive function so that it can be reasoned about. A participant operation adds an
entry of its own and absorbs the editor step made on the way (`ChangeBoth`). An undo of a tag step
that the lock of the tags refuses puts the step back on top (`PutBack`). The editor opens, reloads,
closes and is destroyed later. The meeting is three values named by the clock. `was`, `is`, `made` and
`lost` are history: the meeting before and after each step, when the step came to the top of its
stack, and whether the list has dropped an entry.

## 3. The runs

| run | question | bounds | size |
|---|---|---|---|
| `ring` | torn, lost or reordered samples; wrapping counters | 4 slots, counters modulo 8, blocks up to 3, two samples | 50 thousand states |
| `session_reopen` | chains of segments, files, re-opens, ends, liveness | a headset, the same renamed, a system device; 3 openings, one unit of time, no sleep, one file missing at the end | 1.4 million |
| `session_sleep` | files, cuts, gaps, warnings through sleeps and stalls | a microphone and a system-audio track, 2 openings, 2 units of time and 2 asleep | 3.5 million |
| `session_two_sleeps` | violated, see below | one system-audio track, two sleeps | |
| `session_renamed` | violated | as `session_reopen` | |
| `service` | books, release of resources, saving, second looks | two devices, two recordings of up to three tracks, callers that guard | 0.6 million |
| `service_stop_twice` | violated | `stop()` also while encoding | |
| `service_missing` | violated | three devices | |
| `workflows` | do book, services, transcript, names and mix agree in every order of ends and cancels; does a transcription end | 2 versions of the tracks, 3 transcripts, 2 cancels in flight | 0.4 million |
| `file_lock` | one holder; nobody is locked out by those who lock again | two processes of two threads, 3 faults | 20 thousand |
| `people` | lost updates, half-done operations, undo | 3 persons, 2 samples, 3 operations, 1 fault, 1 change by the other process, 2 undo steps | 7.1 million, 75 s |
| `undo` | does undo take back the right step, all of it | stacks of 2, a shared list of 4, 5 changes | 3.9 million |

**Why the bounds are enough.** Three openings with two names of one id are the least in which a
segment is continued under another name while a third device records, is lost inside the poll, or
takes the name of an earlier one; one unit of time is the window after which a search is given up, so
both a re-open and an end of the search occur. In `session_sleep` the ring holds one frame, which is
all that tells a drained ring from one with data left. A counter modulo 8 over 4 slots wraps during
every behaviour of interest and leaves the mask a proper divisor. Two recordings are the least with
a session dropped while another runs. Two devices are the least that can share or lose the last
track; the violated runs take a third. In `workflows` two versions of the tracks give a change before,
during and after a mix; three transcripts give one, its separation and a re-transcription, with an
identification of the first still running; two posted outcomes let one arrive at a separation it
does not belong to. In `file_lock` two threads in each process are the least with a queue at the gate
and a competitor outside. In `people` three ids allow a merge into a person, one made by a move, and
one removed; three operations allow an undo of an undoable one after another was refused; one fault is a
refusal, a failed save or a file that cannot be opened, and with two operations two of them pass too
(3.3 million states; the theorems have no bound). In `undo`
both stacks overflow and five changes allow an edit, a tag, a participant step that absorbs another,
an undo and a redo; the shared list of four does not overflow before the stacks under it do. The clock
bound ends that run, hence no deadlock check there.

**Properties.** What each says stands above it in its module; in short:

* ring — `CopiesDisjoint` (no slot is written and read at once), `ImplementsQueue`
  (refinement of `SampleQueue`);
* session — `UniqueFiles`; `PendingWatched` (who is looked for has a timer); `SegmentChain`;
  `JoinsOnce`; `ClosedBeforeTeardown`; `StopEnds`; and with sleeps `FilesComplete`,
  `SuspendedWillClose`, `WarningsTrue`, `CutHolds`, `HolesExplained` (a hole between a segment and
  its continuation has its gap, and no file is cut but where a sleep began);
* service — `LiveMatchesOpen`, `LevelsNamed` (levels are reported through a list that must follow the
  tracks by index), `IdleReleases`, `StopSaves`, `MissingFollowedUp`;
* workflows — `JobsMatchWork` (a listed job is worked on, work is listed), `NamesOfTranscript` and
  `IdentifiedIsCurrent` (late names and marks never land on another transcript), `AudioIsCurrent` and
  `CleanUnlessRaced` (a mix of other tracks comes from one race only, finding below),
  `CancelStopsChain`, `TranscribeCloses`;
* file lock — `OneHolder`, `WaiterServed`;
* people — `NoLostUpdate` (`people.json` under two processes implements `SharedSet`: only a store kept from
  opening the file writes over what the other process wrote), `NothingOrphaned`,
  `RefusedChangesNothing`, `UndoRestores`;
* undo — `EntriesMirror` (the list has exactly the steps of its sources), `UndoesLatest`,
  `ExactlyBack`.

Every property has a mutant of the code it depends on (`PROJECT.json`), such as a re-open timer
stopped whatever is pending, a suffix that counts tracks instead of trying names, or a `finalize`
that reports only when something was still open; TLC finds each of them violating its property.

**Not in the bounds.** Two devices that swap their names break `WarningsTrue` in the code too: it
speaks of names where the code matches by id first. Two devices of the same name share one re-open.
Neither is among the device sets of the runs; the theorem draws the same line (`OneDevice`). `WaiterServed` is about two processes: with three, the
marker of one waiter is removed by another that gets the lock, and the third may lock ahead of it
for ever. `EntriesMirror` and `UndoesLatest` speak of a list that has not overflowed (`lost`): beyond
that they fail in the code (below).

**Fairness.** `FairSpec` of the session asks that the worker runs the commands posted to it and that
the main thread runs the handlers queued for it: both are Qt event loops, and no handler of either
waits for anything but the other's queue. A tick, the user, the devices and the clock are free to do
nothing. The service asks that a single-shot timer that is due fires and that an encoding session
reports its end, which is what `StopEnds` shows of the session. In `workflows` ffmpeg exits, the
provider answers or gives up, threads end and posted calls are delivered: each is a child process, a
network call with a timeout or an event loop; the user does nothing if he likes. In `file_lock` a
thread that asked goes on and time passes for a file left behind; nobody has to ask, and at most
`MaxFaults` things go wrong. Deadlock is checked in every run but `undo`; a
recording that is over stutters explicitly (`Over`), and `people` ends with `Idle` operations that
may always reload.

### Disagreements found

1. **A second sleep fills the first with silence** (`session_two_sleeps`, `SleepNeverFilled`,
   `RecordingSession.cpp:327`): the cut of an open track is overwritten when the machine sleeps again
   before the session has handled the first sleep.
2. **A warning that nothing withdraws** (`session_renamed`, `RenamedStallOver`,
   `RecordingSession.cpp:588`): the stall signal of a lost device is handled after the device came
   back under another name.
3. **A stopped recording thrown away** (`service_stop_twice`, `NeverDiscarded`,
   `RecordingService.cpp:552`): `stop()` while encoding makes the session answer `failed`; the
   service drops it and the meeting is not saved.
4. **One absence closes a device that came back** (`service_missing`, `TwoAbsences`,
   `RecordingService.cpp:255`): its name is in `recNames` twice, one enumeration counts it twice.
   The count also survives switching a device off and on.

Also met, without a run.

*Recording:* a late device-lost gap stands after a sleep that began later although `gaps()` promises
time order; a device opened between a wake-up and the worker's next tick gets an offset without the
sleep; a device opened between that tick and the session's handling of the sleep missed nothing and is
cut and re-opened like the others (`HolesExplained` had to admit it); two recordings of one title in one
minute share a folder; the level monitor is not restarted once its device list was empty.

*Processing:*

* A remix asked for while a mix runs is dropped, "that result serves everyone"
  (`MixdownService.h:37`), although the tracks changed under it, and its end clears the mark
  (`MixdownService.cpp:155`): the mix stays wrong and unmarked. `missed`, `changed` and `raced` record
  it; `AudioIsCurrent` and `CleanUnlessRaced` show that it is the only way.
* Cancelling a transcription that started its mix dooms the mix; a transcription begun before ffmpeg
  has exited waits for it and fails with it. A mix the user cancels fails the transcription that waits.
* The identification at the end of a chain is skipped silently while the thread of an older, cancelled
  identification still runs.
* A second cancel of a separation posts a second outcome, which closes whatever separation runs then.
* A speech check begun by a view swallows the automatic mix after a recording.
* An identification whose model could not be loaded is marked done (`VoiceAnalysisService.cpp:877`);
  the analysis of participants overwrites those built from the separation
  (`VoiceAnalysisService.cpp:1129` says they are dropped).

*People:*

* `VoiceprintStore::persist` returns nothing, so adding and moving a sample succeed although the save
  failed; `PeopleStore::create` ignores a failed save too. The memory is then ahead of the disk with
  an equal stamp, until another process writes.
* A load that cannot open the file keeps the old records under the new stamp (`PeopleStore.cpp:414`,
  `VoiceprintStore.cpp:355`); the next modification takes them for the file and writes them over what the
  other process wrote, where `PeopleStore.h:26` says that every modification rereads the fresh state.
  Six steps: an operation begins and loads `people.json`, a removal sets out, the other process adds a
  person, the file cannot be opened, the removal writes the list without that person. `NoLostUpdate`
  states it as the exception (`blind`); without it TLC finds these steps.
* `PeopleStore::ensure` looks a name up without the lock; two processes make two persons of it.
* Merging or removing everywhere ignores a refused lock of the voice samples, and removal ignores
  refusals while it takes back; samples of nobody remain (`slip`).
* Undoing a merge puts the kept person back as it was before, over what was changed since.

*Undo:*

* A step dropped from the full list is unknown at the next comparison and is appended at the end
  (`MeetingUndo.cpp:74`).
* With the tags locked by another process `undo()` still reports success, and the step comes back on
  top, above steps made later. `UndoesLatest` said otherwise until it met this case at six changes; a
  step put back now counts as made then.
* The editor's redo of a step that a participants' entry absorbed finds the step known
  (`MeetingUndo.cpp:43`) and leaves the entry where it is, although "the restored step is the most
  recent" (`MeetingUndo.h:14`).
* An operation of two editor steps absorbs only the last.
* Undoing a participant step overwrites participant changes made without a step; redo in the editor of
  an absorbed step restores the editor's half alone; undoing a tag step writes the remembered list
  over what another process added.

## 4. The proofs

| module | about | theorems |
|---|---|---|
| `RingBuffer_proofs` | the ring | `TypeCorrect`, `FillBoundedHolds`, `CopiesDisjointHolds`, `ImplementsQueueHolds` |
| `RecordingSession_proofs` | types, names, what is looked up before a wait | `TypeCorrect`, `UniqueFilesHolds`, `PendingWatchedHolds`, `JoinsOnceHolds` |
| `RecordingTimeline_proofs` | files, segments, gaps, warnings | `ClosedBeforeTeardownHolds`, `FilesCompleteHolds`, `SuspendedWillCloseHolds`, `CutHoldsHolds`, `SegmentChainHolds`, `HolesExplainedHolds`, `WarningsTrueHolds` |
| `RecordingService_proofs` | the books of the service | `TypeCorrect`, `LiveMatchesOpenHolds`, `LevelsNamedHolds`, `IdleReleasesHolds`, `LastTrackStaysHolds` |
| `Workflows_proofs` | jobs, transcript, names, mix | `TypeCorrect`, `JobsMatchWorkHolds`, `NamesOfTranscriptHolds`, `IdentifiedIsCurrentHolds`, `AudioIsCurrentHolds`, `CleanUnlessRacedHolds`, `CancelStopsChainHolds` |
| `FileLock_proofs` | the lock | `Exclusive` |
| `People_proofs` | the shared list of persons, operations over three files | `TypeCorrect`, `NoLostUpdateHolds`, `RefusedHolds`, `UndoHolds`, `NothingOrphanedHolds` |
| `MeetingUndo_proofs` | three stacks seen as one | `TypeCorrect`, `EntriesMirrorHolds`, `UndoesLatestHolds`, `ExactlyBackHolds` |

They hold for every value of the constants that the assumptions admit: `SizeAssumption` and, for
`CopiesDisjoint` and the refinement, `WidthAssumption` for the ring; `SessionAssumption`,
`TimingAssumption` and `IdleSilentAssumption` for the session (thresholds and bounds are naturals,
names have a slug, nothing about how many devices there are or how they are called);
`ServiceAssumption` for the service (finitely many names); `WorkflowsAssumption` (the bounds are
naturals); `ThreadsAssumption` for the lock (every thread has a process); `PeopleAssumption` (the
samples start with persons there are, the bounds are naturals); `UndoAssumption` (the limits are
positive, the bound of the clock is a natural). Two theorems have a hypothesis of their own: those on
the service take `Guarded` (below), and `WarningsTrueHolds` takes `OneDevice`: a name belongs to one
device, which may have several names.

*Ring.* The fill level with a write under way never passes
`Capacity - 1` and a read never asks for more than is there; this is inductive because each side's
snapshot can only be pessimistic: the other side moves its counter away from it. The lemmas on `Add`
and `Dist` are the arithmetic of counters that wrap. `CopiesDisjoint` follows from the fill level:
two counters whose distance lies strictly between 0 and `Capacity` are masked to different slots
(`SlotsApart`), which across the wrap needs `Capacity` to divide `Modulus`. The refinement reads the
queue off the array (`QueueOf`: the slots from tail to head) and rests on `Copied`: what a write under
way has copied stands right behind the queue, what a read has copied out is its front. A copy of one
side leaves the other's slots alone by `CopiesDisjoint`'s argument, so only the two publishing stores
change the abstract queue: a write appends its block, a read drops what it returns.

*Session.* The four theorems come from one inductive invariant `IInv`. The types alone are not
inductive, nor is `UniqueFiles`:

* every track, here and at the worker, has a slot of the engine (`SlotsOK`), or draining and closing
  it would mean nothing;
* while `openTrack` is blocked, the pending entry it opens for and the position of the poll still
  exist and no open track has the name (`WaitHolds`): what was looked up before the wait holds after
  it, which gives `JoinsOnce`;
* before a recording and after its end no close and no opening is half done (`Quiet`);
* every name in use is in `usedSlugs`, the one being opened too, and none twice (`SlugsTaken`): a
  failed encoder gives back a name that is nobody else's;
* `PendingWatched` itself.

The proof has one lemma per action (`MakeTrackStep` … `SleepStep`); each takes the parts the action
leaves alone from the `Keep…` lemmas and proves the rest. Facts on sequences (`RemoveAtIsSeq`,
`MapIsSeq`) and on tracks of the worker (`FilledIsTrack`, `DrainedIsTrack`) are stated once.

*Timeline.* What a recording leaves on disk, on top of `IInv`. `StepKinds` sorts the actions into the
few kinds of steps these arguments tell apart. `Calls` says what handlers may be in the middle of,
`Paired` that each track has its encoder, on its slot and with its offset. Then one invariant per
argument:

* `Ending`: `finalize` is the last command of a recording that ends, its signal comes only after it has
  run, and then every file is closed. That makes both ends of a recording safe (`ClosedBeforeTeardown`).
* `Closes`: a close is posted for exactly the closed tracks whose file is not complete, and their devices
  capture no more. `FilesComplete` needs it: the ring a close empties must not fill again behind it, nor
  be somebody else's. `SuspendedWillClose` needs it for the last of its three cases.
* `Frames` with `Fits`: file and ring together are never longer than the recording since the track's offset,
  and a file that was cut never reaches past its cap. The first half is why the drain after a cut, and the
  silence a loopback is owed, stay below it (`CutHolds`).
* `Chain`: each lost device has left a closed segment, no segment is looked for twice, and what is being
  opened behind the blocking call continues what it was looked up for. `SegmentChain` is not inductive
  without the last part: the segment is added after the wait.
* `Holes`: of everything that can still become a continuation (a signal in the queue, tracks of the closing
  loop, an entry looked for, a track being opened) it says which gap will explain it, with the times in
  between. A track opened after the worker's tick and before the session handled the sleep begins after the
  sleep and is cut all the same, so a gap of a sleep may also lie before the segment it ends: the property
  said otherwise until the proof met this case, which lies outside the bounds of the run it was in.
* `Cuts`: a file is cut at the start of a sleep whose signal or gap is there.
* `Warned`: the signals under way turn the session's warnings into what the worker holds. `Says` states it
  for one track and any queue: either no signal is about the track and the two agree, or the last one that
  is says what the worker holds; the lemmas follow `Says` through a tick that appends, a handler that takes
  the head, and a close. The worker's flag belongs to a track and the warning to a name, so an open track must
  be the newest of its name (`Newest`), and what is looked for must not be open under the same name
  (`Sought`): else the signals of an old track speak for a new one. Both need `OneDevice`.

*Service.* The theorems hold for any finite set of devices, any number and length of recordings and
`stop` called in any state, under the hypothesis `Guarded`: a recording is started only while the
service is idle, which the shells see to and `start` itself does not (it refuses while recording, not
while encoding). The inductive invariant adds that the service has a session exactly while it is not
idle and shows its state (`SessionShown`), that no other session records or encodes (`OnlySession`, what
fails without `Guarded`), and what is given back (`Released`). `LastTrackStays` needs the agreement of
the books: `stopDevice` counts live names, the property speaks of the session's open tracks.

*Workflows.* All six invariants of the run and its action property, for any number of track changes,
transcripts and waiting outcomes, from one `IInv`. Three parts had to be found. `IdentifyStopped`: an
identification of its own that runs under a transcription on its way to a new transcript was cancelled,
so its mark cannot come after the new one. `ChainUnmarked`: while a chain's separation runs the
transcript is not marked, so nothing stale survives `DiarApplied`, which drops the mark for manual
separations only. `MixKnows`: a running mix of other tracks has been told (`changed`), which carries the
race from `ChangeTracks` over `MixEnds` to the transcription. The calls of the book are lemmas of one
form (`Is`: which job now runs, everything else as before), `ContinueResult` and `RegenerateResult` say
what the shared tails leave behind, and each action has its step lemma. `CancelStopsChain` needs
`CancelKnown`: a cancelled transcription stays in the book only for a separation, which is dead then, or
for the thread that names the speakers; no other end can find it cancelled and go on.

*File lock.* `Exclusive`: whoever is past the gate is the one its gate is held by, and a holder's lock
file names its process and is not stale. The first makes holders of one process equal, the second
those of different ones; taking over a leftover of one's own process is safe only because both hold.

*People.* `Basics` keeps the types: what an operation is about wherever it is (`Shape`), what the entries
of the undo stack are about (`StackShape`), that ids were generated once, and what each store knows of its
file while nothing failed unseen: outside a load, a memory that is fresh is the file (`PeopleStore`,
`PrintsStore`). `NoLostUpdate` holds with failures too and maps each call of the store to a step of `SharedSet`:
a save to `Write`, whose first disjunct is what a store that is not blind does, a failed save to
`FailToWrite`, an unlocked load to `Read` if it could open the file and to a stutter if not. `Blind`, the
mapping of `blind`, is the negation of what makes a modification start from the file: it can be opened,
and a memory that is fresh agrees with the file but for what failed saves left in it.

`RefusedChangesNothing` and `UndoRestores` are about many steps over three files. `Course` says, for each place
an operation can be at, what is on disk as a function of what it began with, so long as no other process
wrote since and no failure was ignored; taking back is then the same function read backwards. `Chain`
does it for the undo stack: each entry leads from the files it began with to those the next began with. `Owned`
holds of disturbed files too and gives `NothingOrphaned`: whatever is bound is bound to a person there is,
to one the other process dealt with, or to the one the operation has in hand; an entry of the stack gives
samples back only to a person there is or one that an entry above it brings back.

*Undo.* For any limits and any number of changes. `Numbered` is about the stacks alone: steps are numbered in
the order they were made (`Stacked`, `InTurn`) with numbers nobody had before (`Bounds`), each begins where
the one under it ended (`Chained`), and what it brings back is what there was (`Kept`). `Told` says what an
entry stands for (`Fits`, `Linked`). `Mirror` is the list as long as nothing was dropped from it: in the order
of time, with every step, and no step both alone and absorbed. `EntriesMirror` is part of it. `UndoesLatest`
needs one more argument (`AbsorbedOnTop`): a participants' entry takes the editor step it absorbed along only
if that is the editor's top. When it is the last entry that can be undone and its step is still in the
editor, the step is the top, for the entry of the top would otherwise be a later one that can be undone. `ExactlyBack` rests on `Numbered` and `Told` only and holds of a list that overflowed
too. The facts on `Only` are inductions over a list; each is shown on the shortest list that would break
it, which exists because a set of naturals has a least member (`LeastNumber`, from `WFMin`): no theorem with
an operator parameter is used.

*Only model-checked.* Liveness (`StopEnds`, `StopSaves`, `MissingFollowedUp`, `TranscribeCloses`,
`WaiterServed`): TLAPS has no fairness or ENABLED. Every invariant and action property that a passing run
checks is a theorem; `WarningsTrue` under `OneDevice`, those on the service under `Guarded`.

## 5. What is not modelled

* **Data and formats**: file formats and encoders, the filter graph of a mix (a version of the
  tracks), what an edit does to a transcript, prompts, matching of voices, numeric code (levels,
  embeddings). They are sequential functions on large data; most of the lines of the code are of
  this kind, or views.
* **Device back ends**: `AudioEngine` is its slots, `closeDevice` stops capturing at once; the
  detached teardown of a stuck device is planned.
* **The level monitor**: shows levels before a recording; planned.
* **Summaries, providers, cloud, downloads**: protocols of one request against an outside service;
  the topic queue is planned.
* **The call watcher and the shells**: polling and views. What the shells guard is a parameter of the
  modules they call.
* **Times of files**: two writes in one tick of the file system's clock with equal length look alike to
  `stampOf` (`SharedFile.h:52`); `SharedStore` takes stamps as different.
* **The remembered errors of a meeting** are read once (`MeetingJobTracker.cpp:132`) and overwritten from
  memory; `Workflows` has one process.

## 6. The plan

Order: the part that can lose a user's audio first, then what can lose results, then proofs.

1. *done* `RingBuffer`, `TrackTiming`, `DrainWorker`, `RecordingSession`, `RecordingService`.
2. *done* `JobTracker` and `Workflows`; `FileLock`; `SharedStore` and `People`; `MeetingUndo`.
3. *done* Proofs of every safety property the runs check: the ring's refinement, files, chains, holes and
   warnings of the session, the books of the service, the cancelled chain, the lock, people, undo.
4. `SessionPromise` — the session as the service sees it, which `RecordingSession` implements, so that
   the two models are tied by a refinement.
5. `LevelMonitor` — request generations against the thread that opens devices.
6. `Teardown` — the bounded close of a stuck device and its detached thread against ring and worker.
7. Summaries: the topic queue and its cancellation as another stage of the chain.
