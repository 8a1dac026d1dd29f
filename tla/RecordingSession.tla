-------------------------- MODULE RecordingSession --------------------------
(***************************************************************************)
(* One recording: the main thread's RecordingSession with its drain worker *)
(* (RecordingSession.cpp).  The session opens, closes and re-opens the     *)
(* capture tracks and assembles the meeting; the worker writes the files.  *)
(*                                                                         *)
(* The two threads meet in two queues and in one blocking call:            *)
(* openTrack() waits on the worker's thread until the encoder runs, behind *)
(* every command posted before.  The main thread runs one handler at a     *)
(* time; closing several tracks and a re-open poll are several steps,      *)
(* since the worker, the devices and the clock go on between them.         *)
(***************************************************************************)
EXTENDS DrainWorker, SequencesExt

CONSTANTS
    Devices,        \* device descriptions [id, name] the lister may report
    LoopbackNames,  \* names of the system-audio devices (TrackKind::Loopback)
    BaseSlug,       \* slugify(name) as a sequence of numbers; a suffix is appended to it
    MaxSlots,       \* AudioEngine::kMaxDevices
    RingSize,       \* frames a ring holds
    SleepLen,       \* length of a machine sleep
    MaxMono,        \* bound: how far the monotonic clock runs
    MaxSlept,       \* bound: total time slept
    MaxLostFiles    \* bound: track files missing on disk at the end

Names == {d.name : d \in Devices}

ASSUME SessionAssumption ==
    /\ \A d \in Devices : DOMAIN d = {"id", "name"}
    /\ LoopbackNames \subseteq Names
    /\ BaseSlug \in [Names -> Seq(Nat) \ {<<>>}]
    /\ MaxSlots \in Nat /\ RingSize \in Nat /\ SleepLen \in Nat
    /\ MaxMono \in Nat /\ MaxSlept \in Nat /\ MaxLostFiles \in Nat

VARIABLES
    phase,      \* "starting" (inside start()), "recording", "encoding" (stop() until the worker
                \* reports), "aborting" (inside the destructor), "over"
    tracks,     \* every track ever opened (TrackMeta)
    usedSlugs,  \* Impl::usedSlugs
    pending,    \* Impl::pending: lost devices being looked for
    polling,    \* Impl::reopenTimer is active
    gaps,       \* Impl::gaps
    stalled,    \* Impl::stalled: device names with a stall warning
    closing,    \* the closeTrack/onSlept loop being executed: tracks left, why, the sleep's start
    poll,       \* the pollReopen call being executed: stage, position, device list, time
    opening,    \* the openTrack call blocked on the worker
    meeting     \* the finished meeting

sessionVars == <<phase, tracks, usedSlugs, pending, polling, gaps, stalled, closing, poll,
                 opening, meeting>>
vars == <<sessionVars, workerVars>>

None == <<>>
NoPoll == [stage |-> "off", k |-> 0, seen |-> {}, now |-> 0]
NotClosing == [todo |-> {}, reason |-> "off", from |-> 0]
NoMeeting == [tracks |-> None, gaps |-> None]

Init == /\ phase = "starting"
        /\ tracks = <<>> /\ usedSlugs = {} /\ pending = <<>> /\ polling = FALSE
        /\ gaps = <<>> /\ stalled = {}
        /\ closing = NotClosing /\ poll = NoPoll /\ opening = <<>> /\ meeting = NoMeeting
        /\ enc = <<>> /\ ticked = FALSE /\ finalized = FALSE /\ inbox = <<>> /\ outbox = <<>>
        /\ eng = <<>>
        /\ clock = [mono |-> 0, slept |-> 0, lead |-> 0]

\* The event loop of the main thread is free to run another handler.
Running == phase \in {"recording", "encoding"} /\ opening = <<>> /\ closing.todo = {}
Free == Running /\ poll.stage = "off"

OpenTracks == {i \in DOMAIN tracks : ~tracks[i].closed}
OpenNamed(name) == {i \in OpenTracks : tracks[i].dev.name = name}
Least(S, k) == k \in S /\ \A j \in S : k <= j

\* isCurrentTrack: the newest track of its device name.
IsCurrent(i) ==
    /\ i \in DOMAIN tracks
    /\ \A j \in DOMAIN tracks : j > i => tracks[j].dev.name # tracks[i].dev.name

\* Arguments of a map to devices that are dev: by id, and only if none is, by name.
Matching(device, dev) ==
    LET byId == {x \in DOMAIN device : device[x].id = dev.id}
    IN IF byId # {} THEN byId ELSE {x \in DOMAIN device : device[x].name = dev.name}

\* pendingFor: the entries of pending a device answers.
PendingFor(dev) == Matching([k \in DOMAIN pending |-> pending[k].dev], dev)

\* The candidates makeTrack tries in turn: the base slug, then -2, -3, ...
Candidate(name, n) == IF n = 1 THEN BaseSlug[name] ELSE Append(BaseSlug[name], n)

\* Mutant of FirstFree: the suffix counts the tracks of the name.
FreeByCount(name, n) == n = 1 + Cardinality({i \in DOMAIN tracks : tracks[i].dev.name = name})

\* makeTrack's loop ends at the first candidate not in usedSlugs.
FirstFree(name, n) ==
    /\ Candidate(name, n) \notin usedSlugs
    /\ \A m \in 1..(n - 1) : Candidate(name, m) \in usedSlugs

\* TrackMeta
Meta(dev, slot, slug, offset, continues) ==
    [dev |-> dev, slot |-> slot, slug |-> slug, offset |-> offset, continues |-> continues,
     closed |-> FALSE]

EncoderOf(t) == Encoder(t.slot, t.offset, t.dev.name \in LoopbackNames)

NewSlot == [on |-> TRUE, ring |-> 0]
SlotOff(s) == [eng EXCEPT ![s].on = FALSE]

\* Mutant of SlotLeft: one device too many.
SlotLeftOrLast == Len(eng) <= MaxSlots

\* AudioEngine::open refuses more devices than its limit; the slot of a closed one is not reused.
SlotLeft == Len(eng) < MaxSlots

----------------------------------------------------------------------------
(* start() *)

\* The engine opened one more of the chosen devices and makeTrack named its file.
MakeTrack(dev) ==
    /\ phase = "starting"
    /\ \A t \in ToSet(tracks) : t.dev # dev
    /\ SlotLeft
    /\ \E n \in 1..(MaxSlots + 1) :
        /\ FirstFree(dev.name, n)
        /\ usedSlugs' = usedSlugs \cup {Candidate(dev.name, n)}
        /\ tracks' = Append(tracks, Meta(dev, Len(eng) + 1, Candidate(dev.name, n), 0, None))
    /\ eng' = Append(eng, NewSlot)
    /\ UNCHANGED <<phase, pending, polling, gaps, stalled, closing, poll, opening, meeting, enc,
                   ticked, finalized, inbox, outbox, clock>>

\* The worker started every encoder; the session records.
Start ==
    /\ phase = "starting"
    /\ tracks # <<>>
    /\ phase' = "recording"
    /\ enc' = [i \in DOMAIN tracks |-> EncoderOf(tracks[i])]
    /\ UNCHANGED <<tracks, usedSlugs, pending, polling, gaps, stalled, closing, poll, opening,
                   meeting, ticked, finalized, inbox, outbox, eng, clock>>

----------------------------------------------------------------------------
(* Opening a track while recording: openTrack, addDevice, resolveReopen *)

\* The main thread's half of openTrack: the device is open, the encoder is asked for.  k is the
\* pending entry resolveReopen opens for, 0 for none.
BeginOpen(dev, k) ==
    /\ SlotLeft
    /\ \E n \in 1..(MaxSlots + 1) :
        /\ FirstFree(dev.name, n)
        /\ usedSlugs' = usedSlugs \cup {Candidate(dev.name, n)}
        /\ opening' = <<[k |-> k,
                         meta |-> Meta(dev, Len(eng) + 1, Candidate(dev.name, n), Elapsed,
                                       IF k = 0 THEN None ELSE pending[k].prev)]>>
    /\ eng' = Append(eng, NewSlot)
    /\ inbox' = Append(inbox, [kind |-> "add", track |-> 0, detached |-> FALSE])
    /\ UNCHANGED <<phase, tracks, gaps, stalled, closing, meeting, enc, ticked, finalized,
                   outbox, clock>>

\* addDevice: refused while a track of that name is open; a device being looked for is the re-open.
AddDevice(dev) ==
    /\ Free /\ phase = "recording"
    /\ OpenNamed(dev.name) = {}
    /\ \/ PendingFor(dev) = {} /\ BeginOpen(dev, 0)
       \/ \E k \in PendingFor(dev) : Least(PendingFor(dev), k) /\ BeginOpen(dev, k)
    /\ UNCHANGED <<pending, polling, poll>>

\* Mutant of GapOf: the gap ends where the loss was noticed.
GapOfLoss(p, meta) ==
    IF p.reason = "device-lost"
    THEN <<[from |-> p.from, to |-> p.since, reason |-> "device-lost", track |-> meta.slug]>>
    ELSE <<>>

\* The gap resolveReopen records: a sleep's gap is recorded once for the meeting, by onSlept.
GapOf(p, meta) ==
    IF p.reason = "device-lost"
    THEN <<[from |-> p.from, to |-> meta.offset, reason |-> "device-lost", track |-> meta.slug]>>
    ELSE <<>>

\* Mutant of Opened: the re-open stays pending after its track was opened.
OpenedForgetful(meta, k) ==
    /\ tracks' = Append(tracks, meta)
    /\ stalled' = stalled \ {meta.dev.name}
    /\ UNCHANGED <<pending, gaps, polling>>

\* Mutant of Opened: the re-open timer is stopped whatever is still pending.
OpenedStopping(meta, k) ==
    /\ tracks' = Append(tracks, meta)
    /\ stalled' = stalled \ {meta.dev.name}
    /\ pending' = IF k = 0 THEN pending ELSE RemoveAt(pending, k)
    /\ gaps' = IF k = 0 THEN gaps ELSE gaps \o GapOf(pending[k], meta)
    /\ polling' = (k = 0 /\ polling)

\* The rest of openTrack and of resolveReopen, once the worker has answered.
Opened(meta, k) ==
    /\ tracks' = Append(tracks, meta)
    /\ IF k = 0
       THEN /\ stalled' = stalled \ {meta.dev.name}
            /\ UNCHANGED <<pending, gaps, polling>>
       ELSE /\ stalled' = stalled \ {meta.dev.name, pending[k].dev.name}
            /\ pending' = RemoveAt(pending, k)
            /\ gaps' = gaps \o GapOf(pending[k], meta)
            /\ polling' = (polling /\ Len(pending) > 1)

\* The worker reaches the blocking call and the encoder starts (addEncoder).
AddEncoder ==
    /\ inbox # <<>> /\ Head(inbox).kind = "add" /\ opening # <<>>
    /\ inbox' = Tail(inbox)
    /\ opening' = <<>>
    /\ enc' = Append(enc, EncoderOf(opening[1].meta))
    /\ Opened(opening[1].meta, opening[1].k)
    /\ UNCHANGED <<phase, usedSlugs, closing, poll, meeting, ticked, finalized, outbox, eng,
                   clock>>

\* The window of pending[k] is over and it is given up, or the poll goes on to the next one.
PassOver(k) ==
    IF poll.now - pending[k].since >= ReopenWindow
    THEN pending' = RemoveAt(pending, k) /\ UNCHANGED poll
    ELSE poll' = [poll EXCEPT !.k = k + 1] /\ UNCHANGED pending

\* The encoder did not start: the device is closed again, its slug is free again.
AddEncoderFails ==
    /\ inbox # <<>> /\ Head(inbox).kind = "add" /\ opening # <<>>
    /\ inbox' = Tail(inbox)
    /\ opening' = <<>>
    /\ usedSlugs' = usedSlugs \ {opening[1].meta.slug}
    /\ eng' = SlotOff(opening[1].meta.slot)
    /\ IF poll.stage = "scan" THEN PassOver(poll.k) ELSE UNCHANGED <<poll, pending>>
    /\ UNCHANGED <<phase, tracks, polling, gaps, stalled, closing, meeting, enc, ticked,
                   finalized, outbox, clock>>

----------------------------------------------------------------------------
(* Closing tracks while recording: closeTrack, checkLostDevices, onSlept *)

\* closeTrack: by the user (detached FALSE) or for a lost device; the latter also re-entrantly,
\* when the enumeration inside a poll makes the owner see the loss.
CloseTrack(name, detached) ==
    /\ phase = "recording"
    /\ \/ Free
       \/ Running /\ poll.stage = "list" /\ detached
    /\ OpenNamed(name) # {}
    /\ closing' = [todo |-> OpenNamed(name),
                   reason |-> IF detached THEN "device-lost" ELSE "off", from |-> 0]
    /\ UNCHANGED <<phase, tracks, usedSlugs, pending, polling, gaps, stalled, poll, opening,
                   meeting, workerVars>>

\* The loss watch may give up track i: current, without data.
Silent(i) == /\ IsCurrent(i)
             /\ \/ tracks[i].dev.name \in LoopbackNames /\ IdleSilent
                \/ tracks[i].dev.name \in stalled

\* checkLostDevices: the first such track whose capture the backend stopped (deviceLost, any of
\* them) is closed as detached.
CheckLostDevices ==
    /\ Free /\ phase = "recording"
    /\ \E i \in OpenTracks :
        /\ Silent(i)
        /\ closing' = [todo |-> OpenNamed(tracks[i].dev.name), reason |-> "device-lost",
                       from |-> 0]
    /\ UNCHANGED <<phase, tracks, usedSlugs, pending, polling, gaps, stalled, poll, opening,
                   meeting, workerVars>>

\* Mutant of CaptureStops: the close of the file is posted while the device still captures.
CaptureGoesOn(i) == UNCHANGED eng

\* engine->closeDevice: capture stops before the worker is told to close the file.
CaptureStops(i) == eng' = SlotOff(tracks[i].slot)

\* beginReopen: from now on the device is looked for, unless an entry already answers to it.
BeginReopen(i) ==
    IF closing.reason = "off" \/ PendingFor(tracks[i].dev) # {}
    THEN UNCHANGED <<pending, polling>>
    ELSE /\ pending' = Append(pending,
                [dev |-> tracks[i].dev, reason |-> closing.reason, prev |-> tracks[i].slug,
                 since |-> Elapsed,
                 from |-> IF closing.reason = "sleep" THEN closing.from ELSE Elapsed])
         /\ polling' = TRUE

\* One track of the loop: beginReopen, then closeAt.
CloseNext ==
    /\ opening = <<>>
    /\ \E i \in closing.todo :
        /\ Least(closing.todo, i)
        /\ BeginReopen(i)
        /\ tracks' = [tracks EXCEPT ![i].closed = TRUE]
        /\ CaptureStops(i)
        /\ inbox' = Append(inbox, [kind |-> "close", track |-> i,
                                   detached |-> closing.reason = "device-lost"])
        /\ closing' = IF closing.todo = {i} THEN NotClosing
                      ELSE [closing EXCEPT !.todo = @ \ {i}]
    /\ UNCHANGED <<phase, usedSlugs, gaps, stalled, poll, opening, meeting, enc, ticked,
                   finalized, outbox, clock>>

----------------------------------------------------------------------------
(* Signals of the worker *)

\* Mutant of WarnCurrent: a late warning of a replaced track reaches its device.
WarnAny(S) == {i \in S : i \in DOMAIN tracks}

\* The tracks of a signal that speak for their device.
WarnCurrent(S) == {i \in S : IsCurrent(i)}

HandleStalled ==
    /\ Free
    /\ outbox # <<>> /\ Head(outbox).kind = "stalled"
    /\ outbox' = Tail(outbox)
    /\ stalled' = stalled \cup {tracks[i].dev.name : i \in WarnCurrent(Head(outbox).tracks)}
    /\ UNCHANGED <<phase, tracks, usedSlugs, pending, polling, gaps, closing, poll, opening,
                   meeting, enc, ticked, finalized, inbox, eng, clock>>

HandleResumed ==
    /\ Free
    /\ outbox # <<>> /\ Head(outbox).kind = "resumed"
    /\ outbox' = Tail(outbox)
    /\ stalled' = stalled \ {tracks[i].dev.name : i \in WarnCurrent(Head(outbox).tracks)}
    /\ UNCHANGED <<phase, tracks, usedSlugs, pending, polling, gaps, closing, poll, opening,
                   meeting, enc, ticked, finalized, inbox, eng, clock>>

\* Mutant of CutAll: a segment that continues another is not cut again.
CutCurrent == {i \in OpenTracks : tracks[i].continues = None}

\* onSlept cuts every open track.
CutAll == OpenTracks

\* onSlept: the gap is recorded, every open track is closed and its device re-opened.
HandleSlept ==
    /\ Free
    /\ outbox # <<>> /\ Head(outbox).kind = "slept"
    /\ outbox' = Tail(outbox)
    /\ IF phase = "recording"
       THEN /\ gaps' = Append(gaps, [from |-> Head(outbox).from, to |-> Head(outbox).to,
                                     reason |-> "sleep", track |-> None])
            /\ closing' = [todo |-> CutAll, reason |-> "sleep", from |-> Head(outbox).from]
       ELSE UNCHANGED <<gaps, closing>>
    /\ UNCHANGED <<phase, tracks, usedSlugs, pending, polling, stalled, poll, opening, meeting,
                   enc, ticked, finalized, inbox, eng, clock>>

----------------------------------------------------------------------------
(* pollReopen *)

\* The timer fires: with nothing pending it stops, otherwise the lister is asked.
PollBegin ==
    /\ Free /\ phase = "recording" /\ polling
    /\ IF pending = <<>>
       THEN polling' = FALSE /\ UNCHANGED poll
       ELSE poll' = [poll EXCEPT !.stage = "list"] /\ UNCHANGED polling
    /\ UNCHANGED <<phase, tracks, usedSlugs, pending, gaps, stalled, closing, opening, meeting,
                   workerVars>>

\* The devices of a list that can matter to the walk: those that answer a pending one.
Answering == {d \in Devices : \E p \in ToSet(pending) : d.id = p.dev.id \/ d.name = p.dev.name}

\* The list is there, devices of different ids; the walk over pending starts.
PollListed ==
    /\ Running /\ poll.stage = "list"
    /\ \E seen \in SUBSET Answering :
        /\ \A d, e \in seen : d.id = e.id => d = e
        /\ poll' = [stage |-> "scan", k |-> 1, seen |-> seen, now |-> Elapsed]
    /\ UNCHANGED <<phase, tracks, usedSlugs, pending, polling, gaps, stalled, closing, opening,
                   meeting, workerVars>>

\* The devices of the list that answer pending[k].
Returned(k) == Matching([d \in poll.seen |-> d], pending[k].dev)

Scanning == Running /\ poll.stage = "scan" /\ poll.k <= Len(pending)

\* Already back on a track some other way: nothing left to do for it.
PollAlreadyBack ==
    /\ Scanning
    /\ \E d \in Returned(poll.k) : OpenNamed(d.name) # {}
    /\ pending' = RemoveAt(pending, poll.k)
    /\ UNCHANGED <<phase, tracks, usedSlugs, polling, gaps, stalled, closing, poll, opening,
                   meeting, workerVars>>

\* Mutant of PollReopens: opens whatever came back.
PollReopensBlindly ==
    /\ Scanning
    /\ \E d \in Returned(poll.k) : BeginOpen(d, poll.k)
    /\ UNCHANGED <<pending, polling, poll>>

PollReopens ==
    /\ Scanning
    /\ \E d \in Returned(poll.k) : OpenNamed(d.name) = {} /\ BeginOpen(d, poll.k)
    /\ UNCHANGED <<pending, polling, poll>>

\* Not there, or the engine could not open it.
PollPassesOver ==
    /\ Scanning
    /\ \/ Returned(poll.k) = {}
       \/ \E d \in Returned(poll.k) : OpenNamed(d.name) = {}
    /\ PassOver(poll.k)
    /\ UNCHANGED <<phase, tracks, usedSlugs, polling, gaps, stalled, closing, opening, meeting,
                   workerVars>>

PollEnd ==
    /\ Running /\ poll.stage = "scan" /\ poll.k > Len(pending)
    /\ poll' = NoPoll
    /\ polling' = (polling /\ pending # <<>>)
    /\ UNCHANGED <<phase, tracks, usedSlugs, pending, gaps, stalled, closing, opening, meeting,
                   workerVars>>

----------------------------------------------------------------------------
(* stop(), the finalized signal, the destructor *)

Post(kind) == inbox' = Append(inbox, [kind |-> kind, track |-> 0, detached |-> FALSE])

Stop ==
    /\ Free /\ phase = "recording"
    /\ phase' = "encoding"
    /\ pending' = <<>> /\ polling' = FALSE
    /\ Post("finalize")
    /\ UNCHANGED <<tracks, usedSlugs, gaps, stalled, closing, poll, opening, meeting, enc,
                   ticked, finalized, outbox, eng, clock>>

\* A segment has the label of the one it continues; the other microphones are numbered, a system
\* track has no number.
Label ==
    LET label[i \in DOMAIN tracks] ==
            LET before == {j \in 1..(i - 1) : tracks[j].slug = tracks[i].continues}
            IN CASE before # {} -> label[CHOOSE j \in before : TRUE]
                 [] before = {} /\ tracks[i].dev.name \in LoopbackNames -> 0
                 [] OTHER -> Cardinality({j \in 1..i : /\ tracks[j].continues = None
                                                       /\ tracks[j].dev.name \notin LoopbackNames})
    IN label

MeetingTrack(i) == [slug |-> tracks[i].slug, name |-> tracks[i].dev.name,
                    offset |-> tracks[i].offset, continues |-> tracks[i].continues,
                    label |-> Label[i]]

\* onFinalized: engine and worker are torn down, the meeting has every track whose file exists.
HandleFinalized ==
    /\ Free
    /\ outbox # <<>> /\ Head(outbox).kind = "finalized"
    /\ IF phase = "encoding"
       THEN \E missing \in SUBSET DOMAIN tracks :
            /\ Cardinality(missing) <= MaxLostFiles
            /\ meeting' = [tracks |-> [i \in DOMAIN tracks \ missing |-> MeetingTrack(i)],
                           gaps |-> gaps]
            /\ phase' = "over"
            /\ tracks' = <<>> /\ stalled' = {} /\ eng' = <<>> /\ enc' = <<>> /\ outbox' = <<>>
       ELSE /\ outbox' = Tail(outbox)
            /\ UNCHANGED <<meeting, phase, tracks, stalled, eng, enc>>
    /\ UNCHANGED <<usedSlugs, pending, polling, gaps, closing, poll, opening, ticked, finalized,
                   inbox, clock>>

\* ~RecordingSession while it records or encodes: it blocks until the worker has run finalize().
Destroy ==
    /\ Free
    /\ phase' = "aborting"
    /\ pending' = <<>> /\ polling' = FALSE
    /\ Post("finalize")
    /\ UNCHANGED <<tracks, usedSlugs, gaps, stalled, closing, poll, opening, meeting, enc,
                   ticked, finalized, outbox, eng, clock>>

\* Mutant of DestroyEnd: the worker is not waited for.
DestroyAtOnce ==
    /\ phase = "aborting"
    /\ phase' = "over"
    /\ tracks' = <<>> /\ stalled' = {} /\ eng' = <<>> /\ enc' = <<>> /\ outbox' = <<>>
    /\ UNCHANGED <<usedSlugs, pending, polling, gaps, closing, poll, opening, meeting, ticked,
                   finalized, inbox, clock>>

\* ... then stops the engine and the worker; nothing is saved, the queued signals are gone.
DestroyEnd ==
    /\ phase = "aborting" /\ inbox = <<>>
    /\ phase' = "over"
    /\ tracks' = <<>> /\ stalled' = {} /\ eng' = <<>> /\ enc' = <<>> /\ outbox' = <<>>
    /\ UNCHANGED <<usedSlugs, pending, polling, gaps, closing, poll, opening, meeting, ticked,
                   finalized, inbox, clock>>

----------------------------------------------------------------------------
(* The surroundings *)

Alive == phase \in {"recording", "encoding", "aborting"}

\* A unit of time passes; some of the open devices deliver a frame (a full ring drops it).
Advance ==
    /\ Alive
    /\ clock.mono < MaxMono
    /\ clock' = [clock EXCEPT !.mono = @ + 1]
    /\ \E talking \in SUBSET {s \in DOMAIN eng : eng[s].on} :
        eng' = [s \in DOMAIN eng |->
                  IF s \in talking /\ eng[s].ring < RingSize
                  THEN [eng[s] EXCEPT !.ring = @ + 1]
                  ELSE eng[s]]
    /\ UNCHANGED <<sessionVars, enc, ticked, finalized, inbox, outbox>>

\* The machine sleeps and wakes: the wall clock runs ahead of the monotonic one.
Sleep ==
    /\ Alive
    /\ clock.slept + clock.lead + SleepLen <= MaxSlept
    /\ clock' = [clock EXCEPT !.lead = @ + SleepLen]
    /\ UNCHANGED <<sessionVars, enc, ticked, finalized, inbox, outbox, eng>>

----------------------------------------------------------------------------
WorkerTick == Tick /\ Alive /\ UNCHANGED sessionVars

WorkerCommand == \/ CloseEncoder /\ UNCHANGED sessionVars
                 \/ Finalize /\ UNCHANGED sessionVars
                 \/ AddEncoder
                 \/ AddEncoderFails

User == \/ \E d \in Devices : MakeTrack(d)
        \/ Start
        \/ \E d \in Devices : AddDevice(d)
        \/ \E n \in Names, detached \in BOOLEAN : CloseTrack(n, detached)
        \/ Stop
        \/ Destroy

MainLoop == \/ CloseNext
            \/ CheckLostDevices
            \/ HandleStalled
            \/ HandleResumed
            \/ HandleSlept
            \/ PollBegin
            \/ PollListed
            \/ PollAlreadyBack
            \/ PollReopens
            \/ PollPassesOver
            \/ PollEnd
            \/ HandleFinalized
            \/ DestroyEnd

Surroundings == \/ Advance
                \/ Sleep

Over == phase = "over" /\ UNCHANGED vars

Next == WorkerTick \/ WorkerCommand \/ User \/ MainLoop \/ Surroundings \/ Over

Spec == Init /\ [][Next]_vars

\* The two event loops go on: each runs what is queued for it.  Nothing is asked of the user, the
\* devices or the clock.
FairSpec == Spec /\ WF_vars(WorkerCommand) /\ WF_vars(MainLoop)

----------------------------------------------------------------------------
(* Properties *)

Slug == Seq(Nat) \ {None}
TrackMeta == [dev: Devices, slot: 1..MaxSlots, slug: Slug, offset: Nat, continues: Seq(Nat),
              closed: BOOLEAN]
PendingReopen == [dev: Devices, reason: {"sleep", "device-lost"}, prev: Slug, since: Nat,
                  from: Nat]

TypeOK ==
    /\ phase \in {"starting", "recording", "encoding", "aborting", "over"}
    /\ tracks \in Seq(TrackMeta)
    /\ usedSlugs \subseteq Slug
    /\ pending \in Seq(PendingReopen)
    /\ polling \in BOOLEAN
    /\ stalled \subseteq Names
    /\ gaps \in Seq([from: Nat, to: Nat, reason: {"sleep", "device-lost"}, track: Seq(Nat)])
    /\ closing \in [todo: SUBSET Nat, reason: {"off", "sleep", "device-lost"}, from: Nat]
    /\ closing.todo \subseteq DOMAIN tracks
    /\ poll \in [stage: {"off", "list", "scan"}, k: Nat, seen: SUBSET Devices, now: Nat]
    /\ opening \in Seq([k: Nat, meta: TrackMeta]) /\ Len(opening) <= 1
    /\ enc \in Seq(EncTrack)
    /\ ticked \in BOOLEAN /\ finalized \in BOOLEAN
    /\ inbox \in Seq([kind: {"close", "add", "finalize"}, track: Nat, detached: BOOLEAN])
    /\ outbox \in Seq([kind: {"stalled", "resumed", "slept", "finalized"}, tracks: SUBSET Nat,
                       from: Nat, to: Nat])
    /\ eng \in Seq([on: BOOLEAN, ring: 0..RingSize]) /\ Len(eng) <= MaxSlots
    /\ clock \in [mono: Nat, slept: Nat, lead: Nat]

\* No two tracks of a recording share a file, however names, suffixes, re-opens and failed
\* encoders (which give their name back) follow each other.
UniqueFiles ==
    \A i, j \in DOMAIN tracks : tracks[i].slug = tracks[j].slug => i = j

\* While a lost device is looked for the re-open timer runs: no path through a loss, a re-open by
\* hand, a poll or a loss inside the poll leaves an entry that nobody will ever try again.
PendingWatched == phase = "recording" /\ pending # <<>> => polling

\* The segments of a device form a chain: a continuing segment follows a closed one of the same
\* device (by id or by name), no segment is continued twice, and what is still looked for has not
\* been continued.
SegmentChain ==
    /\ \A i \in DOMAIN tracks : tracks[i].continues # None =>
        \E j \in 1..(i - 1) :
            /\ tracks[j].slug = tracks[i].continues /\ tracks[j].closed
            /\ \/ tracks[j].dev.id = tracks[i].dev.id
               \/ tracks[j].dev.name = tracks[i].dev.name
    /\ \A i, j \in DOMAIN tracks :
        tracks[i].continues = tracks[j].continues => i = j \/ tracks[i].continues = None
    /\ \A k \in DOMAIN pending, i \in DOMAIN tracks : tracks[i].continues # pending[k].prev

\* The starts of the sleeps that are recorded, or noticed by the worker and not yet handled.
SleepStarts == {g.from : g \in {g \in ToSet(gaps) : g.reason = "sleep"}}
               \cup {m.from : m \in {m \in ToSet(outbox) : m.kind = "slept"}}

\* The hole between a segment and its continuation is explained by a recorded gap: of a lost device
\* one that begins in the segment and ends where the continuation begins, of a sleep one that ends
\* before the continuation and does not contain the segment's start (a track opened after the worker
\* noticed a sleep and before the session hears of it is cut as well, although it missed nothing).
\* And no file is cut but at the start of a sleep that is recorded or about to be.
HolesExplained ==
    /\ \A i, j \in DOMAIN tracks : tracks[j].continues = tracks[i].slug =>
        \E g \in ToSet(gaps) :
            /\ g.from <= g.to
            /\ \/ /\ g.reason = "device-lost" /\ g.track = tracks[j].slug
                  /\ tracks[i].offset <= g.from /\ g.to = tracks[j].offset
               \/ /\ g.reason = "sleep" /\ g.to <= tracks[j].offset
                  /\ tracks[i].offset <= g.from \/ g.to <= tracks[i].offset
    /\ phase = "recording" =>
        \A i \in DOMAIN enc : enc[i].suspended => enc[i].cap \in SleepStarts

\* Nothing captured before a track was closed is left in its ring when its file is complete.
FilesComplete ==
    \A i \in DOMAIN tracks :
        tracks[i].closed /\ enc[i].closed /\ ~enc[i].suspended => eng[tracks[i].slot].ring = 0

\* A track the worker cut at a sleep drops all its audio from then on: a close for it is always
\* under way, so that no device stays open and is silently thrown away.
SuspendedWillClose ==
    phase = "recording" =>
        \A i \in DOMAIN enc : enc[i].suspended /\ ~enc[i].closed =>
            \/ \E m \in ToSet(outbox) : m.kind = "slept"
            \/ i \in closing.todo
            \/ \E m \in ToSet(inbox) : m.kind = "close" /\ m.track = i

\* Once the queues are empty, a recording device has a stall warning exactly when the worker holds
\* its track for stalled.
WarningsTrue ==
    Free /\ phase = "recording" /\ inbox = <<>> /\ outbox = <<>> =>
        \A i \in OpenTracks :
            IsCurrent(i) => (tracks[i].dev.name \in stalled <=> enc[i].stalled)

\* The file of a track cut by a sleep does not reach past the cut.
CutHolds == \A i \in DOMAIN enc : enc[i].suspended => enc[i].written <= enc[i].cap - enc[i].opened

\* "the sleep is never filled with silence: the gap is metadata" (EncTrack::suspended): the file of
\* a track cut by a sleep ends where that sleep began, for every recorded sleep.
SleepNeverFilled ==
    \A i \in DOMAIN enc, g \in ToSet(gaps) :
        enc[i].suspended /\ g.reason = "sleep" /\ enc[i].opened <= g.from
            => enc[i].written <= g.from - enc[i].opened

\* "Came back under another name (matched by id): the old name's stall is over too"
\* (resolveReopen): with the queues empty, no warning stands for a name whose newest track was
\* continued under another name.
RenamedStallOver ==
    Free /\ phase = "recording" /\ inbox = <<>> /\ outbox = <<>> =>
        \A i, j \in DOMAIN tracks :
            tracks[j].continues = tracks[i].slug /\ tracks[j].dev.name # tracks[i].dev.name
            /\ IsCurrent(i) => tracks[i].dev.name \notin stalled

\* A device that joins a running recording joins it once: no open track has its name already,
\* although the wait for the worker lies between the look and the opening.
JoinsOnce ==
    [][ phase = "recording" /\ Len(tracks') = Len(tracks) + 1
          => OpenNamed(tracks'[Len(tracks')].dev.name) = {} ]_vars

\* The engine is torn down only when every file is closed, and with no command left behind.
ClosedBeforeTeardown ==
    [][ phase # "over" /\ phase' = "over"
          => inbox = <<>> /\ \A i \in DOMAIN enc : enc[i].closed ]_vars

\* Once stopped, a recording ends: the files are closed and the session leaves "encoding", however
\* many commands and signals were under way.
StopEnds == phase = "encoding" ~> phase = "over"
=============================================================================
