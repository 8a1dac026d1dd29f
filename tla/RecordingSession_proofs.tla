---------------------- MODULE RecordingSession_proofs ----------------------
(***************************************************************************)
(* Invariants of RecordingSession for any devices, bounds and timing.      *)
(***************************************************************************)
EXTENDS RecordingSession, SequenceTheorems, TLAPS

----------------------------------------------------------------------------
(* Sequences *)

\* A function on 1..n is a sequence.
LEMMA FunIsSeq ==
    ASSUME NEW S, NEW n \in Nat, NEW f \in [1..n -> S]
    PROVE  f \in Seq(S) /\ Len(f) = n /\ DOMAIN f = 1..n
OBVIOUS

\* Changing elements of a sequence gives a sequence, whether or not the position exists.
LEMMA MapIsSeq ==
    ASSUME NEW S, NEW T, NEW s \in Seq(S), NEW f, f = [i \in DOMAIN s |-> f[i]],
           \A i \in DOMAIN s : f[i] \in T
    PROVE  f \in Seq(T) /\ Len(f) = Len(s) /\ DOMAIN f = DOMAIN s
<1>1. DOMAIN s = 1..Len(s) /\ Len(s) \in Nat
  BY LenProperties
<1>2. f \in [1..Len(s) -> T]
  BY <1>1
<1> QED
  BY <1>1, <1>2, FunIsSeq

\* RemoveAt takes one element out.
LEMMA RemoveAtIsSeq ==
    ASSUME NEW S, NEW s \in Seq(S), NEW i \in 1..Len(s)
    PROVE  RemoveAt(s, i) \in Seq(S) /\ Len(RemoveAt(s, i)) = Len(s) - 1
<1>1. Len(s) \in Nat /\ \A j \in 1..Len(s) : s[j] \in S
  BY LenProperties, ElementOfSeq
<1> DEFINE front == SubSeq(s, 1, i - 1)
           rear == SubSeq(s, i + 1, Len(s))
<1>2. front \in Seq(S) /\ Len(front) = i - 1
  BY <1>1, SubSeqProperties
<1>3. rear \in Seq(S) /\ Len(rear) = Len(s) - i
  BY <1>1, SubSeqProperties
<1>4. RemoveAt(s, i) = front \o rear
  BY DEF RemoveAt
<1> HIDE DEF front, rear
<1>5. front \o rear \in Seq(S) /\ Len(front \o rear) = Len(front) + Len(rear)
  BY <1>2, <1>3, ConcatProperties
<1> QED
  BY <1>1, <1>2, <1>3, <1>4, <1>5

----------------------------------------------------------------------------
(* Timing and tracks of the worker *)

LEMMA SilenceIsNat ==
    ASSUME NEW sinceOpen \in Int, NEW idle \in Int, NEW delivered \in Nat
    PROVE  SilenceToInsert(sinceOpen, idle, delivered) \in Nat
BY TimingAssumption DEF SilenceToInsert, FramesOwed, ExpectedFrames

LEMMA JumpIsNat == ASSUME NEW lead \in Nat PROVE SleepJump(lead) \in Nat
BY DEF SleepJump

\* The frame count of a filled track only grows; nothing else of it changes.
LEMMA FilledIsTrack ==
    ASSUME NEW t \in EncTrack, NEW now \in Nat
    PROVE  Filled(t, now) \in EncTrack /\ Filled(t, now).slot = t.slot
<1> DEFINE upTo == IF t.cap >= 0 /\ t.cap < now THEN t.cap ELSE now
<1>1. /\ t.cap \in Int /\ t.opened \in Nat /\ t.last \in Nat /\ t.written \in Nat
      /\ t.loopback \in BOOLEAN
  BY DEF EncTrack
<1>2. upTo \in Int
  BY <1>1
<1> HIDE DEF upTo
<1>3. SilenceToInsert(upTo - t.opened, upTo - t.last, t.written) \in Nat
  <2>1. upTo - t.opened \in Int /\ upTo - t.last \in Int
    BY <1>1, <1>2
  <2> QED
    BY <1>1, <2>1, SilenceIsNat
<1>4. t.written + SilenceToInsert(upTo - t.opened, upTo - t.last, t.written) \in Nat
  BY <1>1, <1>3
<1>5. [t EXCEPT !.written = @ + SilenceToInsert(upTo - t.opened, upTo - t.last, @)] \in EncTrack
  BY <1>4 DEF EncTrack
<1>6. [t EXCEPT !.written = @ + SilenceToInsert(upTo - t.opened, upTo - t.last, @)].slot = t.slot
  BY DEF EncTrack
<1> QED
  BY <1>5, <1>6 DEF Filled, upTo

LEMMA FinishedIsTrack ==
    ASSUME NEW t \in EncTrack, NEW now \in Nat
    PROVE  Finished(t, now) \in EncTrack /\ Finished(t, now).slot = t.slot
BY FilledIsTrack DEF Finished, EncTrack

EngSlot == [on: BOOLEAN, ring: 0..RingSize]

LEMMA DrainedIsTrack ==
    ASSUME NEW t \in EncTrack, NEW now \in Nat, t.slot \in DOMAIN eng, eng \in Seq(EngSlot)
    PROVE  Drained(t, now) \in EncTrack /\ Drained(t, now).slot = t.slot
<1>1. eng[t.slot].ring \in Nat
  <2>1. t.slot \in 1..Len(eng)
    BY LenProperties
  <2>2. eng[t.slot] \in EngSlot
    BY <2>1, ElementOfSeq
  <2> QED
    BY <2>2, SessionAssumption DEF EngSlot
<1>2. CASE t.closed \/ t.suspended
  BY <1>2 DEF Drained, GotData
<1>3. CASE ~(t.closed \/ t.suspended) /\ GotData(t)
  <2>1. Drained(t, now) = [t EXCEPT !.last = now, !.stalled = FALSE,
                                    !.written = IF t.loopback THEN @ + eng[t.slot].ring ELSE 0]
    BY <1>3 DEF Drained
  <2>2. (IF t.loopback THEN t.written + eng[t.slot].ring ELSE 0) \in Nat
    BY <1>1 DEF EncTrack
  <2> QED
    BY <2>1, <2>2 DEF EncTrack
<1>4. CASE ~(t.closed \/ t.suspended) /\ ~GotData(t)
  BY <1>4, FilledIsTrack DEF Drained
<1> QED
  BY <1>2, <1>3, <1>4

----------------------------------------------------------------------------
(* The invariant, in parts *)

Gap == [from: Nat, to: Nat, reason: {"sleep", "device-lost"}, track: Seq(Nat)]
Command == [kind: {"close", "add", "finalize"}, track: Nat, detached: BOOLEAN]
Message == [kind: {"stalled", "resumed", "slept", "finalized"}, tracks: SUBSET Nat, from: Nat,
            to: Nat]
Opening == [k: Nat, meta: TrackMeta]

ModesOK == /\ phase \in {"starting", "recording", "encoding", "aborting", "over"}
           /\ polling \in BOOLEAN /\ ticked \in BOOLEAN /\ finalized \in BOOLEAN
           /\ stalled \subseteq Names
TracksOK == tracks \in Seq(TrackMeta) /\ usedSlugs \subseteq Slug
PendingOK == pending \in Seq(PendingReopen)
GapsOK == gaps \in Seq(Gap)
ClosingOK == /\ closing \in [todo: SUBSET Nat, reason: {"off", "sleep", "device-lost"}, from: Nat]
             /\ closing.todo \subseteq DOMAIN tracks
PollOK == /\ poll \in [stage: {"off", "list", "scan"}, k: Nat, seen: SUBSET Devices, now: Nat]
          /\ poll.stage = "scan" => poll.k >= 1
OpeningOK == opening \in Seq(Opening) /\ Len(opening) <= 1
EngOK == eng \in Seq(EngSlot) /\ Len(eng) <= MaxSlots
QueuesOK == inbox \in Seq(Command) /\ outbox \in Seq(Message)
ClockOK == clock \in [mono: Nat, slept: Nat, lead: Nat]
EncOK == enc \in Seq(EncTrack)

\* Every track, here and at the worker, has a slot of the engine.
SlotsOK == /\ \A i \in DOMAIN tracks : tracks[i].slot \in DOMAIN eng
           /\ \A i \in DOMAIN enc : enc[i].slot \in DOMAIN eng
           /\ \A i \in DOMAIN opening : opening[i].meta.slot \in DOMAIN eng

\* While the main thread waits for the worker nothing it looked at changes: what it opens for is
\* still pending, the poll's position too, and no track has the name that is being opened.
WaitHolds ==
    opening # <<>> =>
        /\ opening[1].k <= Len(pending)
        /\ poll.stage = "scan" => poll.k <= Len(pending)
        /\ OpenNamed(opening[1].meta.dev.name) = {}

\* Before a recording and after its end no call is half done.
Quiet == /\ phase \in {"starting", "aborting", "over"} => closing.todo = {} /\ opening = <<>>
         /\ phase = "starting" => pending = <<>>

\* Every file name in use is taken, the one being opened too, and none twice.
SlugsTaken == /\ \A i \in DOMAIN tracks : tracks[i].slug \in usedSlugs
              /\ UniqueFiles
              /\ \A i \in DOMAIN opening : /\ opening[i].meta.slug \in usedSlugs
                                          /\ \A j \in DOMAIN tracks :
                                                tracks[j].slug # opening[i].meta.slug

IInv == /\ ModesOK /\ TracksOK /\ PendingOK /\ GapsOK /\ ClosingOK /\ PollOK /\ OpeningOK
        /\ EngOK /\ QueuesOK /\ ClockOK /\ EncOK
        /\ SlotsOK /\ WaitHolds /\ Quiet /\ SlugsTaken /\ PendingWatched

\* Each part speaks of a few variables only and holds on while they do not change.
LEMMA KeepModesOK == ModesOK /\ UNCHANGED <<phase, polling, stalled, ticked, finalized>> => ModesOK'
BY DEF ModesOK

LEMMA KeepTracksOK == TracksOK /\ UNCHANGED <<tracks, usedSlugs>> => TracksOK'
BY DEF TracksOK

LEMMA KeepPendingOK == PendingOK /\ UNCHANGED <<pending>> => PendingOK'
BY DEF PendingOK

LEMMA KeepGapsOK == GapsOK /\ UNCHANGED <<gaps>> => GapsOK'
BY DEF GapsOK

LEMMA KeepClosingOK == ClosingOK /\ UNCHANGED <<closing, tracks>> => ClosingOK'
BY DEF ClosingOK

LEMMA KeepPollOK == PollOK /\ UNCHANGED <<poll>> => PollOK'
BY DEF PollOK

LEMMA KeepOpeningOK == OpeningOK /\ UNCHANGED <<opening>> => OpeningOK'
BY DEF OpeningOK

LEMMA KeepEngOK == EngOK /\ UNCHANGED <<eng>> => EngOK'
BY DEF EngOK

LEMMA KeepQueuesOK == QueuesOK /\ UNCHANGED <<inbox, outbox>> => QueuesOK'
BY DEF QueuesOK

LEMMA KeepClockOK == ClockOK /\ UNCHANGED <<clock>> => ClockOK'
BY DEF ClockOK

LEMMA KeepEncOK == EncOK /\ UNCHANGED <<enc>> => EncOK'
BY DEF EncOK

LEMMA KeepSlotsOK == SlotsOK /\ UNCHANGED <<tracks, enc, opening, eng>> => SlotsOK'
BY DEF SlotsOK

LEMMA KeepWaitHolds == WaitHolds /\ UNCHANGED <<opening, pending, poll, tracks>> => WaitHolds'
BY DEF WaitHolds, OpenNamed, OpenTracks

LEMMA KeepQuiet == Quiet /\ UNCHANGED <<phase, closing, opening, pending>> => Quiet'
BY DEF Quiet

LEMMA KeepSlugsTaken == SlugsTaken /\ UNCHANGED <<tracks, usedSlugs, opening>> => SlugsTaken'
BY DEF SlugsTaken, UniqueFiles

LEMMA KeepPendingWatched == PendingWatched /\ UNCHANGED <<phase, pending, polling>> => PendingWatched'
BY DEF PendingWatched

----------------------------------------------------------------------------
(* Records and sequences the actions build *)

LEMMA CandidateIsSlug ==
    ASSUME NEW name \in Names, NEW n \in Nat
    PROVE  Candidate(name, n) \in Slug
<1>1. BaseSlug[name] \in Seq(Nat) /\ BaseSlug[name] # <<>>
  BY SessionAssumption
<1>2. Append(BaseSlug[name], n) \in Seq(Nat) /\ Append(BaseSlug[name], n) # <<>>
  BY <1>1, AppendProperties
<1> QED
  BY <1>1, <1>2 DEF Candidate, Slug, None

LEMMA MetaIsTrack ==
    ASSUME NEW dev \in Devices, NEW slot \in 1..MaxSlots, NEW slug \in Slug, NEW offset \in Nat,
           NEW continues \in Seq(Nat)
    PROVE  /\ Meta(dev, slot, slug, offset, continues) \in TrackMeta
           /\ Meta(dev, slot, slug, offset, continues).slot = slot
           /\ Meta(dev, slot, slug, offset, continues).slug = slug
           /\ Meta(dev, slot, slug, offset, continues).dev = dev
BY DEF Meta, TrackMeta

LEMMA EncoderIsTrack ==
    ASSUME NEW t \in TrackMeta
    PROVE  EncoderOf(t) \in EncTrack /\ EncoderOf(t).slot = t.slot
BY SessionAssumption DEF EncoderOf, Encoder, EncTrack, TrackMeta

LEMMA NameOfDevice == ASSUME NEW d \in Devices PROVE d.name \in Names
BY DEF Names

LEMMA SlotOffIsEngine ==
    ASSUME EngOK, NEW s
    PROVE  /\ SlotOff(s) \in Seq(EngSlot) /\ Len(SlotOff(s)) = Len(eng)
           /\ DOMAIN SlotOff(s) = DOMAIN eng
<1>1. eng \in Seq(EngSlot)
  BY DEF EngOK
<1>2. \A i \in DOMAIN eng : eng[i] \in EngSlot
  BY <1>1, ElementOfSeq, LenProperties
<1>3. SlotOff(s) = [i \in DOMAIN SlotOff(s) |-> SlotOff(s)[i]] /\ DOMAIN SlotOff(s) = DOMAIN eng
  BY DEF SlotOff
<1>4. \A i \in DOMAIN eng : SlotOff(s)[i] \in EngSlot
  BY <1>2 DEF SlotOff, EngSlot
<1> DEFINE f == SlotOff(s)
<1>5. f = [i \in DOMAIN eng |-> f[i]] /\ \A i \in DOMAIN eng : f[i] \in EngSlot
  BY <1>3, <1>4
<1> HIDE DEF f
<1>6. f \in Seq(EngSlot) /\ Len(f) = Len(eng) /\ DOMAIN f = DOMAIN eng
  BY <1>1, <1>5, MapIsSeq
<1> QED
  BY <1>6 DEF f

LEMMA EmptiedIsEngine ==
    ASSUME EngOK, NEW S
    PROVE  /\ Emptied(S) \in Seq(EngSlot) /\ Len(Emptied(S)) = Len(eng)
           /\ DOMAIN Emptied(S) = DOMAIN eng
<1>1. eng \in Seq(EngSlot)
  BY DEF EngOK
<1>2. \A i \in DOMAIN eng : eng[i] \in EngSlot
  BY <1>1, ElementOfSeq, LenProperties
<1> DEFINE f == Emptied(S)
<1>3. f = [i \in DOMAIN eng |-> f[i]]
  BY DEF Emptied
<1>4. \A i \in DOMAIN eng : f[i] \in EngSlot
  BY <1>2, SessionAssumption DEF Emptied, EngSlot
<1> HIDE DEF f
<1>5. f \in Seq(EngSlot) /\ Len(f) = Len(eng) /\ DOMAIN f = DOMAIN eng
  BY <1>1, <1>3, <1>4, MapIsSeq
<1> QED
  BY <1>5 DEF f

LEMMA ElapsedIsNat == ASSUME ClockOK PROVE Elapsed \in Nat
BY DEF ClockOK, Elapsed

LEMMA SignalIsQueue ==
    ASSUME NEW kind \in {"stalled", "resumed", "slept", "finalized"}, NEW S \in SUBSET Nat
    PROVE  Signal(kind, S) \in Seq(Message)
<1>1. CASE S = {}
  <2>1. Signal(kind, S) = <<>>
    BY <1>1 DEF Signal
  <2> QED
    BY <2>1, EmptySeq
<1>2. CASE S # {}
  <2>1. [kind |-> kind, tracks |-> S, from |-> 0, to |-> 0] \in Message
    BY DEF Message
  <2>2. Signal(kind, S) = <<[kind |-> kind, tracks |-> S, from |-> 0, to |-> 0]>>
    BY <1>2 DEF Signal
  <2> QED
    BY <2>1, <2>2
<1> QED
  BY <1>1, <1>2

LEMMA SleptIsQueue == ASSUME NEW a \in Nat, NEW b \in Nat PROVE Slept(a, b) \in Seq(Message)
BY DEF Slept, Message

LEMMA FinalizedIsQueue == Finalized \in Seq(Message)
BY DEF Finalized, Message

LEMMA ConcatQueue ==
    ASSUME NEW S, NEW a \in Seq(S), NEW b \in Seq(S) PROVE a \o b \in Seq(S)
BY ConcatProperties

----------------------------------------------------------------------------
(* Steps *)

\* What Append does to a sequence, position by position.
LEMMA AppendShape ==
    ASSUME NEW S, NEW q \in Seq(S), NEW e \in S
    PROVE  /\ Append(q, e) \in Seq(S) /\ Len(Append(q, e)) = Len(q) + 1
           /\ DOMAIN q \subseteq DOMAIN Append(q, e)
           /\ DOMAIN Append(q, e) = DOMAIN q \cup {Len(q) + 1}
           /\ \A i \in DOMAIN q : Append(q, e)[i] = q[i]
           /\ Append(q, e)[Len(q) + 1] = e
           /\ Append(q, e) # <<>>
<1>1. /\ Append(q, e) \in Seq(S) /\ Len(Append(q, e)) = Len(q) + 1
      /\ \A i \in 1..Len(q) : Append(q, e)[i] = q[i]
      /\ Append(q, e)[Len(q) + 1] = e /\ Append(q, e) # <<>>
  BY AppendProperties
<1>2. Len(q) \in Nat /\ DOMAIN q = 1..Len(q)
  BY LenProperties
<1>3. DOMAIN Append(q, e) = 1..(Len(q) + 1)
  BY <1>1, LenProperties
<1> QED
  BY <1>1, <1>2, <1>3

LEMMA InitIInv == Init => IInv
<1> SUFFICES ASSUME Init PROVE IInv
  OBVIOUS
<1>1. \A S : <<>> \in Seq(S) /\ Len(<<>>) = 0 /\ DOMAIN <<>> = {}
  BY EmptySeq
<1>2. ModesOK /\ ClockOK
  BY DEF Init, ModesOK, ClockOK
<1>5. TracksOK /\ PendingOK /\ GapsOK /\ OpeningOK /\ QueuesOK /\ EncOK
  BY <1>1 DEF Init, TracksOK, PendingOK, GapsOK, OpeningOK, QueuesOK, EncOK
<1>6. ClosingOK /\ PollOK
  BY DEF Init, ClosingOK, PollOK, NotClosing, NoPoll
<1>3. EngOK
  BY <1>1, SessionAssumption DEF Init, EngOK
<1>4. SlotsOK /\ WaitHolds /\ Quiet /\ SlugsTaken /\ PendingWatched
  BY <1>1 DEF Init, SlotsOK, WaitHolds, Quiet, SlugsTaken, PendingWatched, UniqueFiles, NotClosing
<1> QED
  BY <1>2, <1>3, <1>4, <1>5, <1>6 DEF IInv

\* A chosen device gets a free file name and a slot.
LEMMA MakeTrackStep ==
    ASSUME NEW dev \in Devices
    PROVE  IInv /\ MakeTrack(dev) => IInv'
<1> SUFFICES ASSUME IInv, MakeTrack(dev) PROVE IInv'
  OBVIOUS
<1> USE DEF IInv
<1>0. ModesOK' /\ PendingOK' /\ GapsOK' /\ PollOK' /\ OpeningOK' /\ QueuesOK' /\ ClockOK' /\
      EncOK' /\ Quiet' /\ PendingWatched'
  BY KeepModesOK, KeepPendingOK, KeepGapsOK, KeepPollOK, KeepOpeningOK, KeepQueuesOK,
     KeepClockOK, KeepEncOK, KeepQuiet, KeepPendingWatched DEF MakeTrack
<1>1. PICK n \in 1..(MaxSlots + 1) :
        /\ FirstFree(dev.name, n)
        /\ usedSlugs' = usedSlugs \cup {Candidate(dev.name, n)}
        /\ tracks' = Append(tracks, Meta(dev, Len(eng) + 1, Candidate(dev.name, n), 0, None))
  BY DEF MakeTrack
<1> DEFINE c == Candidate(dev.name, n)
           m == Meta(dev, Len(eng) + 1, c, 0, None)
<1>2. c \in Slug /\ c \notin usedSlugs
  BY <1>1, NameOfDevice, CandidateIsSlug, SessionAssumption DEF FirstFree
<1>3. eng \in Seq(EngSlot) /\ Len(eng) \in Nat /\ Len(eng) + 1 \in 1..MaxSlots
  BY LenProperties, SessionAssumption DEF MakeTrack, SlotLeft, EngOK
<1>4. m \in TrackMeta /\ m.slot = Len(eng) + 1 /\ m.slug = c
  <2>1. None \in Seq(Nat)
    BY EmptySeq DEF None
  <2> QED
    BY <1>2, <1>3, <2>1, MetaIsTrack
<1>5. opening = <<>> /\ opening' = <<>> /\ closing.todo = {} /\ UNCHANGED <<closing, enc>>
  BY DEF MakeTrack, Quiet
<1>6. tracks \in Seq(TrackMeta) /\ tracks' = Append(tracks, m) /\ usedSlugs' = usedSlugs \cup {c}
  BY <1>1 DEF TracksOK
<1> HIDE DEF c, m
<1>7. /\ tracks' \in Seq(TrackMeta) /\ DOMAIN tracks' = DOMAIN tracks \cup {Len(tracks) + 1}
      /\ \A i \in DOMAIN tracks : tracks'[i] = tracks[i]
      /\ tracks'[Len(tracks) + 1] = m
  BY <1>4, <1>6, AppendShape
<1>8. TracksOK'
  BY <1>2, <1>6, <1>7 DEF TracksOK
<1>9. ClosingOK'
  BY <1>5 DEF ClosingOK
<1>10. NewSlot \in EngSlot /\ eng' = Append(eng, NewSlot)
  BY SessionAssumption DEF NewSlot, EngSlot, MakeTrack
<1>11. /\ eng' \in Seq(EngSlot) /\ Len(eng') = Len(eng) + 1
       /\ DOMAIN eng' = DOMAIN eng \cup {Len(eng) + 1}
  BY <1>3, <1>10, AppendShape
<1>12. EngOK'
  BY <1>3, <1>11 DEF EngOK
<1>13. SlotsOK'
  BY <1>4, <1>5, <1>7, <1>11 DEF SlotsOK
<1>14. WaitHolds'
  BY <1>5 DEF WaitHolds
<1>15. SlugsTaken'
  BY <1>2, <1>4, <1>5, <1>6, <1>7 DEF SlugsTaken, UniqueFiles
<1> QED
  BY <1>0, <1>8, <1>9, <1>12, <1>13, <1>14, <1>15

\* The worker opens an encoder for every track.
LEMMA StartStep ==
    IInv /\ Start => IInv'
<1> SUFFICES ASSUME IInv, Start PROVE IInv'
  OBVIOUS
<1> USE DEF IInv
<1>0. TracksOK' /\ PendingOK' /\ GapsOK' /\ ClosingOK' /\ PollOK' /\ OpeningOK' /\ EngOK' /\
      QueuesOK' /\ ClockOK' /\ WaitHolds' /\ SlugsTaken'
  BY KeepTracksOK, KeepPendingOK, KeepGapsOK, KeepClosingOK, KeepPollOK, KeepOpeningOK,
     KeepEngOK, KeepQueuesOK, KeepClockOK, KeepWaitHolds, KeepSlugsTaken DEF Start
<1> DEFINE f == enc'
<1>1. tracks \in Seq(TrackMeta) /\ f = [i \in DOMAIN tracks |-> f[i]]
  BY DEF Start, TracksOK
<1>2. \A i \in DOMAIN tracks : f[i] \in EncTrack /\ f[i].slot = tracks[i].slot
  <2> SUFFICES ASSUME NEW i \in DOMAIN tracks PROVE f[i] \in EncTrack /\ f[i].slot = tracks[i].slot
    OBVIOUS
  <2>1. tracks[i] \in TrackMeta
    BY <1>1, ElementOfSeq, LenProperties
  <2>2. f[i] = EncoderOf(tracks[i])
    BY DEF Start
  <2> QED
    BY <2>1, <2>2, EncoderIsTrack
<1> HIDE DEF f
<1>3. f \in Seq(EncTrack) /\ DOMAIN f = DOMAIN tracks
  BY <1>1, <1>2, MapIsSeq
<1>4. EncOK'
  BY <1>3 DEF EncOK, f
<1>5. SlotsOK'
  BY <1>2, <1>3 DEF SlotsOK, Start, f
<1>6. ModesOK' /\ Quiet' /\ PendingWatched'
  BY DEF Start, ModesOK, Quiet, PendingWatched
<1> QED
  BY <1>0, <1>4, <1>5, <1>6

\* Time passes and devices deliver.
LEMMA AdvanceStep ==
    IInv /\ Advance => IInv'
<1> SUFFICES ASSUME IInv, Advance PROVE IInv'
  OBVIOUS
<1> USE DEF IInv
<1>0. ModesOK' /\ TracksOK' /\ PendingOK' /\ GapsOK' /\ ClosingOK' /\ PollOK' /\ OpeningOK' /\
      QueuesOK' /\ EncOK' /\ WaitHolds' /\ Quiet' /\ SlugsTaken' /\ PendingWatched'
  BY KeepModesOK, KeepTracksOK, KeepPendingOK, KeepGapsOK, KeepClosingOK, KeepPollOK,
     KeepOpeningOK, KeepQueuesOK, KeepEncOK, KeepWaitHolds, KeepQuiet, KeepSlugsTaken,
     KeepPendingWatched DEF Advance, sessionVars
<1>1. clock' = [clock EXCEPT !.mono = @ + 1] /\ UNCHANGED <<tracks, enc, opening>>
  BY DEF Advance, sessionVars
<1>2. ClockOK'
  BY <1>1 DEF ClockOK
<1>3. PICK talking \in SUBSET {s \in DOMAIN eng : eng[s].on} :
        eng' = [s \in DOMAIN eng |->
                  IF s \in talking /\ eng[s].ring < RingSize
                  THEN [eng[s] EXCEPT !.ring = @ + 1]
                  ELSE eng[s]]
  BY DEF Advance
<1> DEFINE f == eng'
<1>4. eng \in Seq(EngSlot) /\ \A s \in DOMAIN eng : eng[s] \in EngSlot
  BY ElementOfSeq, LenProperties DEF EngOK
<1>5. f = [s \in DOMAIN eng |-> f[s]] /\ \A s \in DOMAIN eng : f[s] \in EngSlot
  <2>1. RingSize \in Nat
    BY SessionAssumption
  <2>2. \A s \in DOMAIN eng : f[s] \in EngSlot
    BY <1>3, <1>4, <2>1 DEF EngSlot
  <2> QED
    BY <1>3, <2>2
<1> HIDE DEF f
<1>6. f \in Seq(EngSlot) /\ Len(f) = Len(eng) /\ DOMAIN f = DOMAIN eng
  BY <1>4, <1>5, MapIsSeq
<1>7. EngOK' /\ SlotsOK'
  BY <1>1, <1>6 DEF EngOK, SlotsOK, f
<1> QED
  BY <1>0, <1>2, <1>7

\* The machine sleeps.
LEMMA SleepStep ==
    IInv /\ Sleep => IInv'
<1> SUFFICES ASSUME IInv, Sleep PROVE IInv'
  OBVIOUS
<1> USE DEF IInv
<1>0. ModesOK' /\ TracksOK' /\ PendingOK' /\ GapsOK' /\ ClosingOK' /\ PollOK' /\ OpeningOK' /\
      EngOK' /\ QueuesOK' /\ EncOK' /\ SlotsOK' /\ WaitHolds' /\ Quiet' /\ SlugsTaken' /\
      PendingWatched'
  BY KeepModesOK, KeepTracksOK, KeepPendingOK, KeepGapsOK, KeepClosingOK, KeepPollOK,
     KeepOpeningOK, KeepEngOK, KeepQueuesOK, KeepEncOK, KeepSlotsOK, KeepWaitHolds, KeepQuiet,
     KeepSlugsTaken, KeepPendingWatched DEF Sleep, sessionVars
<1>2. SleepLen \in Nat
  BY SessionAssumption
<1>3. clock' = [clock EXCEPT !.lead = @ + SleepLen]
  BY DEF Sleep
<1>1. ClockOK'
  BY <1>2, <1>3 DEF ClockOK
<1> QED
  BY <1>0, <1>1

\* A close begins.
LEMMA CloseTrackStep ==
    ASSUME NEW name \in Names, NEW detached \in BOOLEAN
    PROVE  IInv /\ CloseTrack(name, detached) => IInv'
<1> SUFFICES ASSUME IInv, CloseTrack(name, detached) PROVE IInv'
  OBVIOUS
<1> USE DEF IInv
<1>0. ModesOK' /\ TracksOK' /\ PendingOK' /\ GapsOK' /\ PollOK' /\ OpeningOK' /\ EngOK' /\
      QueuesOK' /\ ClockOK' /\ EncOK' /\ SlotsOK' /\ WaitHolds' /\ SlugsTaken' /\ PendingWatched'
  BY KeepModesOK, KeepTracksOK, KeepPendingOK, KeepGapsOK, KeepPollOK, KeepOpeningOK, KeepEngOK,
     KeepQueuesOK, KeepClockOK, KeepEncOK, KeepSlotsOK, KeepWaitHolds, KeepSlugsTaken,
     KeepPendingWatched DEF CloseTrack, workerVars
<1>1. /\ phase = "recording" /\ UNCHANGED <<phase, tracks, opening, pending>>
      /\ closing' = [todo |-> OpenNamed(name),
                     reason |-> IF detached THEN "device-lost" ELSE "off", from |-> 0]
  BY DEF CloseTrack
<1>2. DOMAIN tracks \subseteq Nat
  BY LenProperties DEF TracksOK
<1>3. ClosingOK'
  BY <1>1, <1>2 DEF ClosingOK, OpenNamed, OpenTracks
<1>4. Quiet'
  BY <1>1 DEF Quiet
<1> QED
  BY <1>0, <1>3, <1>4

\* The loss watch closes a track.
LEMMA CheckLostDevicesStep ==
    IInv /\ CheckLostDevices => IInv'
<1> SUFFICES ASSUME IInv, CheckLostDevices PROVE IInv'
  OBVIOUS
<1> USE DEF IInv
<1>0. ModesOK' /\ TracksOK' /\ PendingOK' /\ GapsOK' /\ PollOK' /\ OpeningOK' /\ EngOK' /\
      QueuesOK' /\ ClockOK' /\ EncOK' /\ SlotsOK' /\ WaitHolds' /\ SlugsTaken' /\ PendingWatched'
  BY KeepModesOK, KeepTracksOK, KeepPendingOK, KeepGapsOK, KeepPollOK, KeepOpeningOK, KeepEngOK,
     KeepQueuesOK, KeepClockOK, KeepEncOK, KeepSlotsOK, KeepWaitHolds, KeepSlugsTaken,
     KeepPendingWatched DEF CheckLostDevices, workerVars
<1>1. PICK i \in OpenTracks : closing' = [todo |-> OpenNamed(tracks[i].dev.name),
                                          reason |-> "device-lost", from |-> 0]
  BY DEF CheckLostDevices
<1>2. phase = "recording" /\ UNCHANGED <<phase, tracks, opening, pending>>
  BY DEF CheckLostDevices
<1>3. DOMAIN tracks \subseteq Nat
  BY LenProperties DEF TracksOK
<1>4. ClosingOK'
  BY <1>1, <1>2, <1>3 DEF ClosingOK, OpenNamed, OpenTracks
<1>5. Quiet'
  BY <1>2 DEF Quiet
<1> QED
  BY <1>0, <1>4, <1>5

\* A device goes silent.
LEMMA HandleStalledStep ==
    IInv /\ HandleStalled => IInv'
<1> SUFFICES ASSUME IInv, HandleStalled PROVE IInv'
  OBVIOUS
<1> USE DEF IInv
<1>0. TracksOK' /\ PendingOK' /\ GapsOK' /\ ClosingOK' /\ PollOK' /\ OpeningOK' /\ EngOK' /\
      ClockOK' /\ EncOK' /\ SlotsOK' /\ WaitHolds' /\ Quiet' /\ SlugsTaken' /\ PendingWatched'
  BY KeepTracksOK, KeepPendingOK, KeepGapsOK, KeepClosingOK, KeepPollOK, KeepOpeningOK,
     KeepEngOK, KeepClockOK, KeepEncOK, KeepSlotsOK, KeepWaitHolds, KeepQuiet, KeepSlugsTaken,
     KeepPendingWatched DEF HandleStalled
<1>1. outbox \in Seq(Message) /\ outbox # <<>> /\ outbox' = Tail(outbox) /\ UNCHANGED inbox
  BY DEF HandleStalled, QueuesOK
<1>2. QueuesOK'
  BY <1>1, HeadTailProperties DEF QueuesOK
<1>3. \A i \in DOMAIN tracks : tracks[i].dev.name \in Names
  <2>1. \A i \in DOMAIN tracks : tracks[i] \in TrackMeta
    BY ElementOfSeq, LenProperties DEF TracksOK
  <2> QED
    BY <2>1, NameOfDevice DEF TrackMeta
<1>4. stalled' \subseteq Names
  BY <1>3 DEF HandleStalled, WarnCurrent, IsCurrent, ModesOK
<1>5. ModesOK'
  BY <1>4 DEF ModesOK, HandleStalled
<1> QED
  BY <1>0, <1>2, <1>5

\* A device is heard again.
LEMMA HandleResumedStep ==
    IInv /\ HandleResumed => IInv'
<1> SUFFICES ASSUME IInv, HandleResumed PROVE IInv'
  OBVIOUS
<1> USE DEF IInv
<1>0. TracksOK' /\ PendingOK' /\ GapsOK' /\ ClosingOK' /\ PollOK' /\ OpeningOK' /\ EngOK' /\
      ClockOK' /\ EncOK' /\ SlotsOK' /\ WaitHolds' /\ Quiet' /\ SlugsTaken' /\ PendingWatched'
  BY KeepTracksOK, KeepPendingOK, KeepGapsOK, KeepClosingOK, KeepPollOK, KeepOpeningOK,
     KeepEngOK, KeepClockOK, KeepEncOK, KeepSlotsOK, KeepWaitHolds, KeepQuiet, KeepSlugsTaken,
     KeepPendingWatched DEF HandleResumed
<1>1. outbox \in Seq(Message) /\ outbox # <<>> /\ outbox' = Tail(outbox) /\ UNCHANGED inbox
  BY DEF HandleResumed, QueuesOK
<1>2. QueuesOK'
  BY <1>1, HeadTailProperties DEF QueuesOK
<1>3. ModesOK'
  BY DEF ModesOK, HandleResumed
<1> QED
  BY <1>0, <1>2, <1>3

\* A sleep was noticed: every open track is cut.
LEMMA HandleSleptStep ==
    IInv /\ HandleSlept => IInv'
<1> SUFFICES ASSUME IInv, HandleSlept PROVE IInv'
  OBVIOUS
<1> USE DEF IInv
<1>0. ModesOK' /\ TracksOK' /\ PendingOK' /\ PollOK' /\ OpeningOK' /\ EngOK' /\ ClockOK' /\
      EncOK' /\ SlotsOK' /\ WaitHolds' /\ SlugsTaken' /\ PendingWatched'
  BY KeepModesOK, KeepTracksOK, KeepPendingOK, KeepPollOK, KeepOpeningOK, KeepEngOK, KeepClockOK,
     KeepEncOK, KeepSlotsOK, KeepWaitHolds, KeepSlugsTaken, KeepPendingWatched DEF HandleSlept
<1>1. outbox \in Seq(Message) /\ outbox # <<>> /\ outbox' = Tail(outbox) /\ UNCHANGED inbox
  BY DEF HandleSlept, QueuesOK
<1>2. Head(outbox) \in Message /\ QueuesOK'
  BY <1>1, HeadTailProperties DEF QueuesOK
<1>3. ASSUME phase = "recording" PROVE GapsOK' /\ ClosingOK' /\ Quiet'
  <2>1. /\ gaps' = Append(gaps, [from |-> Head(outbox).from, to |-> Head(outbox).to,
                                 reason |-> "sleep", track |-> None])
        /\ closing' = [todo |-> CutAll, reason |-> "sleep", from |-> Head(outbox).from]
    BY <1>3 DEF HandleSlept
  <2>2. None \in Seq(Nat)
    BY EmptySeq DEF None
  <2> DEFINE g == [from |-> Head(outbox).from, to |-> Head(outbox).to, reason |-> "sleep",
                   track |-> None]
  <2>3. g \in Gap /\ gaps \in Seq(Gap) /\ gaps' = Append(gaps, g)
    BY <1>2, <2>1, <2>2 DEF Gap, Message, GapsOK
  <2> HIDE DEF g
  <2>4. GapsOK'
    BY <2>3, AppendProperties DEF GapsOK
  <2>5. DOMAIN tracks \subseteq Nat
    BY LenProperties DEF TracksOK
  <2>6. ClosingOK' /\ Quiet'
    BY <1>2, <1>3, <2>1, <2>5 DEF ClosingOK, CutAll, OpenTracks, Message, HandleSlept, Quiet
  <2> QED
    BY <2>4, <2>6
<1>4. ASSUME phase # "recording" PROVE GapsOK' /\ ClosingOK' /\ Quiet'
  <2>1. UNCHANGED <<gaps, closing, tracks, phase, opening, pending>>
    BY <1>4 DEF HandleSlept
  <2> QED
    BY <2>1, KeepGapsOK, KeepClosingOK, KeepQuiet
<1>5. QueuesOK' /\ GapsOK' /\ ClosingOK' /\ Quiet'
  BY <1>2, <1>3, <1>4
<1> QED
  BY <1>0, <1>5

\* What is given up or passed over leaves the rest watched.
LEMMA PassOverKeeps ==
    ASSUME IInv, NEW k \in Nat, k >= 1, k <= Len(pending), PassOver(k), UNCHANGED <<phase, polling>>
    PROVE  PendingOK' /\ PollOK' /\ PendingWatched'
<1> USE DEF IInv
<1>1. pending \in Seq(PendingReopen) /\ Len(pending) \in Nat /\ k \in 1..Len(pending)
  BY LenProperties DEF PendingOK
<1>2. ASSUME pending' = RemoveAt(pending, k), UNCHANGED poll
      PROVE  PendingOK' /\ PollOK' /\ PendingWatched'
  <2>1. pending' \in Seq(PendingReopen) /\ pending # <<>>
    BY <1>1, <1>2, RemoveAtIsSeq, EmptySeq
  <2> QED
    BY <1>2, <2>1, KeepPollOK DEF PendingOK, PendingWatched
<1>3. ASSUME poll' = [poll EXCEPT !.k = k + 1], UNCHANGED pending
      PROVE  PendingOK' /\ PollOK' /\ PendingWatched'
  BY <1>3, KeepPendingOK, KeepPendingWatched DEF PollOK
<1> QED
  BY <1>2, <1>3 DEF PassOver

\* The re-open timer fires.
LEMMA PollBeginStep ==
    IInv /\ PollBegin => IInv'
<1> SUFFICES ASSUME IInv, PollBegin PROVE IInv'
  OBVIOUS
<1> USE DEF IInv
<1>0. TracksOK' /\ PendingOK' /\ GapsOK' /\ ClosingOK' /\ OpeningOK' /\ EngOK' /\ QueuesOK' /\
      ClockOK' /\ EncOK' /\ SlotsOK' /\ Quiet' /\ SlugsTaken'
  BY KeepTracksOK, KeepPendingOK, KeepGapsOK, KeepClosingOK, KeepOpeningOK, KeepEngOK,
     KeepQueuesOK, KeepClockOK, KeepEncOK, KeepSlotsOK, KeepQuiet, KeepSlugsTaken DEF PollBegin, workerVars
<1>1. opening = <<>> /\ UNCHANGED <<opening, pending, phase, stalled, ticked, finalized>>
  BY DEF PollBegin, Free, Running, workerVars
<1>2. ASSUME pending = <<>>, polling' = FALSE, UNCHANGED poll
      PROVE  PollOK' /\ ModesOK' /\ PendingWatched'
  BY <1>1, <1>2 DEF PollOK, ModesOK, PendingWatched
<1>3. ASSUME poll' = [poll EXCEPT !.stage = "list"], UNCHANGED polling
      PROVE  PollOK' /\ ModesOK' /\ PendingWatched'
  BY <1>1, <1>3 DEF PollOK, ModesOK, PendingWatched
<1>4. PollOK' /\ ModesOK' /\ PendingWatched'
  BY <1>2, <1>3 DEF PollBegin
<1>5. WaitHolds'
  BY <1>1 DEF WaitHolds
<1> QED
  BY <1>0, <1>4, <1>5

\* The devices are listed.
LEMMA PollListedStep ==
    IInv /\ PollListed => IInv'
<1> SUFFICES ASSUME IInv, PollListed PROVE IInv'
  OBVIOUS
<1> USE DEF IInv
<1>0. ModesOK' /\ TracksOK' /\ PendingOK' /\ GapsOK' /\ ClosingOK' /\ OpeningOK' /\ EngOK' /\
      QueuesOK' /\ ClockOK' /\ EncOK' /\ SlotsOK' /\ Quiet' /\ SlugsTaken' /\ PendingWatched'
  BY KeepModesOK, KeepTracksOK, KeepPendingOK, KeepGapsOK, KeepClosingOK, KeepOpeningOK,
     KeepEngOK, KeepQueuesOK, KeepClockOK, KeepEncOK, KeepSlotsOK, KeepQuiet, KeepSlugsTaken,
     KeepPendingWatched DEF PollListed, workerVars
<1>1. PICK seen \in SUBSET Answering :
        poll' = [stage |-> "scan", k |-> 1, seen |-> seen, now |-> Elapsed]
  BY DEF PollListed
<1>2. Elapsed \in Nat /\ seen \subseteq Devices
  BY ElapsedIsNat DEF Answering
<1>3. PollOK'
  BY <1>1, <1>2 DEF PollOK
<1>4. WaitHolds'
  BY DEF WaitHolds, PollListed, Running
<1> QED
  BY <1>0, <1>3, <1>4

\* The device is back on a track already.
LEMMA PollAlreadyBackStep ==
    IInv /\ PollAlreadyBack => IInv'
<1> SUFFICES ASSUME IInv, PollAlreadyBack PROVE IInv'
  OBVIOUS
<1> USE DEF IInv
<1>0. ModesOK' /\ TracksOK' /\ GapsOK' /\ ClosingOK' /\ PollOK' /\ OpeningOK' /\ EngOK' /\
      QueuesOK' /\ ClockOK' /\ EncOK' /\ SlotsOK' /\ SlugsTaken'
  BY KeepModesOK, KeepTracksOK, KeepGapsOK, KeepClosingOK, KeepPollOK, KeepOpeningOK, KeepEngOK,
     KeepQueuesOK, KeepClockOK, KeepEncOK, KeepSlotsOK, KeepSlugsTaken DEF PollAlreadyBack, workerVars
<1>1. /\ pending' = RemoveAt(pending, poll.k) /\ UNCHANGED <<phase, opening, polling>>
      /\ poll.k <= Len(pending) /\ poll.stage = "scan" /\ opening = <<>>
      /\ phase \in {"recording", "encoding"}
  BY DEF PollAlreadyBack, Scanning, Running
<1>2. pending \in Seq(PendingReopen) /\ Len(pending) \in Nat /\ poll.k \in 1..Len(pending)
  BY <1>1, LenProperties DEF PendingOK, PollOK
<1>3. pending' \in Seq(PendingReopen) /\ pending # <<>>
  BY <1>1, <1>2, RemoveAtIsSeq, EmptySeq
<1>4. PendingOK' /\ PendingWatched' /\ Quiet' /\ WaitHolds'
  BY <1>1, <1>3 DEF PendingOK, PendingWatched, Quiet, WaitHolds
<1> QED
  BY <1>0, <1>4

\* A device is not back yet.
LEMMA PollPassesOverStep ==
    IInv /\ PollPassesOver => IInv'
<1> SUFFICES ASSUME IInv, PollPassesOver PROVE IInv'
  OBVIOUS
<1> USE DEF IInv
<1>0. ModesOK' /\ TracksOK' /\ GapsOK' /\ ClosingOK' /\ OpeningOK' /\ EngOK' /\ QueuesOK' /\
      ClockOK' /\ EncOK' /\ SlotsOK' /\ SlugsTaken'
  BY KeepModesOK, KeepTracksOK, KeepGapsOK, KeepClosingOK, KeepOpeningOK, KeepEngOK,
     KeepQueuesOK, KeepClockOK, KeepEncOK, KeepSlotsOK, KeepSlugsTaken DEF PollPassesOver, workerVars
<1>1. /\ PassOver(poll.k) /\ UNCHANGED <<phase, opening, polling, closing>>
      /\ poll.k <= Len(pending) /\ poll.stage = "scan" /\ opening = <<>>
      /\ phase \in {"recording", "encoding"}
  BY DEF PollPassesOver, Scanning, Running
<1>2. poll.k \in Nat /\ poll.k >= 1
  BY <1>1 DEF PollOK
<1>3. PendingOK' /\ PollOK' /\ PendingWatched'
  BY <1>1, <1>2, PassOverKeeps
<1>4. Quiet' /\ WaitHolds'
  BY <1>1 DEF Quiet, WaitHolds
<1> QED
  BY <1>0, <1>3, <1>4

\* The walk over the lost devices is done.
LEMMA PollEndStep ==
    IInv /\ PollEnd => IInv'
<1> SUFFICES ASSUME IInv, PollEnd PROVE IInv'
  OBVIOUS
<1> USE DEF IInv
<1>0. TracksOK' /\ PendingOK' /\ GapsOK' /\ ClosingOK' /\ OpeningOK' /\ EngOK' /\ QueuesOK' /\
      ClockOK' /\ EncOK' /\ SlotsOK' /\ Quiet' /\ SlugsTaken'
  BY KeepTracksOK, KeepPendingOK, KeepGapsOK, KeepClosingOK, KeepOpeningOK, KeepEngOK,
     KeepQueuesOK, KeepClockOK, KeepEncOK, KeepSlotsOK, KeepQuiet, KeepSlugsTaken DEF PollEnd, workerVars
<1>1. opening = <<>> /\ poll' = NoPoll /\ polling' = (polling /\ pending # <<>>)
  BY DEF PollEnd, Running
<1>2. PollOK'
  BY <1>1 DEF PollOK, NoPoll
<1>3. UNCHANGED <<phase, pending, stalled, ticked, finalized, opening>>
  BY DEF PollEnd, workerVars
<1>4. polling' \in BOOLEAN
  BY <1>1 DEF ModesOK
<1>5. ModesOK'
  BY <1>3, <1>4 DEF ModesOK
<1>6. PendingWatched'
  <2> SUFFICES ASSUME phase' = "recording", pending' # <<>> PROVE polling'
    BY DEF PendingWatched
  <2>1. phase = "recording" /\ pending # <<>>
    BY <1>3
  <2>2. polling
    BY <2>1 DEF PendingWatched
  <2> QED
    BY <1>1, <2>1, <2>2
<1>7. WaitHolds'
  BY <1>1, <1>3 DEF WaitHolds
<1> QED
  BY <1>0, <1>2, <1>5, <1>6, <1>7

\* The recording is stopped.
LEMMA StopStep ==
    IInv /\ Stop => IInv'
<1> SUFFICES ASSUME IInv, Stop PROVE IInv'
  OBVIOUS
<1> USE DEF IInv
<1>0. TracksOK' /\ GapsOK' /\ ClosingOK' /\ PollOK' /\ OpeningOK' /\ EngOK' /\ ClockOK' /\
      EncOK' /\ SlotsOK' /\ SlugsTaken'
  BY KeepTracksOK, KeepGapsOK, KeepClosingOK, KeepPollOK, KeepOpeningOK, KeepEngOK, KeepClockOK,
     KeepEncOK, KeepSlotsOK, KeepSlugsTaken DEF Stop
<1>1. /\ opening = <<>> /\ closing.todo = {} /\ pending' = <<>> /\ polling' = FALSE
      /\ phase' \in {"encoding", "aborting"}
      /\ inbox' = Append(inbox, [kind |-> "finalize", track |-> 0, detached |-> FALSE])
      /\ UNCHANGED <<opening, closing, outbox, stalled, ticked, finalized>>
  BY DEF Stop, Free, Running, Post
<1> DEFINE c == [kind |-> "finalize", track |-> 0, detached |-> FALSE]
<1>2. c \in Command /\ inbox' = Append(inbox, c) /\ inbox \in Seq(Command)
  BY <1>1 DEF Command, QueuesOK
<1> HIDE DEF c
<1>3. QueuesOK'
  BY <1>1, <1>2, AppendProperties DEF QueuesOK
<1>4. PendingOK' /\ ModesOK' /\ PendingWatched' /\ Quiet' /\ WaitHolds'
  BY <1>1, EmptySeq DEF PendingOK, ModesOK, PendingWatched, Quiet, WaitHolds
<1> QED
  BY <1>0, <1>3, <1>4

\* The session is destroyed while it records.
LEMMA DestroyStep ==
    IInv /\ Destroy => IInv'
<1> SUFFICES ASSUME IInv, Destroy PROVE IInv'
  OBVIOUS
<1> USE DEF IInv
<1>0. TracksOK' /\ GapsOK' /\ ClosingOK' /\ PollOK' /\ OpeningOK' /\ EngOK' /\ ClockOK' /\
      EncOK' /\ SlotsOK' /\ SlugsTaken'
  BY KeepTracksOK, KeepGapsOK, KeepClosingOK, KeepPollOK, KeepOpeningOK, KeepEngOK, KeepClockOK,
     KeepEncOK, KeepSlotsOK, KeepSlugsTaken DEF Destroy
<1>1. /\ opening = <<>> /\ closing.todo = {} /\ pending' = <<>> /\ polling' = FALSE
      /\ phase' \in {"encoding", "aborting"}
      /\ inbox' = Append(inbox, [kind |-> "finalize", track |-> 0, detached |-> FALSE])
      /\ UNCHANGED <<opening, closing, outbox, stalled, ticked, finalized>>
  BY DEF Destroy, Free, Running, Post
<1> DEFINE c == [kind |-> "finalize", track |-> 0, detached |-> FALSE]
<1>2. c \in Command /\ inbox' = Append(inbox, c) /\ inbox \in Seq(Command)
  BY <1>1 DEF Command, QueuesOK
<1> HIDE DEF c
<1>3. QueuesOK'
  BY <1>1, <1>2, AppendProperties DEF QueuesOK
<1>4. PendingOK' /\ ModesOK' /\ PendingWatched' /\ Quiet' /\ WaitHolds'
  BY <1>1, EmptySeq DEF PendingOK, ModesOK, PendingWatched, Quiet, WaitHolds
<1> QED
  BY <1>0, <1>3, <1>4

\* Nothing is left to keep once engine and worker are gone.
LEMMA TeardownKeeps ==
    ASSUME IInv, opening = <<>>, closing.todo = {}, phase' = "over", tracks' = <<>>,
           stalled' = {}, eng' = <<>>, enc' = <<>>, outbox' = <<>>,
           UNCHANGED <<usedSlugs, pending, polling, gaps, closing, poll, opening, ticked,
                       finalized, inbox, clock>>
    PROVE  IInv'
<1> USE DEF IInv
<1>1. \A S : <<>> \in Seq(S) /\ Len(<<>>) = 0 /\ DOMAIN <<>> = {}
  BY EmptySeq
<1>2. PendingOK' /\ GapsOK' /\ PollOK' /\ OpeningOK' /\ ClockOK'
  BY KeepPendingOK, KeepGapsOK, KeepPollOK, KeepOpeningOK, KeepClockOK
<1>3. ModesOK' /\ Quiet' /\ PendingWatched' /\ WaitHolds'
  BY DEF ModesOK, Quiet, PendingWatched, WaitHolds
<1>4. TracksOK' /\ QueuesOK' /\ EncOK'
  BY <1>1 DEF TracksOK, QueuesOK, EncOK
<1>5. MaxSlots \in Nat
  BY SessionAssumption
<1>6. EngOK'
  BY <1>1, <1>5 DEF EngOK
<1>7. ClosingOK'
  BY DEF ClosingOK
<1>8. SlotsOK' /\ SlugsTaken'
  BY <1>1 DEF SlotsOK, SlugsTaken, UniqueFiles
<1> QED
  BY <1>2, <1>3, <1>4, <1>6, <1>7, <1>8

\* The recording is over: the worker reported, or the destructor waited for it.
LEMMA HandleFinalizedStep == IInv /\ HandleFinalized => IInv'
<1> SUFFICES ASSUME IInv, HandleFinalized PROVE IInv'
  OBVIOUS
<1>1. opening = <<>> /\ closing.todo = {}
  BY DEF HandleFinalized, Free, Running
<1>2. CASE phase = "encoding"
  BY <1>1, <1>2, TeardownKeeps DEF HandleFinalized
<1>3. CASE phase # "encoding"
  <2> USE DEF IInv
  <2>1. /\ outbox' = Tail(outbox) /\ outbox # <<>> /\ outbox \in Seq(Message) /\ inbox' = inbox
        /\ UNCHANGED <<phase, tracks, stalled, eng, enc>>
        /\ UNCHANGED <<usedSlugs, pending, polling, gaps, closing, poll, opening, ticked,
                       finalized, clock>>
    BY <1>3 DEF HandleFinalized, QueuesOK
  <2>2. QueuesOK'
    BY <2>1, HeadTailProperties DEF QueuesOK
  <2>3. ModesOK' /\ TracksOK' /\ PendingOK' /\ GapsOK' /\ ClosingOK' /\ PollOK' /\ OpeningOK'
    BY <2>1, KeepModesOK, KeepTracksOK, KeepPendingOK, KeepGapsOK, KeepClosingOK, KeepPollOK,
       KeepOpeningOK
  <2>4. /\ EngOK' /\ ClockOK' /\ EncOK' /\ SlotsOK' /\ WaitHolds' /\ Quiet' /\ SlugsTaken'
        /\ PendingWatched'
    BY <2>1, KeepEngOK, KeepClockOK, KeepEncOK, KeepSlotsOK, KeepWaitHolds, KeepQuiet,
       KeepSlugsTaken, KeepPendingWatched
  <2> QED
    BY <2>2, <2>3, <2>4
<1> QED
  BY <1>2, <1>3

LEMMA DestroyEndStep == IInv /\ DestroyEnd => IInv'
<1> SUFFICES ASSUME IInv, DestroyEnd PROVE IInv'
  OBVIOUS
<1>1. opening = <<>> /\ closing.todo = {}
  BY DEF DestroyEnd, IInv, Quiet
<1> QED
  BY <1>1, TeardownKeeps DEF DestroyEnd

\* What the worker does to one of its tracks leaves it a track of the same slot.
LEMMA WorkedIsTrack ==
    ASSUME IInv, NEW i \in DOMAIN enc, NEW now \in Nat
    PROVE  /\ enc[i] \in EncTrack /\ enc[i].slot \in DOMAIN eng
           /\ Drained(enc[i], now) \in EncTrack /\ Drained(enc[i], now).slot = enc[i].slot
           /\ Finished(Drained(enc[i], now), now) \in EncTrack
           /\ Finished(Drained(enc[i], now), now).slot = enc[i].slot
<1>1. enc[i] \in EncTrack /\ enc[i].slot \in DOMAIN eng /\ eng \in Seq(EngSlot)
  BY ElementOfSeq, LenProperties DEF IInv, EncOK, SlotsOK, EngOK
<1>2. Drained(enc[i], now) \in EncTrack /\ Drained(enc[i], now).slot = enc[i].slot
  BY <1>1, DrainedIsTrack
<1> QED
  BY <1>1, <1>2, FinishedIsTrack

LEMMA CutIsTrack ==
    ASSUME NEW t \in EncTrack, NEW from \in Nat
    PROVE  CutBySleep(t, from) \in EncTrack /\ CutBySleep(t, from).slot = t.slot
<1> DEFINE s == [t EXCEPT !.suspended = TRUE]
           c == [s EXCEPT !.cap = from]
<1>1. s \in EncTrack /\ s.slot = t.slot
  BY DEF EncTrack
<1> HIDE DEF s
<1>2. c \in EncTrack /\ c.slot = t.slot
  BY <1>1 DEF EncTrack
<1>3. c = [t EXCEPT !.suspended = TRUE, !.cap = from]
  BY DEF s
<1> HIDE DEF c
<1> QED
  BY <1>2, <1>3 DEF CutBySleep

\* Every encoder replaced by one of the same slot, rings emptied.
LEMMA WorkKeeps ==
    ASSUME IInv, enc' = [i \in DOMAIN enc |-> enc'[i]],
           \A i \in DOMAIN enc : enc'[i] \in EncTrack /\ enc'[i].slot = enc[i].slot,
           NEW S, eng' = Emptied(S), UNCHANGED <<tracks, opening>>
    PROVE  EncOK' /\ EngOK' /\ SlotsOK'
<1> USE DEF IInv
<1> DEFINE f == enc'
<1>1. enc \in Seq(EncTrack) /\ f = [i \in DOMAIN enc |-> f[i]]
      /\ \A i \in DOMAIN enc : f[i] \in EncTrack /\ f[i].slot = enc[i].slot
  BY DEF EncOK
<1> HIDE DEF f
<1>2. f \in Seq(EncTrack) /\ DOMAIN f = DOMAIN enc
  BY <1>1, MapIsSeq
<1> DEFINE e == eng'
<1>3. e \in Seq(EngSlot) /\ Len(e) = Len(eng) /\ DOMAIN e = DOMAIN eng
  BY EmptiedIsEngine
<1> HIDE DEF e
<1>4. EncOK' /\ EngOK'
  BY <1>2, <1>3 DEF EncOK, EngOK, f, e
<1>5. SlotsOK'
  BY <1>1, <1>2, <1>3 DEF SlotsOK, f, e
<1> QED
  BY <1>4, <1>5

\* The worker ticks.
LEMMA WorkerTickStep ==
    IInv /\ WorkerTick => IInv'
<1> SUFFICES ASSUME IInv, WorkerTick PROVE IInv'
  OBVIOUS
<1> USE DEF IInv
<1>0. TracksOK' /\ PendingOK' /\ GapsOK' /\ ClosingOK' /\ PollOK' /\ OpeningOK' /\ WaitHolds' /\
      Quiet' /\ SlugsTaken' /\ PendingWatched'
  BY KeepTracksOK, KeepPendingOK, KeepGapsOK, KeepClosingOK, KeepPollOK, KeepOpeningOK,
     KeepWaitHolds, KeepQuiet, KeepSlugsTaken, KeepPendingWatched DEF WorkerTick, Tick, sessionVars
<1> DEFINE jump == IF ticked THEN SleepJump(clock.lead) ELSE 0
           now == Elapsed + jump
           cut == [i \in DOMAIN enc |-> IF jump > 0 THEN CutBySleep(enc[i], Elapsed) ELSE enc[i]]
           drained == [i \in DOMAIN enc |-> Drained(cut[i], now)]
           back == {i \in DOMAIN enc : enc[i].stalled /\ ~drained[i].stalled}
           late == {i \in DOMAIN enc : /\ ~drained[i].closed /\ ~drained[i].stalled
                                       /\ ~drained[i].suspended /\ Watched(drained[i])
                                       /\ IsStalled(now - drained[i].last)}
<1>1. TickAt(jump) /\ UNCHANGED <<tracks, opening>>
  BY DEF WorkerTick, Tick, sessionVars
<1>2. Elapsed \in Nat /\ clock \in [mono: Nat, slept: Nat, lead: Nat] /\ jump \in Nat /\ now \in Nat
  BY ElapsedIsNat, JumpIsNat DEF ClockOK
<1>3. \A i \in DOMAIN enc : cut[i] \in EncTrack /\ cut[i].slot = enc[i].slot
  <2> SUFFICES ASSUME NEW i \in DOMAIN enc PROVE cut[i] \in EncTrack /\ cut[i].slot = enc[i].slot
    OBVIOUS
  <2>1. enc[i] \in EncTrack
    BY <1>2, WorkedIsTrack
  <2>2. cut[i] = IF jump > 0 THEN CutBySleep(enc[i], Elapsed) ELSE enc[i]
    OBVIOUS
  <2> HIDE DEF cut, jump, now
  <2>3. CutBySleep(enc[i], Elapsed) \in EncTrack /\ CutBySleep(enc[i], Elapsed).slot = enc[i].slot
    BY <1>2, <2>1, CutIsTrack
  <2> QED
    BY <2>1, <2>2, <2>3
<1>4. \A i \in DOMAIN enc : drained[i] \in EncTrack /\ drained[i].slot = enc[i].slot
  <2> SUFFICES ASSUME NEW i \in DOMAIN enc
               PROVE  drained[i] \in EncTrack /\ drained[i].slot = enc[i].slot
    OBVIOUS
  <2>1. cut[i] \in EncTrack /\ cut[i].slot = enc[i].slot /\ cut[i].slot \in DOMAIN eng
    BY <1>2, <1>3, WorkedIsTrack
  <2>2. eng \in Seq(EngSlot)
    BY DEF EngOK
  <2>3. drained[i] = Drained(cut[i], now)
    OBVIOUS
  <2> HIDE DEF cut, now, drained
  <2> QED
    BY <1>2, <2>1, <2>2, <2>3, DrainedIsTrack
<1>5. /\ enc' = [i \in DOMAIN enc |->
                   IF i \in late THEN [drained[i] EXCEPT !.stalled = TRUE] ELSE drained[i]]
      /\ outbox' = outbox \o (IF jump > 0 THEN Slept(Elapsed, now) ELSE <<>>)
                          \o Signal("resumed", back) \o Signal("stalled", late)
      /\ eng' = Emptied(DOMAIN enc)
      /\ clock' = [clock EXCEPT !.slept = @ + jump, !.lead = 0]
  BY <1>1 DEF TickAt
<1>6. DOMAIN enc \subseteq Nat
  BY LenProperties DEF EncOK
<1>7. back \in SUBSET Nat /\ late \in SUBSET Nat
  BY <1>6
<1> HIDE DEF jump, now, cut, drained, back, late
<1>13. clock.slept + jump \in Nat
  BY <1>2
<1>8. ClockOK'
  BY <1>2, <1>5, <1>13 DEF ClockOK
<1>9. \A i \in DOMAIN enc : enc'[i] \in EncTrack /\ enc'[i].slot = enc[i].slot
  BY <1>4, <1>5 DEF EncTrack
<1>10. EncOK' /\ EngOK' /\ SlotsOK'
  BY <1>1, <1>5, <1>9, WorkKeeps
<1>11. outbox' \in Seq(Message)
  <2>1. (IF jump > 0 THEN Slept(Elapsed, now) ELSE <<>>) \in Seq(Message)
    BY <1>2, SleptIsQueue, EmptySeq
  <2>2. outbox \in Seq(Message)
    BY DEF QueuesOK
  <2>3. Signal("resumed", back) \in Seq(Message) /\ Signal("stalled", late) \in Seq(Message)
    BY <1>7, SignalIsQueue
  <2> QED
    BY <1>5, <2>1, <2>2, <2>3, ConcatQueue
<1>12. QueuesOK' /\ ModesOK'
  BY <1>11 DEF QueuesOK, ModesOK, WorkerTick, Tick, sessionVars
<1> QED
  BY <1>0, <1>8, <1>10, <1>12

\* A track's file is closed.
LEMMA CloseEncoderStep ==
    IInv /\ CloseEncoder /\ UNCHANGED sessionVars => IInv'
<1> SUFFICES ASSUME IInv, CloseEncoder, UNCHANGED sessionVars PROVE IInv'
  OBVIOUS
<1> USE DEF IInv
<1>0. ModesOK' /\ TracksOK' /\ PendingOK' /\ GapsOK' /\ ClosingOK' /\ PollOK' /\ OpeningOK' /\
      ClockOK' /\ WaitHolds' /\ Quiet' /\ SlugsTaken' /\ PendingWatched'
  BY KeepModesOK, KeepTracksOK, KeepPendingOK, KeepGapsOK, KeepClosingOK, KeepPollOK,
     KeepOpeningOK, KeepClockOK, KeepWaitHolds, KeepQuiet, KeepSlugsTaken, KeepPendingWatched DEF CloseEncoder, sessionVars
<1>1. inbox \in Seq(Command) /\ inbox # <<>> /\ inbox' = Tail(inbox) /\ outbox \in Seq(Message)
  BY DEF CloseEncoder, QueuesOK
<1>2. inbox' \in Seq(Command) /\ Head(inbox) \in Command
  BY <1>1, HeadTailProperties
<1>3. UNCHANGED <<tracks, opening>>
  BY DEF sessionVars
<1>4. CASE Head(inbox).track \notin DOMAIN enc
  <2>1. UNCHANGED <<enc, outbox, eng>>
    BY <1>4 DEF CloseEncoder
  <2>2. EncOK' /\ EngOK' /\ SlotsOK'
    BY <1>3, <2>1, KeepEncOK, KeepEngOK, KeepSlotsOK
  <2> QED
    BY <1>0, <1>1, <1>2, <2>1, <2>2 DEF QueuesOK
<1>5. CASE Head(inbox).track \in DOMAIN enc
  <2> DEFINE i == Head(inbox).track
             detached == Head(inbox).detached
             drained == Drained(enc[i], Elapsed)
             done == Finished(drained, Elapsed)
  <2>1. CloseTrackFile(i, detached)
    BY <1>5 DEF CloseEncoder
  <2>2. /\ enc' = [enc EXCEPT ![i] = [done EXCEPT !.stalled = detached]]
        /\ outbox' = outbox
             \o Signal("resumed", IF enc[i].stalled /\ ~drained.stalled THEN {i} ELSE {})
             \o Signal("stalled", IF detached /\ ~done.stalled THEN {i} ELSE {})
             \o Signal("resumed", IF ~detached /\ done.stalled THEN {i} ELSE {})
        /\ eng' = Emptied({i})
    BY <2>1 DEF CloseTrackFile
  <2>3. i \in Nat /\ detached \in BOOLEAN /\ i \in DOMAIN enc
    BY <1>2, <1>5 DEF Command
  <2>4. done \in EncTrack /\ done.slot = enc[i].slot
    BY <1>5, ElapsedIsNat, WorkedIsTrack
  <2> HIDE DEF i, detached, drained, done
  <2>5. [done EXCEPT !.stalled = detached] \in EncTrack
        /\ [done EXCEPT !.stalled = detached].slot = enc[i].slot
    BY <2>3, <2>4 DEF EncTrack
  <2>6. \A j \in DOMAIN enc : enc[j] \in EncTrack
    BY ElapsedIsNat, WorkedIsTrack
  <2>7. /\ enc' = [j \in DOMAIN enc |-> enc'[j]]
        /\ \A j \in DOMAIN enc : enc'[j] \in EncTrack /\ enc'[j].slot = enc[j].slot
    BY <2>2, <2>5, <2>6
  <2>8. EncOK' /\ EngOK' /\ SlotsOK'
    BY <1>3, <2>2, <2>7, WorkKeeps
  <2>9. outbox' \in Seq(Message)
    <3>1. /\ (IF enc[i].stalled /\ ~drained.stalled THEN {i} ELSE {}) \in SUBSET Nat
          /\ (IF detached /\ ~done.stalled THEN {i} ELSE {}) \in SUBSET Nat
          /\ (IF ~detached /\ done.stalled THEN {i} ELSE {}) \in SUBSET Nat
      BY <2>3
    <3>2. /\ Signal("resumed", IF enc[i].stalled /\ ~drained.stalled THEN {i} ELSE {})
               \in Seq(Message)
          /\ Signal("stalled", IF detached /\ ~done.stalled THEN {i} ELSE {}) \in Seq(Message)
          /\ Signal("resumed", IF ~detached /\ done.stalled THEN {i} ELSE {}) \in Seq(Message)
      BY <3>1, SignalIsQueue
    <3> QED
      BY <1>1, <2>2, <3>2, ConcatQueue
  <2> QED
    BY <1>0, <1>2, <2>8, <2>9 DEF QueuesOK
<1> QED
  BY <1>0, <1>4, <1>5

\* The worker finalizes every file.
LEMMA FinalizeStep ==
    IInv /\ Finalize /\ UNCHANGED sessionVars => IInv'
<1> SUFFICES ASSUME IInv, Finalize, UNCHANGED sessionVars PROVE IInv'
  OBVIOUS
<1> USE DEF IInv
<1>0. TracksOK' /\ PendingOK' /\ GapsOK' /\ ClosingOK' /\ PollOK' /\ OpeningOK' /\ ClockOK' /\
      WaitHolds' /\ Quiet' /\ SlugsTaken' /\ PendingWatched'
  BY KeepTracksOK, KeepPendingOK, KeepGapsOK, KeepClosingOK, KeepPollOK, KeepOpeningOK,
     KeepClockOK, KeepWaitHolds, KeepQuiet, KeepSlugsTaken, KeepPendingWatched DEF Finalize, sessionVars
<1>1. inbox \in Seq(Command) /\ inbox # <<>> /\ inbox' = Tail(inbox) /\ outbox \in Seq(Message)
  BY DEF Finalize, QueuesOK
<1>2. inbox' \in Seq(Command) /\ finalized' = TRUE
  BY <1>1, HeadTailProperties DEF Finalize
<1>3. UNCHANGED <<tracks, opening, phase, polling, stalled, ticked>>
  BY DEF Finalize, sessionVars
<1>4. ModesOK'
  BY <1>2, <1>3 DEF ModesOK
<1>5. CASE finalized
  <2>1. UNCHANGED <<enc, outbox, eng>>
    BY <1>5 DEF Finalize
  <2>2. EncOK' /\ EngOK' /\ SlotsOK'
    BY <1>3, <2>1, KeepEncOK, KeepEngOK, KeepSlotsOK
  <2> QED
    BY <1>0, <1>1, <1>2, <1>4, <2>1, <2>2 DEF QueuesOK
<1>6. CASE ~finalized
  <2> DEFINE drained == [i \in DOMAIN enc |-> Drained(enc[i], Elapsed)]
             back == {i \in DOMAIN enc : enc[i].stalled /\ ~drained[i].stalled}
  <2>1. /\ enc' = [i \in DOMAIN enc |-> Finished(drained[i], Elapsed)]
        /\ outbox' = outbox \o Signal("resumed", back) \o Finalized
        /\ eng' = Emptied(DOMAIN enc)
    BY <1>6 DEF Finalize, FinalizeAll
  <2>2. \A i \in DOMAIN enc : enc'[i] = Finished(Drained(enc[i], Elapsed), Elapsed)
    BY <2>1
  <2>3. \A i \in DOMAIN enc : enc'[i] \in EncTrack /\ enc'[i].slot = enc[i].slot
    BY <2>2, ElapsedIsNat, WorkedIsTrack
  <2>4. EncOK' /\ EngOK' /\ SlotsOK'
    BY <1>3, <2>1, <2>3, WorkKeeps
  <2>5. back \in SUBSET Nat
    BY LenProperties DEF EncOK
  <2> HIDE DEF drained, back
  <2>6. outbox' \in Seq(Message)
    <3>1. Signal("resumed", back) \in Seq(Message)
      BY <2>5, SignalIsQueue
    <3> QED
      BY <1>1, <2>1, <3>1, FinalizedIsQueue, ConcatQueue
  <2> QED
    BY <1>0, <1>2, <1>4, <2>4, <2>6 DEF QueuesOK
<1> QED
  BY <1>0, <1>5, <1>6

\* One track of a loop is closed.
LEMMA CloseNextStep ==
    IInv /\ CloseNext => IInv'
<1> SUFFICES ASSUME IInv, CloseNext PROVE IInv'
  OBVIOUS
<1> USE DEF IInv
<1>0. GapsOK' /\ PollOK' /\ OpeningOK' /\ ClockOK' /\ EncOK'
  BY KeepGapsOK, KeepPollOK, KeepOpeningOK, KeepClockOK, KeepEncOK DEF CloseNext
<1>1. PICK i \in closing.todo :
        /\ BeginReopen(i)
        /\ tracks' = [tracks EXCEPT ![i].closed = TRUE]
        /\ CaptureStops(i)
        /\ inbox' = Append(inbox, [kind |-> "close", track |-> i,
                                   detached |-> closing.reason = "device-lost"])
        /\ closing' = IF closing.todo = {i} THEN NotClosing
                      ELSE [closing EXCEPT !.todo = @ \ {i}]
  BY DEF CloseNext
<1>2. opening = <<>> /\ UNCHANGED <<opening, phase, stalled, ticked, finalized, usedSlugs, enc, outbox>>
  BY DEF CloseNext
<1>3. tracks \in Seq(TrackMeta) /\ \A j \in DOMAIN tracks : tracks[j] \in TrackMeta
  BY ElementOfSeq, LenProperties DEF TracksOK
<1>4. i \in DOMAIN tracks /\ i \in Nat /\ tracks[i] \in TrackMeta
  BY <1>3, LenProperties DEF ClosingOK
<1>5. phase \in {"recording", "encoding"}
  BY <1>1 DEF Quiet, ModesOK
<1>6. tracks' \in Seq(TrackMeta) /\ DOMAIN tracks' = DOMAIN tracks
  <2> DEFINE f == tracks'
  <2>1. f = [j \in DOMAIN tracks |-> f[j]] /\ \A j \in DOMAIN tracks : f[j] \in TrackMeta
    BY <1>1, <1>3 DEF TrackMeta
  <2> HIDE DEF f
  <2>2. f \in Seq(TrackMeta) /\ DOMAIN f = DOMAIN tracks
    BY <1>3, <2>1, MapIsSeq
  <2> QED
    BY <2>2 DEF f
<1>7. \A j \in DOMAIN tracks : tracks'[j].slug = tracks[j].slug /\ tracks'[j].slot = tracks[j].slot
  BY <1>1, <1>3 DEF TrackMeta
<1>8. TracksOK' /\ SlugsTaken'
  BY <1>2, <1>6, <1>7 DEF TracksOK, SlugsTaken, UniqueFiles
<1>9. EngOK' /\ SlotsOK'
  <2> DEFINE e == eng'
  <2>1. e = SlotOff(tracks[i].slot)
    BY <1>1 DEF CaptureStops
  <2>2. e \in Seq(EngSlot) /\ Len(e) = Len(eng) /\ DOMAIN e = DOMAIN eng
    BY <2>1, SlotOffIsEngine
  <2> HIDE DEF e
  <2> QED
    BY <1>2, <1>6, <1>7, <2>2 DEF EngOK, SlotsOK, e
<1>10. ClosingOK'
  BY <1>1, <1>6 DEF ClosingOK, NotClosing
<1>11. Quiet' /\ WaitHolds'
  BY <1>2, <1>5 DEF Quiet, WaitHolds
<1>12. QueuesOK'
  <2> DEFINE c == [kind |-> "close", track |-> i, detached |-> closing.reason = "device-lost"]
  <2>1. c \in Command /\ inbox' = Append(inbox, c) /\ inbox \in Seq(Command)
    BY <1>1, <1>4 DEF Command, QueuesOK
  <2> HIDE DEF c
  <2> QED
    BY <1>2, <2>1, AppendProperties DEF QueuesOK
<1>13. PendingOK' /\ ModesOK' /\ PendingWatched'
  <2>1. ASSUME UNCHANGED <<pending, polling>> PROVE PendingOK' /\ ModesOK' /\ PendingWatched'
    BY <1>2, <2>1, KeepPendingOK, KeepModesOK, KeepPendingWatched
  <2>2. ASSUME closing.reason # "off", polling' = TRUE,
               pending' = Append(pending,
                 [dev |-> tracks[i].dev, reason |-> closing.reason, prev |-> tracks[i].slug,
                  since |-> Elapsed,
                  from |-> IF closing.reason = "sleep" THEN closing.from ELSE Elapsed])
        PROVE  PendingOK' /\ ModesOK' /\ PendingWatched'
    <3> DEFINE p == [dev |-> tracks[i].dev, reason |-> closing.reason, prev |-> tracks[i].slug,
                     since |-> Elapsed,
                     from |-> IF closing.reason = "sleep" THEN closing.from ELSE Elapsed]
    <3>1. Elapsed \in Nat /\ closing.reason \in {"sleep", "device-lost"} /\ closing.from \in Nat
      BY <2>2, ElapsedIsNat DEF ClosingOK
    <3>2. tracks[i].dev \in Devices /\ tracks[i].slug \in Slug
      BY <1>4 DEF TrackMeta
    <3>3. p \in PendingReopen /\ pending' = Append(pending, p) /\ pending \in Seq(PendingReopen)
      BY <2>2, <3>1, <3>2 DEF PendingReopen, PendingOK
    <3> HIDE DEF p
    <3> QED
      BY <1>2, <2>2, <3>3, AppendProperties DEF PendingOK, ModesOK, PendingWatched
  <2> QED
    BY <1>1, <2>1, <2>2 DEF BeginReopen
<1> QED
  BY <1>0, <1>8, <1>9, <1>10, <1>11, <1>12, <1>13

\* The opening of a track for a device no track is open for, up to the wait for the worker.
LEMMA BeginOpenStep ==
    ASSUME IInv, NEW dev \in Devices, NEW k \in 0..Len(pending), Running, OpenNamed(dev.name) = {},
           poll.stage = "scan" => poll.k <= Len(pending),
           BeginOpen(dev, k), UNCHANGED <<pending, polling, poll>>
    PROVE  IInv'
<1> USE DEF IInv
<1>0. /\ ModesOK' /\ PendingOK' /\ GapsOK' /\ ClosingOK' /\ PollOK' /\ ClockOK' /\ EncOK'
      /\ PendingWatched'
  BY KeepModesOK, KeepPendingOK, KeepGapsOK, KeepClosingOK, KeepPollOK, KeepClockOK, KeepEncOK,
     KeepPendingWatched DEF BeginOpen
<1> DEFINE continues == IF k = 0 THEN None ELSE pending[k].prev
<1>1. PICK n \in 1..(MaxSlots + 1) :
        /\ FirstFree(dev.name, n)
        /\ usedSlugs' = usedSlugs \cup {Candidate(dev.name, n)}
        /\ opening' = <<[k |-> k, meta |-> Meta(dev, Len(eng) + 1, Candidate(dev.name, n),
                                                Elapsed, continues)]>>
  BY DEF BeginOpen
<1>2. /\ UNCHANGED <<phase, tracks, closing, enc, outbox>> /\ eng' = Append(eng, NewSlot)
      /\ inbox' = Append(inbox, [kind |-> "add", track |-> 0, detached |-> FALSE])
  BY DEF BeginOpen
<1> DEFINE c == Candidate(dev.name, n)
           m == Meta(dev, Len(eng) + 1, c, Elapsed, continues)
<1>3. MaxSlots \in Nat /\ Elapsed \in Nat
  BY SessionAssumption, ElapsedIsNat
<1>4. c \in Slug /\ c \notin usedSlugs
  BY <1>1, <1>3, NameOfDevice, CandidateIsSlug DEF FirstFree
<1>5. eng \in Seq(EngSlot) /\ Len(eng) \in Nat /\ Len(eng) + 1 \in 1..MaxSlots
  BY <1>3, LenProperties DEF BeginOpen, SlotLeft, EngOK
<1>6. pending \in Seq(PendingReopen) /\ Len(pending) \in Nat
  BY LenProperties DEF PendingOK
<1>7. continues \in Seq(Nat)
  <2>1. CASE k = 0
    BY <2>1, EmptySeq DEF None
  <2>2. CASE k # 0
    <3>1. pending[k] \in PendingReopen
      BY <1>6, <2>2, ElementOfSeq
    <3> QED
      BY <2>2, <3>1 DEF PendingReopen, Slug
  <2> QED
    BY <2>1, <2>2
<1> HIDE DEF continues, c
<1>8. m \in TrackMeta /\ m.slot = Len(eng) + 1 /\ m.slug = c /\ m.dev = dev
  BY <1>3, <1>4, <1>5, <1>7, MetaIsTrack
<1>9. opening' = <<[k |-> k, meta |-> m]>> /\ usedSlugs' = usedSlugs \cup {c}
  BY <1>1 DEF c
<1> HIDE DEF m
<1>10. [k |-> k, meta |-> m] \in Opening
  BY <1>6, <1>8 DEF Opening
<1>11. /\ opening' \in Seq(Opening) /\ Len(opening') = 1 /\ DOMAIN opening' = {1}
       /\ opening'[1].k = k /\ opening'[1].meta = m /\ opening' # <<>>
  BY <1>9, <1>10
<1>12. OpeningOK'
  BY <1>11 DEF OpeningOK
<1>13. TracksOK'
  BY <1>2, <1>4, <1>9 DEF TracksOK
<1>14. NewSlot \in EngSlot
  BY SessionAssumption DEF NewSlot, EngSlot
<1>15. /\ eng' \in Seq(EngSlot) /\ Len(eng') = Len(eng) + 1
       /\ DOMAIN eng' = DOMAIN eng \cup {Len(eng) + 1}
  BY <1>2, <1>5, <1>14, AppendShape
<1>16. EngOK' /\ SlotsOK'
  BY <1>2, <1>5, <1>8, <1>11, <1>15 DEF EngOK, SlotsOK
<1>17. WaitHolds'
  <2>1. OpenNamed(dev.name)' = {}
    BY <1>2 DEF OpenNamed, OpenTracks
  <2> QED
    BY <1>6, <1>8, <1>11, <2>1 DEF WaitHolds
<1>18. Quiet'
  BY <1>2 DEF Quiet, Running
<1>19. SlugsTaken'
  BY <1>2, <1>4, <1>8, <1>9, <1>11 DEF SlugsTaken, UniqueFiles
<1>20. QueuesOK'
  <2> DEFINE a == [kind |-> "add", track |-> 0, detached |-> FALSE]
  <2>1. a \in Command /\ inbox' = Append(inbox, a) /\ inbox \in Seq(Command)
    BY <1>2 DEF Command, QueuesOK
  <2> HIDE DEF a
  <2> QED
    BY <1>2, <2>1, AppendProperties DEF QueuesOK
<1> QED
  BY <1>0, <1>12, <1>13, <1>16, <1>17, <1>18, <1>19, <1>20

\* A device joins by hand.
LEMMA AddDeviceStep ==
    ASSUME NEW dev \in Devices
    PROVE  IInv /\ AddDevice(dev) => IInv'
<1> SUFFICES ASSUME IInv, AddDevice(dev) PROVE IInv'
  OBVIOUS
<1>1. Running /\ poll.stage = "off" /\ OpenNamed(dev.name) = {} /\ UNCHANGED <<pending, polling, poll>>
  BY DEF AddDevice, Free
<1>2. Len(pending) \in Nat /\ DOMAIN pending = 1..Len(pending)
  BY LenProperties DEF IInv, PendingOK
<1>3. CASE BeginOpen(dev, 0)
  BY <1>1, <1>2, <1>3, BeginOpenStep
<1>4. ASSUME NEW k \in PendingFor(dev), BeginOpen(dev, k) PROVE IInv'
  <2>1. k \in DOMAIN pending
    BY DEF PendingFor, Matching
  <2> QED
    BY <1>1, <1>2, <1>4, <2>1, BeginOpenStep
<1> QED
  BY <1>3, <1>4 DEF AddDevice

\* A poll found a lost device.
LEMMA PollReopensStep == IInv /\ PollReopens => IInv'
<1> SUFFICES ASSUME IInv, PollReopens PROVE IInv'
  OBVIOUS
<1>1. PICK d \in Returned(poll.k) : OpenNamed(d.name) = {} /\ BeginOpen(d, poll.k)
  BY DEF PollReopens
<1>2. d \in Devices
  BY <1>1 DEF Returned, Matching, IInv, PollOK
<1>3. /\ Running /\ poll.stage = "scan" /\ poll.k <= Len(pending)
      /\ UNCHANGED <<pending, polling, poll>>
  BY DEF PollReopens, Scanning
<1>4. poll.k \in 0..Len(pending)
  BY <1>3, LenProperties DEF IInv, PollOK, PendingOK
<1> QED
  BY <1>1, <1>2, <1>3, <1>4, BeginOpenStep

\* What the main thread waits with.
LEMMA OpeningShape ==
    ASSUME IInv, opening # <<>>
    PROVE  /\ DOMAIN opening = {1} /\ opening[1] \in Opening
           /\ opening[1].meta \in TrackMeta /\ opening[1].k \in 0..Len(pending)
           /\ phase \in {"recording", "encoding"}
<1>1. opening \in Seq(Opening) /\ Len(opening) \in Nat /\ Len(opening) <= 1
  BY LenProperties DEF IInv, OpeningOK
<1>2. Len(opening) = 1
  <2>1. Len(opening) # 0
    BY <1>1, EmptySeq
  <2>2. \A n \in Nat : n <= 1 /\ n # 0 => n = 1
    OBVIOUS
  <2> QED
    BY <1>1, <2>1, <2>2
<1>3. DOMAIN opening = {1} /\ opening[1] \in Opening
  BY <1>1, <1>2, ElementOfSeq
<1>4. opening[1].k <= Len(pending)
  BY DEF IInv, WaitHolds
<1>5. Len(pending) \in Nat
  BY LenProperties DEF IInv, PendingOK
<1> QED
  BY <1>3, <1>4, <1>5 DEF Opening, IInv, Quiet, ModesOK

\* The encoder starts and the track is there.
LEMMA AddEncoderStep ==
    IInv /\ AddEncoder => IInv'
<1> SUFFICES ASSUME IInv, AddEncoder PROVE IInv'
  OBVIOUS
<1> USE DEF IInv
<1>0. PollOK' /\ EngOK' /\ ClockOK'
  BY KeepPollOK, KeepEngOK, KeepClockOK DEF AddEncoder
<1>1. /\ opening # <<>> /\ opening' = <<>>
      /\ UNCHANGED <<phase, usedSlugs, closing, poll, eng, outbox, ticked, finalized>>
      /\ inbox # <<>> /\ inbox' = Tail(inbox)
  BY DEF AddEncoder
<1> DEFINE m == opening[1].meta
           k == opening[1].k
           t == EncoderOf(m)
<1>2. /\ m \in TrackMeta /\ k \in 0..Len(pending) /\ phase \in {"recording", "encoding"}
      /\ DOMAIN opening = {1}
  BY <1>1, OpeningShape
<1>3. /\ m.slot \in DOMAIN eng /\ m.slug \in usedSlugs
      /\ \A j \in DOMAIN tracks : tracks[j].slug # m.slug
  BY <1>2 DEF SlotsOK, SlugsTaken
<1>4. Opened(m, k) /\ enc' = Append(enc, t)
  BY DEF AddEncoder
<1>5. t \in EncTrack /\ t.slot = m.slot
  BY <1>2, EncoderIsTrack
<1> HIDE DEF m, k, t
<1>6. tracks \in Seq(TrackMeta) /\ tracks' = Append(tracks, m) /\ enc \in Seq(EncTrack)
  BY <1>4 DEF Opened, TracksOK, EncOK
<1>7. /\ tracks' \in Seq(TrackMeta) /\ DOMAIN tracks' = DOMAIN tracks \cup {Len(tracks) + 1}
      /\ \A i \in DOMAIN tracks : tracks'[i] = tracks[i]
      /\ tracks'[Len(tracks) + 1] = m
  BY <1>2, <1>6, AppendShape
<1>8. /\ enc' \in Seq(EncTrack) /\ DOMAIN enc' = DOMAIN enc \cup {Len(enc) + 1}
      /\ \A i \in DOMAIN enc : enc'[i] = enc[i]
      /\ enc'[Len(enc) + 1] = t
  BY <1>4, <1>5, <1>6, AppendShape
<1>9. TracksOK' /\ EncOK' /\ ClosingOK'
  BY <1>1, <1>7, <1>8 DEF TracksOK, EncOK, ClosingOK
<1>10. OpeningOK' /\ WaitHolds' /\ DOMAIN opening' = {}
  BY <1>1, EmptySeq DEF OpeningOK, WaitHolds
<1>11. SlotsOK'
  BY <1>1, <1>3, <1>5, <1>7, <1>8, <1>10 DEF SlotsOK
<1>12. SlugsTaken'
  BY <1>1, <1>3, <1>7, <1>10 DEF SlugsTaken, UniqueFiles
<1>13. QueuesOK' /\ Quiet'
  BY <1>1, <1>2, HeadTailProperties DEF QueuesOK, Quiet
<1>14. pending \in Seq(PendingReopen) /\ Len(pending) \in Nat
  BY LenProperties DEF PendingOK
<1>15. stalled' \subseteq Names
  BY <1>4 DEF Opened, ModesOK
<1>16. ASSUME k = 0 PROVE PendingOK' /\ GapsOK' /\ ModesOK' /\ PendingWatched'
  <2>1. UNCHANGED <<pending, gaps, polling>>
    BY <1>4, <1>16 DEF Opened
  <2> QED
    BY <1>1, <1>15, <2>1, KeepPendingOK, KeepGapsOK, KeepPendingWatched DEF ModesOK
<1>17. ASSUME k # 0 PROVE PendingOK' /\ GapsOK' /\ ModesOK' /\ PendingWatched'
  <2>1. /\ pending' = RemoveAt(pending, k) /\ gaps' = gaps \o GapOf(pending[k], m)
        /\ polling' = (polling /\ Len(pending) > 1)
    BY <1>4, <1>17 DEF Opened
  <2>2. k \in 1..Len(pending) /\ pending[k] \in PendingReopen
    BY <1>2, <1>14, <1>17, ElementOfSeq
  <2>3. pending' \in Seq(PendingReopen) /\ Len(pending') = Len(pending) - 1
    BY <1>14, <2>1, <2>2, RemoveAtIsSeq
  <2>4. GapOf(pending[k], m) \in Seq(Gap)
    <3>1. CASE pending[k].reason = "device-lost"
      <4>1. [from |-> pending[k].from, to |-> m.offset, reason |-> "device-lost", track |-> m.slug]
              \in Gap
        BY <1>2, <2>2 DEF Gap, PendingReopen, TrackMeta, Slug
      <4> QED
        BY <3>1, <4>1 DEF GapOf
    <3>2. CASE pending[k].reason # "device-lost"
      BY <3>2, EmptySeq DEF GapOf
    <3> QED
      BY <3>1, <3>2
  <2>5. GapsOK'
    BY <2>1, <2>4, ConcatProperties DEF GapsOK
  <2>6. polling' \in BOOLEAN
    BY <2>1
  <2>7. PendingWatched'
    <3> SUFFICES ASSUME phase' = "recording", pending' # <<>> PROVE polling'
      BY DEF PendingWatched
    <3>1. Len(pending) > 1
      BY <1>14, <2>3, EmptySeq
    <3>2. pending # <<>> /\ phase = "recording"
      BY <1>1, <3>1, EmptySeq
    <3>3. polling
      BY <3>2 DEF PendingWatched
    <3> QED
      BY <2>1, <3>1, <3>3
  <2> QED
    BY <1>1, <1>15, <2>3, <2>5, <2>6, <2>7 DEF PendingOK, ModesOK
<1>18. PendingOK' /\ GapsOK' /\ ModesOK' /\ PendingWatched'
  BY <1>16, <1>17
<1> QED
  BY <1>0, <1>9, <1>10, <1>11, <1>12, <1>13, <1>18

\* The encoder does not start.
LEMMA AddEncoderFailsStep ==
    IInv /\ AddEncoderFails => IInv'
<1> SUFFICES ASSUME IInv, AddEncoderFails PROVE IInv'
  OBVIOUS
<1> USE DEF IInv
<1>0. ModesOK' /\ GapsOK' /\ ClosingOK' /\ ClockOK' /\ EncOK'
  BY KeepModesOK, KeepGapsOK, KeepClosingOK, KeepClockOK, KeepEncOK DEF AddEncoderFails
<1>1. /\ opening # <<>> /\ opening' = <<>> /\ inbox # <<>> /\ inbox' = Tail(inbox)
      /\ UNCHANGED <<phase, tracks, enc, closing, outbox, polling>>
      /\ usedSlugs' = usedSlugs \ {opening[1].meta.slug}
      /\ eng' = SlotOff(opening[1].meta.slot)
  BY DEF AddEncoderFails
<1>2. phase \in {"recording", "encoding"} /\ DOMAIN opening = {1}
  BY <1>1, OpeningShape
<1>3. OpeningOK' /\ WaitHolds' /\ DOMAIN opening' = {}
  BY <1>1, EmptySeq DEF OpeningOK, WaitHolds
<1>4. QueuesOK' /\ Quiet' /\ TracksOK'
  BY <1>1, <1>2, HeadTailProperties DEF QueuesOK, Quiet, TracksOK
<1>5. SlugsTaken'
  BY <1>1, <1>2, <1>3 DEF SlugsTaken, UniqueFiles
<1>6. EngOK' /\ SlotsOK'
  <2> DEFINE e == eng'
  <2>1. e \in Seq(EngSlot) /\ Len(e) = Len(eng) /\ DOMAIN e = DOMAIN eng
    BY <1>1, SlotOffIsEngine
  <2> HIDE DEF e
  <2> QED
    BY <1>1, <1>3, <2>1 DEF EngOK, SlotsOK, e
<1>7. ASSUME poll.stage = "scan" PROVE PendingOK' /\ PollOK' /\ PendingWatched'
  <2>1. PassOver(poll.k) /\ poll.k <= Len(pending) /\ poll.k \in Nat /\ poll.k >= 1
    BY <1>1, <1>7 DEF AddEncoderFails, WaitHolds, PollOK
  <2> QED
    BY <1>1, <2>1, PassOverKeeps
<1>8. ASSUME poll.stage # "scan" PROVE PendingOK' /\ PollOK' /\ PendingWatched'
  BY <1>1, <1>8, KeepPendingOK, KeepPollOK, KeepPendingWatched DEF AddEncoderFails
<1>9. PendingOK' /\ PollOK' /\ PendingWatched'
  BY <1>7, <1>8
<1> QED
  BY <1>0, <1>3, <1>4, <1>5, <1>6, <1>9

LEMMA StutterIInv == IInv /\ UNCHANGED vars => IInv'
<1> SUFFICES ASSUME IInv, UNCHANGED vars PROVE IInv'
  OBVIOUS
<1> USE DEF IInv
<1>1. /\ ModesOK' /\ TracksOK' /\ PendingOK' /\ GapsOK' /\ ClosingOK' /\ PollOK' /\ OpeningOK'
      /\ EngOK'
  BY KeepModesOK, KeepTracksOK, KeepPendingOK, KeepGapsOK, KeepClosingOK, KeepPollOK,
     KeepOpeningOK, KeepEngOK DEF vars, sessionVars, workerVars
<1>2. /\ QueuesOK' /\ ClockOK' /\ EncOK' /\ SlotsOK' /\ WaitHolds' /\ Quiet' /\ SlugsTaken'
      /\ PendingWatched'
  BY KeepQueuesOK, KeepClockOK, KeepEncOK, KeepSlotsOK, KeepWaitHolds, KeepQuiet,
     KeepSlugsTaken, KeepPendingWatched DEF vars, sessionVars, workerVars
<1> QED
  BY <1>1, <1>2

----------------------------------------------------------------------------
(* The invariant holds, and what follows *)

LEMMA NextIInv == IInv /\ [Next]_vars => IInv'
<1> SUFFICES ASSUME IInv, [Next]_vars PROVE IInv'
  OBVIOUS
<1>1. CASE WorkerTick
  BY <1>1, WorkerTickStep
<1>2. CASE WorkerCommand
  BY <1>2, CloseEncoderStep, FinalizeStep, AddEncoderStep, AddEncoderFailsStep DEF WorkerCommand
<1>3. CASE User
  <2>1. ASSUME NEW dev \in Devices, MakeTrack(dev) \/ AddDevice(dev) PROVE IInv'
    BY <2>1, MakeTrackStep, AddDeviceStep
  <2>2. ASSUME NEW name \in Names, NEW detached \in BOOLEAN, CloseTrack(name, detached)
        PROVE  IInv'
    BY <2>2, CloseTrackStep
  <2> QED
    BY <1>3, <2>1, <2>2, StartStep, StopStep, DestroyStep DEF User
<1>4. CASE MainLoop
  BY <1>4, CloseNextStep, CheckLostDevicesStep, HandleStalledStep, HandleResumedStep,
     HandleSleptStep, PollBeginStep, PollListedStep, PollAlreadyBackStep, PollReopensStep,
     PollPassesOverStep, PollEndStep, HandleFinalizedStep, DestroyEndStep DEF MainLoop
<1>5. CASE Surroundings
  BY <1>5, AdvanceStep, SleepStep DEF Surroundings
<1>6. CASE UNCHANGED vars
  BY <1>6, StutterIInv
<1> QED
  BY <1>1, <1>2, <1>3, <1>4, <1>5, <1>6 DEF Next, Over

LEMMA InvHolds == Spec => []IInv
BY InitIInv, NextIInv, PTL DEF Spec

LEMMA IInvTyped == IInv => TypeOK
<1> SUFFICES ASSUME IInv PROVE TypeOK
  OBVIOUS
<1> USE DEF IInv
<1>1. /\ phase \in {"starting", "recording", "encoding", "aborting", "over"}
      /\ polling \in BOOLEAN /\ ticked \in BOOLEAN /\ finalized \in BOOLEAN
      /\ stalled \subseteq Names
  BY DEF ModesOK
<1>2. tracks \in Seq(TrackMeta) /\ usedSlugs \subseteq Slug /\ pending \in Seq(PendingReopen)
  BY DEF TracksOK, PendingOK
<1>3. /\ gaps \in Seq([from: Nat, to: Nat, reason: {"sleep", "device-lost"}, track: Seq(Nat)])
      /\ closing \in [todo: SUBSET Nat, reason: {"off", "sleep", "device-lost"}, from: Nat]
      /\ closing.todo \subseteq DOMAIN tracks
      /\ poll \in [stage: {"off", "list", "scan"}, k: Nat, seen: SUBSET Devices, now: Nat]
  BY DEF GapsOK, Gap, ClosingOK, PollOK
<1>4. /\ opening \in Seq([k: Nat, meta: TrackMeta]) /\ Len(opening) <= 1
      /\ enc \in Seq(EncTrack)
      /\ eng \in Seq([on: BOOLEAN, ring: 0..RingSize]) /\ Len(eng) <= MaxSlots
      /\ clock \in [mono: Nat, slept: Nat, lead: Nat]
  BY DEF OpeningOK, Opening, EncOK, EngOK, EngSlot, ClockOK
<1>5. /\ inbox \in Seq([kind: {"close", "add", "finalize"}, track: Nat, detached: BOOLEAN])
      /\ outbox \in Seq([kind: {"stalled", "resumed", "slept", "finalized"}, tracks: SUBSET Nat,
                         from: Nat, to: Nat])
  BY DEF QueuesOK, Command, Message
<1> QED
  BY <1>1, <1>2, <1>3, <1>4, <1>5 DEF TypeOK

\* Every variable of the session and its worker keeps its type, for any devices and bounds.
THEOREM TypeCorrect == Spec => []TypeOK
BY InvHolds, IInvTyped, PTL

\* No two tracks of a recording ever share a file (makeTrack, openTrack's failure path).
THEOREM UniqueFilesHolds == Spec => []UniqueFiles
<1>1. IInv => UniqueFiles
  BY DEF IInv, SlugsTaken
<1> QED
  BY <1>1, InvHolds, PTL

\* While a lost device is pending the re-open timer runs (beginReopen, resolveReopen, pollReopen).
THEOREM PendingWatchedHolds == Spec => []PendingWatched
<1>1. IInv => PendingWatched
  BY DEF IInv
<1> QED
  BY <1>1, InvHolds, PTL

\* The only step of a running recording that adds a track is the worker's answer.
LEMMA GrowsByEncoder ==
    ASSUME IInv, [Next]_vars, phase = "recording", Len(tracks') = Len(tracks) + 1
    PROVE  AddEncoder
<1>1. tracks \in Seq(TrackMeta) /\ Len(tracks) \in Nat
  BY LenProperties DEF IInv, TracksOK
<1>2. ~ UNCHANGED tracks
  BY <1>1
<1>3. tracks' # <<>>
  <2>1. Len(<<>>) = 0
    OBVIOUS
  <2> QED
    BY <1>1, <2>1
<1>4. ~WorkerTick /\ ~Surroundings
  BY <1>2 DEF WorkerTick, sessionVars, Surroundings, Advance, Sleep
<1>5. ~User
  BY <1>2 DEF User, MakeTrack, Start, AddDevice, BeginOpen, CloseTrack, Stop, Destroy
<1>6. ~CloseNext
  <2> SUFFICES ASSUME CloseNext PROVE FALSE
    OBVIOUS
  <2>2. PICK i \in closing.todo : tracks' = [tracks EXCEPT ![i].closed = TRUE]
    BY DEF CloseNext
  <2> DEFINE f == tracks'
  <2>3. f = [j \in DOMAIN tracks |-> f[j]] /\ \A j \in DOMAIN tracks : f[j] \in {f[l] : l \in DOMAIN tracks}
    BY <2>2
  <2> HIDE DEF f
  <2>4. Len(f) = Len(tracks)
    BY <1>1, <2>3, MapIsSeq
  <2> QED
    BY <1>1, <2>4 DEF f
<1>7. ~MainLoop
  BY <1>2, <1>3, <1>6 DEF MainLoop, CheckLostDevices, HandleStalled, HandleResumed, HandleSlept,
     PollBegin, PollListed, PollAlreadyBack, PollReopens, BeginOpen, PollPassesOver, PollEnd,
     HandleFinalized, DestroyEnd
<1>8. ~UNCHANGED vars
  BY <1>2 DEF vars, sessionVars
<1>9. ~CloseEncoder \/ ~UNCHANGED sessionVars
  BY <1>2 DEF sessionVars
<1>10. ~Finalize \/ ~UNCHANGED sessionVars
  BY <1>2 DEF sessionVars
<1>11. ~AddEncoderFails
  BY <1>2 DEF AddEncoderFails
<1> QED
  BY <1>4, <1>5, <1>7, <1>8, <1>9, <1>10, <1>11 DEF Next, Over, WorkerCommand

\* A device joins a running recording only while no open track has its name, although the wait for
\* the worker lies between the look and the opening (addDevice, resolveReopen, openTrack).
THEOREM JoinsOnceHolds == Spec => JoinsOnce
<1>1. IInv /\ [Next]_vars /\ phase = "recording" /\ Len(tracks') = Len(tracks) + 1
        => OpenNamed(tracks'[Len(tracks')].dev.name) = {}
  <2> SUFFICES ASSUME IInv, [Next]_vars, phase = "recording", Len(tracks') = Len(tracks) + 1
               PROVE  OpenNamed(tracks'[Len(tracks')].dev.name) = {}
    OBVIOUS
  <2>1. AddEncoder
    BY GrowsByEncoder
  <2> DEFINE m == opening[1].meta
  <2>2. opening # <<>> /\ tracks' = Append(tracks, m)
    BY <2>1 DEF AddEncoder, Opened
  <2>3. m \in TrackMeta /\ tracks \in Seq(TrackMeta)
    BY <2>2, OpeningShape DEF IInv, TracksOK
  <2>4. OpenNamed(m.dev.name) = {}
    BY <2>2 DEF IInv, WaitHolds
  <2> HIDE DEF m
  <2>5. tracks'[Len(tracks')] = m
    BY <2>2, <2>3, AppendShape
  <2> QED
    BY <2>4, <2>5
<1> QED
  BY <1>1, InvHolds, PTL DEF Spec, JoinsOnce
=============================================================================
