---------------------- MODULE RecordingTimeline_proofs ----------------------
(***************************************************************************)
(* What a recording leaves behind, for any devices, bounds and timing: its *)
(* files are closed before the engine goes and nothing stays in a ring,    *)
(* its segments form a chain, its holes are explained, its warnings true.  *)
(* Each theorem rests on invariants of its own, all of them on Calls (what *)
(* handlers may be in the middle of) and most on Paired (each track has    *)
(* its encoder).                                                           *)
(***************************************************************************)
EXTENDS RecordingSession_proofs

----------------------------------------------------------------------------
(* Queues *)

LEMMA PosIsNat ==
    ASSUME NEW S, NEW q \in Seq(S)
    PROVE  Len(q) \in Nat /\ DOMAIN q = 1..Len(q) /\ DOMAIN q \subseteq Nat
BY LenProperties

\* What taking the first element off a queue leaves, position by position.
LEMMA TailShape ==
    ASSUME NEW S, NEW q \in Seq(S), q # <<>>
    PROVE  /\ Tail(q) \in Seq(S) /\ Len(Tail(q)) = Len(q) - 1 /\ Len(q) \in Nat /\ Len(q) >= 1
           /\ \A j \in DOMAIN Tail(q) : j + 1 \in DOMAIN q /\ Tail(q)[j] = q[j + 1]
           /\ \A j \in DOMAIN q : j # 1 => j - 1 \in DOMAIN Tail(q) /\ Tail(q)[j - 1] = q[j]
           /\ Head(q) = q[1] /\ Head(q) \in S
<1>1. Len(q) \in Nat /\ DOMAIN q = 1..Len(q)
  BY PosIsNat
<1>2. Len(q) # 0
  BY EmptySeq
<1>3. /\ Tail(q) \in Seq(S) /\ Len(Tail(q)) = Len(q) - 1 /\ Head(q) \in S
      /\ \A j \in 1..Len(Tail(q)) : Tail(q)[j] = q[j + 1]
  BY HeadTailProperties
<1>4. DOMAIN Tail(q) = 1..(Len(q) - 1)
  BY <1>3, PosIsNat
<1>5. Head(q) = q[1]
  OBVIOUS
<1>6. Len(q) >= 1
  BY <1>1, <1>2
<1>7. \A j \in DOMAIN Tail(q) : j + 1 \in DOMAIN q /\ Tail(q)[j] = q[j + 1]
  BY <1>1, <1>3, <1>4
<1>8. \A j \in DOMAIN q : j # 1 => j - 1 \in DOMAIN Tail(q) /\ Tail(q)[j - 1] = q[j]
  <2> SUFFICES ASSUME NEW j \in DOMAIN q, j # 1
               PROVE  j - 1 \in DOMAIN Tail(q) /\ Tail(q)[j - 1] = q[j]
    OBVIOUS
  <2>1. j \in Nat /\ j - 1 \in 1..(Len(q) - 1)
    BY <1>1
  <2> QED
    BY <1>3, <1>4, <2>1
<1> QED
  BY <1>1, <1>3, <1>5, <1>6, <1>7, <1>8

LEMMA TailSet ==
    ASSUME NEW S, NEW q \in Seq(S), q # <<>>
    PROVE  /\ ToSet(Tail(q)) \subseteq ToSet(q) /\ Head(q) \in ToSet(q)
           /\ ToSet(q) = ToSet(Tail(q)) \cup {Head(q)}
<1> DEFINE t == Tail(q)
<1>1. /\ \A j \in DOMAIN t : j + 1 \in DOMAIN q /\ t[j] = q[j + 1]
      /\ \A j \in DOMAIN q : j # 1 => j - 1 \in DOMAIN t /\ t[j - 1] = q[j]
      /\ Head(q) = q[1] /\ Len(q) \in Nat /\ Len(q) >= 1
  BY TailShape
<1>2. 1 \in DOMAIN q
  BY <1>1, PosIsNat
<1> HIDE DEF t
<1>3. ToSet(t) \subseteq ToSet(q)
  BY <1>1 DEF ToSet
<1>4. Head(q) \in ToSet(q)
  BY <1>1, <1>2 DEF ToSet
<1>5. ToSet(q) \subseteq ToSet(t) \cup {Head(q)}
  <2> SUFFICES ASSUME NEW j \in DOMAIN q PROVE q[j] \in ToSet(t) \cup {Head(q)}
    BY DEF ToSet
  <2>1. CASE j = 1
    BY <1>1, <2>1
  <2>2. CASE j # 1
    BY <1>1, <2>2 DEF ToSet
  <2> QED
    BY <2>1, <2>2
<1> QED
  BY <1>3, <1>4, <1>5 DEF t

LEMMA AppendSet ==
    ASSUME NEW S, NEW q \in Seq(S), NEW e \in S
    PROVE  ToSet(Append(q, e)) = ToSet(q) \cup {e}
<1> DEFINE r == Append(q, e)
           n == Len(q) + 1
<1>1. /\ DOMAIN r = DOMAIN q \cup {n} /\ r[n] = e
      /\ \A i \in DOMAIN q : r[i] = q[i]
  BY AppendShape
<1> HIDE DEF r, n
<1>2. {r[i] : i \in DOMAIN r} = {q[i] : i \in DOMAIN q} \cup {e}
  <2>1. {r[i] : i \in DOMAIN r} \subseteq {q[i] : i \in DOMAIN q} \cup {e}
    BY <1>1
  <2>2. {q[i] : i \in DOMAIN q} \subseteq {r[i] : i \in DOMAIN r} /\ e \in {r[i] : i \in DOMAIN r}
    BY <1>1
  <2> QED
    BY <2>1, <2>2
<1> QED
  BY <1>2 DEF ToSet, r

LEMMA SeqMono ==
    ASSUME NEW S, NEW T, S \subseteq T, NEW q \in Seq(S)
    PROVE  q \in Seq(T)
OBVIOUS

\* The parts of a concatenation.
LEMMA ConcatShape ==
    ASSUME NEW S, NEW a \in Seq(S), NEW b \in Seq(S)
    PROVE  /\ a \o b \in Seq(S) /\ Len(a \o b) = Len(a) + Len(b)
           /\ DOMAIN (a \o b) = 1..(Len(a) + Len(b))
           /\ \A j \in 1..Len(a) : (a \o b)[j] = a[j]
           /\ \A j \in (Len(a) + 1)..(Len(a) + Len(b)) : (a \o b)[j] = b[j - Len(a)]
<1>1. /\ a \o b \in Seq(S) /\ Len(a \o b) = Len(a) + Len(b)
      /\ \A j \in 1..Len(a) : (a \o b)[j] = a[j]
      /\ \A j \in (Len(a) + 1)..(Len(a) + Len(b)) : (a \o b)[j] = b[j - Len(a)]
  BY ConcatProperties
<1> DEFINE c == a \o b
<1> HIDE DEF c
<1>2. DOMAIN c = 1..Len(c)
  BY <1>1, PosIsNat DEF c
<1> QED
  BY <1>1, <1>2 DEF c

LEMMA ConcatSet ==
    ASSUME NEW S, NEW a \in Seq(S), NEW b \in Seq(S)
    PROVE  ToSet(a \o b) = ToSet(a) \cup ToSet(b)
<1>1. Len(a) \in Nat /\ Len(b) \in Nat /\ DOMAIN a = 1..Len(a) /\ DOMAIN b = 1..Len(b)
  BY PosIsNat
<1>2. /\ DOMAIN (a \o b) = 1..(Len(a) + Len(b))
      /\ \A j \in 1..Len(a) : (a \o b)[j] = a[j]
      /\ \A j \in (Len(a) + 1)..(Len(a) + Len(b)) : (a \o b)[j] = b[j - Len(a)]
  BY ConcatShape
<1>4. \A j \in DOMAIN a : j \in DOMAIN (a \o b) /\ (a \o b)[j] = a[j]
  BY <1>1, <1>2
<1>5. \A j \in DOMAIN b : j + Len(a) \in DOMAIN (a \o b) /\ (a \o b)[j + Len(a)] = b[j]
  <2> SUFFICES ASSUME NEW j \in DOMAIN b
               PROVE  j + Len(a) \in DOMAIN (a \o b) /\ (a \o b)[j + Len(a)] = b[j]
    OBVIOUS
  <2>1. j \in Nat /\ j + Len(a) \in (Len(a) + 1)..(Len(a) + Len(b)) /\ (j + Len(a)) - Len(a) = j
    BY <1>1
  <2> QED
    BY <1>1, <1>2, <2>1
<1>6. \A j \in DOMAIN (a \o b) : (a \o b)[j] \in ToSet(a) \cup ToSet(b)
  <2> SUFFICES ASSUME NEW j \in DOMAIN (a \o b)
               PROVE  (a \o b)[j] \in ToSet(a) \cup ToSet(b)
    OBVIOUS
  <2>1. CASE j <= Len(a)
    BY <1>1, <1>2, <1>4, <2>1 DEF ToSet
  <2>2. CASE j > Len(a)
    <3>1. j \in (Len(a) + 1)..(Len(a) + Len(b)) /\ j - Len(a) \in 1..Len(b)
      BY <1>1, <1>2, <2>2
    <3> QED
      BY <1>1, <1>2, <3>1 DEF ToSet
  <2> QED
    BY <1>1, <1>2, <2>1, <2>2
<1> QED
  BY <1>4, <1>5, <1>6 DEF ToSet

\* RemoveAt leaves the other elements, at the same position or one before.
LEMMA RemoveAtShape ==
    ASSUME NEW S, NEW s \in Seq(S), NEW k \in 1..Len(s)
    PROVE  /\ RemoveAt(s, k) \in Seq(S) /\ Len(RemoveAt(s, k)) = Len(s) - 1
           /\ \A j \in DOMAIN RemoveAt(s, k) :
                  /\ j < k => j \in DOMAIN s /\ RemoveAt(s, k)[j] = s[j]
                  /\ j >= k => j + 1 \in DOMAIN s /\ RemoveAt(s, k)[j] = s[j + 1]
<1>0. Len(s) \in Nat /\ \A j \in 1..Len(s) : s[j] \in S
  BY LenProperties, ElementOfSeq
<1>1. /\ Len(s) \in Nat /\ DOMAIN s = 1..Len(s)
      /\ k \in Nat /\ k - 1 \in Nat /\ Len(s) - k \in Nat /\ k + 1 \in Int
  BY <1>0, PosIsNat
<1> DEFINE front == SubSeq(s, 1, k - 1)
           rear == SubSeq(s, k + 1, Len(s))
<1>2. front \in Seq(S) /\ Len(front) = k - 1
  BY <1>0, SubSeqProperties
<1>3. \A j \in 1..(k - 1) : front[j] = s[j]
  BY <1>0, <1>1, SubSeqProperties
<1>4. rear \in Seq(S) /\ Len(rear) = Len(s) - k
  BY <1>0, SubSeqProperties
<1>5. \A j \in 1..(Len(s) - k) : rear[j] = s[k + j]
  <2>1. \A j \in 1..(Len(s) - (k + 1) + 1) : rear[j] = s[k + 1 + j - 1]
    BY <1>0, SubSeqProperties
  <2> HIDE DEF rear
  <2> SUFFICES ASSUME NEW j \in 1..(Len(s) - k) PROVE rear[j] = s[k + j]
    OBVIOUS
  <2>2. j \in 1..(Len(s) - (k + 1) + 1) /\ k + 1 + j - 1 = k + j
    BY <1>1
  <2>3. rear[j] = s[k + 1 + j - 1]
    BY <2>1, <2>2
  <2> QED
    BY <2>2, <2>3
<1> DEFINE r == front \o rear
<1>6. RemoveAt(s, k) = r
  BY DEF RemoveAt
<1> HIDE DEF front, rear
<1>11. /\ r \in Seq(S) /\ Len(r) = Len(front) + Len(rear)
       /\ DOMAIN r = 1..(Len(front) + Len(rear))
       /\ \A j \in 1..Len(front) : r[j] = front[j]
       /\ \A j \in (Len(front) + 1)..(Len(front) + Len(rear)) : r[j] = rear[j - Len(front)]
  BY <1>2, <1>4, ConcatShape
<1> HIDE DEF r
<1>7. /\ r \in Seq(S) /\ Len(r) = (k - 1) + (Len(s) - k)
      /\ DOMAIN r = 1..((k - 1) + (Len(s) - k))
      /\ \A j \in 1..(k - 1) : r[j] = front[j]
      /\ \A j \in ((k - 1) + 1)..((k - 1) + (Len(s) - k)) : r[j] = rear[j - (k - 1)]
  BY <1>2, <1>4, <1>11
<1>8. Len(r) = Len(s) - 1 /\ DOMAIN r = 1..(Len(s) - 1)
  BY <1>1, <1>7
<1>9. \A j \in 1..(Len(s) - 1) : j < k => j \in DOMAIN s /\ r[j] = s[j]
  BY <1>1, <1>3, <1>7
<1>10. \A j \in 1..(Len(s) - 1) : j >= k => j + 1 \in DOMAIN s /\ r[j] = s[j + 1]
  <2> SUFFICES ASSUME NEW j \in 1..(Len(s) - 1), j >= k
               PROVE  j + 1 \in DOMAIN s /\ r[j] = s[j + 1]
    OBVIOUS
  <2>1. /\ j \in ((k - 1) + 1)..((k - 1) + (Len(s) - k)) /\ j - (k - 1) \in 1..(Len(s) - k)
        /\ k + (j - (k - 1)) = j + 1
    BY <1>1
  <2>2. r[j] = rear[j - (k - 1)] /\ rear[j - (k - 1)] = s[k + (j - (k - 1))]
    BY <1>5, <1>7, <2>1
  <2> QED
    BY <1>1, <2>1, <2>2
<1> QED
  BY <1>6, <1>7, <1>8, <1>9, <1>10

----------------------------------------------------------------------------
(* The steps of a recording, by what they do *)

\* Handlers in the middle of a call exist only while the session records, and what is looked for
\* too; a loop that closes tracks closes open ones, and never while the worker is waited for.
Calls == /\ closing.todo \subseteq OpenTracks
         /\ phase # "recording" =>
                closing.todo = {} /\ opening = <<>> /\ poll.stage = "off" /\ pending = <<>>
         /\ opening # <<>> => closing.todo = {}

\* A device is opened for a new track, or for the k-th of those looked for.
Opens(dev, k) ==
    /\ phase = "recording" /\ opening = <<>> /\ closing.todo = {}
    /\ k \in 0..Len(pending)
    /\ k = 0 => PendingFor(dev) = {}
    /\ k # 0 => dev.id = pending[k].dev.id \/ dev.name = pending[k].dev.name
    /\ BeginOpen(dev, k)
    /\ UNCHANGED <<pending, poll>>

\* A close begins for open tracks, for any reason but a sleep.
Loses ==
    /\ phase = "recording" /\ opening = <<>> /\ closing.todo = {}
    /\ closing'.todo \subseteq OpenTracks /\ closing'.reason # "sleep"
    /\ UNCHANGED <<phase, tracks, usedSlugs, pending, gaps, stalled, poll, opening, workerVars>>

\* The walk over the lost devices moves; it may drop one of them.
Looks ==
    /\ phase = "recording" /\ opening = <<>> /\ closing.todo = {}
    /\ pending' = pending \/ \E k \in 1..Len(pending) : pending' = RemoveAt(pending, k)
    /\ UNCHANGED <<phase, tracks, usedSlugs, gaps, stalled, closing, opening, workerVars>>

\* The warnings there are after a signal of the worker.
Heard(m) ==
    LET about == {tracks[i].dev.name : i \in WarnCurrent(m.tracks)}
    IN  CASE m.kind = "stalled" -> stalled \cup about
          [] m.kind = "resumed" -> stalled \ about
          [] OTHER -> stalled

\* A signal of the worker is taken that changes warnings at most.
TakesSignal ==
    /\ outbox # <<>> /\ outbox' = Tail(outbox) /\ stalled' = Heard(Head(outbox))
    /\ phase = "recording" => Head(outbox).kind # "slept"
    /\ UNCHANGED <<phase, tracks, usedSlugs, pending, gaps, closing, poll, opening, enc, ticked,
                   finalized, inbox, eng, clock>>

\* A sleep is taken: its gap is recorded, every open track is to be closed.
TakesSleep ==
    /\ phase = "recording" /\ opening = <<>> /\ closing.todo = {}
    /\ outbox # <<>> /\ Head(outbox).kind = "slept" /\ outbox' = Tail(outbox)
    /\ gaps' = Append(gaps, [from |-> Head(outbox).from, to |-> Head(outbox).to,
                             reason |-> "sleep", track |-> None])
    /\ closing' = [todo |-> OpenTracks, reason |-> "sleep", from |-> Head(outbox).from]
    /\ UNCHANGED <<phase, tracks, usedSlugs, pending, stalled, poll, opening, enc, ticked,
                   finalized, inbox, eng, clock>>

\* stop() and the destructor ask the worker to finish.
Ends ==
    /\ opening = <<>> /\ closing.todo = {} /\ poll.stage = "off"
    /\ \/ phase = "recording" /\ phase' = "encoding"
       \/ phase \in {"recording", "encoding"} /\ phase' = "aborting"
    /\ pending' = <<>>
    /\ Post("finalize")
    /\ UNCHANGED <<tracks, usedSlugs, gaps, stalled, closing, poll, opening, enc, ticked,
                   finalized, outbox, eng, clock>>

\* Engine and worker are torn down.
TearsDown ==
    /\ \/ phase = "aborting" /\ inbox = <<>>
       \/ phase = "encoding" /\ outbox # <<>> /\ Head(outbox).kind = "finalized"
    /\ phase' = "over"
    /\ tracks' = <<>> /\ stalled' = {} /\ eng' = <<>> /\ enc' = <<>> /\ outbox' = <<>>
    /\ UNCHANGED <<usedSlugs, pending, gaps, closing, poll, opening, ticked, finalized, inbox,
                   clock>>

\* The worker finishes one file, or all.
ClosesFile == CloseEncoder /\ UNCHANGED sessionVars
FinishesAll == Finalize /\ UNCHANGED sessionVars

\* Every device of a list answers by its id or by its name.
LEMMA MatchingAnswers ==
    ASSUME NEW device, NEW dev, NEW x \in Matching(device, dev)
    PROVE  x \in DOMAIN device /\ (device[x].id = dev.id \/ device[x].name = dev.name)
BY DEF Matching

LEMMA AddDeviceOpens ==
    ASSUME IInv, Calls, NEW dev \in Devices, AddDevice(dev)
    PROVE  \E k \in 0..Len(pending) : Opens(dev, k)
<1>1. /\ phase = "recording" /\ opening = <<>> /\ closing.todo = {} /\ UNCHANGED <<pending, poll>>
  BY DEF AddDevice, Free, Running
<1>2. Len(pending) \in Nat /\ DOMAIN pending = 1..Len(pending)
  BY PosIsNat DEF IInv, PendingOK
<1>3. CASE PendingFor(dev) = {} /\ BeginOpen(dev, 0)
  <2>1. 0 \in 0..Len(pending)
    BY <1>2
  <2> QED
    BY <1>1, <1>3, <2>1 DEF Opens
<1>4. ASSUME NEW k \in PendingFor(dev), BeginOpen(dev, k)
      PROVE  \E l \in 0..Len(pending) : Opens(dev, l)
  <2>1. /\ k \in DOMAIN pending
        /\ pending[k].dev.id = dev.id \/ pending[k].dev.name = dev.name
    BY MatchingAnswers DEF PendingFor
  <2>2. k \in 0..Len(pending) /\ k # 0
    BY <1>2, <2>1
  <2> QED
    BY <1>1, <1>4, <2>1, <2>2 DEF Opens
<1> QED
  BY <1>3, <1>4 DEF AddDevice

LEMMA PollReopensOpens ==
    ASSUME IInv, Calls, PollReopens
    PROVE  \E dev \in Devices, k \in 0..Len(pending) : Opens(dev, k)
<1>1. PICK d \in Returned(poll.k) : BeginOpen(d, poll.k)
  BY DEF PollReopens
<1>2. d \in poll.seen /\ (d.id = pending[poll.k].dev.id \/ d.name = pending[poll.k].dev.name)
  BY MatchingAnswers DEF Returned
<1>3. /\ opening = <<>> /\ closing.todo = {} /\ poll.stage = "scan" /\ poll.k <= Len(pending)
      /\ UNCHANGED <<pending, poll>>
  BY DEF PollReopens, Scanning, Running
<1>4. phase = "recording"
  BY <1>3 DEF Calls
<1>5. poll.k \in 0..Len(pending) /\ poll.k # 0 /\ d \in Devices
  BY <1>2, <1>3, PosIsNat DEF IInv, PollOK, PendingOK
<1> QED
  BY <1>1, <1>2, <1>3, <1>4, <1>5 DEF Opens

LEMMA PollLooks ==
    ASSUME IInv, Calls,
           PollBegin \/ PollListed \/ PollAlreadyBack \/ PollPassesOver \/ PollEnd
    PROVE  Looks
<1>1. /\ opening = <<>> /\ closing.todo = {}
      /\ UNCHANGED <<phase, tracks, usedSlugs, gaps, stalled, closing, opening, workerVars>>
  BY DEF PollBegin, PollListed, PollAlreadyBack, PollPassesOver, PollEnd, Scanning, Free, Running
<1>2. phase = "recording"
  BY DEF PollBegin, PollListed, PollAlreadyBack, PollPassesOver, PollEnd, Scanning, Calls
<1>3. ASSUME poll.k <= Len(pending), poll.stage = "scan"
      PROVE  poll.k \in 1..Len(pending)
  BY <1>3, PosIsNat DEF IInv, PollOK, PendingOK
<1>4. pending' = pending \/ \E k \in 1..Len(pending) : pending' = RemoveAt(pending, k)
  BY <1>3 DEF PollBegin, PollListed, PollAlreadyBack, PollPassesOver, PollEnd, PassOver, Scanning
<1> QED
  BY <1>1, <1>2, <1>4 DEF Looks

LEMMA SignalTaken ==
    ASSUME HandleStalled \/ HandleResumed \/ HandleSlept \/ HandleFinalized
    PROVE  TakesSignal \/ TakesSleep \/ TearsDown
<1>1. CASE HandleStalled \/ HandleResumed
  BY <1>1 DEF HandleStalled, HandleResumed, TakesSignal, Heard
<1>2. CASE HandleSlept /\ phase = "recording"
  BY <1>2 DEF HandleSlept, CutAll, TakesSleep, Free, Running
<1>3. CASE HandleSlept /\ phase # "recording"
  BY <1>3 DEF HandleSlept, TakesSignal, Heard
<1>4. CASE HandleFinalized /\ phase = "encoding"
  BY <1>4 DEF HandleFinalized, TearsDown
<1>5. CASE HandleFinalized /\ phase # "encoding"
  BY <1>5 DEF HandleFinalized, TakesSignal, Heard
<1> QED
  BY <1>1, <1>2, <1>3, <1>4, <1>5

LEMMA CloseLoses ==
    ASSUME Calls, CheckLostDevices \/ \E n \in Names, detached \in BOOLEAN : CloseTrack(n, detached)
    PROVE  Loses
<1>1. CASE CheckLostDevices
  <2>1. PICK i \in OpenTracks : closing' = [todo |-> OpenNamed(tracks[i].dev.name),
                                            reason |-> "device-lost", from |-> 0]
    BY <1>1 DEF CheckLostDevices
  <2> QED
    BY <1>1, <2>1 DEF CheckLostDevices, Free, Running, Loses, OpenNamed
<1>2. ASSUME NEW n \in Names, NEW detached \in BOOLEAN, CloseTrack(n, detached)
      PROVE  Loses
  BY <1>2 DEF CloseTrack, Free, Running, Loses, OpenNamed
<1> QED
  BY <1>1, <1>2

\* Every step is one of these.
LEMMA StepKinds ==
    ASSUME IInv, Calls, [Next]_vars
    PROVE  \/ WorkerTick \/ ClosesFile \/ FinishesAll \/ AddEncoder \/ AddEncoderFails
           \/ \E dev \in Devices : MakeTrack(dev)
           \/ \E dev \in Devices, k \in 0..Len(pending) : Opens(dev, k)
           \/ Start \/ Loses \/ CloseNext \/ Looks \/ TakesSignal \/ TakesSleep
           \/ Ends \/ TearsDown \/ Advance \/ Sleep \/ UNCHANGED vars
<1>1. CASE WorkerTick \/ WorkerCommand
  BY <1>1 DEF WorkerCommand, ClosesFile, FinishesAll
<1>2. CASE User
  <2>1. CASE Stop \/ Destroy
    BY <2>1 DEF Stop, Destroy, Free, Running, Ends
  <2>2. ASSUME NEW n \in Names, NEW detached \in BOOLEAN, CloseTrack(n, detached) PROVE Loses
    BY <2>2, CloseLoses
  <2>3. ASSUME NEW dev \in Devices, AddDevice(dev)
        PROVE  \E k \in 0..Len(pending) : Opens(dev, k)
    BY <2>3, AddDeviceOpens
  <2> QED
    BY <1>2, <2>1, <2>2, <2>3 DEF User
<1>3. CASE MainLoop
  <2>1. CASE DestroyEnd
    BY <2>1 DEF DestroyEnd, TearsDown
  <2>2. CASE PollBegin \/ PollListed \/ PollAlreadyBack \/ PollPassesOver \/ PollEnd
    BY <2>2, PollLooks
  <2>3. CASE PollReopens
    BY <2>3, PollReopensOpens
  <2>4. CASE CheckLostDevices
    BY <2>4, CloseLoses
  <2>5. CASE HandleStalled \/ HandleResumed \/ HandleSlept \/ HandleFinalized
    BY <2>5, SignalTaken
  <2> QED
    BY <1>3, <2>1, <2>2, <2>3, <2>4, <2>5 DEF MainLoop
<1>4. CASE Surroundings
  BY <1>4 DEF Surroundings
<1>5. CASE Over \/ UNCHANGED vars
  BY <1>5 DEF Over
<1> QED
  BY <1>1, <1>2, <1>3, <1>4, <1>5 DEF Next

----------------------------------------------------------------------------
(* Calls *)

LEMMA KeepCalls == Calls /\ UNCHANGED <<phase, tracks, closing, opening, poll, pending>> => Calls'
BY DEF Calls, OpenTracks

LEMMA InitCalls == Init => Calls
BY DEF Init, Calls, NotClosing, NoPoll

LEMMA NextCalls ==
    ASSUME IInv, Calls, [Next]_vars
    PROVE  Calls'
<1>1. CASE WorkerTick \/ ClosesFile \/ FinishesAll \/ TakesSignal \/ Advance \/ Sleep \/ UNCHANGED vars
  BY <1>1, KeepCalls DEF WorkerTick, ClosesFile, FinishesAll, TakesSignal, Advance, Sleep, vars,
     sessionVars
<1>2. ASSUME NEW dev \in Devices, MakeTrack(dev) PROVE Calls'
  BY <1>2 DEF MakeTrack, Calls, OpenTracks
<1>3. CASE Start
  BY <1>3 DEF Start, Calls, OpenTracks
<1>4. ASSUME NEW dev \in Devices, NEW k \in 0..Len(pending), Opens(dev, k) PROVE Calls'
  BY <1>4 DEF Opens, BeginOpen, Calls, OpenTracks
<1>5. CASE Loses
  BY <1>5 DEF Loses, Calls, OpenTracks
<1>6. CASE CloseNext
  <2>1. PICK i \in closing.todo :
          /\ tracks' = [tracks EXCEPT ![i].closed = TRUE]
          /\ closing' = IF closing.todo = {i} THEN NotClosing ELSE [closing EXCEPT !.todo = @ \ {i}]
    BY <1>6 DEF CloseNext
  <2>2. opening' = <<>> /\ phase' = phase /\ phase = "recording"
    BY <1>6, <2>1 DEF CloseNext, Calls
  <2>3. closing'.todo = closing.todo \ {i}
    <3>1. CASE closing.todo = {i}
      BY <2>1, <3>1 DEF NotClosing
    <3>2. CASE closing.todo # {i}
      BY <2>1, <3>2 DEF IInv, ClosingOK
    <3> QED
      BY <3>1, <3>2
  <2>4. \A j \in OpenTracks : j # i => j \in OpenTracks'
    BY <2>1 DEF OpenTracks
  <2> QED
    BY <2>2, <2>3, <2>4 DEF Calls
<1>7. CASE AddEncoder \/ AddEncoderFails
  <2>1. opening # <<>> /\ opening' = <<>> /\ UNCHANGED <<phase, closing>>
    BY <1>7 DEF AddEncoder, AddEncoderFails
  <2>2. closing.todo = {} /\ phase = "recording"
    BY <2>1 DEF Calls
  <2> QED
    BY <2>1, <2>2 DEF Calls
<1>8. CASE Looks
  BY <1>8 DEF Looks, Calls, OpenTracks
<1>9. CASE TakesSleep
  BY <1>9 DEF TakesSleep, Calls, OpenTracks
<1>10. CASE Ends
  BY <1>10 DEF Ends, Calls, OpenTracks
<1>11. CASE TearsDown
  BY <1>11 DEF TearsDown, Calls, OpenTracks
<1> QED
  BY <1>1, <1>2, <1>3, <1>4, <1>5, <1>6, <1>7, <1>8, <1>9, <1>10, <1>11, StepKinds

----------------------------------------------------------------------------
(* What the worker does to a track *)

\* Filling a track changes its frame count only.
LEMMA FilledKeeps ==
    ASSUME NEW t \in EncTrack, NEW now \in Nat
    PROVE  LET u == Filled(t, now)
           IN  /\ u.slot = t.slot /\ u.opened = t.opened /\ u.closed = t.closed
               /\ u.suspended = t.suspended /\ u.cap = t.cap /\ u.stalled = t.stalled
               /\ u.loopback = t.loopback /\ u.last = t.last
BY DEF Filled, EncTrack

LEMMA DrainedKeeps ==
    ASSUME NEW t \in EncTrack, NEW now \in Nat
    PROVE  LET u == Drained(t, now)
           IN  /\ u.slot = t.slot /\ u.opened = t.opened /\ u.closed = t.closed
               /\ u.suspended = t.suspended /\ u.cap = t.cap /\ u.loopback = t.loopback
<1>1. CASE t.closed \/ t.suspended
  BY <1>1 DEF Drained
<1>2. CASE ~(t.closed \/ t.suspended) /\ GotData(t)
  <2> DEFINE w == IF t.loopback THEN t.written + eng[t.slot].ring ELSE 0
  <2>1. Drained(t, now) = [t EXCEPT !.last = now, !.stalled = FALSE, !.written = w]
    BY <1>2 DEF Drained
  <2> HIDE DEF w
  <2> QED
    BY <2>1 DEF EncTrack
<1>3. CASE ~(t.closed \/ t.suspended) /\ ~GotData(t)
  BY <1>3, FilledKeeps DEF Drained
<1> QED
  BY <1>1, <1>2, <1>3

LEMMA FinishedKeeps ==
    ASSUME NEW t \in EncTrack, NEW now \in Nat
    PROVE  LET u == Finished(t, now)
           IN  /\ u.slot = t.slot /\ u.opened = t.opened /\ u.closed
               /\ u.suspended = t.suspended /\ u.cap = t.cap /\ u.stalled = t.stalled
<1>1. CASE t.closed
  BY <1>1 DEF Finished
<1>2. CASE ~t.closed
  <2> DEFINE f == Filled(t, now)
  <2>1. /\ f.slot = t.slot /\ f.opened = t.opened /\ f.suspended = t.suspended /\ f.cap = t.cap
        /\ f.stalled = t.stalled
    BY FilledKeeps
  <2>2. f \in EncTrack
    BY FilledIsTrack
  <2>3. Finished(t, now) = [f EXCEPT !.closed = TRUE]
    BY <1>2 DEF Finished
  <2> HIDE DEF f
  <2> QED
    BY <2>1, <2>2, <2>3 DEF EncTrack
<1> QED
  BY <1>1, <1>2

LEMMA CutKeeps ==
    ASSUME NEW t \in EncTrack, NEW from \in Nat
    PROVE  LET u == CutBySleep(t, from)
           IN  /\ u.slot = t.slot /\ u.opened = t.opened /\ u.closed = t.closed
               /\ u.written = t.written /\ u.stalled = t.stalled
               /\ t.closed => u = t
               /\ ~t.closed => u.suspended /\ u.cap = from
BY DEF CutBySleep, EncTrack

LEMMA SignalSet ==
    ASSUME NEW kind, NEW S, NEW m \in ToSet(Signal(kind, S))
    PROVE  m.kind = kind
<1>1. CASE S = {}
  <2>1. Signal(kind, S) = <<>>
    BY <1>1 DEF Signal
  <2> QED
    BY <2>1 DEF ToSet
<1>2. CASE S # {}
  <2>1. Signal(kind, S) = <<[kind |-> kind, tracks |-> S, from |-> 0, to |-> 0]>>
    BY <1>2 DEF Signal
  <2> QED
    BY <2>1 DEF ToSet
<1> QED
  BY <1>1, <1>2

\* What the worker announces when it noticed a sleep.
SleptMessage(from, to) == [kind |-> "slept", tracks |-> {}, from |-> from, to |-> to]

LEMMA SleptSet ==
    ASSUME NEW a \in Nat, NEW b \in Nat
    PROVE  ToSet(Slept(a, b)) = {SleptMessage(a, b)}
BY DEF Slept, SleptMessage, ToSet

LEMMA FinalizedSet ==
    ASSUME NEW m \in ToSet(Finalized)
    PROVE  m.kind = "finalized"
BY DEF Finalized, ToSet

\* The track a tick drains, cut first if a sleep was noticed.
CutAt(jump, i) == IF jump > 0 THEN CutBySleep(enc[i], Elapsed) ELSE enc[i]

LEMMA TickShape ==
    ASSUME IInv, WorkerTick
    PROVE  \E jump \in Nat :
             /\ Elapsed' = Elapsed + jump
             /\ DOMAIN enc' = DOMAIN enc /\ eng' = Emptied(DOMAIN enc)
             /\ \A i \in DOMAIN enc :
                  /\ enc[i] \in EncTrack /\ CutAt(jump, i) \in EncTrack
                  /\ LET d == Drained(CutAt(jump, i), Elapsed + jump)
                     IN  d \in EncTrack /\ enc'[i] \in {d, [d EXCEPT !.stalled = TRUE]}
             /\ ToSet(outbox) \subseteq ToSet(outbox')
             /\ jump > 0 => SleptMessage(Elapsed, Elapsed + jump) \in ToSet(outbox')
             /\ \A m \in ToSet(outbox') :
                  \/ m \in ToSet(outbox) \/ m.kind \in {"stalled", "resumed"}
                  \/ jump > 0 /\ m = SleptMessage(Elapsed, Elapsed + jump)
<1> USE DEF IInv
<1> DEFINE jump == IF ticked THEN SleepJump(clock.lead) ELSE 0
           now == Elapsed + jump
           cut == [i \in DOMAIN enc |-> IF jump > 0 THEN CutBySleep(enc[i], Elapsed) ELSE enc[i]]
           drained == [i \in DOMAIN enc |-> Drained(cut[i], now)]
           back == {i \in DOMAIN enc : enc[i].stalled /\ ~drained[i].stalled}
           late == {i \in DOMAIN enc : /\ ~drained[i].closed /\ ~drained[i].stalled
                                       /\ ~drained[i].suspended /\ Watched(drained[i])
                                       /\ IsStalled(now - drained[i].last)}
           nap == IF jump > 0 THEN Slept(Elapsed, now) ELSE <<>>
<1>1. TickAt(jump)
  BY DEF WorkerTick, Tick
<1>2. /\ Elapsed \in Nat /\ clock \in [mono: Nat, slept: Nat, lead: Nat] /\ jump \in Nat
      /\ now \in Nat
  BY ElapsedIsNat, JumpIsNat DEF ClockOK
<1>3. /\ enc' = [i \in DOMAIN enc |->
                   IF i \in late THEN [drained[i] EXCEPT !.stalled = TRUE] ELSE drained[i]]
      /\ outbox' = outbox \o nap \o Signal("resumed", back) \o Signal("stalled", late)
      /\ eng' = Emptied(DOMAIN enc)
      /\ clock' = [clock EXCEPT !.slept = @ + jump, !.lead = 0]
  BY <1>1 DEF TickAt
<1>4. \A i \in DOMAIN enc : cut[i] = CutAt(jump, i) /\ drained[i] = Drained(cut[i], now)
  BY DEF CutAt
<1>5. back \in SUBSET Nat /\ late \in SUBSET Nat
  BY PosIsNat DEF EncOK
<1>6. nap \in Seq(Message) /\ ToSet(nap) = IF jump > 0 THEN {SleptMessage(Elapsed, now)} ELSE {}
  <2>1. CASE jump > 0
    <3>1. nap = Slept(Elapsed, now)
      BY <2>1
    <3> HIDE DEF nap, now, jump
    <3> QED
      BY <1>2, <2>1, <3>1, SleptIsQueue, SleptSet
  <2>2. CASE ~(jump > 0)
    <3>1. nap = <<>>
      BY <2>2
    <3> HIDE DEF nap, now, jump
    <3> QED
      BY <2>2, <3>1, EmptySeq DEF ToSet
  <2> QED
    BY <2>1, <2>2
<1>7. now = Elapsed + jump
  OBVIOUS
<1> HIDE DEF jump, now, cut, drained, back, late, nap
<1>8. Elapsed' = Elapsed + jump
  BY <1>2, <1>3 DEF Elapsed
<1>9. ASSUME NEW i \in DOMAIN enc
      PROVE  /\ enc[i] \in EncTrack /\ CutAt(jump, i) \in EncTrack
             /\ CutAt(jump, i).slot \in DOMAIN eng
  BY <1>2, WorkedIsTrack, CutIsTrack DEF CutAt
<1>10. ASSUME NEW i \in DOMAIN enc
       PROVE  LET d == Drained(CutAt(jump, i), Elapsed + jump)
              IN  d \in EncTrack /\ enc'[i] \in {d, [d EXCEPT !.stalled = TRUE]}
  <2>1. eng \in Seq(EngSlot)
    BY DEF EngOK
  <2>2. Drained(CutAt(jump, i), now) \in EncTrack
    BY <1>2, <1>9, <2>1, DrainedIsTrack
  <2>3. drained[i] = Drained(CutAt(jump, i), now)
    BY <1>4
  <2>4. enc'[i] = IF i \in late THEN [drained[i] EXCEPT !.stalled = TRUE] ELSE drained[i]
    BY <1>3
  <2> QED
    BY <1>7, <2>2, <2>3, <2>4
<1>11. /\ Signal("resumed", back) \in Seq(Message) /\ Signal("stalled", late) \in Seq(Message)
       /\ outbox \in Seq(Message)
  BY <1>5, SignalIsQueue DEF QueuesOK
<1>12. ToSet(outbox') = ToSet(outbox) \cup ToSet(nap) \cup ToSet(Signal("resumed", back))
                           \cup ToSet(Signal("stalled", late))
  <2>1. outbox \o nap \in Seq(Message) /\ ToSet(outbox \o nap) = ToSet(outbox) \cup ToSet(nap)
    BY <1>6, <1>11, ConcatSet, ConcatQueue
  <2> DEFINE a == outbox \o nap
             b == a \o Signal("resumed", back)
  <2>4. a \in Seq(Message)
    BY <2>1
  <2> HIDE DEF a
  <2>2. b \in Seq(Message) /\ ToSet(b) = ToSet(a) \cup ToSet(Signal("resumed", back))
    BY <1>11, <2>4, ConcatSet, ConcatQueue
  <2> HIDE DEF b
  <2>3. ToSet(b \o Signal("stalled", late)) = ToSet(b) \cup ToSet(Signal("stalled", late))
    BY <1>11, <2>2, ConcatSet
  <2> QED
    BY <1>3, <2>1, <2>2, <2>3 DEF a, b
<1>13. DOMAIN enc' = DOMAIN enc
  BY <1>3
<1>14. \A m \in ToSet(outbox') :
          \/ m \in ToSet(outbox) \/ m.kind \in {"stalled", "resumed"}
          \/ jump > 0 /\ m = SleptMessage(Elapsed, Elapsed + jump)
  BY <1>6, <1>7, <1>12, SignalSet
<1>15. /\ ToSet(outbox) \subseteq ToSet(outbox')
       /\ jump > 0 => SleptMessage(Elapsed, Elapsed + jump) \in ToSet(outbox')
  BY <1>6, <1>7, <1>12
<1> QED
  BY <1>2, <1>3, <1>8, <1>9, <1>10, <1>13, <1>14, <1>15

\* The file of one track is closed, if the worker has the track.
LEMMA CloseShape ==
    ASSUME IInv, ClosesFile
    PROVE  LET i == Head(inbox).track
               detached == Head(inbox).detached
               done == Finished(Drained(enc[i], Elapsed), Elapsed)
           IN  /\ UNCHANGED sessionVars /\ UNCHANGED <<ticked, finalized, clock>>
               /\ inbox # <<>> /\ Head(inbox).kind = "close" /\ inbox' = Tail(inbox)
               /\ i \notin DOMAIN enc => UNCHANGED <<enc, outbox, eng>>
               /\ i \in DOMAIN enc =>
                    /\ detached \in BOOLEAN
                    /\ enc[i] \in EncTrack /\ Drained(enc[i], Elapsed) \in EncTrack
                    /\ done \in EncTrack
                    /\ enc' = [enc EXCEPT ![i] = [done EXCEPT !.stalled = detached]]
                    /\ eng' = Emptied({i})
               /\ DOMAIN enc' = DOMAIN enc
               /\ ToSet(outbox) \subseteq ToSet(outbox')
               /\ \A m \in ToSet(outbox') : m \in ToSet(outbox) \/ m.kind \in {"stalled", "resumed"}
<1> USE DEF IInv
<1> DEFINE i == Head(inbox).track
           detached == Head(inbox).detached
           drained == Drained(enc[i], Elapsed)
           done == Finished(drained, Elapsed)
<1>1. /\ inbox # <<>> /\ Head(inbox).kind = "close" /\ inbox' = Tail(inbox)
      /\ UNCHANGED <<ticked, finalized, clock>> /\ UNCHANGED sessionVars
      /\ IF i \in DOMAIN enc THEN CloseTrackFile(i, detached) ELSE UNCHANGED <<enc, outbox, eng>>
  BY DEF ClosesFile, CloseEncoder
<1>2. Head(inbox) \in Command
  BY <1>1, HeadTailProperties DEF QueuesOK
<1>3. i \in Nat /\ detached \in BOOLEAN
  BY <1>2 DEF Command
<1>4. CASE i \notin DOMAIN enc
  BY <1>1, <1>4
<1>5. CASE i \in DOMAIN enc
  <2>1. enc[i] \in EncTrack /\ drained \in EncTrack /\ done \in EncTrack
    BY <1>5, ElapsedIsNat, WorkedIsTrack
  <2> DEFINE A == Signal("resumed", IF enc[i].stalled /\ ~drained.stalled THEN {i} ELSE {})
             B == Signal("stalled", IF detached /\ ~done.stalled THEN {i} ELSE {})
             C == Signal("resumed", IF ~detached /\ done.stalled THEN {i} ELSE {})
  <2>2. /\ enc' = [enc EXCEPT ![i] = [done EXCEPT !.stalled = detached]]
        /\ outbox' = outbox \o A \o B \o C
        /\ eng' = Emptied({i})
    BY <1>1, <1>5 DEF CloseTrackFile
  <2>3. A \in Seq(Message) /\ B \in Seq(Message) /\ C \in Seq(Message) /\ outbox \in Seq(Message)
    <3> HIDE DEF i, detached, drained, done
    <3>1. /\ (IF enc[i].stalled /\ ~drained.stalled THEN {i} ELSE {}) \in SUBSET Nat
          /\ (IF detached /\ ~done.stalled THEN {i} ELSE {}) \in SUBSET Nat
          /\ (IF ~detached /\ done.stalled THEN {i} ELSE {}) \in SUBSET Nat
      BY <1>3
    <3> QED
      BY <3>1, SignalIsQueue DEF QueuesOK
  <2>4. \A m \in ToSet(A) \cup ToSet(B) \cup ToSet(C) : m.kind \in {"stalled", "resumed"}
    BY SignalSet
  <2>5. DOMAIN enc' = DOMAIN enc
    BY <2>2
  <2> HIDE DEF A, B, C
  <2>6. ToSet(outbox') = ToSet(outbox) \cup ToSet(A) \cup ToSet(B) \cup ToSet(C)
    <3> DEFINE a == outbox \o A
               b == a \o B
    <3>1. a \in Seq(Message) /\ ToSet(a) = ToSet(outbox) \cup ToSet(A)
      BY <2>3, ConcatSet, ConcatQueue
    <3> HIDE DEF a
    <3>2. b \in Seq(Message) /\ ToSet(b) = ToSet(a) \cup ToSet(B)
      BY <2>3, <3>1, ConcatSet, ConcatQueue
    <3> HIDE DEF b
    <3>3. ToSet(b \o C) = ToSet(b) \cup ToSet(C)
      BY <2>3, <3>2, ConcatSet
    <3> QED
      BY <2>2, <3>1, <3>2, <3>3 DEF a, b
  <2>7. /\ ToSet(outbox) \subseteq ToSet(outbox')
        /\ \A m \in ToSet(outbox') : m \in ToSet(outbox) \/ m.kind \in {"stalled", "resumed"}
    BY <2>4, <2>6
  <2> QED
    BY <1>1, <1>3, <1>5, <2>1, <2>2, <2>5, <2>7
<1> QED
  BY <1>4, <1>5

\* Every file is closed, the first time.
LEMMA FinishShape ==
    ASSUME IInv, FinishesAll
    PROVE  /\ UNCHANGED sessionVars /\ UNCHANGED <<ticked, clock>>
           /\ inbox # <<>> /\ Head(inbox).kind = "finalize" /\ inbox' = Tail(inbox)
           /\ finalized' = TRUE
           /\ finalized => UNCHANGED <<enc, outbox, eng>>
           /\ ~finalized =>
                /\ \A i \in DOMAIN enc :
                     /\ enc[i] \in EncTrack /\ Drained(enc[i], Elapsed) \in EncTrack
                     /\ enc'[i] = Finished(Drained(enc[i], Elapsed), Elapsed)
                /\ eng' = Emptied(DOMAIN enc)
           /\ DOMAIN enc' = DOMAIN enc
           /\ ToSet(outbox) \subseteq ToSet(outbox')
           /\ \A m \in ToSet(outbox') : m \in ToSet(outbox) \/ m.kind \in {"resumed", "finalized"}
<1> USE DEF IInv
<1>1. /\ UNCHANGED sessionVars /\ UNCHANGED <<ticked, clock>>
      /\ inbox # <<>> /\ Head(inbox).kind = "finalize" /\ inbox' = Tail(inbox)
      /\ finalized' = TRUE
      /\ IF finalized THEN UNCHANGED <<enc, outbox, eng>> ELSE FinalizeAll
  BY DEF FinishesAll, Finalize
<1>2. CASE finalized
  BY <1>1, <1>2
<1>3. CASE ~finalized
  <2> DEFINE drained == [i \in DOMAIN enc |-> Drained(enc[i], Elapsed)]
             back == {i \in DOMAIN enc : enc[i].stalled /\ ~drained[i].stalled}
             A == Signal("resumed", back)
  <2>1. /\ enc' = [i \in DOMAIN enc |-> Finished(drained[i], Elapsed)]
        /\ outbox' = outbox \o A \o Finalized
        /\ eng' = Emptied(DOMAIN enc)
    BY <1>1, <1>3 DEF FinalizeAll
  <2>2. \A i \in DOMAIN enc :
          /\ enc[i] \in EncTrack /\ Drained(enc[i], Elapsed) \in EncTrack
          /\ enc'[i] = Finished(Drained(enc[i], Elapsed), Elapsed)
    BY <2>1, ElapsedIsNat, WorkedIsTrack
  <2>3. DOMAIN enc' = DOMAIN enc
    BY <2>1
  <2>4. back \in SUBSET Nat
    BY PosIsNat DEF EncOK
  <2> HIDE DEF drained, back
  <2>5. A \in Seq(Message) /\ Finalized \in Seq(Message) /\ outbox \in Seq(Message)
    BY <2>4, SignalIsQueue, FinalizedIsQueue DEF QueuesOK
  <2>6. \A m \in ToSet(A) \cup ToSet(Finalized) : m.kind \in {"resumed", "finalized"}
    BY SignalSet, FinalizedSet
  <2> HIDE DEF A
  <2>7. ToSet(outbox') = ToSet(outbox) \cup ToSet(A) \cup ToSet(Finalized)
    <3> DEFINE a == outbox \o A
    <3>1. a \in Seq(Message) /\ ToSet(a) = ToSet(outbox) \cup ToSet(A)
      BY <2>5, ConcatSet, ConcatQueue
    <3> HIDE DEF a
    <3>2. ToSet(a \o Finalized) = ToSet(a) \cup ToSet(Finalized)
      BY <2>5, <3>1, ConcatSet
    <3> QED
      BY <2>1, <3>1, <3>2 DEF a
  <2> QED
    BY <1>1, <1>3, <2>1, <2>2, <2>3, <2>6, <2>7
<1> QED
  BY <1>2, <1>3

----------------------------------------------------------------------------
(* What the session does to its tracks *)

LEMMA SameLength ==
    ASSUME NEW S, NEW T, NEW a \in Seq(S), NEW b \in Seq(T), DOMAIN a = DOMAIN b
    PROVE  Len(a) = Len(b)
<1>1. Len(a) \in Nat /\ Len(b) \in Nat /\ 1..Len(a) = 1..Len(b)
  BY PosIsNat
<1>2. \A m, n \in Nat : 1..m = 1..n => m <= n
  <2> SUFFICES ASSUME NEW m \in Nat, NEW n \in Nat, 1..m = 1..n, m > n PROVE FALSE
    OBVIOUS
  <2>1. m \in 1..m
    OBVIOUS
  <2> QED
    BY <2>1
<1>3. Len(a) <= Len(b) /\ Len(b) <= Len(a)
  BY <1>1, <1>2
<1> QED
  BY <1>1, <1>3

LEMMA TrackIs == ASSUME IInv, NEW i \in DOMAIN tracks PROVE tracks[i] \in TrackMeta
BY ElementOfSeq, PosIsNat DEF IInv, TracksOK

LEMMA EncIs == ASSUME IInv, NEW i \in DOMAIN enc PROVE enc[i] \in EncTrack
BY ElementOfSeq, PosIsNat DEF IInv, EncOK

LEMMA EncoderShape ==
    ASSUME NEW t \in TrackMeta
    PROVE  LET u == EncoderOf(t)
           IN  /\ u.slot = t.slot /\ u.opened = t.offset /\ u.written = 0
               /\ ~u.closed /\ ~u.suspended /\ ~u.stalled /\ u.cap = -1
BY DEF EncoderOf, Encoder

\* One track of a loop is closed: which fields change, and what is posted.
LEMMA CloseNextShape ==
    ASSUME IInv, Calls, CloseNext
    PROVE  \E i \in closing.todo :
             /\ i \in DOMAIN tracks /\ ~tracks[i].closed /\ i \in Nat
             /\ phase = "recording" /\ opening = <<>>
             /\ BeginReopen(i)
             /\ DOMAIN tracks' = DOMAIN tracks /\ tracks'[i].closed
             /\ \A j \in DOMAIN tracks :
                  /\ tracks'[j].dev = tracks[j].dev /\ tracks'[j].slot = tracks[j].slot
                  /\ tracks'[j].slug = tracks[j].slug /\ tracks'[j].offset = tracks[j].offset
                  /\ tracks'[j].continues = tracks[j].continues
                  /\ j # i => tracks'[j].closed = tracks[j].closed
                  /\ tracks[j].closed => tracks'[j].closed
             /\ eng' = SlotOff(tracks[i].slot)
             /\ \E d \in BOOLEAN :
                  LET c == [kind |-> "close", track |-> i, detached |-> d]
                  IN  inbox' = Append(inbox, c) /\ c \in Command
             /\ closing'.todo = closing.todo \ {i}
             /\ closing'.todo # {} => closing'.reason = closing.reason /\ closing'.from = closing.from
             /\ UNCHANGED <<phase, usedSlugs, gaps, stalled, poll, opening, enc, ticked, finalized,
                            outbox, clock>>
<1>1. PICK i \in closing.todo :
        /\ BeginReopen(i)
        /\ tracks' = [tracks EXCEPT ![i].closed = TRUE]
        /\ CaptureStops(i)
        /\ inbox' = Append(inbox, [kind |-> "close", track |-> i,
                                   detached |-> closing.reason = "device-lost"])
        /\ closing' = IF closing.todo = {i} THEN NotClosing
                      ELSE [closing EXCEPT !.todo = @ \ {i}]
  BY DEF CloseNext
<1>2. i \in DOMAIN tracks /\ ~tracks[i].closed /\ phase = "recording" /\ opening = <<>>
  BY <1>1 DEF Calls, OpenTracks, CloseNext
<1>3. i \in Nat
  BY <1>2, PosIsNat DEF IInv, TracksOK
<1>4. \A j \in DOMAIN tracks : tracks[j] \in TrackMeta
  BY TrackIs
<1>5. /\ DOMAIN tracks' = DOMAIN tracks /\ tracks'[i].closed
      /\ \A j \in DOMAIN tracks :
            /\ tracks'[j].dev = tracks[j].dev /\ tracks'[j].slot = tracks[j].slot
            /\ tracks'[j].slug = tracks[j].slug /\ tracks'[j].offset = tracks[j].offset
            /\ tracks'[j].continues = tracks[j].continues
            /\ j # i => tracks'[j].closed = tracks[j].closed
            /\ tracks[j].closed => tracks'[j].closed
  BY <1>1, <1>2, <1>4 DEF TrackMeta
<1>6. closing \in [todo: SUBSET Nat, reason: {"off", "sleep", "device-lost"}, from: Nat]
  BY DEF IInv, ClosingOK
<1>7. /\ closing'.todo = closing.todo \ {i}
      /\ closing'.todo # {} => closing'.reason = closing.reason /\ closing'.from = closing.from
  <2>1. CASE closing.todo = {i}
    BY <1>1, <2>1 DEF NotClosing
  <2>2. CASE closing.todo # {i}
    BY <1>1, <1>6, <2>2
  <2> QED
    BY <2>1, <2>2
<1>8. \E d \in BOOLEAN :
        LET c == [kind |-> "close", track |-> i, detached |-> d]
        IN  inbox' = Append(inbox, c) /\ c \in Command
  <2> DEFINE d == closing.reason = "device-lost"
  <2>1. d \in BOOLEAN /\ inbox' = Append(inbox, [kind |-> "close", track |-> i, detached |-> d])
    BY <1>1
  <2>2. [kind |-> "close", track |-> i, detached |-> d] \in Command
    BY <1>3, <2>1 DEF Command
  <2> QED
    BY <2>1, <2>2
<1> QED
  BY <1>1, <1>2, <1>3, <1>5, <1>7, <1>8 DEF CloseNext, CaptureStops

\* A track whose encoder runs is added, here and at the worker.
LEMMA AnswerShape ==
    ASSUME IInv, Calls, AddEncoder
    PROVE  LET m == opening[1].meta
               k == opening[1].k
               n == Len(tracks) + 1
           IN  /\ m \in TrackMeta /\ k \in 0..Len(pending) /\ DOMAIN opening = {1}
               /\ opening # <<>> /\ opening' = <<>> /\ n \in Nat \ DOMAIN tracks
               /\ phase = "recording" /\ closing.todo = {}
               /\ inbox # <<>> /\ Head(inbox).kind = "add" /\ inbox' = Tail(inbox)
               /\ DOMAIN tracks' = DOMAIN tracks \cup {n} /\ tracks'[n] = m
               /\ \A i \in DOMAIN tracks : tracks'[i] = tracks[i]
               /\ DOMAIN enc' = DOMAIN enc \cup {Len(enc) + 1}
               /\ enc'[Len(enc) + 1] = EncoderOf(m)
               /\ \A i \in DOMAIN enc : enc'[i] = enc[i]
               /\ Opened(m, k)
               /\ UNCHANGED <<phase, usedSlugs, closing, poll, ticked, finalized, outbox, eng, clock>>
<1> DEFINE m == opening[1].meta
           k == opening[1].k
<1>1. /\ opening # <<>> /\ opening' = <<>> /\ Opened(m, k) /\ enc' = Append(enc, EncoderOf(m))
      /\ inbox # <<>> /\ Head(inbox).kind = "add" /\ inbox' = Tail(inbox)
      /\ UNCHANGED <<phase, usedSlugs, closing, poll, ticked, finalized, outbox, eng, clock>>
  BY DEF AddEncoder
<1>2. m \in TrackMeta /\ k \in 0..Len(pending) /\ DOMAIN opening = {1}
  BY <1>1, OpeningShape
<1>3. phase = "recording" /\ closing.todo = {}
  BY <1>1 DEF Calls
<1>4. tracks' = Append(tracks, m) /\ tracks \in Seq(TrackMeta) /\ enc \in Seq(EncTrack)
  BY <1>1 DEF Opened, IInv, TracksOK, EncOK
<1>5. EncoderOf(m) \in EncTrack
  BY <1>2, EncoderIsTrack
<1> HIDE DEF m, k
<1>6. /\ DOMAIN tracks' = DOMAIN tracks \cup {Len(tracks) + 1} /\ tracks'[Len(tracks) + 1] = m
      /\ \A i \in DOMAIN tracks : tracks'[i] = tracks[i]
  BY <1>2, <1>4, AppendShape
<1>7. /\ DOMAIN enc' = DOMAIN enc \cup {Len(enc) + 1} /\ enc'[Len(enc) + 1] = EncoderOf(m)
      /\ \A i \in DOMAIN enc : enc'[i] = enc[i]
  BY <1>1, <1>4, <1>5, AppendShape
<1>8. Len(tracks) + 1 \in Nat \ DOMAIN tracks
  BY <1>4, PosIsNat
<1> QED
  BY <1>1, <1>2, <1>3, <1>6, <1>7, <1>8 DEF m, k

\* A device is opened and the worker asked for its encoder.
LEMMA OpensShape ==
    ASSUME IInv, NEW dev \in Devices, NEW k \in 0..Len(pending), Opens(dev, k)
    PROVE  LET m == opening'[1].meta
               c == [kind |-> "add", track |-> 0, detached |-> FALSE]
           IN  /\ DOMAIN opening' = {1} /\ opening'[1].k = k /\ opening' # <<>> /\ ~m.closed
               /\ m.dev = dev /\ m.slot = Len(eng) + 1 /\ m.offset = Elapsed
               /\ m.continues = IF k = 0 THEN None ELSE pending[k].prev
               /\ Len(eng) + 1 \in Nat \ DOMAIN eng
               /\ DOMAIN eng' = DOMAIN eng \cup {Len(eng) + 1} /\ eng'[Len(eng) + 1] = NewSlot
               /\ \A s \in DOMAIN eng : eng'[s] = eng[s]
               /\ inbox' = Append(inbox, c) /\ c \in Command
<1>1. PICK n \in 1..(MaxSlots + 1) :
        opening' = <<[k |-> k,
                      meta |-> Meta(dev, Len(eng) + 1, Candidate(dev.name, n), Elapsed,
                                    IF k = 0 THEN None ELSE pending[k].prev)]>>
  BY DEF Opens, BeginOpen
<1>2. eng' = Append(eng, NewSlot) /\ eng \in Seq(EngSlot)
      /\ inbox' = Append(inbox, [kind |-> "add", track |-> 0, detached |-> FALSE])
  BY DEF Opens, BeginOpen, IInv, EngOK
<1>3. NewSlot \in EngSlot
  BY SessionAssumption DEF NewSlot, EngSlot
<1>4. /\ DOMAIN eng' = DOMAIN eng \cup {Len(eng) + 1} /\ eng'[Len(eng) + 1] = NewSlot
      /\ \A s \in DOMAIN eng : eng'[s] = eng[s]
  BY <1>2, <1>3, AppendShape
<1>5. Len(eng) + 1 \in Nat \ DOMAIN eng
  BY <1>2, PosIsNat
<1>6. [kind |-> "add", track |-> 0, detached |-> FALSE] \in Command
  BY DEF Command
<1> DEFINE m == Meta(dev, Len(eng) + 1, Candidate(dev.name, n), Elapsed,
                     IF k = 0 THEN None ELSE pending[k].prev)
<1>7. /\ m.dev = dev /\ m.slot = Len(eng) + 1 /\ m.offset = Elapsed /\ ~m.closed
      /\ m.continues = IF k = 0 THEN None ELSE pending[k].prev
  BY DEF Meta
<1>8. opening' = <<[k |-> k, meta |-> m]>>
  BY <1>1
<1> HIDE DEF m
<1>9. /\ DOMAIN opening' = {1} /\ opening'[1].k = k /\ opening' # <<>> /\ opening'[1].meta = m
  BY <1>8
<1> QED
  BY <1>2, <1>4, <1>5, <1>6, <1>7, <1>9

----------------------------------------------------------------------------
(* Every track has its encoder *)

\* From start() on the worker has one encoder for each track, in the same order, on the same slot
\* and opened at the track's offset.  Before, nothing has been posted either way.
Paired == /\ phase = "starting" => enc = <<>> /\ inbox = <<>> /\ outbox = <<>>
          /\ phase # "starting" => DOMAIN enc = DOMAIN tracks
          /\ \A i \in DOMAIN enc : enc[i].slot = tracks[i].slot /\ enc[i].opened = tracks[i].offset

LEMMA KeepPaired == Paired /\ UNCHANGED <<phase, tracks, enc, inbox, outbox>> => Paired'
BY DEF Paired

LEMMA InitPaired == Init => Paired
BY DEF Init, Paired

\* The worker's steps leave the slot and the opening of every encoder, and take nothing back: not a
\* close, not a cut.
LEMMA WorkerKeeps ==
    ASSUME IInv, WorkerTick \/ ClosesFile \/ FinishesAll
    PROVE  /\ DOMAIN enc' = DOMAIN enc /\ UNCHANGED sessionVars
           /\ \A i \in DOMAIN enc :
                /\ enc'[i].slot = enc[i].slot /\ enc'[i].opened = enc[i].opened
                /\ enc[i].closed => enc'[i].closed
                /\ enc[i].suspended => enc'[i].suspended
<1>1. Elapsed \in Nat
  BY ElapsedIsNat DEF IInv
<1>2. CASE WorkerTick
  <2>1. PICK jump \in Nat :
          /\ DOMAIN enc' = DOMAIN enc
          /\ \A i \in DOMAIN enc :
               /\ enc[i] \in EncTrack /\ CutAt(jump, i) \in EncTrack
               /\ LET d == Drained(CutAt(jump, i), Elapsed + jump)
                  IN  d \in EncTrack /\ enc'[i] \in {d, [d EXCEPT !.stalled = TRUE]}
    BY <1>2, TickShape
  <2>2. ASSUME NEW i \in DOMAIN enc
        PROVE  /\ enc'[i].slot = enc[i].slot /\ enc'[i].opened = enc[i].opened
               /\ enc[i].closed => enc'[i].closed
               /\ enc[i].suspended => enc'[i].suspended
    <3> DEFINE c == CutAt(jump, i)
               d == Drained(c, Elapsed + jump)
    <3>1. /\ enc[i] \in EncTrack /\ c \in EncTrack /\ d \in EncTrack
          /\ enc'[i] \in {d, [d EXCEPT !.stalled = TRUE]}
      BY <2>1
    <3>2. /\ c.slot = enc[i].slot /\ c.opened = enc[i].opened /\ c.closed = enc[i].closed
          /\ enc[i].suspended => c.suspended
      BY <1>1, <3>1, CutKeeps DEF CutAt
    <3>3. /\ d.slot = c.slot /\ d.opened = c.opened /\ d.closed = c.closed
          /\ d.suspended = c.suspended
      <4>1. Elapsed + jump \in Nat
        BY <1>1
      <4> HIDE DEF c
      <4> QED
        BY <3>1, <4>1, DrainedKeeps
    <3> HIDE DEF c, d
    <3>4. /\ enc'[i].slot = d.slot /\ enc'[i].opened = d.opened /\ enc'[i].closed = d.closed
          /\ enc'[i].suspended = d.suspended
      BY <3>1 DEF EncTrack
    <3> QED
      BY <3>2, <3>3, <3>4
  <2> QED
    BY <1>2, <2>1, <2>2 DEF WorkerTick
<1>3. ASSUME NEW i \in DOMAIN enc,
             enc[i] \in EncTrack, Drained(enc[i], Elapsed) \in EncTrack
      PROVE  LET f == Finished(Drained(enc[i], Elapsed), Elapsed)
             IN  /\ f.slot = enc[i].slot /\ f.opened = enc[i].opened /\ f.closed
                 /\ f.suspended = enc[i].suspended
  BY <1>1, <1>3, DrainedKeeps, FinishedKeeps
<1>4. CASE ClosesFile
  <2> DEFINE i == Head(inbox).track
             f == Finished(Drained(enc[i], Elapsed), Elapsed)
  <2>1. /\ DOMAIN enc' = DOMAIN enc /\ UNCHANGED sessionVars
        /\ i \notin DOMAIN enc => UNCHANGED enc
        /\ i \in DOMAIN enc =>
             /\ enc[i] \in EncTrack /\ Drained(enc[i], Elapsed) \in EncTrack /\ f \in EncTrack
             /\ enc' = [enc EXCEPT ![i] = [f EXCEPT !.stalled = Head(inbox).detached]]
    BY <1>4, CloseShape
  <2>2. CASE i \notin DOMAIN enc
    BY <2>1, <2>2
  <2>3. CASE i \in DOMAIN enc
    <3>1. /\ f.slot = enc[i].slot /\ f.opened = enc[i].opened /\ f.closed
          /\ f.suspended = enc[i].suspended
      BY <1>3, <2>1, <2>3
    <3>2. \A j \in DOMAIN enc : j # i => enc'[j] = enc[j]
      BY <2>1, <2>3
    <3>3. f \in EncTrack /\ enc'[i] = [f EXCEPT !.stalled = Head(inbox).detached]
      BY <2>1, <2>3
    <3> HIDE DEF i, f
    <3>4. /\ enc'[i].slot = f.slot /\ enc'[i].opened = f.opened /\ enc'[i].closed = f.closed
          /\ enc'[i].suspended = f.suspended
      BY <3>3 DEF EncTrack
    <3> QED
      BY <2>1, <3>1, <3>2, <3>4
  <2> QED
    BY <2>2, <2>3
<1>5. CASE FinishesAll
  BY <1>3, <1>5, FinishShape
<1> QED
  BY <1>2, <1>4, <1>5

LEMMA NextPaired ==
    ASSUME IInv, IInv', Calls, Paired, [Next]_vars
    PROVE  Paired'
<1>1. CASE WorkerTick \/ ClosesFile \/ FinishesAll
  <2>1. /\ DOMAIN enc' = DOMAIN enc /\ UNCHANGED <<phase, tracks>>
        /\ \A i \in DOMAIN enc : enc'[i].slot = enc[i].slot /\ enc'[i].opened = enc[i].opened
    BY <1>1, WorkerKeeps DEF sessionVars
  <2>2. phase # "starting"
    <3>1. WorkerTick => Alive
      BY DEF WorkerTick
    <3>2. ClosesFile \/ FinishesAll => inbox # <<>>
      BY DEF ClosesFile, FinishesAll, CloseEncoder, Finalize
    <3> QED
      BY <1>1, <3>1, <3>2 DEF Alive, Paired
  <2> QED
    BY <2>1, <2>2 DEF Paired
<1>2. CASE AddEncoderFails \/ Loses \/ Looks \/ TakesSignal \/ TakesSleep \/ Ends
  <2>1. UNCHANGED <<tracks, enc>> /\ phase' # "starting" /\ phase # "starting"
    <3>1. CASE AddEncoderFails \/ TakesSignal
      BY <1>2, <3>1 DEF AddEncoderFails, TakesSignal, Paired
    <3>2. CASE Loses \/ Looks \/ TakesSleep \/ Ends
      BY <1>2, <3>2 DEF Loses, Looks, TakesSleep, Ends, workerVars
    <3> QED
      BY <1>2, <3>1, <3>2
  <2> QED
    BY <2>1 DEF Paired
<1>3. CASE Advance \/ Sleep \/ UNCHANGED vars
  BY <1>3, KeepPaired DEF Advance, Sleep, vars, sessionVars, workerVars
<1>4. ASSUME NEW dev \in Devices, MakeTrack(dev) PROVE Paired'
  BY <1>4 DEF MakeTrack, Paired
<1>5. ASSUME NEW dev \in Devices, NEW k \in 0..Len(pending), Opens(dev, k) PROVE Paired'
  BY <1>5 DEF Opens, BeginOpen, Paired
<1>6. CASE Start
  <2>1. /\ phase' = "recording" /\ UNCHANGED tracks
        /\ enc' = [i \in DOMAIN tracks |-> EncoderOf(tracks[i])]
    BY <1>6 DEF Start
  <2>2. \A i \in DOMAIN tracks : EncoderOf(tracks[i]).slot = tracks[i].slot
                                  /\ EncoderOf(tracks[i]).opened = tracks[i].offset
    BY TrackIs, EncoderShape
  <2> QED
    BY <2>1, <2>2 DEF Paired
<1>7. CASE CloseNext
  <2>1. /\ DOMAIN tracks' = DOMAIN tracks /\ phase = "recording" /\ UNCHANGED <<phase, enc>>
        /\ \A j \in DOMAIN tracks : tracks'[j].slot = tracks[j].slot
                                     /\ tracks'[j].offset = tracks[j].offset
    BY <1>7, CloseNextShape
  <2> QED
    BY <2>1 DEF Paired
<1>8. CASE AddEncoder
  <2> DEFINE m == opening[1].meta
             n == Len(tracks) + 1
  <2>1. /\ m \in TrackMeta /\ phase = "recording" /\ phase' = phase /\ n \in Nat \ DOMAIN tracks
        /\ DOMAIN tracks' = DOMAIN tracks \cup {n} /\ tracks'[n] = m
        /\ \A i \in DOMAIN tracks : tracks'[i] = tracks[i]
        /\ DOMAIN enc' = DOMAIN enc \cup {Len(enc) + 1}
        /\ enc'[Len(enc) + 1] = EncoderOf(m)
        /\ \A i \in DOMAIN enc : enc'[i] = enc[i]
    BY <1>8, AnswerShape
  <2>2. DOMAIN enc = DOMAIN tracks /\ Len(enc) = Len(tracks)
    BY <2>1, SameLength DEF Paired, IInv, EncOK, TracksOK
  <2>3. EncoderOf(m).slot = m.slot /\ EncoderOf(m).opened = m.offset
    BY <2>1, EncoderShape
  <2> HIDE DEF m
  <2> QED
    BY <2>1, <2>2, <2>3 DEF Paired
<1>9. CASE TearsDown
  BY <1>9 DEF TearsDown, Paired
<1> QED
  BY <1>1, <1>2, <1>3, <1>4, <1>5, <1>6, <1>7, <1>8, <1>9, StepKinds

----------------------------------------------------------------------------
(* How a recording ends *)

\* finalize is posted by stop() and the destructor only, after everything else stop() can meet; once
\* it has run, and not before, the signal is out and every file is closed.
Ending ==
    /\ phase \in {"starting", "recording"} =>
         ~finalized /\ \A m \in ToSet(inbox) : m.kind # "finalize"
    /\ phase = "encoding" =>
         /\ finalized <=> inbox = <<>>
         /\ \A j \in DOMAIN inbox : inbox[j].kind = "finalize" <=> j = Len(inbox)
    /\ phase = "aborting" => finalized \/ \E m \in ToSet(inbox) : m.kind = "finalize"
    /\ phase = "over" => inbox = <<>>
    /\ (\E m \in ToSet(outbox) : m.kind = "finalized") => finalized
    /\ finalized => \A i \in DOMAIN enc : enc[i].closed

LEMMA KeepEnding == Ending /\ UNCHANGED <<phase, finalized, inbox, outbox, enc>> => Ending'
BY DEF Ending

LEMMA InitEnding == Init => Ending
BY DEF Init, Ending, ToSet

LEMMA InboxIs == ASSUME IInv PROVE inbox \in Seq(Command) /\ outbox \in Seq(Message)
BY DEF IInv, QueuesOK

\* The end comes when the worker has run finalize and every file is closed.
LEMMA TearsDownClosed ==
    ASSUME IInv, Ending, TearsDown
    PROVE  inbox = <<>> /\ \A i \in DOMAIN enc : enc[i].closed
<1>1. CASE phase = "aborting" /\ inbox = <<>>
  <2>1. finalized
    BY <1>1 DEF Ending, ToSet
  <2> QED
    BY <1>1, <2>1 DEF Ending
<1>2. CASE phase = "encoding" /\ outbox # <<>> /\ Head(outbox).kind = "finalized"
  <2>1. Head(outbox) \in ToSet(outbox)
    BY <1>2, InboxIs, TailSet
  <2>2. finalized
    BY <1>2, <2>1 DEF Ending
  <2> QED
    BY <1>2, <2>2 DEF Ending
<1> QED
  BY <1>1, <1>2 DEF TearsDown

LEMMA NextEnding ==
    ASSUME IInv, Calls, Paired, Ending, [Next]_vars
    PROVE  Ending'
<1>0. inbox \in Seq(Command) /\ outbox \in Seq(Message)
  BY InboxIs
<1>1. CASE WorkerTick
  <2>1. ~finalized /\ UNCHANGED <<phase, finalized, inbox>>
    BY <1>1 DEF WorkerTick, Tick, sessionVars
  <2>2. \A m \in ToSet(outbox') : m \in ToSet(outbox) \/ m.kind \in {"stalled", "resumed", "slept"}
    <3>1. PICK jump \in Nat :
            \A m \in ToSet(outbox') :
              \/ m \in ToSet(outbox) \/ m.kind \in {"stalled", "resumed"}
              \/ jump > 0 /\ m = SleptMessage(Elapsed, Elapsed + jump)
      BY <1>1, TickShape
    <3>2. SleptMessage(Elapsed, Elapsed + jump).kind = "slept"
      BY DEF SleptMessage
    <3> QED
      BY <3>1, <3>2
  <2> QED
    BY <2>1, <2>2 DEF Ending
<1>2. CASE ClosesFile
  <2>1. /\ UNCHANGED <<phase, finalized>>
        /\ inbox # <<>> /\ Head(inbox).kind = "close" /\ inbox' = Tail(inbox)
        /\ \A m \in ToSet(outbox') : m \in ToSet(outbox) \/ m.kind \in {"stalled", "resumed"}
    BY <1>2, CloseShape DEF sessionVars
  <2>2. DOMAIN enc' = DOMAIN enc /\ \A i \in DOMAIN enc : enc[i].closed => enc'[i].closed
    BY <1>2, WorkerKeeps
  <2>3. /\ ToSet(inbox') \subseteq ToSet(inbox)
        /\ \A m \in ToSet(inbox) : m \in ToSet(inbox') \/ m.kind = "close"
    BY <1>0, <2>1, TailSet
  <2>4. ASSUME phase = "encoding"
        PROVE  /\ finalized' <=> inbox' = <<>>
               /\ \A j \in DOMAIN inbox' : inbox'[j].kind = "finalize" <=> j = Len(inbox')
    <3>1. /\ ~finalized /\ \A j \in DOMAIN inbox : inbox[j].kind = "finalize" <=> j = Len(inbox)
      BY <2>1, <2>4 DEF Ending
    <3>2. /\ Len(inbox') = Len(inbox) - 1 /\ Len(inbox) \in Nat /\ Len(inbox) >= 1
          /\ \A j \in DOMAIN inbox' : j + 1 \in DOMAIN inbox /\ inbox'[j] = inbox[j + 1]
          /\ Head(inbox) = inbox[1]
      BY <1>0, <2>1, TailShape
    <3>3. Len(inbox) # 1
      <4>1. 1 \in DOMAIN inbox
        BY <1>0, <3>2, PosIsNat
      <4> QED
        BY <2>1, <3>1, <3>2, <4>1
    <3>4. inbox' # <<>>
      <4>1. Len(inbox') # 0
        BY <3>2, <3>3
      <4> QED
        BY <4>1, EmptySeq
    <3>5. \A j \in DOMAIN inbox' : j \in Nat
      <4>1. inbox' \in Seq(Command)
        BY <1>0, <2>1, TailShape
      <4> QED
        BY <4>1, PosIsNat
    <3>6. \A j \in DOMAIN inbox' : inbox'[j].kind = "finalize" <=> j = Len(inbox')
      <4> SUFFICES ASSUME NEW j \in DOMAIN inbox'
                   PROVE  inbox'[j].kind = "finalize" <=> j = Len(inbox')
        OBVIOUS
      <4>1. inbox[j + 1].kind = "finalize" <=> j + 1 = Len(inbox)
        BY <3>1, <3>2
      <4>2. j + 1 = Len(inbox) <=> j = Len(inbox')
        BY <3>2, <3>5
      <4> QED
        BY <3>2, <4>1, <4>2
    <3> QED
      BY <2>1, <3>1, <3>4, <3>6
  <2>5. phase # "over"
    BY <2>1 DEF Ending
  <2> QED
    BY <2>1, <2>2, <2>3, <2>4, <2>5 DEF Ending
<1>3. CASE FinishesAll
  <2>1. /\ UNCHANGED phase /\ finalized' = TRUE
        /\ inbox # <<>> /\ Head(inbox).kind = "finalize" /\ inbox' = Tail(inbox)
        /\ finalized => UNCHANGED enc
        /\ DOMAIN enc' = DOMAIN enc
        /\ ~finalized => \A i \in DOMAIN enc :
                           /\ enc[i] \in EncTrack /\ Drained(enc[i], Elapsed) \in EncTrack
                           /\ enc'[i] = Finished(Drained(enc[i], Elapsed), Elapsed)
    BY <1>3, FinishShape DEF sessionVars
  <2>2. Elapsed \in Nat
    BY ElapsedIsNat DEF IInv
  <2>3. \A i \in DOMAIN enc' : enc'[i].closed
    BY <2>1, <2>2, FinishedKeeps DEF Ending
  <2>4. phase \notin {"starting", "recording", "over"}
    <3>1. Head(inbox) \in ToSet(inbox)
      BY <1>0, <2>1, TailSet
    <3> QED
      BY <2>1, <3>1 DEF Ending
  <2>5. ASSUME phase = "encoding" PROVE inbox' = <<>>
    <3>1. 1 \in DOMAIN inbox /\ Head(inbox) = inbox[1] /\ Len(inbox) \in Nat
          /\ Len(Tail(inbox)) = Len(inbox) - 1 /\ Tail(inbox) \in Seq(Command)
      BY <1>0, <2>1, TailShape, PosIsNat
    <3>2. Len(inbox) = 1
      BY <2>1, <2>5, <3>1 DEF Ending
    <3> QED
      BY <2>1, <3>1, <3>2, EmptySeq
  <2>6. phase = "encoding" =>
          \A j \in DOMAIN inbox' : inbox'[j].kind = "finalize" <=> j = Len(inbox')
    BY <2>5
  <2> QED
    BY <2>1, <2>3, <2>4, <2>5, <2>6 DEF Ending
<1>4. CASE AddEncoder \/ AddEncoderFails
  <2>1. /\ phase = "recording" /\ inbox # <<>> /\ inbox' = Tail(inbox)
        /\ UNCHANGED <<phase, finalized, outbox>>
    BY <1>4 DEF AddEncoder, AddEncoderFails, Calls
  <2>2. ToSet(inbox') \subseteq ToSet(inbox)
    BY <1>0, <2>1, TailSet
  <2> QED
    BY <2>1, <2>2 DEF Ending
<1>5. ASSUME NEW dev \in Devices, MakeTrack(dev) PROVE Ending'
  BY <1>5, KeepEnding DEF MakeTrack
<1>6. CASE Start
  BY <1>6 DEF Start, Ending
<1>7. ASSUME NEW dev \in Devices, NEW k \in 0..Len(pending), Opens(dev, k) PROVE Ending'
  <2> DEFINE c == [kind |-> "add", track |-> 0, detached |-> FALSE]
  <2>1. inbox' = Append(inbox, c) /\ c \in Command
    BY <1>7, OpensShape
  <2>2. ToSet(inbox') = ToSet(inbox) \cup {c}
    BY <1>0, <2>1, AppendSet
  <2>3. phase = "recording" /\ UNCHANGED <<phase, finalized, outbox, enc>>
    BY <1>7 DEF Opens, BeginOpen
  <2> QED
    BY <2>2, <2>3 DEF Ending
<1>8. CASE Loses \/ Looks
  BY <1>8, KeepEnding DEF Loses, Looks, workerVars
<1>9. CASE CloseNext
  <2>1. PICK c \in Command : inbox' = Append(inbox, c) /\ c.kind = "close"
    BY <1>9, CloseNextShape
  <2>2. ToSet(inbox') = ToSet(inbox) \cup {c}
    BY <1>0, <2>1, AppendSet
  <2>3. phase = "recording" /\ UNCHANGED <<phase, finalized, outbox, enc>>
    BY <1>9, CloseNextShape
  <2> QED
    BY <2>1, <2>2, <2>3 DEF Ending
<1>10. CASE TakesSignal \/ TakesSleep
  <2>1. outbox # <<>> /\ outbox' = Tail(outbox) /\ UNCHANGED <<phase, finalized, inbox, enc>>
    BY <1>10 DEF TakesSignal, TakesSleep
  <2>2. ToSet(outbox') \subseteq ToSet(outbox)
    BY <1>0, <2>1, TailSet
  <2> QED
    BY <2>1, <2>2 DEF Ending
<1>11. CASE Ends
  <2> DEFINE c == [kind |-> "finalize", track |-> 0, detached |-> FALSE]
  <2>1. inbox' = Append(inbox, c) /\ UNCHANGED <<enc, finalized, outbox>>
    BY <1>11 DEF Ends, Post
  <2>2. c \in Command /\ c.kind = "finalize"
    BY DEF Command
  <2> HIDE DEF c
  <2>3. ToSet(inbox') = ToSet(inbox) \cup {c}
    BY <1>0, <2>1, <2>2, AppendSet
  <2>4. ASSUME phase' = "encoding"
        PROVE  /\ finalized' <=> inbox' = <<>>
               /\ \A j \in DOMAIN inbox' : inbox'[j].kind = "finalize" <=> j = Len(inbox')
    <3>1. ~finalized /\ \A m \in ToSet(inbox) : m.kind # "finalize"
      BY <1>11, <2>4 DEF Ends, Ending
    <3>2. /\ DOMAIN inbox' = DOMAIN inbox \cup {Len(inbox) + 1} /\ Len(inbox') = Len(inbox) + 1
          /\ \A j \in DOMAIN inbox : inbox'[j] = inbox[j]
          /\ inbox'[Len(inbox) + 1] = c /\ inbox' # <<>>
      BY <1>0, <2>1, <2>2, AppendShape
    <3>3. \A j \in DOMAIN inbox : j # Len(inbox) + 1 /\ inbox[j].kind # "finalize"
      BY <1>0, <3>1, PosIsNat DEF ToSet
    <3> QED
      BY <2>1, <2>2, <3>1, <3>2, <3>3
  <2>5. phase' \in {"encoding", "aborting"}
    BY <1>11 DEF Ends
  <2> QED
    BY <2>1, <2>2, <2>3, <2>4, <2>5 DEF Ending
<1>12. CASE TearsDown
  <2>1. inbox = <<>>
    BY <1>12, TearsDownClosed
  <2> QED
    BY <1>12, <2>1 DEF TearsDown, Ending, ToSet
<1>13. CASE Advance \/ Sleep \/ UNCHANGED vars
  BY <1>13, KeepEnding DEF Advance, Sleep, vars, sessionVars, workerVars
<1> QED
  BY <1>1, <1>2, <1>3, <1>4, <1>5, <1>6, <1>7, <1>8, <1>9, <1>10, <1>11, <1>12, <1>13, StepKinds

\* The invariant of the recording's end and what it rests on.
LEMMA EndingHolds == Spec => [](IInv /\ Calls /\ Paired /\ Ending)
<1>1. Init => IInv /\ Calls /\ Paired /\ Ending
  BY InitIInv, InitCalls, InitPaired, InitEnding
<1>2. IInv /\ Calls /\ Paired /\ Ending /\ [Next]_vars => (IInv /\ Calls /\ Paired /\ Ending)'
  BY NextIInv, NextCalls, NextPaired, NextEnding
<1> QED
  BY <1>1, <1>2, PTL DEF Spec

LEMMA OverTearsDown ==
    ASSUME IInv, Calls, [Next]_vars, phase # "over", phase' = "over"
    PROVE  TearsDown
<1>1. ~(WorkerTick \/ ClosesFile \/ FinishesAll \/ AddEncoder \/ AddEncoderFails)
  BY DEF WorkerTick, ClosesFile, FinishesAll, AddEncoder, AddEncoderFails, sessionVars
<1>2. ASSUME NEW dev \in Devices PROVE ~MakeTrack(dev)
  BY DEF MakeTrack
<1>3. ASSUME NEW dev \in Devices, NEW k \in 0..Len(pending) PROVE ~Opens(dev, k)
  BY DEF Opens, BeginOpen
<1>4. ~(Start \/ Loses \/ CloseNext \/ Looks \/ TakesSignal \/ TakesSleep \/ Ends)
  BY DEF Start, Loses, CloseNext, Looks, TakesSignal, TakesSleep, Ends
<1>5. ~(Advance \/ Sleep \/ UNCHANGED vars)
  BY DEF Advance, Sleep, vars, sessionVars
<1> QED
  BY <1>1, <1>2, <1>3, <1>4, <1>5, StepKinds

\* Engine and worker are torn down, by onFinalized or by the destructor, only when every file is
\* closed, and never with a command left that the worker has not run.
THEOREM ClosedBeforeTeardownHolds == Spec => ClosedBeforeTeardown
<1>1. IInv /\ Calls /\ Paired /\ Ending /\ [Next]_vars
        => [ phase # "over" /\ phase' = "over"
               => inbox = <<>> /\ \A i \in DOMAIN enc : enc[i].closed ]_vars
  BY OverTearsDown, TearsDownClosed
<1> QED
  BY <1>1, EndingHolds, PTL DEF Spec, ClosedBeforeTeardown

----------------------------------------------------------------------------
(* Closing a file *)

\* Draining empties the rings of some tracks and touches nothing else.
LEMMA EmptiedShape ==
    ASSUME IInv, NEW S \in SUBSET DOMAIN enc
    PROVE  LET e == Emptied(S)
           IN  /\ DOMAIN e = DOMAIN eng
               /\ \A s \in DOMAIN eng : e[s].on = eng[s].on /\ e[s].ring \in {0, eng[s].ring}
               /\ \A i \in S : ~enc[i].closed => e[enc[i].slot].ring = 0
<1>1. \A s \in DOMAIN eng : eng[s] \in EngSlot
  BY ElementOfSeq, PosIsNat DEF IInv, EngOK
<1>2. \A i \in S : enc[i].slot \in DOMAIN eng
  BY DEF IInv, SlotsOK
<1>3. \A s \in DOMAIN eng :
         Emptied(S)[s] = IF \E i \in S : enc[i].slot = s /\ ~enc[i].closed
                         THEN [eng[s] EXCEPT !.ring = 0] ELSE eng[s]
  BY DEF Emptied
<1>4. \A s \in DOMAIN eng : /\ [eng[s] EXCEPT !.ring = 0].on = eng[s].on
                            /\ [eng[s] EXCEPT !.ring = 0].ring = 0
  BY <1>1 DEF EngSlot
<1>5. DOMAIN Emptied(S) = DOMAIN eng
  BY DEF Emptied
<1> DEFINE e == Emptied(S)
<1> HIDE DEF e
<1>6. \A s \in DOMAIN eng : e[s].on = eng[s].on /\ e[s].ring \in {0, eng[s].ring}
  BY <1>3, <1>4 DEF e
<1>7. \A i \in S : ~enc[i].closed => e[enc[i].slot].ring = 0
  <2> SUFFICES ASSUME NEW i \in S, ~enc[i].closed PROVE e[enc[i].slot].ring = 0
    OBVIOUS
  <2>1. e[enc[i].slot] = [eng[enc[i].slot] EXCEPT !.ring = 0]
    BY <1>2, <1>3 DEF e
  <2> QED
    BY <1>2, <1>4, <2>1
<1> QED
  BY <1>5, <1>6, <1>7 DEF e

\* What a tick does to a track: it never closes one, and it announces the sleep it cuts for.
LEMMA TickCuts ==
    ASSUME IInv, WorkerTick, NEW i \in DOMAIN enc
    PROVE  /\ enc'[i].closed = enc[i].closed
           /\ enc'[i].suspended =>
                \/ enc[i].suspended
                \/ \E m \in ToSet(outbox') : m.kind = "slept"
<1>1. Elapsed \in Nat
  BY ElapsedIsNat DEF IInv
<1>2. PICK jump \in Nat :
        /\ \A j \in DOMAIN enc :
             /\ enc[j] \in EncTrack /\ CutAt(jump, j) \in EncTrack
             /\ LET d == Drained(CutAt(jump, j), Elapsed + jump)
                IN  d \in EncTrack /\ enc'[j] \in {d, [d EXCEPT !.stalled = TRUE]}
        /\ jump > 0 => SleptMessage(Elapsed, Elapsed + jump) \in ToSet(outbox')
  BY TickShape
<1> DEFINE c == CutAt(jump, i)
           d == Drained(c, Elapsed + jump)
<1>3. /\ enc[i] \in EncTrack /\ c \in EncTrack /\ d \in EncTrack
      /\ enc'[i] \in {d, [d EXCEPT !.stalled = TRUE]}
  BY <1>2
<1>4. c.closed = enc[i].closed /\ (c.suspended => enc[i].suspended \/ jump > 0)
  BY <1>1, <1>3, CutKeeps DEF CutAt
<1>5. d.closed = c.closed /\ d.suspended = c.suspended
  <2>1. Elapsed + jump \in Nat
    BY <1>1
  <2> HIDE DEF c
  <2> QED
    BY <1>3, <2>1, DrainedKeeps
<1> HIDE DEF c, d
<1>6. enc'[i].closed = d.closed /\ enc'[i].suspended = d.suspended
  BY <1>3 DEF EncTrack
<1>7. SleptMessage(Elapsed, Elapsed + jump).kind = "slept"
  BY DEF SleptMessage
<1> QED
  BY <1>2, <1>4, <1>5, <1>6, <1>7

\* The file of the command's track is closed; the others are as they were.
LEMMA CloseCloses ==
    ASSUME IInv, ClosesFile
    PROVE  /\ Head(inbox).track \in DOMAIN enc => enc'[Head(inbox).track].closed
           /\ \A j \in DOMAIN enc : j # Head(inbox).track => enc'[j] = enc[j]
<1> DEFINE i == Head(inbox).track
           f == Finished(Drained(enc[i], Elapsed), Elapsed)
<1>1. /\ i \notin DOMAIN enc => UNCHANGED enc
      /\ i \in DOMAIN enc =>
           /\ Drained(enc[i], Elapsed) \in EncTrack /\ f \in EncTrack
           /\ enc' = [enc EXCEPT ![i] = [f EXCEPT !.stalled = Head(inbox).detached]]
  BY CloseShape
<1>2. \A j \in DOMAIN enc : j # i => enc'[j] = enc[j]
  BY <1>1
<1>3. ASSUME i \in DOMAIN enc PROVE enc'[i].closed
  <2>1. Elapsed \in Nat
    BY ElapsedIsNat DEF IInv
  <2>2. f.closed
    BY <1>1, <1>3, <2>1, FinishedKeeps
  <2>3. f \in EncTrack /\ enc'[i] = [f EXCEPT !.stalled = Head(inbox).detached]
    BY <1>1, <1>3
  <2> HIDE DEF f, i
  <2> QED
    BY <2>2, <2>3 DEF EncTrack
<1> QED
  BY <1>2, <1>3

\* A file the worker closes has taken the whole ring; other rings are emptied or left alone.
LEMMA WorkerEmpties ==
    ASSUME IInv, WorkerTick \/ ClosesFile \/ FinishesAll
    PROVE  /\ DOMAIN eng' = DOMAIN eng
           /\ \A s \in DOMAIN eng : eng'[s].on = eng[s].on /\ eng'[s].ring \in {0, eng[s].ring}
           /\ \A i \in DOMAIN enc :
                 ~enc[i].closed /\ enc'[i].closed => eng'[enc[i].slot].ring = 0
<1>1. CASE WorkerTick
  <2>1. eng' = Emptied(DOMAIN enc)
    BY <1>1, TickShape
  <2> QED
    BY <1>1, <2>1, EmptiedShape, TickCuts
<1>2. CASE ClosesFile
  <2> DEFINE i == Head(inbox).track
  <2>1. CASE i \in DOMAIN enc
    <3>1. eng' = Emptied({i}) /\ {i} \in SUBSET DOMAIN enc
      BY <1>2, <2>1, CloseShape
    <3>2. \A j \in DOMAIN enc : j # i => enc'[j] = enc[j]
      BY <1>2, CloseCloses
    <3> HIDE DEF i
    <3> QED
      BY <3>1, <3>2, EmptiedShape
  <2>2. CASE i \notin DOMAIN enc
    BY <1>2, <2>2, CloseShape
  <2> QED
    BY <2>1, <2>2
<1>3. CASE FinishesAll
  <2>1. CASE finalized
    BY <1>3, <2>1, FinishShape
  <2>2. CASE ~finalized
    <3>1. eng' = Emptied(DOMAIN enc)
      BY <1>3, <2>2, FinishShape
    <3> QED
      BY <3>1, EmptiedShape
  <2> QED
    BY <2>1, <2>2
<1> QED
  BY <1>1, <1>2, <1>3

\* Switching a slot off stops its capture; its ring keeps what it has.
LEMMA SlotOffShape ==
    ASSUME IInv, NEW x
    PROVE  /\ DOMAIN SlotOff(x) = DOMAIN eng
           /\ \A s \in DOMAIN eng : /\ SlotOff(x)[s].ring = eng[s].ring
                                    /\ SlotOff(x)[s].on => eng[s].on
                                    /\ s = x => ~SlotOff(x)[s].on
<1>1. \A s \in DOMAIN eng : eng[s] \in EngSlot
  BY ElementOfSeq, PosIsNat DEF IInv, EngOK
<1> QED
  BY <1>1 DEF SlotOff, EngSlot

\* In a unit of time a ring gains a frame at most, and only while its device captures.
LEMMA AdvanceShape ==
    ASSUME IInv, Advance
    PROVE  /\ DOMAIN eng' = DOMAIN eng
           /\ \A s \in DOMAIN eng : /\ eng'[s].on = eng[s].on
                                    /\ ~eng[s].on => eng'[s].ring = eng[s].ring
                                    /\ eng'[s].ring \in {eng[s].ring, eng[s].ring + 1}
<1>1. \A s \in DOMAIN eng : eng[s] \in EngSlot
  BY ElementOfSeq, PosIsNat DEF IInv, EngOK
<1>2. PICK talking \in SUBSET {s \in DOMAIN eng : eng[s].on} :
        eng' = [s \in DOMAIN eng |->
                  IF s \in talking /\ eng[s].ring < RingSize
                  THEN [eng[s] EXCEPT !.ring = @ + 1]
                  ELSE eng[s]]
  BY DEF Advance
<1>3. \A s \in DOMAIN eng : \/ eng'[s] = eng[s]
                            \/ eng[s].on /\ eng'[s] = [eng[s] EXCEPT !.ring = @ + 1]
  <2> SUFFICES ASSUME NEW s \in DOMAIN eng
               PROVE  \/ eng'[s] = eng[s]
                      \/ eng[s].on /\ eng'[s] = [eng[s] EXCEPT !.ring = @ + 1]
    OBVIOUS
  <2>1. CASE s \in talking /\ eng[s].ring < RingSize
    BY <1>2, <2>1
  <2>2. CASE ~(s \in talking /\ eng[s].ring < RingSize)
    BY <1>2, <2>2
  <2> QED
    BY <2>1, <2>2
<1>4. \A s \in DOMAIN eng : /\ [eng[s] EXCEPT !.ring = @ + 1].on = eng[s].on
                            /\ [eng[s] EXCEPT !.ring = @ + 1].ring = eng[s].ring + 1
  BY <1>1 DEF EngSlot
<1>5. DOMAIN eng' = DOMAIN eng
  BY <1>2
<1> QED
  BY <1>3, <1>4, <1>5

\* start() opens a device more for the first time, at the beginning of the recording.
LEMMA MakeTrackShape ==
    ASSUME IInv, NEW dev \in Devices, MakeTrack(dev)
    PROVE  LET n == Len(tracks) + 1
               x == Len(eng) + 1
           IN  /\ phase = "starting" /\ n \in Nat \ DOMAIN tracks /\ x \in Nat \ DOMAIN eng
               /\ DOMAIN tracks' = DOMAIN tracks \cup {n}
               /\ \A i \in DOMAIN tracks : tracks'[i] = tracks[i]
               /\ tracks'[n].dev = dev /\ tracks'[n].slot = x /\ tracks'[n].offset = 0
               /\ tracks'[n].continues = None /\ ~tracks'[n].closed
               /\ DOMAIN eng' = DOMAIN eng \cup {x} /\ eng'[x] = NewSlot
               /\ \A s \in DOMAIN eng : eng'[s] = eng[s]
               /\ UNCHANGED <<phase, pending, polling, gaps, stalled, closing, poll, opening,
                              meeting, enc, ticked, finalized, inbox, outbox, clock>>
<1>1. PICK c \in 1..(MaxSlots + 1) :
        tracks' = Append(tracks, Meta(dev, Len(eng) + 1, Candidate(dev.name, c), 0, None))
  BY DEF MakeTrack
<1> DEFINE m == Meta(dev, Len(eng) + 1, Candidate(dev.name, c), 0, None)
<1>2. tracks' = Append(tracks, m)
  BY <1>1
<1>3. /\ m.dev = dev /\ m.slot = Len(eng) + 1 /\ m.offset = 0 /\ m.continues = None /\ ~m.closed
  BY DEF Meta
<1> HIDE DEF m
<1>4. eng' = Append(eng, NewSlot) /\ eng \in Seq(EngSlot) /\ tracks \in Seq(TrackMeta)
  BY DEF MakeTrack, IInv, EngOK, TracksOK
<1>5. NewSlot \in EngSlot
  BY SessionAssumption DEF NewSlot, EngSlot
<1>6. /\ DOMAIN eng' = DOMAIN eng \cup {Len(eng) + 1} /\ eng'[Len(eng) + 1] = NewSlot
      /\ \A s \in DOMAIN eng : eng'[s] = eng[s]
  BY <1>4, <1>5, AppendShape
<1>7. /\ DOMAIN tracks' = DOMAIN tracks \cup {Len(tracks) + 1} /\ tracks'[Len(tracks) + 1] = m
      /\ \A i \in DOMAIN tracks : tracks'[i] = tracks[i]
  <2>1. tracks \in Seq(TrackMeta \cup {m})
    BY <1>4, SeqMono
  <2> QED
    BY <1>2, <2>1, AppendShape
<1>8. Len(eng) + 1 \in Nat \ DOMAIN eng /\ Len(tracks) + 1 \in Nat \ DOMAIN tracks
  BY <1>4, PosIsNat
<1> QED
  BY <1>3, <1>6, <1>7, <1>8 DEF MakeTrack

\* A close is posted for every track that was closed and whose file is not yet, and for no other;
\* the device of a closed track captures no more.
Closes ==
    /\ \A m \in ToSet(inbox) : m.kind = "close" => m.track \in DOMAIN tracks /\ tracks[m.track].closed
    /\ \A i \in DOMAIN enc : tracks[i].closed /\ ~enc[i].closed =>
                                \E m \in ToSet(inbox) : m.kind = "close" /\ m.track = i
    /\ \A i \in DOMAIN enc : enc[i].closed => tracks[i].closed \/ finalized
    /\ \A i \in DOMAIN tracks : tracks[i].closed => ~eng[tracks[i].slot].on
    /\ phase = "starting" => \A i \in DOMAIN tracks : ~tracks[i].closed
    /\ \A i \in DOMAIN opening : ~opening[i].meta.closed

LEMMA KeepCloses ==
    /\ Closes /\ \A s \in DOMAIN eng : eng'[s].on = eng[s].on
    /\ IInv /\ UNCHANGED <<phase, tracks, enc, inbox, finalized, opening>>
    => Closes'
BY DEF Closes, IInv, SlotsOK

LEMMA InitCloses == Init => Closes
BY DEF Init, Closes, ToSet

LEMMA NextCloses ==
    ASSUME IInv, Calls, Paired, Ending, Closes, [Next]_vars
    PROVE  Closes'
<1>0. inbox \in Seq(Command)
  BY InboxIs
<1>1. CASE WorkerTick
  <2>1. /\ UNCHANGED <<phase, tracks, inbox, finalized, opening>> /\ DOMAIN enc' = DOMAIN enc
        /\ \A s \in DOMAIN eng : eng'[s].on = eng[s].on
    BY <1>1, WorkerKeeps, WorkerEmpties DEF WorkerTick, Tick, sessionVars
  <2>2. \A i \in DOMAIN enc : enc'[i].closed = enc[i].closed
    BY <1>1, TickCuts
  <2> QED
    BY <2>1, <2>2 DEF Closes, IInv, SlotsOK
<1>2. CASE ClosesFile
  <2> DEFINE h == Head(inbox)
  <2>1. /\ UNCHANGED <<phase, tracks, finalized, opening>> /\ DOMAIN enc' = DOMAIN enc
        /\ \A s \in DOMAIN eng : eng'[s].on = eng[s].on
        /\ inbox # <<>> /\ h.kind = "close" /\ inbox' = Tail(inbox)
    BY <1>2, WorkerKeeps, WorkerEmpties, CloseShape DEF sessionVars
  <2>2. /\ h.track \in DOMAIN enc => enc'[h.track].closed
        /\ \A j \in DOMAIN enc : j # h.track => enc'[j] = enc[j]
    BY <1>2, CloseCloses
  <2>3. ToSet(inbox) = ToSet(inbox') \cup {h} /\ h \in ToSet(inbox)
    BY <1>0, <2>1, TailSet
  <2> HIDE DEF h
  <2>4. \A i \in DOMAIN enc' : tracks'[i].closed /\ ~enc'[i].closed =>
                                  \E m \in ToSet(inbox') : m.kind = "close" /\ m.track = i
    BY <2>1, <2>2, <2>3 DEF Closes
  <2>5. \A i \in DOMAIN enc' : enc'[i].closed => tracks'[i].closed \/ finalized'
    BY <2>1, <2>2, <2>3 DEF Closes
  <2> QED
    BY <2>1, <2>3, <2>4, <2>5 DEF Closes, IInv, SlotsOK
<1>3. CASE FinishesAll
  <2>1. /\ UNCHANGED <<phase, tracks, opening>> /\ DOMAIN enc' = DOMAIN enc
        /\ \A s \in DOMAIN eng : eng'[s].on = eng[s].on
        /\ inbox # <<>> /\ inbox' = Tail(inbox) /\ finalized' = TRUE
    BY <1>3, WorkerKeeps, WorkerEmpties, FinishShape DEF sessionVars
  <2>2. Ending'
    BY NextEnding
  <2>3. \A i \in DOMAIN enc' : enc'[i].closed
    BY <2>1, <2>2 DEF Ending
  <2>4. ToSet(inbox') \subseteq ToSet(inbox)
    BY <1>0, <2>1, TailSet
  <2> QED
    BY <2>1, <2>3, <2>4 DEF Closes, IInv, SlotsOK
<1>4. CASE AddEncoder
  <2> DEFINE m == opening[1].meta
             n == Len(tracks) + 1
             h == Head(inbox)
  <2>1. /\ m \in TrackMeta /\ n \in Nat \ DOMAIN tracks /\ phase = "recording"
        /\ DOMAIN tracks' = DOMAIN tracks \cup {n} /\ tracks'[n] = m
        /\ \A i \in DOMAIN tracks : tracks'[i] = tracks[i]
        /\ DOMAIN enc' = DOMAIN enc \cup {Len(enc) + 1}
        /\ enc'[Len(enc) + 1] = EncoderOf(m)
        /\ \A i \in DOMAIN enc : enc'[i] = enc[i]
        /\ inbox # <<>> /\ h.kind = "add" /\ inbox' = Tail(inbox) /\ opening' = <<>>
        /\ UNCHANGED <<phase, finalized, eng>>
    BY <1>4, AnswerShape
  <2>2. DOMAIN enc = DOMAIN tracks /\ Len(enc) = Len(tracks)
    BY <2>1, SameLength DEF Paired, IInv, EncOK, TracksOK
  <2>3. ToSet(inbox) = ToSet(inbox') \cup {h}
    BY <1>0, <2>1, TailSet
  <2>4. ~m.closed /\ ~EncoderOf(m).closed
    <3>1. ~m.closed
      BY <1>4, AnswerShape DEF Closes
    <3> QED
      BY <2>1, <3>1, EncoderShape
  <2> HIDE DEF m, n, h
  <2>5. DOMAIN enc' = DOMAIN tracks' /\ ~enc'[n].closed /\ ~tracks'[n].closed
    BY <2>1, <2>2, <2>4 DEF n
  <2> QED
    BY <2>1, <2>2, <2>3, <2>5 DEF Closes
<1>5. CASE AddEncoderFails
  <2> DEFINE h == Head(inbox)
             x == opening[1].meta.slot
  <2>1. /\ inbox # <<>> /\ h.kind = "add" /\ inbox' = Tail(inbox) /\ opening' = <<>>
        /\ eng' = SlotOff(x) /\ UNCHANGED <<phase, tracks, enc, finalized>>
    BY <1>5 DEF AddEncoderFails
  <2>2. ToSet(inbox) = ToSet(inbox') \cup {h}
    BY <1>0, <2>1, TailSet
  <2> HIDE DEF h, x
  <2>3. \A s \in DOMAIN eng : ~eng[s].on => ~eng'[s].on
    BY <2>1, SlotOffShape
  <2> QED
    BY <2>1, <2>2, <2>3 DEF Closes, IInv, SlotsOK
<1>6. ASSUME NEW dev \in Devices, MakeTrack(dev) PROVE Closes'
  <2>1. /\ phase = "starting" /\ UNCHANGED <<phase, enc, inbox, finalized, opening>>
        /\ \A i \in DOMAIN tracks' : ~tracks'[i].closed
    BY <1>6, MakeTrackShape DEF Closes
  <2>2. enc = <<>> /\ inbox = <<>>
    BY <2>1 DEF Paired
  <2> QED
    BY <2>1, <2>2 DEF Closes, ToSet
<1>7. CASE Start
  <2>1. /\ phase = "starting" /\ UNCHANGED <<tracks, inbox, opening, eng, finalized>>
        /\ phase' = "recording"
        /\ enc' = [i \in DOMAIN tracks |-> EncoderOf(tracks[i])]
    BY <1>7 DEF Start
  <2>2. \A i \in DOMAIN tracks : ~EncoderOf(tracks[i]).closed
    BY TrackIs, EncoderShape
  <2> QED
    BY <2>1, <2>2 DEF Closes
<1>8. ASSUME NEW dev \in Devices, NEW k \in 0..Len(pending), Opens(dev, k) PROVE Closes'
  <2> DEFINE c == [kind |-> "add", track |-> 0, detached |-> FALSE]
  <2>1. /\ DOMAIN opening' = {1} /\ ~opening'[1].meta.closed
        /\ \A s \in DOMAIN eng : eng'[s] = eng[s]
        /\ inbox' = Append(inbox, c) /\ c \in Command
    BY <1>8, OpensShape
  <2>3. UNCHANGED <<phase, tracks, finalized, enc>> /\ c.kind = "add"
    BY <1>8 DEF Opens, BeginOpen
  <2> HIDE DEF c
  <2>2. ToSet(inbox') = ToSet(inbox) \cup {c}
    BY <1>0, <2>1, AppendSet
  <2> QED
    BY <2>1, <2>2, <2>3 DEF Closes, IInv, SlotsOK
<1>9. CASE Loses \/ Looks
  BY <1>9, KeepCloses DEF Loses, Looks, workerVars
<1>10. CASE CloseNext
  <2>1. PICK i \in DOMAIN tracks :
          /\ ~tracks[i].closed /\ phase = "recording" /\ eng' = SlotOff(tracks[i].slot)
          /\ DOMAIN tracks' = DOMAIN tracks /\ tracks'[i].closed
          /\ \A j \in DOMAIN tracks :
               /\ tracks'[j].slot = tracks[j].slot
               /\ j # i => tracks'[j].closed = tracks[j].closed
               /\ tracks[j].closed => tracks'[j].closed
          /\ \E d \in BOOLEAN :
               LET c == [kind |-> "close", track |-> i, detached |-> d]
               IN  inbox' = Append(inbox, c) /\ c \in Command
          /\ UNCHANGED <<phase, opening, enc, finalized>>
    BY <1>10, CloseNextShape
  <2>2. PICK c \in Command : inbox' = Append(inbox, c) /\ c.kind = "close" /\ c.track = i
    BY <2>1
  <2>3. ToSet(inbox') = ToSet(inbox) \cup {c}
    BY <1>0, <2>2, AppendSet
  <2>4. /\ ~eng'[tracks[i].slot].on
        /\ \A s \in DOMAIN eng : ~eng[s].on => ~eng'[s].on
    <3> DEFINE x == tracks[i].slot
    <3>1. x \in DOMAIN eng /\ eng' = SlotOff(x)
      BY <2>1 DEF IInv, SlotsOK
    <3> HIDE DEF x
    <3>2. ~eng'[x].on /\ \A s \in DOMAIN eng : ~eng[s].on => ~eng'[s].on
      <4>1. \A s \in DOMAIN eng : /\ SlotOff(x)[s].on => eng[s].on
                                  /\ s = x => ~SlotOff(x)[s].on
        BY SlotOffShape
      <4> QED
        BY <3>1, <4>1
    <3> QED
      BY <3>2 DEF x
  <2>5. DOMAIN tracks' = DOMAIN tracks /\ \A j \in DOMAIN tracks : tracks[j].slot \in DOMAIN eng
    BY <2>1 DEF IInv, SlotsOK
  <2>6. \A m \in ToSet(inbox') : m.kind = "close" =>
            m.track \in DOMAIN tracks' /\ tracks'[m.track].closed
    BY <2>1, <2>2, <2>3 DEF Closes
  <2>7. \A j \in DOMAIN enc' : tracks'[j].closed /\ ~enc'[j].closed =>
                                  \E m \in ToSet(inbox') : m.kind = "close" /\ m.track = j
    BY <2>1, <2>2, <2>3 DEF Closes, Paired
  <2>8. \A j \in DOMAIN enc' : enc'[j].closed => tracks'[j].closed \/ finalized'
    BY <2>1 DEF Closes, Paired
  <2>9. \A j \in DOMAIN tracks' : tracks'[j].closed => ~eng'[tracks'[j].slot].on
    <3> SUFFICES ASSUME NEW j \in DOMAIN tracks, tracks'[j].closed
                 PROVE  ~eng'[tracks[j].slot].on
      BY <2>1
    <3>1. CASE j = i
      BY <2>4, <3>1
    <3>2. CASE j # i
      BY <2>1, <2>4, <2>5, <3>2 DEF Closes
    <3> QED
      BY <3>1, <3>2
  <2> QED
    BY <2>1, <2>6, <2>7, <2>8, <2>9 DEF Closes
<1>11. CASE TakesSignal \/ TakesSleep
  BY <1>11, KeepCloses DEF TakesSignal, TakesSleep
<1>12. CASE Ends
  <2> DEFINE c == [kind |-> "finalize", track |-> 0, detached |-> FALSE]
  <2>1. /\ inbox' = Append(inbox, c) /\ phase' # "starting"
        /\ UNCHANGED <<tracks, enc, finalized, opening, eng>>
    BY <1>12 DEF Ends, Post
  <2>2. c \in Command /\ c.kind = "finalize"
    BY DEF Command
  <2> HIDE DEF c
  <2>3. ToSet(inbox') = ToSet(inbox) \cup {c}
    BY <1>0, <2>1, <2>2, AppendSet
  <2> QED
    BY <2>1, <2>2, <2>3 DEF Closes
<1>13. CASE TearsDown
  <2>1. inbox = <<>> /\ inbox' = inbox /\ tracks' = <<>> /\ enc' = <<>> /\ opening' = opening
    BY <1>13, TearsDownClosed DEF TearsDown
  <2> QED
    BY <2>1 DEF Closes, ToSet
<1>14. CASE Advance
  <2>1. \A s \in DOMAIN eng : eng'[s].on = eng[s].on
    BY <1>14, AdvanceShape
  <2> QED
    BY <1>14, <2>1, KeepCloses DEF Advance, sessionVars
<1>15. CASE Sleep \/ UNCHANGED vars
  BY <1>15, KeepCloses DEF Sleep, vars, sessionVars, workerVars
<1> QED
  BY <1>1, <1>2, <1>3, <1>4, <1>5, <1>6, <1>7, <1>8, <1>9, <1>10, <1>11, <1>12, <1>13, <1>14, <1>15,
     StepKinds

\* Nothing that was captured stays behind: a ring is emptied when its file is closed, and a closed
\* track captures no more.
LEMMA NextFilesComplete ==
    ASSUME IInv, Calls, Paired, Ending, Closes, FilesComplete, [Next]_vars
    PROVE  FilesComplete'
<1>0. phase = "starting" \/ DOMAIN enc = DOMAIN tracks
  BY DEF Paired
<1>1. ASSUME \A s \in DOMAIN eng : eng[s].on \/ eng'[s].ring \in {0, eng[s].ring},
             UNCHANGED <<tracks, enc>>
      PROVE  FilesComplete'
  <2> SUFFICES ASSUME NEW i \in DOMAIN tracks,
                      tracks[i].closed, enc[i].closed, ~enc[i].suspended
               PROVE  eng'[tracks[i].slot].ring = 0
    BY <1>1 DEF FilesComplete
  <2>1. eng[tracks[i].slot].ring = 0 /\ tracks[i].slot \in DOMAIN eng /\ ~eng[tracks[i].slot].on
    BY DEF FilesComplete, IInv, SlotsOK, Closes
  <2> QED
    BY <1>1, <2>1
<1>2. CASE WorkerTick \/ ClosesFile \/ FinishesAll
  <2>1. /\ UNCHANGED tracks /\ DOMAIN enc' = DOMAIN enc
        /\ \A i \in DOMAIN enc : enc[i].suspended => enc'[i].suspended
    BY <1>2, WorkerKeeps DEF sessionVars
  <2>2. /\ \A s \in DOMAIN eng : eng'[s].ring \in {0, eng[s].ring}
        /\ \A i \in DOMAIN enc :
              ~enc[i].closed /\ enc'[i].closed => eng'[enc[i].slot].ring = 0
    BY <1>2, WorkerEmpties
  <2> SUFFICES ASSUME NEW i \in DOMAIN tracks,
                      tracks[i].closed, enc'[i].closed, ~enc'[i].suspended
               PROVE  eng'[tracks[i].slot].ring = 0
    BY <2>1 DEF FilesComplete
  <2>3. i \in DOMAIN enc /\ enc[i].slot = tracks[i].slot /\ tracks[i].slot \in DOMAIN eng
    BY <1>0 DEF Closes, Paired, IInv, SlotsOK
  <2>4. CASE enc[i].closed
    <3>1. eng[tracks[i].slot].ring = 0
      BY <2>1, <2>3, <2>4 DEF FilesComplete
    <3> QED
      BY <2>2, <2>3, <3>1
  <2>5. CASE ~enc[i].closed
    BY <2>2, <2>3, <2>5
  <2> QED
    BY <2>4, <2>5
<1>3. CASE AddEncoder
  <2> DEFINE m == opening[1].meta
             n == Len(tracks) + 1
  <2>1. /\ m \in TrackMeta /\ n \in Nat \ DOMAIN tracks /\ phase = "recording"
        /\ DOMAIN tracks' = DOMAIN tracks \cup {n}
        /\ \A i \in DOMAIN tracks : tracks'[i] = tracks[i]
        /\ enc'[Len(enc) + 1] = EncoderOf(m)
        /\ \A i \in DOMAIN enc : enc'[i] = enc[i]
        /\ UNCHANGED eng
    BY <1>3, AnswerShape
  <2>2. DOMAIN enc = DOMAIN tracks /\ Len(enc) = Len(tracks) /\ ~EncoderOf(m).closed
    BY <2>1, SameLength, EncoderShape DEF Paired, IInv, EncOK, TracksOK
  <2> HIDE DEF m, n
  <2>3. ~enc'[n].closed
    BY <2>1, <2>2 DEF n
  <2> QED
    BY <2>1, <2>2, <2>3 DEF FilesComplete
<1>4. CASE AddEncoderFails
  <2> DEFINE x == opening[1].meta.slot
  <2>1. eng' = SlotOff(x) /\ UNCHANGED <<tracks, enc>>
    BY <1>4 DEF AddEncoderFails
  <2> HIDE DEF x
  <2> QED
    BY <1>1, <2>1, SlotOffShape
<1>5. ASSUME NEW dev \in Devices, MakeTrack(dev) PROVE FilesComplete'
  <2>1. Closes' /\ phase' = "starting"
    BY <1>5, NextCloses, MakeTrackShape
  <2> QED
    BY <2>1 DEF Closes, FilesComplete
<1>6. CASE Start
  <2>1. UNCHANGED tracks /\ \A i \in DOMAIN tracks : ~tracks[i].closed
    BY <1>6 DEF Start, Closes
  <2> QED
    BY <2>1 DEF FilesComplete
<1>7. ASSUME NEW dev \in Devices, NEW k \in 0..Len(pending), Opens(dev, k) PROVE FilesComplete'
  <2>1. \A s \in DOMAIN eng : eng'[s] = eng[s]
    BY <1>7, OpensShape
  <2>2. UNCHANGED <<tracks, enc>>
    BY <1>7 DEF Opens, BeginOpen
  <2> QED
    BY <1>1, <2>1, <2>2
<1>8. CASE CloseNext
  <2>1. PICK i \in DOMAIN tracks :
          /\ ~tracks[i].closed /\ phase = "recording" /\ eng' = SlotOff(tracks[i].slot)
          /\ DOMAIN tracks' = DOMAIN tracks
          /\ \A j \in DOMAIN tracks : /\ tracks'[j].slot = tracks[j].slot
                                      /\ j # i => tracks'[j].closed = tracks[j].closed
          /\ UNCHANGED enc
    BY <1>8, CloseNextShape
  <2>2. ~enc[i].closed
    BY <1>0, <2>1 DEF Closes, Ending
  <2> DEFINE x == tracks[i].slot
  <2>3. eng' = SlotOff(x)
    BY <2>1
  <2> HIDE DEF x
  <2>4. \A s \in DOMAIN eng : eng'[s].ring = eng[s].ring
    BY <2>3, SlotOffShape
  <2> QED
    BY <2>1, <2>2, <2>4 DEF FilesComplete, IInv, SlotsOK
<1>9. CASE Loses \/ Looks \/ TakesSignal \/ TakesSleep \/ Ends \/ Sleep \/ UNCHANGED vars
  <2>1. UNCHANGED <<tracks, enc, eng>>
    <3>1. CASE Loses \/ Looks \/ TakesSignal
      BY <3>1 DEF Loses, Looks, TakesSignal, workerVars
    <3>2. CASE TakesSleep \/ Ends \/ Sleep \/ UNCHANGED vars
      BY <3>2 DEF TakesSleep, Ends, Sleep, vars, sessionVars, workerVars
    <3> QED
      BY <1>9, <3>1, <3>2
  <2> QED
    BY <1>1, <2>1
<1>10. CASE TearsDown
  BY <1>10 DEF TearsDown, FilesComplete
<1>11. CASE Advance
  <2>1. UNCHANGED <<tracks, enc>>
    BY <1>11 DEF Advance, sessionVars
  <2> QED
    BY <1>1, <1>11, <2>1, AdvanceShape
<1> QED
  BY <1>2, <1>3, <1>4, <1>5, <1>6, <1>7, <1>8, <1>9, <1>10, <1>11, StepKinds

LEMMA NextSuspendedWillClose ==
    ASSUME IInv, Calls, Paired, Ending, Closes, SuspendedWillClose, [Next]_vars
    PROVE  SuspendedWillClose'
<1>0. inbox \in Seq(Command) /\ outbox \in Seq(Message)
  BY InboxIs
<1> DEFINE Expected(i) == \/ \E m \in ToSet(outbox) : m.kind = "slept"
                          \/ i \in closing.todo
                          \/ \E m \in ToSet(inbox) : m.kind = "close" /\ m.track = i
<1>1. CASE phase' # "recording"
  BY <1>1 DEF SuspendedWillClose
<1>2. ASSUME phase = "recording", phase' = "recording",
             \A i \in DOMAIN enc' : enc'[i].suspended /\ ~enc'[i].closed =>
                 /\ i \in DOMAIN enc /\ enc[i].suspended /\ ~enc[i].closed
                 /\ Expected(i) => Expected(i)'
      PROVE  SuspendedWillClose'
  BY <1>2 DEF SuspendedWillClose
<1>3. CASE WorkerTick
  <2>1. /\ UNCHANGED <<phase, inbox, closing>> /\ DOMAIN enc' = DOMAIN enc
        /\ ToSet(outbox) \subseteq ToSet(outbox')
    BY <1>3, WorkerKeeps, TickShape DEF WorkerTick, Tick, sessionVars
  <2> SUFFICES ASSUME phase = "recording", NEW i \in DOMAIN enc,
                      enc'[i].suspended, ~enc'[i].closed
               PROVE  Expected(i)'
    BY <2>1 DEF SuspendedWillClose
  <2>2. ~enc[i].closed /\ (enc[i].suspended \/ \E m \in ToSet(outbox') : m.kind = "slept")
    BY <1>3, TickCuts
  <2>3. enc[i].suspended => Expected(i)
    BY <2>2 DEF SuspendedWillClose
  <2> QED
    BY <2>1, <2>2, <2>3
<1>4. CASE ClosesFile
  <2> DEFINE h == Head(inbox)
  <2>1. /\ UNCHANGED <<phase, closing>> /\ DOMAIN enc' = DOMAIN enc
        /\ ToSet(outbox) \subseteq ToSet(outbox')
        /\ inbox # <<>> /\ inbox' = Tail(inbox)
    BY <1>4, WorkerKeeps, CloseShape DEF sessionVars
  <2>2. /\ h.track \in DOMAIN enc => enc'[h.track].closed
        /\ \A j \in DOMAIN enc : j # h.track => enc'[j] = enc[j]
    BY <1>4, CloseCloses
  <2>3. ToSet(inbox) = ToSet(inbox') \cup {h}
    BY <1>0, <2>1, TailSet
  <2> HIDE DEF h
  <2> QED
    BY <2>1, <2>2, <2>3 DEF SuspendedWillClose
<1>5. CASE FinishesAll
  <2>1. phase \notin {"recording"} /\ UNCHANGED phase
    <3>1. inbox # <<>> /\ Head(inbox).kind = "finalize" /\ UNCHANGED phase
      BY <1>5, FinishShape DEF sessionVars
    <3>2. Head(inbox) \in ToSet(inbox)
      BY <1>0, <3>1, TailSet
    <3> QED
      BY <3>1, <3>2 DEF Ending
  <2> QED
    BY <1>1, <2>1
<1>6. CASE AddEncoder \/ AddEncoderFails
  <2> DEFINE h == Head(inbox)
             m == opening[1].meta
  <2>1. /\ UNCHANGED <<phase, closing, outbox>> /\ phase = "recording"
        /\ inbox # <<>> /\ h.kind = "add" /\ inbox' = Tail(inbox)
    BY <1>6 DEF AddEncoder, AddEncoderFails, Calls
  <2>2. ToSet(inbox) = ToSet(inbox') \cup {h}
    BY <1>0, <2>1, TailSet
  <2>3. \A i \in DOMAIN enc' : enc'[i].suspended => i \in DOMAIN enc /\ enc'[i] = enc[i]
    <3>1. CASE AddEncoderFails
      BY <3>1 DEF AddEncoderFails
    <3>2. CASE AddEncoder
      <4>1. /\ m \in TrackMeta /\ DOMAIN enc' = DOMAIN enc \cup {Len(enc) + 1}
            /\ enc'[Len(enc) + 1] = EncoderOf(m)
            /\ \A i \in DOMAIN enc : enc'[i] = enc[i]
        BY <3>2, AnswerShape
      <4>2. ~EncoderOf(m).suspended
        BY <4>1, EncoderShape
      <4> HIDE DEF m
      <4> QED
        BY <4>1, <4>2
    <3> QED
      BY <1>6, <3>1, <3>2
  <2> HIDE DEF h, m
  <2>4. ASSUME NEW i PROVE Expected(i) => Expected(i)'
    BY <2>1, <2>2
  <2> QED
    BY <1>2, <2>1, <2>3, <2>4
<1>7. ASSUME NEW dev \in Devices, MakeTrack(dev) PROVE SuspendedWillClose'
  BY <1>1, <1>7 DEF MakeTrack
<1>8. CASE Start
  <2>1. \A i \in DOMAIN tracks : ~EncoderOf(tracks[i]).suspended
    BY TrackIs, EncoderShape
  <2>2. enc' = [i \in DOMAIN tracks |-> EncoderOf(tracks[i])]
    BY <1>8 DEF Start
  <2> QED
    BY <2>1, <2>2 DEF SuspendedWillClose
<1>9. ASSUME NEW dev \in Devices, NEW k \in 0..Len(pending), Opens(dev, k)
      PROVE  SuspendedWillClose'
  <2> DEFINE c == [kind |-> "add", track |-> 0, detached |-> FALSE]
  <2>1. inbox' = Append(inbox, c) /\ c \in Command
    BY <1>9, OpensShape
  <2>2. UNCHANGED <<phase, closing, enc, outbox>>
    BY <1>9 DEF Opens, BeginOpen
  <2> HIDE DEF c
  <2>3. ToSet(inbox') = ToSet(inbox) \cup {c}
    BY <1>0, <2>1, AppendSet
  <2> QED
    BY <2>2, <2>3 DEF SuspendedWillClose
<1>10. CASE Loses
  BY <1>10 DEF Loses, workerVars, SuspendedWillClose
<1>11. CASE CloseNext
  <2>1. PICK i \in closing.todo :
          /\ closing'.todo = closing.todo \ {i}
          /\ \E d \in BOOLEAN :
               LET c == [kind |-> "close", track |-> i, detached |-> d]
               IN  inbox' = Append(inbox, c) /\ c \in Command
          /\ UNCHANGED <<phase, enc, outbox>>
    BY <1>11, CloseNextShape
  <2>2. PICK c \in Command : inbox' = Append(inbox, c) /\ c.kind = "close" /\ c.track = i
    BY <2>1
  <2>3. ToSet(inbox') = ToSet(inbox) \cup {c}
    BY <1>0, <2>2, AppendSet
  <2> QED
    BY <2>1, <2>2, <2>3 DEF SuspendedWillClose
<1>12. CASE TakesSignal
  <2>1. /\ outbox # <<>> /\ outbox' = Tail(outbox) /\ UNCHANGED <<phase, closing, enc, inbox>>
        /\ phase = "recording" => Head(outbox).kind # "slept"
    BY <1>12 DEF TakesSignal
  <2>2. ToSet(outbox) = ToSet(outbox') \cup {Head(outbox)}
    BY <1>0, <2>1, TailSet
  <2> QED
    BY <2>1, <2>2 DEF SuspendedWillClose
<1>13. CASE TakesSleep
  <2>1. closing'.todo = OpenTracks /\ phase = "recording" /\ UNCHANGED <<phase, enc, inbox>>
    BY <1>13 DEF TakesSleep
  <2>2. \A i \in DOMAIN enc : i \in OpenTracks \/ tracks[i].closed
    BY <2>1 DEF OpenTracks, Paired
  <2> QED
    BY <2>1, <2>2 DEF SuspendedWillClose, Closes
<1>14. CASE Ends \/ TearsDown
  BY <1>1, <1>14 DEF Ends, TearsDown
<1>15. CASE Looks \/ Advance \/ Sleep \/ UNCHANGED vars
  BY <1>15 DEF Looks, Advance, Sleep, vars, sessionVars, workerVars, SuspendedWillClose
<1> QED
  BY <1>3, <1>4, <1>5, <1>6, <1>7, <1>8, <1>9, <1>10, <1>11, <1>12, <1>13, <1>14, <1>15, StepKinds

\* Closing, cutting and finishing, on top of Ending.
Closing == IInv /\ Calls /\ Paired /\ Ending /\ Closes /\ FilesComplete /\ SuspendedWillClose

LEMMA ClosingHolds == Spec => []Closing
<1>1. Init => Closing
  BY InitIInv, InitCalls, InitPaired, InitEnding, InitCloses
     DEF Closing, Init, FilesComplete, SuspendedWillClose
<1>2. Closing /\ [Next]_vars => Closing'
  BY NextIInv, NextCalls, NextPaired, NextEnding, NextCloses, NextFilesComplete,
     NextSuspendedWillClose DEF Closing
<1> QED
  BY <1>1, <1>2, PTL DEF Spec

\* What a device captured before its track was closed, by hand, as lost or for a sleep, is in the
\* file when the worker has closed it: capture stops before the close is posted, and closeEncoder
\* and finalize drain the ring first.
THEOREM FilesCompleteHolds == Spec => []FilesComplete
BY ClosingHolds, PTL DEF Closing

\* A track the worker cut at a sleep is never left recording into nothing: the sleep is still to be
\* handled, or the loop of onSlept still has the track, or its close is posted.
THEOREM SuspendedWillCloseHolds == Spec => []SuspendedWillClose
BY ClosingHolds, PTL DEF Closing

----------------------------------------------------------------------------
(* The length of a file *)

\* How much of a track is in its file, r frames of it being in the ring: never more than the
\* recording's time, and never more than the cap once a sleep has cut it.
Fits(t, r, now) ==
    /\ t.suspended => 0 <= t.cap /\ t.cap <= now /\ t.opened + t.written <= t.cap
    /\ ~t.suspended => t.cap = -1
    /\ ~t.suspended /\ ~t.closed => t.opened + t.written + r <= now

LEMMA FitsLater ==
    ASSUME NEW t \in EncTrack, NEW r \in Nat, NEW q \in Nat, NEW now \in Nat, NEW then \in Nat,
           Fits(t, r, now), q <= r \/ t.closed, now <= then
    PROVE  Fits(t, q, then)
BY DEF Fits, EncTrack

LEMMA FitsAlike ==
    ASSUME NEW t \in EncTrack, NEW b \in BOOLEAN, NEW r \in Nat, NEW now \in Nat, Fits(t, r, now)
    PROVE  Fits([t EXCEPT !.stalled = b], r, now)
<1>1. LET u == [t EXCEPT !.stalled = b]
      IN  /\ u.opened = t.opened /\ u.written = t.written /\ u.cap = t.cap
          /\ u.suspended = t.suspended /\ u.closed = t.closed
  BY DEF EncTrack
<1> QED
  BY <1>1 DEF Fits

\* Silence brings a file up to the clock exactly, or nothing is inserted.
LEMMA SilenceBound ==
    ASSUME NEW since \in Int, NEW idle \in Int, NEW d \in Nat
    PROVE  LET x == SilenceToInsert(since, idle, d)
           IN  x \in Nat /\ (x = 0 \/ d + x = since)
<1>1. ExpectedFrames(GapTolerance) \in Nat
  BY TimingAssumption DEF ExpectedFrames
<1>2. \A e \in Nat : LET y == FramesOwed(e, d, ExpectedFrames(GapTolerance))
                     IN  y \in Nat /\ (y = 0 \/ d + y = e)
  BY <1>1 DEF FramesOwed
<1>3. ExpectedFrames(since) \in Nat /\ (ExpectedFrames(since) = 0 \/ ExpectedFrames(since) = since)
  BY DEF ExpectedFrames
<1> QED
  BY <1>2, <1>3 DEF SilenceToInsert

LEMMA FilledFits ==
    ASSUME NEW t \in EncTrack, NEW now \in Nat, NEW r \in Nat, Fits(t, r, now), ~t.closed
    PROVE  Fits(Filled(t, now), 0, now)
<1> DEFINE upTo == IF t.cap >= 0 /\ t.cap < now THEN t.cap ELSE now
           x == SilenceToInsert(upTo - t.opened, upTo - t.last, t.written)
<1>1. /\ t.cap \in Int /\ t.opened \in Nat /\ t.last \in Nat /\ t.written \in Nat
      /\ t.loopback \in BOOLEAN /\ t.suspended \in BOOLEAN
  BY DEF EncTrack
<1>2. /\ upTo \in Int
      /\ t.suspended => upTo = t.cap
      /\ ~t.suspended => upTo = now
  BY <1>1 DEF Fits
<1>3. Filled(t, now) = IF t.loopback THEN [t EXCEPT !.written = @ + x] ELSE t
  BY DEF Filled
<1> HIDE DEF upTo
<1>4. x \in Nat /\ (x = 0 \/ t.written + x = upTo - t.opened)
  <2>1. upTo - t.opened \in Int /\ upTo - t.last \in Int
    BY <1>1, <1>2
  <2> QED
    BY <1>1, <2>1, SilenceBound
<1> HIDE DEF x
<1>5. CASE t.loopback
  <2> DEFINE u == [t EXCEPT !.written = @ + x]
  <2>1. /\ u.opened = t.opened /\ u.written = t.written + x /\ u.cap = t.cap
        /\ u.suspended = t.suspended /\ u.closed = t.closed
    BY DEF EncTrack
  <2>2. Filled(t, now) = u
    BY <1>3, <1>5
  <2> HIDE DEF u
  <2>3. Fits(u, 0, now)
    <3>1. CASE t.suspended
      BY <1>1, <1>2, <1>4, <2>1, <3>1 DEF Fits
    <3>2. CASE ~t.suspended
      BY <1>1, <1>2, <1>4, <2>1, <3>2 DEF Fits
    <3> QED
      BY <3>1, <3>2
  <2> QED
    BY <2>2, <2>3
<1>6. CASE ~t.loopback
  BY <1>3, <1>6, FitsLater
<1> QED
  BY <1>5, <1>6

LEMMA DrainedFits ==
    ASSUME NEW t \in EncTrack, NEW now \in Nat, t.slot \in DOMAIN eng, eng \in Seq(EngSlot),
           Fits(t, eng[t.slot].ring, now)
    PROVE  Fits(Drained(t, now), 0, now)
<1>1. eng[t.slot].ring \in Nat
  <2>1. eng[t.slot] \in EngSlot
    BY ElementOfSeq, PosIsNat
  <2> QED
    BY <2>1, SessionAssumption DEF EngSlot
<1> DEFINE r == eng[t.slot].ring
<1>2. CASE t.closed \/ t.suspended
  <2>1. Drained(t, now) = t
    BY <1>2 DEF Drained, GotData
  <2> HIDE DEF r
  <2> QED
    BY <1>1, <2>1, FitsLater DEF r
<1>3. CASE ~(t.closed \/ t.suspended) /\ GotData(t)
  <2> DEFINE w == IF t.loopback THEN t.written + r ELSE 0
             u == [t EXCEPT !.last = now, !.stalled = FALSE, !.written = w]
  <2>1. Drained(t, now) = u
    BY <1>3 DEF Drained
  <2> HIDE DEF r, w
  <2>2. /\ u.opened = t.opened /\ u.written = w /\ u.cap = t.cap
        /\ u.suspended = t.suspended /\ u.closed = t.closed
    BY DEF EncTrack
  <2>3. /\ t.cap \in Int /\ t.opened \in Nat /\ t.written \in Nat /\ r \in Nat
        /\ t.loopback \in BOOLEAN
    BY <1>1 DEF EncTrack, r
  <2>4. w \in Nat /\ w <= t.written + r
    BY <2>3 DEF w
  <2>5. t.cap = -1 /\ t.opened + t.written + r <= now
    BY <1>3 DEF Fits, r
  <2> HIDE DEF u
  <2> QED
    BY <1>3, <2>1, <2>2, <2>3, <2>4, <2>5 DEF Fits
<1>4. CASE ~(t.closed \/ t.suspended) /\ ~GotData(t)
  <2>1. Drained(t, now) = Filled(t, now)
    BY <1>4 DEF Drained
  <2> HIDE DEF r
  <2> QED
    BY <1>1, <1>4, <2>1, FilledFits DEF r
<1> QED
  BY <1>2, <1>3, <1>4

LEMMA FinishedFits ==
    ASSUME NEW t \in EncTrack, NEW now \in Nat, NEW r \in Nat, Fits(t, r, now)
    PROVE  Fits(Finished(t, now), 0, now)
<1>1. CASE t.closed
  BY <1>1, FitsLater DEF Finished
<1>2. CASE ~t.closed
  <2> DEFINE f == Filled(t, now)
             u == [f EXCEPT !.closed = TRUE]
  <2>1. f \in EncTrack /\ Fits(f, 0, now)
    BY <1>2, FilledIsTrack, FilledFits
  <2>2. Finished(t, now) = u
    BY <1>2 DEF Finished
  <2> HIDE DEF f
  <2>3. /\ u.opened = f.opened /\ u.written = f.written /\ u.cap = f.cap
        /\ u.suspended = f.suspended /\ u.closed
    BY <2>1 DEF EncTrack
  <2> HIDE DEF u
  <2> QED
    BY <2>1, <2>2, <2>3 DEF Fits
<1> QED
  BY <1>1, <1>2

LEMMA CutFits ==
    ASSUME NEW t \in EncTrack, NEW r \in Nat, NEW from \in Nat, NEW jump \in Nat,
           Fits(t, r, from)
    PROVE  Fits(CutBySleep(t, from), r, from + jump)
<1>1. CASE t.closed
  BY <1>1, FitsLater DEF CutBySleep
<1>2. CASE ~t.closed
  <2> DEFINE u == [t EXCEPT !.suspended = TRUE, !.cap = from]
  <2>1. CutBySleep(t, from) = u
    BY <1>2 DEF CutBySleep
  <2>2. u.opened = t.opened /\ u.written = t.written /\ u.cap = from /\ u.suspended
    BY DEF EncTrack
  <2>3. t.opened \in Nat /\ t.written \in Nat /\ t.cap \in Int /\ t.suspended \in BOOLEAN
    BY DEF EncTrack
  <2> HIDE DEF u
  <2>4. t.opened + t.written <= from
    BY <1>2, <2>3 DEF Fits
  <2> QED
    BY <2>1, <2>2, <2>3, <2>4 DEF Fits
<1> QED
  BY <1>1, <1>2

LEMMA FitsOneMore ==
    ASSUME NEW t \in EncTrack, NEW r \in Nat, NEW q \in Nat, NEW now \in Nat,
           Fits(t, r, now), q <= r + 1
    PROVE  Fits(t, q, now + 1)
BY DEF Fits, EncTrack

LEMMA RingIsNat == ASSUME IInv, NEW s \in DOMAIN eng PROVE eng[s] \in EngSlot /\ eng[s].ring \in Nat
<1>1. eng[s] \in EngSlot
  BY ElementOfSeq, PosIsNat DEF IInv, EngOK
<1> QED
  BY <1>1, SessionAssumption DEF EngSlot

\* No track holds more audio than the recording has lasted, in its file and its ring together.
Frames ==
    /\ phase = "starting" =>
           \A i \in DOMAIN tracks : tracks[i].offset = 0 /\ eng[tracks[i].slot].ring = 0
    /\ \A i \in DOMAIN opening :
           opening[i].meta.offset + eng[opening[i].meta.slot].ring <= Elapsed
    /\ \A i \in DOMAIN enc : Fits(enc[i], eng[enc[i].slot].ring, Elapsed)

LEMMA InitFrames == Init => Frames
BY DEF Init, Frames

\* The rings may lose frames while the clock stands or goes on; the tracks' files are the same.
LEMMA SameFrames ==
    ASSUME IInv, IInv', Frames, UNCHANGED <<phase, tracks, opening, enc>>,
           Elapsed <= Elapsed', \A s \in DOMAIN eng : s \in DOMAIN eng' /\ eng'[s].ring = eng[s].ring
    PROVE  Frames'
<1>1. Elapsed \in Nat /\ Elapsed' \in Nat
  BY ElapsedIsNat DEF IInv, ClockOK, Elapsed
<1>2. ASSUME NEW i \in DOMAIN enc PROVE Fits(enc[i], eng'[enc[i].slot].ring, Elapsed')
  <2> DEFINE r == eng[enc[i].slot].ring
  <2>1. enc[i].slot \in DOMAIN eng /\ r \in Nat /\ eng'[enc[i].slot].ring = r
    BY RingIsNat DEF IInv, SlotsOK
  <2>2. Fits(enc[i], r, Elapsed) /\ enc[i] \in EncTrack
    BY EncIs DEF Frames
  <2> HIDE DEF r
  <2> QED
    BY <1>1, <2>1, <2>2, FitsLater
<1>3. ASSUME NEW i \in DOMAIN opening
      PROVE  opening[i].meta.offset + eng'[opening[i].meta.slot].ring <= Elapsed'
  <2> DEFINE r == eng[opening[i].meta.slot].ring
             o == opening[i].meta.offset
  <2>1. opening[i].meta.slot \in DOMAIN eng /\ r \in Nat /\ eng'[opening[i].meta.slot].ring = r
    BY RingIsNat DEF IInv, SlotsOK
  <2>2. o + r <= Elapsed /\ o \in Nat
    <3>1. opening[i] \in Opening
      BY ElementOfSeq, PosIsNat DEF IInv, OpeningOK
    <3> QED
      BY <3>1 DEF Frames, Opening, TrackMeta
  <2> HIDE DEF r, o
  <2>3. o + r <= Elapsed'
    BY <1>1, <2>1, <2>2
  <2> QED
    BY <2>1, <2>3 DEF o
<1> QED
  BY <1>2, <1>3 DEF Frames, IInv, SlotsOK

\* A worker's step gives every file its due and no more.
LEMMA WorkerFits ==
    ASSUME IInv, IInv', Frames, WorkerTick \/ ClosesFile \/ FinishesAll
    PROVE  /\ Elapsed <= Elapsed'
           /\ \A i \in DOMAIN enc : Fits(enc'[i], eng'[enc'[i].slot].ring, Elapsed')
<1>0. /\ Elapsed \in Nat /\ Elapsed' \in Nat /\ eng \in Seq(EngSlot)
      /\ \A i \in DOMAIN enc : /\ enc[i] \in EncTrack /\ enc[i].slot \in DOMAIN eng
                               /\ eng[enc[i].slot].ring \in Nat
                               /\ Fits(enc[i], eng[enc[i].slot].ring, Elapsed)
  BY ElapsedIsNat, EncIs, RingIsNat DEF IInv, ClockOK, Elapsed, EngOK, SlotsOK, Frames
<1>1. /\ DOMAIN enc' = DOMAIN enc /\ DOMAIN eng' = DOMAIN eng
      /\ \A i \in DOMAIN enc : enc'[i].slot = enc[i].slot
      /\ \A s \in DOMAIN eng : eng'[s].ring \in {0, eng[s].ring}
  BY WorkerKeeps, WorkerEmpties
<1>2. \A i \in DOMAIN enc : enc'[i] \in EncTrack
  <2>1. enc' \in Seq(EncTrack)
    BY DEF IInv, EncOK
  <2> QED
    BY <1>1, <2>1, ElementOfSeq, PosIsNat
\* Whoever was drained has an empty ring, unless its file is closed.
<1>3. ASSUME NEW i \in DOMAIN enc, Fits(enc'[i], 0, Elapsed'),
             eng'[enc[i].slot].ring = 0 \/ enc'[i].closed
      PROVE  Fits(enc'[i], eng'[enc'[i].slot].ring, Elapsed')
  <2> DEFINE q == eng'[enc[i].slot].ring
  <2>1. q \in Nat /\ (q <= 0 \/ enc'[i].closed)
    BY <1>0, <1>1, <1>3
  <2> HIDE DEF q
  <2>2. Fits(enc'[i], q, Elapsed')
    BY <1>0, <1>2, <1>3, <2>1, FitsLater
  <2> QED
    BY <1>1, <2>2 DEF q
<1>4. ASSUME NEW i \in DOMAIN enc, enc'[i] = enc[i], Elapsed' = Elapsed
      PROVE  Fits(enc'[i], eng'[enc'[i].slot].ring, Elapsed')
  <2> DEFINE q == eng'[enc[i].slot].ring
             r == eng[enc[i].slot].ring
  <2>1. q \in Nat /\ r \in Nat /\ q <= r /\ Fits(enc[i], r, Elapsed) /\ enc[i] \in EncTrack
    BY <1>0, <1>1
  <2> HIDE DEF q, r
  <2>2. Fits(enc[i], q, Elapsed)
    BY <1>0, <2>1, FitsLater
  <2> QED
    BY <1>4, <2>2 DEF q
<1>5. CASE WorkerTick
  <2>1. PICK jump \in Nat :
          /\ Elapsed' = Elapsed + jump
          /\ DOMAIN enc' = DOMAIN enc /\ eng' = Emptied(DOMAIN enc)
          /\ \A i \in DOMAIN enc :
               /\ enc[i] \in EncTrack /\ CutAt(jump, i) \in EncTrack
               /\ LET d == Drained(CutAt(jump, i), Elapsed + jump)
                  IN  d \in EncTrack /\ enc'[i] \in {d, [d EXCEPT !.stalled = TRUE]}
    BY <1>5, TickShape
  <2>2. Elapsed + jump \in Nat
    BY <1>0
  <2>3. ASSUME NEW i \in DOMAIN enc
        PROVE  Fits(enc'[i], eng'[enc'[i].slot].ring, Elapsed')
    <3> DEFINE r == eng[enc[i].slot].ring
               c == CutAt(jump, i)
               d == Drained(c, Elapsed + jump)
    <3>1. /\ enc[i] \in EncTrack /\ c \in EncTrack /\ d \in EncTrack
          /\ enc'[i] \in {d, [d EXCEPT !.stalled = TRUE]}
      BY <2>1
    <3>2. r \in Nat /\ Fits(enc[i], r, Elapsed) /\ enc[i].slot \in DOMAIN eng
      BY <1>0
    <3> HIDE DEF r
    <3>3. Fits(c, r, Elapsed + jump) /\ c.slot = enc[i].slot
      <4>1. CASE jump > 0
        BY <1>0, <3>1, <3>2, <4>1, CutFits, CutKeeps DEF CutAt
      <4>2. CASE jump = 0
        BY <1>0, <3>1, <3>2, <4>2 DEF CutAt
      <4> QED
        BY <4>1, <4>2
    <3> HIDE DEF c
    <3>4. Fits(d, 0, Elapsed + jump)
      <4>1. Fits(c, eng[c.slot].ring, Elapsed + jump) /\ c.slot \in DOMAIN eng
        BY <3>2, <3>3 DEF r
      <4> QED
        BY <1>0, <2>2, <3>1, <4>1, DrainedFits
    <3> HIDE DEF d
    <3>5. Fits(enc'[i], 0, Elapsed')
      <4> DEFINE now == Elapsed + jump
      <4>1. now \in Nat /\ Fits(d, 0, now) /\ Elapsed' = now
        BY <2>1, <2>2, <3>4
      <4> HIDE DEF now
      <4>2. Fits([d EXCEPT !.stalled = TRUE], 0, now)
        BY <3>1, <4>1, FitsAlike
      <4> QED
        BY <3>1, <4>1, <4>2
    <3>6. eng'[enc[i].slot].ring = 0 \/ enc'[i].closed
      <4>1. enc'[i].closed = enc[i].closed
        BY <1>5, TickCuts
      <4>2. ~enc[i].closed => Emptied(DOMAIN enc)[enc[i].slot].ring = 0
        BY EmptiedShape
      <4> QED
        BY <2>1, <4>1, <4>2
    <3> QED
      BY <1>3, <3>5, <3>6
  <2> QED
    BY <1>0, <2>1, <2>3
<1>6. ASSUME NEW i \in DOMAIN enc, Drained(enc[i], Elapsed) \in EncTrack
      PROVE  Fits(Finished(Drained(enc[i], Elapsed), Elapsed), 0, Elapsed)
  <2>1. Fits(Drained(enc[i], Elapsed), 0, Elapsed)
    BY <1>0, DrainedFits
  <2> QED
    BY <1>0, <1>6, <2>1, FinishedFits
<1>7. CASE ClosesFile
  <2> DEFINE i == Head(inbox).track
             f == Finished(Drained(enc[i], Elapsed), Elapsed)
  <2>1. /\ i \notin DOMAIN enc => UNCHANGED enc
        /\ i \in DOMAIN enc =>
             /\ Head(inbox).detached \in BOOLEAN
             /\ Drained(enc[i], Elapsed) \in EncTrack /\ f \in EncTrack
             /\ enc' = [enc EXCEPT ![i] = [f EXCEPT !.stalled = Head(inbox).detached]]
        /\ UNCHANGED clock
    BY <1>7, CloseShape
  <2>2. Elapsed' = Elapsed
    BY <2>1 DEF Elapsed
  <2>3. \A j \in DOMAIN enc : j # i => enc'[j] = enc[j]
    BY <2>1
  <2>4. ASSUME i \in DOMAIN enc PROVE Fits(enc'[i], eng'[enc'[i].slot].ring, Elapsed')
    <3>1. Fits(f, 0, Elapsed)
      BY <1>6, <2>1, <2>4
    <3>2. f \in EncTrack /\ enc'[i] = [f EXCEPT !.stalled = Head(inbox).detached]
      BY <2>1, <2>4
    <3> HIDE DEF f
    <3>3. Fits(enc'[i], 0, Elapsed')
      <4> DEFINE b == Head(inbox).detached
      <4>1. b \in BOOLEAN /\ enc'[i] = [f EXCEPT !.stalled = b]
        BY <2>1, <2>4, <3>2
      <4> HIDE DEF b, i
      <4>2. Fits([f EXCEPT !.stalled = b], 0, Elapsed)
        BY <1>0, <3>1, <3>2, <4>1, FitsAlike
      <4> QED
        BY <2>2, <4>1, <4>2
    <3>4. enc'[i].closed
      BY <1>7, <2>4, CloseCloses
    <3> QED
      BY <1>3, <2>4, <3>3, <3>4
  <2> HIDE DEF i, f
  <2> QED
    BY <1>0, <1>4, <2>2, <2>3, <2>4
<1>8. CASE FinishesAll
  <2>1. /\ finalized => UNCHANGED enc
        /\ ~finalized => \A i \in DOMAIN enc :
                           /\ Drained(enc[i], Elapsed) \in EncTrack
                           /\ enc'[i] = Finished(Drained(enc[i], Elapsed), Elapsed)
        /\ UNCHANGED clock
    BY <1>8, FinishShape
  <2>2. Elapsed' = Elapsed
    BY <2>1 DEF Elapsed
  <2>3. CASE finalized
    BY <1>0, <1>4, <2>1, <2>2, <2>3
  <2>4. CASE ~finalized
    <3> SUFFICES ASSUME NEW i \in DOMAIN enc
                 PROVE  Fits(enc'[i], eng'[enc'[i].slot].ring, Elapsed')
      BY <1>0, <2>2
    <3>1. Fits(enc'[i], 0, Elapsed') /\ enc'[i].closed
      BY <1>0, <1>6, <2>1, <2>2, <2>4, FinishedKeeps
    <3> QED
      BY <1>3, <3>1
  <2> QED
    BY <2>3, <2>4
<1> QED
  BY <1>5, <1>7, <1>8

LEMMA NextFrames ==
    ASSUME IInv, IInv', Calls, Paired, Frames, [Next]_vars
    PROVE  Frames'
<1>0. Elapsed \in Nat /\ Elapsed' \in Nat /\ (UNCHANGED clock => Elapsed' = Elapsed)
  BY ElapsedIsNat DEF IInv, ClockOK, Elapsed
<1>1. CASE WorkerTick \/ ClosesFile \/ FinishesAll
  <2>1. /\ DOMAIN enc' = DOMAIN enc /\ UNCHANGED <<phase, opening>>
        /\ phase # "starting"
    <3>1. WorkerTick => Alive
      BY DEF WorkerTick
    <3>2. ClosesFile \/ FinishesAll => inbox # <<>>
      BY DEF ClosesFile, FinishesAll, CloseEncoder, Finalize
    <3> QED
      BY <1>1, <3>1, <3>2, WorkerKeeps DEF Alive, Paired, sessionVars
  <2>2. \A i \in DOMAIN enc : Fits(enc'[i], eng'[enc'[i].slot].ring, Elapsed')
    BY <1>1, WorkerFits
  <2>3. ASSUME NEW i \in DOMAIN opening
        PROVE  opening[i].meta.offset + eng'[opening[i].meta.slot].ring <= Elapsed'
    <3> DEFINE r == eng[opening[i].meta.slot].ring
               q == eng'[opening[i].meta.slot].ring
               o == opening[i].meta.offset
    <3>1. r \in Nat /\ q \in {0, r}
      <4>1. opening[i].meta.slot \in DOMAIN eng
        BY DEF IInv, SlotsOK
      <4> QED
        BY <1>1, <4>1, WorkerEmpties, RingIsNat
    <3>2. o + r <= Elapsed /\ o \in Nat
      <4>1. opening[i] \in Opening
        BY ElementOfSeq, PosIsNat DEF IInv, OpeningOK
      <4> QED
        BY <4>1 DEF Frames, Opening, TrackMeta
    <3>3. Elapsed <= Elapsed'
      BY <1>1, WorkerFits
    <3> HIDE DEF r, q, o
    <3>4. o + q <= Elapsed'
      BY <1>0, <3>1, <3>2, <3>3
    <3> QED
      BY <3>4 DEF q, o
  <2> QED
    BY <2>1, <2>2, <2>3 DEF Frames
<1>2. CASE AddEncoder
  <2> DEFINE m == opening[1].meta
             e == Len(enc) + 1
  <2>1. /\ m \in TrackMeta /\ DOMAIN opening = {1}
        /\ opening' = <<>> /\ phase = "recording"
        /\ DOMAIN enc' = DOMAIN enc \cup {e} /\ enc'[e] = EncoderOf(m)
        /\ \A i \in DOMAIN enc : enc'[i] = enc[i]
        /\ UNCHANGED <<phase, eng, clock>>
    BY <1>2, AnswerShape
  <2> DEFINE r == eng[m.slot].ring
  <2>2. r \in Nat /\ m.offset + r <= Elapsed
    <3>1. m.slot \in DOMAIN eng
      BY <2>1 DEF IInv, SlotsOK
    <3> QED
      BY <2>1, <3>1, RingIsNat DEF Frames
  <2>3. Fits(EncoderOf(m), eng[EncoderOf(m).slot].ring, Elapsed)
    <3>1. LET u == EncoderOf(m)
          IN  /\ u.slot = m.slot /\ u.opened = m.offset /\ u.written = 0
              /\ ~u.closed /\ ~u.suspended /\ u.cap = -1
      BY <2>1, EncoderShape
    <3>2. m.offset \in Nat
      BY <2>1 DEF TrackMeta
    <3> DEFINE u == EncoderOf(m)
    <3> HIDE DEF u, m
    <3>3. u.opened + u.written + eng[u.slot].ring <= Elapsed
      BY <2>2, <3>1, <3>2 DEF u
    <3> QED
      BY <3>1, <3>3 DEF Fits, u
  <2> HIDE DEF m, e
  <2>4. Elapsed' = Elapsed
    BY <1>0, <2>1
  <2> QED
    BY <2>1, <2>3, <2>4 DEF Frames
<1>3. CASE AddEncoderFails
  <2> DEFINE x == opening[1].meta.slot
  <2>1. /\ eng' = SlotOff(x) /\ UNCHANGED <<phase, enc, clock, tracks>> /\ opening' = <<>>
        /\ opening # <<>>
    BY <1>3 DEF AddEncoderFails
  <2> HIDE DEF x
  <2>2. \A s \in DOMAIN eng : eng'[s].ring = eng[s].ring
    BY <2>1, SlotOffShape
  <2>3. phase # "starting"
    BY <2>1 DEF Calls
  <2>4. Elapsed' = Elapsed
    BY <1>0, <2>1
  <2>5. \A i \in DOMAIN enc : enc[i].slot \in DOMAIN eng
    BY DEF IInv, SlotsOK
  <2> QED
    BY <2>1, <2>2, <2>3, <2>4, <2>5 DEF Frames
<1>4. ASSUME NEW dev \in Devices, MakeTrack(dev) PROVE Frames'
  <2> DEFINE n == Len(tracks) + 1
             x == Len(eng) + 1
  <2>1. /\ phase = "starting" /\ n \in Nat \ DOMAIN tracks
        /\ DOMAIN tracks' = DOMAIN tracks \cup {n}
        /\ \A i \in DOMAIN tracks : tracks'[i] = tracks[i]
        /\ tracks'[n].slot = x /\ tracks'[n].offset = 0 /\ eng'[x] = NewSlot
        /\ \A s \in DOMAIN eng : eng'[s] = eng[s]
        /\ UNCHANGED <<phase, opening, enc>>
    BY <1>4, MakeTrackShape
  <2>2. enc = <<>> /\ opening = <<>>
    BY <2>1 DEF Paired, Calls
  <2>3. NewSlot.ring = 0
    BY DEF NewSlot
  <2> HIDE DEF n, x
  <2>4. \A i \in DOMAIN tracks' : tracks'[i].offset = 0 /\ eng'[tracks'[i].slot].ring = 0
    BY <2>1, <2>3 DEF Frames, IInv, SlotsOK
  <2> QED
    BY <2>1, <2>2, <2>4 DEF Frames
<1>5. CASE Start
  <2>1. /\ phase = "starting" /\ phase' = "recording" /\ UNCHANGED <<tracks, opening, eng, clock>>
        /\ enc' = [i \in DOMAIN tracks |-> EncoderOf(tracks[i])]
    BY <1>5 DEF Start
  <2>2. Elapsed' = Elapsed
    BY <1>0, <2>1
  <2>3. ASSUME NEW i \in DOMAIN tracks
        PROVE  Fits(EncoderOf(tracks[i]), eng[EncoderOf(tracks[i]).slot].ring, Elapsed)
    <3>1. tracks[i].offset = 0 /\ eng[tracks[i].slot].ring = 0
      BY <2>1 DEF Frames
    <3> DEFINE u == EncoderOf(tracks[i])
    <3>2. /\ u.slot = tracks[i].slot /\ u.opened = 0 /\ u.written = 0
          /\ ~u.closed /\ ~u.suspended /\ u.cap = -1
      BY <3>1, TrackIs, EncoderShape
    <3> HIDE DEF u
    <3>3. Fits(u, eng[u.slot].ring, Elapsed)
      BY <1>0, <3>1, <3>2 DEF Fits
    <3> QED
      BY <3>3 DEF u
  <2> QED
    BY <2>1, <2>2, <2>3 DEF Frames
<1>6. ASSUME NEW dev \in Devices, NEW k \in 0..Len(pending), Opens(dev, k) PROVE Frames'
  <2> DEFINE m == opening'[1].meta
             x == Len(eng) + 1
  <2>1. /\ DOMAIN opening' = {1} /\ m.slot = x /\ m.offset = Elapsed /\ eng'[x] = NewSlot
        /\ \A s \in DOMAIN eng : eng'[s] = eng[s]
    BY <1>6, OpensShape
  <2>2. phase = "recording" /\ UNCHANGED <<phase, enc, clock>>
    BY <1>6 DEF Opens, BeginOpen
  <2>3. Elapsed' = Elapsed
    BY <1>0, <2>2
  <2> DEFINE o == m.offset
             q == eng'[m.slot].ring
  <2>4. o + q <= Elapsed'
    <3>1. o = Elapsed /\ q = 0
      BY <2>1 DEF NewSlot
    <3> HIDE DEF o, q
    <3> QED
      BY <1>0, <2>3, <3>1
  <2>5. \A i \in DOMAIN enc : enc[i].slot \in DOMAIN eng
    BY DEF IInv, SlotsOK
  <2>6. \A i \in DOMAIN opening' : opening'[i].meta.offset + eng'[opening'[i].meta.slot].ring <= Elapsed'
    BY <2>1, <2>4
  <2>7. \A i \in DOMAIN enc' : Fits(enc'[i], eng'[enc'[i].slot].ring, Elapsed')
    BY <2>1, <2>2, <2>3, <2>5 DEF Frames
  <2> QED
    BY <2>2, <2>6, <2>7 DEF Frames
<1>7. CASE CloseNext
  <2>1. PICK i \in DOMAIN tracks :
          /\ eng' = SlotOff(tracks[i].slot) /\ phase = "recording"
          /\ UNCHANGED <<phase, enc, opening, clock>> /\ opening = <<>>
    BY <1>7, CloseNextShape
  <2> DEFINE x == tracks[i].slot
  <2>2. eng' = SlotOff(x)
    BY <2>1
  <2> HIDE DEF x
  <2>3. \A s \in DOMAIN eng : eng'[s].ring = eng[s].ring
    BY <2>2, SlotOffShape
  <2>4. Elapsed' = Elapsed
    BY <1>0, <2>1
  <2>5. \A j \in DOMAIN enc : enc[j].slot \in DOMAIN eng
    BY DEF IInv, SlotsOK
  <2> QED
    BY <2>1, <2>3, <2>4, <2>5 DEF Frames
<1>8. CASE Loses \/ Looks \/ TakesSignal \/ TakesSleep \/ Sleep \/ UNCHANGED vars
  <2>1. UNCHANGED <<phase, tracks, opening, enc, eng>>
    <3>1. CASE Loses \/ Looks \/ TakesSignal
      BY <3>1 DEF Loses, Looks, TakesSignal, workerVars
    <3>2. CASE TakesSleep \/ Sleep \/ UNCHANGED vars
      BY <3>2 DEF TakesSleep, Sleep, vars, sessionVars, workerVars
    <3> QED
      BY <1>8, <3>1, <3>2
  <2>2. Elapsed <= Elapsed'
    <3>1. CASE Sleep
      <4>1. clock' = [clock EXCEPT !.lead = @ + SleepLen]
        BY <3>1 DEF Sleep
      <4>2. clock'.mono = clock.mono /\ clock'.slept = clock.slept
        BY <4>1 DEF IInv, ClockOK
      <4> QED
        BY <1>0, <4>2 DEF Elapsed
    <3>2. CASE ~Sleep
      <4>1. UNCHANGED clock
        BY <1>8, <3>2 DEF Loses, Looks, TakesSignal, TakesSleep, vars, workerVars
      <4> QED
        BY <1>0, <4>1
    <3> QED
      BY <3>1, <3>2
  <2> QED
    BY <2>1, <2>2, SameFrames
<1>9. CASE Ends
  <2>1. /\ phase' # "starting" /\ opening = <<>> /\ UNCHANGED <<tracks, opening, enc, eng, clock>>
    BY <1>9 DEF Ends
  <2>2. Elapsed' = Elapsed
    BY <1>0, <2>1
  <2> QED
    BY <2>1, <2>2 DEF Frames
<1>10. CASE TearsDown
  <2>1. phase' = "over" /\ enc' = <<>> /\ opening' = opening /\ opening = <<>>
    BY <1>10 DEF TearsDown, Calls
  <2> QED
    BY <2>1 DEF Frames
<1>11. CASE Advance
  <2>1. /\ phase # "starting" /\ UNCHANGED <<phase, opening, enc>>
        /\ clock' = [clock EXCEPT !.mono = @ + 1]
    BY <1>11 DEF Advance, Alive, sessionVars
  <2>2. Elapsed' = Elapsed + 1
    BY <2>1 DEF IInv, ClockOK, Elapsed
  <2>3. ASSUME NEW s \in DOMAIN eng
        PROVE  eng[s].ring \in Nat /\ eng'[s].ring \in Nat /\ eng'[s].ring <= eng[s].ring + 1
    <3>1. eng[s].ring \in Nat /\ eng'[s].ring \in {eng[s].ring, eng[s].ring + 1}
      BY <1>11, AdvanceShape, RingIsNat
    <3> QED
      BY <3>1
  <2>4. ASSUME NEW i \in DOMAIN enc PROVE Fits(enc[i], eng'[enc[i].slot].ring, Elapsed')
    <3> DEFINE r == eng[enc[i].slot].ring
               q == eng'[enc[i].slot].ring
    <3>1. r \in Nat /\ q \in Nat /\ q <= r + 1
      BY <2>3 DEF IInv, SlotsOK
    <3>2. Fits(enc[i], r, Elapsed) /\ enc[i] \in EncTrack
      BY EncIs DEF Frames
    <3> HIDE DEF r, q
    <3>3. Fits(enc[i], q, Elapsed + 1)
      BY <1>0, <3>1, <3>2, FitsOneMore
    <3> QED
      BY <2>2, <3>3 DEF q
  <2>5. ASSUME NEW i \in DOMAIN opening
        PROVE  opening[i].meta.offset + eng'[opening[i].meta.slot].ring <= Elapsed'
    <3> DEFINE r == eng[opening[i].meta.slot].ring
               q == eng'[opening[i].meta.slot].ring
               o == opening[i].meta.offset
    <3>1. r \in Nat /\ q \in Nat /\ q <= r + 1
      BY <2>3 DEF IInv, SlotsOK
    <3>2. o + r <= Elapsed /\ o \in Nat
      <4>1. opening[i] \in Opening
        BY ElementOfSeq, PosIsNat DEF IInv, OpeningOK
      <4> QED
        BY <4>1 DEF Frames, Opening, TrackMeta
    <3> HIDE DEF r, q, o
    <3>3. o + q <= Elapsed + 1
      BY <1>0, <3>1, <3>2
    <3> QED
      BY <2>2, <3>3 DEF q, o
  <2> QED
    BY <2>1, <2>4, <2>5 DEF Frames
<1> QED
  BY <1>1, <1>2, <1>3, <1>4, <1>5, <1>6, <1>7, <1>8, <1>9, <1>10, <1>11, StepKinds

\* The lengths of the files, on top of Paired.
LEMMA FramesHolds == Spec => [](IInv /\ Calls /\ Paired /\ Frames)
<1>1. Init => IInv /\ Calls /\ Paired /\ Frames
  BY InitIInv, InitCalls, InitPaired, InitFrames
<1>2. IInv /\ Calls /\ Paired /\ Frames /\ [Next]_vars => (IInv /\ Calls /\ Paired /\ Frames)'
  BY NextIInv, NextCalls, NextPaired, NextFrames
<1> QED
  BY <1>1, <1>2, PTL DEF Spec

\* The file of a track that a sleep cut never reaches past the cut, however often it is cut again
\* and whatever fillGap inserts until closeEncoder or finalize completes it.
THEOREM CutHoldsHolds == Spec => []CutHolds
<1>1. IInv /\ Frames => CutHolds
  <2> SUFFICES ASSUME IInv, Frames, NEW i \in DOMAIN enc, enc[i].suspended
               PROVE  enc[i].written <= enc[i].cap - enc[i].opened
    BY DEF CutHolds
  <2>1. enc[i] \in EncTrack /\ enc[i].opened + enc[i].written <= enc[i].cap
    BY EncIs DEF Frames, Fits
  <2>2. enc[i].opened \in Nat /\ enc[i].written \in Nat /\ enc[i].cap \in Int
    BY <2>1 DEF EncTrack
  <2> QED
    BY <2>1, <2>2
<1> QED
  BY <1>1, FramesHolds, PTL

----------------------------------------------------------------------------
(* The segments of a device *)

\* Where the j-th element stood before the k-th was removed.
Before(j, k) == IF j < k THEN j ELSE j + 1

LEMMA RemoveAtKeeps ==
    ASSUME NEW S, NEW s \in Seq(S), NEW k \in 1..Len(s)
    PROVE  LET r == RemoveAt(s, k)
           IN  /\ \A j \in DOMAIN r : Before(j, k) \in DOMAIN s /\ Before(j, k) # k
                                       /\ r[j] = s[Before(j, k)]
               /\ \A i, j \in DOMAIN r : Before(i, k) = Before(j, k) => i = j
<1> DEFINE r == RemoveAt(s, k)
<1>1. /\ r \in Seq(S)
      /\ \A j \in DOMAIN r : /\ j < k => j \in DOMAIN s /\ r[j] = s[j]
                             /\ j >= k => j + 1 \in DOMAIN s /\ r[j] = s[j + 1]
  BY RemoveAtShape
<1>2. k \in Nat /\ \A j \in DOMAIN r : j \in Nat
  BY <1>1, PosIsNat
<1> HIDE DEF r
<1>3. \A j \in DOMAIN r : Before(j, k) \in DOMAIN s /\ Before(j, k) # k /\ r[j] = s[Before(j, k)]
  <2> SUFFICES ASSUME NEW j \in DOMAIN r
               PROVE  Before(j, k) \in DOMAIN s /\ Before(j, k) # k /\ r[j] = s[Before(j, k)]
    OBVIOUS
  <2>1. CASE j < k
    BY <1>1, <1>2, <2>1 DEF Before
  <2>2. CASE j >= k
    BY <1>1, <1>2, <2>2 DEF Before
  <2> QED
    BY <1>2, <2>1, <2>2
<1>4. \A i, j \in DOMAIN r : Before(i, k) = Before(j, k) => i = j
  BY <1>2 DEF Before
<1> QED
  BY <1>3, <1>4 DEF r

\* The closed segment a pending device has left.
Left(p, j) == tracks[j].slug = p.prev /\ tracks[j].closed /\ tracks[j].dev = p.dev

\* The chain, and what it needs while a continuation is looked for and opened: every lost device
\* has left a closed segment, no segment is looked for twice, and what is being opened continues
\* what it was opened for.
Chain ==
    /\ SegmentChain
    /\ \A k \in DOMAIN pending : \E j \in DOMAIN tracks : Left(pending[k], j)
    /\ \A k, l \in DOMAIN pending : pending[k].prev = pending[l].prev => k = l
    /\ \A i \in DOMAIN opening :
           LET k == opening[i].k
               m == opening[i].meta
           IN  /\ k = 0 => m.continues = None
               /\ k # 0 => /\ m.continues = pending[k].prev
                           /\ m.dev.id = pending[k].dev.id \/ m.dev.name = pending[k].dev.name

LEMMA KeepChain == Chain /\ UNCHANGED <<tracks, pending, opening>> => Chain'
BY DEF Chain, SegmentChain, Left

LEMMA InitChain == Init => Chain
BY DEF Init, Chain, SegmentChain

LEMMA PendingIs == ASSUME IInv, NEW k \in DOMAIN pending PROVE pending[k] \in PendingReopen
BY ElementOfSeq, PosIsNat DEF IInv, PendingOK

\* What is looked for may become less.
LEMMA FewerPending ==
    ASSUME IInv, Chain, NEW k \in 1..Len(pending), pending' = RemoveAt(pending, k),
           UNCHANGED tracks, opening' = <<>>
    PROVE  Chain'
<1>1. /\ \A j \in DOMAIN pending' : Before(j, k) \in DOMAIN pending
                                     /\ pending'[j] = pending[Before(j, k)]
      /\ \A i, j \in DOMAIN pending' : Before(i, k) = Before(j, k) => i = j
  BY RemoveAtKeeps DEF IInv, PendingOK
<1>2. SegmentChain'
  BY <1>1 DEF Chain, SegmentChain
<1>3. \A l \in DOMAIN pending' : \E j \in DOMAIN tracks : Left(pending'[l], j)
  BY <1>1 DEF Chain
<1>4. \A i, j \in DOMAIN pending' : pending'[i].prev = pending'[j].prev => i = j
  BY <1>1 DEF Chain
<1> QED
  BY <1>2, <1>3, <1>4 DEF Chain, Left

\* A segment that is open has not been continued and is not looked for.
LEMMA OpenNotContinued ==
    ASSUME IInv, Chain, NEW i \in DOMAIN tracks, ~tracks[i].closed
    PROVE  /\ \A j \in DOMAIN tracks : tracks[j].continues # tracks[i].slug
           /\ \A k \in DOMAIN pending : pending[k].prev # tracks[i].slug
<1>1. tracks[i].slug # None /\ \A j \in DOMAIN tracks : tracks[j].slug = tracks[i].slug => j = i
  <2>1. tracks[i] \in TrackMeta
    BY TrackIs
  <2> QED
    BY <2>1 DEF IInv, SlugsTaken, UniqueFiles, TrackMeta, Slug
<1>2. ASSUME NEW j \in DOMAIN tracks, tracks[j].continues = tracks[i].slug PROVE FALSE
  <2>1. PICK l \in 1..(j - 1) : tracks[l].slug = tracks[i].slug /\ tracks[l].closed
    BY <1>1, <1>2 DEF Chain, SegmentChain
  <2>2. l \in DOMAIN tracks
    <3>1. j \in Nat /\ DOMAIN tracks = 1..Len(tracks) /\ Len(tracks) \in Nat
      BY PosIsNat DEF IInv, TracksOK
    <3> QED
      BY <3>1
  <2> QED
    BY <1>1, <2>1, <2>2
<1>3. ASSUME NEW k \in DOMAIN pending, pending[k].prev = tracks[i].slug PROVE FALSE
  <2>1. PICK l \in DOMAIN tracks : Left(pending[k], l)
    BY DEF Chain
  <2> QED
    BY <1>1, <1>3, <2>1 DEF Left
<1> QED
  BY <1>2, <1>3

\* Closing a track leaves the chain, and a device that is to be looked for continues the chain there.
LEMMA CloseNextChain ==
    ASSUME IInv, Calls, Chain, CloseNext
    PROVE  Chain'
<1>1. PICK i \in DOMAIN tracks :
        /\ ~tracks[i].closed /\ opening = <<>> /\ UNCHANGED opening
        /\ BeginReopen(i)
        /\ DOMAIN tracks' = DOMAIN tracks /\ tracks'[i].closed
        /\ \A j \in DOMAIN tracks :
             /\ tracks'[j].dev = tracks[j].dev /\ tracks'[j].slug = tracks[j].slug
             /\ tracks'[j].continues = tracks[j].continues
             /\ tracks[j].closed => tracks'[j].closed
  BY CloseNextShape
<1>2. \A j \in DOMAIN tracks : 1..(j - 1) \subseteq DOMAIN tracks
  <2>1. DOMAIN tracks = 1..Len(tracks) /\ Len(tracks) \in Nat
    BY PosIsNat DEF IInv, TracksOK
  <2> QED
    BY <2>1
<1>3. \A j \in DOMAIN tracks' : tracks'[j].continues # None =>
        \E l \in 1..(j - 1) :
            /\ tracks'[l].slug = tracks'[j].continues /\ tracks'[l].closed
            /\ \/ tracks'[l].dev.id = tracks'[j].dev.id
               \/ tracks'[l].dev.name = tracks'[j].dev.name
  <2> SUFFICES ASSUME NEW j \in DOMAIN tracks, tracks[j].continues # None
               PROVE  \E l \in 1..(j - 1) :
                        /\ tracks'[l].slug = tracks'[j].continues /\ tracks'[l].closed
                        /\ \/ tracks'[l].dev.id = tracks'[j].dev.id
                           \/ tracks'[l].dev.name = tracks'[j].dev.name
    BY <1>1
  <2>1. PICK l \in 1..(j - 1) :
          /\ tracks[l].slug = tracks[j].continues /\ tracks[l].closed
          /\ \/ tracks[l].dev.id = tracks[j].dev.id
             \/ tracks[l].dev.name = tracks[j].dev.name
    BY DEF Chain, SegmentChain
  <2>2. l \in DOMAIN tracks
    BY <1>2
  <2> QED
    BY <1>1, <2>1, <2>2
<1>4. \A k, j \in DOMAIN tracks' :
        tracks'[k].continues = tracks'[j].continues => k = j \/ tracks'[k].continues = None
  BY <1>1 DEF Chain, SegmentChain
<1>5. \A p : \A j \in DOMAIN tracks : Left(p, j) => Left(p, j)'
  BY <1>1 DEF Left
<1>6. CASE UNCHANGED pending
  <2>1. \A k \in DOMAIN pending' : \E j \in DOMAIN tracks' : Left(pending[k], j)'
    BY <1>1, <1>5, <1>6 DEF Chain
  <2>2. SegmentChain'
    BY <1>1, <1>3, <1>4, <1>6 DEF Chain, SegmentChain
  <2>3. \A k \in DOMAIN pending' : \E j \in DOMAIN tracks' : Left(pending[k], j)' /\ pending'[k] = pending[k]
    BY <1>6, <2>1
  <2> QED
    BY <1>1, <1>6, <2>2, <2>3 DEF Chain, Left
<1>7. ASSUME NEW p, pending' = Append(pending, p), p.prev = tracks[i].slug,
             p.dev = tracks[i].dev, p \in PendingReopen
      PROVE  Chain'
  <2> DEFINE n == Len(pending) + 1
  <2>1. /\ DOMAIN pending' = DOMAIN pending \cup {n} /\ pending'[n] = p
        /\ \A k \in DOMAIN pending : pending'[k] = pending[k]
    BY <1>7, AppendShape DEF IInv, PendingOK
  <2>2. /\ \A j \in DOMAIN tracks : tracks[j].continues # p.prev
        /\ \A k \in DOMAIN pending : pending[k].prev # p.prev
    BY <1>1, <1>7, OpenNotContinued
  <2> HIDE DEF n
  <2>3. SegmentChain'
    <3>1. \A k \in DOMAIN pending', j \in DOMAIN tracks' : tracks'[j].continues # pending'[k].prev
      BY <1>1, <2>1, <2>2 DEF Chain, SegmentChain
    <3> QED
      BY <1>3, <1>4, <3>1 DEF SegmentChain
  <2>4. \A k \in DOMAIN pending' : \E j \in DOMAIN tracks' :
           tracks'[j].slug = pending'[k].prev /\ tracks'[j].closed /\ tracks'[j].dev = pending'[k].dev
    <3> SUFFICES ASSUME NEW k \in DOMAIN pending'
                 PROVE  \E j \in DOMAIN tracks' :
                          tracks'[j].slug = pending'[k].prev /\ tracks'[j].closed
                          /\ tracks'[j].dev = pending'[k].dev
      OBVIOUS
    <3>1. CASE k = n
      BY <1>1, <1>7, <2>1, <3>1
    <3>2. CASE k # n
      <4>1. PICK j \in DOMAIN tracks : Left(pending[k], j)
        BY <2>1, <3>2 DEF Chain
      <4> QED
        BY <1>1, <2>1, <3>2, <4>1 DEF Left
    <3> QED
      BY <3>1, <3>2
  <2>5. \A k, l \in DOMAIN pending' : pending'[k].prev = pending'[l].prev => k = l
    BY <2>1, <2>2 DEF Chain
  <2> QED
    BY <1>1, <2>3, <2>4, <2>5 DEF Chain, Left
<1>8. \/ UNCHANGED pending
      \/ \E p : /\ pending' = Append(pending, p) /\ p.prev = tracks[i].slug
                /\ p.dev = tracks[i].dev /\ p \in PendingReopen
  <2>1. CASE closing.reason = "off" \/ PendingFor(tracks[i].dev) # {}
    BY <1>1, <2>1 DEF BeginReopen
  <2>2. CASE ~(closing.reason = "off" \/ PendingFor(tracks[i].dev) # {})
    <3> DEFINE p == [dev |-> tracks[i].dev, reason |-> closing.reason, prev |-> tracks[i].slug,
                     since |-> Elapsed,
                     from |-> IF closing.reason = "sleep" THEN closing.from ELSE Elapsed]
    <3>1. pending' = Append(pending, p)
      BY <1>1, <2>2 DEF BeginReopen
    <3>2. /\ tracks[i] \in TrackMeta /\ Elapsed \in Nat
          /\ closing \in [todo: SUBSET Nat, reason: {"off", "sleep", "device-lost"}, from: Nat]
      BY TrackIs, ElapsedIsNat DEF IInv, ClosingOK
    <3>3. p \in PendingReopen
      BY <2>2, <3>2 DEF PendingReopen, TrackMeta
    <3> QED
      BY <3>1, <3>3
  <2> QED
    BY <2>1, <2>2
<1> QED
  BY <1>6, <1>7, <1>8

\* A track is added to the chain: it continues the segment it was opened for, or none.
LEMMA AddEncoderChain ==
    ASSUME IInv, Calls, Chain, AddEncoder
    PROVE  Chain'
<1> DEFINE m == opening[1].meta
           k == opening[1].k
           n == Len(tracks) + 1
<1>1. /\ k \in 0..Len(pending) /\ DOMAIN opening = {1} /\ opening' = <<>>
      /\ n \in Nat \ DOMAIN tracks
      /\ DOMAIN tracks' = DOMAIN tracks \cup {n} /\ tracks'[n] = m
      /\ \A i \in DOMAIN tracks : tracks'[i] = tracks[i]
      /\ Opened(m, k)
  BY AnswerShape
<1>2. /\ k = 0 => m.continues = None
      /\ k # 0 => /\ m.continues = pending[k].prev
                  /\ m.dev.id = pending[k].dev.id \/ m.dev.name = pending[k].dev.name
  BY <1>1 DEF Chain
<1>3. /\ DOMAIN tracks = 1..(n - 1) /\ DOMAIN pending = 1..Len(pending) /\ Len(pending) \in Nat
      /\ \A j \in DOMAIN tracks : 1..(j - 1) \subseteq DOMAIN tracks
  <2>1. DOMAIN tracks = 1..Len(tracks) /\ Len(tracks) \in Nat
    BY PosIsNat DEF IInv, TracksOK
  <2> QED
    BY <2>1, PosIsNat DEF IInv, PendingOK
<1>4. \A l \in DOMAIN pending : pending[l].prev # None
  BY PendingIs DEF PendingReopen, Slug
<1>5. k = 0 => UNCHANGED pending
  BY <1>1 DEF Opened
<1>6. k # 0 => k \in 1..Len(pending) /\ pending' = RemoveAt(pending, k)
  BY <1>1, <1>3 DEF Opened
<1> HIDE DEF m, k, n
\* The entries still looked for are old ones, and not the one that was opened for.
<1>7. /\ \A l \in DOMAIN pending' : \E o \in DOMAIN pending : o # k /\ pending'[l] = pending[o]
      /\ \A i, j \in DOMAIN pending' : pending'[i].prev = pending'[j].prev => i = j
  <2>1. CASE k = 0
    <3>1. \A l \in DOMAIN pending : l # k
      BY <1>3, <2>1
    <3> QED
      BY <1>5, <2>1, <3>1 DEF Chain
  <2>2. CASE k # 0
    <3>1. /\ \A j \in DOMAIN pending' : Before(j, k) \in DOMAIN pending /\ Before(j, k) # k
                                         /\ pending'[j] = pending[Before(j, k)]
          /\ \A i, j \in DOMAIN pending' : Before(i, k) = Before(j, k) => i = j
      BY <1>6, <2>2, RemoveAtKeeps DEF IInv, PendingOK
    <3> QED
      BY <3>1 DEF Chain
  <2> QED
    BY <2>1, <2>2
<1>8. k # 0 => k \in DOMAIN pending
  BY <1>3, <1>6
<1>9. \A j \in DOMAIN tracks' : tracks'[j].continues # None =>
        \E l \in 1..(j - 1) :
            /\ tracks'[l].slug = tracks'[j].continues /\ tracks'[l].closed
            /\ \/ tracks'[l].dev.id = tracks'[j].dev.id
               \/ tracks'[l].dev.name = tracks'[j].dev.name
  <2> SUFFICES ASSUME NEW j \in DOMAIN tracks', tracks'[j].continues # None
               PROVE  \E l \in 1..(j - 1) :
                        /\ tracks'[l].slug = tracks'[j].continues /\ tracks'[l].closed
                        /\ \/ tracks'[l].dev.id = tracks'[j].dev.id
                           \/ tracks'[l].dev.name = tracks'[j].dev.name
    OBVIOUS
  <2>1. CASE j \in DOMAIN tracks
    <3>1. PICK l \in 1..(j - 1) :
            /\ tracks[l].slug = tracks[j].continues /\ tracks[l].closed
            /\ \/ tracks[l].dev.id = tracks[j].dev.id
               \/ tracks[l].dev.name = tracks[j].dev.name
      BY <1>1, <2>1 DEF Chain, SegmentChain
    <3>2. l \in DOMAIN tracks
      BY <1>3, <2>1
    <3> QED
      BY <1>1, <2>1, <3>1, <3>2
  <2>2. CASE j = n
    <3>1. k # 0
      BY <1>1, <1>2, <2>2
    <3>2. PICK l \in DOMAIN tracks : Left(pending[k], l)
      BY <1>8, <3>1 DEF Chain
    <3>3. l \in 1..(j - 1)
      BY <1>3, <2>2
    <3> QED
      BY <1>1, <1>2, <2>2, <3>1, <3>2, <3>3 DEF Left
  <2> QED
    BY <1>1, <2>1, <2>2
<1>10. \A i, j \in DOMAIN tracks' :
        tracks'[i].continues = tracks'[j].continues => i = j \/ tracks'[i].continues = None
  <2>1. ASSUME NEW i \in DOMAIN tracks, m.continues = tracks[i].continues PROVE m.continues = None
    BY <1>2, <1>8, <2>1 DEF Chain, SegmentChain
  <2> QED
    BY <1>1, <2>1 DEF Chain, SegmentChain
<1>11. \A l \in DOMAIN pending', i \in DOMAIN tracks' : tracks'[i].continues # pending'[l].prev
  <2> SUFFICES ASSUME NEW l \in DOMAIN pending', NEW i \in DOMAIN tracks'
               PROVE  tracks'[i].continues # pending'[l].prev
    OBVIOUS
  <2>1. PICK o \in DOMAIN pending : o # k /\ pending'[l] = pending[o]
    BY <1>7
  <2>2. CASE i \in DOMAIN tracks
    BY <1>1, <2>1, <2>2 DEF Chain, SegmentChain
  <2>3. CASE i = n
    BY <1>1, <1>2, <1>4, <1>8, <2>1, <2>3 DEF Chain
  <2> QED
    BY <1>1, <2>2, <2>3
<1>12. \A l \in DOMAIN pending' : \E j \in DOMAIN tracks' :
          tracks'[j].slug = pending'[l].prev /\ tracks'[j].closed /\ tracks'[j].dev = pending'[l].dev
  <2> SUFFICES ASSUME NEW l \in DOMAIN pending'
               PROVE  \E j \in DOMAIN tracks' :
                        tracks'[j].slug = pending'[l].prev /\ tracks'[j].closed
                        /\ tracks'[j].dev = pending'[l].dev
    OBVIOUS
  <2>1. PICK o \in DOMAIN pending : pending'[l] = pending[o]
    BY <1>7
  <2>2. PICK j \in DOMAIN tracks : Left(pending[o], j)
    BY DEF Chain
  <2> QED
    BY <1>1, <2>1, <2>2 DEF Left
<1>13. SegmentChain'
  BY <1>9, <1>10, <1>11 DEF SegmentChain
<1> QED
  BY <1>1, <1>7, <1>12, <1>13 DEF Chain, Left

LEMMA NextChain ==
    ASSUME IInv, Calls, Chain, [Next]_vars
    PROVE  Chain'
<1>1. CASE WorkerTick \/ ClosesFile \/ FinishesAll \/ TakesSignal
  BY <1>1, KeepChain DEF WorkerTick, ClosesFile, FinishesAll, TakesSignal, sessionVars
<1>2. CASE Loses \/ TakesSleep \/ Start \/ Advance \/ Sleep \/ UNCHANGED vars
  BY <1>2, KeepChain DEF Loses, TakesSleep, Start, Advance, Sleep, vars, sessionVars
<1>3. CASE AddEncoder
  BY <1>3, AddEncoderChain
<1>4. CASE AddEncoderFails
  <2>1. /\ opening' = <<>> /\ UNCHANGED tracks
        /\ UNCHANGED pending \/ (poll.stage = "scan" /\ pending' = RemoveAt(pending, poll.k))
    BY <1>4 DEF AddEncoderFails, PassOver
  <2>2. CASE UNCHANGED pending
    BY <2>1, <2>2 DEF Chain, SegmentChain, Left
  <2>3. CASE poll.stage = "scan" /\ pending' = RemoveAt(pending, poll.k)
    <3>1. poll.k <= Len(pending)
      BY <1>4, <2>3 DEF AddEncoderFails, IInv, WaitHolds
    <3>2. poll.k \in 1..Len(pending)
      BY <2>3, <3>1, PosIsNat DEF IInv, PollOK, PendingOK
    <3> QED
      BY <2>1, <2>3, <3>2, FewerPending
  <2> QED
    BY <2>1, <2>2, <2>3
<1>5. ASSUME NEW dev \in Devices, MakeTrack(dev) PROVE Chain'
  <2> DEFINE n == Len(tracks) + 1
  <2>1. /\ phase = "starting" /\ n \in Nat \ DOMAIN tracks
        /\ DOMAIN tracks' = DOMAIN tracks \cup {n}
        /\ \A i \in DOMAIN tracks : tracks'[i] = tracks[i]
        /\ tracks'[n].continues = None
        /\ UNCHANGED <<pending, opening>>
    BY <1>5, MakeTrackShape
  <2>2. pending = <<>> /\ opening = <<>>
    BY <2>1 DEF Calls
  <2>3. \A j \in DOMAIN tracks : 1..(j - 1) \subseteq DOMAIN tracks
    <3>1. DOMAIN tracks = 1..Len(tracks) /\ Len(tracks) \in Nat
      BY PosIsNat DEF IInv, TracksOK
    <3> QED
      BY <3>1
  <2> HIDE DEF n
  <2>4. SegmentChain'
    <3>1. \A j \in DOMAIN tracks' : tracks'[j].continues # None =>
            \E l \in 1..(j - 1) :
                /\ tracks'[l].slug = tracks'[j].continues /\ tracks'[l].closed
                /\ \/ tracks'[l].dev.id = tracks'[j].dev.id
                   \/ tracks'[l].dev.name = tracks'[j].dev.name
      <4> SUFFICES ASSUME NEW j \in DOMAIN tracks, tracks[j].continues # None
                   PROVE  \E l \in 1..(j - 1) :
                            /\ tracks'[l].slug = tracks[j].continues /\ tracks'[l].closed
                            /\ \/ tracks'[l].dev.id = tracks[j].dev.id
                               \/ tracks'[l].dev.name = tracks[j].dev.name
        BY <2>1
      <4>1. PICK l \in 1..(j - 1) :
              /\ tracks[l].slug = tracks[j].continues /\ tracks[l].closed
              /\ \/ tracks[l].dev.id = tracks[j].dev.id
                 \/ tracks[l].dev.name = tracks[j].dev.name
        BY DEF Chain, SegmentChain
      <4> QED
        BY <2>1, <2>3, <4>1
    <3> QED
      BY <2>1, <2>2, <3>1 DEF Chain, SegmentChain
  <2> QED
    BY <2>1, <2>2, <2>4 DEF Chain
<1>6. ASSUME NEW dev \in Devices, NEW k \in 0..Len(pending), Opens(dev, k) PROVE Chain'
  <2> DEFINE m == opening'[1].meta
  <2>1. /\ DOMAIN opening' = {1} /\ opening'[1].k = k /\ m.dev = dev
        /\ m.continues = IF k = 0 THEN None ELSE pending[k].prev
    BY <1>6, OpensShape
  <2>2. /\ UNCHANGED <<tracks, pending>>
        /\ k # 0 => dev.id = pending[k].dev.id \/ dev.name = pending[k].dev.name
    BY <1>6 DEF Opens, BeginOpen
  <2> HIDE DEF m
  <2>3. /\ k = 0 => m.continues = None
        /\ k # 0 => /\ m.continues = pending[k].prev
                    /\ m.dev.id = pending[k].dev.id \/ m.dev.name = pending[k].dev.name
    BY <2>1, <2>2
  <2> QED
    BY <2>1, <2>2, <2>3 DEF Chain, SegmentChain, Left, m
<1>7. CASE CloseNext
  BY <1>7, CloseNextChain
<1>8. CASE Looks
  <2>1. /\ opening = <<>> /\ UNCHANGED <<tracks, opening>>
        /\ pending' = pending \/ \E k \in 1..Len(pending) : pending' = RemoveAt(pending, k)
    BY <1>8 DEF Looks
  <2>2. CASE pending' = pending
    BY <2>1, <2>2, KeepChain
  <2>3. ASSUME NEW k \in 1..Len(pending), pending' = RemoveAt(pending, k) PROVE Chain'
    BY <2>1, <2>3, FewerPending
  <2> QED
    BY <2>1, <2>2, <2>3
<1>9. CASE Ends
  BY <1>9 DEF Ends, Chain, SegmentChain
<1>10. CASE TearsDown
  <2>1. /\ tracks' = <<>> /\ pending' = <<>> /\ opening' = <<>>
    BY <1>10 DEF TearsDown, Calls
  <2> QED
    BY <2>1 DEF Chain, SegmentChain
<1> QED
  BY <1>1, <1>2, <1>3, <1>4, <1>5, <1>6, <1>7, <1>8, <1>9, <1>10, StepKinds

\* The chain of the segments, on top of Calls.
LEMMA ChainHolds == Spec => [](IInv /\ Calls /\ Chain)
<1>1. Init => IInv /\ Calls /\ Chain
  BY InitIInv, InitCalls, InitChain
<1>2. IInv /\ Calls /\ Chain /\ [Next]_vars => (IInv /\ Calls /\ Chain)'
  BY NextIInv, NextCalls, NextChain
<1> QED
  BY <1>1, <1>2, PTL DEF Spec

\* The segments of a device form a chain without forks, over losses, sleeps, re-opens by hand and by
\* the poll, and encoders that do not start: no lost device is continued twice, and none is still
\* looked for that has been continued.
THEOREM SegmentChainHolds == Spec => []SegmentChain
BY ChainHolds, PTL DEF Chain

----------------------------------------------------------------------------
(* The holes between the segments *)

\* A sleep or a gap that does not contain the time o.
Apart(o, g) == o <= g.from \/ g.to <= o

\* A gap of a sleep that is over by then and does not contain the start o of a segment.
SleptThrough(g, o, then) == g.reason = "sleep" /\ g.from <= g.to /\ g.to <= then /\ Apart(o, g)

\* What is looked for since a segment that began at o can be continued at the time then: a lost
\* device was lost in between, of a sleep the gap is recorded.
Explains(p, o, then, recorded) ==
    \/ p.reason = "device-lost" /\ o <= p.from /\ p.from <= then
    \/ p.reason = "sleep" /\ \E g \in recorded : SleptThrough(g, o, then)

LEMMA ExplainsLater ==
    ASSUME NEW p \in PendingReopen, NEW o \in Nat, NEW then \in Nat, NEW later \in Nat,
           NEW some, NEW more \in SUBSET Gap, some \subseteq more, then <= later,
           Explains(p, o, then, some)
    PROVE  Explains(p, o, later, more)
<1>1. \A g \in some : SleptThrough(g, o, then) => SleptThrough(g, o, later)
  BY DEF SleptThrough, Gap
<1> QED
  BY <1>1 DEF Explains, PendingReopen

\* The holes that are there, and those that are being made: what was noticed, what is being closed,
\* what is looked for and what is being opened are all over or at hand by now.
Explained ==
    \A i, j \in DOMAIN tracks : tracks[j].continues = tracks[i].slug =>
        \E g \in ToSet(gaps) :
            /\ g.from <= g.to
            /\ \/ /\ g.reason = "device-lost" /\ g.track = tracks[j].slug
                  /\ tracks[i].offset <= g.from /\ g.to = tracks[j].offset
               \/ /\ g.reason = "sleep" /\ g.to <= tracks[j].offset
                  /\ tracks[i].offset <= g.from \/ g.to <= tracks[i].offset

Holes ==
    /\ Explained
    /\ \A i \in DOMAIN tracks : tracks[i].offset <= Elapsed
    /\ \A i \in DOMAIN opening : opening[i].meta.offset <= Elapsed
    /\ \A m \in ToSet(outbox) : m.kind = "slept" =>
           /\ m.from <= m.to /\ m.to <= Elapsed
           /\ \A i \in DOMAIN tracks : Apart(tracks[i].offset, m)
           /\ \A i \in DOMAIN opening : Apart(opening[i].meta.offset, m)
    /\ closing.reason = "sleep" =>
           \A i \in closing.todo :
               \E g \in ToSet(gaps) : SleptThrough(g, tracks[i].offset, Elapsed)
    /\ \A k \in DOMAIN pending, i \in DOMAIN tracks : tracks[i].slug = pending[k].prev =>
           Explains(pending[k], tracks[i].offset, Elapsed, ToSet(gaps))
    /\ \A l \in DOMAIN opening : opening[l].k # 0 =>
           \A i \in DOMAIN tracks : tracks[i].slug = pending[opening[l].k].prev =>
               Explains(pending[opening[l].k], tracks[i].offset, opening[l].meta.offset, ToSet(gaps))

LEMMA InitHoles == Init => Holes
BY DEF Init, Holes, Explained, ToSet, NotClosing

LEMMA GapsAre == ASSUME IInv PROVE gaps \in Seq(Gap) /\ ToSet(gaps) \in SUBSET Gap
<1>1. gaps \in Seq(Gap)
  BY DEF IInv, GapsOK
<1>2. \A i \in DOMAIN gaps : gaps[i] \in Gap
  BY <1>1, ElementOfSeq, PosIsNat
<1> QED
  BY <1>1, <1>2 DEF ToSet

LEMMA OpeningIs ==
    ASSUME IInv, NEW i \in DOMAIN opening
    PROVE  opening[i].meta \in TrackMeta /\ opening[i].k \in Nat
<1>1. opening[i] \in Opening
  BY ElementOfSeq, PosIsNat DEF IInv, OpeningOK
<1> QED
  BY <1>1 DEF Opening

\* Nothing is opened or closed, time goes on; less may be looked for, and the worker may have noticed
\* a sleep just now.
LEMMA CalmHoles ==
    ASSUME IInv, IInv', Holes, UNCHANGED <<tracks, gaps>>,
           closing' = closing \/ closing'.reason # "sleep",
           \/ opening' = opening /\ pending' = pending
           \/ /\ opening' = <<>>
              /\ \A l \in DOMAIN pending' : \E k \in DOMAIN pending : pending'[l] = pending[k],
           Elapsed <= Elapsed',
           \A m \in ToSet(outbox') : m.kind = "slept" =>
               m \in ToSet(outbox) \/ (m.from = Elapsed /\ m.to = Elapsed')
    PROVE  Holes'
<1>1. /\ Elapsed \in Nat /\ Elapsed' \in Nat
      /\ \A i \in DOMAIN tracks : tracks[i].offset \in Nat
      /\ \A i \in DOMAIN opening : opening[i].meta.offset \in Nat
      /\ \A k \in DOMAIN pending : pending[k] \in PendingReopen
      /\ ToSet(gaps) \in SUBSET Gap
  BY ElapsedIsNat, TrackIs, OpeningIs, PendingIs, GapsAre DEF IInv, ClockOK, Elapsed, TrackMeta
<1>2. \A i \in DOMAIN opening' : i \in DOMAIN opening /\ opening'[i] = opening[i] /\ pending' = pending
  OBVIOUS
<1>3. Explained'
  BY DEF Holes, Explained
<1>4. /\ \A i \in DOMAIN tracks : tracks[i].offset <= Elapsed'
      /\ \A i \in DOMAIN opening' : opening'[i].meta.offset <= Elapsed'
  BY <1>1, <1>2 DEF Holes
<1>5. ASSUME NEW m \in ToSet(outbox'), m.kind = "slept"
      PROVE  /\ m.from <= m.to /\ m.to <= Elapsed'
             /\ \A i \in DOMAIN tracks : Apart(tracks[i].offset, m)
             /\ \A i \in DOMAIN opening' : Apart(opening'[i].meta.offset, m)
  <2>1. CASE m \in ToSet(outbox)
    <3>1. m.to \in Nat
      <4>1. outbox \in Seq(Message)
        BY InboxIs
      <4>2. m \in Message
        BY <2>1, <4>1, ElementOfSeq, PosIsNat DEF ToSet
      <4> QED
        BY <4>2 DEF Message
    <3> QED
      BY <1>1, <1>2, <1>5, <2>1, <3>1 DEF Holes
  <2>2. CASE m.from = Elapsed /\ m.to = Elapsed'
    BY <1>1, <1>2, <2>2 DEF Holes, Apart
  <2> QED
    BY <1>5, <2>1, <2>2
<1>6. ASSUME closing'.reason = "sleep", NEW i \in closing'.todo
      PROVE  \E g \in ToSet(gaps) : SleptThrough(g, tracks[i].offset, Elapsed')
  <2>1. PICK g \in ToSet(gaps) : SleptThrough(g, tracks[i].offset, Elapsed)
    BY <1>6 DEF Holes
  <2>2. g.to \in Nat
    BY <1>1 DEF Gap
  <2>3. SleptThrough(g, tracks[i].offset, Elapsed')
    BY <1>1, <2>1, <2>2 DEF SleptThrough
  <2> QED
    BY <2>3
<1>7. ASSUME NEW l \in DOMAIN pending', NEW i \in DOMAIN tracks,
             tracks[i].slug = pending'[l].prev
      PROVE  Explains(pending'[l], tracks[i].offset, Elapsed', ToSet(gaps))
  <2>1. PICK k \in DOMAIN pending : pending'[l] = pending[k]
    OBVIOUS
  <2>2. Explains(pending[k], tracks[i].offset, Elapsed, ToSet(gaps))
    BY <1>7, <2>1 DEF Holes
  <2> QED
    BY <1>1, <2>1, <2>2, ExplainsLater
<1>8. ASSUME NEW l \in DOMAIN opening', opening'[l].k # 0, NEW i \in DOMAIN tracks,
             tracks[i].slug = pending'[opening'[l].k].prev
      PROVE  Explains(pending'[opening'[l].k], tracks[i].offset, opening'[l].meta.offset, ToSet(gaps))
  BY <1>2, <1>8 DEF Holes
<1> QED
  BY <1>3, <1>4, <1>5, <1>6, <1>7, <1>8 DEF Holes

LEMMA TakesSleepHoles ==
    ASSUME IInv, IInv', Holes, TakesSleep
    PROVE  Holes'
<1> DEFINE h == Head(outbox)
           g == [from |-> h.from, to |-> h.to, reason |-> "sleep", track |-> None]
<1>1. /\ opening = <<>> /\ outbox # <<>> /\ h.kind = "slept" /\ outbox' = Tail(outbox)
      /\ gaps' = Append(gaps, g) /\ closing'.todo = OpenTracks
      /\ UNCHANGED <<tracks, pending, opening, clock>>
  BY DEF TakesSleep
<1>2. ToSet(outbox') \subseteq ToSet(outbox) /\ h \in ToSet(outbox) /\ h \in Message
  BY <1>1, InboxIs, TailSet, TailShape
<1>3. g \in Gap
  BY <1>2 DEF Message, Gap, None
<1>4. g.reason = "sleep" /\ g.from = h.from /\ g.to = h.to
  OBVIOUS
<1> HIDE DEF g, h
<1>5. ToSet(gaps') = ToSet(gaps) \cup {g}
  BY <1>1, <1>3, GapsAre, AppendSet
<1>6. Elapsed' = Elapsed
  BY <1>1 DEF Elapsed
<1>7. \A i \in DOMAIN tracks : SleptThrough(g, tracks[i].offset, Elapsed)
  BY <1>1, <1>2, <1>4 DEF Holes, SleptThrough, Apart
<1>8. Explained'
  BY <1>1, <1>5 DEF Holes, Explained
<1>9. closing'.todo \subseteq DOMAIN tracks
  BY <1>1 DEF OpenTracks
<1>10. ASSUME NEW k \in DOMAIN pending, NEW i \in DOMAIN tracks, tracks[i].slug = pending[k].prev
       PROVE  Explains(pending[k], tracks[i].offset, Elapsed, ToSet(gaps'))
  <2>1. Explains(pending[k], tracks[i].offset, Elapsed, ToSet(gaps))
    BY <1>10 DEF Holes
  <2> QED
    BY <1>5, <2>1 DEF Explains
<1>11. \A i \in closing'.todo : \E x \in ToSet(gaps') : SleptThrough(x, tracks[i].offset, Elapsed)
  BY <1>5, <1>7, <1>9
<1>12. \A m \in ToSet(outbox') : m.kind = "slept" =>
          /\ m.from <= m.to /\ m.to <= Elapsed
          /\ \A i \in DOMAIN tracks : Apart(tracks[i].offset, m)
  BY <1>2 DEF Holes
<1>13. /\ \A i \in DOMAIN tracks : tracks[i].offset <= Elapsed
       /\ DOMAIN opening' = {}
  BY <1>1 DEF Holes
<1> QED
  BY <1>1, <1>6, <1>8, <1>10, <1>11, <1>12, <1>13 DEF Holes

\* beginReopen leaves the list as it is, or appends what is known of the track that is closed.
LEMMA BeginReopenShape ==
    ASSUME IInv, NEW i \in DOMAIN tracks, BeginReopen(i)
    PROVE  \/ UNCHANGED pending
           \/ \E p \in PendingReopen :
                /\ pending' = Append(pending, p)
                /\ p.prev = tracks[i].slug /\ p.dev = tracks[i].dev /\ p.reason = closing.reason
                /\ p.reason = "device-lost" => p.from = Elapsed
<1>1. CASE closing.reason = "off" \/ PendingFor(tracks[i].dev) # {}
  BY <1>1 DEF BeginReopen
<1>2. CASE ~(closing.reason = "off" \/ PendingFor(tracks[i].dev) # {})
  <2> DEFINE p == [dev |-> tracks[i].dev, reason |-> closing.reason, prev |-> tracks[i].slug,
                   since |-> Elapsed,
                   from |-> IF closing.reason = "sleep" THEN closing.from ELSE Elapsed]
  <2>1. pending' = Append(pending, p)
    BY <1>2 DEF BeginReopen
  <2>2. /\ tracks[i] \in TrackMeta /\ Elapsed \in Nat
        /\ closing \in [todo: SUBSET Nat, reason: {"off", "sleep", "device-lost"}, from: Nat]
    BY TrackIs, ElapsedIsNat DEF IInv, ClosingOK
  <2>3. p \in PendingReopen
    BY <1>2, <2>2 DEF PendingReopen, TrackMeta
  <2>4. /\ p.prev = tracks[i].slug /\ p.dev = tracks[i].dev /\ p.reason = closing.reason
        /\ p.reason = "device-lost" => p.from = Elapsed
    OBVIOUS
  <2> HIDE DEF p
  <2> QED
    BY <2>1, <2>3, <2>4
<1> QED
  BY <1>1, <1>2

LEMMA CloseNextHoles ==
    ASSUME IInv, IInv', Calls, Holes, CloseNext
    PROVE  Holes'
<1>1. PICK i \in closing.todo :
        /\ i \in DOMAIN tracks /\ opening = <<>> /\ UNCHANGED <<opening, gaps, outbox, clock>>
        /\ BeginReopen(i)
        /\ DOMAIN tracks' = DOMAIN tracks
        /\ \A j \in DOMAIN tracks :
             /\ tracks'[j].slug = tracks[j].slug /\ tracks'[j].offset = tracks[j].offset
             /\ tracks'[j].continues = tracks[j].continues
        /\ closing'.todo = closing.todo \ {i}
        /\ closing'.todo # {} => closing'.reason = closing.reason
  BY CloseNextShape
<1>2. Elapsed' = Elapsed
  BY <1>1 DEF Elapsed
<1>3. closing.todo \subseteq DOMAIN tracks
  BY DEF IInv, ClosingOK
<1>4. Explained'
  BY <1>1 DEF Holes, Explained
<1>5. ASSUME closing'.reason = "sleep", NEW j \in closing'.todo
      PROVE  \E g \in ToSet(gaps) : SleptThrough(g, tracks'[j].offset, Elapsed)
  BY <1>1, <1>3, <1>5 DEF Holes
<1>6. ASSUME NEW p \in PendingReopen, p.prev = tracks[i].slug, p.reason = closing.reason,
             p.reason = "device-lost" => p.from = Elapsed, NEW j \in DOMAIN tracks,
             tracks[j].slug = p.prev
      PROVE  Explains(p, tracks[j].offset, Elapsed, ToSet(gaps))
  <2>1. j = i
    BY <1>1, <1>6 DEF IInv, SlugsTaken, UniqueFiles
  <2>2. CASE p.reason = "device-lost"
    <3>1. tracks[j].offset <= Elapsed /\ Elapsed \in Nat
      BY ElapsedIsNat DEF Holes, IInv
    <3> QED
      BY <1>6, <2>2, <3>1 DEF Explains
  <2>3. CASE p.reason = "sleep"
    BY <1>1, <1>6, <2>1, <2>3 DEF Explains, Holes
  <2> QED
    BY <2>2, <2>3 DEF PendingReopen
<1>7. ASSUME NEW k \in DOMAIN pending', NEW j \in DOMAIN tracks, tracks[j].slug = pending'[k].prev
      PROVE  Explains(pending'[k], tracks[j].offset, Elapsed, ToSet(gaps))
  <2>1. CASE UNCHANGED pending
    BY <1>7, <2>1 DEF Holes
  <2>2. ASSUME NEW p \in PendingReopen, pending' = Append(pending, p),
               p.prev = tracks[i].slug, p.reason = closing.reason,
               p.reason = "device-lost" => p.from = Elapsed
        PROVE  Explains(pending'[k], tracks[j].offset, Elapsed, ToSet(gaps))
    <3>1. /\ DOMAIN pending' = DOMAIN pending \cup {Len(pending) + 1}
          /\ pending'[Len(pending) + 1] = p
          /\ \A l \in DOMAIN pending : pending'[l] = pending[l]
      BY <2>2, AppendShape DEF IInv, PendingOK
    <3>2. CASE k \in DOMAIN pending
      BY <1>7, <3>1, <3>2 DEF Holes
    <3>3. CASE k = Len(pending) + 1
      BY <1>6, <1>7, <2>2, <3>1, <3>3
    <3> QED
      BY <3>1, <3>2, <3>3
  <2> QED
    BY <1>1, <2>1, <2>2, BeginReopenShape
<1> QED
  BY <1>1, <1>2, <1>4, <1>5, <1>7 DEF Holes

\* What is recorded when a track is added: the gap of the lost device it continues, if it does.
LEMMA AddEncoderGaps ==
    ASSUME IInv, IInv', Calls, AddEncoder
    PROVE  LET m == opening[1].meta
               k == opening[1].k
           IN  /\ ToSet(gaps) \subseteq ToSet(gaps') /\ ToSet(gaps') \in SUBSET Gap
               /\ k # 0 /\ pending[k].reason = "device-lost" =>
                    \E g \in ToSet(gaps') :
                      /\ g.reason = "device-lost" /\ g.track = m.slug
                      /\ g.from = pending[k].from /\ g.to = m.offset
<1> DEFINE m == opening[1].meta
           k == opening[1].k
<1>1. /\ m \in TrackMeta /\ m.offset \in Nat /\ k \in 0..Len(pending) /\ Opened(m, k)
  BY AnswerShape DEF TrackMeta
<1>2. DOMAIN pending = 1..Len(pending) /\ Len(pending) \in Nat
  BY PosIsNat DEF IInv, PendingOK
<1>3. /\ k = 0 => UNCHANGED gaps
      /\ k # 0 => k \in 1..Len(pending) /\ gaps' = gaps \o GapOf(pending[k], m)
  BY <1>1, <1>2 DEF Opened
<1> SUFFICES /\ ToSet(gaps) \subseteq ToSet(gaps') /\ ToSet(gaps') \in SUBSET Gap
             /\ k # 0 /\ pending[k].reason = "device-lost" =>
                  \E g \in ToSet(gaps') :
                    /\ g.reason = "device-lost" /\ g.track = m.slug
                    /\ g.from = pending[k].from /\ g.to = m.offset
  OBVIOUS
<1> HIDE DEF m, k
<1>4. CASE k = 0
  BY <1>3, <1>4, GapsAre
<1>5. CASE k # 0 /\ pending[k].reason # "device-lost"
  <2>1. gaps' = gaps \o <<>> /\ gaps \in Seq(Gap)
    BY <1>3, <1>5, GapsAre DEF GapOf
  <2>2. Len(gaps) \in Nat /\ gaps' = gaps
    BY <2>1, PosIsNat
  <2> QED
    BY <1>5, <2>2, GapsAre
<1>6. CASE k # 0 /\ pending[k].reason = "device-lost"
  <2> DEFINE g == [from |-> pending[k].from, to |-> m.offset, reason |-> "device-lost",
                   track |-> m.slug]
  <2>1. gaps' = gaps \o <<g>>
    BY <1>3, <1>6 DEF GapOf
  <2>2. g.reason = "device-lost" /\ g.track = m.slug /\ g.from = pending[k].from /\ g.to = m.offset
    OBVIOUS
  <2>3. g \in Gap
    <3>1. pending[k] \in PendingReopen
      BY <1>2, <1>3, <1>6, PendingIs
    <3>2. m.slug \in Seq(Nat) /\ pending[k].from \in Nat
      BY <1>1, <3>1 DEF TrackMeta, Slug, PendingReopen
    <3> QED
      BY <1>1, <3>2 DEF Gap
  <2> HIDE DEF g
  <2>4. <<g>> \in Seq(Gap) /\ ToSet(<<g>>) = {g}
    <3>1. <<g>> \in Seq(Gap)
      BY <2>3
    <3>2. DOMAIN <<g>> = {1} /\ <<g>>[1] = g
      OBVIOUS
    <3>3. ToSet(<<g>>) = {g}
      BY <3>2 DEF ToSet
    <3> QED
      BY <3>1, <3>3
  <2>5. ToSet(gaps') = ToSet(gaps) \cup {g}
    <3> DEFINE s == <<g>>
    <3>1. gaps' = gaps \o s /\ s \in Seq(Gap) /\ ToSet(s) = {g}
      BY <2>1, <2>4
    <3>2. gaps \in Seq(Gap)
      BY GapsAre
    <3> HIDE DEF s
    <3>3. ToSet(gaps \o s) = ToSet(gaps) \cup ToSet(s)
      BY <3>1, <3>2, ConcatSet
    <3> QED
      BY <3>1, <3>3
  <2> QED
    BY <2>2, <2>3, <2>5, GapsAre
<1> QED
  BY <1>4, <1>5, <1>6

\* The new track continues what it was opened for, and the gap of a lost device is recorded with it.
LEMMA AddEncoderHoles ==
    ASSUME IInv, IInv', Calls, Chain, Holes, AddEncoder
    PROVE  Holes'
<1> DEFINE m == opening[1].meta
           k == opening[1].k
           n == Len(tracks) + 1
<1>1. /\ m \in TrackMeta /\ k \in 0..Len(pending) /\ DOMAIN opening = {1} /\ opening' = <<>>
      /\ n \in Nat \ DOMAIN tracks /\ closing.todo = {}
      /\ DOMAIN tracks' = DOMAIN tracks \cup {n} /\ tracks'[n] = m
      /\ \A i \in DOMAIN tracks : tracks'[i] = tracks[i]
      /\ Opened(m, k)
      /\ UNCHANGED <<closing, outbox, clock>>
  BY AnswerShape
<1>2. /\ k = 0 => m.continues = None
      /\ k # 0 => m.continues = pending[k].prev
  BY <1>1 DEF Chain
<1>3. DOMAIN pending = 1..Len(pending) /\ Len(pending) \in Nat
  BY PosIsNat DEF IInv, PendingOK
<1>4. /\ k = 0 => UNCHANGED <<pending, gaps>>
      /\ k # 0 => /\ k \in 1..Len(pending) /\ pending' = RemoveAt(pending, k)
                  /\ gaps' = gaps \o GapOf(pending[k], m)
  BY <1>1, <1>3 DEF Opened
<1>5. /\ m.offset \in Nat /\ m.offset <= Elapsed
      /\ \A c \in ToSet(outbox) : c.kind = "slept" => Apart(m.offset, c)
      /\ k # 0 => \A i \in DOMAIN tracks : tracks[i].slug = pending[k].prev =>
                    Explains(pending[k], tracks[i].offset, m.offset, ToSet(gaps))
  BY <1>1 DEF Holes, TrackMeta
<1> HIDE DEF m, k, n
<1>6. Elapsed' = Elapsed /\ Elapsed \in Nat
  BY <1>1, ElapsedIsNat DEF Elapsed, IInv
<1>7. /\ \A i \in DOMAIN tracks : tracks[i].slug # m.slug /\ tracks[i].slug # None
      /\ m.slug # None
  <2>1. \A i \in DOMAIN tracks : tracks[i].slug # m.slug
    BY <1>1 DEF IInv, SlugsTaken, UniqueFiles
  <2> QED
    BY <1>1, <2>1, TrackIs DEF TrackMeta, Slug
<1>8. \A j \in DOMAIN tracks : tracks[j].continues # m.slug
  <2> SUFFICES ASSUME NEW j \in DOMAIN tracks, tracks[j].continues = m.slug PROVE FALSE
    OBVIOUS
  <2>1. PICK l \in 1..(j - 1) : tracks[l].slug = m.slug
    BY <1>7 DEF Chain, SegmentChain
  <2>2. l \in DOMAIN tracks
    <3>1. DOMAIN tracks = 1..Len(tracks) /\ Len(tracks) \in Nat
      BY PosIsNat DEF IInv, TracksOK
    <3> QED
      BY <3>1
  <2> QED
    BY <1>7, <2>1, <2>2
<1>9. \A o \in DOMAIN pending : pending[o].prev # m.slug
  BY <1>7 DEF Chain, Left
<1>10. m.continues # m.slug
  BY <1>2, <1>3, <1>4, <1>7, <1>9
<1>11. /\ ToSet(gaps) \subseteq ToSet(gaps') /\ ToSet(gaps') \in SUBSET Gap
       /\ k # 0 /\ pending[k].reason = "device-lost" =>
            \E g \in ToSet(gaps') :
              /\ g.reason = "device-lost" /\ g.track = m.slug
              /\ g.from = pending[k].from /\ g.to = m.offset
  BY AddEncoderGaps DEF m, k
<1>12. \A l \in DOMAIN pending' : \E o \in DOMAIN pending : pending'[l] = pending[o]
  <2>1. CASE k = 0
    BY <1>4, <2>1
  <2>2. CASE k # 0
    BY <1>4, <2>2, RemoveAtKeeps DEF IInv, PendingOK
  <2> QED
    BY <2>1, <2>2
<1>13. \A i, j \in DOMAIN tracks' : tracks'[j].continues = tracks'[i].slug =>
         \E g \in ToSet(gaps') :
            /\ g.from <= g.to
            /\ \/ /\ g.reason = "device-lost" /\ g.track = tracks'[j].slug
                  /\ tracks'[i].offset <= g.from /\ g.to = tracks'[j].offset
               \/ /\ g.reason = "sleep" /\ g.to <= tracks'[j].offset
                  /\ tracks'[i].offset <= g.from \/ g.to <= tracks'[i].offset
  <2> SUFFICES ASSUME NEW i \in DOMAIN tracks', NEW j \in DOMAIN tracks',
                      tracks'[j].continues = tracks'[i].slug
               PROVE  \E g \in ToSet(gaps') :
                        /\ g.from <= g.to
                        /\ \/ /\ g.reason = "device-lost" /\ g.track = tracks'[j].slug
                              /\ tracks'[i].offset <= g.from /\ g.to = tracks'[j].offset
                           \/ /\ g.reason = "sleep" /\ g.to <= tracks'[j].offset
                              /\ tracks'[i].offset <= g.from \/ g.to <= tracks'[i].offset
    OBVIOUS
  <2>1. i \in DOMAIN tracks
    BY <1>1, <1>8, <1>10
  <2>2. CASE j \in DOMAIN tracks
    BY <1>1, <1>11, <2>1, <2>2 DEF Holes, Explained
  <2>3. CASE j = n
    <3>1. k # 0 /\ tracks[i].slug = pending[k].prev
      BY <1>1, <1>2, <1>7, <2>1, <2>3
    <3>2. Explains(pending[k], tracks[i].offset, m.offset, ToSet(gaps))
      BY <1>5, <2>1, <3>1
    <3>3. CASE /\ pending[k].reason = "device-lost" /\ tracks[i].offset <= pending[k].from
               /\ pending[k].from <= m.offset
      BY <1>1, <1>11, <2>1, <2>3, <3>1, <3>3
    <3>4. ASSUME NEW g \in ToSet(gaps), SleptThrough(g, tracks[i].offset, m.offset)
          PROVE  \E x \in ToSet(gaps') :
                    /\ x.from <= x.to /\ x.reason = "sleep" /\ x.to <= m.offset
                    /\ tracks[i].offset <= x.from \/ x.to <= tracks[i].offset
      BY <1>11, <3>4 DEF SleptThrough, Apart
    <3> QED
      BY <1>1, <2>1, <2>3, <3>2, <3>3, <3>4 DEF Explains
  <2> QED
    BY <1>1, <2>2, <2>3
<1>14. Explained'
  BY <1>13 DEF Explained
<1>15. ASSUME NEW l \in DOMAIN pending', NEW i \in DOMAIN tracks',
              tracks'[i].slug = pending'[l].prev
       PROVE  Explains(pending'[l], tracks'[i].offset, Elapsed, ToSet(gaps'))
  <2>1. PICK o \in DOMAIN pending : pending'[l] = pending[o]
    BY <1>12
  <2>2. i \in DOMAIN tracks
    BY <1>1, <1>9, <1>15, <2>1
  <2>3. Explains(pending[o], tracks[i].offset, Elapsed, ToSet(gaps))
    BY <1>1, <1>15, <2>1, <2>2 DEF Holes
  <2>4. /\ pending[o] \in PendingReopen /\ tracks[i].offset \in Nat
        /\ ToSet(gaps) \in SUBSET Gap
    BY <2>2, PendingIs, TrackIs, GapsAre DEF TrackMeta
  <2> QED
    BY <1>1, <1>6, <1>11, <2>1, <2>2, <2>3, <2>4, ExplainsLater
<1>16. \A i \in DOMAIN tracks' :
          /\ tracks'[i].offset <= Elapsed
          /\ \A c \in ToSet(outbox) : c.kind = "slept" => Apart(tracks'[i].offset, c)
  BY <1>1, <1>5 DEF Holes
<1>17. \A c \in ToSet(outbox) : c.kind = "slept" => c.from <= c.to /\ c.to <= Elapsed
  BY DEF Holes
<1>18. opening' = <<>> /\ DOMAIN opening' = {} /\ closing'.todo = {} /\ outbox' = outbox
  BY <1>1
<1> QED
  BY <1>6, <1>14, <1>15, <1>16, <1>17, <1>18 DEF Holes

\* What is opened now is opened after every sleep noticed.
LEMMA OpensHoles ==
    ASSUME IInv, Holes, NEW dev \in Devices, NEW k \in 0..Len(pending), Opens(dev, k)
    PROVE  Holes'
<1> DEFINE m == opening'[1].meta
<1>1. DOMAIN opening' = {1} /\ opening'[1].k = k /\ m.offset = Elapsed
  BY OpensShape
<1>2. /\ closing.todo = {}
      /\ UNCHANGED <<tracks, pending, gaps, closing, outbox, clock>>
  BY DEF Opens, BeginOpen
<1> HIDE DEF m
<1>3. Elapsed' = Elapsed /\ Elapsed \in Nat
  BY <1>2, ElapsedIsNat DEF Elapsed, IInv
<1>4. k # 0 => k \in DOMAIN pending
  BY PosIsNat DEF IInv, PendingOK
<1>5. \A c \in ToSet(outbox) : c.kind = "slept" => Apart(m.offset, c)
  BY <1>1 DEF Holes, Apart
<1>6. /\ \A i \in DOMAIN opening' : opening'[i].meta = m /\ opening'[i].k = k
      /\ m.offset <= Elapsed
  BY <1>1, <1>3 DEF m
<1>7. k # 0 => \A i \in DOMAIN tracks : tracks[i].slug = pending[k].prev =>
                 Explains(pending[k], tracks[i].offset, m.offset, ToSet(gaps))
  BY <1>1, <1>4 DEF Holes
<1>8. /\ Explained'
      /\ \A i \in DOMAIN tracks : tracks[i].offset <= Elapsed
      /\ \A c \in ToSet(outbox) : c.kind = "slept" =>
            /\ c.from <= c.to /\ c.to <= Elapsed
            /\ \A i \in DOMAIN tracks : Apart(tracks[i].offset, c)
      /\ \A l \in DOMAIN pending, i \in DOMAIN tracks : tracks[i].slug = pending[l].prev =>
            Explains(pending[l], tracks[i].offset, Elapsed, ToSet(gaps))
  BY <1>2 DEF Holes, Explained
<1> QED
  BY <1>2, <1>3, <1>5, <1>6, <1>7, <1>8 DEF Holes

\* Before the recording begins nothing is continued and nothing was missed.
LEMMA MakeTrackHoles ==
    ASSUME IInv, IInv', Calls, Paired, Chain, Holes, NEW dev \in Devices, MakeTrack(dev)
    PROVE  Holes'
<1> DEFINE n == Len(tracks) + 1
<1>1. /\ phase = "starting" /\ n \in Nat \ DOMAIN tracks
      /\ DOMAIN tracks' = DOMAIN tracks \cup {n}
      /\ \A i \in DOMAIN tracks : tracks'[i] = tracks[i]
      /\ tracks'[n].offset = 0 /\ tracks'[n].continues = None
      /\ UNCHANGED <<pending, gaps, closing, opening, outbox, clock>>
  BY MakeTrackShape
<1> HIDE DEF n
<1>2. /\ pending = <<>> /\ opening = <<>> /\ outbox = <<>> /\ closing.todo = {}
  BY <1>1 DEF Calls, Paired
<1>3. Elapsed' = Elapsed /\ Elapsed \in Nat
  BY <1>1, ElapsedIsNat DEF Elapsed, IInv
<1>4. \A i \in DOMAIN tracks' : tracks'[i].slug # None
                               /\ \A j \in DOMAIN tracks' : tracks'[j].slug = tracks'[i].slug => i = j
  <2>1. \A i \in DOMAIN tracks' : tracks'[i] \in TrackMeta
    BY ElementOfSeq, PosIsNat DEF IInv, TracksOK
  <2> QED
    BY <2>1 DEF IInv, SlugsTaken, UniqueFiles, TrackMeta, Slug
<1>5. \A j \in DOMAIN tracks : tracks[j].continues # tracks'[n].slug
  <2> SUFFICES ASSUME NEW j \in DOMAIN tracks, tracks[j].continues = tracks'[n].slug PROVE FALSE
    OBVIOUS
  <2>1. PICK l \in 1..(j - 1) : tracks[l].slug = tracks'[n].slug
    BY <1>1, <1>4 DEF Chain, SegmentChain
  <2>2. l \in DOMAIN tracks
    <3>1. DOMAIN tracks = 1..Len(tracks) /\ Len(tracks) \in Nat
      BY PosIsNat DEF IInv, TracksOK
    <3> QED
      BY <3>1
  <2> QED
    BY <1>1, <1>4, <2>1, <2>2
<1>6. Explained'
  <2>1. \A i, j \in DOMAIN tracks' : tracks'[j].continues = tracks'[i].slug =>
           i \in DOMAIN tracks /\ j \in DOMAIN tracks
    BY <1>1, <1>4, <1>5
  <2> QED
    BY <1>1, <2>1 DEF Holes, Explained
<1>7. \A i \in DOMAIN tracks' : tracks'[i].offset <= Elapsed
  BY <1>1, <1>3 DEF Holes
<1>8. /\ DOMAIN pending' = {} /\ DOMAIN opening' = {} /\ ToSet(outbox') = {} /\ closing'.todo = {}
  BY <1>1, <1>2 DEF ToSet
<1> QED
  BY <1>3, <1>6, <1>7, <1>8 DEF Holes

LEMMA TearsDownHoles ==
    ASSUME Calls, TearsDown
    PROVE  Holes'
<1>1. /\ tracks' = <<>> /\ outbox' = <<>> /\ pending' = <<>> /\ opening' = <<>> /\ closing'.todo = {}
  BY DEF TearsDown, Calls
<1>2. /\ DOMAIN tracks' = {} /\ DOMAIN opening' = {} /\ DOMAIN pending' = {} /\ ToSet(outbox') = {}
  BY <1>1 DEF ToSet
<1> QED
  BY <1>1, <1>2 DEF Holes, Explained

LEMMA NextHoles ==
    ASSUME IInv, IInv', Calls, Paired, Chain, Holes, [Next]_vars
    PROVE  Holes'
<1>1. Elapsed \in Nat /\ clock \in [mono: Nat, slept: Nat, lead: Nat]
  BY ElapsedIsNat DEF IInv, ClockOK
<1>2. CASE WorkerTick
  <2>1. PICK jump \in Nat :
          /\ Elapsed' = Elapsed + jump
          /\ \A m \in ToSet(outbox') :
               \/ m \in ToSet(outbox) \/ m.kind \in {"stalled", "resumed"}
               \/ jump > 0 /\ m = SleptMessage(Elapsed, Elapsed + jump)
    BY <1>2, TickShape
  <2>2. UNCHANGED <<tracks, gaps, closing, opening, pending>>
    BY <1>2 DEF WorkerTick, sessionVars
  <2>3. \A m \in ToSet(outbox') : m.kind = "slept" =>
           m \in ToSet(outbox) \/ (m.from = Elapsed /\ m.to = Elapsed')
    BY <2>1 DEF SleptMessage
  <2>4. Elapsed <= Elapsed'
    BY <1>1, <2>1
  <2> QED
    BY <2>2, <2>3, <2>4, CalmHoles
<1>3. CASE ClosesFile \/ FinishesAll
  <2>1. /\ UNCHANGED <<tracks, gaps, closing, opening, pending, clock>>
        /\ \A m \in ToSet(outbox') : m.kind = "slept" => m \in ToSet(outbox)
    <3>1. CASE ClosesFile
      BY <1>3, <3>1, CloseShape DEF ClosesFile, sessionVars
    <3>2. CASE FinishesAll
      BY <1>3, <3>2, FinishShape DEF FinishesAll, sessionVars
    <3> QED
      BY <1>3, <3>1, <3>2
  <2>2. Elapsed' = Elapsed
    BY <2>1 DEF Elapsed
  <2> QED
    BY <1>1, <2>1, <2>2, CalmHoles
<1>4. CASE TakesSignal
  <2>1. /\ UNCHANGED <<tracks, gaps, closing, opening, pending, clock>>
        /\ outbox # <<>> /\ outbox' = Tail(outbox)
    BY <1>4 DEF TakesSignal
  <2>2. ToSet(outbox') \subseteq ToSet(outbox) /\ Elapsed' = Elapsed
    BY <2>1, InboxIs, TailSet DEF Elapsed
  <2> QED
    BY <1>1, <2>1, <2>2, CalmHoles
<1>5. CASE Start \/ UNCHANGED vars
  <2>1. UNCHANGED <<tracks, gaps, closing, opening, pending, outbox, clock>>
    BY <1>5 DEF Start, vars, sessionVars, workerVars
  <2>2. Elapsed' = Elapsed
    BY <2>1 DEF Elapsed
  <2> QED
    BY <1>1, <2>1, <2>2, CalmHoles
<1>6. CASE Advance \/ Sleep
  <2>1. UNCHANGED <<tracks, gaps, closing, opening, pending, outbox>>
    BY <1>6 DEF Advance, Sleep, sessionVars
  <2>2. \/ clock' = [clock EXCEPT !.mono = @ + 1]
        \/ clock' = [clock EXCEPT !.lead = @ + SleepLen]
    BY <1>6 DEF Advance, Sleep
  <2>3. Elapsed <= Elapsed'
    BY <1>1, <2>2 DEF Elapsed
  <2> QED
    BY <2>1, <2>3, CalmHoles
<1>7. CASE Loses
  <2>1. /\ UNCHANGED <<tracks, gaps, opening, pending, outbox, clock>>
        /\ closing'.reason # "sleep"
    BY <1>7 DEF Loses, workerVars
  <2>2. Elapsed' = Elapsed
    BY <2>1 DEF Elapsed
  <2> QED
    BY <1>1, <2>1, <2>2, CalmHoles
<1>8. CASE AddEncoderFails \/ Looks
  <2>1. /\ UNCHANGED <<tracks, gaps, closing, outbox, clock>>
        /\ opening' = <<>>
    BY <1>8 DEF AddEncoderFails, Looks, workerVars
  <2>2. \/ UNCHANGED pending
        \/ \E k \in 1..Len(pending) : pending' = RemoveAt(pending, k)
    <3>1. CASE Looks
      BY <3>1 DEF Looks
    <3>2. CASE AddEncoderFails /\ poll.stage = "scan"
      <4>1. poll.k <= Len(pending)
        BY <3>2 DEF AddEncoderFails, IInv, WaitHolds
      <4>2. poll.k \in 1..Len(pending)
        BY <3>2, <4>1, PosIsNat DEF IInv, PollOK, PendingOK
      <4> QED
        BY <3>2, <4>2 DEF AddEncoderFails, PassOver
    <3>3. CASE AddEncoderFails /\ poll.stage # "scan"
      BY <3>3 DEF AddEncoderFails
    <3> QED
      BY <1>8, <3>1, <3>2, <3>3
  <2>3. \A l \in DOMAIN pending' : \E k \in DOMAIN pending : pending'[l] = pending[k]
    BY <2>2, RemoveAtKeeps DEF IInv, PendingOK
  <2>4. Elapsed' = Elapsed
    BY <2>1 DEF Elapsed
  <2> QED
    BY <1>1, <2>1, <2>3, <2>4, CalmHoles
<1>9. CASE Ends
  <2>1. /\ UNCHANGED <<tracks, gaps, closing, outbox, clock>>
        /\ opening' = <<>> /\ DOMAIN pending' = {}
    BY <1>9 DEF Ends
  <2>2. Elapsed' = Elapsed
    BY <2>1 DEF Elapsed
  <2> QED
    BY <1>1, <2>1, <2>2, CalmHoles
<1> QED
  BY <1>2, <1>3, <1>4, <1>5, <1>6, <1>7, <1>8, <1>9, StepKinds, TakesSleepHoles, CloseNextHoles,
     AddEncoderHoles, OpensHoles, MakeTrackHoles, TearsDownHoles

----------------------------------------------------------------------------
(* Where files are cut *)

\* While it records, a file is cut at the start of a sleep that is recorded or about to be.
Cuts == phase = "recording" => \A i \in DOMAIN enc : enc[i].suspended => enc[i].cap \in SleepStarts

LEMMA InitCuts == Init => Cuts
BY DEF Init, Cuts

LEMMA StartsKept ==
    ASSUME ToSet(gaps) \subseteq ToSet(gaps'),
           \A m \in ToSet(outbox) : m.kind = "slept" => m \in ToSet(outbox')
    PROVE  SleepStarts \subseteq SleepStarts'
BY DEF SleepStarts

LEMMA KeepCuts ==
    ASSUME Cuts, phase' = "recording" => phase = "recording",
           ToSet(gaps) \subseteq ToSet(gaps'),
           \A m \in ToSet(outbox) : m.kind = "slept" => m \in ToSet(outbox'),
           \A i \in DOMAIN enc' : enc'[i].suspended =>
               i \in DOMAIN enc /\ enc[i].suspended /\ enc'[i].cap = enc[i].cap
    PROVE  Cuts'
BY StartsKept DEF Cuts

\* What a tick cuts it cuts at the start of the sleep it announces.
LEMMA TickCutsAt ==
    ASSUME IInv, WorkerTick, NEW i \in DOMAIN enc, enc'[i].suspended
    PROVE  \/ enc[i].suspended /\ enc'[i].cap = enc[i].cap
           \/ \E m \in ToSet(outbox') : m.kind = "slept" /\ m.from = enc'[i].cap
<1>1. Elapsed \in Nat
  BY ElapsedIsNat DEF IInv
<1>2. PICK jump \in Nat :
        /\ \A j \in DOMAIN enc :
             /\ enc[j] \in EncTrack /\ CutAt(jump, j) \in EncTrack
             /\ LET d == Drained(CutAt(jump, j), Elapsed + jump)
                IN  d \in EncTrack /\ enc'[j] \in {d, [d EXCEPT !.stalled = TRUE]}
        /\ jump > 0 => SleptMessage(Elapsed, Elapsed + jump) \in ToSet(outbox')
  BY TickShape
<1> DEFINE c == CutAt(jump, i)
           d == Drained(c, Elapsed + jump)
<1>3. /\ enc[i] \in EncTrack /\ c \in EncTrack /\ d \in EncTrack
      /\ enc'[i] \in {d, [d EXCEPT !.stalled = TRUE]}
  BY <1>2
<1>4. c = enc[i] \/ (jump > 0 /\ c.cap = Elapsed)
  BY <1>1, <1>3, CutKeeps DEF CutAt
<1>5. d.suspended = c.suspended /\ d.cap = c.cap
  <2>1. Elapsed + jump \in Nat
    BY <1>1
  <2> HIDE DEF c
  <2> QED
    BY <1>3, <2>1, DrainedKeeps
<1> HIDE DEF c, d
<1>6. enc'[i].suspended = d.suspended /\ enc'[i].cap = d.cap
  BY <1>3 DEF EncTrack
<1>7. /\ SleptMessage(Elapsed, Elapsed + jump).kind = "slept"
      /\ SleptMessage(Elapsed, Elapsed + jump).from = Elapsed
  BY DEF SleptMessage
<1> QED
  BY <1>2, <1>4, <1>5, <1>6, <1>7

\* Closing files leaves the cuts where they are.
LEMMA FinishKeepsCuts ==
    ASSUME IInv, ClosesFile \/ FinishesAll, NEW i \in DOMAIN enc
    PROVE  enc'[i].suspended = enc[i].suspended /\ enc'[i].cap = enc[i].cap
<1>1. Elapsed \in Nat /\ enc[i] \in EncTrack
  BY ElapsedIsNat, EncIs DEF IInv
<1> DEFINE d == Drained(enc[i], Elapsed)
           f == Finished(d, Elapsed)
<1>2. ASSUME d \in EncTrack
      PROVE  f.suspended = enc[i].suspended /\ f.cap = enc[i].cap
  <2>1. d.suspended = enc[i].suspended /\ d.cap = enc[i].cap
    BY <1>1, DrainedKeeps
  <2> HIDE DEF d
  <2> QED
    BY <1>1, <1>2, <2>1, FinishedKeeps
<1>3. CASE ClosesFile
  <2> DEFINE h == Head(inbox).track
  <2>1. CASE i = h
    <3>1. /\ d \in EncTrack /\ f \in EncTrack
          /\ enc' = [enc EXCEPT ![i] = [f EXCEPT !.stalled = Head(inbox).detached]]
      BY <1>3, <2>1, CloseShape
    <3>2. f.suspended = enc[i].suspended /\ f.cap = enc[i].cap
      BY <1>2, <3>1
    <3> HIDE DEF f
    <3>3. enc'[i] = [f EXCEPT !.stalled = Head(inbox).detached]
      BY <3>1
    <3> QED
      BY <3>1, <3>2, <3>3 DEF EncTrack
  <2>2. CASE i # h
    BY <1>3, <2>2, CloseCloses
  <2> QED
    BY <2>1, <2>2
<1>4. CASE FinishesAll
  <2>1. CASE finalized
    BY <1>4, <2>1, FinishShape
  <2>2. CASE ~finalized
    <3>1. d \in EncTrack /\ enc'[i] = f
      BY <1>4, <2>2, FinishShape
    <3> QED
      BY <1>2, <3>1
  <2> QED
    BY <2>1, <2>2
<1> QED
  BY <1>3, <1>4

LEMMA NextCuts ==
    ASSUME IInv, IInv', Calls, Cuts, [Next]_vars
    PROVE  Cuts'
<1>1. CASE WorkerTick
  <2>1. /\ UNCHANGED <<phase, gaps>> /\ DOMAIN enc' = DOMAIN enc
        /\ ToSet(outbox) \subseteq ToSet(outbox')
    BY <1>1, TickShape DEF WorkerTick, sessionVars
  <2>2. SleepStarts \subseteq SleepStarts'
    BY <2>1, StartsKept
  <2>3. \A m \in ToSet(outbox') : m.kind = "slept" => m.from \in SleepStarts'
    BY DEF SleepStarts
  <2> SUFFICES ASSUME phase = "recording", NEW i \in DOMAIN enc, enc'[i].suspended
               PROVE  enc'[i].cap \in SleepStarts'
    BY <2>1 DEF Cuts
  <2> QED
    BY <1>1, <2>2, <2>3, TickCutsAt DEF Cuts
<1>2. CASE ClosesFile \/ FinishesAll
  <2>1. /\ UNCHANGED <<phase, gaps>> /\ DOMAIN enc' = DOMAIN enc
        /\ ToSet(outbox) \subseteq ToSet(outbox')
    <3>1. CASE ClosesFile
      BY <1>2, <3>1, CloseShape DEF sessionVars
    <3>2. CASE FinishesAll
      BY <1>2, <3>2, FinishShape DEF sessionVars
    <3> QED
      BY <1>2, <3>1, <3>2
  <2> QED
    BY <1>2, <2>1, FinishKeepsCuts, KeepCuts
<1>3. CASE TakesSignal
  <2>1. CASE phase = "recording"
    <3>1. /\ UNCHANGED <<phase, gaps, enc>> /\ outbox # <<>> /\ outbox' = Tail(outbox)
          /\ Head(outbox).kind # "slept"
      BY <1>3, <2>1 DEF TakesSignal
    <3>2. ToSet(outbox) = ToSet(outbox') \cup {Head(outbox)}
      BY <3>1, InboxIs, TailSet
    <3> QED
      BY <3>1, <3>2, KeepCuts
  <2>2. CASE phase # "recording"
    BY <1>3, <2>2 DEF TakesSignal, Cuts
  <2> QED
    BY <2>1, <2>2
<1>4. CASE TakesSleep
  <2> DEFINE g == [from |-> Head(outbox).from, to |-> Head(outbox).to, reason |-> "sleep",
                   track |-> None]
  <2>1. /\ outbox # <<>> /\ outbox' = Tail(outbox) /\ gaps' = Append(gaps, g)
        /\ UNCHANGED <<phase, enc>>
    BY <1>4 DEF TakesSleep
  <2>2. /\ ToSet(outbox) = ToSet(outbox') \cup {Head(outbox)} /\ Head(outbox) \in Message
    BY <2>1, InboxIs, TailSet, TailShape
  <2>3. g \in Gap
    BY <2>2 DEF Message, Gap, None
  <2>4. g.reason = "sleep" /\ g.from = Head(outbox).from
    OBVIOUS
  <2> HIDE DEF g
  <2>5. ToSet(gaps') = ToSet(gaps) \cup {g}
    BY <2>1, <2>3, GapsAre, AppendSet
  <2>6. SleepStarts \subseteq SleepStarts'
    BY <2>2, <2>4, <2>5 DEF SleepStarts
  <2> QED
    BY <2>1, <2>6 DEF Cuts
<1>5. CASE AddEncoder
  <2> DEFINE m == opening[1].meta
             n == Len(enc) + 1
  <2>1. /\ m \in TrackMeta /\ UNCHANGED <<phase, outbox>>
        /\ DOMAIN enc' = DOMAIN enc \cup {n} /\ enc'[n] = EncoderOf(m)
        /\ \A i \in DOMAIN enc : enc'[i] = enc[i]
    BY <1>5, AnswerShape
  <2>2. ToSet(gaps) \subseteq ToSet(gaps')
    BY <1>5, AddEncoderGaps
  <2> HIDE DEF m, n
  <2>3. ~enc'[n].suspended
    BY <2>1, EncoderShape
  <2> QED
    BY <2>1, <2>2, <2>3, KeepCuts
<1>6. CASE Start
  <2>1. enc' = [i \in DOMAIN tracks |-> EncoderOf(tracks[i])]
    BY <1>6 DEF Start
  <2>2. \A i \in DOMAIN tracks : ~EncoderOf(tracks[i]).suspended
    BY TrackIs, EncoderShape
  <2>3. \A i \in DOMAIN enc' : ~enc'[i].suspended
    BY <2>1, <2>2
  <2> QED
    BY <2>3 DEF Cuts
<1>7. CASE \/ Loses \/ CloseNext \/ Looks \/ AddEncoderFails \/ Advance \/ Sleep \/ UNCHANGED vars
           \/ \E dev \in Devices, k \in 0..Len(pending) : Opens(dev, k)
  <2>1. UNCHANGED <<phase, gaps, enc, outbox>>
    BY <1>7 DEF Loses, CloseNext, Looks, AddEncoderFails, Advance, Sleep, vars, sessionVars,
       workerVars, Opens, BeginOpen
  <2> QED
    BY <2>1, KeepCuts
<1>8. CASE Ends \/ TearsDown
  BY <1>8 DEF Ends, TearsDown, Cuts
<1>9. ASSUME NEW dev \in Devices, MakeTrack(dev) PROVE Cuts'
  BY <1>9 DEF MakeTrack, Cuts
<1> QED
  BY <1>1, <1>2, <1>3, <1>4, <1>5, <1>6, <1>7, <1>8, <1>9, StepKinds

\* The holes and the cuts, on top of Calls, Paired and Chain.
LEMMA HolesHolds == Spec => [](IInv /\ Calls /\ Paired /\ Chain /\ Holes /\ Cuts)
<1>1. Init => IInv /\ Calls /\ Paired /\ Chain /\ Holes /\ Cuts
  BY InitIInv, InitCalls, InitPaired, InitChain, InitHoles, InitCuts
<1>2. IInv /\ Calls /\ Paired /\ Chain /\ Holes /\ Cuts /\ [Next]_vars
         => (IInv /\ Calls /\ Paired /\ Chain /\ Holes /\ Cuts)'
  BY NextIInv, NextCalls, NextPaired, NextChain, NextHoles, NextCuts
<1> QED
  BY <1>1, <1>2, PTL DEF Spec

\* Whatever is missing between a segment and its continuation is recorded, whether a device was lost
\* or the machine slept, also when a track was opened while the sleep was being noticed; and while
\* recording no file is cut anywhere but where a sleep began.
THEOREM HolesExplainedHolds == Spec => []HolesExplained
<1>1. Holes /\ Cuts => HolesExplained
  BY DEF Holes, Explained, Cuts, HolesExplained
<1> QED
  BY <1>1, HolesHolds, PTL

----------------------------------------------------------------------------
(* What a queue of signals says about a track *)

About(q, i) ==
    {m \in DOMAIN q : q[m].kind \in {"stalled", "resumed"} /\ i \in q[m].tracks}

\* Whoever holds track i for stalled or not (b) before the queue does so (e) after its last signal.
Says(q, i, b, e) ==
    \/ About(q, i) = {} /\ b = e
    \/ \E m \in About(q, i) :
          (\A n \in About(q, i) : n <= m) /\ e = (q[m].kind = "stalled")

\* What one message leaves of it.
After(m, i, b) ==
    IF m.kind \in {"stalled", "resumed"} /\ i \in m.tracks THEN m.kind = "stalled" ELSE b

\* The first message is taken.
LEMMA TailSays ==
    ASSUME NEW q \in Seq(Message), q # <<>>, NEW i, NEW b, NEW e, Says(q, i, b, e)
    PROVE  Says(Tail(q), i, After(Head(q), i, b), e)
<1> DEFINE t == Tail(q)
<1>1. /\ \A j \in DOMAIN t : j + 1 \in DOMAIN q /\ t[j] = q[j + 1]
      /\ \A j \in DOMAIN q : j # 1 => j - 1 \in DOMAIN t /\ t[j - 1] = q[j]
      /\ Head(q) = q[1] /\ 1 \in DOMAIN q /\ t \in Seq(Message)
  <2>1. Len(q) \in Nat /\ Len(q) >= 1 /\ DOMAIN q = 1..Len(q)
    BY TailShape, PosIsNat
  <2> QED
    BY <2>1, TailShape
<1>2. DOMAIN q \subseteq Nat /\ DOMAIN t \subseteq Nat
  BY <1>1, PosIsNat
<1> HIDE DEF t
<1>3. \A j \in About(t, i) : j \in Nat /\ j + 1 \in About(q, i)
  BY <1>1, <1>2 DEF About
<1>4. \A j \in About(q, i) : j \in Nat /\ (j # 1 => j - 1 \in About(t, i) /\ t[j - 1] = q[j])
  BY <1>1, <1>2 DEF About
<1>5. CASE About(q, i) = {}
  <2>1. About(t, i) = {} /\ b = e
    BY <1>3, <1>5 DEF Says
  <2>2. ~(Head(q).kind \in {"stalled", "resumed"} /\ i \in Head(q).tracks)
    BY <1>1, <1>5 DEF About
  <2>3. After(Head(q), i, b) = b
    BY <2>2 DEF After
  <2> QED
    BY <2>1, <2>3 DEF Says, t
<1>6. ASSUME NEW m \in About(q, i), \A n \in About(q, i) : n <= m, e = (q[m].kind = "stalled")
      PROVE  Says(t, i, After(Head(q), i, b), e)
  <2>1. CASE m = 1
    <3>1. About(t, i) = {}
      <4> SUFFICES ASSUME NEW j \in About(t, i) PROVE FALSE
        OBVIOUS
      <4>1. j \in Nat /\ j + 1 <= 1 /\ j + 1 \in DOMAIN q
        BY <1>3, <1>6, <2>1 DEF About
      <4>2. j = 0
        BY <4>1
      <4>3. j \in DOMAIN t /\ 0 \notin DOMAIN t
        BY <1>1, PosIsNat DEF About
      <4> QED
        BY <4>2, <4>3
    <3>2. After(Head(q), i, b) = (q[m].kind = "stalled")
      BY <1>1, <2>1 DEF About, After
    <3> QED
      BY <1>6, <3>1, <3>2 DEF Says
  <2>2. CASE m # 1
    <3>1. m - 1 \in About(t, i) /\ t[m - 1] = q[m] /\ m \in Nat
      BY <1>4, <2>2
    <3>2. \A n \in About(t, i) : n <= m - 1
      <4> SUFFICES ASSUME NEW n \in About(t, i) PROVE n <= m - 1
        OBVIOUS
      <4>1. n \in Nat /\ n + 1 <= m
        BY <1>3, <1>6
      <4> QED
        BY <3>1, <4>1
    <3>3. e = (t[m - 1].kind = "stalled")
      BY <1>6, <3>1
    <3> QED
      BY <3>1, <3>2, <3>3 DEF Says
  <2> QED
    BY <2>1, <2>2
<1> QED
  BY <1>5, <1>6 DEF Says, t

\* More is said at the end.
LEMMA ConcatSays ==
    ASSUME NEW q \in Seq(Message), NEW r \in Seq(Message), NEW i, NEW b, NEW c, NEW e,
           Says(q, i, b, c), Says(r, i, c, e)
    PROVE  Says(q \o r, i, b, e)
<1> DEFINE s == q \o r
           l == Len(q)
<1>1. l \in Nat /\ Len(r) \in Nat /\ DOMAIN q = 1..l /\ DOMAIN r = 1..Len(r)
  BY PosIsNat
<1>2. /\ DOMAIN s = 1..(l + Len(r))
      /\ \A j \in 1..l : s[j] = q[j]
      /\ \A j \in (l + 1)..(l + Len(r)) : s[j] = r[j - l]
  BY ConcatShape
<1> HIDE DEF s, l
<1>3. \A j \in About(q, i) : j \in 1..l /\ j \in About(s, i) /\ s[j] = q[j]
  BY <1>1, <1>2 DEF About
<1>4. \A j \in About(r, i) : j \in 1..Len(r) /\ j + l \in About(s, i) /\ s[j + l] = r[j]
  <2> SUFFICES ASSUME NEW j \in About(r, i)
               PROVE  j \in 1..Len(r) /\ j + l \in About(s, i) /\ s[j + l] = r[j]
    OBVIOUS
  <2>1. j \in 1..Len(r)
    BY <1>1 DEF About
  <2>2. j + l \in (l + 1)..(l + Len(r)) /\ (j + l) - l = j /\ j + l \in 1..(l + Len(r))
    BY <1>1, <2>1
  <2>3. s[j + l] = r[j]
    BY <1>2, <2>2
  <2> QED
    BY <1>2, <2>1, <2>2, <2>3 DEF About
<1>5. \A j \in About(s, i) : j \in Nat /\ \/ j <= l /\ j \in About(q, i)
                                          \/ j > l /\ j - l \in About(r, i)
  <2> SUFFICES ASSUME NEW j \in About(s, i)
               PROVE  j \in Nat /\ \/ j <= l /\ j \in About(q, i)
                                   \/ j > l /\ j - l \in About(r, i)
    OBVIOUS
  <2>1. j \in 1..(l + Len(r)) /\ j \in Nat
    BY <1>1, <1>2 DEF About
  <2>2. CASE j <= l
    BY <1>1, <1>2, <2>1, <2>2 DEF About
  <2>3. CASE j > l
    <3>1. j \in (l + 1)..(l + Len(r)) /\ j - l \in 1..Len(r)
      BY <1>1, <2>1, <2>3
    <3>2. s[j] = r[j - l]
      BY <1>2, <3>1
    <3> QED
      BY <1>1, <2>1, <2>3, <3>1, <3>2 DEF About
  <2> QED
    BY <1>1, <2>1, <2>2, <2>3
<1>6. ASSUME NEW m \in About(r, i), \A n \in About(r, i) : n <= m, e = (r[m].kind = "stalled")
      PROVE  Says(s, i, b, e)
  <2>1. m \in 1..Len(r) /\ m + l \in About(s, i) /\ s[m + l] = r[m]
    BY <1>4
  <2>2. \A n \in About(s, i) : n <= m + l
    <3> SUFFICES ASSUME NEW n \in About(s, i) PROVE n <= m + l
      OBVIOUS
    <3>0. n \in Nat /\ m \in Nat
      BY <1>1, <1>5, <2>1
    <3>1. CASE n <= l
      BY <1>1, <3>0, <3>1
    <3>2. CASE n > l
      <4>1. n - l \in About(r, i)
        BY <1>1, <1>5, <3>0, <3>2
      <4>2. n - l <= m
        BY <1>6, <4>1
      <4> QED
        BY <1>1, <3>0, <4>2
    <3> QED
      BY <1>1, <3>0, <3>1, <3>2
  <2>3. e = (s[m + l].kind = "stalled")
    BY <1>6, <2>1
  <2> QED
    BY <2>1, <2>2, <2>3 DEF Says
<1>7. ASSUME About(r, i) = {}, c = e
      PROVE  Says(s, i, b, e)
  <2>1. \A n \in About(s, i) : n \in About(q, i)
    <3> SUFFICES ASSUME NEW n \in About(s, i) PROVE n \in About(q, i)
      OBVIOUS
    <3>1. n - l \notin About(r, i)
      BY <1>7
    <3> QED
      BY <1>5, <3>1
  <2>2. CASE About(q, i) = {} /\ b = c
    <3>1. About(s, i) = {} /\ b = e
      BY <1>7, <2>1, <2>2
    <3> QED
      BY <3>1 DEF Says
  <2>3. ASSUME NEW m \in About(q, i), \A n \in About(q, i) : n <= m, c = (q[m].kind = "stalled")
        PROVE  Says(s, i, b, e)
    <3>1. m \in About(s, i) /\ \A n \in About(s, i) : n <= m
      BY <1>3, <2>1, <2>3
    <3>2. e = (s[m].kind = "stalled")
      BY <1>3, <1>7, <2>3
    <3> QED
      BY <3>1, <3>2 DEF Says
  <2> QED
    BY <2>2, <2>3 DEF Says
<1> QED
  BY <1>6, <1>7 DEF Says, s

\* One signal.
LEMMA SignalSays ==
    ASSUME NEW kind \in {"stalled", "resumed"}, NEW S, NEW i, NEW b
    PROVE  Says(Signal(kind, S), i, b, IF i \in S THEN kind = "stalled" ELSE b)
<1> DEFINE q == Signal(kind, S)
<1>1. CASE S = {}
  <2>1. About(q, i) = {}
    BY <1>1 DEF Signal, About
  <2> QED
    BY <1>1, <2>1 DEF Says
<1>2. CASE S # {}
  <2>1. q = <<[kind |-> kind, tracks |-> S, from |-> 0, to |-> 0]>>
    BY <1>2 DEF Signal
  <2>2. DOMAIN q = {1} /\ q[1].kind = kind /\ q[1].tracks = S
    BY <2>1
  <2> HIDE DEF q
  <2>3. About(q, i) = IF i \in S THEN {1} ELSE {}
    BY <2>2 DEF About
  <2>4. CASE i \in S
    <3>1. \A n \in About(q, i) : n <= 1
      BY <2>3, <2>4
    <3> QED
      BY <2>2, <2>3, <2>4, <3>1 DEF Says, q
  <2>5. CASE i \notin S
    BY <2>3, <2>5 DEF Says, q
  <2> QED
    BY <2>4, <2>5
<1> QED
  BY <1>1, <1>2

\* A queue that is about nobody.
LEMMA SilentSays ==
    ASSUME NEW q \in Seq(Message), NEW i, NEW b, \A m \in ToSet(q) : m.tracks = {}
    PROVE  Says(q, i, b, b)
BY DEF Says, About, ToSet
\* A drained track may have come back; it does not stall.
LEMMA DrainedStalls ==
    ASSUME NEW t \in EncTrack, NEW now \in Nat
    PROVE  Drained(t, now).stalled \in BOOLEAN /\ (Drained(t, now).stalled => t.stalled)
<1>1. CASE t.closed \/ t.suspended
  BY <1>1 DEF Drained, EncTrack
<1>2. CASE ~(t.closed \/ t.suspended) /\ GotData(t)
  <2> DEFINE w == IF t.loopback THEN t.written + eng[t.slot].ring ELSE 0
  <2>1. Drained(t, now) = [t EXCEPT !.last = now, !.stalled = FALSE, !.written = w]
    BY <1>2 DEF Drained
  <2> HIDE DEF w
  <2> QED
    BY <2>1 DEF EncTrack
<1>3. CASE ~(t.closed \/ t.suspended) /\ ~GotData(t)
  <2>1. Drained(t, now) = Filled(t, now)
    BY <1>3 DEF Drained
  <2>2. Filled(t, now).stalled = t.stalled /\ t.stalled \in BOOLEAN
    BY FilledKeeps DEF EncTrack
  <2> QED
    BY <2>1, <2>2
<1> QED
  BY <1>1, <1>2, <1>3

\* Signals are about tracks of the worker.
Informed(q) == \A m \in ToSet(q) : m.tracks \subseteq DOMAIN enc

LEMMA SignalInformed == ASSUME NEW kind, NEW S \in SUBSET DOMAIN enc PROVE Informed(Signal(kind, S))
BY DEF Informed, Signal, ToSet

LEMMA ConcatInformed ==
    ASSUME NEW q \in Seq(Message), NEW r \in Seq(Message), Informed(q), Informed(r)
    PROVE  Informed(q \o r)
BY ConcatSet DEF Informed

\* What a tick changes about stalls, its signals say.
LEMMA TickSays ==
    ASSUME IInv, WorkerTick, Informed(outbox)
    PROVE  /\ Informed(outbox')
           /\ \A i \in DOMAIN enc : \A b \in BOOLEAN :
                Says(outbox, i, b, enc[i].stalled) => Says(outbox', i, b, enc'[i].stalled)
<1> USE DEF IInv
<1> DEFINE jump == IF ticked THEN SleepJump(clock.lead) ELSE 0
           now == Elapsed + jump
           cut == [i \in DOMAIN enc |-> IF jump > 0 THEN CutBySleep(enc[i], Elapsed) ELSE enc[i]]
           drained == [i \in DOMAIN enc |-> Drained(cut[i], now)]
           back == {i \in DOMAIN enc : enc[i].stalled /\ ~drained[i].stalled}
           late == {i \in DOMAIN enc : /\ ~drained[i].closed /\ ~drained[i].stalled
                                       /\ ~drained[i].suspended /\ Watched(drained[i])
                                       /\ IsStalled(now - drained[i].last)}
           nap == IF jump > 0 THEN Slept(Elapsed, now) ELSE <<>>
           A == Signal("resumed", back)
           B == Signal("stalled", late)
<1>1. TickAt(jump)
  BY DEF WorkerTick, Tick
<1>2. Elapsed \in Nat /\ jump \in Nat /\ now \in Nat
  BY ElapsedIsNat, JumpIsNat DEF ClockOK
<1>3. /\ enc' = [i \in DOMAIN enc |->
                   IF i \in late THEN [drained[i] EXCEPT !.stalled = TRUE] ELSE drained[i]]
      /\ outbox' = outbox \o nap \o A \o B
  BY <1>1 DEF TickAt
<1>4. \A i \in DOMAIN enc :
        /\ cut[i] = CutAt(jump, i) /\ drained[i] = Drained(cut[i], now)
        /\ i \in back <=> enc[i].stalled /\ ~drained[i].stalled
        /\ i \in late => ~drained[i].stalled
  BY DEF CutAt
<1>5. /\ back \in SUBSET DOMAIN enc /\ late \in SUBSET DOMAIN enc
      /\ back \in SUBSET Nat /\ late \in SUBSET Nat
  BY PosIsNat DEF EncOK
<1>6. nap \in Seq(Message) /\ \A m \in ToSet(nap) : m.tracks = {}
  <2>1. CASE jump > 0
    <3>1. nap = Slept(Elapsed, now)
      BY <2>1
    <3> HIDE DEF nap, now, jump
    <3> QED
      <4>1. nap \in Seq(Message) /\ ToSet(nap) = {SleptMessage(Elapsed, now)}
        BY <1>2, <3>1, SleptIsQueue, SleptSet
      <4>2. SleptMessage(Elapsed, now).tracks = {}
        BY DEF SleptMessage
      <4> QED
        BY <4>1, <4>2
  <2>2. CASE ~(jump > 0)
    <3>1. nap = <<>>
      BY <2>2
    <3> HIDE DEF nap, now, jump
    <3> QED
      BY <2>2, <3>1, EmptySeq DEF ToSet
  <2> QED
    BY <2>1, <2>2
<1> HIDE DEF jump, now, cut, drained, back, late, nap
<1>7. A \in Seq(Message) /\ B \in Seq(Message) /\ outbox \in Seq(Message)
  BY <1>5, SignalIsQueue DEF QueuesOK
<1>8. Informed(nap) /\ Informed(A) /\ Informed(B)
  BY <1>5, <1>6, SignalInformed DEF Informed
<1>9. \A i \in DOMAIN enc : \A b \in BOOLEAN :
        /\ Says(nap, i, b, b)
        /\ Says(A, i, b, IF i \in back THEN FALSE ELSE b)
        /\ Says(B, i, b, IF i \in late THEN TRUE ELSE b)
  <2> SUFFICES ASSUME NEW i \in DOMAIN enc, NEW b \in BOOLEAN
               PROVE  /\ Says(nap, i, b, b)
                      /\ Says(A, i, b, IF i \in back THEN FALSE ELSE b)
                      /\ Says(B, i, b, IF i \in late THEN TRUE ELSE b)
    OBVIOUS
  <2>1. Says(nap, i, b, b)
    BY <1>6, SilentSays
  <2>2. Says(A, i, b, IF i \in back THEN "resumed" = "stalled" ELSE b)
    BY SignalSays
  <2>3. Says(B, i, b, IF i \in late THEN "stalled" = "stalled" ELSE b)
    BY SignalSays
  <2>4. ("resumed" = "stalled") = FALSE /\ ("stalled" = "stalled") = TRUE
    OBVIOUS
  <2> QED
    BY <2>1, <2>2, <2>3, <2>4
<1> HIDE DEF A, B
<1>10. outbox \o nap \in Seq(Message) /\ outbox \o nap \o A \in Seq(Message)
  BY <1>6, <1>7, ConcatQueue
<1>11. Informed(outbox')
  <2>1. Informed(outbox \o nap)
    BY <1>6, <1>7, <1>8, ConcatInformed
  <2>2. Informed(outbox \o nap \o A)
    BY <1>7, <1>8, <1>10, <2>1, ConcatInformed
  <2>3. Informed(outbox \o nap \o A \o B)
    BY <1>7, <1>8, <1>10, <2>2, ConcatInformed
  <2>4. DOMAIN enc' = DOMAIN enc
    BY <1>3
  <2> QED
    BY <1>3, <2>3, <2>4 DEF Informed
<1>12. ASSUME NEW i \in DOMAIN enc, NEW b \in BOOLEAN, Says(outbox, i, b, enc[i].stalled)
       PROVE  Says(outbox', i, b, enc'[i].stalled)
  <2>1. /\ enc[i] \in EncTrack /\ cut[i] \in EncTrack /\ cut[i].stalled = enc[i].stalled
        /\ drained[i] = Drained(cut[i], now)
    <3>1. enc[i] \in EncTrack
      BY EncIs
    <3> QED
      BY <1>2, <1>4, <3>1, CutIsTrack, CutKeeps DEF CutAt
  <2>2. /\ drained[i].stalled \in BOOLEAN /\ enc[i].stalled \in BOOLEAN
        /\ drained[i].stalled => enc[i].stalled
    BY <1>2, <2>1, DrainedStalls DEF EncTrack
  <2>3. (IF i \in back THEN FALSE ELSE enc[i].stalled) = drained[i].stalled
    BY <1>4, <2>2
  <2>4. (IF i \in late THEN TRUE ELSE drained[i].stalled) = enc'[i].stalled
    <3>1. drained[i] \in EncTrack
      <4>1. cut[i] = CutAt(jump, i) /\ cut[i].slot \in DOMAIN eng
        <5>1. enc[i].slot \in DOMAIN eng
          BY <1>2, WorkedIsTrack
        <5>2. cut[i].slot = enc[i].slot
          BY <1>2, <1>4, <2>1, CutIsTrack DEF CutAt
        <5> QED
          BY <1>4, <5>1, <5>2
      <4> QED
        BY <1>2, <2>1, <4>1, DrainedIsTrack DEF EngOK
    <3>2. enc'[i] = IF i \in late THEN [drained[i] EXCEPT !.stalled = TRUE] ELSE drained[i]
      BY <1>3
    <3> QED
      BY <3>1, <3>2 DEF EncTrack
  <2>5. Says(outbox \o nap, i, b, enc[i].stalled)
    BY <1>6, <1>7, <1>9, <1>12, <2>2, ConcatSays
  <2>6. Says(outbox \o nap \o A, i, b, drained[i].stalled)
    <3>1. Says(A, i, enc[i].stalled, drained[i].stalled)
      BY <1>9, <2>2, <2>3
    <3> QED
      BY <1>7, <1>10, <2>5, <3>1, ConcatSays
  <2>7. Says(outbox \o nap \o A \o B, i, b, enc'[i].stalled)
    <3>1. Says(B, i, drained[i].stalled, enc'[i].stalled)
      BY <1>9, <2>2, <2>4
    <3> QED
      BY <1>7, <1>10, <2>6, <3>1, ConcatSays
  <2> QED
    BY <1>3, <2>7
<1> QED
  BY <1>11, <1>12

\* Closing a file says nothing of the other tracks.
LEMMA CloseSays ==
    ASSUME IInv, ClosesFile, Informed(outbox), Head(inbox).track \in DOMAIN enc
    PROVE  /\ Informed(outbox')
           /\ \A j \in DOMAIN enc \ {Head(inbox).track} : \A b \in BOOLEAN :
                Says(outbox, j, b, enc[j].stalled) => Says(outbox', j, b, enc'[j].stalled)
<1> USE DEF IInv
<1> DEFINE i == Head(inbox).track
           detached == Head(inbox).detached
           drained == Drained(enc[i], Elapsed)
           done == Finished(drained, Elapsed)
           a == IF enc[i].stalled /\ ~drained.stalled THEN {i} ELSE {}
           b == IF detached /\ ~done.stalled THEN {i} ELSE {}
           c == IF ~detached /\ done.stalled THEN {i} ELSE {}
           A == Signal("resumed", a)
           B == Signal("stalled", b)
           C == Signal("resumed", c)
<1>1. /\ enc' = [enc EXCEPT ![i] = [done EXCEPT !.stalled = detached]]
      /\ outbox' = outbox \o A \o B \o C
  BY DEF ClosesFile, CloseEncoder, CloseTrackFile
<1>2. /\ a \in SUBSET {i} /\ b \in SUBSET {i} /\ c \in SUBSET {i}
      /\ i \in DOMAIN enc /\ i \in Nat
  BY PosIsNat DEF EncOK
<1>3. DOMAIN enc' = DOMAIN enc /\ \A j \in DOMAIN enc \ {i} : enc'[j] = enc[j]
  BY <1>1
<1> HIDE DEF i, detached, drained, done, a, b, c
<1>4. A \in Seq(Message) /\ B \in Seq(Message) /\ C \in Seq(Message) /\ outbox \in Seq(Message)
  BY <1>2, SignalIsQueue DEF QueuesOK
<1>5. Informed(A) /\ Informed(B) /\ Informed(C)
  BY <1>2, SignalInformed
<1>6. \A j \in DOMAIN enc \ {i} : \A e \in BOOLEAN :
        Says(A, j, e, e) /\ Says(B, j, e, e) /\ Says(C, j, e, e)
  <2> SUFFICES ASSUME NEW j \in DOMAIN enc \ {i}, NEW e \in BOOLEAN
               PROVE  Says(A, j, e, e) /\ Says(B, j, e, e) /\ Says(C, j, e, e)
    OBVIOUS
  <2>1. j \notin a /\ j \notin b /\ j \notin c
    BY <1>2
  <2>2. ASSUME NEW kind \in {"stalled", "resumed"}, NEW S, j \notin S
        PROVE  Says(Signal(kind, S), j, e, e)
    <3>1. Says(Signal(kind, S), j, e, IF j \in S THEN kind = "stalled" ELSE e)
      BY SignalSays
    <3> QED
      BY <2>2, <3>1
  <2> QED
    BY <2>1, <2>2
<1> HIDE DEF A, B, C
<1>7. outbox \o A \in Seq(Message) /\ outbox \o A \o B \in Seq(Message)
  BY <1>4, ConcatQueue
<1>8. Informed(outbox')
  <2>1. Informed(outbox \o A)
    BY <1>4, <1>5, ConcatInformed
  <2>2. Informed(outbox \o A \o B)
    BY <1>4, <1>5, <1>7, <2>1, ConcatInformed
  <2>3. Informed(outbox \o A \o B \o C)
    BY <1>4, <1>5, <1>7, <2>2, ConcatInformed
  <2> QED
    BY <1>1, <1>3, <2>3 DEF Informed
<1>9. ASSUME NEW j \in DOMAIN enc \ {i}, NEW e \in BOOLEAN, Says(outbox, j, e, enc[j].stalled)
      PROVE  Says(outbox', j, e, enc'[j].stalled)
  <2>1. enc[j].stalled \in BOOLEAN
    BY EncIs DEF EncTrack
  <2>2. Says(outbox \o A, j, e, enc[j].stalled)
    BY <1>4, <1>6, <1>9, <2>1, ConcatSays
  <2>3. Says(outbox \o A \o B, j, e, enc[j].stalled)
    BY <1>4, <1>6, <1>7, <2>1, <2>2, ConcatSays
  <2>4. Says(outbox \o A \o B \o C, j, e, enc[j].stalled)
    BY <1>4, <1>6, <1>7, <2>1, <2>3, ConcatSays
  <2> QED
    BY <1>1, <1>3, <2>4
<1> QED
  BY <1>8, <1>9 DEF i
----------------------------------------------------------------------------
(* Names *)

\* A name belongs to one device.
OneDevice == \A d, e \in Devices : d.name = e.name => d = e

\* An open track is the newest of its name.
Newest == \A i \in OpenTracks : IsCurrent(i)

LEMMA OneOpen ==
    ASSUME IInv, Newest, NEW i \in OpenTracks, NEW j \in DOMAIN tracks, IsCurrent(j),
           tracks[i].dev.name = tracks[j].dev.name
    PROVE  i = j
<1>1. IsCurrent(i) /\ i \in Nat /\ j \in Nat
  BY PosIsNat DEF Newest, OpenTracks, IInv, TracksOK
<1>2. ~(j > i) /\ ~(i > j)
  BY <1>1 DEF IsCurrent
<1> QED
  BY <1>1, <1>2

\* A track of a name nobody has open is added.
LEMMA AddedNewest ==
    ASSUME IInv, Newest, NEW t,
           LET n == Len(tracks) + 1
           IN  /\ DOMAIN tracks' = DOMAIN tracks \cup {n} /\ tracks'[n] = t
               /\ \A i \in DOMAIN tracks : tracks'[i] = tracks[i],
           OpenNamed(t.dev.name) = {}
    PROVE  Newest'
<1> DEFINE n == Len(tracks) + 1
<1>1. /\ DOMAIN tracks' = DOMAIN tracks \cup {n} /\ tracks'[n] = t
      /\ \A i \in DOMAIN tracks : tracks'[i] = tracks[i]
  OBVIOUS
<1>2. /\ DOMAIN tracks = 1..Len(tracks) /\ Len(tracks) \in Nat
  BY PosIsNat DEF IInv, TracksOK
<1>3. n \in Nat /\ \A i \in DOMAIN tracks : i \in Nat /\ i < n
  BY <1>2
<1> HIDE DEF n
<1>4. ASSUME NEW i \in DOMAIN tracks', ~tracks'[i].closed, NEW j \in DOMAIN tracks', j > i
      PROVE  tracks'[j].dev.name # tracks'[i].dev.name
  <2>1. i \in DOMAIN tracks
    BY <1>1, <1>3, <1>4
  <2>2. i \in OpenTracks /\ tracks'[i] = tracks[i]
    BY <1>1, <1>4, <2>1 DEF OpenTracks
  <2>3. CASE j \in DOMAIN tracks
    BY <1>1, <1>4, <2>2, <2>3 DEF Newest, IsCurrent
  <2>4. CASE j = n
    BY <1>1, <2>2, <2>4 DEF OpenNamed
  <2> QED
    BY <1>1, <2>3, <2>4
<1> QED
  BY <1>4 DEF Newest, OpenTracks, IsCurrent

LEMMA NextNewest ==
    ASSUME OneDevice, IInv, Calls, Newest, [Next]_vars
    PROVE  Newest'
<1>1. CASE UNCHANGED tracks
  BY <1>1 DEF Newest, OpenTracks, IsCurrent
<1>2. CASE WorkerTick \/ ClosesFile \/ FinishesAll \/ AddEncoderFails \/ Start \/ Loses \/ Looks
           \/ TakesSignal \/ TakesSleep \/ Ends \/ Advance \/ Sleep \/ UNCHANGED vars
  BY <1>1, <1>2 DEF WorkerTick, ClosesFile, FinishesAll, AddEncoderFails, Start, Loses, Looks,
     TakesSignal, TakesSleep, Ends, Advance, Sleep, vars, sessionVars
<1>3. ASSUME NEW dev \in Devices, NEW k \in 0..Len(pending), Opens(dev, k) PROVE Newest'
  BY <1>1, <1>3 DEF Opens, BeginOpen
<1>4. ASSUME NEW dev \in Devices, MakeTrack(dev) PROVE Newest'
  <2> DEFINE n == Len(tracks) + 1
             t == tracks'[n]
  <2>1. /\ DOMAIN tracks' = DOMAIN tracks \cup {n} /\ t.dev = dev
        /\ \A i \in DOMAIN tracks : tracks'[i] = tracks[i]
    BY <1>4, MakeTrackShape
  <2>2. \A i \in DOMAIN tracks : tracks[i].dev.name # dev.name
    <3>1. \A i \in DOMAIN tracks : tracks[i].dev # dev
      BY <1>4 DEF MakeTrack, ToSet
    <3>2. \A i \in DOMAIN tracks : tracks[i].dev \in Devices
      BY TrackIs DEF TrackMeta
    <3> QED
      BY <3>1, <3>2 DEF OneDevice
  <2>3. OpenNamed(t.dev.name) = {}
    BY <2>1, <2>2 DEF OpenNamed, OpenTracks
  <2> HIDE DEF t
  <2> QED
    BY <2>1, <2>3, AddedNewest DEF t
<1>5. CASE CloseNext
  <2>1. /\ DOMAIN tracks' = DOMAIN tracks
        /\ \A j \in DOMAIN tracks : /\ tracks'[j].dev = tracks[j].dev
                                    /\ tracks[j].closed => tracks'[j].closed
    BY <1>5, CloseNextShape
  <2> QED
    BY <2>1 DEF Newest, OpenTracks, IsCurrent
<1>6. CASE AddEncoder
  <2> DEFINE m == opening[1].meta
             n == Len(tracks) + 1
  <2>1. /\ DOMAIN tracks' = DOMAIN tracks \cup {n} /\ tracks'[n] = m
        /\ \A i \in DOMAIN tracks : tracks'[i] = tracks[i]
        /\ opening # <<>>
    BY <1>6, AnswerShape
  <2>2. OpenNamed(m.dev.name) = {}
    BY <2>1 DEF IInv, WaitHolds
  <2> HIDE DEF m
  <2> QED
    BY <2>1, <2>2, AddedNewest
<1>7. CASE TearsDown
  BY <1>7 DEF TearsDown, Newest, OpenTracks
<1> QED
  BY <1>2, <1>3, <1>4, <1>5, <1>6, <1>7, StepKinds

\* A device that is looked for is not recorded under the same name, and is looked for once; what is
\* being opened has the name of none but the one it is opened for.
Sought ==
    /\ \A k \in DOMAIN pending, i \in OpenTracks : tracks[i].dev.name # pending[k].dev.name
    /\ \A k, l \in DOMAIN pending : pending[k].dev.id = pending[l].dev.id => k = l
    /\ \A x \in DOMAIN opening, l \in DOMAIN pending :
           pending[l].dev.name = opening[x].meta.dev.name => l = opening[x].k

LEMMA FewerSought ==
    ASSUME IInv, Sought, NEW k \in 1..Len(pending), pending' = RemoveAt(pending, k),
           UNCHANGED tracks, opening' = <<>>
    PROVE  Sought'
<1>1. /\ \A j \in DOMAIN pending' : Before(j, k) \in DOMAIN pending
                                     /\ pending'[j] = pending[Before(j, k)]
      /\ \A i, j \in DOMAIN pending' : Before(i, k) = Before(j, k) => i = j
  BY RemoveAtKeeps DEF IInv, PendingOK
<1> QED
  BY <1>1 DEF Sought, OpenTracks

\* An entry that answers to a device, by id or by name, is among those found.
LEMMA NobodyAnswers ==
    ASSUME NEW dev, PendingFor(dev) = {}
    PROVE  \A k \in DOMAIN pending : pending[k].dev.id # dev.id /\ pending[k].dev.name # dev.name
BY DEF PendingFor, Matching

LEMMA CloseNextSought ==
    ASSUME IInv, Calls, Newest, Sought, CloseNext
    PROVE  Sought'
<1>1. PICK i \in DOMAIN tracks :
        /\ ~tracks[i].closed /\ opening = <<>> /\ UNCHANGED opening
        /\ BeginReopen(i)
        /\ DOMAIN tracks' = DOMAIN tracks /\ tracks'[i].closed
        /\ \A j \in DOMAIN tracks :
             /\ tracks'[j].dev = tracks[j].dev
             /\ tracks[j].closed => tracks'[j].closed
  BY CloseNextShape
<1>2. \A j \in OpenTracks' : j \in OpenTracks /\ j # i /\ tracks'[j].dev = tracks[j].dev
  BY <1>1 DEF OpenTracks
<1>3. \A j \in OpenTracks' : tracks[j].dev.name # tracks[i].dev.name
  <2> SUFFICES ASSUME NEW j \in OpenTracks, j # i, tracks[j].dev.name = tracks[i].dev.name
               PROVE  FALSE
    BY <1>2
  <2>1. i \in OpenTracks /\ IsCurrent(i)
    BY <1>1 DEF OpenTracks, Newest
  <2> QED
    BY <2>1, OneOpen
<1>4. CASE UNCHANGED pending
  BY <1>1, <1>2, <1>4 DEF Sought
<1>5. CASE ~UNCHANGED pending
  <2> DEFINE p == [dev |-> tracks[i].dev, reason |-> closing.reason, prev |-> tracks[i].slug,
                   since |-> Elapsed,
                   from |-> IF closing.reason = "sleep" THEN closing.from ELSE Elapsed]
  <2>1. pending' = Append(pending, p) /\ PendingFor(tracks[i].dev) = {}
    BY <1>1, <1>5 DEF BeginReopen
  <2>2. p.dev = tracks[i].dev
    OBVIOUS
  <2> HIDE DEF p
  <2>3. pending \in Seq(PendingReopen \cup {p})
    BY SeqMono DEF IInv, PendingOK
  <2> DEFINE n == Len(pending) + 1
  <2>4. /\ DOMAIN pending' = DOMAIN pending \cup {n} /\ pending'[n] = p
        /\ \A k \in DOMAIN pending : pending'[k] = pending[k]
    BY <2>1, <2>3, AppendShape
  <2>5. \A k \in DOMAIN pending : pending[k].dev.id # p.dev.id
    BY <2>1, <2>2, NobodyAnswers
  <2> HIDE DEF n
  <2>6. \A k \in DOMAIN pending', j \in OpenTracks' : tracks'[j].dev.name # pending'[k].dev.name
    BY <1>2, <1>3, <2>2, <2>4 DEF Sought
  <2>7. \A k, l \in DOMAIN pending' : pending'[k].dev.id = pending'[l].dev.id => k = l
    BY <2>4, <2>5 DEF Sought
  <2> QED
    BY <1>1, <2>6, <2>7 DEF Sought
<1> QED
  BY <1>4, <1>5

LEMMA AddEncoderSought ==
    ASSUME IInv, Calls, Sought, AddEncoder
    PROVE  Sought'
<1> DEFINE m == opening[1].meta
           k == opening[1].k
           n == Len(tracks) + 1
<1>1. /\ k \in 0..Len(pending) /\ DOMAIN opening = {1} /\ opening' = <<>>
      /\ DOMAIN tracks' = DOMAIN tracks \cup {n} /\ tracks'[n] = m
      /\ \A i \in DOMAIN tracks : tracks'[i] = tracks[i]
      /\ Opened(m, k)
  BY AnswerShape
<1>2. DOMAIN pending = 1..Len(pending) /\ Len(pending) \in Nat
  BY PosIsNat DEF IInv, PendingOK
<1>3. \A l \in DOMAIN pending : l # k => pending[l].dev.name # m.dev.name
  BY <1>1 DEF Sought
<1>4. k = 0 => UNCHANGED pending
  BY <1>1 DEF Opened
<1>5. k # 0 => k \in 1..Len(pending) /\ pending' = RemoveAt(pending, k)
  BY <1>1, <1>2 DEF Opened
<1> HIDE DEF m, k, n
<1>6. /\ \A l \in DOMAIN pending' : \E o \in DOMAIN pending : o # k /\ pending'[l] = pending[o]
      /\ \A i, j \in DOMAIN pending' : pending'[i].dev.id = pending'[j].dev.id => i = j
  <2>1. CASE k = 0
    <3>1. \A l \in DOMAIN pending : l # k
      BY <1>2, <2>1
    <3> QED
      BY <1>4, <2>1, <3>1 DEF Sought
  <2>2. CASE k # 0
    <3>1. /\ \A j \in DOMAIN pending' : Before(j, k) \in DOMAIN pending /\ Before(j, k) # k
                                         /\ pending'[j] = pending[Before(j, k)]
          /\ \A i, j \in DOMAIN pending' : Before(i, k) = Before(j, k) => i = j
      BY <1>5, <2>2, RemoveAtKeeps DEF IInv, PendingOK
    <3> QED
      BY <3>1 DEF Sought
  <2> QED
    BY <2>1, <2>2
<1>7. ASSUME NEW l \in DOMAIN pending', NEW i \in OpenTracks'
      PROVE  tracks'[i].dev.name # pending'[l].dev.name
  <2>1. PICK o \in DOMAIN pending : o # k /\ pending'[l] = pending[o]
    BY <1>6
  <2>2. i \in DOMAIN tracks' /\ ~tracks'[i].closed
    BY DEF OpenTracks
  <2>3. CASE i \in DOMAIN tracks
    BY <1>1, <2>1, <2>2, <2>3 DEF Sought, OpenTracks
  <2>4. CASE i = n
    BY <1>1, <1>3, <2>1, <2>4
  <2> QED
    BY <1>1, <2>2, <2>3, <2>4
<1> QED
  BY <1>1, <1>6, <1>7 DEF Sought

LEMMA OpensSought ==
    ASSUME OneDevice, IInv, Sought, NEW dev \in Devices, NEW k \in 0..Len(pending), Opens(dev, k)
    PROVE  Sought'
<1> DEFINE m == opening'[1].meta
<1>1. /\ DOMAIN opening' = {1} /\ opening'[1].k = k /\ m.dev = dev
  BY OpensShape
<1>2. /\ UNCHANGED <<tracks, pending>>
      /\ k = 0 => PendingFor(dev) = {}
      /\ k # 0 => dev.id = pending[k].dev.id \/ dev.name = pending[k].dev.name
  BY DEF Opens, BeginOpen
<1> HIDE DEF m
<1>3. ASSUME NEW l \in DOMAIN pending, pending[l].dev.name = dev.name
      PROVE  l = k
  <2>1. pending[l].dev = dev
    BY <1>3, PendingIs DEF OneDevice, PendingReopen
  <2>2. k # 0
    BY <1>2, <1>3, NobodyAnswers
  <2>3. k \in DOMAIN pending
    BY <2>2, PosIsNat DEF IInv, PendingOK
  <2>4. pending[k].dev.id = dev.id
    BY <1>2, <2>2, <2>3, PendingIs DEF OneDevice, PendingReopen
  <2> QED
    BY <2>1, <2>3, <2>4 DEF Sought
<1> QED
  BY <1>1, <1>2, <1>3 DEF Sought, OpenTracks, m

LEMMA NextSought ==
    ASSUME OneDevice, IInv, Calls, Newest, Sought, [Next]_vars
    PROVE  Sought'
<1>1. CASE UNCHANGED <<tracks, pending, opening>>
  BY <1>1 DEF Sought, OpenTracks
<1>2. CASE WorkerTick \/ ClosesFile \/ FinishesAll \/ TakesSignal \/ TakesSleep \/ Loses \/ Start
           \/ Advance \/ Sleep \/ UNCHANGED vars
  BY <1>1, <1>2 DEF WorkerTick, ClosesFile, FinishesAll, TakesSignal, TakesSleep, Loses, Start,
     Advance, Sleep, vars, sessionVars
<1>3. CASE pending' = <<>> /\ opening' = <<>>
  BY <1>3 DEF Sought
<1>4. ASSUME NEW dev \in Devices, MakeTrack(dev) PROVE Sought'
  <2>1. phase = "starting" /\ UNCHANGED <<pending, opening>>
    BY <1>4, MakeTrackShape
  <2>2. pending = <<>> /\ opening = <<>>
    BY <2>1 DEF Calls
  <2> QED
    BY <1>3, <2>1, <2>2
<1>5. CASE Ends
  BY <1>3, <1>5 DEF Ends
<1>6. CASE TearsDown
  <2>1. pending' = <<>> /\ opening' = <<>>
    BY <1>6 DEF TearsDown, Calls
  <2> QED
    BY <1>3, <2>1
<1>7. ASSUME NEW dev \in Devices, NEW k \in 0..Len(pending), Opens(dev, k) PROVE Sought'
  BY <1>7, OpensSought
<1>8. CASE AddEncoder
  BY <1>8, AddEncoderSought
<1>9. CASE CloseNext
  BY <1>9, CloseNextSought
<1>10. ASSUME UNCHANGED tracks, opening' = <<>>,
              pending' = pending \/ \E k \in 1..Len(pending) : pending' = RemoveAt(pending, k)
       PROVE  Sought'
  <2>1. CASE pending' = pending
    BY <1>10, <2>1 DEF Sought, OpenTracks
  <2>2. ASSUME NEW k \in 1..Len(pending), pending' = RemoveAt(pending, k) PROVE Sought'
    BY <1>10, <2>2, FewerSought
  <2> QED
    BY <1>10, <2>1, <2>2
<1>11. CASE Looks
  BY <1>10, <1>11 DEF Looks
<1>12. CASE AddEncoderFails
  <2>1. /\ opening' = <<>> /\ UNCHANGED tracks
        /\ UNCHANGED pending \/ (poll.stage = "scan" /\ pending' = RemoveAt(pending, poll.k))
    BY <1>12 DEF AddEncoderFails, PassOver
  <2>2. poll.stage = "scan" => poll.k \in 1..Len(pending)
    <3>1. poll.stage = "scan" => poll.k <= Len(pending)
      BY <1>12 DEF AddEncoderFails, IInv, WaitHolds
    <3> QED
      BY <3>1, PosIsNat DEF IInv, PollOK, PendingOK
  <2> QED
    BY <1>10, <2>1, <2>2
<1> QED
  BY <1>2, <1>4, <1>5, <1>6, <1>7, <1>8, <1>9, <1>11, <1>12, StepKinds
----------------------------------------------------------------------------
(* Warnings *)

\* Before the recording there is no warning. While it records, the signals on their way turn the
\* warnings the session has for its open tracks into what the worker holds.
Warned ==
    /\ phase = "starting" => stalled = {}
    /\ phase = "recording" =>
         /\ Informed(outbox)
         /\ \A i \in OpenTracks :
                Says(outbox, i, tracks[i].dev.name \in stalled, enc[i].stalled)

LEMMA KeepWarned == Warned /\ UNCHANGED <<phase, tracks, stalled, outbox, enc>> => Warned'
BY DEF Warned, Informed, Says, About, OpenTracks

LEMMA TickWarned ==
    ASSUME IInv, Paired, Warned, WorkerTick
    PROVE  Warned'
<1>1. UNCHANGED <<phase, tracks, stalled>> /\ phase # "starting"
  BY DEF WorkerTick, sessionVars, Alive
<1>2. CASE phase # "recording"
  BY <1>1, <1>2 DEF Warned
<1>3. CASE phase = "recording"
  <2>1. /\ Informed(outbox')
        /\ \A i \in DOMAIN enc : \A b \in BOOLEAN :
             Says(outbox, i, b, enc[i].stalled) => Says(outbox', i, b, enc'[i].stalled)
    BY <1>3, TickSays DEF Warned
  <2>2. DOMAIN enc' = DOMAIN enc /\ DOMAIN enc = DOMAIN tracks
    BY <1>3, WorkerKeeps DEF Paired
  <2>3. Informed(outbox)'
    BY <2>1, <2>2 DEF Informed
  <2>4. ASSUME NEW i \in OpenTracks
        PROVE  Says(outbox', i, tracks[i].dev.name \in stalled, enc'[i].stalled)
    <3>1. i \in DOMAIN enc /\ (tracks[i].dev.name \in stalled) \in BOOLEAN
      BY <2>2 DEF OpenTracks
    <3>2. Says(outbox, i, tracks[i].dev.name \in stalled, enc[i].stalled)
      BY <1>3 DEF Warned
    <3> QED
      BY <2>1, <3>1, <3>2
  <2>5. \A i \in OpenTracks' : Says(outbox', i, tracks'[i].dev.name \in stalled', enc'[i].stalled)
    BY <1>1, <2>4 DEF OpenTracks
  <2>6. phase' # "starting"
    BY <1>1
  <2> QED
    BY <2>3, <2>5, <2>6 DEF Warned, Says, About
<1> QED
  BY <1>2, <1>3

LEMMA CloseWarned ==
    ASSUME IInv, Paired, Closes, Warned, ClosesFile
    PROVE  Warned'
<1> DEFINE c == Head(inbox).track
<1>1. /\ UNCHANGED <<phase, tracks, stalled>> /\ inbox # <<>> /\ Head(inbox).kind = "close"
      /\ c \notin DOMAIN enc => UNCHANGED <<enc, outbox>>
      /\ DOMAIN enc' = DOMAIN enc
  BY CloseShape DEF sessionVars
<1>2. CASE c \notin DOMAIN enc
  BY <1>1, <1>2, KeepWarned
<1>3. CASE phase # "recording"
  BY <1>1, <1>3 DEF Warned
<1>4. CASE c \in DOMAIN enc /\ phase = "recording"
  <2>1. tracks[c].closed
    <3>1. Head(inbox) \in ToSet(inbox)
      BY <1>1, InboxIs, TailSet
    <3> QED
      BY <1>1, <3>1 DEF Closes
  <2>2. DOMAIN enc = DOMAIN tracks
    BY <1>4 DEF Paired
  <2>3. /\ Informed(outbox')
        /\ \A j \in DOMAIN enc \ {c} : \A b \in BOOLEAN :
             Says(outbox, j, b, enc[j].stalled) => Says(outbox', j, b, enc'[j].stalled)
    BY <1>4, CloseSays DEF Warned
  <2> HIDE DEF c
  <2>4. ASSUME NEW i \in OpenTracks
        PROVE  Says(outbox', i, tracks[i].dev.name \in stalled, enc'[i].stalled)
    <3>1. i \in DOMAIN enc \ {c} /\ (tracks[i].dev.name \in stalled) \in BOOLEAN
      BY <2>1, <2>2 DEF OpenTracks
    <3>2. Says(outbox, i, tracks[i].dev.name \in stalled, enc[i].stalled)
      BY <1>4 DEF Warned
    <3> QED
      BY <2>3, <3>1, <3>2
  <2>5. \A i \in OpenTracks' : Says(outbox', i, tracks'[i].dev.name \in stalled', enc'[i].stalled)
    BY <1>1, <2>4 DEF OpenTracks
  <2>6. phase' # "starting" /\ Informed(outbox)'
    BY <1>1, <1>4, <2>3 DEF Informed
  <2> QED
    BY <2>5, <2>6 DEF Warned, Says, About
<1> QED
  BY <1>2, <1>3, <1>4

\* A signal is taken: the warnings follow the current tracks it is about.
LEMMA SignalWarned ==
    ASSUME IInv, Paired, Newest, Warned, TakesSignal \/ TakesSleep
    PROVE  Warned'
<1> DEFINE m == Head(outbox)
<1>1. /\ UNCHANGED <<phase, tracks, enc>>
      /\ outbox # <<>> /\ outbox' = Tail(outbox)
      /\ phase = "recording" => stalled' = Heard(m)
  <2>1. CASE TakesSignal
    BY <2>1 DEF TakesSignal
  <2>2. CASE TakesSleep
    BY <2>2 DEF TakesSleep, Heard
  <2> QED
    BY <2>1, <2>2
<1>2. phase # "starting"
  BY <1>1 DEF Paired
<1>3. CASE phase = "recording"
  <2>1. outbox \in Seq(Message) /\ ToSet(Tail(outbox)) \subseteq ToSet(outbox)
    BY <1>1, InboxIs, TailSet
  <2>2. Informed(outbox')
    BY <1>1, <1>3, <2>1 DEF Warned, Informed
  <2> HIDE DEF m
  <2>3. ASSUME NEW i \in OpenTracks
        PROVE  Says(outbox', i, tracks[i].dev.name \in stalled', enc[i].stalled)
    <3> DEFINE name == tracks[i].dev.name
    <3>1. i \in DOMAIN tracks /\ IsCurrent(i)
      BY DEF Newest, OpenTracks
    <3>3. Says(outbox, i, name \in stalled, enc[i].stalled)
      BY <1>3 DEF Warned
    <3>4. name \in {tracks[j].dev.name : j \in WarnCurrent(m.tracks)} <=> i \in m.tracks
      <4>1. ASSUME NEW j \in WarnCurrent(m.tracks), tracks[j].dev.name = name
            PROVE  i \in m.tracks
        <5>1. j \in m.tracks /\ IsCurrent(j) /\ j \in DOMAIN tracks
          BY DEF WarnCurrent, IsCurrent
        <5>2. i = j
          BY <4>1, <5>1, OneOpen
        <5> QED
          BY <5>1, <5>2
      <4>2. i \in m.tracks => i \in WarnCurrent(m.tracks)
        BY <3>1 DEF WarnCurrent
      <4> QED
        BY <4>1, <4>2
    <3> DEFINE about == {tracks[j].dev.name : j \in WarnCurrent(m.tracks)}
    <3>5. stalled' = CASE m.kind = "stalled" -> stalled \cup about
                       [] m.kind = "resumed" -> stalled \ about
                       [] OTHER -> stalled
      BY <1>1, <1>3 DEF Heard
    <3> HIDE DEF about, name
    <3>6. name \in about <=> i \in m.tracks
      BY <3>4 DEF about
    <3>7. (name \in stalled') = After(m, i, name \in stalled)
      <4>1. CASE m.kind = "stalled"
        BY <3>5, <3>6, <4>1 DEF After
      <4>2. CASE m.kind = "resumed"
        BY <3>5, <3>6, <4>2 DEF After
      <4>3. CASE m.kind \notin {"stalled", "resumed"}
        BY <3>5, <4>3 DEF After
      <4> QED
        BY <4>1, <4>2, <4>3
    <3>8. Says(Tail(outbox), i, After(m, i, name \in stalled), enc[i].stalled)
      BY <1>1, <2>1, <3>3, TailSays DEF m
    <3> QED
      BY <1>1, <3>7, <3>8 DEF name
  <2>4. \A i \in OpenTracks' : Says(outbox', i, tracks'[i].dev.name \in stalled', enc'[i].stalled)
    BY <1>1, <2>3 DEF OpenTracks
  <2>5. phase' # "starting" /\ Informed(outbox)'
    BY <1>1, <1>3, <2>2 DEF Informed
  <2> QED
    BY <2>4, <2>5 DEF Warned, Says, About
<1>4. CASE phase # "recording"
  BY <1>1, <1>2, <1>4 DEF Warned
<1> QED
  BY <1>3, <1>4

\* A track is added that nothing was said about yet, under a name nobody else has.
LEMMA AddEncoderWarned ==
    ASSUME IInv, Calls, Paired, Sought, Warned, AddEncoder
    PROVE  Warned'
<1> DEFINE m == opening[1].meta
           k == opening[1].k
           n == Len(tracks) + 1
<1>1. /\ m \in TrackMeta /\ k \in 0..Len(pending) /\ phase = "recording" /\ phase' = phase
      /\ opening # <<>> /\ n \notin DOMAIN tracks /\ UNCHANGED outbox
      /\ DOMAIN tracks' = DOMAIN tracks \cup {n} /\ tracks'[n] = m
      /\ \A i \in DOMAIN tracks : tracks'[i] = tracks[i]
      /\ DOMAIN enc' = DOMAIN enc \cup {Len(enc) + 1}
      /\ enc'[Len(enc) + 1] = EncoderOf(m)
      /\ \A i \in DOMAIN enc : enc'[i] = enc[i]
      /\ Opened(m, k)
  BY AnswerShape
<1>2. DOMAIN enc = DOMAIN tracks /\ Len(enc) = Len(tracks)
  BY <1>1, SameLength DEF Paired, IInv, EncOK, TracksOK
<1>3. EncoderOf(m).stalled = FALSE
  BY DEF EncoderOf, Encoder
<1>4. OpenNamed(m.dev.name) = {}
  BY <1>1 DEF IInv, WaitHolds
<1>5. k # 0 => k \in DOMAIN pending
  BY <1>1, PosIsNat DEF IInv, PendingOK
<1>6. /\ m.dev.name \notin stalled'
      /\ \A i \in OpenTracks : tracks[i].dev.name \in stalled' <=> tracks[i].dev.name \in stalled
  <2>1. \A i \in OpenTracks : tracks[i].dev.name # m.dev.name
    BY <1>4 DEF OpenNamed
  <2>2. CASE k = 0
    <3>1. stalled' = stalled \ {m.dev.name}
      BY <1>1, <2>2 DEF Opened
    <3> HIDE DEF m
    <3> QED
      BY <2>1, <3>1
  <2>3. CASE k # 0
    <3>1. stalled' = stalled \ {m.dev.name, pending[k].dev.name}
      BY <1>1, <2>3 DEF Opened
    <3>2. \A i \in OpenTracks : tracks[i].dev.name # pending[k].dev.name
      BY <1>5, <2>3 DEF Sought, OpenNamed
    <3> HIDE DEF m, k
    <3> QED
      BY <2>1, <3>1, <3>2
  <2> QED
    BY <2>2, <2>3
<1>7. Informed(outbox) /\ About(outbox, n) = {}
  <2>1. Informed(outbox)
    BY <1>1 DEF Warned
  <2> QED
    BY <1>1, <1>2, <2>1 DEF Informed, About, ToSet
<1> HIDE DEF m, k, n
<1>8. ASSUME NEW i \in DOMAIN tracks', ~tracks'[i].closed
      PROVE  Says(outbox, i, tracks'[i].dev.name \in stalled', enc'[i].stalled)
  <2>1. CASE i = n
    <3>1. (tracks'[i].dev.name \in stalled') = enc'[i].stalled
      <4>1. tracks'[i].dev.name \notin stalled'
        BY <1>1, <1>6, <2>1
      <4>2. enc'[i].stalled = FALSE
        BY <1>1, <1>2, <1>3, <2>1 DEF n
      <4>3. (tracks'[i].dev.name \in stalled') = FALSE
        BY <4>1
      <4> QED
        BY <4>2, <4>3, Zenon
    <3> QED
      BY <1>7, <2>1, <3>1 DEF Says
  <2>2. CASE i \in DOMAIN tracks
    <3>1. i \in OpenTracks
      BY <1>1, <1>8, <2>2 DEF OpenTracks
    <3>2. Says(outbox, i, tracks[i].dev.name \in stalled, enc[i].stalled)
      BY <1>1, <3>1 DEF Warned
    <3>3. (tracks'[i].dev.name \in stalled') = (tracks[i].dev.name \in stalled)
      BY <1>1, <1>6, <2>2, <3>1
    <3>4. enc'[i] = enc[i]
      BY <1>1, <1>2, <2>2
    <3> QED
      BY <3>2, <3>3, <3>4
  <2> QED
    BY <1>1, <2>1, <2>2
<1>9. \A i \in OpenTracks' : Says(outbox', i, tracks'[i].dev.name \in stalled', enc'[i].stalled)
  BY <1>1, <1>8 DEF OpenTracks
<1>10. phase' # "starting" /\ Informed(outbox)'
  BY <1>1, <1>7 DEF Informed
<1> QED
  BY <1>9, <1>10 DEF Warned, Says, About

LEMMA NextWarned ==
    ASSUME IInv, Calls, Paired, Ending, Closes, Newest, Sought, Warned, [Next]_vars
    PROVE  Warned'
<1>1. CASE AddEncoderFails \/ Loses \/ Looks \/ Advance \/ Sleep \/ UNCHANGED vars
  BY <1>1, KeepWarned DEF AddEncoderFails, Loses, Looks, Advance, Sleep, vars, sessionVars, workerVars
<1>2. CASE WorkerTick
  BY <1>2, TickWarned
<1>3. CASE ClosesFile
  BY <1>3, CloseWarned
<1>4. CASE TakesSignal \/ TakesSleep
  BY <1>4, SignalWarned
<1>5. CASE AddEncoder
  BY <1>5, AddEncoderWarned
<1>6. CASE FinishesAll
  <2>1. UNCHANGED phase /\ inbox # <<>> /\ Head(inbox).kind = "finalize"
    BY <1>6, FinishShape DEF sessionVars
  <2>2. Head(inbox) \in ToSet(inbox)
    BY <2>1, InboxIs, TailSet
  <2>3. phase \notin {"starting", "recording"}
    BY <2>1, <2>2 DEF Ending
  <2> QED
    BY <2>1, <2>3 DEF Warned
<1>7. CASE Ends \/ TearsDown
  <2>1. phase' \notin {"starting", "recording"}
    BY <1>7 DEF Ends, TearsDown
  <2> QED
    BY <2>1 DEF Warned
<1>8. ASSUME NEW dev \in Devices, MakeTrack(dev) PROVE Warned'
  BY <1>8 DEF MakeTrack, Warned
<1>9. ASSUME NEW dev \in Devices, NEW k \in 0..Len(pending), Opens(dev, k) PROVE Warned'
  BY <1>9, KeepWarned DEF Opens, BeginOpen
<1>10. CASE Start
  <2>1. /\ phase' = "recording" /\ phase = "starting"
        /\ UNCHANGED <<tracks, stalled, outbox>> /\ stalled = {} /\ outbox = <<>>
        /\ enc' = [i \in DOMAIN tracks |-> EncoderOf(tracks[i])]
    BY <1>10 DEF Start, Warned, Paired
  <2>2. \A i \in DOMAIN tracks : enc'[i].stalled = FALSE
    BY <2>1 DEF EncoderOf, Encoder
  <2>3. \A i : About(outbox', i) = {}
    BY <2>1 DEF About
  <2>4. \A i \in OpenTracks' : Says(outbox', i, tracks'[i].dev.name \in stalled', enc'[i].stalled)
    <3> SUFFICES ASSUME NEW i \in OpenTracks'
                 PROVE  Says(outbox', i, tracks'[i].dev.name \in stalled', enc'[i].stalled)
      OBVIOUS
    <3>1. (tracks'[i].dev.name \in stalled') = enc'[i].stalled
      <4>1. tracks'[i].dev.name \notin stalled'
        BY <2>1
      <4>2. enc'[i].stalled = FALSE
        BY <2>1, <2>2 DEF OpenTracks
      <4>3. (tracks'[i].dev.name \in stalled') = FALSE
        BY <4>1
      <4> QED
        BY <4>2, <4>3, Zenon
    <3> QED
      BY <2>3, <3>1 DEF Says
  <2>5. Informed(outbox)'
    BY <2>1 DEF Informed, ToSet
  <2> QED
    BY <2>1, <2>4, <2>5 DEF Warned, Says, About
<1>11. CASE CloseNext
  <2>1. /\ DOMAIN tracks' = DOMAIN tracks /\ UNCHANGED <<phase, stalled, outbox, enc>>
        /\ \A j \in DOMAIN tracks : /\ tracks'[j].dev = tracks[j].dev
                                    /\ tracks[j].closed => tracks'[j].closed
    BY <1>11, CloseNextShape
  <2>2. \A i \in OpenTracks' : i \in OpenTracks /\ tracks'[i].dev = tracks[i].dev
    BY <2>1 DEF OpenTracks
  <2> QED
    BY <2>1, <2>2 DEF Warned, Informed, Says, About
<1> QED
  BY <1>1, <1>2, <1>3, <1>4, <1>5, <1>6, <1>7, <1>8, <1>9, <1>10, <1>11, StepKinds

LEMMA WarnedHolds ==
    ASSUME OneDevice
    PROVE  Spec => [](Closing /\ Newest /\ Sought /\ Warned)
<1>1. Init => Newest /\ Sought /\ Warned
  BY DEF Init, Newest, Sought, Warned, OpenTracks
<1>2. Closing /\ Newest /\ Sought /\ Warned /\ [Next]_vars => (Newest /\ Sought /\ Warned)'
  BY NextNewest, NextSought, NextWarned DEF Closing
<1> QED
  BY <1>1, <1>2, ClosingHolds, PTL DEF Spec

\* With no signal on its way what the session holds is what the worker holds.
LEMMA WarnedTrue == IInv /\ Warned => WarningsTrue
<1> SUFFICES ASSUME IInv, Warned, phase = "recording", outbox = <<>>, NEW i \in OpenTracks
             PROVE  tracks[i].dev.name \in stalled <=> enc[i].stalled
  BY DEF WarningsTrue
<1>1. Says(outbox, i, tracks[i].dev.name \in stalled, enc[i].stalled)
  BY DEF Warned
<1>2. About(outbox, i) = {}
  BY DEF About
<1>3. (tracks[i].dev.name \in stalled) = enc[i].stalled
  BY <1>1, <1>2 DEF Says
<1> QED
  BY <1>3

\* Once the queues are empty a recording device has a stall warning exactly when the worker holds its
\* track for stalled, over re-opens, renamed devices and late signals of earlier segments, as long as
\* no two devices have the same name: the session keeps its warnings by name, the worker by track.
THEOREM WarningsTrueHolds ==
    ASSUME OneDevice
    PROVE  Spec => []WarningsTrue
BY WarnedHolds, WarnedTrue, PTL DEF Closing
=============================================================================
