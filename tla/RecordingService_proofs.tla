----------------------- MODULE RecordingService_proofs -----------------------
(***************************************************************************)
(* What holds of the service for any devices and any number of recordings, *)
(* when its callers start a recording only while it is idle, whenever they *)
(* stop one.                                                               *)
(***************************************************************************)
EXTENDS RecordingService, SequenceTheorems, FiniteSetTheorems, TLAPS

\* The shells' guard: RecordingService itself only refuses to start while it records.
Guarded == StartStates \subseteq {"idle"}

----------------------------------------------------------------------------
(* Sequences *)

LEMMA AppendToSet ==
    ASSUME NEW S, NEW s \in Seq(S), NEW x \in S
    PROVE  /\ Append(s, x) \in Seq(S) /\ Len(Append(s, x)) = Len(s) + 1
           /\ ToSet(Append(s, x)) = ToSet(s) \cup {x}
<1>1. /\ Append(s, x) \in Seq(S) /\ Len(Append(s, x)) = Len(s) + 1
      /\ \A i \in 1..Len(s) : Append(s, x)[i] = s[i]
      /\ Append(s, x)[Len(s) + 1] = x
  BY AppendProperties
<1>2. DOMAIN s = 1..Len(s) /\ DOMAIN Append(s, x) = 1..(Len(s) + 1) /\ Len(s) \in Nat
  BY <1>1, LenProperties
<1>3. 1..(Len(s) + 1) = (1..Len(s)) \cup {Len(s) + 1}
  BY <1>2
<1> QED
  BY <1>1, <1>2, <1>3 DEF ToSet

LEMMA EmptyToSet == <<>> \in Seq(Names) /\ Len(<<>>) = 0 /\ ToSet(<<>>) = {}
BY EmptySeq DEF ToSet

\* The names of a sequence of names are names.
LEMMA ToSetOfNames == ASSUME NEW s \in Seq(Names) PROVE ToSet(s) \subseteq Names
<1>1. DOMAIN s = 1..Len(s) /\ \A i \in 1..Len(s) : s[i] \in Names
  BY LenProperties, ElementOfSeq
<1> QED
  BY <1>1 DEF ToSet

----------------------------------------------------------------------------
(* The invariant *)

BooksOK == /\ alive \in BOOLEAN /\ state \in States
           /\ present \subseteq Names /\ recNames \in Seq(Names)
           /\ recClosed \subseteq Names /\ recOff \subseteq Names
           /\ recMissing \in [Names -> 0..1]
           /\ recheck \in BOOLEAN /\ held \in BOOLEAN /\ watching \in BOOLEAN

SessionsOK == sessions \in Seq(SessionRecord)

SavedOK == saved \subseteq DOMAIN sessions

\* The service has a session exactly while it is not idle, in the state the service shows.
SessionShown ==
    /\ state = "idle" => session = 0
    /\ state # "idle" => session \in DOMAIN sessions
    /\ state # "idle" /\ alive => Current.st = state

\* No session but the service's records or encodes.
OnlySession ==
    \A s \in DOMAIN sessions : sessions[s].st \in {"recording", "encoding"} => s = session

\* What is given back between recordings.
Released == state = "idle" => ~held /\ ~watching /\ recNames = <<>>

TracksBounded == Len(recNames) <= MaxTracks

IInv == /\ BooksOK /\ SessionsOK /\ SavedOK /\ SessionShown /\ OnlySession /\ Released
        /\ TracksBounded /\ LiveMatchesOpen /\ LevelsNamed

----------------------------------------------------------------------------
(* Sessions *)

LEMMA RecordFields ==
    ASSUME SessionsOK, NEW s \in DOMAIN sessions
    PROVE  /\ sessions[s] \in SessionRecord
           /\ sessions[s].st \in {"recording", "encoding", "doomed", "gone"}
           /\ sessions[s].tracks \in Seq(Names)
           /\ sessions[s].open \subseteq Names /\ sessions[s].pending \subseteq Names
           /\ s # 0
<1>1. DOMAIN sessions = 1..Len(sessions) /\ Len(sessions) \in Nat
  BY LenProperties DEF SessionsOK
<1>2. sessions[s] \in SessionRecord /\ s # 0
  BY <1>1, ElementOfSeq DEF SessionsOK
<1> QED
  BY <1>2 DEF SessionRecord

\* A map over the sessions to session records is a list of sessions.
LEMMA MapSessions ==
    ASSUME SessionsOK, NEW f, f = [s \in DOMAIN sessions |-> f[s]],
           \A s \in DOMAIN sessions : f[s] \in SessionRecord
    PROVE  f \in Seq(SessionRecord) /\ DOMAIN f = DOMAIN sessions
<1>1. DOMAIN sessions = 1..Len(sessions) /\ Len(sessions) \in Nat
  BY LenProperties DEF SessionsOK
<1>2. f \in [1..Len(sessions) -> SessionRecord]
  BY <1>1
<1> QED
  BY <1>1, <1>2

LEMMA ChangeOne ==
    ASSUME SessionsOK, NEW s \in DOMAIN sessions, NEW rec \in SessionRecord,
           sessions' = [sessions EXCEPT ![s] = rec]
    PROVE  /\ SessionsOK' /\ DOMAIN sessions' = DOMAIN sessions /\ sessions'[s] = rec
           /\ \A t \in DOMAIN sessions : t # s => sessions'[t] = sessions[t]
<1> DEFINE f == [sessions EXCEPT ![s] = rec]
<1>1. f = [t \in DOMAIN sessions |-> f[t]]
  OBVIOUS
<1>2. \A t \in DOMAIN sessions : f[t] = IF t = s THEN rec ELSE sessions[t]
  OBVIOUS
<1>3. \A t \in DOMAIN sessions : f[t] \in SessionRecord
  BY <1>2, RecordFields
<1>4. sessions' = f
  OBVIOUS
<1> HIDE DEF f
<1>5. f \in Seq(SessionRecord) /\ DOMAIN f = DOMAIN sessions
  BY <1>1, <1>3, MapSessions
<1> QED
  BY <1>2, <1>4, <1>5 DEF SessionsOK

\* A session that starts becomes the last of the list.
LEMMA AppendSession ==
    ASSUME SessionsOK, NEW rec \in SessionRecord, sessions' = Append(sessions, rec)
    PROVE  /\ SessionsOK' /\ DOMAIN sessions' = DOMAIN sessions \cup {Len(sessions) + 1}
           /\ sessions'[Len(sessions) + 1] = rec
           /\ \A s \in DOMAIN sessions : sessions'[s] = sessions[s] /\ s # Len(sessions) + 1
<1>1. /\ Append(sessions, rec) \in Seq(SessionRecord)
      /\ Len(Append(sessions, rec)) = Len(sessions) + 1
      /\ \A i \in 1..Len(sessions) : Append(sessions, rec)[i] = sessions[i]
      /\ Append(sessions, rec)[Len(sessions) + 1] = rec
  BY AppendProperties DEF SessionsOK
<1>2. /\ DOMAIN sessions = 1..Len(sessions) /\ Len(sessions) \in Nat
      /\ DOMAIN sessions' = 1..Len(sessions')
  BY <1>1, LenProperties DEF SessionsOK
<1>3. 1..(Len(sessions) + 1) = (1..Len(sessions)) \cup {Len(sessions) + 1}
  BY <1>2
<1> QED
  BY <1>1, <1>2, <1>3 DEF SessionsOK

LEMMA NewSessionOK ==
    ASSUME NEW st \in {"recording", "encoding", "doomed", "gone"}, NEW names \in Seq(Names)
    PROVE  NewSession(st, names) \in SessionRecord
BY ToSetOfNames DEF NewSession, SessionRecord

\* The session that records is the service's.
LEMMA RecordingIsCurrent ==
    ASSUME IInv, alive, NEW s, Is(s, "recording")
    PROVE  s = session /\ session \in DOMAIN sessions /\ state = "recording"
<1>1. s \in DOMAIN sessions /\ s # 0
  BY RecordFields DEF Is, IInv
<1>2. s = session
  BY <1>1 DEF Is, IInv, OnlySession
<1>3. state # "idle"
  BY <1>1, <1>2 DEF IInv, SessionShown
<1> QED
  BY <1>1, <1>2, <1>3 DEF Is, IInv, SessionShown, Current

\* A recording session opens and closes tracks: nothing but the books depends on which.
LEMMA TracksChange ==
    ASSUME IInv, alive, NEW rec \in SessionRecord,
           Is(session, "recording"), rec.st = "recording",
           sessions' = [sessions EXCEPT ![session] = rec],
           UNCHANGED <<alive, state, session, held, watching, saved>>,
           recNames' = recNames \/ state = "recording"
    PROVE  /\ SessionsOK' /\ SavedOK' /\ SessionShown' /\ OnlySession' /\ Released'
           /\ Current' = rec
<1>1. session \in DOMAIN sessions /\ state = "recording"
  BY RecordingIsCurrent
<1>2. /\ SessionsOK' /\ DOMAIN sessions' = DOMAIN sessions /\ sessions'[session] = rec
      /\ \A t \in DOMAIN sessions : t # session => sessions'[t] = sessions[t]
  BY <1>1, ChangeOne DEF IInv
<1>3. SavedOK' /\ Released'
  BY <1>1, <1>2 DEF IInv, SavedOK, Released
<1>4. SessionShown' /\ Current' = rec
  BY <1>1, <1>2 DEF IInv, SessionShown, Current
<1>5. OnlySession'
  BY <1>1, <1>2 DEF IInv, OnlySession
<1> QED
  BY <1>2, <1>3, <1>4, <1>5

----------------------------------------------------------------------------
(* Every action *)

LEMMA InitIInv == Init => IInv
<1> SUFFICES ASSUME Init PROVE IInv
  OBVIOUS
<1>1. /\ <<>> \in Seq(SessionRecord) /\ DOMAIN <<>> = {}
      /\ <<>> \in Seq(Names) /\ Len(<<>>) = 0
  BY EmptySeq
<1>2. BooksOK /\ SessionsOK /\ SavedOK
  <2>1. [n \in Names |-> 0] \in [Names -> 0..1]
    OBVIOUS
  <2>2. BooksOK
    BY <1>1, <2>1 DEF Init, BooksOK, States
  <2> QED
    BY <1>1, <2>2 DEF Init, SessionsOK, SavedOK
<1>3. SessionShown /\ OnlySession /\ Released /\ TracksBounded
  BY <1>1, ServiceAssumption DEF Init, SessionShown, OnlySession, Released, TracksBounded
<1>4. LiveMatchesOpen /\ LevelsNamed
  BY DEF Init, LiveMatchesOpen, LevelsNamed
<1> QED
  BY <1>2, <1>3, <1>4 DEF IInv

\* Nothing records: the books are free to be cleared.
LEMMA IdleBooks ==
    ASSUME IInv, state' = "idle", session' = 0, ClearTracks,
           held' = FALSE, watching' = FALSE, recheck' = recheck, present' = present,
           alive' = alive, recMissing' \in [Names -> 0..1]
    PROVE  /\ BooksOK' /\ SessionShown' /\ Released' /\ TracksBounded'
           /\ LiveMatchesOpen' /\ LevelsNamed'
<1>1. <<>> \in Seq(Names) /\ Len(<<>>) = 0
  BY EmptySeq
<1>2. BooksOK'
  BY <1>1 DEF IInv, BooksOK, ClearTracks, States
<1>3. SessionShown' /\ Released' /\ TracksBounded'
  BY <1>1, ServiceAssumption DEF SessionShown, Released, TracksBounded, ClearTracks
<1>4. LiveMatchesOpen' /\ LevelsNamed'
  BY DEF LiveMatchesOpen, LevelsNamed
<1> QED
  BY <1>2, <1>3, <1>4

LEMMA StartRefusedStep == ASSUME Guarded PROVE IInv /\ StartRefused => IInv'
<1> SUFFICES ASSUME IInv, StartRefused PROVE IInv'
  OBVIOUS
<1>1. state = "idle" /\ session = 0
  BY DEF Guarded, StartRefused, IInv, SessionShown
<1>2. ~held /\ ~watching
  BY <1>1 DEF IInv, Released
<1>3. held' = FALSE /\ watching' = FALSE /\ [n \in Names |-> 0] \in [Names -> 0..1]
  BY <1>2 DEF StartRefused, IInv, BooksOK
<1>4. /\ BooksOK' /\ SessionShown' /\ Released' /\ TracksBounded' /\ LiveMatchesOpen'
      /\ LevelsNamed'
  BY <1>1, <1>3, IdleBooks DEF StartRefused
<1>5. SessionsOK' /\ SavedOK' /\ OnlySession'
  BY DEF StartRefused, IInv, SessionsOK, SavedOK, OnlySession
<1> QED
  BY <1>4, <1>5 DEF IInv

LEMMA StartStep ==
    ASSUME Guarded, NEW devices \in SUBSET present, NEW names \in SetToSeqs(devices)
    PROVE  IInv /\ Start(names) => IInv'
<1> SUFFICES ASSUME IInv, Start(names) PROVE IInv'
  OBVIOUS
<1>1. state = "idle" /\ session = 0 /\ alive
  BY DEF Guarded, Start, IInv, SessionShown
<1>2. names \in Seq(Names)
  <2>1. devices \subseteq Names
    BY DEF IInv, BooksOK
  <2>2. Cardinality(devices) \in Nat
    BY <2>1, ServiceAssumption, FS_Subset, FS_CardinalityType
  <2>3. names \in [1..Cardinality(devices) -> devices]
    BY DEF SetToSeqs
  <2> QED
    BY <2>1, <2>2, <2>3
<1> DEFINE rec == NewSession("recording", names)
<1>3. /\ rec \in SessionRecord /\ rec.st = "recording" /\ rec.tracks = names
      /\ rec.open = ToSet(names)
  BY <1>2, NewSessionOK DEF NewSession
<1>4. sessions' = Append(sessions, rec) /\ session' = Len(sessions) + 1
  BY DEF Start
<1> HIDE DEF rec
<1>5. /\ SessionsOK' /\ DOMAIN sessions' = DOMAIN sessions \cup {session'}
      /\ sessions'[session'] = rec
      /\ \A s \in DOMAIN sessions : sessions'[s] = sessions[s]
  BY <1>3, <1>4, AppendSession DEF IInv
<1>6. [n \in Names |-> 0] \in [Names -> 0..1]
  OBVIOUS
<1>7. BooksOK'
  BY <1>2, <1>6 DEF Start, IInv, BooksOK, States
<1>8. SavedOK' /\ TracksBounded' /\ Released'
  BY <1>5 DEF Start, IInv, SavedOK, TracksBounded, Released
<1>9. SessionShown' /\ Current' = rec
  BY <1>3, <1>5 DEF Start, SessionShown, Current
<1>10. OnlySession'
  <2>1. \A s \in DOMAIN sessions : sessions[s].st \notin {"recording", "encoding"}
    BY <1>1, RecordFields DEF IInv, OnlySession
  <2> QED
    BY <2>1, <1>5 DEF OnlySession
<1>11. LiveMatchesOpen' /\ LevelsNamed'
  BY <1>3, <1>9 DEF Start, LiveMatchesOpen, LevelsNamed, Live
<1> QED
  BY <1>5, <1>7, <1>8, <1>9, <1>10, <1>11 DEF IInv

LEMMA StartFailsStep == ASSUME Guarded PROVE IInv /\ StartFails => IInv'
<1> SUFFICES ASSUME IInv, StartFails PROVE IInv'
  OBVIOUS
<1>1. state = "idle" /\ session = 0
  BY DEF Guarded, StartFails, IInv, SessionShown
<1>2. [n \in Names |-> 0] \in [Names -> 0..1]
  OBVIOUS
<1>3. /\ BooksOK' /\ SessionShown' /\ Released' /\ TracksBounded' /\ LiveMatchesOpen'
      /\ LevelsNamed'
  BY <1>2, IdleBooks DEF StartFails, Failed
<1> DEFINE rec == NewSession("doomed", <<>>)
<1>4. rec \in SessionRecord /\ rec.st = "doomed"
  BY NewSessionOK, EmptyToSet DEF NewSession
<1>5. sessions' = Append(sessions, rec)
  BY DEF StartFails
<1> HIDE DEF rec
<1>6. /\ SessionsOK' /\ DOMAIN sessions' = DOMAIN sessions \cup {Len(sessions) + 1}
      /\ sessions'[Len(sessions) + 1] = rec
      /\ \A s \in DOMAIN sessions : sessions'[s] = sessions[s]
  BY <1>4, <1>5, AppendSession DEF IInv
<1>7. SavedOK'
  BY <1>6 DEF StartFails, IInv, SavedOK
<1>8. OnlySession'
  <2>1. \A s \in DOMAIN sessions : sessions[s].st \notin {"recording", "encoding"}
    BY <1>1, RecordFields DEF IInv, OnlySession
  <2> QED
    BY <2>1, <1>4, <1>6 DEF OnlySession
<1> QED
  BY <1>3, <1>6, <1>7, <1>8 DEF IInv

LEMMA SessionLosesStep ==
    ASSUME NEW s \in DOMAIN sessions, NEW S \in SUBSET sessions[s].open
    PROVE  IInv /\ SessionLoses(s, S) => IInv'
<1> SUFFICES ASSUME IInv, SessionLoses(s, S) PROVE IInv'
  OBVIOUS
<1>1. s = session /\ state = "recording" /\ alive /\ Is(session, "recording")
  BY RecordingIsCurrent DEF SessionLoses
<1>2. /\ Current \in SessionRecord /\ Current.open \subseteq Names
      /\ Current.pending \subseteq Names /\ Current.st = "recording"
  BY <1>1, RecordFields DEF IInv, Current, Is
<1> DEFINE rec == [Current EXCEPT !.open = @ \ S, !.pending = @ \cup S]
<1>3. /\ rec \in SessionRecord /\ rec.st = "recording" /\ rec.tracks = Current.tracks
      /\ rec.open = Current.open \ S
  BY <1>1, <1>2 DEF SessionRecord, Current
<1>4. sessions' = [sessions EXCEPT ![session] = rec]
  BY <1>1 DEF SessionLoses, Current
<1> HIDE DEF rec
<1>5. /\ SessionsOK' /\ SavedOK' /\ SessionShown' /\ OnlySession' /\ Released'
      /\ Current' = rec
  BY <1>1, <1>3, <1>4, TracksChange DEF SessionLoses
<1>6. S \subseteq Live /\ S \subseteq Names
  BY <1>1, <1>2 DEF IInv, LiveMatchesOpen, Current
<1>7. BooksOK' /\ TracksBounded'
  BY <1>6 DEF SessionLoses, TrackClosed, IInv, BooksOK, TracksBounded
<1>8. Live' = Live \ S
  BY <1>6 DEF SessionLoses, TrackClosed, Live
<1>9. LiveMatchesOpen' /\ LevelsNamed'
  BY <1>1, <1>3, <1>5, <1>8 DEF SessionLoses, IInv, LiveMatchesOpen, LevelsNamed
<1> QED
  BY <1>5, <1>7, <1>9 DEF IInv

\* Opening one more track, with whatever the session still looks for.
LEMMA OpensStep ==
    ASSUME IInv, alive, Is(session, "recording"), NEW m \in Names,
           NEW pending \in SUBSET Names, Opens(session, m, pending), TrackAdded(m),
           recMissing' \in [Names -> 0..1],
           UNCHANGED <<alive, state, session, present, recheck, held, watching, saved>>
    PROVE  IInv'
<1>1. state = "recording"
  BY RecordingIsCurrent
<1>2. /\ Current \in SessionRecord /\ Current.tracks \in Seq(Names)
      /\ Current.open \subseteq Names /\ Current.st = "recording"
  BY RecordFields DEF IInv, Current, Is
<1>3. recNames \in Seq(Names) /\ recNames = Current.tracks
  BY <1>1 DEF IInv, BooksOK, LevelsNamed
<1>4. /\ Append(recNames, m) \in Seq(Names) /\ Len(Append(recNames, m)) = Len(recNames) + 1
      /\ ToSet(Append(recNames, m)) = ToSet(recNames) \cup {m}
      /\ Len(recNames) \in Nat
  BY <1>3, AppendToSet, LenProperties
<1> DEFINE rec == [Current EXCEPT !.tracks = Append(@, m), !.open = @ \cup {m},
                                  !.pending = pending]
<1>5. /\ rec \in SessionRecord /\ rec.st = "recording" /\ rec.tracks = Append(recNames, m)
      /\ rec.open = Current.open \cup {m}
  BY <1>2, <1>3, <1>4 DEF SessionRecord
<1>6. sessions' = [sessions EXCEPT ![session] = rec]
  BY DEF Opens, Current
<1> HIDE DEF rec
<1>7. /\ SessionsOK' /\ SavedOK' /\ SessionShown' /\ OnlySession' /\ Released'
      /\ Current' = rec
  BY <1>1, <1>5, <1>6, TracksChange
<1>8. BooksOK'
  BY <1>4 DEF TrackAdded, IInv, BooksOK
<1>9. TracksBounded'
  BY <1>3, <1>4, ServiceAssumption DEF Opens, Current, TrackAdded, TracksBounded
<1>10. Live' = Live \cup {m}
  BY <1>4 DEF TrackAdded, Live
<1>11. LiveMatchesOpen' /\ LevelsNamed'
  BY <1>1, <1>5, <1>7, <1>10 DEF IInv, TrackAdded, LiveMatchesOpen, LevelsNamed
<1> QED
  BY <1>7, <1>8, <1>9, <1>11 DEF IInv

\* The two counts of absences a handler leaves.
LEMMA MissingReset ==
    ASSUME IInv, NEW n \in Names
    PROVE  recMissing \in [Names -> 0..1] /\ [recMissing EXCEPT ![n] = 0] \in [Names -> 0..1]
BY DEF IInv, BooksOK

LEMMA SessionReopensStep ==
    ASSUME NEW s \in DOMAIN sessions, NEW n \in Names, NEW m \in Names
    PROVE  IInv /\ SessionReopens(s, n, m) => IInv'
<1> SUFFICES ASSUME IInv, SessionReopens(s, n, m) PROVE IInv'
  OBVIOUS
<1>1. s = session /\ alive /\ Is(session, "recording")
  BY RecordingIsCurrent DEF SessionReopens
<1>2. sessions[session].pending \ {n} \in SUBSET Names
  BY <1>1, RecordFields DEF IInv, Is
<1> QED
  BY <1>1, <1>2, MissingReset, OpensStep DEF SessionReopens, Reopens

LEMMA AddDeviceStep == ASSUME NEW m \in Names PROVE IInv /\ AddDevice(m) => IInv'
<1> SUFFICES ASSUME IInv, AddDevice(m) PROVE IInv'
  OBVIOUS
<1>1. alive /\ Is(session, "recording")
  BY DEF AddDevice
<1>2. Current.pending \in SUBSET Names
  BY <1>1, RecordFields DEF IInv, Is, Current
<1>3. CASE Opens(session, m, Current.pending) /\ TrackAdded(m) /\ UNCHANGED recMissing
  BY <1>1, <1>2, <1>3, OpensStep DEF AddDevice, IInv, BooksOK
<1>4. CASE \E n \in Current.pending : Reopens(session, n, m)
  <2>1. PICK n \in Current.pending : Reopens(session, n, m)
    BY <1>4
  <2>2. n \in Names /\ Current.pending \ {n} \in SUBSET Names
    BY <1>2
  <2> QED
    BY <1>1, <2>1, <2>2, MissingReset, OpensStep DEF AddDevice, Reopens, Current
<1> QED
  BY <1>3, <1>4 DEF AddDevice

LEMMA SessionGivesUpStep ==
    ASSUME NEW s \in DOMAIN sessions, NEW n \in Names
    PROVE  IInv /\ SessionGivesUp(s, n) => IInv'
<1> SUFFICES ASSUME IInv, SessionGivesUp(s, n) PROVE IInv'
  OBVIOUS
<1>1. s = session /\ state = "recording" /\ alive /\ Is(session, "recording")
  BY RecordingIsCurrent DEF SessionGivesUp
<1>2. Current \in SessionRecord /\ Current.pending \subseteq Names /\ Current.st = "recording"
  BY <1>1, RecordFields DEF IInv, Current, Is
<1> DEFINE rec == [Current EXCEPT !.pending = @ \ {n}]
<1>3. /\ rec \in SessionRecord /\ rec.st = "recording" /\ rec.tracks = Current.tracks
      /\ rec.open = Current.open
  BY <1>2 DEF SessionRecord
<1>4. sessions' = [sessions EXCEPT ![session] = rec]
  BY <1>1 DEF SessionGivesUp, Current
<1> HIDE DEF rec
<1>5. /\ SessionsOK' /\ SavedOK' /\ SessionShown' /\ OnlySession' /\ Released'
      /\ Current' = rec
  BY <1>1, <1>3, <1>4, TracksChange DEF SessionGivesUp, books
<1>6. BooksOK' /\ TracksBounded' /\ Live' = Live
  BY DEF SessionGivesUp, books, IInv, BooksOK, TracksBounded, Live
<1>7. LiveMatchesOpen' /\ LevelsNamed'
  BY <1>1, <1>3, <1>5, <1>6 DEF SessionGivesUp, books, IInv, LiveMatchesOpen, LevelsNamed
<1> QED
  BY <1>5, <1>6, <1>7 DEF IInv

LEMMA StopDeviceStep == ASSUME NEW n \in Names PROVE IInv /\ StopDevice(n) => IInv'
<1> SUFFICES ASSUME IInv, StopDevice(n) PROVE IInv'
  OBVIOUS
<1>1. alive /\ state = "recording" /\ n \in Live
  BY DEF StopDevice, Switchable
<1>2. Is(session, "recording")
  BY <1>1 DEF IInv, SessionShown, Is, Current
<1>3. Current \in SessionRecord /\ Current.open \subseteq Names /\ Current.st = "recording"
  BY <1>2, RecordFields DEF IInv, Current, Is
<1> DEFINE rec == [Current EXCEPT !.open = @ \ {n}]
<1>4. /\ rec \in SessionRecord /\ rec.st = "recording" /\ rec.tracks = Current.tracks
      /\ rec.open = Current.open \ {n}
  BY <1>3 DEF SessionRecord
<1>5. sessions' = [sessions EXCEPT ![session] = rec]
  BY DEF StopDevice, Current
<1> HIDE DEF rec
<1>6. /\ SessionsOK' /\ SavedOK' /\ SessionShown' /\ OnlySession' /\ Released'
      /\ Current' = rec
  BY <1>1, <1>2, <1>4, <1>5, TracksChange DEF StopDevice
<1>7. BooksOK' /\ TracksBounded' /\ Live' = Live \ {n}
  BY DEF StopDevice, IInv, BooksOK, TracksBounded, Live
<1>8. LiveMatchesOpen' /\ LevelsNamed'
  BY <1>1, <1>4, <1>6, <1>7 DEF StopDevice, IInv, LiveMatchesOpen, LevelsNamed
<1> QED
  BY <1>6, <1>7, <1>8 DEF IInv

\* An enumeration, whoever asked for it: the tracks it closes are those it counted as gone.
LEMMA DeviceSetChangeStep ==
    ASSUME NEW list \in SUBSET Names, NEW pending \in BOOLEAN, alive
    PROVE  IInv /\ DeviceSetChange(list, pending) => IInv'
<1> SUFFICES ASSUME IInv, DeviceSetChange(list, pending) PROVE IInv'
  OBVIOUS
<1>1. CASE ~(state = "recording" /\ session # 0 /\ list # {})
  <2>1. /\ present' = list /\ recheck' = pending
        /\ UNCHANGED <<alive, state, session, sessions, recNames, recClosed, recOff, recMissing,
                       held, watching, saved>>
    BY <1>1 DEF DeviceSetChange
  <2>2. BooksOK' /\ TracksBounded' /\ Live' = Live
    BY <2>1 DEF IInv, BooksOK, TracksBounded, Live
  <2>3. SessionsOK' /\ SavedOK' /\ SessionShown' /\ OnlySession' /\ Released'
    BY <2>1 DEF IInv, SessionsOK, SavedOK, SessionShown, OnlySession, Released, Current
  <2>4. LiveMatchesOpen' /\ LevelsNamed'
    BY <2>1, <2>2 DEF IInv, LiveMatchesOpen, LevelsNamed, Current
  <2> QED
    BY <2>2, <2>3, <2>4 DEF IInv
<1>2. CASE state = "recording" /\ session # 0 /\ list # {}
  <2>1. Is(session, "recording")
    BY <1>2 DEF IInv, SessionShown, Is, Current
  <2>2. /\ Current \in SessionRecord /\ Current.open \subseteq Names
        /\ Current.pending \subseteq Names /\ Current.st = "recording"
    BY <2>1, RecordFields DEF IInv, Current, Is
  <2> DEFINE lost == GoneTwice(list) \cap Current.open
             rec == [Current EXCEPT !.open = @ \ lost, !.pending = @ \cup lost]
  <2>3. /\ recMissing' = Counted(list)
        /\ recheck' = (pending \/ NeedsRecheck(list))
        /\ sessions' = [sessions EXCEPT ![session] = rec]
        /\ recClosed' = recClosed \cup (lost \ recOff)
        /\ present' = list
        /\ UNCHANGED <<alive, state, session, recNames, recOff, held, watching, saved>>
    BY <1>2 DEF DeviceSetChange, TrackClosed, Current
  <2>4. lost \subseteq Live /\ lost \subseteq Names
    BY <2>2 DEF GoneTwice, Missing
  <2> HIDE DEF lost
  <2>5. /\ rec \in SessionRecord /\ rec.st = "recording" /\ rec.tracks = Current.tracks
        /\ rec.open = Current.open \ lost
    BY <2>2, <2>4 DEF SessionRecord
  <2> HIDE DEF rec
  <2>6. /\ SessionsOK' /\ SavedOK' /\ SessionShown' /\ OnlySession' /\ Released'
        /\ Current' = rec
    BY <2>1, <2>3, <2>5, TracksChange
  <2>7. recMissing' \in [Names -> 0..1]
    BY <2>3 DEF Counted, IInv, BooksOK
  <2>8. recheck' \in BOOLEAN
    BY <2>3 DEF NeedsRecheck
  <2>9. BooksOK' /\ TracksBounded' /\ Live' = Live \ lost
    BY <2>3, <2>4, <2>7, <2>8 DEF IInv, BooksOK, TracksBounded, Live
  <2>10. LiveMatchesOpen' /\ LevelsNamed'
    BY <1>2, <2>3, <2>5, <2>6, <2>9 DEF IInv, LiveMatchesOpen, LevelsNamed
  <2> QED
    BY <2>6, <2>9, <2>10 DEF IInv
<1> QED
  BY <1>1, <1>2

LEMMA RecheckStep == IInv /\ Recheck => IInv'
<1> SUFFICES ASSUME IInv, Recheck PROVE IInv'
  OBVIOUS
<1>1. CASE state = "recording"
  <2>1. alive
    BY DEF Recheck
  <2>2. PICK list \in SUBSET Names : DeviceSetChange(list, FALSE)
    BY <1>1 DEF Recheck
  <2> QED
    BY <2>1, <2>2, DeviceSetChangeStep
<1>2. CASE state # "recording"
  <2>1. /\ recheck' = FALSE
        /\ UNCHANGED <<alive, state, session, sessions, present, recNames, recClosed, recOff,
                       recMissing, held, watching, saved>>
    BY <1>2 DEF Recheck, books
  <2>2. BooksOK' /\ TracksBounded' /\ Live' = Live
    BY <2>1 DEF IInv, BooksOK, TracksBounded, Live
  <2>3. SessionsOK' /\ SavedOK' /\ SessionShown' /\ OnlySession' /\ Released'
    BY <2>1 DEF IInv, SessionsOK, SavedOK, SessionShown, OnlySession, Released, Current
  <2>4. LiveMatchesOpen' /\ LevelsNamed'
    BY <2>1, <2>2 DEF IInv, LiveMatchesOpen, LevelsNamed, Current
  <2> QED
    BY <2>2, <2>3, <2>4 DEF IInv
<1> QED
  BY <1>1, <1>2

\* A change of a session's state that leaves nothing recording or encoding.
LEMMA StateChange ==
    ASSUME SessionsOK, NEW s \in DOMAIN sessions,
           NEW st \in {"recording", "encoding", "doomed", "gone"}
    PROVE  [sessions[s] EXCEPT !.st = st] \in SessionRecord
<1>1. sessions[s] \in SessionRecord
  BY RecordFields
<1> QED
  BY <1>1 DEF SessionRecord

LEMMA StopStep == IInv /\ Stop => IInv'
<1> SUFFICES ASSUME IInv, Stop PROVE IInv'
  OBVIOUS
<1>1. alive /\ session # 0 /\ session \in DOMAIN sessions /\ state # "idle" /\ Current.st = state
  BY DEF Stop, IInv, SessionShown
<1>2. CASE Current.st = "recording"
  <2> DEFINE rec == [Current EXCEPT !.st = "encoding", !.pending = {}]
  <2>1. rec \in SessionRecord /\ rec.st = "encoding"
    <3>1. Current \in SessionRecord
      BY <1>1, RecordFields DEF IInv, Current
    <3> QED
      BY <3>1 DEF SessionRecord
  <2>2. /\ sessions' = [sessions EXCEPT ![session] = rec] /\ state' = "encoding"
        /\ UNCHANGED <<alive, session, present, recNames, recClosed, recOff, recMissing, recheck,
                       held, watching, saved>>
    BY <1>2 DEF Stop, Current, books
  <2> HIDE DEF rec
  <2>3. /\ SessionsOK' /\ DOMAIN sessions' = DOMAIN sessions /\ sessions'[session] = rec
        /\ \A t \in DOMAIN sessions : t # session => sessions'[t] = sessions[t]
    BY <1>1, <2>1, <2>2, ChangeOne DEF IInv
  <2>4. SavedOK' /\ SessionShown' /\ OnlySession' /\ Released' /\ TracksBounded'
    BY <1>1, <2>1, <2>2, <2>3
    DEF IInv, SavedOK, SessionShown, OnlySession, Released, TracksBounded, Current
  <2>5. BooksOK'
    BY <2>2 DEF IInv, BooksOK, States
  <2>6. LiveMatchesOpen' /\ LevelsNamed'
    BY <2>2 DEF LiveMatchesOpen, LevelsNamed
  <2> QED
    BY <2>3, <2>4, <2>5, <2>6 DEF IInv
<1>3. CASE Current.st # "recording"
  <2> DEFINE rec == [Current EXCEPT !.st = "doomed"]
  <2>1. rec \in SessionRecord /\ rec.st = "doomed"
    <3>1. Current \in SessionRecord
      BY <1>1, RecordFields DEF IInv, Current
    <3> QED
      BY <3>1 DEF SessionRecord
  <2>2. /\ sessions' = [sessions EXCEPT ![session] = rec] /\ Failed
        /\ UNCHANGED <<alive, present, recMissing, recheck, saved>>
    BY <1>3 DEF Stop, Doomed, Current
  <2> HIDE DEF rec
  <2>3. /\ SessionsOK' /\ DOMAIN sessions' = DOMAIN sessions /\ sessions'[session] = rec
        /\ \A t \in DOMAIN sessions : t # session => sessions'[t] = sessions[t]
    BY <1>1, <2>1, <2>2, ChangeOne DEF IInv
  <2>4. recMissing' \in [Names -> 0..1]
    BY <2>2 DEF IInv, BooksOK
  <2>5. /\ BooksOK' /\ SessionShown' /\ Released' /\ TracksBounded' /\ LiveMatchesOpen'
        /\ LevelsNamed'
    BY <2>2, <2>4, IdleBooks DEF Failed
  <2>6. SavedOK' /\ OnlySession'
    BY <2>1, <2>2, <2>3 DEF IInv, SavedOK, OnlySession
  <2> QED
    BY <2>3, <2>5, <2>6 DEF IInv
<1> QED
  BY <1>2, <1>3

LEMMA SessionFinishesStep ==
    ASSUME NEW s \in DOMAIN sessions
    PROVE  IInv /\ SessionFinishes(s) => IInv'
<1> SUFFICES ASSUME IInv, SessionFinishes(s) PROVE IInv'
  OBVIOUS
<1> DEFINE f == [t \in DOMAIN sessions |->
                    IF t \in {s, session} THEN [sessions[t] EXCEPT !.st = "doomed"]
                    ELSE sessions[t]]
<1>1. \A t \in DOMAIN sessions : f[t] \in SessionRecord
  BY RecordFields, StateChange DEF IInv
<1>2. f = [t \in DOMAIN sessions |-> f[t]]
  OBVIOUS
<1>3. \A t \in DOMAIN sessions : f[t].st = IF t \in {s, session} THEN "doomed"
                                           ELSE sessions[t].st
  <2>1. \A t \in DOMAIN sessions : [sessions[t] EXCEPT !.st = "doomed"].st = "doomed"
    BY RecordFields DEF IInv, SessionRecord
  <2> QED
    BY <2>1
<1>4. sessions' = f
  BY DEF SessionFinishes
<1> HIDE DEF f
<1>5. SessionsOK' /\ DOMAIN sessions' = DOMAIN sessions
  BY <1>1, <1>2, <1>4, MapSessions DEF IInv, SessionsOK
<1>6. recMissing' \in [Names -> 0..1]
  BY DEF SessionFinishes, IInv, BooksOK
<1>7. /\ BooksOK' /\ SessionShown' /\ Released' /\ TracksBounded' /\ LiveMatchesOpen'
      /\ LevelsNamed'
  BY <1>6, IdleBooks DEF SessionFinishes
<1>8. SavedOK' /\ OnlySession'
  <2>1. SavedOK'
    BY <1>5 DEF SessionFinishes, Save, IInv, SavedOK
  <2>2. OnlySession'
    BY <1>3, <1>4, <1>5 DEF SessionFinishes, IInv, OnlySession
  <2> QED
    BY <2>1, <2>2
<1> QED
  BY <1>5, <1>7, <1>8 DEF IInv

LEMMA SessionDeletedStep ==
    ASSUME NEW s \in DOMAIN sessions
    PROVE  IInv /\ SessionDeleted(s) => IInv'
<1> SUFFICES ASSUME IInv, SessionDeleted(s) PROVE IInv'
  OBVIOUS
<1> DEFINE rec == NewSession("gone", <<>>)
<1>1. rec \in SessionRecord /\ rec.st = "gone"
  BY NewSessionOK, EmptyToSet DEF NewSession
<1>2. /\ sessions' = [sessions EXCEPT ![s] = rec] /\ sessions[s].st = "doomed" /\ alive
      /\ UNCHANGED <<alive, state, session, present, recNames, recClosed, recOff, recMissing,
                     recheck, held, watching, saved>>
  BY DEF SessionDeleted, Is, books
<1> HIDE DEF rec
<1>3. /\ SessionsOK' /\ DOMAIN sessions' = DOMAIN sessions /\ sessions'[s] = rec
      /\ \A t \in DOMAIN sessions : t # s => sessions'[t] = sessions[t]
  BY <1>1, <1>2, ChangeOne DEF IInv
<1>4. state # "idle" => session # s
  BY <1>2 DEF IInv, SessionShown, BooksOK, States, Current
<1>5. SavedOK' /\ SessionShown' /\ OnlySession' /\ Released' /\ TracksBounded'
  BY <1>1, <1>2, <1>3, <1>4
  DEF IInv, SavedOK, SessionShown, OnlySession, Released, TracksBounded, Current
<1>6. BooksOK' /\ Live' = Live
  BY <1>2 DEF IInv, BooksOK, Live
<1>7. state = "recording" => Current' = Current
  BY <1>2, <1>3, <1>4 DEF IInv, SessionShown, Current
<1>8. LiveMatchesOpen' /\ LevelsNamed'
  BY <1>2, <1>6, <1>7 DEF IInv, LiveMatchesOpen, LevelsNamed
<1> QED
  BY <1>3, <1>5, <1>6, <1>8 DEF IInv

LEMMA DestroyStep == IInv /\ Destroy => IInv'
<1> SUFFICES ASSUME IInv, Destroy PROVE IInv'
  OBVIOUS
<1> DEFINE rec == NewSession("gone", <<>>)
           f == [s \in DOMAIN sessions |-> rec]
<1>1. rec \in SessionRecord /\ rec.st = "gone"
  BY NewSessionOK, EmptyToSet DEF NewSession
<1>2. sessions' = f
  BY DEF Destroy
<1> HIDE DEF rec
<1>3. f = [s \in DOMAIN sessions |-> f[s]] /\ \A s \in DOMAIN sessions : f[s] = rec
  OBVIOUS
<1> HIDE DEF f
<1>4. SessionsOK' /\ DOMAIN sessions' = DOMAIN sessions
  BY <1>1, <1>2, <1>3, MapSessions DEF IInv, SessionsOK
<1>5. /\ alive' = FALSE /\ held' = FALSE /\ watching' = FALSE /\ recheck' = FALSE
      /\ UNCHANGED <<state, session, present, recNames, recClosed, recOff, recMissing, saved>>
  BY DEF Destroy, books
<1>6. BooksOK' /\ TracksBounded' /\ Released'
  BY <1>5 DEF IInv, BooksOK, TracksBounded, Released
<1>7. SavedOK' /\ SessionShown'
  BY <1>4, <1>5 DEF IInv, SavedOK, SessionShown
<1>8. OnlySession'
  BY <1>1, <1>2, <1>3, <1>4 DEF OnlySession
<1>9. LiveMatchesOpen' /\ LevelsNamed'
  BY <1>5 DEF LiveMatchesOpen, LevelsNamed
<1> QED
  BY <1>4, <1>6, <1>7, <1>8, <1>9 DEF IInv

LEMMA StutterIInv == IInv /\ UNCHANGED vars => IInv'
<1> SUFFICES ASSUME IInv, UNCHANGED vars PROVE IInv'
  OBVIOUS
<1>1. UNCHANGED <<alive, state, session, sessions, present, recNames, recClosed, recOff,
                  recMissing, recheck, held, watching, saved>>
  BY DEF vars, books
<1>2. BooksOK' /\ SessionsOK' /\ SavedOK' /\ OnlySession' /\ Released' /\ TracksBounded'
  BY <1>1 DEF IInv, BooksOK, SessionsOK, SavedOK, OnlySession, Released, TracksBounded
<1>3. SessionShown' /\ LiveMatchesOpen' /\ LevelsNamed'
  BY <1>1 DEF IInv, SessionShown, LiveMatchesOpen, LevelsNamed, Live, Current
<1> QED
  BY <1>2, <1>3 DEF IInv

----------------------------------------------------------------------------
(* The invariant holds, and what follows *)

LEMMA NextIInv == ASSUME Guarded PROVE IInv /\ [Next]_vars => IInv'
<1> SUFFICES ASSUME IInv, [Next]_vars PROVE IInv'
  OBVIOUS
<1>1. CASE Caller
  <2>1. CASE StartRefused
    BY <2>1, StartRefusedStep
  <2>2. CASE \E devices \in SUBSET present : \E names \in SetToSeqs(devices) : Start(names)
    BY <2>2, StartStep
  <2>3. CASE StartFails
    BY <2>3, StartFailsStep
  <2>4. CASE \E n \in Names : AddDevice(n) \/ StopDevice(n)
    BY <2>4, AddDeviceStep, StopDeviceStep
  <2>5. CASE Stop \/ Destroy
    BY <2>5, StopStep, DestroyStep
  <2>6. CASE \E list \in SUBSET Names : Enumerate(list)
    <3>1. PICK list \in SUBSET Names : Enumerate(list)
      BY <2>6
    <3>2. alive /\ recheck \in BOOLEAN /\ DeviceSetChange(list, recheck)
      BY <3>1 DEF Enumerate, IInv, BooksOK
    <3> QED
      BY <3>2, DeviceSetChangeStep
  <2> QED
    BY <1>1, <2>1, <2>2, <2>3, <2>4, <2>5, <2>6 DEF Caller
<1>2. CASE Session
  BY <1>2, SessionLosesStep, SessionReopensStep, SessionGivesUpStep DEF Session
<1>3. CASE Loop
  BY <1>3, RecheckStep, SessionFinishesStep, SessionDeletedStep DEF Loop
<1>4. CASE UNCHANGED vars
  BY <1>4, StutterIInv
<1> QED
  BY <1>1, <1>2, <1>3, <1>4 DEF Next, Over

THEOREM Invariance == ASSUME Guarded PROVE Spec => []IInv
<1>1. Init => IInv
  BY InitIInv
<1>2. IInv /\ [Next]_vars => IInv'
  BY NextIInv
<1> QED
  BY <1>1, <1>2, PTL DEF Spec

\* Every variable of the service keeps its type, the list of tracks its bound.
THEOREM TypeCorrect == ASSUME Guarded PROVE Spec => []TypeOK
<1>1. IInv => TypeOK
  BY DEF IInv, BooksOK, SessionsOK, SavedOK, SessionShown, TracksBounded, TypeOK, States
<1> QED
  BY <1>1, Invariance, PTL

\* The book of live devices and the session's open tracks agree, through any losses, re-opens and
\* switching, of any devices.
THEOREM LiveMatchesOpenHolds == ASSUME Guarded PROVE Spec => []LiveMatchesOpen
<1>1. IInv => LiveMatchesOpen
  BY DEF IInv
<1> QED
  BY <1>1, Invariance, PTL

\* Levels reach the device they were measured on.
THEOREM LevelsNamedHolds == ASSUME Guarded PROVE Spec => []LevelsNamed
<1>1. IInv => LevelsNamed
  BY DEF IInv
<1> QED
  BY <1>1, Invariance, PTL

\* Between recordings nothing is held back, however the last one ended.
THEOREM IdleReleasesHolds == ASSUME Guarded PROVE Spec => []IdleReleases
<1>1. IInv => IdleReleases
  <2> SUFFICES ASSUME IInv, state = "idle" PROVE IdleReleases
    BY DEF IdleReleases
  <2>1. ~held /\ ~watching /\ session = 0
    BY DEF IInv, Released, SessionShown
  <2>2. Live = {}
    BY EmptyToSet DEF IInv, Released, Live
  <2>3. \A s \in DOMAIN sessions : sessions[s].st \notin {"recording", "encoding"}
    BY <2>1, RecordFields DEF IInv, OnlySession
  <2> QED
    BY <2>1, <2>2, <2>3 DEF IdleReleases
<1> QED
  BY <1>1, Invariance, PTL

----------------------------------------------------------------------------
(* The last open track *)

\* Session s records on without its last open track, and does not look for any device.
LosesLast(s) ==
    /\ sessions[s].st = "recording" /\ sessions'[s].st = "recording"
    /\ sessions[s].open # {} /\ sessions'[s].open = {}
    /\ sessions'[s].pending = {}

\* No step of a recording session's own does that.
LEMMA SessionKeepsLast ==
    ASSUME IInv, NEW s \in DOMAIN sessions, LosesLast(s), Session
    PROVE  FALSE
<1>1. PICK t \in DOMAIN sessions :
          \/ \E S \in SUBSET sessions[t].open : SessionLoses(t, S)
          \/ \E n, m \in Names : SessionReopens(t, n, m)
          \/ \E n \in Names : SessionGivesUp(t, n)
  BY DEF Session
<1>2. s = t
  BY <1>1, RecordingIsCurrent
  DEF SessionLoses, SessionReopens, SessionGivesUp, LosesLast, Is, IInv, OnlySession
<1>3. /\ sessions[s] \in SessionRecord
      /\ sessions[s].open \subseteq Names /\ sessions[s].pending \subseteq Names
  BY RecordFields DEF IInv
<1>4. ASSUME NEW S \in SUBSET sessions[s].open, SessionLoses(s, S) PROVE FALSE
  BY <1>3, <1>4 DEF SessionLoses, LosesLast, SessionRecord
<1>5. ASSUME NEW n \in Names, NEW m \in Names, SessionReopens(s, n, m) PROVE FALSE
  BY <1>3, <1>5 DEF SessionReopens, Reopens, Opens, LosesLast, SessionRecord
<1>6. ASSUME NEW n \in Names, SessionGivesUp(s, n) PROVE FALSE
  BY <1>3, <1>6 DEF SessionGivesUp, LosesLast, SessionRecord
<1> QED
  BY <1>1, <1>2, <1>4, <1>5, <1>6

\* An enumeration that closes the last track makes the session look for it.
LEMMA DeviceSetChangeKeepsLast ==
    ASSUME IInv, NEW s \in DOMAIN sessions, LosesLast(s), NEW list, NEW pending,
           DeviceSetChange(list, pending)
    PROVE  FALSE
<1>1. /\ sessions[s] \in SessionRecord
      /\ sessions[s].open \subseteq Names /\ sessions[s].pending \subseteq Names
  BY RecordFields DEF IInv
<1>2. CASE sessions' = sessions
  BY <1>2 DEF LosesLast
<1>3. CASE s = session /\ sessions' = [sessions EXCEPT
                  ![session].open = @ \ (GoneTwice(list) \cap Current.open),
                  ![session].pending = @ \cup (GoneTwice(list) \cap Current.open)]
  BY <1>1, <1>3 DEF LosesLast, Current, SessionRecord
<1>4. CASE s # session /\ sessions' = [sessions EXCEPT
                  ![session].open = @ \ (GoneTwice(list) \cap Current.open),
                  ![session].pending = @ \cup (GoneTwice(list) \cap Current.open)]
  BY <1>4 DEF LosesLast
<1> QED
  BY <1>2, <1>3, <1>4 DEF DeviceSetChange

\* The user is refused when it would be the last.
LEMMA StopDeviceKeepsLast ==
    ASSUME IInv, NEW s \in DOMAIN sessions, LosesLast(s), NEW n, StopDevice(n)
    PROVE  FALSE
<1>1. alive /\ Is(s, "recording")
  BY DEF StopDevice, LosesLast, Is
<1>2. s = session /\ state = "recording"
  BY <1>1, RecordingIsCurrent
<1>3. sessions[s] \in SessionRecord
  BY RecordFields DEF IInv
<1>4. sessions'[s].open = sessions[s].open \ {n}
  BY <1>2, <1>3 DEF StopDevice, SessionRecord
<1>5. Live = sessions[s].open
  BY <1>1, <1>2 DEF IInv, LiveMatchesOpen, Current
<1>6. n \in Live /\ Cardinality(Live) >= 2
  BY DEF StopDevice, Switchable
<1>7. Live = {n}
  BY <1>4, <1>5, <1>6 DEF LosesLast
<1>8. Cardinality({n}) = 1
  BY FS_Singleton
<1> QED
  BY <1>6, <1>7, <1>8

LEMMA CallerKeepsLast ==
    ASSUME Guarded, IInv, NEW s \in DOMAIN sessions, LosesLast(s), Caller
    PROVE  FALSE
<1>1. Is(s, "recording")
  BY DEF LosesLast, Is
<1>2. alive => state = "recording" /\ s = session
  BY <1>1, RecordingIsCurrent
<1>3. /\ sessions[s] \in SessionRecord
      /\ sessions[s].open \subseteq Names /\ sessions[s].pending \subseteq Names
  BY RecordFields DEF IInv
<1>4. CASE StartRefused \/ StartFails \/ \E names : Start(names)
  BY <1>2, <1>4 DEF StartRefused, StartFails, Start, Guarded
<1>5. ASSUME NEW m \in Names, AddDevice(m) PROVE FALSE
  <2>1. PICK pending : Opens(session, m, pending)
    BY <1>5 DEF AddDevice, Reopens
  <2> QED
    BY <1>2, <1>3, <1>5, <2>1 DEF AddDevice, Opens, LosesLast, SessionRecord
<1>6. ASSUME NEW n \in Names, StopDevice(n) PROVE FALSE
  BY <1>6, StopDeviceKeepsLast
<1>7. CASE Stop
  BY <1>2, <1>3, <1>7 DEF Stop, Doomed, Current, LosesLast, SessionRecord
<1>8. ASSUME NEW list, Enumerate(list) PROVE FALSE
  BY <1>8, DeviceSetChangeKeepsLast DEF Enumerate
<1>9. CASE Destroy
  BY <1>9 DEF Destroy, NewSession, LosesLast
<1> QED
  BY <1>4, <1>5, <1>6, <1>7, <1>8, <1>9 DEF Caller

LEMMA LoopKeepsLast ==
    ASSUME IInv, NEW s \in DOMAIN sessions, LosesLast(s), Loop
    PROVE  FALSE
<1>1. CASE Recheck
  <2>1. CASE state = "recording"
    BY <1>1, <2>1, DeviceSetChangeKeepsLast DEF Recheck
  <2>2. CASE state # "recording"
    BY <1>1, <2>2 DEF Recheck, LosesLast
  <2> QED
    BY <2>1, <2>2
<1>2. ASSUME NEW t \in DOMAIN sessions, SessionFinishes(t) PROVE FALSE
  <2>1. t = session /\ s = session
    BY <1>2, RecordFields DEF SessionFinishes, LosesLast, Is, IInv, OnlySession
  <2> QED
    BY <1>2, <2>1 DEF SessionFinishes, LosesLast, Is
<1>3. ASSUME NEW t \in DOMAIN sessions, SessionDeleted(t) PROVE FALSE
  BY <1>3 DEF SessionDeleted, LosesLast, Is
<1> QED
  BY <1>1, <1>2, <1>3 DEF Loop

\* A recording loses its last open track only to a loss that is then looked for.
THEOREM LastTrackStaysHolds == ASSUME Guarded PROVE Spec => LastTrackStays
<1>1. IInv /\ [Next]_vars =>
        \A s \in DOMAIN sessions :
          /\ sessions[s].st = "recording" /\ sessions'[s].st = "recording"
          /\ sessions[s].open # {} /\ sessions'[s].open = {}
          => sessions'[s].pending # {}
  <2> SUFFICES ASSUME IInv, [Next]_vars, NEW s \in DOMAIN sessions, LosesLast(s) PROVE FALSE
    BY DEF LosesLast
  <2>1. CASE UNCHANGED vars
    BY <2>1 DEF vars, LosesLast
  <2> QED
    BY <2>1, SessionKeepsLast, CallerKeepsLast, LoopKeepsLast DEF Next, Over
<1> QED
  BY <1>1, Invariance, PTL DEF Spec, LastTrackStays
=============================================================================
