-------------------------- MODULE RecordingService --------------------------
(***************************************************************************)
(* The orchestration around the recordings (RecordingService.cpp): it      *)
(* starts and stops sessions, keeps its own book of which device is on a   *)
(* track, closes the track of a device that disappeared, saves the         *)
(* finished meeting and lets the machine sleep again.                      *)
(*                                                                         *)
(* A session is seen through what its signals promise (RecordingSession    *)
(* models its inside): the names of its open tracks, the names it looks    *)
(* for, and whether it records, encodes or is done.  The handlers run on   *)
(* the main thread, one at a time; a session dropped with deleteLater()    *)
(* lives until the event loop comes round, and an encoding session reports *)
(* its end through the event loop too.                                     *)
(***************************************************************************)
EXTENDS Naturals, SequencesExt

CONSTANTS
    Names,          \* device names
    MaxSessions,    \* bound: recordings started
    MaxTracks,      \* AudioEngine::kMaxDevices: tracks a session ever opens
    StartStates,    \* service states in which some caller calls start()
    StopStates      \* service states in which some caller calls stop()

States == {"idle", "recording", "encoding"}

ASSUME ServiceAssumption ==
    /\ IsFiniteSet(Names)
    /\ MaxSessions \in Nat /\ MaxTracks \in Nat
    /\ StartStates \subseteq States
    /\ StopStates \subseteq States

VARIABLES
    alive,      \* the service has not been destroyed
    state,      \* Impl::state; Stopping is left again before stop() returns
    session,    \* Impl::session: the number of the session, 0 for none
    sessions,   \* every session ever started
    present,    \* the device manager's list: the last enumeration
    recNames,   \* Impl::recNames: the device of every track, in the order they were opened
    recClosed,  \* Impl::recClosed: detached while recording
    recOff,     \* Impl::recOff: switched off by the user
    recMissing, \* Impl::recMissing: enumerations in a row that missed it
    recheck,    \* a single-shot re-enumeration is pending (several coalesce)
    held,       \* the power inhibitor holds
    watching,   \* the call-end and silence watches run
    saved       \* sessions whose meeting was saved

books == <<recNames, recClosed, recOff>>
vars == <<alive, state, session, sessions, present, books, recMissing, recheck, held, watching,
          saved>>

Live == (ToSet(recNames) \ recClosed) \ recOff  \* liveDeviceNames
Is(s, st) == s \in DOMAIN sessions /\ sessions[s].st = st
Current == sessions[session]

Init == /\ alive = TRUE /\ state = "idle" /\ session = 0 /\ sessions = <<>>
        /\ present \in SUBSET Names
        /\ recNames = <<>> /\ recClosed = {} /\ recOff = {} /\ recMissing = [n \in Names |-> 0]
        /\ recheck = FALSE /\ held = FALSE /\ watching = FALSE /\ saved = {}

ClearTracks == recNames' = <<>> /\ recClosed' = {} /\ recOff' = {}

----------------------------------------------------------------------------
(* start *)

\* No device to record: the books are already cleared, nothing else happens.
StartRefused ==
    /\ alive /\ state \in StartStates \ {"recording"}
    /\ present = {}
    /\ ClearTracks
    /\ recMissing' = [n \in Names |-> 0]
    /\ UNCHANGED <<alive, state, session, sessions, present, recheck, held, watching, saved>>

\* tracks: the names of all tracks it opened, by index; open: of those not closed.
NewSession(st, names) == [st |-> st, tracks |-> names, open |-> ToSet(names), pending |-> {}]

\* The inhibitor and the watches are taken first, then the session records.
Start(devices) ==
    /\ alive /\ state \in StartStates \ {"recording"}
    /\ devices # <<>> /\ Len(devices) <= MaxTracks
    /\ Len(sessions) < MaxSessions
    /\ sessions' = Append(sessions, NewSession("recording", devices))
    /\ session' = Len(sessions) + 1
    /\ state' = "recording"
    /\ recNames' = devices /\ recClosed' = {} /\ recOff' = {}
    /\ recMissing' = [n \in Names |-> 0]
    /\ held' \in {TRUE, held}
    /\ watching' = TRUE
    /\ UNCHANGED <<alive, present, recheck, saved>>

\* Mutant: a failed start leaves the watches and the inhibitor as start() took them.
FailedHolding ==
    /\ state' = "idle" /\ session' = 0 /\ ClearTracks
    /\ held' \in BOOLEAN /\ watching' = TRUE

\* The failed signal: everything start() took is given back, the session is dropped.
Failed ==
    /\ state' = "idle" /\ session' = 0 /\ ClearTracks
    /\ held' = FALSE /\ watching' = FALSE

\* The session could not start (folder, engine, encoder): it reports failed from inside start().
StartFails ==
    /\ alive /\ state \in StartStates \ {"recording"}
    /\ present # {}
    /\ Len(sessions) < MaxSessions
    /\ sessions' = Append(sessions, NewSession("doomed", <<>>))
    /\ Failed
    /\ recMissing' = [n \in Names |-> 0]
    /\ UNCHANGED <<alive, present, recheck, saved>>

----------------------------------------------------------------------------
(* The session's tracks *)

\* Mutant: a device switched on again stays in the list of those the user switched off.
AddedStaysOff(n) ==
    recNames' = Append(recNames, n) /\ recClosed' = recClosed \ {n} /\ UNCHANGED recOff

\* Mutant: a name that is in the list already is not added again.
AddedOnce(n) ==
    /\ recNames' = IF n \in ToSet(recNames) THEN recNames ELSE Append(recNames, n)
    /\ recClosed' = recClosed \ {n} /\ recOff' = recOff \ {n}

\* The trackAdded handler: a device that comes back is in recNames once more.
TrackAdded(n) ==
    recNames' = Append(recNames, n) /\ recClosed' = recClosed \ {n} /\ recOff' = recOff \ {n}

\* The trackClosed handler, for the tracks of S.
TrackClosed(S) == recClosed' = recClosed \cup (S \ recOff)

\* The session s loses devices while it records: one, or all of them when the machine slept.
SessionLoses(s, S) ==
    /\ alive /\ Is(s, "recording")
    /\ S # {} /\ S \subseteq sessions[s].open
    /\ Cardinality(S) = 1 \/ S = sessions[s].open
    /\ sessions' = [sessions EXCEPT ![s].open = @ \ S, ![s].pending = @ \cup S]
    /\ TrackClosed(S)
    /\ UNCHANGED <<alive, state, session, present, recNames, recOff, recMissing, recheck, held,
                   watching, saved>>

\* Tracks of session s after it opened one more, and what it still looks for.
Opens(s, m, pending) ==
    /\ Len(sessions[s].tracks) < MaxTracks
    /\ sessions' = [sessions EXCEPT ![s].tracks = Append(@, m), ![s].open = @ \cup {m},
                                    ![s].pending = pending]

\* trackAdded for the new track, trackReopened for the device n that came back as m.
Reopens(s, n, m) ==
    /\ Opens(s, m, sessions[s].pending \ {n})
    /\ TrackAdded(m)
    /\ recMissing' = [recMissing EXCEPT ![n] = 0]

\* The poll finds the device n, now named m.
SessionReopens(s, n, m) ==
    /\ alive /\ Is(s, "recording")
    /\ n \in sessions[s].pending /\ m \in present \ sessions[s].open
    /\ Reopens(s, n, m)
    /\ UNCHANGED <<alive, state, session, present, recheck, held, watching, saved>>

SessionGivesUp(s, n) ==
    /\ alive /\ Is(s, "recording")
    /\ n \in sessions[s].pending
    /\ sessions' = [sessions EXCEPT ![s].pending = @ \ {n}]
    /\ UNCHANGED <<alive, state, session, present, books, recMissing, recheck, held, watching,
                   saved>>

\* addDevice: a device that is looked for (as n, whatever it is called now) is the re-open.
AddDevice(m) ==
    /\ alive /\ state = "recording" /\ Is(session, "recording")
    /\ m \in present \ Current.open
    /\ \/ /\ m \notin Current.pending
          /\ Opens(session, m, Current.pending)
          /\ TrackAdded(m)
          /\ UNCHANGED recMissing
       \/ \E n \in Current.pending : Reopens(session, n, m)
    /\ UNCHANGED <<alive, state, session, present, recheck, held, watching, saved>>

\* The devices stopDevice accepts: the last open track stays.
Switchable == {n \in Live : Cardinality(Live) >= 2}

StopDevice(n) ==
    /\ alive /\ state = "recording" /\ session # 0
    /\ n \in Switchable
    /\ recOff' = recOff \cup {n}
    /\ sessions' = [sessions EXCEPT ![session].open = @ \ {n}]
    /\ UNCHANGED <<alive, state, session, present, recNames, recClosed, recMissing, recheck,
                   held, watching, saved>>

----------------------------------------------------------------------------
(* Enumerations *)

Missing(list) == Live \ list

\* How often the loop over recNames comes to n.
Occurrences(n) == Cardinality({i \in DOMAIN recNames : recNames[i] = n})

\* The devices whose count reaches two; it counts a name as often as recNames has it.
GoneTwice(list) == {n \in Missing(list) : recMissing[n] + Occurrences(n) >= 2}

\* Mutant: the count of a device that is closed is not forgotten.
CountOnly(list) ==
    [n \in Names |-> CASE n \in Missing(list) -> recMissing[n] + 1
                       [] n \in Live \cap list -> 0
                       [] OTHER -> recMissing[n]]

\* recMissing after an enumeration; devices not on a track are skipped.
Counted(list) ==
    [n \in Names |-> CASE n \in GoneTwice(list) -> 0
                       [] n \in Missing(list) \ GoneTwice(list) -> 1
                       [] n \in Live \cap list -> 0
                       [] OTHER -> recMissing[n]]

\* Mutant: no second look is scheduled.
NeverRecheck(list) == FALSE

\* Another enumeration is scheduled when a device is missing for the first time.
NeedsRecheck(list) == \E n \in Missing(list) : recMissing[n] = 0

\* handleDeviceSetChange; pending: a re-check is still scheduled when it runs.
DeviceSetChange(list, pending) ==
    /\ present' = list
    /\ IF state = "recording" /\ session # 0 /\ list # {}
       THEN LET lost == GoneTwice(list) \cap Current.open
            IN /\ recMissing' = Counted(list)
               /\ recheck' = (pending \/ NeedsRecheck(list))
               /\ sessions' = [sessions EXCEPT ![session].open = @ \ lost,
                                               ![session].pending = @ \cup lost]
               /\ TrackClosed(lost)
       ELSE recheck' = pending /\ UNCHANGED <<recMissing, sessions, recClosed>>
    /\ UNCHANGED <<alive, state, session, recNames, recOff, held, watching, saved>>

\* Somebody asks for the devices: the recorder, the settings, the session's re-open poll.
Enumerate(list) == alive /\ DeviceSetChange(list, recheck)

\* The single shot fires; it only enumerates while recording.
Recheck ==
    /\ alive /\ recheck
    /\ IF state = "recording"
       THEN \E list \in SUBSET Names : DeviceSetChange(list, FALSE)
       ELSE /\ recheck' = FALSE
            /\ UNCHANGED <<alive, state, session, sessions, present, books, recMissing, held,
                           watching, saved>>

----------------------------------------------------------------------------
(* stop, the end of a session, the end of the service *)

Doomed(s) == [sessions EXCEPT ![s].st = "doomed"]

\* stop() reaches the session whatever the service's state is: a recording one encodes, any other
\* answers failed, which drops it.
Stop ==
    /\ alive /\ state \in StopStates /\ session # 0
    /\ IF Current.st = "recording"
       THEN /\ sessions' = [sessions EXCEPT ![session].st = "encoding", ![session].pending = {}]
            /\ state' = "encoding"
            /\ UNCHANGED <<session, books, held, watching>>
       ELSE sessions' = Doomed(session) /\ Failed
    /\ UNCHANGED <<alive, present, recMissing, recheck, saved>>

\* Mutant: the meeting is not stored.
SaveNothing(s) == UNCHANGED saved

Save(s) == saved' = saved \cup {s}

\* The files of s are closed: stateChanged(Idle), then finished: the meeting is saved and the
\* service's session (whichever it is by now) is dropped.
SessionFinishes(s) ==
    /\ alive /\ Is(s, "encoding")
    /\ sessions' = [t \in DOMAIN sessions |->
                       IF t \in {s, session} THEN [sessions[t] EXCEPT !.st = "doomed"]
                       ELSE sessions[t]]
    /\ Save(s)
    /\ state' = "idle" /\ session' = 0 /\ ClearTracks
    /\ held' = FALSE /\ watching' = FALSE
    /\ UNCHANGED <<alive, present, recMissing, recheck>>

\* The deferred delete; the destructor waits for the files of a session that was not done.
SessionDeleted(s) ==
    /\ alive /\ Is(s, "doomed")
    /\ sessions' = [sessions EXCEPT ![s] = NewSession("gone", <<>>)]
    /\ UNCHANGED <<alive, state, session, present, books, recMissing, recheck, held, watching,
                   saved>>

\* ~RecordingService: the sessions are its children.
Destroy ==
    /\ alive
    /\ alive' = FALSE
    /\ held' = FALSE /\ watching' = FALSE /\ recheck' = FALSE
    /\ sessions' = [s \in DOMAIN sessions |-> NewSession("gone", <<>>)]
    /\ UNCHANGED <<state, session, present, books, recMissing, saved>>

----------------------------------------------------------------------------
Caller == \/ StartRefused
          \/ \E devices \in SUBSET present : \E names \in SetToSeqs(devices) : Start(names)
          \/ StartFails
          \/ \E n \in Names : AddDevice(n)
          \/ \E n \in Names : StopDevice(n)
          \/ Stop
          \/ \E list \in SUBSET Names : Enumerate(list)
          \/ Destroy

Session == \E s \in DOMAIN sessions :
              \/ \E S \in SUBSET sessions[s].open : SessionLoses(s, S)
              \/ \E n, m \in Names : SessionReopens(s, n, m)
              \/ \E n \in Names : SessionGivesUp(s, n)

Loop == \/ Recheck
        \/ \E s \in DOMAIN sessions : SessionFinishes(s) \/ SessionDeleted(s)

Over == ~alive /\ UNCHANGED vars

Next == Caller \/ Session \/ Loop \/ Over

Spec == Init /\ [][Next]_vars

\* The event loop runs: a timer that is due fires, a session that encodes reports its end.
FairSpec ==
    /\ Spec
    /\ WF_vars(Recheck)
    /\ \A s \in 1..MaxSessions : WF_vars(SessionFinishes(s))

----------------------------------------------------------------------------
(* Properties *)

SessionRecord == [st: {"recording", "encoding", "doomed", "gone"}, tracks: Seq(Names),
                  open: SUBSET Names, pending: SUBSET Names]

TypeOK == /\ alive \in BOOLEAN
          /\ state \in States
          /\ sessions \in Seq(SessionRecord)
          /\ session \in {0} \cup DOMAIN sessions
          /\ present \in SUBSET Names
          /\ recNames \in Seq(Names) /\ Len(recNames) <= MaxTracks
          /\ recClosed \in SUBSET Names /\ recOff \in SUBSET Names
          /\ recMissing \in [Names -> 0..1]
          /\ recheck \in BOOLEAN /\ held \in BOOLEAN /\ watching \in BOOLEAN
          /\ saved \in SUBSET DOMAIN sessions

\* The service's book agrees with the session: a device counts as live exactly while it has an open
\* track, through losses, sleeps, re-opens under another name and switching off and on.
LiveMatchesOpen == alive /\ state = "recording" => Live = Current.open

\* The level of a track is reported by its index in recNames: that list names the same devices in
\* the same order as the session's tracks, however often devices came back.
LevelsNamed == alive /\ state = "recording" => recNames = Current.tracks

\* Between recordings nothing is held back: no inhibitor, no watch, no session, no open track.
IdleReleases ==
    state = "idle" =>
        /\ ~held /\ ~watching /\ session = 0 /\ Live = {}
        /\ \A s \in DOMAIN sessions : sessions[s].st \notin {"recording", "encoding"}

\* A recording loses its last open track only to a loss that is then looked for: the user can not
\* switch it off.
LastTrackStays ==
    [][ \A s \in DOMAIN sessions :
          /\ sessions[s].st = "recording" /\ sessions'[s].st = "recording"
          /\ sessions[s].open # {} /\ sessions'[s].open = {}
          => sessions'[s].pending # {} ]_vars

\* A stopped recording is saved (unless the service is destroyed first).
StopSaves == \A s \in 1..MaxSessions : Is(s, "encoding") ~> s \in saved \/ ~alive

\* A recorded device that an enumeration missed is looked for again: it does not stay missing with
\* its track open (an empty list, no audio system, closes nothing).
MissingFollowedUp ==
    \A n \in Names :
        (alive /\ state = "recording" /\ n \in Live /\ n \notin present /\ present # {})
            ~> (~alive \/ state # "recording" \/ n \notin Live \/ n \in present \/ present = {})

\* "finished() comes when EVERY track file is closed on disk (until then the state is Stopping ->
\* Encoding)" (RecordingSession::stop): an encoding session is not dropped before it finished.
NeverDiscarded ==
    [][ \A s \in DOMAIN sessions :
          Is(s, "encoding") /\ sessions'[s].st = "doomed" => s \in saved' ]_vars

\* "a recorded device missing from TWO consecutive enumerations is closed safely"
\* (RecordingService.h): a device an enumeration closes was missing from the one before too.
TwoAbsences ==
    [][ \A list \in SUBSET Names : Enumerate(list) =>
          \A s \in DOMAIN sessions :
              (sessions[s].open \ sessions'[s].open) \cap present = {} ]_vars
=============================================================================
