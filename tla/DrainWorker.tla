---------------------------- MODULE DrainWorker ----------------------------
(***************************************************************************)
(* The drain worker of a recording (class DrainWorker in                   *)
(* RecordingSession.cpp), a thread of its own.  Fifty times a second it    *)
(* empties every track's capture ring into the track's encoder; it runs    *)
(* the commands the session posts to it (inbox) in order, between ticks,   *)
(* and posts what it saw to the session (outbox).                          *)
(*                                                                         *)
(* Time runs in units of TrackTiming, and one unit of audio is one frame.  *)
(* The encoders are abstracted to the number of frames in their file.      *)
(***************************************************************************)
EXTENDS TrackTiming, Sequences

CONSTANTS
    IdleSilent  \* the platform's loopback delivers nothing while idle (Windows)

ASSUME IdleSilentAssumption == IdleSilent \in BOOLEAN

VARIABLES
    enc,        \* the worker's tracks (EncTrack), in the order the encoders were opened
    ticked,     \* a tick has recorded the clocks (sleep detection needs a previous tick)
    finalized,  \* finalize() has run
    inbox,      \* commands posted to the worker: close, add, finalize
    outbox,     \* signals queued for the session: stalled, resumed, slept, finalized
    eng,        \* the engine's slots: capture open, stopped by the backend, frames in the ring
    clock       \* the recording clock: mono, slept, and the wall-clock lead not yet seen by a tick

workerVars == <<enc, ticked, finalized, inbox, outbox, eng, clock>>

\* RecordingClock::elapsed
Elapsed == clock.mono + clock.slept

EncTrack == [slot: Nat, opened: Nat, last: Nat, written: Nat, loopback: BOOLEAN,
             stalled: BOOLEAN, suspended: BOOLEAN, cap: Int, closed: BOOLEAN]

\* A loopback of a platform that delivers nothing while idle is not watched for stalls.
Watched(t) == ~(t.loopback /\ IdleSilent)

Encoder(slot, offset, loopback) ==
    [slot |-> slot, opened |-> offset, last |-> offset, written |-> 0, loopback |-> loopback,
     stalled |-> FALSE, suspended |-> FALSE, cap |-> -1, closed |-> FALSE]

\* A signal about a set of tracks; tracks of one tick share an entry, their handlers commute.
Signal(kind, about) ==
    IF about = {} THEN <<>> ELSE <<[kind |-> kind, tracks |-> about, from |-> 0, to |-> 0]>>
Slept(from, to) == <<[kind |-> "slept", tracks |-> {}, from |-> from, to |-> to]>>
Finalized == <<[kind |-> "finalized", tracks |-> {}, from |-> 0, to |-> 0]>>

----------------------------------------------------------------------------
(* Per track *)

\* Mutant of Filled: fillGap without the cap a sleep puts on it.
FilledUncapped(t, now) ==
    IF t.loopback
    THEN [t EXCEPT !.written = @ + SilenceToInsert(now - t.opened, now - t.last, @)]
    ELSE t

\* fillGap: a silent loopback is brought up to the clock, a suspended one only up to its cap.
Filled(t, now) ==
    LET upTo == IF t.cap >= 0 /\ t.cap < now THEN t.cap ELSE now
    IN IF t.loopback
       THEN [t EXCEPT !.written = @ + SilenceToInsert(upTo - t.opened, upTo - t.last, @)]
       ELSE t

GotData(t) == ~t.closed /\ ~t.suspended /\ eng[t.slot].ring > 0

\* drainTrack: the ring goes into the file; a suspended track's stale data is dropped.
Drained(t, now) ==
    CASE t.closed \/ t.suspended -> t
      [] GotData(t)              -> [t EXCEPT !.last = now, !.stalled = FALSE,
                                        !.written = IF t.loopback THEN @ + eng[t.slot].ring ELSE 0]
      [] OTHER                   -> Filled(t, now)

\* finishTrack: the file is complete on disk.
Finished(t, now) == IF t.closed THEN t ELSE [Filled(t, now) EXCEPT !.closed = TRUE]

\* The rings after draining the tracks of S.
Emptied(S) ==
    [s \in DOMAIN eng |->
        IF \E i \in S : enc[i].slot = s /\ ~enc[i].closed
        THEN [eng[s] EXCEPT !.ring = 0]
        ELSE eng[s]]

----------------------------------------------------------------------------
(* tick *)

\* checkSleep cuts every open track at the sleep's start.
CutBySleep(t, from) ==
    IF t.closed THEN t ELSE [t EXCEPT !.suspended = TRUE, !.cap = from]

TickAt(jump) ==
    LET now == Elapsed + jump
        cut == [i \in DOMAIN enc |-> IF jump > 0 THEN CutBySleep(enc[i], Elapsed) ELSE enc[i]]
        drained == [i \in DOMAIN enc |-> Drained(cut[i], now)]
        back == {i \in DOMAIN enc : enc[i].stalled /\ ~drained[i].stalled}
        late == {i \in DOMAIN enc : /\ ~drained[i].closed /\ ~drained[i].stalled
                                    /\ ~drained[i].suspended /\ Watched(drained[i])
                                    /\ IsStalled(now - drained[i].last)}
    IN /\ enc' = [i \in DOMAIN enc |->
                    IF i \in late THEN [drained[i] EXCEPT !.stalled = TRUE] ELSE drained[i]]
       /\ outbox' = outbox \o (IF jump > 0 THEN Slept(Elapsed, now) ELSE <<>>)
                           \o Signal("resumed", back) \o Signal("stalled", late)
       /\ eng' = Emptied(DOMAIN enc)
       /\ clock' = [clock EXCEPT !.slept = @ + jump, !.lead = 0]

\* The first tick only records the clocks; finalize() stops the timer.
Tick == /\ ~finalized
        /\ TickAt(IF ticked THEN SleepJump(clock.lead) ELSE 0)
        /\ ticked' = TRUE
        /\ UNCHANGED <<finalized, inbox>>

----------------------------------------------------------------------------
(* Commands *)

\* closeEncoder: drain, finish; a lost device is reported stalled once, a switched-off one is not
\* a stall and a warning it had is withdrawn.
CloseTrackFile(i, detached) ==
    LET drained == Drained(enc[i], Elapsed)
        done == Finished(drained, Elapsed)
    IN /\ enc' = [enc EXCEPT ![i] = [done EXCEPT !.stalled = detached]]
       /\ outbox' = outbox
            \o Signal("resumed", IF enc[i].stalled /\ ~drained.stalled THEN {i} ELSE {})
            \o Signal("stalled", IF detached /\ ~done.stalled THEN {i} ELSE {})
            \o Signal("resumed", IF ~detached /\ done.stalled THEN {i} ELSE {})
       /\ eng' = Emptied({i})

CloseEncoder ==
    /\ inbox # <<>>
    /\ Head(inbox).kind = "close"
    /\ inbox' = Tail(inbox)
    /\ IF Head(inbox).track \in DOMAIN enc
       THEN CloseTrackFile(Head(inbox).track, Head(inbox).detached)
       ELSE UNCHANGED <<enc, outbox, eng>>
    /\ UNCHANGED <<ticked, finalized, clock>>

\* Mutant of FinalizeAll: nothing is reported when every track was closed before.
FinalizeOpenOnly ==
    LET drained == [i \in DOMAIN enc |-> Drained(enc[i], Elapsed)]
    IN IF \A i \in DOMAIN enc : enc[i].closed
       THEN UNCHANGED <<enc, outbox, eng>>
       ELSE /\ enc' = [i \in DOMAIN enc |-> Finished(drained[i], Elapsed)]
            /\ outbox' = outbox \o Finalized
            /\ eng' = Emptied(DOMAIN enc)

\* finalize: drain every track, finish every track, tell the session; a second call does nothing.
FinalizeAll ==
    LET drained == [i \in DOMAIN enc |-> Drained(enc[i], Elapsed)]
    IN /\ enc' = [i \in DOMAIN enc |-> Finished(drained[i], Elapsed)]
       /\ outbox' = outbox
            \o Signal("resumed", {i \in DOMAIN enc : enc[i].stalled /\ ~drained[i].stalled})
            \o Finalized
       /\ eng' = Emptied(DOMAIN enc)

Finalize ==
    /\ inbox # <<>>
    /\ Head(inbox).kind = "finalize"
    /\ inbox' = Tail(inbox)
    /\ finalized' = TRUE
    /\ IF finalized THEN UNCHANGED <<enc, outbox, eng>> ELSE FinalizeAll
    /\ UNCHANGED <<ticked, clock>>
=============================================================================
