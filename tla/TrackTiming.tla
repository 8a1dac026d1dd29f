---------------------------- MODULE TrackTiming ----------------------------
(***************************************************************************)
(* The pure rules of tracktiming (TrackTiming.h, TrackTiming.cpp).  Time   *)
(* is counted in units and a capture device delivers one frame a unit, so  *)
(* expectedFrames is the elapsed time itself.                              *)
(***************************************************************************)
EXTENDS Integers

CONSTANTS
    GapIdle,        \* kGapIdleMs: a device is silent after this long without data
    GapTolerance,   \* kGapToleranceMs: a smaller shortfall is not filled
    StallWarn,      \* kStallWarnMs: a watched track without data for this long is stalled
    SleepJumpMin,   \* kSleepJumpMs: a wall-clock lead above this is a sleep
    ReopenWindow    \* kReopenWindowMs: a lost device is looked for this long

ASSUME TimingAssumption ==
    /\ GapIdle \in Nat /\ GapTolerance \in Nat /\ StallWarn \in Nat
    /\ SleepJumpMin \in Nat /\ ReopenWindow \in Nat

ExpectedFrames(elapsed) == IF elapsed <= 0 THEN 0 ELSE elapsed

\* The shortfall against the clock, if it exceeds the tolerance.
FramesOwed(expected, delivered, tolerance) ==
    IF expected - delivered > (IF tolerance > 0 THEN tolerance ELSE 0)
    THEN expected - delivered
    ELSE 0

\* Nothing goes in while the device delivers: only a gap of GapIdle or more is filled.
SilenceToInsert(sinceOpen, idle, delivered) ==
    IF idle < GapIdle
    THEN 0
    ELSE FramesOwed(ExpectedFrames(sinceOpen), delivered, ExpectedFrames(GapTolerance))

IsStalled(idle) == idle >= StallWarn

\* lead: how far the wall clock ran ahead of the monotonic one between two ticks.
SleepJump(lead) == IF lead > SleepJumpMin THEN lead ELSE 0
=============================================================================
