------------------------- MODULE MCRecordingSession -------------------------
(***************************************************************************)
(* Small recordings for TLC: a headset that may come back under another    *)
(* name, and the system audio (a loopback).                                *)
(***************************************************************************)
EXTENDS RecordingSession

Headset == [id |-> 1, name |-> "headset"]
Renamed == [id |-> 1, name |-> "headset 2"]
Monitor == [id |-> 2, name |-> "monitor"]

HotPlugged == {Headset, Renamed, Monitor}
Fixed == {Headset, Monitor}
OnlyMonitor == {Monitor}
SystemAudio == {"monitor"}

\* slugify("headset 2") is what a second "headset" would get as its suffix.
Slugs == [name \in {"headset", "headset 2", "monitor"} |->
            CASE name = "headset" -> <<1>> [] name = "headset 2" -> <<1, 2>> [] OTHER -> <<2>>]
MonitorSlug == [name \in {"monitor"} |-> <<2>>]
FixedSlugs == [name \in {"headset", "monitor"} |-> Slugs[name]]
=============================================================================
