---------------------------- MODULE MCDeviceClock --------------------------
(* Instances of DeviceClock for TLC: two devices whose events chain (a      *)
(* sector is followed by the next one, a serial byte by its acknowledge)    *)
(* and one that fires once (a drive response).                              *)
EXTENDS DeviceClock

CONSTANTS serial, stream, drive

MCReload == [d \in Dev |-> IF d = drive THEN 0 ELSE 2]

Playing   == [uses |-> {stream, drive}, idleSkip |-> TRUE,
              toggles |-> FALSE, saves |-> FALSE]
OnTheCard == [uses |-> {serial}, idleSkip |-> FALSE, toggles |-> FALSE, saves |-> FALSE]
Debugging == [uses |-> {drive}, idleSkip |-> FALSE, toggles |-> TRUE, saves |-> FALSE]
Restoring == [uses |-> {drive}, idleSkip |-> FALSE, toggles |-> FALSE, saves |-> TRUE]

AllSessions   == {Playing, OnTheCard, Debugging, Restoring}
JustPlaying   == {Playing}
JustOnTheCard == {OnTheCard}
JustDebugging == {Debugging}
JustRestoring == {Restoring}
=============================================================================
