--------------------------- MODULE MCSleepTiming ----------------------------
(* Instances of the kernel with its sleep times for TLC.                   *)
EXTENDS SleepTiming, TLC

NoUnits == [s \in SemId |-> 0]
=============================================================================
