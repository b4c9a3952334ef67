---------------------------- MODULE MCInterrupts ----------------------------
(* Instances of the kernel with its interrupts for TLC.                    *)
EXTENDS Interrupts, TLC

NoUnits == [s \in SemId |-> 0]
=============================================================================
