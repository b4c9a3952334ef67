---------------------------- MODULE SleepTiming -----------------------------
(***************************************************************************)
(* How long sys_sleep sleeps.  The kernel with three history variables per *)
(* sleeping task: the ticks it asked for, the timer interrupts since, and  *)
(* how many interrupts had still to walk the sleep list when it was linked *)
(* there: task_time_tick dispatches before it walks that list, so the walk *)
(* of an earlier tick may come after the sleep of a later task.            *)
(***************************************************************************)
EXTENDS Kernel

VARIABLES want, elapsed, debt

timingVars == <<want, elapsed, debt>>

\* The tick handlers that have still to walk the sleep list.
PendingScans ==
    Cardinality(UNION {{<<t, i>> : i \in {j \in 1..Len(stack[t]) : stack[t][j].pc = "scan"}} :
                       t \in Task})

Asleep(t) == t \in Nodes(sleep_list)

\* Every task starts to sleep, goes on sleeping or is awake.
RecordSleep ==
    /\ want' = [t \in Task |-> IF ~Asleep(t)' THEN 0
                               ELSE IF Asleep(t) THEN want[t] ELSE sleep_ticks'[t]]
    /\ elapsed' = [t \in Task |-> IF Asleep(t) /\ Asleep(t)' THEN elapsed[t] ELSE 0]
    /\ debt' = [t \in Task |-> IF ~Asleep(t)' THEN 0
                               ELSE IF Asleep(t) THEN debt[t] ELSE PendingScans]

RecordTick ==
    /\ elapsed' = [t \in Task |-> IF Asleep(t) THEN elapsed[t] + 1 ELSE 0]
    /\ UNCHANGED <<want, debt>>

TimingInit ==
    /\ KernelInit
    /\ want = [t \in Task |-> 0]
    /\ elapsed = [t \in Task |-> 0]
    /\ debt = [t \in Task |-> 0]

TimingNext ==
    \/ (Running \/ ClientCall) /\ RecordSleep
    \/ Tick /\ RecordTick

TimingSpec == TimingInit /\ [][TimingNext]_<<vars, timingVars>>

\* TickAccounting: every timer interrupt counts each sleeping task down exactly once,
\* sooner or later: between two walks over the sleep list, the ticks a sleeper has been
\* counted down by plus the walks still to come are the interrupts since it went to
\* sleep plus the walks that were due at that time.  No tick is lost when the handler
\* is suspended before its walk, and none is counted twice.
TickAccounting ==
    \A t \in Task : Asleep(t) /\ ~At("walk") =>
        want[t] - sleep_ticks[t] + PendingScans = elapsed[t] + debt[t]

\* NeverAhead: a sleeping task has been counted down by no more ticks than there were
\* timer interrupts since it called sys_sleep, so that it sleeps at least as long as
\* it asked: sys_sleep rounds the time up (task.c:204, "向上取整").
NeverAhead == \A t \in Task : Asleep(t) => want[t] - sleep_ticks[t] <= elapsed[t]

-----------------------------------------------------------------------------
(* The inductive invariant.                                                *)

\* The sleepers that the walk in progress has still to come to.
ToCount ==
    IF At("walk") /\ walk # None
    THEN {sleep_list[i] : i \in Position(sleep_list, walk)..Len(sleep_list)}
    ELSE {}

\* The account balances in the middle of a walk, too.
Balanced(t) ==
    want[t] - sleep_ticks[t] + PendingScans + (IF t \in ToCount THEN 1 ELSE 0)
        = elapsed[t] + debt[t]

TimingInv ==
    /\ want \in [Task -> Int] /\ elapsed \in [Task -> Int] /\ debt \in [Task -> Int]
    /\ \A t \in Task : Asleep(t) => Balanced(t)
=============================================================================
