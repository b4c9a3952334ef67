------------------------------- MODULE Kernel -------------------------------
(***************************************************************************)
(* The kernel as one machine: the task manager, the mutexes and the        *)
(* semaphores over the same lists, log_printf (tools/log.c), which every   *)
(* task switch and every expired slice goes through, and task_init, which  *)
(* allocates the GDT entry of the new task's TSS (cpu/cpu.c).              *)
(***************************************************************************)
EXTENDS Mutex, Sem, FiniteSets

CONSTANTS
    Calls,        \* the kernel calls that client tasks make in this instance
    Creators      \* the tasks that call task_init

CallNames == {"yield", "sleep", "sti", "mutex", "sem", "log", "task_init"}

ASSUME KernelAssumption == Calls \subseteq CallNames /\ Creators \subseteq Task

VARIABLES
    new_task, new_sel   \* task_init's and tss_init's locals, on each task's stack

initVars == <<new_task, new_sel>>
vars == <<taskVars, mutexVars, semVars, initVars>>

-----------------------------------------------------------------------------
(* log_printf: lock, write to the serial port, unlock.  The writing lasts  *)
(* and, with IF set, may be interrupted.                                   *)

log_printf(rest) == mutex_lock(log_mutex, <<Call("unlog")>> \o rest)

\* log_printf called by task_dispatch, task_time_tick or tss_init.
LogStart ==
    /\ At("log")
    /\ log_printf(Rest)
    /\ UNCHANGED <<mutexFrame, state, gdtVars, semVars, initVars>>

ClientLog ==
    /\ AtBase
    /\ log_printf(<<>>)
    /\ UNCHANGED <<mutexFrame, state, gdtVars, semVars, initVars>>

LogEnd ==
    /\ At("unlog")
    /\ mutex_unlock(log_mutex, Rest)
    /\ UNCHANGED <<mutexFrame, gdtVars, semVars, initVars>>

-----------------------------------------------------------------------------
(* task_init(t).  tss_init looks for a free GDT entry under gdt_mutex, but *)
(* fills it in after the mutex is released.                                *)

\* t is still a task_t nobody has begun to initialise.
Uncreated(t) ==
    /\ t \notin Nodes(task_list)
    /\ \A u \in Task : new_task[u] # t

task_init(t) ==
    /\ AtBase
    /\ curr_task \in Creators
    /\ Uncreated(t)
    /\ new_task' = [new_task EXCEPT ![curr_task] = t]
    /\ mutex_lock(gdt_mutex, <<Call("gdt_scan"), Call("gdt_unlock"),
                               Call("tss_set"), Call("task_ready")>>)
    /\ UNCHANGED <<mutexFrame, state, gdtVars, semVars, new_sel>>

\* Mutants: the entry after the free one; the selector is not kept in the task_t.
Mutant_FreeSlot == 4 + Cardinality({i \in TssSlot : gdt_table[i] # None})

Mutant_tss_init ==
    /\ At("tss_set")
    /\ gdt_table' = [gdt_table EXCEPT ![new_sel[curr_task]] = new_task[curr_task]]
    /\ Continue(Rest)
    /\ UNCHANGED <<curr_task, listVars, fieldVars, tss_sel, irq, walk, halted,
                   mutexVars, semVars, initVars>>

\* The first entry with attr = 0, or none (0 here, -1 in the code).
FreeSlot ==
    IF \E i \in TssSlot : gdt_table[i] = None
    THEN CHOOSE i \in TssSlot : /\ gdt_table[i] = None
                                /\ \A j \in TssSlot : j < i => gdt_table[j] # None
    ELSE 0

gdt_alloc_desc ==
    /\ At("gdt_scan")
    /\ new_sel' = [new_sel EXCEPT ![curr_task] = FreeSlot]
    /\ Continue(Rest)
    /\ UNCHANGED <<curr_task, listVars, fieldVars, gdtVars, irq, walk, halted,
                   mutexVars, semVars, new_task>>

gdt_release ==
    /\ At("gdt_unlock")
    /\ mutex_unlock(gdt_mutex, Rest)
    /\ UNCHANGED <<mutexFrame, gdtVars, semVars, initVars>>

\* segment_desc_set and the TSS, or the message that no entry was free: task_init
\* ignores tss_init's result and goes on either way.
tss_init ==
    /\ At("tss_set")
    /\ IF new_sel[curr_task] = 0
       THEN /\ Continue(<<Call("log")>> \o Rest)
            /\ UNCHANGED <<tss_sel, gdt_table>>
       ELSE /\ gdt_table' = [gdt_table EXCEPT ![new_sel[curr_task]] = new_task[curr_task]]
            /\ tss_sel' = [tss_sel EXCEPT ![new_task[curr_task]] = new_sel[curr_task]]
            /\ Continue(Rest)
    /\ UNCHANGED <<curr_task, listVars, fieldVars, irq, walk, halted,
                   mutexVars, semVars, initVars>>

\* The fields of the task_t, then the protected part: ready list and task list.
task_init_end ==
    /\ At("task_ready")
    /\ LET t == new_task[curr_task]
       IN  /\ sleep_ticks' = [sleep_ticks EXCEPT ![t] = 0]
           /\ slice_ticks' = [slice_ticks EXCEPT ![t] = TASK_TIME_SLICE_DEFAULT]
           /\ ready_list' = task_set_ready(ready_list, t)
           /\ state' = ReadyState(state, t)
           /\ task_list' = list_insert_last(task_list, t)
    /\ new_task' = [new_task EXCEPT ![curr_task] = None]
    /\ new_sel' = [new_sel EXCEPT ![curr_task] = 0]
    /\ Continue(Rest)
    /\ UNCHANGED <<curr_task, sleep_list, gdtVars, irq, walk, halted, mutexVars, semVars>>

-----------------------------------------------------------------------------

KernelInit ==
    /\ TaskInit
    /\ MutexInit
    /\ SemInit
    /\ new_task = [t \in Task |-> None]
    /\ new_sel = [t \in Task |-> 0]

\* What the current task goes on with on its own: every frame of a call.
TaskStep ==
    /\ task_dispatch \/ irq_leave_protection \/ tick_rotate \/ tick_scan \/ tick_walk
    /\ UNCHANGED <<mutexVars, semVars, initVars>>

Running ==
    TaskStep \/ LogStart \/ LogEnd \/ gdt_alloc_desc \/ gdt_release \/ tss_init \/ task_init_end

Sti == irq_enable_global /\ UNCHANGED <<mutexVars, semVars, initVars>>

\* What a client task chooses to call next.
ClientCall ==
    \/ /\ \/ "yield" \in Calls /\ sys_sched_yield
          \/ "sleep" \in Calls /\ \E ms \in SleepMs : sys_sleep(ms)
       /\ UNCHANGED <<mutexVars, semVars, initVars>>
    \/ "sti" \in Calls /\ Sti
    \/ "log" \in Calls /\ ClientLog
    \/ /\ "mutex" \in Calls
       /\ \E m \in ClientMutexes : ClientLock(m) \/ ClientUnlock(m)
       /\ UNCHANGED <<semVars, initVars>>
    \/ /\ "sem" \in Calls
       /\ \E s \in SemId : sem_wait(s) \/ sem_notify(s)
       /\ UNCHANGED <<mutexVars, initVars>>
    \/ "task_init" \in Calls /\ \E t \in OtherTasks : task_init(t)

Tick == time_tick /\ UNCHANGED <<mutexVars, semVars, initVars>>

Next == Running \/ ClientCall \/ Tick

Spec == KernelInit /\ [][Next]_vars

-----------------------------------------------------------------------------
(* Invariants.                                                             *)

\* Every variable has its type; in particular no semaphore count is negative.
TypeOK ==
    /\ TaskTypeOK
    /\ MutexTypeOK
    /\ SemTypeOK
    /\ new_task \in [Task -> OtherTasks \cup {None}]
    /\ new_sel \in [Task -> {0} \cup TssSlot]

\* The tasks in some wait list.
MutexWaiters == UNION {Nodes(mutex_wait[m]) : m \in MutexId}
SemWaiters == UNION {Nodes(sem_wait_list[s]) : s \in SemId}

Waiting(t) == t \in MutexWaiters \cup SemWaiters

\* NoTaskLost: every task that task_init has finished, other than the idle task, is
\* linked in the ready list, the sleep list or a wait list: it can be run or woken.
NoTaskLost ==
    \A t \in Nodes(task_list) \ {idle_task} :
        t \in Nodes(ready_list) \cup Nodes(sleep_list) \/ Waiting(t)

\* OnePlace: a task is linked only once, in only one of the ready list, the sleep list
\* and the wait lists.  The ready and the sleep list share run_node, the wait lists
\* wait_node: a second insertion would break the list the node is in.
OnePlace ==
    /\ NoRepeat(ready_list) /\ NoRepeat(sleep_list)
    /\ \A m \in MutexId : NoRepeat(mutex_wait[m])
    /\ \A s \in SemId : NoRepeat(sem_wait_list[s])
    /\ Nodes(ready_list) \cap Nodes(sleep_list) = {}
    /\ \A t \in Nodes(ready_list) \cup Nodes(sleep_list) : ~Waiting(t)
    /\ MutexWaiters \cap SemWaiters = {}
    /\ \A m, n \in MutexId : m # n => Nodes(mutex_wait[m]) \cap Nodes(mutex_wait[n]) = {}
    /\ \A s, u \in SemId : s # u => Nodes(sem_wait_list[s]) \cap Nodes(sem_wait_list[u]) = {}

\* The current task is at a point where task_dispatch has brought the running
\* task in line with the ready list: not between a change of the lists and the
\* dispatch that follows it.
Dispatched ==
    stack[curr_task] = <<>> \/ Head(stack[curr_task]).pc \notin {"dispatch", "walk"}

\* RunningIsHead: the task that runs is the first of the ready list, and the idle
\* task runs only when that list is empty.  In particular a task that task_set_block
\* is about to unlink from the ready list is linked there (list_remove's contract).
RunningIsHead == Dispatched /\ ~halted => curr_task = task_next_run

\* A call in progress on the task's stack holds interrupts off.
Protected(t) == \E i \in 1..Len(stack[t]) : stack[t][i].pc \in {"leave", "iret"}

\* IrqDiscipline: IF is never set between irq_enter_protection and the matching
\* irq_leave_protection, or inside the tick handler, whatever was switched to in
\* between; and a suspended task is always suspended inside such a region.
IrqDiscipline ==
    /\ \A t \in Task : irq[t] => ~Protected(t)
    /\ \A t \in Task \ {curr_task} : stack[t] # <<>> => Protected(t)

\* How many calls of log_printf the task t has begun and not ended.
OpenLogs(t) == Cardinality({i \in 1..Len(stack[t]) : stack[t][i].pc = "unlog"})

\* LogBalanced: the lock count of log_mutex is the number of log_printf calls its
\* owner has open, and a task with an open call that does not own the mutex waits
\* for it: no task ever writes without owning log_mutex, and no unlock goes missing,
\* although log_printf is re-entered from the tick handler and from task_dispatch.
LogBalanced ==
    \A t \in Task :
        OpenLogs(t) = (IF owner[log_mutex] = t THEN locked_count[log_mutex] ELSE 0)
                      + (IF t \in Nodes(mutex_wait[log_mutex]) THEN 1 ELSE 0)

\* LogOwnerRunnable: whoever owns log_mutex is in the ready list (or is the idle task
\* and running), so the idle task never finds log_mutex taken.  It must not: the idle
\* task cannot block, and mutex_lock would return to it without the lock.
LogOwnerRunnable ==
    LET o == owner[log_mutex]
    IN  /\ o \in Task \ {idle_task} => o \in Nodes(ready_list)
        /\ o = idle_task => curr_task = idle_task

\* MutexConsistent: a mutex is owned exactly while its count is positive, tasks wait
\* only for a mutex that another task owns, each in one place, and the idle task, which
\* cannot block, never waits.
MutexConsistent ==
    \A m \in MutexId :
        /\ owner[m] = None <=> locked_count[m] = 0
        /\ mutex_wait[m] # <<>> => owner[m] # None
        /\ NoRepeat(mutex_wait[m])
        /\ owner[m] \notin Nodes(mutex_wait[m])
        /\ idle_task \notin Nodes(mutex_wait[m])

\* SemNoLostUnit: tasks wait for a semaphore only while it has no unit to give.
SemNoLostUnit == \A s \in SemId : sem_wait_list[s] # <<>> => sem_cnt[s] = 0

\* StateMatchesList: TASK_SLEEP is the state of exactly the tasks in the sleep list,
\* each with ticks left to sleep, and every task that waits in the ready list for the
\* CPU is TASK_READY.
StateMatchesList ==
    \A t \in Task :
        /\ t \in Nodes(sleep_list) <=> state[t] = "TASK_SLEEP"
        /\ t \in Nodes(sleep_list) => sleep_ticks[t] > 0
        /\ t \in Nodes(ready_list) /\ t # curr_task /\ ~halted => state[t] = "TASK_READY"

\* SliceRunning: a slice counter stands at 0 only in a task suspended inside its own
\* tick handler before the reset, so the next decrement never takes it below 0, from
\* where it would not expire again.
SliceRunning ==
    \A t \in Task :
        /\ slice_ticks[t] \in 0..TASK_TIME_SLICE_DEFAULT
        /\ slice_ticks[t] = 0 => \E i \in 1..Len(stack[t]) : stack[t][i].pc = "rotate"

\* SwitchSafe: every task that task_init has finished has a GDT entry of its own, so
\* a switch to it lands in it; the CPU never faults in task_switch.
SwitchSafe == ~halted /\ \A t \in Nodes(task_list) : SwitchLands(t)

\* StackBounded: the calls a task has open at once are bounded (13 frames), although
\* log_printf blocks inside task_dispatch, which logs when it is switched back to.
StackBounded == \A t \in Task : Len(stack[t]) <= 13
=============================================================================
