-------------------------------- MODULE Task --------------------------------
(***************************************************************************)
(* The task manager of core/task.c on one CPU: the ready, sleep and task   *)
(* lists, the dispatcher, the time tick, and the interrupt protection of   *)
(* cpu/irq.c that every operation runs under.                              *)
(*                                                                         *)
(* A switch happens in the middle of task_dispatch, which is called in the *)
(* middle of other functions, some of them interrupt handlers.  So each    *)
(* task keeps a stack of the calls it still has to finish (first frame =   *)
(* what it executes next), and one action executes one frame of the        *)
(* current task up to the next point where a switch or an interrupt may    *)
(* come.  A frame pushed is a frame that has to be executed: a handler is  *)
(* always finished, but other tasks may run before it is.                  *)
(*                                                                         *)
(* irq[t] is the IF flag in task t's EFLAGS; the hardware saves it in the  *)
(* TSS of the task it switches away from.                                  *)
(***************************************************************************)
EXTENDS ListOps, Integers

CONSTANTS
    first_task, idle_task,    \* task_manager.first_task and .idle_task
    OtherTasks,               \* the tasks that task_init may create later
    None,                     \* the null pointer
    TASK_TIME_SLICE_DEFAULT,
    OS_TICKS_MS,              \* milliseconds in a tick
    UINT_MOD,                 \* 2^32, the modulus of uint32_t
    SleepMs,                  \* the arguments clients give sys_sleep
    GDT_TABLE_SIZE

Task == {first_task, idle_task} \cup OtherTasks

\* GDT entries 1 and 2 are the kernel's code and data segments (init_gdt).
TssSlot == 3..(GDT_TABLE_SIZE - 1)

ASSUME TaskAssumption ==
    /\ first_task # idle_task
    /\ {first_task, idle_task} \cap OtherTasks = {}
    /\ None \notin Task
    /\ TASK_TIME_SLICE_DEFAULT \in Nat \ {0}
    /\ OS_TICKS_MS \in Nat \ {0}
    /\ UINT_MOD \in Nat /\ OS_TICKS_MS < UINT_MOD
    /\ SleepMs \subseteq 0..(UINT_MOD - 1)
    /\ GDT_TABLE_SIZE \in Nat /\ GDT_TABLE_SIZE > 4

VARIABLES
    curr_task,
    ready_list, sleep_list, task_list,
    state, sleep_ticks, slice_ticks,   \* fields of each task_t
    tss_sel,        \* tss_sel of each task_t, as an index (0: never set)
    gdt_table,      \* the task whose TSS a GDT entry describes (None: attr = 0)
    irq,            \* the IF flag of each task
    stack,          \* the calls each task has still to finish
    walk,           \* task_time_tick's local pointer into the sleep list
    halted          \* the CPU faulted in a task switch

listVars == <<ready_list, sleep_list, task_list>>
fieldVars == <<state, sleep_ticks, slice_ticks>>
gdtVars == <<tss_sel, gdt_table>>
taskVars == <<curr_task, listVars, fieldVars, gdtVars, irq, stack, walk, halted>>

States == {"TASK_CREATED", "TASK_RUNNING", "TASK_SLEEP", "TASK_READY"}

Pcs == {"dispatch", "leave", "iret", "log", "unlog", "rotate", "scan", "walk",
        "gdt_scan", "gdt_unlock", "tss_set", "task_ready"}

Frame == [pc : Pcs, irq : BOOLEAN]

Call(pc) == [pc |-> pc, irq |-> FALSE]

\* irq_leave_protection(b), and the iret that ends an interrupt handler.
Leave(b) == [pc |-> "leave", irq |-> b]
Iret(b) == [pc |-> "iret", irq |-> b]

-----------------------------------------------------------------------------
(* The current task and what it executes next.                             *)

\* The current task is about to execute a frame of this kind.
At(pc) ==
    /\ ~halted
    /\ stack[curr_task] # <<>>
    /\ Head(stack[curr_task]).pc = pc

\* The current task runs its own code and may call the kernel.  The idle task
\* only ever executes hlt (idle_task_entry).
AtBase == ~halted /\ stack[curr_task] = <<>> /\ curr_task # idle_task

Rest == Tail(stack[curr_task])

\* The current task continues with the frames fs.
Continue(fs) == stack' = [stack EXCEPT ![curr_task] = fs]

\* Mutant: interrupts are not disabled around the dispatch.
Mutant_ProtectedDispatch(rest) ==
    /\ Continue(<<Call("dispatch"), Leave(irq[curr_task])>> \o rest)
    /\ UNCHANGED irq

\* irq_enter_protection, a call of task_dispatch, irq_leave_protection.
\* A body that skips the pair returns with IF restored at once.
ProtectedDispatch(rest) ==
    /\ Continue(<<Call("dispatch"), Leave(irq[curr_task])>> \o rest)
    /\ irq' = [irq EXCEPT ![curr_task] = FALSE]

-----------------------------------------------------------------------------
(* The scheduler's list operations.                                        *)

\* Mutants: a task is readied at the head of the list; its state is forgotten; a
\* sleeping task is not linked (what the comment at task.c:189 is about); a woken
\* task stays linked in the sleep list.
Mutant_task_set_ready(list, t) ==
    IF t = idle_task THEN list ELSE list_insert_first(list, t)

Mutant_ReadyState(st, t) == st

Mutant_task_set_sleep(t, ticks) ==
    IF ticks = 0
    THEN UNCHANGED <<sleep_ticks, state, sleep_list>>
    ELSE /\ sleep_ticks' = [sleep_ticks EXCEPT ![t] = ticks]
         /\ state' = [state EXCEPT ![t] = "TASK_SLEEP"]
         /\ UNCHANGED sleep_list

Mutant_task_set_wakeup(t) == UNCHANGED sleep_list

task_set_ready(list, t) ==
    IF t = idle_task THEN list ELSE list_insert_last(list, t)

\* The state a task_t has after task_set_ready.
ReadyState(st, t) ==
    IF t = idle_task THEN st ELSE [st EXCEPT ![t] = "TASK_READY"]

task_set_block(list, t) ==
    IF t = idle_task THEN list ELSE list_remove(list, t)

task_next_run ==
    IF list_count(ready_list) = 0 THEN idle_task ELSE list_first(ready_list, None)

task_set_sleep(t, ticks) ==
    IF ticks = 0
    THEN UNCHANGED <<sleep_ticks, state, sleep_list>>
    ELSE /\ sleep_ticks' = [sleep_ticks EXCEPT ![t] = ticks]
         /\ state' = [state EXCEPT ![t] = "TASK_SLEEP"]
         /\ sleep_list' = list_insert_last(sleep_list, t)

task_set_wakeup(t) == sleep_list' = list_remove(sleep_list, t)

\* Milliseconds to ticks, rounded up, in uint32_t arithmetic.
SleepTicks(ms) == ((ms + (OS_TICKS_MS - 1)) % UINT_MOD) \div OS_TICKS_MS

\* far_jump to the task's selector lands in this task only if the GDT entry it
\* names describes this task's TSS.
SwitchLands(t) == tss_sel[t] \in TssSlot /\ gdt_table[tss_sel[t]] = t

-----------------------------------------------------------------------------
(* task_dispatch, and the calls a task makes to give up the CPU.           *)

\* After task_switch the old task is suspended; when it is switched back to it
\* goes on with log_printf("Dispatching task") and irq_leave_protection.
task_dispatch ==
    /\ At("dispatch")
    /\ \/ /\ task_next_run = curr_task
          /\ Continue(Rest)
          /\ UNCHANGED <<curr_task, state, irq, halted>>
       \/ /\ task_next_run # curr_task
          /\ curr_task' = task_next_run
          /\ state' = [state EXCEPT ![task_next_run] = "TASK_RUNNING"]
          /\ Continue(<<Call("log"), Leave(irq[curr_task])>> \o Rest)
          /\ irq' = [irq EXCEPT ![curr_task] = FALSE]
          /\ halted' = ~SwitchLands(task_next_run)
    /\ UNCHANGED <<listVars, sleep_ticks, slice_ticks, gdtVars, walk>>

sys_sched_yield ==
    /\ AtBase
    /\ list_count(ready_list) > 1
    /\ ready_list' = task_set_ready(task_set_block(ready_list, curr_task), curr_task)
    /\ state' = ReadyState(state, curr_task)
    /\ ProtectedDispatch(<<>>)
    /\ UNCHANGED <<curr_task, sleep_list, task_list, sleep_ticks, slice_ticks,
                   gdtVars, walk, halted>>

sys_sleep(ms) ==
    /\ AtBase
    /\ ready_list' = task_set_block(ready_list, curr_task)
    /\ task_set_sleep(curr_task, SleepTicks(ms))
    /\ ProtectedDispatch(<<>>)
    /\ UNCHANGED <<curr_task, task_list, slice_ticks, gdtVars, walk, halted>>

\* irq_leave_protection and iret put back the IF flag that was saved.
irq_leave_protection ==
    /\ At("leave") \/ At("iret")
    /\ irq' = [irq EXCEPT ![curr_task] = Head(stack[curr_task]).irq]
    /\ Continue(Rest)
    /\ UNCHANGED <<curr_task, listVars, fieldVars, gdtVars, walk, halted>>

\* sti.
irq_enable_global ==
    /\ AtBase
    /\ irq' = [irq EXCEPT ![curr_task] = TRUE]
    /\ UNCHANGED <<curr_task, listVars, fieldVars, gdtVars, stack, walk, halted>>

-----------------------------------------------------------------------------
(* The timer interrupt: do_handler_time, then task_time_tick.              *)

\* Mutants of the tick handler: it does not dispatch after the walk, does not walk
\* at all, or walks only when the slice has not expired; IF stays set in it; it does
\* not reset the slice.
Mutant_TickCalls_nodispatch(expired) ==
    IF expired
    THEN <<Call("log"), Call("rotate"), Call("dispatch"), Call("scan"), Iret(TRUE)>>
    ELSE <<Call("scan"), Iret(TRUE)>>

Mutant_TickCalls_noscan(expired) ==
    IF expired
    THEN <<Call("log"), Call("rotate"), Call("dispatch"), Iret(TRUE)>>
    ELSE <<Call("dispatch"), Iret(TRUE)>>

Mutant_TickCalls_either(expired) ==
    IF expired
    THEN <<Call("log"), Call("rotate"), Call("dispatch"), Iret(TRUE)>>
    ELSE <<Call("scan"), Call("dispatch"), Iret(TRUE)>>

\* The calls of task_time_tick that follow the decrement of slice_ticks, and iret.
\* log_printf and both dispatches may switch away before the next is reached.
TickCalls(expired) ==
    IF expired
    THEN <<Call("log"), Call("rotate"), Call("dispatch"), Call("scan"), Call("dispatch"),
           Iret(TRUE)>>
    ELSE <<Call("scan"), Call("dispatch"), Iret(TRUE)>>

Mutant_time_tick ==
    /\ ~halted
    /\ irq[curr_task]
    /\ slice_ticks' = [slice_ticks EXCEPT ![curr_task] = @ - 1]
    /\ Continue(TickCalls(slice_ticks[curr_task] - 1 = 0) \o stack[curr_task])
    /\ UNCHANGED <<curr_task, listVars, state, sleep_ticks, gdtVars, irq, walk, halted>>

time_tick ==
    /\ ~halted
    /\ irq[curr_task]
    /\ irq' = [irq EXCEPT ![curr_task] = FALSE]
    /\ slice_ticks' = [slice_ticks EXCEPT ![curr_task] = @ - 1]
    /\ Continue(TickCalls(slice_ticks[curr_task] - 1 = 0) \o stack[curr_task])
    /\ UNCHANGED <<curr_task, listVars, state, sleep_ticks, gdtVars, walk, halted>>

Mutant_tick_rotate ==
    /\ At("rotate")
    /\ ready_list' = task_set_ready(task_set_block(ready_list, curr_task), curr_task)
    /\ state' = ReadyState(state, curr_task)
    /\ Continue(Rest)
    /\ UNCHANGED <<curr_task, sleep_list, task_list, sleep_ticks, slice_ticks, gdtVars,
                   irq, walk, halted>>

\* The slice is used up: reset it and move the task to the end of the ready list.
tick_rotate ==
    /\ At("rotate")
    /\ slice_ticks' = [slice_ticks EXCEPT ![curr_task] = TASK_TIME_SLICE_DEFAULT]
    /\ ready_list' = task_set_ready(task_set_block(ready_list, curr_task), curr_task)
    /\ state' = ReadyState(state, curr_task)
    /\ Continue(Rest)
    /\ UNCHANGED <<curr_task, sleep_list, task_list, sleep_ticks, gdtVars, irq,
                   walk, halted>>

tick_scan ==
    /\ At("scan")
    /\ walk' = list_first(sleep_list, None)
    /\ Continue(<<Call("walk")>> \o Rest)
    /\ UNCHANGED <<curr_task, listVars, fieldVars, gdtVars, irq, halted>>

\* One turn of the loop over the sleep list; next is read before the task at
\* walk is unlinked.
tick_walk ==
    /\ At("walk")
    /\ IF walk = None
       THEN /\ Continue(Rest)
            /\ UNCHANGED <<ready_list, sleep_list, state, sleep_ticks, walk>>
       ELSE /\ walk' = list_node_next(sleep_list, walk, None)
            /\ sleep_ticks' = [sleep_ticks EXCEPT ![walk] = @ - 1]
            /\ IF sleep_ticks[walk] - 1 = 0
               THEN /\ task_set_wakeup(walk)
                    /\ ready_list' = task_set_ready(ready_list, walk)
                    /\ state' = ReadyState(state, walk)
               ELSE UNCHANGED <<ready_list, sleep_list, state>>
            /\ UNCHANGED stack
    /\ UNCHANGED <<curr_task, task_list, slice_ticks, gdtVars, irq, halted>>

-----------------------------------------------------------------------------
(* task_manager_init and task_first_init: the idle task and the first task *)
(* exist, the first task runs with IF clear (the loader's cli).            *)

TaskInit ==
    /\ curr_task = first_task
    /\ ready_list = <<first_task>>
    /\ sleep_list = <<>>
    /\ task_list = <<idle_task, first_task>>
    /\ state = [t \in Task |-> IF t = first_task THEN "TASK_READY" ELSE "TASK_CREATED"]
    /\ sleep_ticks = [t \in Task |-> 0]
    /\ slice_ticks = [t \in Task |-> TASK_TIME_SLICE_DEFAULT]
    /\ tss_sel = [t \in Task |-> CASE t = idle_task -> 3 [] t = first_task -> 4 [] OTHER -> 0]
    /\ gdt_table = [i \in TssSlot |-> CASE i = 3 -> idle_task [] i = 4 -> first_task [] OTHER -> None]
    /\ irq = [t \in Task |-> t # first_task]
    /\ stack = [t \in Task |-> <<>>]
    /\ walk = None
    /\ halted = FALSE

TaskTypeOK ==
    /\ curr_task \in Task
    /\ ready_list \in Seq(Task) /\ sleep_list \in Seq(Task) /\ task_list \in Seq(Task)
    /\ state \in [Task -> States]
    /\ sleep_ticks \in [Task -> Int]
    /\ slice_ticks \in [Task -> Int]
    /\ tss_sel \in [Task -> {0} \cup TssSlot]
    /\ gdt_table \in [TssSlot -> Task \cup {None}]
    /\ irq \in [Task -> BOOLEAN]
    /\ stack \in [Task -> Seq(Frame)]
    /\ walk \in Task \cup {None}
    /\ halted \in BOOLEAN
=============================================================================
