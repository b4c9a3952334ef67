----------------------------- MODULE KernelInv ------------------------------
(***************************************************************************)
(* The inductive invariant behind the properties of Kernel.  What a task   *)
(* may do next is on its stack, so the invariant says which stacks can     *)
(* arise (Shape), how the stacks of suspended tasks end (Suspended), what  *)
(* the lists hold (ListInv), when the running task is the one the ready    *)
(* list names (RunInv, WalkInv), and how the stacks account for the locks  *)
(* (MutexInv, LogInv).                                                     *)
(***************************************************************************)
EXTENDS Kernel

\* Frames that end a region with interrupts off.
LeavePcs == {"leave", "iret"}

\* Frames of code that may run with IF set.
OpenPcs == {"log", "unlog", "gdt_scan", "gdt_unlock", "tss_set", "task_ready"}

\* Frames of task_init.
InitPcs == {"gdt_scan", "gdt_unlock", "tss_set", "task_ready"}

\* Some frame is one of these.
HasPc(fs, pcs) == \E i \in 1..Len(fs) : fs[i].pc \in pcs

\* With IF set, nothing on the stack needs it clear; and the same of what is
\* left after the frame that will set it.
ShapeIrq(fs, if) ==
    /\ if => \A i \in 1..Len(fs) : fs[i].pc \in OpenPcs
    /\ \A i \in 1..Len(fs) : fs[i].pc \in LeavePcs /\ fs[i].irq =>
          \A j \in (i + 1)..Len(fs) : fs[j].pc \in OpenPcs

\* Every change of the lists in the tick handler is followed by a dispatch,
\* and the walk over the sleep list is never put off.
ShapeTick(fs) ==
    \A i \in 1..Len(fs) :
        /\ fs[i].pc \in {"rotate", "scan", "walk"} =>
              i < Len(fs) /\ fs[i + 1].pc = "dispatch"
        /\ fs[i].pc = "walk" => i = 1

\* task_init was called by the task's own code.
ShapeInit(fs) == \A i \in 1..Len(fs) : fs[i].pc = "task_ready" => i = Len(fs)

\* Two calls of log_printf are open at once only if the second was made inside
\* a region with interrupts off, and then the task is executing it.
ShapeLog(fs) ==
    /\ \A i, j \in 1..Len(fs) :
          i < j /\ fs[i].pc \in {"log", "unlog"} \cup InitPcs /\ fs[j].pc = "unlog" =>
              \E k \in (i + 1)..(j - 1) : fs[k].pc \in LeavePcs
    /\ \A i, j \in 1..Len(fs) :
          i < j /\ fs[i].pc = "unlog" /\ fs[j].pc = "unlog" => i = 1

Shape(fs, if) == ShapeIrq(fs, if) /\ ShapeTick(fs) /\ ShapeInit(fs) /\ ShapeLog(fs)

\* The idle task has nothing on its stack but a tick handler, and never waits in
\* log_printf.
IdleShape(fs, if) ==
    /\ if => fs = <<>>
    /\ \A i \in 1..Len(fs) : /\ fs[i].pc \notin InitPcs
                             /\ fs[i].pc \in LeavePcs /\ fs[i].irq => i = Len(fs)
                             /\ fs[i].pc = "unlog" => i = 1

StackInv ==
    /\ \A t \in Task : Shape(stack[t], irq[t])
    /\ IdleShape(stack[idle_task], irq[idle_task])

\* The first frame of a task's stack is one of these.
TopIn(t, pcs) == stack[t] # <<>> /\ stack[t][1].pc \in pcs

\* A suspended task was switched away from in task_dispatch.
Suspended ==
    \A t \in Task \ {curr_task} : stack[t] # <<>> =>
        /\ stack[t][1].pc = "log"
        /\ Len(stack[t]) > 1
        /\ stack[t][2].pc = "leave"

\* A task_t that is being initialised is in no list, and by one task only.
InitInv ==
    /\ \A t \in Task : HasPc(stack[t], InitPcs) => new_task[t] # None
    /\ \A t \in Task : new_task[t] \notin Nodes(task_list)
    /\ \A t, u \in Task : new_task[t] = new_task[u] /\ new_task[t] # None => t = u

\* No list links a task twice, and no two lists link the same task.
ListInv ==
    /\ NoRepeat(ready_list) /\ NoRepeat(sleep_list)
    /\ \A m \in MutexId : NoRepeat(mutex_wait[m])
    /\ \A s \in SemId : NoRepeat(sem_wait_list[s])
    /\ \A t \in Nodes(ready_list) :
          /\ t \notin Nodes(sleep_list)
          /\ \A m \in MutexId : t \notin Nodes(mutex_wait[m])
          /\ \A s \in SemId : t \notin Nodes(sem_wait_list[s])
    /\ \A t \in Nodes(sleep_list) :
          /\ \A m \in MutexId : t \notin Nodes(mutex_wait[m])
          /\ \A s \in SemId : t \notin Nodes(sem_wait_list[s])
    /\ \A m \in MutexId : \A t \in Nodes(mutex_wait[m]) :
          /\ \A n \in MutexId \ {m} : t \notin Nodes(mutex_wait[n])
          /\ \A s \in SemId : t \notin Nodes(sem_wait_list[s])
    /\ \A s \in SemId : \A t \in Nodes(sem_wait_list[s]) :
          \A u \in SemId \ {s} : t \notin Nodes(sem_wait_list[u])

\* What is linked is a created task, and never the idle task.
Linkable == Nodes(task_list) \ {idle_task}

LinkInv ==
    /\ Nodes(ready_list) \subseteq Linkable
    /\ Nodes(sleep_list) \subseteq Linkable
    /\ \A m \in MutexId : Nodes(mutex_wait[m]) \subseteq Linkable
    /\ \A s \in SemId : Nodes(sem_wait_list[s]) \subseteq Linkable

\* Unless a dispatch is due, the task that runs is the one it would choose.
RunInv ==
    \/ halted
    \/ TopIn(curr_task, {"dispatch"})
    \/ TopIn(curr_task, {"walk"}) /\ curr_task \in Nodes(ready_list) \cup {idle_task}
    \/ curr_task = task_next_run

\* The walk's pointer is into the sleep list.
WalkInv == TopIn(curr_task, {"walk"}) => walk = None \/ walk \in Nodes(sleep_list)

MutexInv ==
    \A m \in MutexId :
        /\ owner[m] = None <=> locked_count[m] = 0
        /\ mutex_wait[m] # <<>> => owner[m] # None
        /\ owner[m] \notin Nodes(mutex_wait[m])

TwoUnlogs(fs) ==
    fs # <<>> /\ fs[1].pc = "unlog" /\ \E i \in 2..Len(fs) : fs[i].pc = "unlog"

\* Who has log_printf open owns log_mutex or waits for it, and the lock count
\* is the number of open calls; the owner can run.
LogInv ==
    /\ \A t \in Task :
          HasPc(stack[t], {"unlog"}) <=> owner[log_mutex] = t \/ t \in Nodes(mutex_wait[log_mutex])
    /\ \A t \in Task : owner[log_mutex] = t =>
          locked_count[log_mutex] = IF TwoUnlogs(stack[t]) THEN 2 ELSE 1
    /\ owner[log_mutex] = idle_task => curr_task = idle_task /\ TopIn(idle_task, {"unlog"})
    /\ owner[log_mutex] \in Task \ {idle_task} => owner[log_mutex] \in Nodes(ready_list)

IInv ==
    /\ TypeOK
    /\ StackInv
    /\ Suspended
    /\ InitInv
    /\ ListInv
    /\ LinkInv
    /\ RunInv
    /\ WalkInv
    /\ MutexInv
    /\ LogInv
=============================================================================
