---------------------------- MODULE KernelSafety ----------------------------
(***************************************************************************)
(* What IInv leaves open: that no task is lost, that the state field says  *)
(* which list a task is in, that the slice counter never runs past 0, that *)
(* log_mutex counts the open calls of log_printf, and that every task      *)
(* switch lands.  The first step is to say what a step of the kernel does  *)
(* to the lists, whatever call it belongs to (ListMotion).                 *)
(***************************************************************************)
EXTENDS KernelProof, FiniteSetTheorems

-----------------------------------------------------------------------------
(* What one step does to the lists.                                        *)

\* t is in the wait list of a mutex or of a semaphore.
Awaits(t) ==
    \/ \E m \in MutexId : t \in Nodes(mutex_wait[m])
    \/ \E s \in SemId : t \in Nodes(sem_wait_list[s])

waitVars == <<mutex_wait, sem_wait_list>>

\* No list changes and no switch happens.
Still == UNCHANGED <<curr_task, listVars, waitVars, state, sleep_ticks, halted>>

\* task_dispatch switches to the task that the ready list names.
Switched ==
    /\ ~halted
    /\ TopIn(curr_task, {"dispatch"})
    /\ task_next_run # curr_task
    /\ curr_task' = task_next_run
    /\ state' = [state EXCEPT ![task_next_run] = "TASK_RUNNING"]
    /\ halted' = ~SwitchLands(task_next_run)
    /\ \A t \in Task \ {curr_task} : stack'[t] = stack[t]
    /\ UNCHANGED <<listVars, waitVars, sleep_ticks>>

\* The current task goes to the end of the ready list.
Requeued ==
    /\ ~halted
    /\ curr_task \in Nodes(ready_list) \cup {idle_task}
    /\ Nodes(ready_list)' = Nodes(ready_list)
    /\ state' = ReadyState(state, curr_task)
    /\ UNCHANGED <<curr_task, sleep_list, task_list, waitVars, sleep_ticks, halted>>

\* The current task leaves the ready list for a wait list.
BeginsToWait ==
    /\ ~halted
    /\ curr_task \in Nodes(ready_list)
    /\ \A t : t \in Nodes(ready_list)' <=> t \in Nodes(ready_list) /\ t # curr_task
    /\ \A t : Awaits(t)' <=> Awaits(t) \/ t = curr_task
    /\ UNCHANGED <<curr_task, sleep_list, task_list, state, sleep_ticks, halted>>

\* The task w, which waited, is readied.
Served(w) ==
    /\ ~halted
    /\ w \in Task \ {idle_task}
    /\ Awaits(w)
    /\ \A t : Awaits(t)' <=> Awaits(t) /\ t # w
    /\ ready_list' = list_insert_last(ready_list, w)
    /\ state' = [state EXCEPT ![w] = "TASK_READY"]
    /\ UNCHANGED <<curr_task, sleep_list, task_list, sleep_ticks, halted>>

\* The current task is taken out of the ready list by sys_sleep.
Slept(ms) ==
    /\ ~halted
    /\ curr_task \in Nodes(ready_list)
    /\ \A t : t \in Nodes(ready_list)' <=> t \in Nodes(ready_list) /\ t # curr_task
    /\ task_set_sleep(curr_task, SleepTicks(ms))
    /\ UNCHANGED <<curr_task, task_list, waitVars, halted>>

\* The walk counts down the ticks of w, in the sleep list, and may wake it.
Counted(w) ==
    /\ ~halted
    /\ w \in Nodes(sleep_list)
    /\ sleep_ticks' = [sleep_ticks EXCEPT ![w] = @ - 1]
    /\ IF sleep_ticks[w] - 1 = 0
       THEN /\ \A t : t \in Nodes(sleep_list)' <=> t \in Nodes(sleep_list) /\ t # w
            /\ ready_list' = list_insert_last(ready_list, w)
            /\ state' = [state EXCEPT ![w] = "TASK_READY"]
       ELSE UNCHANGED <<sleep_list, ready_list, state>>
    /\ UNCHANGED <<curr_task, task_list, waitVars, halted>>

\* task_init ends: t is linked in the task list and the ready list.
Created(t) ==
    /\ ~halted
    /\ t \in OtherTasks /\ t \notin Nodes(task_list)
    /\ sleep_ticks' = [sleep_ticks EXCEPT ![t] = 0]
    /\ ready_list' = list_insert_last(ready_list, t)
    /\ state' = [state EXCEPT ![t] = "TASK_READY"]
    /\ task_list' = list_insert_last(task_list, t)
    /\ UNCHANGED <<curr_task, sleep_list, waitVars, halted>>

ListMotion ==
    \/ Still \/ Switched \/ Requeued \/ BeginsToWait
    \/ \E w \in Task : Served(w) \/ Counted(w) \/ Created(w)
    \/ \E ms \in SleepMs : Slept(ms)

-----------------------------------------------------------------------------

\* mutex_lock: the mutex is had, or the task begins to wait.  The idle task, which
\* cannot, must not find the mutex taken.
LEMMA LockMotion ==
    ASSUME IInv, ~halted, ~TopIn(curr_task, {"dispatch", "walk"}),
           NEW m \in MutexId, NEW rest, mutex_lock(m, rest),
           curr_task = idle_task => locked_count[m] = 0 \/ owner[m] = curr_task,
           UNCHANGED <<mutexFrame, state, semVars>>
    PROVE  Still \/ BeginsToWait
<1> USE DEF mutexFrame, semVars
<1>1. CASE MutexTake(m, rest) \/ MutexReenter(m, rest)
  BY <1>1 DEF MutexTake, MutexReenter, Still, listVars, waitVars
<1>2. CASE MutexBlock(m, rest)
  <2>1. /\ curr_task # idle_task
        /\ ready_list' = task_set_block(ready_list, curr_task)
        /\ mutex_wait' = [mutex_wait EXCEPT ![m] = list_insert_last(@, curr_task)]
    BY <1>2 DEF MutexBlock
  <2>2. curr_task \in Nodes(ready_list)
    BY <2>1, RunningFacts
  <2>3. /\ curr_task \in Task /\ ready_list \in Seq(Task) /\ NoRepeat(ready_list)
        /\ mutex_wait \in [MutexId -> Seq(Task)]
    BY DEF IInv, TypeOK, TaskTypeOK, MutexTypeOK, ListInv
  <2>4. Nodes(ready_list)' = Nodes(ready_list) \ {curr_task}
    BY <2>1, <2>2, <2>3, Remove DEF task_set_block
  <2>5. \A n \in MutexId : \A t : t \in Nodes(mutex_wait'[n]) <=>
            t \in Nodes(mutex_wait[n]) \/ (n = m /\ t = curr_task)
    <3>1. Nodes(list_insert_last(mutex_wait[m], curr_task)) = Nodes(mutex_wait[m]) \cup {curr_task}
      BY <2>3, InsertLast
    <3> QED BY <2>1, <2>3, <3>1
  <2>6. \A t : Awaits(t)' <=> Awaits(t) \/ t = curr_task
    BY <2>5 DEF Awaits
  <2> QED BY <2>2, <2>4, <2>6 DEF BeginsToWait
<1> QED BY <1>1, <1>2 DEF mutex_lock

\* mutex_unlock: at most the first waiter is served.
LEMMA UnlockMotion ==
    ASSUME IInv, ~halted, NEW m \in MutexId, NEW rest, mutex_unlock(m, rest),
           UNCHANGED <<mutexFrame, semVars>>
    PROVE  Still \/ \E w \in Task : Served(w)
<1> USE DEF mutexFrame, semVars
<1>1. CASE MutexNotOwner(m, rest) \/ MutexLeave(m, rest) \/ MutexRelease(m, rest)
  BY <1>1 DEF MutexNotOwner, MutexLeave, MutexRelease, Still, listVars, waitVars, mutexVars
<1>2. CASE MutexHandOff(m, rest)
  <2> DEFINE w == list_first(mutex_wait[m], None)
  <2>1. /\ list_count(mutex_wait[m]) # 0
        /\ ready_list' = task_set_ready(ready_list, w)
        /\ state' = ReadyState(state, w)
        /\ mutex_wait' = [mutex_wait EXCEPT ![m] = list_remove_first(@)]
    BY <1>2 DEF MutexHandOff
  <2>2. mutex_wait \in [MutexId -> Seq(Task)] /\ NoRepeat(mutex_wait[m])
    BY DEF IInv, TypeOK, MutexTypeOK, ListInv
  <2>3. mutex_wait[m] # <<>> /\ w = Head(mutex_wait[m])
    BY <2>1, <2>2 DEF list_count, list_first
  <2> HIDE DEF w
  <2>4. /\ w \in Nodes(mutex_wait[m])
        /\ \A t : t \in Nodes(list_remove_first(mutex_wait[m])) <=> t \in Nodes(mutex_wait[m]) /\ t # w
    <3>1. mutex_wait[m] \in Seq(Task)
      BY <2>2
    <3>2. /\ Head(mutex_wait[m]) \in Nodes(mutex_wait[m])
          /\ Nodes(mutex_wait[m]) = Nodes(list_remove_first(mutex_wait[m])) \cup {Head(mutex_wait[m])}
          /\ Head(mutex_wait[m]) \notin Nodes(list_remove_first(mutex_wait[m]))
      BY <2>2, <2>3, <3>1, RemoveFirst
    <3> QED BY <2>3, <3>2
  <2>5. w \in Task \ {idle_task}
    BY <2>2, <2>4, NodesType DEF IInv, LinkInv, Linkable
  <2>6. \A n \in MutexId : \A t : t \in Nodes(mutex_wait'[n]) <=>
            t \in Nodes(mutex_wait[n]) /\ (n = m => t # w)
    BY <2>1, <2>2, <2>4
  <2>7. /\ \A n \in MutexId \ {m} : w \notin Nodes(mutex_wait[n])
        /\ \A s \in SemId : w \notin Nodes(sem_wait_list[s])
    BY <2>4 DEF IInv, ListInv
  <2>8. \A t : Awaits(t)' <=> Awaits(t) /\ t # w
    BY <2>6, <2>7 DEF Awaits
  <2>9. Awaits(w)
    BY <2>4 DEF Awaits
  <2>10. ready_list' = list_insert_last(ready_list, w) /\ state' = [state EXCEPT ![w] = "TASK_READY"]
    BY <2>1, <2>5 DEF task_set_ready, ReadyState
  <2> QED BY <2>5, <2>8, <2>9, <2>10 DEF Served
<1> QED BY <1>1, <1>2 DEF mutex_unlock

\* sem_wait.
LEMMA SemWaitMotion ==
    ASSUME IInv, NEW s \in SemId, sem_wait(s), UNCHANGED mutexVars
    PROVE  Still \/ BeginsToWait
<1> USE DEF semFrame, mutexVars
<1>1. AtBase
  BY DEF sem_wait
<1>2. CASE SemTake(s)
  BY <1>2 DEF sem_wait, SemTake, Still, listVars, waitVars
<1>3. CASE SemBlock(s)
  <2>1. /\ ready_list' = task_set_block(ready_list, curr_task)
        /\ sem_wait_list' = [sem_wait_list EXCEPT ![s] = list_insert_last(@, curr_task)]
        /\ UNCHANGED <<curr_task, sleep_list, task_list, state, sleep_ticks, halted, mutex_wait>>
    BY <1>3 DEF sem_wait, SemBlock
  <2>2. \A y : y \in Nodes(ready_list)' <=> y \in Nodes(ready_list) /\ y # curr_task
    BY <1>1, <2>1, Blocked
  <2>3. /\ curr_task \in Task /\ ~halted /\ curr_task # idle_task
        /\ ~TopIn(curr_task, {"dispatch", "walk"})
    BY <1>1, BaseFacts DEF TopIn
  <2>4. curr_task \in Nodes(ready_list)
    BY <2>3, RunningFacts
  <2>5. sem_wait_list \in [SemId -> Seq(Task)]
    BY DEF IInv, TypeOK, SemTypeOK
  <2>6. \A u \in SemId : \A t : t \in Nodes(sem_wait_list'[u]) <=>
            t \in Nodes(sem_wait_list[u]) \/ (u = s /\ t = curr_task)
    <3>1. Nodes(list_insert_last(sem_wait_list[s], curr_task)) = Nodes(sem_wait_list[s]) \cup {curr_task}
      BY <2>3, <2>5, InsertLast
    <3> QED BY <2>1, <2>5, <3>1
  <2>7. \A t : Awaits(t)' <=> Awaits(t) \/ t = curr_task
    BY <2>1, <2>6 DEF Awaits
  <2> QED BY <2>1, <2>2, <2>3, <2>4, <2>7 DEF BeginsToWait
<1> QED BY <1>2, <1>3 DEF sem_wait

\* sem_notify.
LEMMA SemNotifyMotion ==
    ASSUME IInv, NEW s \in SemId, sem_notify(s), UNCHANGED mutexVars
    PROVE  Still \/ \E w \in Task : Served(w)
<1> USE DEF semFrame, mutexVars
<1>1. ~halted
  BY DEF sem_notify, AtBase
<1>2. CASE SemCount(s)
  BY <1>2 DEF sem_notify, SemCount, Still, listVars, waitVars
<1>3. CASE SemHandOff(s)
  <2> DEFINE w == list_first(sem_wait_list[s], None)
  <2>1. /\ list_count(sem_wait_list[s]) # 0
        /\ ready_list' = task_set_ready(ready_list, w)
        /\ state' = ReadyState(state, w)
        /\ sem_wait_list' = [sem_wait_list EXCEPT ![s] = list_remove_first(@)]
        /\ UNCHANGED <<curr_task, sleep_list, task_list, sleep_ticks, halted, mutex_wait>>
    BY <1>3 DEF sem_notify, SemHandOff
  <2>2. sem_wait_list \in [SemId -> Seq(Task)] /\ NoRepeat(sem_wait_list[s])
    BY DEF IInv, TypeOK, SemTypeOK, ListInv
  <2>3. sem_wait_list[s] # <<>> /\ w = Head(sem_wait_list[s])
    BY <2>1, <2>2 DEF list_count, list_first
  <2> HIDE DEF w
  <2>4. /\ w \in Nodes(sem_wait_list[s])
        /\ \A t : t \in Nodes(list_remove_first(sem_wait_list[s])) <=> t \in Nodes(sem_wait_list[s]) /\ t # w
    <3>1. sem_wait_list[s] \in Seq(Task)
      BY <2>2
    <3>2. /\ Head(sem_wait_list[s]) \in Nodes(sem_wait_list[s])
          /\ Nodes(sem_wait_list[s]) = Nodes(list_remove_first(sem_wait_list[s])) \cup {Head(sem_wait_list[s])}
          /\ Head(sem_wait_list[s]) \notin Nodes(list_remove_first(sem_wait_list[s]))
      BY <2>2, <2>3, <3>1, RemoveFirst
    <3> QED BY <2>3, <3>2
  <2>5. w \in Task \ {idle_task}
    BY <2>2, <2>4, NodesType DEF IInv, LinkInv, Linkable
  <2>6. \A u \in SemId : \A t : t \in Nodes(sem_wait_list'[u]) <=>
            t \in Nodes(sem_wait_list[u]) /\ (u = s => t # w)
    BY <2>1, <2>2, <2>4
  <2>7. /\ \A u \in SemId \ {s} : w \notin Nodes(sem_wait_list[u])
        /\ \A m \in MutexId : w \notin Nodes(mutex_wait[m])
    BY <2>4 DEF IInv, ListInv
  <2>8. \A t : Awaits(t)' <=> Awaits(t) /\ t # w
    BY <2>1, <2>6, <2>7 DEF Awaits
  <2>9. Awaits(w)
    BY <2>4 DEF Awaits
  <2>10. ready_list' = list_insert_last(ready_list, w) /\ state' = [state EXCEPT ![w] = "TASK_READY"]
    BY <2>1, <2>5 DEF task_set_ready, ReadyState
  <2> QED BY <1>1, <2>1, <2>5, <2>8, <2>9, <2>10 DEF Served
<1> QED BY <1>2, <1>3 DEF sem_notify

\* log_printf: whoever owns log_mutex can run, so the idle task does not find it taken.
LEMMA LogMotion ==
    ASSUME IInv, ~halted, ~TopIn(curr_task, {"dispatch", "walk"}),
           NEW below, log_printf(below), UNCHANGED <<mutexFrame, state, semVars>>
    PROVE  Still \/ BeginsToWait
<1>1. curr_task = idle_task => locked_count[log_mutex] = 0 \/ owner[log_mutex] = curr_task
  <2>1. SUFFICES ASSUME curr_task = idle_task, locked_count[log_mutex] # 0
                 PROVE  owner[log_mutex] = idle_task
    OBVIOUS
  <2>2. Nodes(ready_list) = {}
    BY <2>1, RunningFacts, EmptyList
  <2>3. owner[log_mutex] \in Task
    BY <2>1, MutexIds DEF IInv, MutexInv, TypeOK, MutexTypeOK
  <2> QED BY <2>2, <2>3 DEF IInv, LogInv
<1> QED BY <1>1, LockMotion, MutexIds DEF log_printf

\* task_dispatch.
LEMMA DispatchMotion ==
    ASSUME IInv, task_dispatch, UNCHANGED <<mutexVars, semVars>>
    PROVE  Still \/ Switched
<1> USE DEF mutexVars, semVars, waitVars
<1>1. CASE task_next_run = curr_task
  BY <1>1 DEF task_dispatch, Still, listVars
<1>2. CASE task_next_run # curr_task
  <2>1. /\ ~halted /\ stack[curr_task] # <<>> /\ Head(stack[curr_task]).pc = "dispatch"
        /\ curr_task' = task_next_run
        /\ state' = [state EXCEPT ![task_next_run] = "TASK_RUNNING"]
        /\ halted' = ~SwitchLands(task_next_run)
        /\ UNCHANGED <<listVars, sleep_ticks>>
    BY <1>2 DEF task_dispatch, At
  <2>2. TopIn(curr_task, {"dispatch"})
    BY <2>1, RestFacts DEF TopIn
  <2>3. \A t \in Task \ {curr_task} : stack'[t] = stack[t]
    BY <1>2 DEF task_dispatch, Continue, IInv, TypeOK, TaskTypeOK
  <2> QED BY <1>2, <2>1, <2>2, <2>3 DEF Switched
<1> QED BY <1>1, <1>2

\* task_init_end.
LEMMA CreateMotion ==
    ASSUME IInv, task_init_end
    PROVE  Created(new_task[curr_task])
<1> DEFINE t == new_task[curr_task]
<1>1. /\ ~halted /\ stack[curr_task] # <<>> /\ Head(stack[curr_task]).pc = "task_ready"
      /\ sleep_ticks' = [sleep_ticks EXCEPT ![t] = 0]
      /\ ready_list' = task_set_ready(ready_list, t)
      /\ state' = ReadyState(state, t)
      /\ task_list' = list_insert_last(task_list, t)
      /\ UNCHANGED <<curr_task, sleep_list, halted, mutexVars, semVars>>
  BY DEF task_init_end, At
<1>2. HasPc(stack[curr_task], InitPcs) /\ curr_task \in Task
  BY <1>1, RestFacts DEF InitPcs
<1>3. t \in OtherTasks /\ t \notin Nodes(task_list)
  BY <1>2 DEF IInv, InitInv, TypeOK
<1> HIDE DEF t
<1>4. t # idle_task
  BY <1>3, TaskAssumption
<1> QED BY <1>1, <1>3, <1>4 DEF Created, task_set_ready, ReadyState, waitVars, mutexVars, semVars, t

\* One turn of the walk over the sleep list.
LEMMA WalkMotion ==
    ASSUME IInv, tick_walk, UNCHANGED <<mutexVars, semVars>>
    PROVE  Still \/ \E w \in Task : Counted(w)
<1> USE DEF mutexVars, semVars, waitVars
<1>1. /\ ~halted /\ stack[curr_task] # <<>> /\ Head(stack[curr_task]).pc = "walk"
      /\ UNCHANGED <<curr_task, task_list, halted>>
  BY DEF tick_walk, At
<1>2. CASE walk = None
  BY <1>2 DEF tick_walk, Still, listVars
<1>3. CASE walk # None
  <2>1. /\ sleep_ticks' = [sleep_ticks EXCEPT ![walk] = @ - 1]
        /\ IF sleep_ticks[walk] - 1 = 0
           THEN /\ sleep_list' = list_remove(sleep_list, walk)
                /\ ready_list' = task_set_ready(ready_list, walk)
                /\ state' = ReadyState(state, walk)
           ELSE UNCHANGED <<ready_list, sleep_list, state>>
    BY <1>3 DEF tick_walk, task_set_wakeup
  <2>2. TopIn(curr_task, {"walk"})
    BY <1>1, RestFacts DEF TopIn
  <2>3. walk \in Nodes(sleep_list)
    BY <1>3, <2>2 DEF IInv, WalkInv
  <2>4. sleep_list \in Seq(Task) /\ NoRepeat(sleep_list)
    BY DEF IInv, TypeOK, TaskTypeOK, ListInv
  <2>5. walk \in Task /\ walk # idle_task
    BY <2>3, <2>4, NodesType DEF IInv, LinkInv, Linkable
  <2>6. Nodes(list_remove(sleep_list, walk)) = Nodes(sleep_list) \ {walk}
    BY <2>3, <2>4, Remove
  <2>7. CASE sleep_ticks[walk] - 1 = 0
    <3>1. /\ \A t : t \in Nodes(sleep_list)' <=> t \in Nodes(sleep_list) /\ t # walk
          /\ ready_list' = list_insert_last(ready_list, walk)
          /\ state' = [state EXCEPT ![walk] = "TASK_READY"]
      BY <2>1, <2>5, <2>6, <2>7 DEF task_set_ready, ReadyState
    <3> QED BY <1>1, <2>1, <2>3, <2>5, <2>7, <3>1 DEF Counted
  <2>8. CASE sleep_ticks[walk] - 1 # 0
    BY <1>1, <2>1, <2>3, <2>5, <2>8 DEF Counted
  <2> QED BY <2>7, <2>8
<1> QED BY <1>2, <1>3

\* Yielding, and the rotation at the end of a slice.
LEMMA RequeueMotion ==
    ASSUME IInv, sys_sched_yield \/ tick_rotate, UNCHANGED <<mutexVars, semVars>>
    PROVE  Requeued
<1>1. /\ ready_list' = task_set_ready(task_set_block(ready_list, curr_task), curr_task)
      /\ state' = ReadyState(state, curr_task)
      /\ UNCHANGED <<curr_task, sleep_list, task_list, sleep_ticks, halted>>
  BY DEF sys_sched_yield, tick_rotate
<1>2. ~halted /\ ~TopIn(curr_task, {"dispatch", "walk"})
  <2>1. CASE sys_sched_yield
    BY <2>1, BaseFacts DEF sys_sched_yield, TopIn
  <2>2. CASE tick_rotate
    <3>1. ~halted /\ stack[curr_task] # <<>> /\ Head(stack[curr_task]).pc = "rotate"
      BY <2>2 DEF tick_rotate, At
    <3> QED BY <3>1, RestFacts DEF TopIn
  <2> QED BY <2>1, <2>2
<1>3. curr_task \in Nodes(ready_list) \cup {idle_task}
  BY <1>2, RunningFacts
<1>4. Nodes(ready_list') = Nodes(ready_list)
  BY <1>1, <1>3, Rotated
<1> QED BY <1>1, <1>2, <1>3, <1>4 DEF Requeued, waitVars, mutexVars, semVars

\* sys_sleep.
LEMMA SleepMotion ==
    ASSUME IInv, NEW ms \in SleepMs, sys_sleep(ms), UNCHANGED <<mutexVars, semVars>>
    PROVE  Slept(ms)
<1>1. /\ AtBase
      /\ ready_list' = task_set_block(ready_list, curr_task)
      /\ task_set_sleep(curr_task, SleepTicks(ms))
      /\ UNCHANGED <<curr_task, task_list, halted>>
  BY DEF sys_sleep
<1>2. \A y : y \in Nodes(ready_list') <=> y \in Nodes(ready_list) /\ y # curr_task
  BY <1>1, Blocked
<1>3. ~halted /\ curr_task # idle_task /\ ~TopIn(curr_task, {"dispatch", "walk"})
  BY <1>1, BaseFacts DEF TopIn
<1>4. curr_task \in Nodes(ready_list)
  BY <1>3, RunningFacts
<1> QED BY <1>1, <1>2, <1>3, <1>4 DEF Slept, waitVars, mutexVars, semVars

\* What a frame of this kind on top of the stack says about the current task.
LEMMA AtFacts ==
    ASSUME IInv, NEW pc, At(pc)
    PROVE  ~halted /\ stack[curr_task] # <<>> /\ stack[curr_task][1].pc = pc /\ TopIn(curr_task, {pc})
BY RestFacts DEF At, TopIn

\* Every step of the kernel is one of the motions.
LEMMA NextMotion == ASSUME IInv, Next PROVE ListMotion
<1> USE DEF listVars, fieldVars, mutexVars, semVars, waitVars
<1>1. CASE TaskStep
  <2>1. CASE task_dispatch
    BY <1>1, <2>1, DispatchMotion DEF ListMotion, TaskStep
  <2>2. CASE irq_leave_protection \/ tick_scan
    BY <1>1, <2>2 DEF irq_leave_protection, tick_scan, TaskStep, ListMotion, Still
  <2>3. CASE tick_rotate
    BY <1>1, <2>3, RequeueMotion DEF ListMotion, TaskStep
  <2>4. CASE tick_walk
    BY <1>1, <2>4, WalkMotion DEF ListMotion, TaskStep
  <2> QED BY <1>1, <2>1, <2>2, <2>3, <2>4 DEF TaskStep
<1>2. CASE LogStart
  <2>1. At("log") /\ log_printf(Rest) /\ UNCHANGED <<mutexFrame, state, semVars>>
    BY <1>2 DEF LogStart
  <2>2. ~halted /\ ~TopIn(curr_task, {"dispatch", "walk"})
    BY <2>1, AtFacts DEF TopIn
  <2> QED BY <2>1, <2>2, LogMotion DEF ListMotion
<1>3. CASE LogEnd
  BY <1>3, UnlockMotion, MutexIds DEF LogEnd, At, ListMotion
<1>4. CASE gdt_release
  BY <1>4, UnlockMotion, MutexIds DEF gdt_release, At, ListMotion
<1>5. CASE gdt_alloc_desc \/ tss_init
  BY <1>5 DEF gdt_alloc_desc, tss_init, ListMotion, Still
<1>6. CASE task_init_end
  BY <1>6, CreateMotion DEF ListMotion, Created, Task
<1>7. CASE Tick \/ Sti
  BY <1>7 DEF Tick, time_tick, Sti, irq_enable_global, ListMotion, Still
<1>8. CASE sys_sched_yield /\ UNCHANGED <<mutexVars, semVars, initVars>>
  BY <1>8, RequeueMotion DEF ListMotion
<1>9. CASE \E ms \in SleepMs : sys_sleep(ms) /\ UNCHANGED <<mutexVars, semVars, initVars>>
  BY <1>9, SleepMotion DEF ListMotion
<1>10. CASE ClientLog
  <2>1. AtBase /\ log_printf(<<>>) /\ UNCHANGED <<mutexFrame, state, semVars>>
    BY <1>10 DEF ClientLog
  <2>2. ~halted /\ ~TopIn(curr_task, {"dispatch", "walk"})
    BY <2>1, BaseFacts DEF TopIn
  <2> QED BY <2>1, <2>2, LogMotion DEF ListMotion
<1>11. CASE \E m \in ClientMutexes : (ClientLock(m) \/ ClientUnlock(m)) /\ UNCHANGED <<semVars, initVars>>
  <2>1. PICK m \in ClientMutexes : (ClientLock(m) \/ ClientUnlock(m)) /\ UNCHANGED semVars
    BY <1>11
  <2>2. AtBase /\ m \in MutexId
    BY <2>1, MutexIds DEF ClientLock, ClientUnlock
  <2>3. ~halted /\ curr_task # idle_task /\ ~TopIn(curr_task, {"dispatch", "walk"})
    BY <2>2, BaseFacts DEF TopIn
  <2>4. CASE ClientLock(m)
    BY <2>1, <2>2, <2>3, <2>4, LockMotion DEF ClientLock, ListMotion
  <2>5. CASE ClientUnlock(m)
    BY <2>1, <2>2, <2>3, <2>5, UnlockMotion DEF ClientUnlock, ListMotion
  <2> QED BY <2>1, <2>4, <2>5
<1>12. CASE \E s \in SemId : (sem_wait(s) \/ sem_notify(s)) /\ UNCHANGED <<mutexVars, initVars>>
  BY <1>12, SemWaitMotion, SemNotifyMotion DEF ListMotion
<1>13. CASE \E t \in OtherTasks : task_init(t)
  <2>1. PICK t \in OtherTasks : task_init(t)
    BY <1>13
  <2> DEFINE rest == <<Call("gdt_scan"), Call("gdt_unlock"), Call("tss_set"), Call("task_ready")>>
  <2>2. /\ AtBase /\ mutex_lock(gdt_mutex, rest) /\ UNCHANGED <<mutexFrame, state, semVars>>
    BY <2>1 DEF task_init
  <2> HIDE DEF rest
  <2>3. ~halted /\ curr_task # idle_task /\ ~TopIn(curr_task, {"dispatch", "walk"})
    BY <2>2, BaseFacts DEF TopIn
  <2> QED BY <2>2, <2>3, LockMotion, MutexIds DEF ListMotion
<1> QED BY <1>1, <1>2, <1>3, <1>4, <1>5, <1>6, <1>7, <1>8, <1>9, <1>10, <1>11, <1>12, <1>13
        DEF Next, Running, ClientCall

-----------------------------------------------------------------------------
(* No task is lost, unless sys_sleep rounds its argument to 0 ticks.       *)

\* t is where the kernel will find it again.
Linked(t) == t \in Nodes(ready_list) \/ t \in Nodes(sleep_list) \/ Awaits(t)

\* Only sys_sleep with an argument that makes 0 ticks unlinks a task for good.
LEMMA LinkedKept ==
    ASSUME IInv, Next, NEW t \in Task, Linked(t)
    PROVE  Linked(t)' \/ (t = curr_task /\ \E ms \in SleepMs : SleepTicks(ms) = 0 /\ Slept(ms))
<1>1. ready_list \in Seq(Task) /\ sleep_list \in Seq(Task) /\ curr_task \in Task
  BY DEF IInv, TypeOK, TaskTypeOK
<1>2. CASE Still \/ Switched
  BY <1>2 DEF Still, Switched, Linked, Awaits, listVars, waitVars
<1>3. CASE Requeued
  BY <1>3 DEF Requeued, Linked, Awaits, waitVars
<1>4. CASE BeginsToWait
  BY <1>4 DEF BeginsToWait, Linked
<1>5. ASSUME NEW w \in Task, Served(w) PROVE Linked(t)'
  <2>1. Nodes(list_insert_last(ready_list, w)) = Nodes(ready_list) \cup {w}
    BY <1>1, InsertLast
  <2> QED BY <1>5, <2>1 DEF Served, Linked
<1>6. ASSUME NEW w \in Task, Counted(w) PROVE Linked(t)'
  <2>1. Nodes(list_insert_last(ready_list, w)) = Nodes(ready_list) \cup {w}
    BY <1>1, InsertLast
  <2>2. CASE sleep_ticks[w] - 1 = 0
    BY <1>6, <2>1, <2>2 DEF Counted, Linked, Awaits, waitVars
  <2>3. CASE sleep_ticks[w] - 1 # 0
    BY <1>6, <2>3 DEF Counted, Linked, Awaits, waitVars
  <2> QED BY <2>2, <2>3
<1>7. ASSUME NEW w \in Task, Created(w) PROVE Linked(t)'
  <2>1. Nodes(list_insert_last(ready_list, w)) = Nodes(ready_list) \cup {w}
    BY <1>1, InsertLast
  <2> QED BY <1>7, <2>1 DEF Created, Linked, Awaits, waitVars
<1>8. ASSUME NEW ms \in SleepMs, Slept(ms), SleepTicks(ms) # 0 PROVE Linked(t)'
  <2>1. sleep_list' = list_insert_last(sleep_list, curr_task)
    BY <1>8 DEF Slept, task_set_sleep
  <2>2. Nodes(list_insert_last(sleep_list, curr_task)) = Nodes(sleep_list) \cup {curr_task}
    BY <1>1, InsertLast
  <2> QED BY <1>8, <2>1, <2>2 DEF Slept, Linked, Awaits, waitVars
<1>9. ASSUME NEW ms \in SleepMs, Slept(ms), SleepTicks(ms) = 0, t # curr_task PROVE Linked(t)'
  <2>1. UNCHANGED sleep_list
    BY <1>9 DEF Slept, task_set_sleep
  <2> QED BY <1>9, <2>1 DEF Slept, Linked, Awaits, waitVars
<1> QED BY <1>2, <1>3, <1>4, <1>5, <1>6, <1>7, <1>8, <1>9, NextMotion DEF ListMotion

\* The tasks that NoTaskLost speaks of.
LEMMA LostMeans == NoTaskLost <=> \A t \in Nodes(task_list) \ {idle_task} : Linked(t)
BY DEF NoTaskLost, Linked, Awaits, Waiting, MutexWaiters, SemWaiters

\* A task enters the task list only together with the ready list.
LEMMA TaskListKept ==
    ASSUME IInv, Next, NEW t \in Nodes(task_list')
    PROVE  t \in Nodes(task_list) \/ Linked(t)'
<1>1. ready_list \in Seq(Task) /\ task_list \in Seq(Task)
  BY DEF IInv, TypeOK, TaskTypeOK
<1>2. ASSUME NEW w \in Task, Created(w) PROVE t \in Nodes(task_list) \/ Linked(t)'
  <2>1. Nodes(list_insert_last(ready_list, w)) = Nodes(ready_list) \cup {w}
    BY <1>1, InsertLast
  <2>2. Nodes(list_insert_last(task_list, w)) = Nodes(task_list) \cup {w}
    BY <1>1, InsertLast
  <2>3. Nodes(ready_list') = Nodes(ready_list) \cup {w} /\ Nodes(task_list') = Nodes(task_list) \cup {w}
    BY <1>2, <2>1, <2>2 DEF Created
  <2>4. t \in Nodes(task_list) \/ t \in Nodes(ready_list')
    BY <2>3
  <2> QED BY <2>4 DEF Linked
<1>3. ASSUME ~\E w \in Task : Created(w) PROVE UNCHANGED task_list
  BY <1>3, NextMotion
     DEF ListMotion, Still, Switched, Requeued, BeginsToWait, Served, Counted, Slept, listVars
<1> QED BY <1>2, <1>3

\* A step loses no task that sys_sleep does not put to sleep for 0 ticks.
LEMMA LostNext ==
    ASSUME IInv, NoTaskLost, [Next]_vars
    PROVE  NoTaskLost' \/ \E ms \in SleepMs : SleepTicks(ms) = 0 /\ Slept(ms)
<1>1. CASE Next
  <2>1. SUFFICES ASSUME \A ms \in SleepMs : SleepTicks(ms) = 0 => ~Slept(ms),
                        NEW t \in Nodes(task_list') \ {idle_task}
                 PROVE  Linked(t)'
    BY DEF NoTaskLost, Linked, Awaits, Waiting, MutexWaiters, SemWaiters
  <2>2. task_list \in Seq(Task)
    BY DEF IInv, TypeOK, TaskTypeOK
  <2>3. CASE t \in Nodes(task_list)
    BY <1>1, <2>1, <2>2, <2>3, NodesType, LostMeans, LinkedKept
  <2>4. CASE t \notin Nodes(task_list)
    BY <1>1, <2>1, <2>4, TaskListKept
  <2> QED BY <2>3, <2>4
<1>2. CASE UNCHANGED vars
  BY <1>2 DEF vars, taskVars, listVars, mutexVars, semVars, NoTaskLost, Waiting, MutexWaiters, SemWaiters
<1> QED BY <1>1, <1>2

LEMMA InitNotLost == ASSUME KernelInit PROVE NoTaskLost
<1>1. ready_list = <<first_task>> /\ task_list = <<idle_task, first_task>>
  BY DEF KernelInit, TaskInit
<1>2. first_task \in Nodes(ready_list)
  BY <1>1 DEF Nodes
<1>3. \A i \in 1..2 : i = 1 \/ i = 2
  OBVIOUS
<1>4. \A t \in Nodes(task_list) : t = idle_task \/ t = first_task
  BY <1>1, <1>3 DEF Nodes
<1> QED BY <1>2, <1>4 DEF NoTaskLost

\* No argument that a client gives sys_sleep is rounded to 0 ticks, neither 0 itself nor
\* one within OS_TICKS_MS of the end of uint32_t.
NoZeroSleep == \A ms \in SleepMs : SleepTicks(ms) # 0

\* As long as no client sleeps for 0 ticks, every created task is linked in the ready
\* list, the sleep list or a wait list, whatever calls were interrupted by whichever
\* ticks: mutex_lock, sem_wait, sys_sleep and the tick handler lose nobody.
THEOREM NoTaskLostAlways == ASSUME NoZeroSleep PROVE Spec => []NoTaskLost
<1>1. KernelInit => NoTaskLost
  BY InitNotLost
<1>2. IInv /\ NoTaskLost /\ [Next]_vars => NoTaskLost'
  BY LostNext DEF NoZeroSleep
<1> QED BY <1>1, <1>2, KernelInvariant, PTL DEF Spec

\* Without that hypothesis: the only step that can lose a task is a sys_sleep whose
\* argument makes 0 ticks (task_set_sleep's early return, after task_set_block).
THEOREM OnlyZeroSleepLoses ==
    Spec => [][NoTaskLost => NoTaskLost' \/ \E ms \in SleepMs : SleepTicks(ms) = 0 /\ Slept(ms)]_vars
<1>1. IInv /\ [Next]_vars =>
          [NoTaskLost => NoTaskLost' \/ \E ms \in SleepMs : SleepTicks(ms) = 0 /\ Slept(ms)]_vars
  BY LostNext
<1> QED BY <1>1, KernelInvariant, PTL DEF Spec

-----------------------------------------------------------------------------
(* The state field says which list a task is in.                           *)

\* StateMatchesList, and what keeps it when the current task is switched away from:
\* it is TASK_READY unless it is still the first of the ready list.
StateInv ==
    /\ StateMatchesList
    /\ ~halted /\ curr_task \in Nodes(ready_list) =>
          state[curr_task] = "TASK_READY" \/ Head(ready_list) = curr_task

\* sys_sleep never sleeps for a negative number of ticks.
LEMMA SleepTicksNat == ASSUME NEW ms \in SleepMs PROVE SleepTicks(ms) \in Nat
<1>1. ms \in Nat /\ OS_TICKS_MS \in Nat \ {0} /\ UINT_MOD \in Nat \ {0}
  BY TaskAssumption
<1> DEFINE k == (ms + (OS_TICKS_MS - 1)) % UINT_MOD
<1>2. k \in Nat
  BY <1>1
<1> HIDE DEF k
<1>3. k \div OS_TICKS_MS \in Nat
  BY <1>1, <1>2
<1> QED BY <1>3 DEF SleepTicks, k

\* A list that only grows at its end keeps its first node.
LEMMA HeadKept ==
    ASSUME NEW s \in Seq(Task), NEW w \in Task, NEW t, t \in Nodes(s), Head(s) = t
    PROVE  Head(list_insert_last(s, w)) = t
<1>1. s # <<>>
  BY EmptyList
<1> QED BY <1>1, InsertLast

\* list_insert_last adds one node.
LEMMA InsertNodes ==
    ASSUME NEW s \in Seq(Task), NEW w \in Task
    PROVE  Nodes(list_insert_last(s, w)) = Nodes(s) \cup {w}
BY InsertLast

\* A task that becomes TASK_READY is appended to the ready list.
LEMMA ReadiedState ==
    ASSUME IInv, StateInv, ~halted, NEW w \in Task,
           w \notin Nodes(ready_list),
           ready_list' = list_insert_last(ready_list, w),
           state' = [state EXCEPT ![w] = "TASK_READY"],
           UNCHANGED <<curr_task, halted>>,
           w \notin Nodes(sleep_list'),
           \A t \in Task \ {w} : /\ t \in Nodes(sleep_list') <=> t \in Nodes(sleep_list)
                                 /\ t \in Nodes(sleep_list) => sleep_ticks'[t] > 0
    PROVE  StateInv'
<1>1. /\ curr_task \in Task /\ ready_list \in Seq(Task)
      /\ state \in [Task -> States]
  BY DEF IInv, TypeOK, TaskTypeOK
<1>2. Nodes(ready_list') = Nodes(ready_list) \cup {w}
  BY <1>1, InsertNodes
<1>3. state'[w] = "TASK_READY" /\ \A t \in Task \ {w} : state'[t] = state[t]
  BY <1>1
<1>4. ASSUME NEW t \in Task
      PROVE  /\ t \in Nodes(sleep_list') <=> state'[t] = "TASK_SLEEP"
             /\ t \in Nodes(sleep_list') => sleep_ticks'[t] > 0
             /\ t \in Nodes(ready_list') /\ t # curr_task /\ ~halted => state'[t] = "TASK_READY"
  <2>1. CASE t = w
    BY <1>3, <2>1
  <2>2. CASE t # w
    BY <1>2, <1>3, <2>2 DEF StateInv, StateMatchesList
  <2> QED BY <2>1, <2>2
<1>5. curr_task \in Nodes(ready_list') =>
          state'[curr_task] = "TASK_READY" \/ Head(ready_list') = curr_task
  <2>1. CASE curr_task = w
    BY <1>3, <2>1
  <2>2. CASE curr_task # w
    <3>1. SUFFICES ASSUME curr_task \in Nodes(ready_list), Head(ready_list) = curr_task
                   PROVE  Head(ready_list') = curr_task
      BY <1>1, <1>2, <1>3, <2>2 DEF StateInv
    <3> QED BY <1>1, <3>1, HeadKept
  <2> QED BY <2>1, <2>2
<1> QED BY <1>4, <1>5 DEF StateInv, StateMatchesList

\* The task that task_dispatch switches to is in no other list.
LEMMA NextRunFacts ==
    ASSUME IInv
    PROVE  /\ task_next_run \in Task /\ task_next_run \notin Nodes(sleep_list)
           /\ ~Awaits(task_next_run)
           /\ ready_list = <<>> => task_next_run = idle_task
           /\ ready_list # <<>> => /\ task_next_run = Head(ready_list)
                                   /\ task_next_run \in Nodes(ready_list)
<1>1. ready_list \in Seq(Task) /\ idle_task \in Task
  BY DEF IInv, TypeOK, TaskTypeOK, Task
<1>2. CASE ready_list = <<>>
  <2>1. task_next_run = idle_task
    BY <1>2 DEF task_next_run, list_count
  <2> QED BY <1>1, <1>2, <2>1 DEF IInv, LinkInv, Linkable, Awaits
<1>3. CASE ready_list # <<>>
  <2>1. Len(ready_list) # 0
    BY <1>1, <1>3
  <2>2. task_next_run = Head(ready_list)
    BY <1>3, <2>1 DEF task_next_run, list_count, list_first
  <2>3. Head(ready_list) \in Nodes(ready_list)
    BY <1>1, <1>3, RemoveFirst
  <2>4. Head(ready_list) \in Task
    BY <1>1, <2>3, NodesType
  <2>5. Head(ready_list) \notin Nodes(sleep_list) /\ ~Awaits(Head(ready_list))
    BY <2>3 DEF IInv, ListInv, Awaits
  <2> QED BY <1>3, <2>2, <2>3, <2>4, <2>5
<1> QED BY <1>2, <1>3

LEMMA StateNext == ASSUME IInv, StateInv, [Next]_vars PROVE StateInv'
<1>1. /\ curr_task \in Task /\ ready_list \in Seq(Task) /\ sleep_list \in Seq(Task)
      /\ state \in [Task -> States] /\ sleep_ticks \in [Task -> Int] /\ idle_task \in Task
  BY DEF IInv, TypeOK, TaskTypeOK, Task
<1>2. CASE Still \/ UNCHANGED vars
  BY <1>2 DEF Still, vars, taskVars, fieldVars, listVars, StateInv, StateMatchesList
<1>3. CASE Switched
  <2> DEFINE n == task_next_run
  <2>1. /\ n \in Task /\ n \notin Nodes(sleep_list)
        /\ ready_list # <<>> => n = Head(ready_list)
        /\ ready_list = <<>> => n = idle_task
    BY NextRunFacts
  <2>2. /\ n # curr_task /\ curr_task' = n /\ ~halted
        /\ state' = [state EXCEPT ![n] = "TASK_RUNNING"]
        /\ UNCHANGED <<ready_list, sleep_list, sleep_ticks>>
    BY <1>3 DEF Switched, listVars
  <2> HIDE DEF n
  <2>3. state'[n] = "TASK_RUNNING" /\ \A t \in Task \ {n} : state'[t] = state[t]
    BY <1>1, <2>1, <2>2
  <2>4. curr_task \in Nodes(ready_list) => state[curr_task] = "TASK_READY"
    BY <2>1, <2>2, EmptyList DEF StateInv
  <2>5. ASSUME NEW t \in Task
        PROVE  /\ t \in Nodes(sleep_list) <=> state'[t] = "TASK_SLEEP"
               /\ t \in Nodes(sleep_list) => sleep_ticks[t] > 0
               /\ t \in Nodes(ready_list) /\ t # n => state'[t] = "TASK_READY"
    <3>1. CASE t = n
      BY <2>1, <2>3, <3>1
    <3>2. CASE t # n
      BY <2>2, <2>3, <2>4, <3>2 DEF StateInv, StateMatchesList
    <3> QED BY <3>1, <3>2
  <2>6. n \in Nodes(ready_list) => Head(ready_list) = n
    BY <2>1, EmptyList
  <2> QED BY <2>2, <2>5, <2>6 DEF StateInv, StateMatchesList
<1>4. CASE Requeued
  <2>1. /\ Nodes(ready_list)' = Nodes(ready_list) /\ state' = ReadyState(state, curr_task)
        /\ ~halted /\ UNCHANGED <<curr_task, sleep_list, sleep_ticks, halted>>
    BY <1>4 DEF Requeued
  <2>2. CASE curr_task = idle_task
    <3>1. idle_task \notin Nodes(ready_list) /\ state' = state
      BY <2>1, <2>2 DEF IInv, LinkInv, Linkable, ReadyState
    <3> QED BY <2>1, <2>2, <3>1 DEF StateInv, StateMatchesList
  <2>3. CASE curr_task # idle_task
    <3>1. state'[curr_task] = "TASK_READY" /\ \A t \in Task \ {curr_task} : state'[t] = state[t]
      BY <1>1, <2>1, <2>3 DEF ReadyState
    <3>2. curr_task \notin Nodes(sleep_list)
      BY <1>4, <2>3 DEF Requeued, IInv, ListInv
    <3>3. ASSUME NEW t \in Task
          PROVE  /\ t \in Nodes(sleep_list) <=> state'[t] = "TASK_SLEEP"
                 /\ t \in Nodes(sleep_list) => sleep_ticks[t] > 0
                 /\ t \in Nodes(ready_list) /\ t # curr_task => state'[t] = "TASK_READY"
      BY <2>1, <3>1, <3>2 DEF StateInv, StateMatchesList
    <3> QED BY <2>1, <3>1, <3>3 DEF StateInv, StateMatchesList
  <2> QED BY <2>2, <2>3
<1>5. CASE BeginsToWait
  <2>1. /\ curr_task \notin Nodes(ready_list)' /\ \A t : t \in Nodes(ready_list)' => t \in Nodes(ready_list)
        /\ UNCHANGED <<curr_task, sleep_list, state, sleep_ticks, halted>>
    BY <1>5 DEF BeginsToWait
  <2> QED BY <2>1 DEF StateInv, StateMatchesList
<1>6. ASSUME NEW w \in Task, Served(w) PROVE StateInv'
  <2>1. w \notin Nodes(ready_list) /\ w \notin Nodes(sleep_list)
    BY <1>6 DEF Served, Awaits, IInv, ListInv
  <2>2. \A t \in Task : t \in Nodes(sleep_list) => sleep_ticks[t] > 0
    BY DEF StateInv, StateMatchesList
  <2> QED BY <1>6, <2>1, <2>2, ReadiedState DEF Served
<1>7. ASSUME NEW w \in Task, Counted(w) PROVE StateInv'
  <2>1. /\ ~halted /\ w \in Nodes(sleep_list)
        /\ sleep_ticks' = [sleep_ticks EXCEPT ![w] = @ - 1]
        /\ UNCHANGED <<curr_task, halted>>
    BY <1>7 DEF Counted
  <2>2. sleep_ticks[w] > 0 /\ \A t \in Task : t \in Nodes(sleep_list) => sleep_ticks[t] > 0
    BY <2>1 DEF StateInv, StateMatchesList
  <2>3. sleep_ticks'[w] = sleep_ticks[w] - 1 /\ \A t \in Task \ {w} : sleep_ticks'[t] = sleep_ticks[t]
    BY <1>1, <2>1
  <2>4. CASE sleep_ticks[w] - 1 = 0
    <3>1. w \notin Nodes(ready_list)
      BY <2>1 DEF IInv, ListInv
    <3>2. /\ \A t : t \in Nodes(sleep_list)' <=> t \in Nodes(sleep_list) /\ t # w
          /\ ready_list' = list_insert_last(ready_list, w)
          /\ state' = [state EXCEPT ![w] = "TASK_READY"]
      BY <1>7, <2>4 DEF Counted
    <3> QED BY <2>1, <2>2, <2>3, <3>1, <3>2, ReadiedState
  <2>5. CASE sleep_ticks[w] - 1 # 0
    <3>1. UNCHANGED <<sleep_list, ready_list, state>>
      BY <1>7, <2>5 DEF Counted
    <3>2. sleep_ticks[w] \in Int /\ sleep_ticks[w] - 1 > 0
      BY <1>1, <2>2, <2>5
    <3>3. \A t \in Task : t \in Nodes(sleep_list) => sleep_ticks'[t] > 0
      BY <2>2, <2>3, <3>2
    <3> QED BY <2>1, <3>1, <3>3 DEF StateInv, StateMatchesList
  <2> QED BY <2>4, <2>5
<1>8. ASSUME NEW w \in Task, Created(w) PROVE StateInv'
  <2>1. w \notin Nodes(ready_list) /\ w \notin Nodes(sleep_list)
    BY <1>8 DEF Created, IInv, LinkInv, Linkable
  <2>2. \A t \in Task : t \in Nodes(sleep_list) => sleep_ticks[t] > 0
    BY DEF StateInv, StateMatchesList
  <2>3. \A t \in Task \ {w} : sleep_ticks'[t] = sleep_ticks[t]
    BY <1>1, <1>8 DEF Created
  <2> QED BY <1>8, <2>1, <2>2, <2>3, ReadiedState DEF Created
<1>9. ASSUME NEW ms \in SleepMs, Slept(ms) PROVE StateInv'
  <2>1. /\ ~halted /\ curr_task \in Nodes(ready_list)
        /\ \A t : t \in Nodes(ready_list)' <=> t \in Nodes(ready_list) /\ t # curr_task
        /\ task_set_sleep(curr_task, SleepTicks(ms))
        /\ UNCHANGED <<curr_task, halted>>
    BY <1>9 DEF Slept
  <2>2. CASE SleepTicks(ms) = 0
    BY <2>1, <2>2 DEF task_set_sleep, StateInv, StateMatchesList
  <2>3. CASE SleepTicks(ms) # 0
    <3>1. /\ sleep_ticks' = [sleep_ticks EXCEPT ![curr_task] = SleepTicks(ms)]
          /\ state' = [state EXCEPT ![curr_task] = "TASK_SLEEP"]
          /\ sleep_list' = list_insert_last(sleep_list, curr_task)
      BY <2>1, <2>3 DEF task_set_sleep
    <3>2. SleepTicks(ms) > 0
      BY <2>3, SleepTicksNat
    <3>3. /\ sleep_ticks'[curr_task] = SleepTicks(ms) /\ state'[curr_task] = "TASK_SLEEP"
          /\ \A t \in Task \ {curr_task} : sleep_ticks'[t] = sleep_ticks[t] /\ state'[t] = state[t]
      BY <1>1, <3>1
    <3>4. Nodes(sleep_list') = Nodes(sleep_list) \cup {curr_task}
      <4>1. Nodes(list_insert_last(sleep_list, curr_task)) = Nodes(sleep_list) \cup {curr_task}
        BY <1>1, InsertLast
      <4> QED BY <3>1, <4>1
    <3>5. ASSUME NEW t \in Task
          PROVE  /\ t \in Nodes(sleep_list') <=> state'[t] = "TASK_SLEEP"
                 /\ t \in Nodes(sleep_list') => sleep_ticks'[t] > 0
                 /\ t \in Nodes(ready_list') /\ t # curr_task => state'[t] = "TASK_READY"
      <4>1. CASE t = curr_task
        BY <3>2, <3>3, <3>4, <4>1
      <4>2. CASE t # curr_task
        BY <2>1, <3>3, <3>4, <4>2 DEF StateInv, StateMatchesList
      <4> QED BY <4>1, <4>2
    <3> QED BY <2>1, <3>5 DEF StateInv, StateMatchesList
  <2> QED BY <2>2, <2>3
<1> QED BY <1>2, <1>3, <1>4, <1>5, <1>6, <1>7, <1>8, <1>9, NextMotion DEF ListMotion

LEMMA InitState == ASSUME KernelInit PROVE StateInv
<1>1. /\ ready_list = <<first_task>> /\ sleep_list = <<>> /\ curr_task = first_task
      /\ \A t \in Task : state[t] = IF t = first_task THEN "TASK_READY" ELSE "TASK_CREATED"
      /\ first_task \in Task
  BY DEF KernelInit, TaskInit, Task
<1>2. \A t : t \in Nodes(ready_list) => t = first_task
  BY <1>1 DEF Nodes
<1>3. Nodes(sleep_list) = {}
  BY <1>1, EmptyList
<1> QED BY <1>1, <1>2, <1>3 DEF StateInv, StateMatchesList

\* TASK_SLEEP is the state of exactly the tasks in the sleep list, each with ticks left,
\* and a task in the ready list that does not run is TASK_READY: task_set_ready,
\* task_set_sleep and task_dispatch keep the field and the lists together, although the
\* latter two are separated by whatever the tick handler does.
THEOREM StateMatchesListAlways == Spec => []StateMatchesList
<1>1. KernelInit => StateInv
  BY InitState
<1>2. IInv /\ StateInv /\ [Next]_vars => StateInv'
  BY StateNext
<1>3. StateInv => StateMatchesList
  BY DEF StateInv
<1> QED BY <1>1, <1>2, <1>3, KernelInvariant, PTL DEF Spec

-----------------------------------------------------------------------------
(* The lock count of log_mutex is the number of open calls of log_printf.  *)

\* After a fault in task_switch nothing runs.
LEMMA NextRuns == ASSUME Next PROVE ~halted
<1>1. Running => ~halted
  BY DEF Running, TaskStep, task_dispatch, irq_leave_protection, tick_rotate, tick_scan, tick_walk,
         LogStart, LogEnd, gdt_alloc_desc, gdt_release, tss_init, task_init_end, At
<1>2. ClientCall => ~halted
  BY DEF ClientCall, sys_sched_yield, sys_sleep, Sti, irq_enable_global, ClientLog, ClientLock,
         ClientUnlock, sem_wait, sem_notify, task_init, AtBase
<1>3. Tick => ~halted
  BY DEF Tick, time_tick
<1> QED BY <1>1, <1>2, <1>3 DEF Next

\* The CPU faults only in a switch, and the task switched to was not in log_printf's
\* second half.
HaltInv == halted => ~TopIn(curr_task, {"unlog"})

LEMMA HaltNext == ASSUME IInv, HaltInv, [Next]_vars PROVE HaltInv'
<1>1. CASE UNCHANGED vars
  BY <1>1 DEF vars, taskVars, HaltInv, TopIn
<1>2. CASE Next
  <2>1. ~halted
    BY <1>2, NextRuns
  <2>2. CASE Switched
    <3>1. /\ curr_task' = task_next_run /\ task_next_run # curr_task
          /\ \A t \in Task \ {curr_task} : stack'[t] = stack[t]
      BY <2>2 DEF Switched
    <3>2. task_next_run \in Task
      BY NextRunFacts
    <3>3. stack[task_next_run] # <<>> => stack[task_next_run][1].pc = "log"
      BY <3>1, <3>2 DEF IInv, Suspended
    <3>4. stack'[curr_task'] = stack[task_next_run]
      BY <3>1, <3>2
    <3> QED BY <3>3, <3>4 DEF HaltInv, TopIn
  <2>3. CASE ~Switched
    <3>1. halted' = halted
      BY <1>2, <2>3, NextMotion
         DEF ListMotion, Still, Requeued, BeginsToWait, Served, Counted, Created, Slept
    <3> QED BY <2>1, <3>1 DEF HaltInv
  <2> QED BY <2>2, <2>3
<1> QED BY <1>1, <1>2

\* How many calls of log_printf a stack of the right shape has open.
LEMMA CountUnlogs ==
    ASSUME NEW fs \in Seq(Frame), ShapeLog(fs)
    PROVE  Cardinality({i \in 1..Len(fs) : fs[i].pc = "unlog"}) =
              IF ~HasPc(fs, {"unlog"}) THEN 0 ELSE IF TwoUnlogs(fs) THEN 2 ELSE 1
<1> DEFINE U == {i \in 1..Len(fs) : fs[i].pc = "unlog"}
<1>1. Len(fs) \in Nat
  OBVIOUS
<1>2. CASE ~HasPc(fs, {"unlog"})
  <2>1. U = {}
    BY <1>2 DEF HasPc
  <2> QED BY <1>2, <2>1, FS_EmptySet
<1>3. CASE HasPc(fs, {"unlog"}) /\ ~TwoUnlogs(fs)
  <2>1. PICK i \in 1..Len(fs) : fs[i].pc = "unlog"
    BY <1>3 DEF HasPc
  <2>2. \A j, k \in U : j < k => FALSE
    <3>1. SUFFICES ASSUME NEW j \in U, NEW k \in U, j < k PROVE FALSE
      OBVIOUS
    <3>2. j = 1
      BY <3>1 DEF ShapeLog
    <3>3. k \in 2..Len(fs) /\ fs[k].pc = "unlog" /\ fs[1].pc = "unlog" /\ fs # <<>>
      BY <1>1, <3>1, <3>2
    <3> QED BY <1>3, <3>3 DEF TwoUnlogs
  <2>3. \A j \in U : j = i
    BY <1>1, <2>1, <2>2
  <2>4. U = {i}
    BY <2>1, <2>3
  <2>5. Cardinality({i}) = 1
    BY FS_Singleton
  <2> QED BY <1>3, <2>4, <2>5
<1>4. CASE HasPc(fs, {"unlog"}) /\ TwoUnlogs(fs)
  <2>1. PICK i \in 2..Len(fs) : fs[i].pc = "unlog"
    BY <1>4 DEF TwoUnlogs
  <2>2. fs[1].pc = "unlog" /\ i # 1 /\ 1 \in 1..Len(fs) /\ i \in 1..Len(fs)
    BY <1>1, <1>4, <2>1 DEF TwoUnlogs
  <2>3. ASSUME NEW j \in U PROVE j = 1 \/ j = i
    <3>1. CASE j < i
      BY <2>1, <2>2, <2>3, <3>1 DEF ShapeLog
    <3>2. CASE i < j
      BY <2>1, <2>2, <2>3, <3>2 DEF ShapeLog
    <3> QED BY <1>1, <2>2, <2>3, <3>1, <3>2
  <2>4. U = {i} \cup {1}
    BY <2>1, <2>2, <2>3
  <2>5. IsFiniteSet({i}) /\ Cardinality({i}) = 1
    BY FS_Singleton
  <2>6. Cardinality({i} \cup {1}) = Cardinality({i}) + 1
    BY <2>2, <2>5, FS_AddElement
  <2>7. Cardinality({i} \cup {1}) = 2
    <3> DEFINE c == Cardinality({i} \cup {1})
               d == Cardinality({i})
    <3>1. c = d + 1 /\ d = 1
      BY <2>5, <2>6
    <3> HIDE DEF c, d
    <3>2. c = 2
      BY <3>1
    <3> QED BY <3>2 DEF c
  <2>8. Cardinality(U) = 2
    BY <2>4, <2>7
  <2> QED BY <1>4, <2>8
<1> QED BY <1>2, <1>3, <1>4

\* A task that waits for log_mutex has one call of log_printf open.
LEMMA WaiterUnlogs ==
    ASSUME IInv, HaltInv, NEW t \in Task, t \in Nodes(mutex_wait[log_mutex])
    PROVE  ~TwoUnlogs(stack[t])
<1>1. CASE t # curr_task
  BY <1>1 DEF IInv, Suspended, TwoUnlogs
<1>2. CASE t = curr_task
  <2>1. SUFFICES ASSUME TopIn(curr_task, {"unlog"}) PROVE FALSE
    BY <1>2 DEF TopIn, TwoUnlogs
  <2>2. ~halted /\ ~TopIn(curr_task, {"dispatch", "walk"})
    BY <2>1 DEF HaltInv, TopIn
  <2> QED BY <1>2, <2>2, RunningFacts, MutexIds
<1> QED BY <1>1, <1>2

LEMMA LogCounted == ASSUME IInv, HaltInv PROVE LogBalanced
<1> DEFINE lm == log_mutex
<1>1. SUFFICES ASSUME NEW t \in Task
               PROVE  OpenLogs(t) = (IF owner[lm] = t THEN locked_count[lm] ELSE 0)
                                    + (IF t \in Nodes(mutex_wait[lm]) THEN 1 ELSE 0)
  BY DEF LogBalanced
<1>2. stack[t] \in Seq(Frame) /\ ShapeLog(stack[t])
  BY DEF IInv, TypeOK, TaskTypeOK, StackInv, Shape
<1>3. OpenLogs(t) = IF ~HasPc(stack[t], {"unlog"}) THEN 0 ELSE IF TwoUnlogs(stack[t]) THEN 2 ELSE 1
  BY <1>2, CountUnlogs DEF OpenLogs
<1>4. HasPc(stack[t], {"unlog"}) <=> owner[lm] = t \/ t \in Nodes(mutex_wait[lm])
  BY DEF IInv, LogInv
<1>5. CASE owner[lm] = t
  <2>1. t \notin Nodes(mutex_wait[lm])
    BY <1>5, MutexIds DEF IInv, MutexInv
  <2>2. locked_count[lm] = IF TwoUnlogs(stack[t]) THEN 2 ELSE 1
    BY <1>5 DEF IInv, LogInv
  <2> QED BY <1>3, <1>4, <1>5, <2>1, <2>2
<1>6. CASE owner[lm] # t /\ t \in Nodes(mutex_wait[lm])
  <2>1. ~TwoUnlogs(stack[t])
    BY <1>6, WaiterUnlogs
  <2> QED BY <1>3, <1>4, <1>6, <2>1
<1>7. CASE owner[lm] # t /\ t \notin Nodes(mutex_wait[lm])
  BY <1>3, <1>4, <1>7
<1> QED BY <1>5, <1>6, <1>7

\* The lock count of log_mutex is the number of log_printf calls its owner has open, and
\* nobody else has one open except to wait: log_printf is re-entered from the tick
\* handler and from task_dispatch, and no unlock goes missing.
THEOREM LogBalancedAlways == Spec => []LogBalanced
<1>1. KernelInit => HaltInv
  BY DEF KernelInit, TaskInit, HaltInv
<1>2. IInv /\ HaltInv /\ [Next]_vars => HaltInv'
  BY HaltNext
<1>3. IInv /\ HaltInv => LogBalanced
  BY LogCounted
<1> QED BY <1>1, <1>2, <1>3, KernelInvariant, PTL DEF Spec

-----------------------------------------------------------------------------
(* What one step does to the stacks.                                       *)

\* No task waits for the idle task's log_printf: while it lasts, nobody else runs.
IdleWaitInv == owner[log_mutex] = idle_task => mutex_wait[log_mutex] = <<>>

\* mutex_lock and mutex_unlock on log_mutex.
LEMMA IdleWaitLog ==
    ASSUME IInv, IdleWaitInv, NEW rest,
           mutex_lock(log_mutex, rest) \/ mutex_unlock(log_mutex, rest)
    PROVE  IdleWaitInv'
<1> DEFINE lm == log_mutex
<1>1. /\ lm \in MutexId /\ None # idle_task
      /\ owner \in [MutexId -> Task \cup {None}] /\ mutex_wait \in [MutexId -> Seq(Task)]
  BY MutexIds, TaskAssumption DEF IInv, TypeOK, MutexTypeOK, Task
<1>2. CASE MutexTake(lm, rest)
  <2>1. mutex_wait[lm] = <<>> /\ mutex_wait' = mutex_wait
    BY <1>1, <1>2 DEF MutexTake, IInv, MutexInv
  <2> QED BY <2>1 DEF IdleWaitInv
<1>3. CASE MutexReenter(lm, rest) \/ MutexNotOwner(lm, rest) \/ MutexLeave(lm, rest)
  BY <1>3 DEF MutexReenter, MutexNotOwner, MutexLeave, IdleWaitInv, mutexVars
<1>4. CASE MutexBlock(lm, rest)
  BY <1>4 DEF MutexBlock, IdleWaitInv, IInv, LogInv
<1>5. CASE MutexRelease(lm, rest)
  BY <1>1, <1>5 DEF MutexRelease, IdleWaitInv
<1>6. CASE MutexHandOff(lm, rest)
  <2>1. /\ list_count(mutex_wait[lm]) # 0 /\ owner' = [owner EXCEPT ![lm] = list_first(mutex_wait[lm], None)]
    BY <1>6 DEF MutexHandOff
  <2>2. mutex_wait[lm] # <<>> /\ mutex_wait[lm] \in Seq(Task)
    BY <1>1, <2>1 DEF list_count
  <2>3. Head(mutex_wait[lm]) \in Nodes(mutex_wait[lm])
    BY <2>2, RemoveFirst
  <2>4. owner'[lm] # idle_task
    BY <1>1, <2>1, <2>2, <2>3 DEF list_first, IInv, LinkInv, Linkable
  <2> QED BY <2>4 DEF IdleWaitInv
<1> QED BY <1>2, <1>3, <1>4, <1>5, <1>6 DEF mutex_lock, mutex_unlock

LEMMA IdleWaitNext == ASSUME IInv, IdleWaitInv, [Next]_vars PROVE IdleWaitInv'
<1>1. CASE UNCHANGED mutexVars
  BY <1>1 DEF mutexVars, IdleWaitInv
<1>2. CASE LogStart \/ ClientLog \/ LogEnd
  BY <1>2, IdleWaitLog DEF LogStart, ClientLog, LogEnd, log_printf
<1>3. ASSUME NEW m \in MutexId \ {log_mutex}, NEW rest, mutex_lock(m, rest) \/ mutex_unlock(m, rest)
      PROVE  IdleWaitInv'
  <2>1. MutexTypeOK
    BY DEF IInv, TypeOK
  <2>2. owner'[log_mutex] = owner[log_mutex] /\ mutex_wait'[log_mutex] = mutex_wait[log_mutex]
    BY <1>3, <2>1, OtherMutex, MutexIds
  <2> QED BY <2>2 DEF IdleWaitInv
<1>4. CASE gdt_release
  BY <1>3, <1>4, MutexIds DEF gdt_release
<1>5. CASE \E t \in OtherTasks : task_init(t)
  <2> DEFINE r == <<Call("gdt_scan"), Call("gdt_unlock"), Call("tss_set"), Call("task_ready")>>
  <2>1. mutex_lock(gdt_mutex, r)
    BY <1>5 DEF task_init
  <2> HIDE DEF r
  <2> QED BY <1>3, <2>1, MutexIds
<1>6. CASE \E m \in ClientMutexes : ClientLock(m) \/ ClientUnlock(m)
  BY <1>3, <1>6, MutexIds DEF ClientLock, ClientUnlock
<1>7. Running \/ Tick \/ UNCHANGED vars =>
          UNCHANGED mutexVars \/ LogStart \/ LogEnd \/ gdt_release
  BY DEF Running, TaskStep, gdt_alloc_desc, tss_init, task_init_end, Tick, vars
<1>8. ClientCall => \/ UNCHANGED mutexVars \/ ClientLog
                    \/ \E t \in OtherTasks : task_init(t)
                    \/ \E m \in ClientMutexes : ClientLock(m) \/ ClientUnlock(m)
  BY DEF ClientCall, Sti
<1> QED BY <1>1, <1>2, <1>4, <1>5, <1>6, <1>7, <1>8 DEF Next

\* irq_enter_protection and a call of task_dispatch on top of rest.
Enter(rest) == <<Call("dispatch"), Leave(irq[curr_task])>> \o rest

\* The current task goes on with the frames fs; every other stack stays.
Becomes(fs) == stack' = [stack EXCEPT ![curr_task] = fs]

InitCalls == <<Call("gdt_scan"), Call("gdt_unlock"), Call("tss_set"), Call("task_ready")>>

\* A step of task_init.
InitStep ==
    \/ gdt_alloc_desc \/ gdt_release \/ tss_init \/ task_init_end
    \/ \E t \in OtherTasks : task_init(t)

SameStack == UNCHANGED <<stack, curr_task>> /\ ~TopIn(curr_task, {"dispatch"})

Popped ==
    /\ stack[curr_task] # <<>>
    /\ stack[curr_task][1].pc \notin InitPcs \cup {"log", "scan"}
    /\ stack[curr_task][1].pc = "rotate" => tick_rotate
    /\ Becomes(Rest)
    /\ UNCHANGED curr_task

Turned(p, q) ==
    /\ stack[curr_task] # <<>>
    /\ stack[curr_task][1].pc = p
    /\ Becomes(<<Call(q)>> \o Rest)
    /\ UNCHANGED curr_task

\* log_printf has to wait: no earlier call of it is open.
LogWaits ==
    /\ stack[curr_task] # <<>>
    /\ stack[curr_task][1].pc = "log"
    /\ ~HasPc(Rest, {"unlog"})
    /\ Becomes(Enter(<<Call("unlog")>> \o Rest))
    /\ UNCHANGED curr_task

\* An unlock that hands the mutex over: the dispatch that follows will not switch.
HandsOver(pc) ==
    /\ stack[curr_task] # <<>>
    /\ stack[curr_task][1].pc = pc
    /\ Becomes(Enter(Rest))
    /\ UNCHANGED curr_task
    /\ curr_task' = task_next_run'

SwitchedAway ==
    /\ stack[curr_task] # <<>>
    /\ stack[curr_task][1].pc = "dispatch"
    /\ task_next_run # curr_task
    /\ curr_task' = task_next_run
    /\ Becomes(<<Call("log"), Leave(irq[curr_task])>> \o Rest)

\* A kernel call from the task's own code.
Called ==
    /\ stack[curr_task] = <<>>
    /\ \/ Becomes(Enter(<<>>))
       \/ Becomes(<<Call("unlog")>> \o <<>>)
       \/ Becomes(Enter(<<Call("unlog")>> \o <<>>))
    /\ UNCHANGED curr_task

StackMotion ==
    \/ SameStack \/ Popped \/ Turned("log", "unlog") \/ Turned("scan", "walk") \/ LogWaits
    \/ HandsOver("unlog") /\ ~HasPc(Rest, {"unlog"})
    \/ SwitchedAway \/ Called \/ Tick

\* mutex_lock.
LEMMA LockStack ==
    ASSUME NEW m \in MutexId, NEW rest, mutex_lock(m, rest)
    PROVE  Becomes(rest) \/ (Becomes(Enter(rest)) /\ owner[m] # curr_task)
BY DEF mutex_lock, MutexTake, MutexReenter, MutexBlock, ProtectedDispatch, Continue, Becomes, Enter

\* mutex_unlock: after a hand-over the current task is still the one to run.
LEMMA UnlockStack ==
    ASSUME IInv, ~halted, ~TopIn(curr_task, {"dispatch", "walk"}),
           NEW m \in MutexId, NEW rest, mutex_unlock(m, rest), UNCHANGED mutexFrame,
           curr_task = idle_task => owner[m] # curr_task \/ mutex_wait[m] = <<>>
    PROVE  \/ Becomes(rest)
           \/ /\ Becomes(Enter(rest)) /\ curr_task' = task_next_run'
              /\ owner[m] = curr_task /\ locked_count[m] = 1
<1>1. CASE MutexNotOwner(m, rest) \/ MutexLeave(m, rest) \/ MutexRelease(m, rest)
  BY <1>1 DEF MutexNotOwner, MutexLeave, MutexRelease, Continue, Becomes
<1>2. CASE MutexHandOff(m, rest)
  <2> DEFINE w == list_first(mutex_wait[m], None)
  <2>1. /\ owner[m] = curr_task /\ locked_count[m] = 1
        /\ list_count(mutex_wait[m]) # 0
        /\ ready_list' = task_set_ready(ready_list, w)
        /\ ProtectedDispatch(rest)
        /\ curr_task' = curr_task
    BY <1>2 DEF MutexHandOff, mutexFrame
  <2>2. mutex_wait[m] \in Seq(Task) /\ ready_list \in Seq(Task)
    BY DEF IInv, TypeOK, TaskTypeOK, MutexTypeOK
  <2>3. mutex_wait[m] # <<>> /\ w = Head(mutex_wait[m])
    BY <2>1, <2>2 DEF list_count, list_first
  <2>4. Head(mutex_wait[m]) \in Nodes(mutex_wait[m])
    BY <2>2, <2>3, RemoveFirst
  <2>5. w \in Task /\ w # idle_task
    BY <2>2, <2>3, <2>4, NodesType DEF IInv, LinkInv, Linkable
  <2>6. ready_list # <<>> /\ curr_task = Head(ready_list)
    BY <2>1, <2>3, RunningFacts
  <2> HIDE DEF w
  <2>7. /\ list_insert_last(ready_list, w) \in Seq(Task) /\ list_insert_last(ready_list, w) # <<>>
        /\ Head(list_insert_last(ready_list, w)) = curr_task
    BY <2>2, <2>5, <2>6, InsertLast
  <2>8. ready_list' \in Seq(Task) /\ ready_list' # <<>> /\ Head(ready_list') = curr_task
    BY <2>1, <2>5, <2>7 DEF task_set_ready
  <2>9. Len(ready_list') # 0
    BY <2>8
  <2>10. task_next_run' = curr_task
    BY <2>8, <2>9 DEF task_next_run, list_count, list_first
  <2> QED BY <2>1, <2>10 DEF ProtectedDispatch, Continue, Becomes, Enter
<1> QED BY <1>1, <1>2 DEF mutex_unlock

\* Replacing an empty stack by an empty one.
LEMMA BaseBecomes ==
    ASSUME IInv, AtBase, Becomes(<<>>) PROVE UNCHANGED stack
BY DEF IInv, TypeOK, TaskTypeOK, AtBase, Becomes

\* log_printf called by another kernel function: only the first open call waits.
LEMMA LogStartStack == ASSUME IInv, LogStart PROVE Turned("log", "unlog") \/ LogWaits
<1>1. /\ At("log") /\ mutex_lock(log_mutex, <<Call("unlog")>> \o Rest) /\ UNCHANGED curr_task
  BY DEF LogStart, log_printf, mutexFrame
<1>2. ~halted /\ stack[curr_task] # <<>> /\ stack[curr_task][1].pc = "log"
  BY <1>1, AtFacts
<1>3. CASE Becomes(<<Call("unlog")>> \o Rest)
  BY <1>1, <1>2, <1>3 DEF Turned
<1>4. CASE Becomes(Enter(<<Call("unlog")>> \o Rest)) /\ owner[log_mutex] # curr_task
  <2>1. curr_task \in Task /\ \A P : HasPc(stack[curr_task], P) <=> stack[curr_task][1].pc \in P \/ HasPc(Rest, P)
    BY <1>2, RestFacts
  <2>2. ~TopIn(curr_task, {"dispatch", "walk"})
    BY <1>2 DEF TopIn
  <2>3. curr_task \notin Nodes(mutex_wait[log_mutex])
    BY <1>2, <2>2, RunningFacts, MutexIds
  <2>4. ~HasPc(stack[curr_task], {"unlog"})
    BY <1>4, <2>1, <2>3 DEF IInv, LogInv
  <2>5. ~HasPc(Rest, {"unlog"})
    BY <2>1, <2>4
  <2> QED BY <1>1, <1>2, <1>4, <2>5 DEF LogWaits
<1> QED BY <1>1, <1>3, <1>4, LockStack, MutexIds

\* The end of log_printf.
LEMMA LogEndStack ==
    ASSUME IInv, IdleWaitInv, LogEnd
    PROVE  Popped \/ (HandsOver("unlog") /\ ~HasPc(Rest, {"unlog"}))
<1>1. At("unlog") /\ mutex_unlock(log_mutex, Rest) /\ UNCHANGED mutexFrame
  BY DEF LogEnd
<1>2. ~halted /\ stack[curr_task] # <<>> /\ stack[curr_task][1].pc = "unlog"
  BY <1>1, AtFacts
<1>3. ~TopIn(curr_task, {"dispatch", "walk"}) /\ log_mutex \in MutexId
  BY <1>2, MutexIds DEF TopIn
<1>4. curr_task = idle_task => owner[log_mutex] # curr_task \/ mutex_wait[log_mutex] = <<>>
  BY DEF IdleWaitInv
<1>5. CASE Becomes(Rest)
  BY <1>1, <1>2, <1>5 DEF Popped, mutexFrame, InitPcs
<1>6. CASE /\ Becomes(Enter(Rest)) /\ curr_task' = task_next_run'
           /\ owner[log_mutex] = curr_task /\ locked_count[log_mutex] = 1
  <2>1. curr_task \in Task /\ stack[curr_task] \in Seq(Frame)
    BY DEF IInv, TypeOK, TaskTypeOK
  <2>2. ~TwoUnlogs(stack[curr_task])
    BY <1>6, <2>1 DEF IInv, LogInv
  <2>3. ~HasPc(Rest, {"unlog"})
    BY <1>2, <2>1, <2>2, UnlogBelow DEF Rest
  <2> QED BY <1>1, <1>2, <1>6, <2>3 DEF HandsOver, mutexFrame
<1> QED BY <1>1, <1>2, <1>3, <1>4, <1>5, <1>6, UnlockStack

\* A call from the task's own code.
LEMMA ClientStack ==
    ASSUME IInv, ClientCall, ~InitStep
    PROVE  SameStack \/ Called
<1>1. AtBase
  BY DEF ClientCall, sys_sched_yield, sys_sleep, Sti, irq_enable_global, ClientLog, ClientLock,
         ClientUnlock, sem_wait, sem_notify, task_init
<1>2. stack[curr_task] = <<>> /\ ~halted /\ ~TopIn(curr_task, {"dispatch"}) /\ curr_task # idle_task
      /\ ~TopIn(curr_task, {"dispatch", "walk"})
  BY <1>1, BaseFacts DEF TopIn
<1>3. CASE ProtectedDispatch(<<>>) /\ UNCHANGED curr_task
  BY <1>2, <1>3 DEF ProtectedDispatch, Continue, Called, Becomes, Enter
<1>4. CASE UNCHANGED <<stack, curr_task>>
  BY <1>2, <1>4 DEF SameStack
<1>5. CASE ClientLog
  <2>1. mutex_lock(log_mutex, <<Call("unlog")>> \o <<>>) /\ UNCHANGED curr_task
    BY <1>5 DEF ClientLog, log_printf, mutexFrame
  <2>2. \/ Becomes(<<Call("unlog")>> \o <<>>)
        \/ Becomes(Enter(<<Call("unlog")>> \o <<>>))
    BY <2>1, LockStack, MutexIds
  <2> QED BY <1>2, <2>1, <2>2 DEF Called
<1>6. CASE \E m \in ClientMutexes : ClientLock(m) \/ ClientUnlock(m)
  <2>1. PICK m \in ClientMutexes : ClientLock(m) \/ ClientUnlock(m)
    BY <1>6
  <2>2. m \in MutexId /\ UNCHANGED mutexFrame /\ UNCHANGED curr_task
    BY <2>1, MutexIds DEF ClientLock, ClientUnlock, mutexFrame
  <2>3. Becomes(<<>>) \/ Becomes(Enter(<<>>))
    BY <1>2, <2>1, <2>2, LockStack, UnlockStack DEF ClientLock, ClientUnlock
  <2> QED BY <1>1, <1>2, <1>4, <2>2, <2>3, BaseBecomes DEF Called
<1>7. CASE \E s \in SemId : sem_wait(s) \/ sem_notify(s)
  BY <1>3, <1>4, <1>7
     DEF sem_wait, sem_notify, SemTake, SemBlock, SemHandOff, SemCount, semFrame
<1>8. CASE sys_sched_yield \/ \E ms \in SleepMs : sys_sleep(ms)
  BY <1>3, <1>8 DEF sys_sched_yield, sys_sleep
<1>9. CASE Sti
  BY <1>4, <1>9 DEF Sti, irq_enable_global
<1> QED BY <1>5, <1>6, <1>7, <1>8, <1>9 DEF ClientCall, InitStep

\* Every step that is not one of task_init's is one of the motions.
LEMMA NextStack ==
    ASSUME IInv, IdleWaitInv, Next, ~InitStep
    PROVE  StackMotion
<1>1. CASE ClientCall
  BY <1>1, ClientStack DEF StackMotion
<1>2. CASE Tick
  BY <1>2 DEF StackMotion
<1>3. CASE LogStart
  BY <1>3, LogStartStack DEF StackMotion
<1>4. CASE LogEnd
  BY <1>4, LogEndStack DEF StackMotion
<1>5. CASE task_dispatch
  <2>1. At("dispatch")
    BY <1>5 DEF task_dispatch
  <2>2. stack[curr_task] # <<>> /\ stack[curr_task][1].pc = "dispatch"
    BY <2>1, AtFacts
  <2>3. CASE task_next_run = curr_task
    BY <1>5, <2>2, <2>3 DEF task_dispatch, Continue, StackMotion, Popped, Becomes, InitPcs
  <2>4. CASE task_next_run # curr_task
    BY <1>5, <2>2, <2>4 DEF task_dispatch, Continue, StackMotion, SwitchedAway, Becomes
  <2> QED BY <2>3, <2>4
<1>6. CASE irq_leave_protection
  <2>1. At("leave") \/ At("iret")
    BY <1>6 DEF irq_leave_protection
  <2>2. stack[curr_task] # <<>> /\ stack[curr_task][1].pc \in {"leave", "iret"}
    BY <2>1, AtFacts
  <2> QED BY <1>6, <2>2 DEF irq_leave_protection, Continue, StackMotion, Popped, Becomes, InitPcs
<1>7. CASE tick_rotate
  <2>1. At("rotate") /\ Becomes(Rest) /\ UNCHANGED curr_task
    BY <1>7 DEF tick_rotate, Continue, Becomes
  <2>2. stack[curr_task] # <<>> /\ stack[curr_task][1].pc = "rotate"
    BY <2>1, AtFacts
  <2> QED BY <1>7, <2>1, <2>2 DEF StackMotion, Popped, InitPcs
<1>8. CASE tick_scan
  <2>1. At("scan") /\ Becomes(<<Call("walk")>> \o Rest) /\ UNCHANGED curr_task
    BY <1>8 DEF tick_scan, Continue, Becomes
  <2>2. stack[curr_task] # <<>> /\ stack[curr_task][1].pc = "scan"
    BY <2>1, AtFacts
  <2> QED BY <2>1, <2>2 DEF StackMotion, Turned
<1>9. CASE tick_walk
  <2>1. At("walk") /\ UNCHANGED curr_task /\ (Becomes(Rest) \/ UNCHANGED stack)
    BY <1>9 DEF tick_walk, Continue, Becomes
  <2>2. stack[curr_task] # <<>> /\ stack[curr_task][1].pc = "walk"
    BY <2>1, AtFacts
  <2> QED BY <2>1, <2>2 DEF StackMotion, Popped, SameStack, TopIn, InitPcs
<1> QED BY <1>1, <1>2, <1>3, <1>4, <1>5, <1>6, <1>7, <1>8, <1>9 DEF Next, Running, TaskStep, InitStep

\* What task_init's steps do to the stack.
InitMotion ==
    \/ Turned("tss_set", "log")
    \/ HandsOver("gdt_unlock")
    \/ /\ stack[curr_task] # <<>> /\ stack[curr_task][1].pc \in InitPcs
       /\ Becomes(Rest) /\ UNCHANGED curr_task
    \/ /\ stack[curr_task] = <<>> /\ UNCHANGED curr_task
       /\ Becomes(InitCalls) \/ Becomes(Enter(InitCalls))

LEMMA InitStack == ASSUME IInv, InitStep PROVE InitMotion
<1>1. CASE gdt_alloc_desc
  <2>1. At("gdt_scan") /\ Becomes(Rest) /\ UNCHANGED curr_task
    BY <1>1 DEF gdt_alloc_desc, Continue, Becomes
  <2> QED BY <2>1, AtFacts DEF InitMotion, InitPcs
<1>2. CASE tss_init
  <2>1. At("tss_set") /\ (Becomes(Rest) \/ Becomes(<<Call("log")>> \o Rest)) /\ UNCHANGED curr_task
    BY <1>2 DEF tss_init, Continue, Becomes
  <2> QED BY <2>1, AtFacts DEF InitMotion, InitPcs, Turned
<1>3. CASE task_init_end
  <2>1. At("task_ready") /\ Becomes(Rest) /\ UNCHANGED curr_task
    BY <1>3 DEF task_init_end, Continue, Becomes
  <2> QED BY <2>1, AtFacts DEF InitMotion, InitPcs
<1>4. CASE gdt_release
  <2>1. At("gdt_unlock") /\ mutex_unlock(gdt_mutex, Rest) /\ UNCHANGED mutexFrame
    BY <1>4 DEF gdt_release
  <2>2. ~halted /\ stack[curr_task] # <<>> /\ stack[curr_task][1].pc = "gdt_unlock"
    BY <2>1, AtFacts
  <2>3. curr_task # idle_task
    <3>1. curr_task \in Task /\ HasPc(stack[curr_task], InitPcs)
      BY <2>2, RestFacts DEF InitPcs
    <3> QED BY <3>1 DEF IInv, StackInv, IdleShape, HasPc
  <2>4. ~TopIn(curr_task, {"dispatch", "walk"}) /\ gdt_mutex \in MutexId
    BY <2>2, MutexIds DEF TopIn
  <2>5. Becomes(Rest) \/ (Becomes(Enter(Rest)) /\ curr_task' = task_next_run')
    BY <2>1, <2>2, <2>3, <2>4, UnlockStack
  <2> QED BY <2>1, <2>2, <2>5 DEF InitMotion, InitPcs, HandsOver, mutexFrame
<1>5. CASE \E t \in OtherTasks : task_init(t)
  <2>1. AtBase /\ mutex_lock(gdt_mutex, InitCalls) /\ UNCHANGED curr_task
    BY <1>5 DEF task_init, InitCalls, mutexFrame
  <2>2. Becomes(InitCalls) \/ Becomes(Enter(InitCalls))
    BY <2>1, LockStack, MutexIds
  <2> QED BY <2>1, <2>2 DEF InitMotion, AtBase
<1> QED BY <1>1, <1>2, <1>3, <1>4, <1>5 DEF InitStep

\* The stack of the current task after a step, and the other stacks.
LEMMA BecomesFacts ==
    ASSUME IInv, NEW fs, Becomes(fs)
    PROVE  /\ curr_task \in Task /\ irq[curr_task] \in BOOLEAN
           /\ stack[curr_task] \in Seq(Frame)
           /\ stack'[curr_task] = fs
           /\ \A t \in Task \ {curr_task} : stack'[t] = stack[t]
BY DEF IInv, TypeOK, TaskTypeOK, Becomes

LEMMA HasPcConcat ==
    ASSUME NEW es \in Seq(Frame), NEW fs \in Seq(Frame), NEW P
    PROVE  HasPc(es \o fs, P) <=> HasPc(es, P) \/ HasPc(fs, P)
<1> DEFINE r == es \o fs
<1>1. /\ Len(es) \in Nat /\ Len(fs) \in Nat /\ Len(r) = Len(es) + Len(fs)
      /\ \A i \in 1..Len(es) : r[i] = es[i]
      /\ \A i \in (Len(es) + 1)..Len(r) : r[i] = fs[i - Len(es)]
  OBVIOUS
<1> HIDE DEF r
<1>2. ASSUME HasPc(r, P) PROVE HasPc(es, P) \/ HasPc(fs, P)
  <2>1. PICK i \in 1..Len(r) : r[i].pc \in P
    BY <1>2 DEF HasPc
  <2>2. CASE i \in 1..Len(es)
    BY <1>1, <2>1, <2>2 DEF HasPc
  <2>3. CASE i \notin 1..Len(es)
    <3>1. i - Len(es) \in 1..Len(fs) /\ r[i] = fs[i - Len(es)]
      BY <1>1, <2>1, <2>3
    <3> QED BY <2>1, <3>1 DEF HasPc
  <2> QED BY <2>2, <2>3
<1>3. ASSUME HasPc(es, P) PROVE HasPc(r, P)
  BY <1>1, <1>3 DEF HasPc
<1>4. ASSUME HasPc(fs, P) PROVE HasPc(r, P)
  <2>1. PICK i \in 1..Len(fs) : fs[i].pc \in P
    BY <1>4 DEF HasPc
  <2>2. i + Len(es) \in 1..Len(r) /\ r[i + Len(es)] = fs[i]
    BY <1>1, <2>1
  <2> QED BY <2>1, <2>2 DEF HasPc
<1>5. HasPc(r, P) <=> HasPc(es, P) \/ HasPc(fs, P)
  BY <1>2, <1>3, <1>4
<1> QED BY <1>5 DEF r

\* The pcs below a dispatch and its irq_leave_protection.
LEMMA EnterPcs ==
    ASSUME NEW b \in BOOLEAN, NEW fs \in Seq(Frame), NEW P
    PROVE  /\ HasPc(<<Call("dispatch"), Leave(b)>> \o fs, P) <=> "dispatch" \in P \/ "leave" \in P \/ HasPc(fs, P)
           /\ HasPc(<<Call("log"), Leave(b)>> \o fs, P) <=> "log" \in P \/ "leave" \in P \/ HasPc(fs, P)
<1>1. \A q \in {"dispatch", "log"} : Call(q) \in Frame /\ Call(q).pc = q
  BY FrameType DEF Pcs
<1>2. Leave(b) \in Frame /\ Leave(b).pc = "leave"
  BY FrameType
<1> QED BY <1>1, <1>2, HasPcPushTwo

\* A tick pushes its own frames, none of them a frame of task_init.
LEMMA TickPcs ==
    ASSUME IInv, Tick, NEW P
    PROVE  LET e == slice_ticks[curr_task] - 1 = 0
           IN  /\ curr_task \in Task /\ UNCHANGED curr_task
               /\ stack[curr_task] \in Seq(Frame)
               /\ stack'[curr_task] = TickCalls(e) \o stack[curr_task]
               /\ \A t \in Task \ {curr_task} : stack'[t] = stack[t]
               /\ HasPc(stack'[curr_task], P) <=> HasPc(TickCalls(e), P) \/ HasPc(stack[curr_task], P)
               /\ P \subseteq InitPcs => ~HasPc(TickCalls(e), P)
<1> DEFINE e == slice_ticks[curr_task] - 1 = 0
<1>1. Becomes(TickCalls(e) \o stack[curr_task]) /\ UNCHANGED curr_task
  BY DEF Tick, time_tick, Continue, Becomes
<1>2. e \in BOOLEAN
  OBVIOUS
<1> HIDE DEF e
<1>3. PICK k \in {3, 6} :
              /\ TickCalls(e) \in Seq(Frame) /\ Len(TickCalls(e)) = k
              /\ TickCalls(e)[k].pc = "iret"
              /\ \A i \in 1..(k - 1) :
                    TickCalls(e)[i].pc \in {"log", "rotate", "dispatch", "scan"}
  BY <1>2, TickFrames
<1>4. \A i \in 1..Len(TickCalls(e)) : TickCalls(e)[i].pc \notin InitPcs
  BY <1>3 DEF InitPcs
<1>5. P \subseteq InitPcs => ~HasPc(TickCalls(e), P)
  BY <1>4 DEF HasPc
<1>6. HasPc(TickCalls(e) \o stack[curr_task], P) <=> HasPc(TickCalls(e), P) \/ HasPc(stack[curr_task], P)
  BY <1>1, <1>3, BecomesFacts, HasPcConcat
<1> QED BY <1>1, <1>5, <1>6, BecomesFacts DEF e

\* A step that is not one of task_init's leaves the frames of task_init and, unless it
\* executes the frame, the rotation of an expired slice.
LEMMA PcsKept ==
    ASSUME IInv, StackMotion, NEW P, P \subseteq InitPcs \cup {"rotate"},
           "rotate" \in P => ~tick_rotate
    PROVE  \A t \in Task : /\ HasPc(stack[t], P) => HasPc(stack'[t], P)
                           /\ "rotate" \notin P => (HasPc(stack'[t], P) => HasPc(stack[t], P))
<1>0. \A q \in {"dispatch", "leave", "iret", "log", "unlog", "scan", "walk"} : q \notin P
  BY DEF InitPcs
<1>1. CASE stack[curr_task] # <<>> /\ ~Tick
  <2>1. /\ curr_task \in Task /\ Rest \in Seq(Frame) /\ irq[curr_task] \in BOOLEAN
        /\ \A Q : HasPc(stack[curr_task], Q) <=> stack[curr_task][1].pc \in Q \/ HasPc(Rest, Q)
    BY <1>1, RestFacts
  <2>2. \A q \in {"unlog", "walk"} : Call(q) \in Frame /\ Call(q).pc = q
    BY FrameType DEF Pcs
  <2>3. CASE SameStack
    BY <2>3 DEF SameStack
  <2>4. CASE Popped
    <3>1. stack[curr_task][1].pc \notin P
      BY <2>4 DEF Popped
    <3>2. stack'[curr_task] = Rest /\ \A t \in Task \ {curr_task} : stack'[t] = stack[t]
      BY <2>4, BecomesFacts DEF Popped
    <3> QED BY <2>1, <3>1, <3>2
  <2>5. CASE Turned("log", "unlog") \/ Turned("scan", "walk")
    <3>1. PICK q \in {"unlog", "walk"} : Becomes(<<Call(q)>> \o Rest)
      BY <2>5 DEF Turned
    <3>2. /\ stack'[curr_task] = <<Call(q)>> \o Rest
          /\ \A t \in Task \ {curr_task} : stack'[t] = stack[t]
      BY <3>1, BecomesFacts
    <3>3. HasPc(stack'[curr_task], P) <=> q \in P \/ HasPc(Rest, P)
      BY <2>1, <2>2, <3>2, HasPcPush
    <3>4. stack[curr_task][1].pc \notin P
      BY <1>0, <2>5 DEF Turned
    <3> QED BY <1>0, <2>1, <3>2, <3>3, <3>4
  <2>6. CASE LogWaits
    <3>1. /\ stack'[curr_task] = <<Call("dispatch"), Leave(irq[curr_task])>> \o (<<Call("unlog")>> \o Rest)
          /\ \A t \in Task \ {curr_task} : stack'[t] = stack[t]
      BY <2>6, BecomesFacts DEF LogWaits, Enter
    <3>2. <<Call("unlog")>> \o Rest \in Seq(Frame)
      BY <2>1, <2>2, PushIndex
    <3>3. HasPc(<<Call("unlog")>> \o Rest, P) <=> "unlog" \in P \/ HasPc(Rest, P)
      BY <2>1, <2>2, HasPcPush
    <3>4. HasPc(stack'[curr_task], P) <=> HasPc(Rest, P)
      <4> DEFINE u == <<Call("unlog")>> \o Rest
      <4>1. u \in Seq(Frame) /\ irq[curr_task] \in BOOLEAN
        BY <2>1, <3>2
      <4>2. stack'[curr_task] = <<Call("dispatch"), Leave(irq[curr_task])>> \o u
        BY <3>1
      <4>3. HasPc(u, P) <=> HasPc(Rest, P)
        BY <1>0, <3>3
      <4> HIDE DEF u
      <4>4. HasPc(stack'[curr_task], P) <=> "dispatch" \in P \/ "leave" \in P \/ HasPc(u, P)
        BY <4>1, <4>2, EnterPcs
      <4> QED BY <1>0, <4>3, <4>4
    <3>5. stack[curr_task][1].pc \notin P
      BY <1>0, <2>6 DEF LogWaits
    <3> QED BY <2>1, <3>1, <3>4, <3>5
  <2>7. CASE HandsOver("unlog") \/ SwitchedAway
    <3>1. \/ Becomes(<<Call("dispatch"), Leave(irq[curr_task])>> \o Rest)
          \/ Becomes(<<Call("log"), Leave(irq[curr_task])>> \o Rest)
      BY <2>7 DEF HandsOver, SwitchedAway, Enter
    <3>2. /\ \/ stack'[curr_task] = <<Call("dispatch"), Leave(irq[curr_task])>> \o Rest
             \/ stack'[curr_task] = <<Call("log"), Leave(irq[curr_task])>> \o Rest
          /\ \A t \in Task \ {curr_task} : stack'[t] = stack[t]
      BY <3>1, BecomesFacts
    <3>3. HasPc(stack'[curr_task], P) <=> HasPc(Rest, P)
      <4>1. Rest \in Seq(Frame) /\ irq[curr_task] \in BOOLEAN
        BY <2>1
      <4>2. "dispatch" \notin P /\ "leave" \notin P /\ "log" \notin P
        BY <1>0
      <4>3. /\ HasPc(<<Call("dispatch"), Leave(irq[curr_task])>> \o Rest, P) <=> HasPc(Rest, P)
            /\ HasPc(<<Call("log"), Leave(irq[curr_task])>> \o Rest, P) <=> HasPc(Rest, P)
        BY <4>1, <4>2, EnterPcs
      <4> QED BY <3>2, <4>3
    <3>4. stack[curr_task][1].pc \notin P
      BY <1>0, <2>7 DEF HandsOver, SwitchedAway
    <3> QED BY <2>1, <3>2, <3>3, <3>4
  <2> QED BY <1>1, <2>3, <2>4, <2>5, <2>6, <2>7 DEF StackMotion, Called
<1>2. CASE stack[curr_task] = <<>> /\ ~Tick
  <2>1. CASE SameStack
    BY <2>1 DEF SameStack
  <2>2. CASE Called
    <3> DEFINE u == <<Call("unlog")>> \o <<>>
    <3>1. PICK fs \in {Enter(<<>>), u, Enter(u)} : Becomes(fs)
      BY <2>2 DEF Called
    <3>2. /\ stack'[curr_task] = fs /\ irq[curr_task] \in BOOLEAN
          /\ \A t \in Task \ {curr_task} : stack'[t] = stack[t]
      BY <3>1, BecomesFacts
    <3>3. <<>> \in Seq(Frame) /\ Call("unlog") \in Frame /\ Call("unlog").pc = "unlog" /\ ~HasPc(<<>>, P)
      BY FrameType, HasPcEmpty DEF Pcs
    <3>4. u \in Seq(Frame) /\ ~HasPc(u, P)
      <4>1. u \in Seq(Frame)
        BY <3>3, PushIndex
      <4>2. Len(u) = 1 /\ u[1] = Call("unlog")
        BY <3>3
      <4> HIDE DEF u
      <4>3. HasPc(u, P) <=> "unlog" \in P
        BY <3>3, <4>2 DEF HasPc
      <4> QED BY <1>0, <4>1, <4>3
    <3> HIDE DEF u
    <3>5. ~HasPc(Enter(<<>>), P) /\ ~HasPc(Enter(u), P)
      BY <1>0, <3>2, <3>3, <3>4, EnterPcs DEF Enter
    <3>6. ~HasPc(stack'[curr_task], P) /\ ~HasPc(stack[curr_task], P)
      BY <1>2, <3>1, <3>2, <3>3, <3>4, <3>5
    <3> QED BY <3>2, <3>6
  <2> QED BY <1>2, <2>1, <2>2
       DEF StackMotion, Popped, Turned, LogWaits, HandsOver, SwitchedAway
<1>3. CASE Tick
  <2>1. "rotate" \notin P => P \subseteq InitPcs
    OBVIOUS
  <2> QED BY <1>3, <2>1, TickPcs
<1> QED BY <1>1, <1>2, <1>3

\* task_init's steps leave the rotation of an expired slice.
LEMMA InitRotate ==
    ASSUME IInv, InitMotion
    PROVE  \A t \in Task : HasPc(stack[t], {"rotate"}) => HasPc(stack'[t], {"rotate"})
<1> DEFINE P == {"rotate"}
<1>1. CASE stack[curr_task] # <<>>
  <2>1. /\ curr_task \in Task /\ Rest \in Seq(Frame) /\ irq[curr_task] \in BOOLEAN
        /\ HasPc(stack[curr_task], P) <=> stack[curr_task][1].pc \in P \/ HasPc(Rest, P)
    BY <1>1, RestFacts
  <2>2. /\ stack[curr_task][1].pc \notin P
        /\ \/ Becomes(Rest) \/ Becomes(<<Call("log")>> \o Rest)
           \/ Becomes(<<Call("dispatch"), Leave(irq[curr_task])>> \o Rest)
    <3>1. CASE Turned("tss_set", "log")
      BY <3>1 DEF Turned
    <3>2. CASE HandsOver("gdt_unlock")
      BY <3>2 DEF HandsOver, Enter
    <3>3. CASE stack[curr_task][1].pc \in InitPcs /\ Becomes(Rest)
      BY <3>3 DEF InitPcs
    <3> QED BY <1>1, <3>1, <3>2, <3>3 DEF InitMotion
  <2>3. HasPc(<<Call("log")>> \o Rest, P) <=> HasPc(Rest, P)
    BY <2>1, FrameType, HasPcPush DEF Pcs
  <2>4. HasPc(<<Call("dispatch"), Leave(irq[curr_task])>> \o Rest, P) <=> HasPc(Rest, P)
    <3>1. Rest \in Seq(Frame) /\ irq[curr_task] \in BOOLEAN /\ "dispatch" \notin P /\ "leave" \notin P
      BY <2>1
    <3> HIDE DEF P
    <3> QED BY <3>1, EnterPcs
  <2>5. /\ \/ stack'[curr_task] = Rest \/ stack'[curr_task] = <<Call("log")>> \o Rest
           \/ stack'[curr_task] = <<Call("dispatch"), Leave(irq[curr_task])>> \o Rest
        /\ \A t \in Task \ {curr_task} : stack'[t] = stack[t]
    BY <2>2, BecomesFacts
  <2>6. HasPc(stack[curr_task], P) => HasPc(stack'[curr_task], P)
    BY <2>1, <2>2, <2>3, <2>4, <2>5
  <2> QED BY <2>5, <2>6
<1>2. CASE stack[curr_task] = <<>>
  <2>1. \A t \in Task \ {curr_task} : stack'[t] = stack[t]
    BY <1>2, BecomesFacts DEF InitMotion, Turned, HandsOver
  <2>2. ~HasPc(stack[curr_task], P)
    BY <1>2, HasPcEmpty
  <2> QED BY <2>1, <2>2
<1> QED BY <1>1, <1>2

\* The frames of a tick that used the slice up.
LEMMA ExpiredRotates == HasPc(TickCalls(TRUE), {"rotate"})
BY DEF TickCalls, HasPc, Call, Iret

LEMMA SliceNext == ASSUME IInv, IdleWaitInv, SliceRunning, [Next]_vars PROVE SliceRunning'
<1>0. /\ TASK_TIME_SLICE_DEFAULT \in Nat /\ TASK_TIME_SLICE_DEFAULT # 0
      /\ slice_ticks \in [Task -> Int] /\ curr_task \in Task
  BY TaskAssumption DEF IInv, TypeOK, TaskTypeOK
<1>1. \A t \in Task : /\ slice_ticks[t] \in 0..TASK_TIME_SLICE_DEFAULT
                      /\ slice_ticks[t] = 0 => HasPc(stack[t], {"rotate"})
  BY DEF SliceRunning, HasPc
<1>2. SUFFICES \A t \in Task : /\ slice_ticks'[t] \in 0..TASK_TIME_SLICE_DEFAULT
                               /\ slice_ticks'[t] = 0 => HasPc(stack'[t], {"rotate"})
  BY DEF SliceRunning, HasPc
<1>3. CASE UNCHANGED vars
  BY <1>1, <1>3 DEF vars, taskVars, fieldVars
<1>4. CASE Tick
  <2>1. irq[curr_task] /\ slice_ticks' = [slice_ticks EXCEPT ![curr_task] = @ - 1]
    BY <1>4 DEF Tick, time_tick
  <2>2. ~HasPc(stack[curr_task], {"rotate"})
    BY <1>0, <2>1 DEF IInv, StackInv, Shape, ShapeIrq, HasPc, OpenPcs
  <2>3. slice_ticks[curr_task] \in 1..TASK_TIME_SLICE_DEFAULT
    BY <1>0, <1>1, <2>2
  <2>4. /\ \A t \in Task \ {curr_task} : stack'[t] = stack[t] /\ slice_ticks'[t] = slice_ticks[t]
        /\ slice_ticks'[curr_task] = slice_ticks[curr_task] - 1
    BY <1>0, <1>4, <2>1, TickPcs
  <2>5. slice_ticks[curr_task] - 1 = 0 => HasPc(stack'[curr_task], {"rotate"})
    BY <1>4, TickPcs, ExpiredRotates
  <2> QED BY <1>0, <1>1, <2>3, <2>4, <2>5
<1>5. CASE tick_rotate
  <2>1. Becomes(Rest) /\ slice_ticks' = [slice_ticks EXCEPT ![curr_task] = TASK_TIME_SLICE_DEFAULT]
    BY <1>5 DEF tick_rotate, Continue, Becomes
  <2>2. \A t \in Task \ {curr_task} : stack'[t] = stack[t]
    BY <2>1, BecomesFacts
  <2> QED BY <1>0, <1>1, <2>1, <2>2
<1>6. CASE InitStep
  <2>1. \A t \in Task : HasPc(stack[t], {"rotate"}) => HasPc(stack'[t], {"rotate"})
    BY <1>6, InitStack, InitRotate
  <2>2. \/ UNCHANGED slice_ticks
        \/ slice_ticks' = [slice_ticks EXCEPT ![new_task[curr_task]] = TASK_TIME_SLICE_DEFAULT]
    BY <1>6 DEF InitStep, gdt_alloc_desc, gdt_release, tss_init, task_init_end, task_init, mutexFrame,
                fieldVars
  <2> QED BY <1>0, <1>1, <2>1, <2>2
<1>7. CASE Next /\ ~InitStep /\ ~Tick /\ ~tick_rotate
  <2>1. \A t \in Task : HasPc(stack[t], {"rotate"}) => HasPc(stack'[t], {"rotate"})
    <3>1. StackMotion
      BY <1>7, NextStack
    <3> QED BY <1>7, <3>1, PcsKept
  <2>2. UNCHANGED slice_ticks
    <3>1. CASE Running
      BY <1>7, <3>1 DEF Running, TaskStep, InitStep, LogStart, LogEnd, task_dispatch,
         irq_leave_protection, tick_scan, tick_walk, mutexFrame, fieldVars
    <3>2. CASE ClientCall
      BY <1>7, <3>2 DEF ClientCall, InitStep, Sti, irq_enable_global, ClientLog, ClientLock, ClientUnlock,
         sys_sched_yield, sys_sleep, sem_wait, sem_notify, mutexFrame, semFrame, fieldVars
    <3> QED BY <1>7, <3>1, <3>2 DEF Next
  <2> QED BY <1>1, <2>1, <2>2
<1> QED BY <1>3, <1>4, <1>5, <1>6, <1>7

\* A slice counter never passes 0: it stands at 0 only in a task that was suspended in its
\* own tick handler before the reset, so that the next decrement is never the one of
\* task_time_tick on a counter already at 0.
THEOREM SliceRunningAlways == Spec => []SliceRunning
<1>1. KernelInit => IdleWaitInv /\ SliceRunning
  <2> SUFFICES ASSUME KernelInit PROVE IdleWaitInv /\ SliceRunning
    OBVIOUS
  <2>1. IdleWaitInv
    BY MutexIds, TaskAssumption DEF KernelInit, MutexInit, IdleWaitInv, Task
  <2>2. SliceRunning
    BY TaskAssumption DEF KernelInit, TaskInit, SliceRunning
  <2> QED BY <2>1, <2>2
<1>2. IInv /\ IdleWaitInv /\ [Next]_vars => IdleWaitInv'
  BY IdleWaitNext
<1>3. IInv /\ IdleWaitInv /\ SliceRunning /\ [Next]_vars => SliceRunning'
  BY SliceNext
<1> QED BY <1>1, <1>2, <1>3, KernelInvariant, PTL DEF Spec

-----------------------------------------------------------------------------
(* How deep a stack can get.  A frame is pushed on what its function was   *)
(* called from, so each kind of frame has a bound on the frames below it.  *)

\* Frames of code that runs with interrupts off.
ShutPcs == {"leave", "iret", "dispatch", "rotate", "scan", "walk"}

\* A frame of this kind may be on top of the frames below.
FrameFits(pc, below) ==
    LET n == Len(below)
    IN  /\ n <= 12
        /\ pc = "task_ready" => n = 0
        /\ pc = "tss_set" => n = 1 /\ below[1].pc = "task_ready"
        /\ pc = "gdt_unlock" => n = 2 /\ below[1].pc = "tss_set"
        /\ pc = "gdt_scan" => n = 3 /\ below[1].pc = "gdt_unlock"
        /\ pc = "iret" => n <= 4
        /\ pc \in {"scan", "walk"} => n <= 6
        /\ pc = "dispatch" => n <= 7
        /\ pc = "rotate" => n <= 8
        /\ pc \in {"log", "unlog"} => /\ n <= 9 \/ HasPc(below, {"unlog"})
                                      /\ n <= 1 \/ HasPc(below, ShutPcs)

Under(fs, i) == SubSeq(fs, i + 1, Len(fs))

Deep(fs) == \A i \in 1..Len(fs) : FrameFits(fs[i].pc, Under(fs, i))

\* The one frame above its bound is a dispatch that will not switch, or that was pushed
\* by a log_printf which has to wait.
DueDispatch(t) ==
    /\ t = curr_task /\ TopIn(t, {"dispatch"})
    /\ Len(stack[t]) <= 12 /\ Deep(Tail(stack[t]))
    /\ HasPc(stack[t], {"unlog"}) \/ curr_task = task_next_run

DepthInv == \A t \in Task : Deep(stack[t]) \/ DueDispatch(t)

\* Two stacks with the same frames are the same.
LEMMA SameFrames ==
    ASSUME NEW fs \in Seq(Frame), NEW gs \in Seq(Frame), Len(fs) = Len(gs),
           \A i \in 1..Len(fs) : fs[i] = gs[i]
    PROVE  fs = gs
OBVIOUS

\* What is under the frames of a stack, the first one apart.
LEMMA UnderTop ==
    ASSUME NEW fs \in Seq(Frame), fs # <<>>
    PROVE  /\ Under(fs, 1) = Tail(fs)
           /\ \A i \in 1..Len(Tail(fs)) : Under(fs, i + 1) = Under(Tail(fs), i)
<1>1. /\ Tail(fs) \in Seq(Frame)
      /\ Len(fs) \in Nat /\ Len(fs) > 0
      /\ Len(Tail(fs)) = Len(fs) - 1
      /\ \A i \in 1..Len(Tail(fs)) : Tail(fs)[i] = fs[i + 1]
  BY PopIndex
<1>2. Under(fs, 1) = Tail(fs)
  BY <1>1 DEF Under
<1>3. ASSUME NEW i \in 1..Len(Tail(fs)) PROVE Under(fs, i + 1) = Under(Tail(fs), i)
  <2> DEFINE n == Len(fs)
             ts == Tail(fs)
             a == Under(fs, i + 1)
             b == Under(ts, i)
  <2>1. i \in Nat /\ n \in Nat /\ Len(ts) = n - 1 /\ i <= n - 1 /\ i >= 1 /\ (i + 1) + 1 = i + 2
    BY <1>1
  <2>2. fs \in Seq(Frame) /\ ts \in Seq(Frame) /\ \A k \in 1..(n - 1) : ts[k] = fs[k + 1]
    BY <1>1
  <2>3. a = SubSeq(fs, i + 2, n) /\ b = SubSeq(ts, i + 1, n - 1)
    BY <2>1 DEF Under
  <2> HIDE DEF n, ts, a, b
  <2>4. /\ SubSeq(fs, i + 2, n) \in Seq(Frame) /\ Len(SubSeq(fs, i + 2, n)) = n - 1 - i
        /\ \A j \in 1..(n - 1 - i) : SubSeq(fs, i + 2, n)[j] = fs[i + 1 + j]
    BY <2>1, <2>2 DEF n
  <2>5. /\ SubSeq(ts, i + 1, n - 1) \in Seq(Frame) /\ Len(SubSeq(ts, i + 1, n - 1)) = n - 1 - i
        /\ \A j \in 1..(n - 1 - i) : SubSeq(ts, i + 1, n - 1)[j] = ts[i + j]
    BY <2>1, <2>2
  <2>6. \A j \in 1..(n - 1 - i) : i + j \in 1..(n - 1) /\ (i + j) + 1 = i + 1 + j
    BY <2>1
  <2>7. /\ a \in Seq(Frame) /\ b \in Seq(Frame) /\ Len(a) = Len(b) /\ Len(a) = n - 1 - i
        /\ \A j \in 1..(n - 1 - i) : a[j] = b[j]
    <3>1. ASSUME NEW j \in 1..(n - 1 - i) PROVE a[j] = b[j]
      <4>1. a[j] = fs[i + 1 + j] /\ b[j] = ts[i + j]
        BY <2>3, <2>4, <2>5, <3>1
      <4>2. ts[i + j] = fs[i + 1 + j]
        BY <2>2, <2>6, <3>1
      <4> QED BY <4>1, <4>2
    <3> QED BY <2>3, <2>4, <2>5, <3>1
  <2>8. a = b
    <3>1. \A j \in 1..Len(a) : a[j] = b[j]
      BY <2>7
    <3> QED BY <2>7, <3>1, SameFrames
  <2> QED BY <2>8 DEF a, b, ts
<1> QED BY <1>2, <1>3

\* A pop leaves every frame where it was.
LEMMA DeepPop ==
    ASSUME NEW fs \in Seq(Frame), fs # <<>>
    PROVE  Deep(fs) <=> FrameFits(fs[1].pc, Tail(fs)) /\ Deep(Tail(fs))
<1>1. /\ Len(fs) \in Nat /\ Len(fs) > 0
      /\ Len(Tail(fs)) = Len(fs) - 1
      /\ \A i \in 1..Len(Tail(fs)) : Tail(fs)[i] = fs[i + 1]
  BY PopIndex
<1>2. /\ Under(fs, 1) = Tail(fs)
      /\ \A i \in 1..Len(Tail(fs)) : Under(fs, i + 1) = Under(Tail(fs), i)
  BY UnderTop
<1>3. ASSUME Deep(fs) PROVE FrameFits(fs[1].pc, Tail(fs)) /\ Deep(Tail(fs))
  <2>1. FrameFits(fs[1].pc, Tail(fs))
    <3>1. 1 \in 1..Len(fs)
      BY <1>1
    <3>2. FrameFits(fs[1].pc, Under(fs, 1))
      BY <1>3, <3>1 DEF Deep
    <3> QED BY <1>2, <3>2
  <2>2. ASSUME NEW i \in 1..Len(Tail(fs)) PROVE FrameFits(Tail(fs)[i].pc, Under(Tail(fs), i))
    <3>1. i + 1 \in 1..Len(fs)
      BY <1>1
    <3>2. FrameFits(fs[i + 1].pc, Under(fs, i + 1))
      BY <1>3, <3>1 DEF Deep
    <3> QED BY <1>1, <1>2, <3>2
  <2> QED BY <2>1, <2>2 DEF Deep
<1>4. ASSUME FrameFits(fs[1].pc, Tail(fs)), Deep(Tail(fs)) PROVE Deep(fs)
  <2>1. ASSUME NEW i \in 1..Len(fs) PROVE FrameFits(fs[i].pc, Under(fs, i))
    <3>1. CASE i = 1
      BY <1>2, <1>4, <3>1
    <3>2. CASE i # 1
      <4>1. i - 1 \in 1..Len(Tail(fs)) /\ (i - 1) + 1 = i
        BY <1>1, <3>2
      <4>2. FrameFits(Tail(fs)[i - 1].pc, Under(Tail(fs), i - 1))
        BY <1>4, <4>1 DEF Deep
      <4>3. Tail(fs)[i - 1] = fs[i] /\ Under(Tail(fs), i - 1) = Under(fs, i)
        BY <1>1, <1>2, <4>1
      <4> QED BY <4>2, <4>3
    <3> QED BY <3>1, <3>2
  <2> QED BY <2>1 DEF Deep
<1> QED BY <1>3, <1>4

\* A push on a stack that is within its bounds.
LEMMA DeepPush ==
    ASSUME NEW fs \in Seq(Frame), Deep(fs), NEW f \in Frame, FrameFits(f.pc, fs)
    PROVE  Deep(<<f>> \o fs) /\ <<f>> \o fs \in Seq(Frame) /\ Len(<<f>> \o fs) = Len(fs) + 1
<1> DEFINE r == <<f>> \o fs
<1>1. r \in Seq(Frame) /\ r # <<>> /\ r[1] = f /\ Tail(r) = fs /\ Len(r) = Len(fs) + 1
  BY PushIndex
<1> HIDE DEF r
<1>2. Deep(r)
  BY <1>1, DeepPop
<1> QED BY <1>1, <1>2 DEF r

\* Frames pushed at once, and pushed one by one.
LEMMA PushTwo ==
    ASSUME NEW fs \in Seq(Frame), NEW a \in Frame, NEW b \in Frame
    PROVE  <<a, b>> \o fs = <<a>> \o (<<b>> \o fs)
<1> DEFINE p == <<b>> \o fs
           q == <<a>> \o p
           r == <<a, b>> \o fs
<1>1. /\ p \in Seq(Frame) /\ Len(fs) \in Nat /\ Len(p) = Len(fs) + 1 /\ p[1] = b
      /\ \A i \in 2..Len(p) : p[i] = fs[i - 1]
  BY PushIndex
<1> HIDE DEF p
<1>2. /\ q \in Seq(Frame) /\ Len(q) = Len(p) + 1 /\ q[1] = a
      /\ \A i \in 2..Len(q) : q[i] = p[i - 1]
  BY <1>1, PushIndex
<1>3. /\ r \in Seq(Frame) /\ Len(r) = Len(fs) + 2 /\ r[1] = a /\ r[2] = b
      /\ \A i \in 3..Len(r) : r[i] = fs[i - 2]
  BY PushTwoIndex
<1> HIDE DEF q, r
<1>4. ASSUME NEW i \in 1..Len(r) PROVE r[i] = q[i]
  <2>1. CASE i = 1 \/ i = 2
    BY <1>1, <1>2, <1>3, <2>1
  <2>2. CASE i # 1 /\ i # 2
    <3>1. i \in 3..Len(r) /\ i \in 2..Len(q) /\ i - 1 \in 2..Len(p) /\ (i - 1) - 1 = i - 2
      BY <1>1, <1>2, <1>3, <2>2
    <3> QED BY <1>1, <1>2, <1>3, <3>1
  <2> QED BY <2>1, <2>2
<1>5. Len(r) = Len(q)
  BY <1>1, <1>2, <1>3
<1>6. r = q
  BY <1>2, <1>3, <1>4, <1>5, SameFrames
<1> QED BY <1>6 DEF p, q, r

LEMMA PushThree ==
    ASSUME NEW fs \in Seq(Frame), NEW a \in Frame, NEW b \in Frame, NEW c \in Frame
    PROVE  <<a, b, c>> \o fs = <<a, b>> \o (<<c>> \o fs)
OBVIOUS

\* irq_enter_protection and a dispatch on top of a stack.
LEMMA DeepEnter ==
    ASSUME NEW fs \in Seq(Frame), Deep(fs), Len(fs) <= 11, NEW b \in BOOLEAN
    PROVE  LET r == <<Call("dispatch"), Leave(b)>> \o fs
           IN  /\ r # <<>> /\ r[1].pc = "dispatch" /\ Len(r) = Len(fs) + 2
               /\ Deep(Tail(r))
               /\ HasPc(r, {"unlog"}) <=> HasPc(fs, {"unlog"})
               /\ Len(fs) <= 6 => Deep(r)
<1> DEFINE p == <<Leave(b)>> \o fs
           q == <<Call("dispatch")>> \o p
           r == <<Call("dispatch"), Leave(b)>> \o fs
<1>1. /\ Leave(b) \in Frame /\ Leave(b).pc = "leave"
      /\ Call("dispatch") \in Frame /\ Call("dispatch").pc = "dispatch"
      /\ Len(fs) \in Nat
  BY FrameType DEF Pcs
<1>2. FrameFits(Leave(b).pc, fs)
  BY <1>1 DEF FrameFits
<1>3. Deep(p) /\ p \in Seq(Frame) /\ Len(p) = Len(fs) + 1
  BY <1>1, <1>2, DeepPush
<1>4. r = q
  BY <1>1, PushTwo
<1>5. HasPc(r, {"unlog"}) <=> HasPc(fs, {"unlog"})
  <2> DEFINE P == {"unlog"}
  <2>1. "dispatch" \notin P /\ "leave" \notin P
    OBVIOUS
  <2> HIDE DEF P
  <2>2. HasPc(r, P) <=> HasPc(fs, P)
    BY <2>1, EnterPcs
  <2> QED BY <2>2 DEF P
<1> HIDE DEF p, r
<1>6. /\ q \in Seq(Frame) /\ q # <<>> /\ q[1] = Call("dispatch") /\ Len(q) = Len(p) + 1
      /\ Tail(q) = p
  BY <1>1, <1>3, PushIndex
<1>7. Len(fs) <= 6 => FrameFits(Call("dispatch").pc, p)
  BY <1>1, <1>3 DEF FrameFits
<1>8. Len(fs) <= 6 => Deep(q)
  BY <1>1, <1>3, <1>7, DeepPush
<1> HIDE DEF q
<1>9. /\ r # <<>> /\ r[1].pc = "dispatch" /\ Len(r) = Len(fs) + 2
      /\ Deep(Tail(r)) /\ (Len(fs) <= 6 => Deep(r))
  <2>1. q # <<>> /\ q[1].pc = "dispatch" /\ Len(q) = Len(fs) + 2
    BY <1>1, <1>3, <1>6
  <2>2. Deep(Tail(q))
    BY <1>3, <1>6
  <2> QED BY <1>4, <1>8, <2>1, <2>2
<1> QED BY <1>5, <1>9 DEF r

\* A task switched away from.
LEMMA DeepAway ==
    ASSUME NEW fs \in Seq(Frame), Deep(fs), Len(fs) <= 11, NEW b \in BOOLEAN,
           Len(fs) <= 8 \/ HasPc(fs, {"unlog"})
    PROVE  Deep(<<Call("log"), Leave(b)>> \o fs)
<1> DEFINE p == <<Leave(b)>> \o fs
<1>1. /\ Leave(b) \in Frame /\ Leave(b).pc = "leave"
      /\ Call("log") \in Frame /\ Call("log").pc = "log"
      /\ Len(fs) \in Nat
  BY FrameType DEF Pcs
<1>2. FrameFits(Leave(b).pc, fs)
  BY <1>1 DEF FrameFits
<1>3. Deep(p) /\ p \in Seq(Frame) /\ Len(p) = Len(fs) + 1
  BY <1>1, <1>2, DeepPush
<1>4. HasPc(p, {"unlog"}) <=> HasPc(fs, {"unlog"})
  BY <1>1, HasPcPush
<1>5. HasPc(p, ShutPcs)
  <2>1. "leave" \in ShutPcs
    BY DEF ShutPcs
  <2> QED BY <1>1, <2>1, HasPcPush
<1>6. <<Call("log"), Leave(b)>> \o fs = <<Call("log")>> \o p
  BY <1>1, PushTwo
<1> HIDE DEF p
<1>7. FrameFits("log", p)
  BY <1>1, <1>3, <1>4, <1>5 DEF FrameFits
<1> QED BY <1>1, <1>3, <1>6, <1>7, DeepPush

\* A stack whose frames may all run with IF set holds at most one call chain of task_init.
LEMMA DeepOpen ==
    ASSUME NEW fs \in Seq(Frame), Deep(fs), \A i \in 1..Len(fs) : fs[i].pc \in OpenPcs
    PROVE  Len(fs) <= 4
<1>1. CASE fs = <<>>
  BY <1>1
<1>2. CASE fs # <<>>
  <2>1. /\ Tail(fs) \in Seq(Frame) /\ Len(fs) \in Nat /\ Len(fs) > 0 /\ Len(Tail(fs)) = Len(fs) - 1
        /\ \A i \in 1..Len(Tail(fs)) : Tail(fs)[i] = fs[i + 1]
    BY <1>2, PopIndex
  <2>2. FrameFits(fs[1].pc, Tail(fs))
    BY <1>2, DeepPop
  <2>3. fs[1].pc \in OpenPcs
    BY <2>1
  <2>4. ~HasPc(Tail(fs), ShutPcs)
    <3>1. \A i \in 1..Len(Tail(fs)) : i + 1 \in 1..Len(fs)
      BY <2>1
    <3>2. \A i \in 1..Len(Tail(fs)) : Tail(fs)[i].pc \in OpenPcs
      BY <2>1, <3>1
    <3>3. \A pc \in OpenPcs : pc \notin ShutPcs
      BY DEF OpenPcs, ShutPcs
    <3> QED BY <3>2, <3>3 DEF HasPc
  <2> QED BY <2>1, <2>2, <2>3, <2>4 DEF FrameFits, OpenPcs
<1> QED BY <1>1, <1>2

\* The frames of a tick on a stack that runs with IF set.
LEMMA DeepTick ==
    ASSUME NEW fs \in Seq(Frame), Deep(fs), Len(fs) <= 4, NEW e \in BOOLEAN
    PROVE  Deep(TickCalls(e) \o fs)
<1> DEFINE f == Iret(TRUE)
           i1 == <<f>> \o fs
           d1 == <<Call("dispatch")>> \o i1
           s1 == <<Call("scan")>> \o d1
           d2 == <<Call("dispatch")>> \o s1
           r1 == <<Call("rotate")>> \o d2
           l1 == <<Call("log")>> \o r1
<1>0. f \in Frame /\ f.pc = "iret"
  BY DEF Iret, Frame, Pcs
<1> HIDE DEF f
<1>1. /\ f \in Frame /\ f.pc = "iret" /\ Len(fs) \in Nat
      /\ Call("dispatch") \in Frame /\ Call("dispatch").pc = "dispatch"
      /\ Call("scan") \in Frame /\ Call("scan").pc = "scan"
      /\ Call("rotate") \in Frame /\ Call("rotate").pc = "rotate"
      /\ Call("log") \in Frame /\ Call("log").pc = "log"
  BY <1>0, FrameType DEF Pcs
<1>2. Deep(i1) /\ i1 \in Seq(Frame) /\ Len(i1) = Len(fs) + 1
  <2>1. FrameFits(f.pc, fs)
    BY <1>1 DEF FrameFits
  <2> QED BY <1>1, <2>1, DeepPush
<1> HIDE DEF i1
<1>3. Deep(d1) /\ d1 \in Seq(Frame) /\ Len(d1) = Len(fs) + 2
  <2>1. FrameFits(Call("dispatch").pc, i1)
    BY <1>1, <1>2 DEF FrameFits
  <2> QED BY <1>1, <1>2, <2>1, DeepPush
<1> HIDE DEF d1
<1>4. Deep(s1) /\ s1 \in Seq(Frame) /\ Len(s1) = Len(fs) + 3
  <2>1. FrameFits(Call("scan").pc, d1)
    BY <1>1, <1>3 DEF FrameFits
  <2> QED BY <1>1, <1>3, <2>1, DeepPush
<1> HIDE DEF s1
<1>5. Deep(d2) /\ d2 \in Seq(Frame) /\ Len(d2) = Len(fs) + 4
  <2>1. FrameFits(Call("dispatch").pc, s1)
    BY <1>1, <1>4 DEF FrameFits
  <2> QED BY <1>1, <1>4, <2>1, DeepPush
<1> HIDE DEF d2
<1>6. Deep(r1) /\ r1 \in Seq(Frame) /\ Len(r1) = Len(fs) + 5
  <2>1. FrameFits(Call("rotate").pc, d2)
    BY <1>1, <1>5 DEF FrameFits
  <2> QED BY <1>1, <1>5, <2>1, DeepPush
<1>7. HasPc(r1, ShutPcs)
  <2>1. "rotate" \in ShutPcs
    BY DEF ShutPcs
  <2> QED BY <1>1, <1>5, <2>1, HasPcPush
<1> HIDE DEF r1
<1>8. Deep(l1)
  <2>1. FrameFits(Call("log").pc, r1)
    BY <1>1, <1>6, <1>7 DEF FrameFits
  <2> QED BY <1>1, <1>6, <2>1, DeepPush
<1> HIDE DEF l1
<1>9. CASE e = FALSE
  <2>1. TickCalls(e) = <<Call("scan"), Call("dispatch"), f>>
    BY <1>9 DEF TickCalls, f
  <2>2. TickCalls(e) \o fs = <<Call("scan"), Call("dispatch")>> \o i1
    BY <1>1, <2>1, PushThree DEF i1
  <2>3. <<Call("scan"), Call("dispatch")>> \o i1 = s1
    BY <1>1, <1>2, PushTwo DEF d1, s1
  <2> QED BY <1>4, <2>2, <2>3
<1>10. CASE e = TRUE
  <2>1. TickCalls(e) = <<Call("log"), Call("rotate"), Call("dispatch"), Call("scan"),
                         Call("dispatch"), f>>
    BY <1>10 DEF TickCalls, f
  <2>2. TickCalls(e) \o fs = <<Call("log"), Call("rotate"), Call("dispatch")>>
                             \o (<<Call("scan"), Call("dispatch"), f>> \o fs)
    <3>1. /\ Call("log") \in Frame /\ Call("rotate") \in Frame /\ Call("dispatch") \in Frame
          /\ Call("scan") \in Frame /\ f \in Frame
      BY <1>1
    <3>2. <<Call("log"), Call("rotate"), Call("dispatch"), Call("scan"), Call("dispatch"), f>> \o fs
             = <<Call("log"), Call("rotate"), Call("dispatch")>> \o (<<Call("scan"), Call("dispatch"), f>> \o fs)
      <4> DEFINE a == Call("log")
                 b == Call("rotate")
                 c == Call("dispatch")
                 d == Call("scan")
      <4>1. a \in Frame /\ b \in Frame /\ c \in Frame /\ d \in Frame /\ f \in Frame
        BY <3>1
      <4> HIDE DEF a, b, c, d
      <4>2. <<a, b, c, d, c, f>> \o fs = <<a, b, c>> \o (<<d, c, f>> \o fs)
        BY <4>1
      <4> QED BY <4>2 DEF a, b, c, d
    <3> QED BY <2>1, <3>2
  <2>3. <<Call("scan"), Call("dispatch"), f>> \o fs = <<Call("scan"), Call("dispatch")>> \o i1
    BY <1>1, PushThree DEF i1
  <2>4. <<Call("scan"), Call("dispatch")>> \o i1 = s1
    BY <1>1, <1>2, PushTwo DEF d1, s1
  <2>5. <<Call("log"), Call("rotate"), Call("dispatch")>> \o s1 = <<Call("log"), Call("rotate")>> \o d2
    BY <1>1, <1>4, PushThree DEF d2
  <2>6. <<Call("log"), Call("rotate")>> \o d2 = l1
    BY <1>1, <1>5, PushTwo DEF r1, l1
  <2> QED BY <1>8, <2>2, <2>3, <2>4, <2>5, <2>6
<1> QED BY <1>9, <1>10

\* The frames of task_init, and those of a call that finds its mutex taken.
LEMMA DeepInit == Deep(InitCalls) /\ InitCalls \in Seq(Frame) /\ Len(InitCalls) = 4
<1> DEFINE a == Call("gdt_scan")
           b == Call("gdt_unlock")
           c == Call("tss_set")
           d == Call("task_ready")
           fs == <<a, b, c, d>>
<1>1. /\ a \in Frame /\ a.pc = "gdt_scan" /\ b \in Frame /\ b.pc = "gdt_unlock"
      /\ c \in Frame /\ c.pc = "tss_set" /\ d \in Frame /\ d.pc = "task_ready"
  BY FrameType DEF Pcs
<1> HIDE DEF a, b, c, d
<1>2. fs \in Seq(Frame) /\ Len(fs) = 4 /\ fs[1] = a /\ fs[2] = b /\ fs[3] = c /\ fs[4] = d
  BY <1>1
<1> HIDE DEF fs
<1>3. /\ Len(Under(fs, 4)) = 0
      /\ Len(Under(fs, 3)) = 1 /\ Under(fs, 3)[1] = d
      /\ Len(Under(fs, 2)) = 2 /\ Under(fs, 2)[1] = c
      /\ Len(Under(fs, 1)) = 3 /\ Under(fs, 1)[1] = b
  BY <1>2 DEF Under
<1>4. /\ FrameFits(fs[4].pc, Under(fs, 4)) /\ FrameFits(fs[3].pc, Under(fs, 3))
      /\ FrameFits(fs[2].pc, Under(fs, 2)) /\ FrameFits(fs[1].pc, Under(fs, 1))
  <2>1. FrameFits("task_ready", Under(fs, 4))
    BY <1>3 DEF FrameFits
  <2>2. FrameFits("tss_set", Under(fs, 3))
    BY <1>1, <1>3 DEF FrameFits
  <2>3. FrameFits("gdt_unlock", Under(fs, 2))
    <3> DEFINE u == Under(fs, 2)
    <3>1. Len(u) = 2 /\ u[1].pc = "tss_set"
      BY <1>1, <1>3
    <3> HIDE DEF u
    <3>2. FrameFits("gdt_unlock", u)
      BY <3>1 DEF FrameFits
    <3> QED BY <3>2 DEF u
  <2>4. FrameFits("gdt_scan", Under(fs, 1))
    <3> DEFINE u == Under(fs, 1)
    <3>1. Len(u) = 3 /\ u[1].pc = "gdt_unlock"
      BY <1>1, <1>3
    <3> HIDE DEF u
    <3>2. FrameFits("gdt_scan", u)
      BY <3>1 DEF FrameFits
    <3> QED BY <3>2 DEF u
  <2> QED BY <1>1, <1>2, <2>1, <2>2, <2>3, <2>4
<1>5. Deep(fs)
  <2>1. \A i \in 1..Len(fs) : i = 1 \/ i = 2 \/ i = 3 \/ i = 4
    BY <1>2
  <2> QED BY <1>4, <2>1 DEF Deep
<1>6. InitCalls = fs
  BY DEF InitCalls, fs, a, b, c, d
<1> QED BY <1>2, <1>5, <1>6

\* The stacks that are not the current task's.
LEMMA DepthOthers ==
    ASSUME IInv, DepthInv, NEW c \in Task, c = curr_task,
           \A t \in Task \ {c} : stack'[t] = stack[t],
           Deep(stack'[c]) \/ DueDispatch(c)'
    PROVE  DepthInv'
<1>1. SUFFICES ASSUME NEW t \in Task PROVE Deep(stack'[t]) \/ DueDispatch(t)'
  BY DEF DepthInv
<1>2. CASE t = c
  BY <1>2
<1>3. CASE t # c
  BY <1>3 DEF DepthInv, DueDispatch
<1> QED BY <1>2, <1>3

\* What DepthInv says of the current task, whose first frame is about to be executed.
LEMMA DepthTop ==
    ASSUME IInv, DepthInv, stack[curr_task] # <<>>
    PROVE  /\ Deep(Rest) /\ Rest \in Seq(Frame)
           /\ Len(Rest) \in Nat /\ Len(stack[curr_task]) = Len(Rest) + 1
           /\ stack[curr_task][1].pc # "dispatch" => FrameFits(stack[curr_task][1].pc, Rest)
           /\ stack[curr_task][1].pc = "dispatch" =>
                 Len(Rest) <= 7 \/ (/\ Len(Rest) <= 11
                                    /\ HasPc(Rest, {"unlog"}) \/ curr_task = task_next_run)
<1>1. curr_task \in Task /\ stack[curr_task] \in Seq(Frame) /\ Rest \in Seq(Frame)
  BY RestFacts
<1>2. Len(Rest) \in Nat /\ Len(stack[curr_task]) = Len(Rest) + 1
  BY <1>1, PopIndex DEF Rest
<1>3. CASE Deep(stack[curr_task])
  <2>1. Deep(Rest) /\ FrameFits(stack[curr_task][1].pc, Rest)
    BY <1>1, <1>3, DeepPop DEF Rest
  <2>2. stack[curr_task][1].pc = "dispatch" => Len(Rest) <= 7
    BY <2>1 DEF FrameFits
  <2> QED BY <1>1, <1>2, <2>1, <2>2
<1>4. CASE DueDispatch(curr_task)
  <2>1. /\ stack[curr_task][1].pc = "dispatch" /\ Len(stack[curr_task]) <= 12 /\ Deep(Rest)
        /\ HasPc(stack[curr_task], {"unlog"}) \/ curr_task = task_next_run
    BY <1>4 DEF DueDispatch, TopIn, Rest
  <2>2. HasPc(stack[curr_task], {"unlog"}) <=> stack[curr_task][1].pc \in {"unlog"} \/ HasPc(Rest, {"unlog"})
    BY RestFacts
  <2> QED BY <1>1, <1>2, <2>1, <2>2
<1> QED BY <1>1, <1>3, <1>4 DEF DepthInv

\* A frame replaced by one that fits wherever it did.
LEMMA DepthTurned ==
    ASSUME IInv, DepthInv, NEW p \in Pcs, NEW q \in Pcs, p # "dispatch", Turned(p, q),
           \A fs : FrameFits(p, fs) => FrameFits(q, fs)
    PROVE  DepthInv'
<1>0. PICK c \in Task : c = curr_task
  BY DEF IInv, TypeOK, TaskTypeOK
<1>1. /\ stack'[c] = <<Call(q)>> \o Rest /\ \A t \in Task \ {c} : stack'[t] = stack[t]
      /\ stack[curr_task] # <<>> /\ stack[curr_task][1].pc = p
  BY <1>0, BecomesFacts DEF Turned
<1>2. Deep(Rest) /\ Rest \in Seq(Frame) /\ FrameFits(q, Rest)
  BY <1>1, DepthTop
<1>3. Call(q) \in Frame /\ Call(q).pc = q
  BY FrameType
<1>4. Deep(<<Call(q)>> \o Rest)
  BY <1>2, <1>3, DeepPush
<1> QED BY <1>0, <1>1, <1>4, DepthOthers

\* A step that is not one of task_init's.
LEMMA DepthMotion == ASSUME IInv, DepthInv, StackMotion PROVE DepthInv'
<1>0. PICK c \in Task : c = curr_task
  BY DEF IInv, TypeOK, TaskTypeOK
<1>1. CASE stack[curr_task] # <<>> /\ ~Tick
  <2>1. /\ Deep(Rest) /\ Rest \in Seq(Frame)
        /\ Len(Rest) \in Nat /\ Len(stack[curr_task]) = Len(Rest) + 1
        /\ stack[curr_task][1].pc # "dispatch" => FrameFits(stack[curr_task][1].pc, Rest)
        /\ stack[curr_task][1].pc = "dispatch" =>
              Len(Rest) <= 7 \/ (/\ Len(Rest) <= 11
                                 /\ HasPc(Rest, {"unlog"}) \/ curr_task = task_next_run)
    BY <1>1, DepthTop
  <2>2. irq[c] \in BOOLEAN
    BY DEF IInv, TypeOK, TaskTypeOK
  <2>3. CASE SameStack
    <3>1. Deep(stack[c])
      BY <1>0, <2>3 DEF SameStack, DepthInv, DueDispatch
    <3> QED BY <1>0, <2>3, <3>1, DepthOthers DEF SameStack
  <2>4. CASE Popped
    <3>1. stack'[c] = Rest /\ \A t \in Task \ {c} : stack'[t] = stack[t]
      BY <1>0, <2>4, BecomesFacts DEF Popped
    <3> QED BY <1>0, <2>1, <3>1, DepthOthers
  <2>5. CASE Turned("log", "unlog")
    <3>1. \A fs : FrameFits("log", fs) => FrameFits("unlog", fs)
      BY DEF FrameFits
    <3> QED BY <2>5, <3>1, DepthTurned DEF Pcs
  <2>6. CASE LogWaits
    <3> DEFINE u == <<Call("unlog")>> \o Rest
               r == <<Call("dispatch"), Leave(irq[c])>> \o u
    <3>1. /\ stack'[c] = r /\ \A t \in Task \ {c} : stack'[t] = stack[t]
          /\ stack[curr_task][1].pc = "log" /\ ~HasPc(Rest, {"unlog"}) /\ curr_task' = c
      BY <1>0, <2>6, BecomesFacts DEF LogWaits, Enter
    <3>2. FrameFits("log", Rest)
      BY <2>1, <3>1
    <3>3. FrameFits("unlog", Rest) /\ Len(Rest) <= 9
      BY <3>1, <3>2 DEF FrameFits
    <3>4. Call("unlog") \in Frame /\ Call("unlog").pc = "unlog"
      BY FrameType DEF Pcs
    <3>5. Deep(u) /\ u \in Seq(Frame) /\ Len(u) = Len(Rest) + 1
      BY <2>1, <3>3, <3>4, DeepPush
    <3>6. HasPc(u, {"unlog"})
      BY <2>1, <3>4, HasPcPush
    <3> HIDE DEF u
    <3>7. /\ r # <<>> /\ r[1].pc = "dispatch" /\ Len(r) = Len(u) + 2
          /\ Deep(Tail(r)) /\ HasPc(r, {"unlog"})
      BY <2>1, <2>2, <3>3, <3>5, <3>6, DeepEnter
    <3>8. Len(r) <= 12
      BY <2>1, <3>3, <3>5, <3>7
    <3> HIDE DEF r
    <3>9. DueDispatch(c)'
      BY <3>1, <3>7, <3>8 DEF DueDispatch, TopIn
    <3> QED BY <1>0, <3>1, <3>9, DepthOthers
  <2>7. CASE HandsOver("unlog") /\ ~HasPc(Rest, {"unlog"})
    <3> DEFINE r == <<Call("dispatch"), Leave(irq[c])>> \o Rest
    <3>1. /\ stack'[c] = r /\ \A t \in Task \ {c} : stack'[t] = stack[t]
          /\ stack[curr_task][1].pc = "unlog"
          /\ curr_task' = c /\ curr_task' = task_next_run'
      BY <1>0, <2>7, BecomesFacts DEF HandsOver, Enter
    <3>2. FrameFits("unlog", Rest)
      BY <2>1, <3>1
    <3>3. Len(Rest) <= 9
      BY <2>7, <3>2 DEF FrameFits
    <3>4. /\ r # <<>> /\ r[1].pc = "dispatch" /\ Len(r) = Len(Rest) + 2 /\ Deep(Tail(r))
      BY <2>1, <2>2, <3>3, DeepEnter
    <3>5. Len(r) <= 12
      BY <2>1, <3>3, <3>4
    <3> HIDE DEF r
    <3>6. DueDispatch(c)'
      BY <3>1, <3>4, <3>5 DEF DueDispatch, TopIn
    <3> QED BY <1>0, <3>1, <3>6, DepthOthers
  <2>8. CASE SwitchedAway
    <3>1. /\ stack'[c] = <<Call("log"), Leave(irq[c])>> \o Rest
          /\ \A t \in Task \ {c} : stack'[t] = stack[t]
          /\ stack[curr_task][1].pc = "dispatch" /\ task_next_run # curr_task
      BY <1>0, <2>8, BecomesFacts DEF SwitchedAway
    <3>2. Len(Rest) <= 11 /\ (Len(Rest) <= 8 \/ HasPc(Rest, {"unlog"}))
      BY <2>1, <3>1
    <3>3. Deep(<<Call("log"), Leave(irq[c])>> \o Rest)
      BY <2>1, <2>2, <3>2, DeepAway
    <3> QED BY <1>0, <3>1, <3>3, DepthOthers
  <2>9. CASE Turned("scan", "walk")
    <3>1. \A fs : FrameFits("scan", fs) => FrameFits("walk", fs)
      BY DEF FrameFits
    <3> QED BY <2>9, <3>1, DepthTurned DEF Pcs
  <2> QED BY <1>1, <2>3, <2>4, <2>5, <2>6, <2>7, <2>8, <2>9 DEF StackMotion, Called
<1>2. CASE stack[curr_task] = <<>> /\ ~Tick
  <2>1. irq[c] \in BOOLEAN
    BY DEF IInv, TypeOK, TaskTypeOK
  <2>2. CASE SameStack
    <3>1. Deep(stack[c])
      BY <1>0, <2>2 DEF SameStack, DepthInv, DueDispatch
    <3> QED BY <1>0, <2>2, <3>1, DepthOthers DEF SameStack
  <2>3. CASE Called
    <3> DEFINE u == <<Call("unlog")>> \o <<>>
               e == <<Call("dispatch"), Leave(irq[c])>> \o <<>>
               v == <<Call("dispatch"), Leave(irq[c])>> \o u
    <3>1. /\ stack'[c] = e \/ stack'[c] = u \/ stack'[c] = v
          /\ \A t \in Task \ {c} : stack'[t] = stack[t]
      BY <1>0, <2>3, BecomesFacts DEF Called, Enter
    <3>2. Deep(<<>>) /\ <<>> \in Seq(Frame) /\ Len(<<>>) = 0
      BY DEF Deep
    <3>3. FrameFits("unlog", <<>>)
      BY <3>2 DEF FrameFits
    <3>4. Call("unlog") \in Frame /\ Call("unlog").pc = "unlog"
      BY FrameType DEF Pcs
    <3>5. Deep(u) /\ u \in Seq(Frame) /\ Len(u) = Len(<<>>) + 1
      BY <3>2, <3>3, <3>4, DeepPush
    <3> HIDE DEF u
    <3>6. Len(u) <= 6 /\ Len(u) <= 11
      BY <3>2, <3>5
    <3>7. Deep(v)
      BY <2>1, <3>5, <3>6, DeepEnter
    <3>8. Deep(e)
      <4> DEFINE z == <<>>
      <4>1. Deep(z) /\ z \in Seq(Frame) /\ Len(z) <= 6 /\ Len(z) <= 11
        BY <3>2
      <4>2. e = <<Call("dispatch"), Leave(irq[c])>> \o z
        OBVIOUS
      <4> HIDE DEF z
      <4> QED BY <2>1, <4>1, <4>2, DeepEnter
    <3> HIDE DEF v, e
    <3> QED BY <1>0, <3>1, <3>5, <3>7, <3>8, DepthOthers
  <2> QED BY <1>2, <2>2, <2>3
       DEF StackMotion, Popped, Turned, LogWaits, HandsOver, SwitchedAway
<1>3. CASE Tick
  <2> DEFINE e == slice_ticks[curr_task] - 1 = 0
  <2>1. /\ stack[c] \in Seq(Frame) /\ \A t \in Task \ {c} : stack'[t] = stack[t]
        /\ stack'[c] = TickCalls(e) \o stack[c]
    BY <1>0, <1>3, TickPcs
  <2>2. irq[c]
    BY <1>0, <1>3 DEF Tick, time_tick
  <2>3. \A i \in 1..Len(stack[c]) : stack[c][i].pc \in OpenPcs
    BY <2>2 DEF IInv, StackInv, Shape, ShapeIrq
  <2>4. Deep(stack[c])
    <3>1. ~TopIn(c, {"dispatch"})
      <4>1. stack[c] # <<>> => 1 \in 1..Len(stack[c])
        BY <2>1
      <4> QED BY <2>3, <4>1 DEF TopIn, OpenPcs
    <3> QED BY <3>1 DEF DepthInv, DueDispatch
  <2>5. Len(stack[c]) <= 4
    BY <2>1, <2>3, <2>4, DeepOpen
  <2>6. e \in BOOLEAN
    OBVIOUS
  <2> HIDE DEF e
  <2>7. Deep(TickCalls(e) \o stack[c])
    BY <2>1, <2>4, <2>5, <2>6, DeepTick
  <2> QED BY <1>0, <2>1, <2>7, DepthOthers
<1> QED BY <1>1, <1>2, <1>3

\* A step of task_init.
LEMMA DepthInitMotion == ASSUME IInv, DepthInv, InitMotion PROVE DepthInv'
<1>0. PICK c \in Task : c = curr_task
  BY DEF IInv, TypeOK, TaskTypeOK
<1>1. irq[c] \in BOOLEAN
  BY DEF IInv, TypeOK, TaskTypeOK
<1>2. CASE stack[curr_task] # <<>>
  <2>1. /\ Deep(Rest) /\ Rest \in Seq(Frame)
        /\ stack[curr_task][1].pc # "dispatch" => FrameFits(stack[curr_task][1].pc, Rest)
    BY <1>2, DepthTop
  <2>2. CASE Turned("tss_set", "log")
    <3>1. ASSUME NEW fs, FrameFits("tss_set", fs) PROVE FrameFits("log", fs)
      <4>1. Len(fs) = 1
        BY <3>1 DEF FrameFits
      <4> QED BY <4>1 DEF FrameFits
    <3> QED BY <2>2, <3>1, DepthTurned DEF Pcs
  <2>3. CASE HandsOver("gdt_unlock")
    <3>1. /\ stack'[c] = <<Call("dispatch"), Leave(irq[c])>> \o Rest
          /\ \A t \in Task \ {c} : stack'[t] = stack[t]
          /\ stack[curr_task][1].pc = "gdt_unlock"
      BY <1>0, <2>3, BecomesFacts DEF HandsOver, Enter
    <3>2. FrameFits("gdt_unlock", Rest)
      BY <2>1, <3>1
    <3>3. Len(Rest) = 2
      BY <3>2 DEF FrameFits
    <3>4. Deep(<<Call("dispatch"), Leave(irq[c])>> \o Rest)
      <4>1. Len(Rest) <= 6 /\ Len(Rest) <= 11
        BY <3>3
      <4> QED BY <1>1, <2>1, <4>1, DeepEnter
    <3> QED BY <1>0, <3>1, <3>4, DepthOthers
  <2>4. CASE Becomes(Rest)
    <3>1. stack'[c] = Rest /\ \A t \in Task \ {c} : stack'[t] = stack[t]
      BY <1>0, <2>4, BecomesFacts
    <3> QED BY <1>0, <2>1, <3>1, DepthOthers
  <2> QED BY <1>2, <2>2, <2>3, <2>4 DEF InitMotion
<1>3. CASE stack[curr_task] = <<>>
  <2> DEFINE e == <<Call("dispatch"), Leave(irq[c])>> \o InitCalls
  <2>1. /\ stack'[c] = InitCalls \/ stack'[c] = e
        /\ \A t \in Task \ {c} : stack'[t] = stack[t]
    BY <1>0, <1>3, BecomesFacts DEF InitMotion, Turned, HandsOver, Enter
  <2>2. Deep(InitCalls) /\ InitCalls \in Seq(Frame) /\ Len(InitCalls) <= 6 /\ Len(InitCalls) <= 11
    BY DeepInit
  <2>3. Deep(e)
    BY <1>1, <2>2, DeepEnter
  <2> HIDE DEF e
  <2> QED BY <1>0, <2>1, <2>2, <2>3, DepthOthers
<1> QED BY <1>2, <1>3

LEMMA DepthNext == ASSUME IInv, IdleWaitInv, DepthInv, [Next]_vars PROVE DepthInv'
<1>1. CASE InitStep
  BY <1>1, InitStack, DepthInitMotion
<1>2. CASE Next /\ ~InitStep
  BY <1>2, NextStack, DepthMotion
<1>3. CASE UNCHANGED vars
  BY <1>3 DEF vars, taskVars, listVars, DepthInv, DueDispatch, TopIn, task_next_run
<1> QED BY <1>1, <1>2, <1>3

LEMMA InitDepth == ASSUME KernelInit PROVE IdleWaitInv /\ DepthInv
<1>1. IdleWaitInv
  BY MutexIds, TaskAssumption DEF KernelInit, MutexInit, IdleWaitInv, Task
<1>2. DepthInv
  BY DEF KernelInit, TaskInit, DepthInv, Deep
<1> QED BY <1>1, <1>2

\* IdleWaitInv and DepthInv are inductive relative to IInv.
THEOREM DepthInvariant == Spec => [](IdleWaitInv /\ DepthInv)
<1>1. KernelInit => IdleWaitInv /\ DepthInv
  BY InitDepth
<1>2. IInv /\ IdleWaitInv /\ DepthInv /\ [Next]_vars => IdleWaitInv' /\ DepthInv'
  BY IdleWaitNext, DepthNext
<1> QED BY <1>1, <1>2, KernelInvariant, PTL DEF Spec

\* No task ever has more than 13 calls open, whatever the number of tasks and whatever
\* they call: log_printf blocks inside task_dispatch, which logs when the task is
\* switched back to, and a tick may come on top, but the nesting ends there.
THEOREM StackBoundedAlways == Spec => []StackBounded
<1>1. IInv /\ DepthInv => StackBounded
  <2>1. SUFFICES ASSUME IInv, DepthInv, NEW t \in Task PROVE Len(stack[t]) <= 13
    BY DEF StackBounded
  <2>2. stack[t] \in Seq(Frame)
    BY <2>1 DEF IInv, TypeOK, TaskTypeOK
  <2>3. CASE stack[t] = <<>>
    BY <2>3
  <2>4. CASE stack[t] # <<>> /\ Deep(stack[t])
    <3>1. FrameFits(stack[t][1].pc, Tail(stack[t]))
      BY <2>2, <2>4, DeepPop
    <3>2. Len(stack[t]) \in Nat /\ Len(Tail(stack[t])) = Len(stack[t]) - 1
      BY <2>2, <2>4, PopIndex
    <3>3. Len(Tail(stack[t])) <= 12
      BY <3>1 DEF FrameFits
    <3> QED BY <3>2, <3>3
  <2>5. CASE DueDispatch(t)
    <3>1. Len(stack[t]) <= 12 /\ Len(stack[t]) \in Nat
      BY <2>2, <2>5 DEF DueDispatch
    <3> QED BY <3>1
  <2> QED BY <2>1, <2>3, <2>4, <2>5 DEF DepthInv
<1> QED BY <1>1, KernelInvariant, DepthInvariant, PTL

-----------------------------------------------------------------------------
(* Every switch lands, if only one task creates tasks and the GDT has an   *)
(* entry for each.                                                         *)

\* tss_init fills the entry in after gdt_mutex is released: two creators may find the
\* same one.
OneCreator == \A u, v \in Creators : u = v

EnoughEntries == IsFiniteSet(Task) /\ Cardinality(Task) <= GDT_TABLE_SIZE - 3

\* Frames of task_init before the new task's entry is filled in.
EarlyPcs == {"gdt_scan", "gdt_unlock", "tss_set"}

\* The selectors and the entries they name agree, and who has a selector is created or
\* being created.
GdtEntries ==
    /\ idle_task \in Nodes(task_list)
    /\ \A t \in Task : tss_sel[t] # 0 => SwitchLands(t)
    /\ \A i \in TssSlot : gdt_table[i] # None => tss_sel[gdt_table[i]] = i
    /\ \A t \in Nodes(task_list) : tss_sel[t] # 0
    /\ \A t \in Task : tss_sel[t] # 0 => t \in Nodes(task_list) \/ \E u \in Task : new_task[u] = t

\* How far task_init has come, read off the stack of its caller.
Creating(u) ==
    /\ new_task[u] # None => u \in Creators /\ HasPc(stack[u], {"task_ready"})
    /\ HasPc(stack[u], EarlyPcs) => tss_sel[new_task[u]] = 0
    /\ HasPc(stack[u], {"task_ready"}) /\ ~HasPc(stack[u], EarlyPcs) => tss_sel[new_task[u]] # 0
    /\ HasPc(stack[u], {"gdt_unlock", "tss_set"}) /\ ~HasPc(stack[u], {"gdt_scan"}) =>
          new_sel[u] # 0 /\ gdt_table[new_sel[u]] = None

GdtInv == ~halted /\ GdtEntries /\ \A u \in Task : Creating(u)

\* What the state has for the proofs below.
LEMMA GdtTypes ==
    ASSUME IInv
    PROVE  /\ curr_task \in Task /\ None \notin Task /\ idle_task \in Task
           /\ task_list \in Seq(Task) /\ Nodes(task_list) \subseteq Task
           /\ tss_sel \in [Task -> {0} \cup TssSlot] /\ gdt_table \in [TssSlot -> Task \cup {None}]
           /\ new_task \in [Task -> Task \cup {None}] /\ new_sel \in [Task -> {0} \cup TssSlot]
           /\ 0 \notin TssSlot
<1>1. task_list \in Seq(Task) /\ Nodes(task_list) \subseteq Task
  BY NodesType DEF IInv, TypeOK, TaskTypeOK
<1>2. new_task \in [Task -> Task \cup {None}]
  BY DEF IInv, TypeOK, Task
<1>3. 0 \notin TssSlot
  BY TaskAssumption DEF TssSlot
<1>4. curr_task \in Task /\ None \notin Task /\ idle_task \in Task
  BY TaskAssumption DEF IInv, TypeOK, TaskTypeOK, Task
<1> QED BY <1>1, <1>2, <1>3, <1>4 DEF IInv, TypeOK, TaskTypeOK

\* A step that is not one of task_init's touches neither the GDT nor task_init's locals.
LEMMA GdtFrame ==
    ASSUME IInv, Next, ~InitStep
    PROVE  UNCHANGED <<tss_sel, gdt_table, new_task, new_sel, task_list>>
<1> USE DEF gdtVars, initVars, listVars, mutexFrame
<1>1. CASE Running
  BY <1>1 DEF Running, TaskStep, InitStep, LogStart, LogEnd, task_dispatch,
              irq_leave_protection, tick_rotate, tick_scan, tick_walk
<1>2. CASE Tick
  BY <1>2 DEF Tick, time_tick
<1>3. CASE ClientCall
  BY <1>3 DEF ClientCall, InitStep, Sti, irq_enable_global, ClientLog, ClientLock, ClientUnlock,
              sys_sched_yield, sys_sleep, sem_wait, sem_notify, semFrame
<1> QED BY <1>1, <1>2, <1>3 DEF Next

\* A switch to a created task lands.
LEMMA LandsNext ==
    ASSUME IInv, GdtInv, Next
    PROVE  ~halted'
<1>1. ListMotion
  BY NextMotion
<1>2. CASE Switched
  <2>1. task_next_run \in Nodes(task_list)
    <3>1. CASE list_count(ready_list) = 0
      BY <3>1 DEF task_next_run, GdtInv, GdtEntries
    <3>2. CASE list_count(ready_list) # 0
      <4>1. ready_list \in Seq(Task) /\ ready_list # <<>>
        BY <3>2 DEF IInv, TypeOK, TaskTypeOK, list_count
      <4>2. Head(ready_list) \in Nodes(ready_list)
        BY <4>1, RemoveFirst
      <4>3. task_next_run = Head(ready_list)
        BY <3>2, <4>1 DEF task_next_run, list_first
      <4> QED BY <4>2, <4>3 DEF IInv, LinkInv, Linkable
    <3> QED BY <3>1, <3>2
  <2>2. SwitchLands(task_next_run)
    BY <2>1, GdtTypes DEF GdtInv, GdtEntries
  <2> QED BY <1>2, <2>2 DEF Switched
<1>3. CASE ~Switched
  BY <1>1, <1>3 DEF ListMotion, GdtInv, Still, Requeued, BeginsToWait, Served, Counted, Created, Slept
<1> QED BY <1>2, <1>3

\* The steps that are not task_init's.
LEMMA GdtOther ==
    ASSUME IInv, IdleWaitInv, GdtInv, Next, ~InitStep
    PROVE  GdtInv'
<1>1. UNCHANGED <<tss_sel, gdt_table, new_task, new_sel, task_list>> /\ ~halted'
  BY GdtFrame, LandsNext
<1>2. StackMotion
  BY NextStack
<1>3. ASSUME NEW P, P \subseteq InitPcs
      PROVE  \A u \in Task : HasPc(stack'[u], P) <=> HasPc(stack[u], P)
  <2>1. P \subseteq InitPcs \cup {"rotate"} /\ "rotate" \notin P
    BY <1>3 DEF InitPcs
  <2> QED BY <1>2, <2>1, PcsKept
<1>4. \A u \in Task : /\ HasPc(stack'[u], {"task_ready"}) <=> HasPc(stack[u], {"task_ready"})
                      /\ HasPc(stack'[u], EarlyPcs) <=> HasPc(stack[u], EarlyPcs)
                      /\ HasPc(stack'[u], {"gdt_scan"}) <=> HasPc(stack[u], {"gdt_scan"})
                      /\ HasPc(stack'[u], {"gdt_unlock", "tss_set"}) <=>
                            HasPc(stack[u], {"gdt_unlock", "tss_set"})
  <2>1. \A u \in Task : HasPc(stack'[u], {"task_ready"}) <=> HasPc(stack[u], {"task_ready"})
    BY <1>3 DEF InitPcs
  <2>2. \A u \in Task : HasPc(stack'[u], EarlyPcs) <=> HasPc(stack[u], EarlyPcs)
    <3>1. EarlyPcs \subseteq InitPcs
      BY DEF EarlyPcs, InitPcs
    <3> QED BY <1>3, <3>1
  <2>3. \A u \in Task : HasPc(stack'[u], {"gdt_scan"}) <=> HasPc(stack[u], {"gdt_scan"})
    BY <1>3 DEF InitPcs
  <2>4. \A u \in Task : HasPc(stack'[u], {"gdt_unlock", "tss_set"}) <=>
                        HasPc(stack[u], {"gdt_unlock", "tss_set"})
    BY <1>3 DEF InitPcs
  <2> QED BY <2>1, <2>2, <2>3, <2>4
<1>5. GdtEntries'
  BY <1>1 DEF GdtInv, GdtEntries, SwitchLands
<1>6. \A u \in Task : Creating(u)'
  BY <1>1, <1>4 DEF GdtInv, Creating
<1> QED BY <1>1, <1>5, <1>6 DEF GdtInv

\* The frames of task_init below the one that is executed.
LEMMA InitTop ==
    ASSUME IInv, DepthInv, stack[curr_task] # <<>>, stack[curr_task][1].pc \in InitPcs
    PROVE  /\ new_task[curr_task] \in Task
           /\ stack[curr_task][1].pc \in {"gdt_scan", "gdt_unlock"} => HasPc(Rest, EarlyPcs)
           /\ stack[curr_task][1].pc = "tss_set" =>
                 ~HasPc(Rest, EarlyPcs) /\ ~HasPc(Rest, {"gdt_scan"})
           /\ stack[curr_task][1].pc = "task_ready" => Rest = <<>>
<1>1. /\ curr_task \in Task /\ stack[curr_task] \in Seq(Frame) /\ Rest \in Seq(Frame)
      /\ HasPc(stack[curr_task], InitPcs)
  BY RestFacts
<1>2. FrameFits(stack[curr_task][1].pc, Rest)
  BY DepthTop DEF InitPcs
<1>3. new_task[curr_task] \in Task
  BY <1>1, GdtTypes DEF IInv, InitInv
<1>4. CASE stack[curr_task][1].pc \in {"gdt_scan", "gdt_unlock"}
  <2>1. Len(Rest) > 0 /\ Rest[1].pc \in EarlyPcs
    BY <1>2, <1>4 DEF FrameFits, EarlyPcs
  <2>2. 1 \in 1..Len(Rest)
    BY <1>1, <2>1
  <2>3. HasPc(Rest, EarlyPcs)
    BY <2>1, <2>2 DEF HasPc
  <2> QED BY <1>3, <1>4, <2>3
<1>5. CASE stack[curr_task][1].pc = "tss_set"
  <2>1. Len(Rest) = 1 /\ Rest[1].pc = "task_ready"
    BY <1>2, <1>5 DEF FrameFits
  <2>2. ~HasPc(Rest, EarlyPcs) /\ ~HasPc(Rest, {"gdt_scan"})
    BY <2>1 DEF HasPc, EarlyPcs
  <2> QED BY <1>3, <1>5, <2>2
<1>6. CASE stack[curr_task][1].pc = "task_ready"
  <2>1. Len(Rest) = 0
    BY <1>2, <1>6 DEF FrameFits
  <2>2. Rest = <<>>
    BY <1>1, <2>1
  <2> QED BY <1>3, <1>6, <2>2
<1> QED BY <1>4, <1>5, <1>6 DEF InitPcs

\* A task that a step of another task does not touch.
LEMMA CreatingKept ==
    ASSUME NEW u \in Task, Creating(u), stack'[u] = stack[u], new_task'[u] = new_task[u],
           new_sel'[u] = new_sel[u], UNCHANGED gdtVars
    PROVE  Creating(u)'
BY DEF Creating, gdtVars

\* task_init begins.
LEMMA GdtBegins ==
    ASSUME IInv, GdtInv, ~halted', NEW t \in OtherTasks, task_init(t)
    PROVE  GdtInv'
<1>0. PICK c \in Task : c = curr_task
  BY GdtTypes
<1>1. /\ AtBase /\ c \in Creators /\ Uncreated(t) /\ mutex_lock(gdt_mutex, InitCalls)
      /\ new_task' = [new_task EXCEPT ![c] = t]
      /\ UNCHANGED <<task_list, gdtVars, new_sel>>
  BY <1>0 DEF task_init, InitCalls, mutexFrame
<1>2. t \in Task /\ t # None
  BY GdtTypes DEF Task
<1>3. new_task[c] = None
  <2>1. ~HasPc(stack[c], {"task_ready"})
    BY <1>0, <1>1, BaseFacts
  <2> QED BY <2>1 DEF GdtInv, Creating
<1>4. tss_sel[t] = 0
  BY <1>1, <1>2 DEF Uncreated, GdtInv, GdtEntries
<1>5. GdtEntries'
  <2>1. new_task'[c] = t /\ \A u \in Task \ {c} : new_task'[u] = new_task[u]
    BY <1>1, GdtTypes
  <2>2. \A x \in Task : (\E u \in Task : new_task[u] = x) => \E u \in Task : new_task'[u] = x
    <3>1. \A x \in Task : x # None
      BY GdtTypes
    <3> QED BY <1>3, <2>1, <3>1
  <2> QED BY <1>1, <2>2 DEF GdtInv, GdtEntries, SwitchLands, gdtVars
<1>6. /\ \A u \in Task \ {c} : stack'[u] = stack[u]
      /\ \E r \in Seq(Frame) : stack'[c] = r \o InitCalls /\ ~HasPc(r, InitPcs)
  <2>1. Becomes(InitCalls) \/ Becomes(Enter(InitCalls))
    BY <1>1, LockStack, MutexIds
  <2>2. CASE Becomes(InitCalls)
    <3>1. stack'[c] = InitCalls /\ \A u \in Task \ {c} : stack'[u] = stack[u]
      BY <1>0, <2>2, BecomesFacts
    <3>2. <<>> \in Seq(Frame) /\ InitCalls = <<>> \o InitCalls /\ ~HasPc(<<>>, InitPcs)
      BY DeepInit, HasPcEmpty
    <3> QED BY <3>1, <3>2
  <2>3. CASE Becomes(Enter(InitCalls))
    <3> DEFINE r == <<Call("dispatch"), Leave(irq[c])>>
    <3>1. stack'[c] = r \o InitCalls /\ \A u \in Task \ {c} : stack'[u] = stack[u]
      BY <1>0, <2>3, BecomesFacts DEF Enter
    <3>2. irq[c] \in BOOLEAN
      BY DEF IInv, TypeOK, TaskTypeOK
    <3>3. /\ Call("dispatch") \in Frame /\ Call("dispatch").pc = "dispatch"
          /\ Leave(irq[c]) \in Frame /\ Leave(irq[c]).pc = "leave"
      BY <3>2, FrameType DEF Pcs
    <3>4. r \in Seq(Frame) /\ ~HasPc(r, InitPcs)
      BY <3>3 DEF HasPc, InitPcs
    <3> HIDE DEF r
    <3> QED BY <3>1, <3>4
  <2> QED BY <2>1, <2>2, <2>3
<1>7. /\ HasPc(stack'[c], {"task_ready"}) /\ HasPc(stack'[c], EarlyPcs)
      /\ HasPc(stack'[c], {"gdt_scan"})
  <2>1. InitCalls \in Seq(Frame) /\ Len(InitCalls) = 4
    BY DeepInit
  <2>2. InitCalls[1].pc = "gdt_scan" /\ InitCalls[4].pc = "task_ready"
    BY DEF InitCalls, Call
  <2>3. /\ HasPc(InitCalls, {"task_ready"}) /\ HasPc(InitCalls, EarlyPcs)
        /\ HasPc(InitCalls, {"gdt_scan"})
    BY <2>1, <2>2 DEF HasPc, EarlyPcs
  <2>4. PICK r \in Seq(Frame) : stack'[c] = r \o InitCalls
    BY <1>6
  <2>5. \A P : HasPc(InitCalls, P) => HasPc(r \o InitCalls, P)
    BY <2>1, HasPcConcat
  <2> QED BY <2>3, <2>4, <2>5
<1>8. Creating(c)'
  <2>1. new_task'[c] = t /\ tss_sel' = tss_sel
    BY <1>1, GdtTypes DEF gdtVars
  <2> QED BY <1>1, <1>4, <1>7, <2>1 DEF Creating
<1>9. ASSUME NEW u \in Task \ {c} PROVE Creating(u)'
  <2>1. Creating(u)
    BY <1>9 DEF GdtInv
  <2>2. stack'[u] = stack[u] /\ new_task'[u] = new_task[u] /\ new_sel'[u] = new_sel[u] /\ UNCHANGED gdtVars
    BY <1>1, <1>6, <1>9, GdtTypes
  <2> QED BY <2>1, <2>2, CreatingKept
<1> QED BY <1>5, <1>8, <1>9 DEF GdtInv

\* As many entries as tasks: while a task has none, an entry is free.
LEMMA FreeEntry ==
    ASSUME IInv, GdtEntries, EnoughEntries, NEW t \in Task, tss_sel[t] = 0
    PROVE  FreeSlot \in TssSlot /\ gdt_table[FreeSlot] = None
<1> DEFINE S == TssSlot
           T == Task \ {t}
<1>1. \E i \in TssSlot : gdt_table[i] = None
  <2>1. SUFFICES ASSUME \A i \in TssSlot : gdt_table[i] # None PROVE FALSE
    OBVIOUS
  <2>2. IsFiniteSet(S) /\ Cardinality(S) = GDT_TABLE_SIZE - 3
    <3>1. 3 \in Int /\ GDT_TABLE_SIZE - 1 \in Int /\ ~(3 > GDT_TABLE_SIZE - 1)
      BY TaskAssumption
    <3>2. Cardinality(S) = (GDT_TABLE_SIZE - 1) - 3 + 1 /\ IsFiniteSet(S)
      BY <3>1, FS_Interval DEF TssSlot
    <3> HIDE DEF S
    <3> QED BY <3>2, TaskAssumption
  <2>3. IsFiniteSet(T) /\ Cardinality(T) = Cardinality(Task) - 1 /\ Cardinality(Task) \in Nat
    BY FS_RemoveElement, FS_CardinalityType DEF EnoughEntries
  <2>4. gdt_table \in [S -> T]
    <3>1. \A i \in S : gdt_table[i] \in Task /\ gdt_table[i] # t
      <4>1. \A i \in S : gdt_table[i] \in Task /\ tss_sel[gdt_table[i]] = i /\ i # 0
        BY <2>1, GdtTypes DEF GdtEntries
      <4> QED BY <4>1
    <3> QED BY <3>1, GdtTypes
  <2>5. Cardinality(T) < Cardinality(S)
    <3> DEFINE a == Cardinality(T)
               b == Cardinality(S)
               n == Cardinality(Task)
    <3>1. a = n - 1 /\ b = GDT_TABLE_SIZE - 3 /\ n <= GDT_TABLE_SIZE - 3 /\ n \in Nat
      BY <2>2, <2>3 DEF EnoughEntries
    <3> HIDE DEF a, b, n
    <3>2. a < b
      BY <3>1, TaskAssumption
    <3> QED BY <3>2 DEF a, b
  <2> HIDE DEF S, T
  <2>6. PICK i \in S, j \in S : i # j /\ gdt_table[i] = gdt_table[j]
    BY <2>2, <2>3, <2>4, <2>5, FS_PigeonHole
  <2>7. i = tss_sel[gdt_table[i]] /\ j = tss_sel[gdt_table[j]]
    BY <2>1, <2>6 DEF GdtEntries, S
  <2> QED BY <2>6, <2>7
<1>2. gdt_table \in [TssSlot -> Task \cup {None}]
  BY GdtTypes
<1>3. FreeSlot # 0
  <2>1. \E i \in TssSlot : /\ gdt_table[i] = None
                           /\ \A j \in TssSlot : j < i => gdt_table[j] # None
    <3> DEFINE F == {i \in TssSlot : gdt_table[i] = None}
    <3>1. F \subseteq Nat /\ F # {}
      BY <1>1, TaskAssumption DEF TssSlot
    <3> HIDE DEF F
    <3>2. PICK i \in F : \A j \in F : ~(j < i)
      BY <3>1, LeastNat
    <3> QED BY <3>2 DEF F
  <2>2. FreeSlot \in TssSlot
    BY <1>1, <2>1 DEF FreeSlot
  <2> QED BY <2>2, GdtTypes
<1> QED BY <1>2, <1>3, FreeSlotType

\* gdt_alloc_desc finds an entry.
LEMMA GdtAllocs ==
    ASSUME IInv, DepthInv, GdtInv, EnoughEntries, ~halted', gdt_alloc_desc
    PROVE  GdtInv'
<1>0. PICK c \in Task : c = curr_task
  BY GdtTypes
<1>1. /\ At("gdt_scan") /\ Becomes(Rest) /\ new_sel' = [new_sel EXCEPT ![c] = FreeSlot]
      /\ UNCHANGED <<gdtVars, task_list, new_task>>
  BY <1>0 DEF gdt_alloc_desc, Continue, Becomes, listVars
<1>2. stack[curr_task] # <<>> /\ stack[curr_task][1].pc = "gdt_scan"
  BY <1>1, AtFacts
<1>3. /\ new_task[c] \in Task /\ HasPc(Rest, EarlyPcs)
      /\ \A P : HasPc(stack[c], P) <=> "gdt_scan" \in P \/ HasPc(Rest, P)
  BY <1>0, <1>2, InitTop, RestFacts DEF InitPcs
<1>4. HasPc(stack[c], EarlyPcs) /\ tss_sel[new_task[c]] = 0
  BY <1>3 DEF EarlyPcs, GdtInv, Creating
<1>5. FreeSlot \in TssSlot /\ gdt_table[FreeSlot] = None /\ FreeSlot # 0
  BY <1>3, <1>4, FreeEntry, GdtTypes DEF GdtInv
<1>6. stack'[c] = Rest /\ \A u \in Task \ {c} : stack'[u] = stack[u]
  BY <1>0, <1>1, BecomesFacts
<1>7. Creating(c)'
  <2>1. new_sel'[c] = FreeSlot /\ new_task' = new_task /\ tss_sel' = tss_sel /\ gdt_table' = gdt_table
    BY <1>1, GdtTypes DEF gdtVars
  <2>2. new_task[c] # None => c \in Creators /\ HasPc(Rest, {"task_ready"})
    BY <1>3 DEF GdtInv, Creating
  <2> QED BY <1>3, <1>4, <1>5, <1>6, <2>1, <2>2 DEF Creating
<1>8. ASSUME NEW u \in Task \ {c} PROVE Creating(u)'
  <2>1. Creating(u)
    BY <1>8 DEF GdtInv
  <2>2. stack'[u] = stack[u] /\ new_task'[u] = new_task[u] /\ new_sel'[u] = new_sel[u] /\ UNCHANGED gdtVars
    BY <1>1, <1>6, <1>8, GdtTypes
  <2> QED BY <2>1, <2>2, CreatingKept
<1>9. GdtEntries'
  BY <1>1 DEF GdtInv, GdtEntries, SwitchLands, gdtVars
<1> QED BY <1>7, <1>8, <1>9 DEF GdtInv

\* gdt_mutex is released before the entry is filled in.
LEMMA GdtReleases ==
    ASSUME IInv, DepthInv, GdtInv, ~halted', gdt_release
    PROVE  GdtInv'
<1>0. PICK c \in Task : c = curr_task
  BY GdtTypes
<1>1. /\ At("gdt_unlock") /\ UNCHANGED <<gdtVars, task_list, new_task, new_sel>>
  BY <1>0 DEF gdt_release, mutexFrame, initVars
<1>2. stack[curr_task] # <<>> /\ stack[curr_task][1].pc = "gdt_unlock"
  BY <1>1, AtFacts
<1>3. /\ new_task[c] \in Task /\ HasPc(Rest, EarlyPcs) /\ Rest \in Seq(Frame) /\ irq[c] \in BOOLEAN
      /\ \A P : HasPc(stack[c], P) <=> "gdt_unlock" \in P \/ HasPc(Rest, P)
  BY <1>0, <1>2, InitTop, RestFacts DEF InitPcs
<1>4. /\ \A u \in Task \ {c} : stack'[u] = stack[u]
      /\ stack'[c] = Rest \/ stack'[c] = <<Call("dispatch"), Leave(irq[c])>> \o Rest
  <2>1. InitMotion
    BY InitStack DEF InitStep
  <2>2. Becomes(Rest) \/ Becomes(Enter(Rest))
    BY <1>2, <2>1 DEF InitMotion, Turned, HandsOver
  <2> QED BY <1>0, <2>2, BecomesFacts DEF Enter
<1>5. ASSUME NEW P, P \subseteq InitPcs PROVE HasPc(stack'[c], P) <=> HasPc(Rest, P)
  <2>1. "dispatch" \notin P /\ "leave" \notin P
    BY <1>5 DEF InitPcs
  <2>2. HasPc(<<Call("dispatch"), Leave(irq[c])>> \o Rest, P) <=> HasPc(Rest, P)
    BY <1>3, <2>1, EnterPcs
  <2> QED BY <1>4, <2>2
<1>6. /\ HasPc(stack'[c], {"task_ready"}) <=> HasPc(Rest, {"task_ready"})
      /\ HasPc(stack'[c], EarlyPcs) <=> HasPc(Rest, EarlyPcs)
      /\ HasPc(stack'[c], {"gdt_scan"}) <=> HasPc(Rest, {"gdt_scan"})
  <2>1. {"task_ready"} \subseteq InitPcs /\ EarlyPcs \subseteq InitPcs /\ {"gdt_scan"} \subseteq InitPcs
    BY DEF InitPcs, EarlyPcs
  <2> QED BY <1>5, <2>1
<1>7. Creating(c)'
  <2>1. Creating(c)
    BY DEF GdtInv
  <2>2. new_task[c] # None => c \in Creators /\ HasPc(Rest, {"task_ready"})
    BY <1>3, <2>1 DEF Creating
  <2>3. tss_sel[new_task[c]] = 0
    BY <1>3, <2>1 DEF Creating, EarlyPcs
  <2>4. ~HasPc(Rest, {"gdt_scan"}) => new_sel[c] # 0 /\ gdt_table[new_sel[c]] = None
    BY <1>3, <2>1 DEF Creating
  <2> QED BY <1>1, <1>3, <1>6, <2>2, <2>3, <2>4 DEF Creating, gdtVars
<1>8. ASSUME NEW u \in Task \ {c} PROVE Creating(u)'
  <2>1. Creating(u)
    BY <1>8 DEF GdtInv
  <2>2. stack'[u] = stack[u] /\ new_task'[u] = new_task[u] /\ new_sel'[u] = new_sel[u] /\ UNCHANGED gdtVars
    BY <1>1, <1>4, <1>8
  <2> QED BY <2>1, <2>2, CreatingKept
<1>9. GdtEntries'
  BY <1>1 DEF GdtInv, GdtEntries, SwitchLands, gdtVars
<1> QED BY <1>7, <1>8, <1>9 DEF GdtInv

\* tss_init fills in the entry, which is still free: nobody else looks for one.
LEMMA GdtFills ==
    ASSUME IInv, DepthInv, GdtInv, OneCreator, ~halted', tss_init
    PROVE  GdtInv'
<1>0. PICK c \in Task : c = curr_task
  BY GdtTypes
<1> DEFINE n == new_task[c]
           s == new_sel[c]
<1>1. At("tss_set") /\ UNCHANGED <<task_list, new_task, new_sel>>
  BY DEF tss_init, listVars, initVars
<1>2. stack[curr_task] # <<>> /\ stack[curr_task][1].pc = "tss_set"
  BY <1>1, AtFacts
<1>3. /\ n \in Task /\ ~HasPc(Rest, EarlyPcs) /\ ~HasPc(Rest, {"gdt_scan"})
      /\ \A P : HasPc(stack[c], P) <=> "tss_set" \in P \/ HasPc(Rest, P)
  BY <1>0, <1>2, InitTop, RestFacts DEF InitPcs
<1>4. Creating(c) /\ GdtEntries
  BY DEF GdtInv
<1>5. s # 0 /\ s \in TssSlot /\ gdt_table[s] = None /\ tss_sel[n] = 0
  <2>1. s # 0 /\ gdt_table[s] = None
    BY <1>3, <1>4 DEF Creating
  <2>2. tss_sel[n] = 0
    BY <1>3, <1>4 DEF Creating, EarlyPcs
  <2> QED BY <2>1, <2>2, GdtTypes
<1>6. c \in Creators /\ HasPc(Rest, {"task_ready"})
  BY <1>3, <1>4, GdtTypes DEF Creating
<1>7. /\ gdt_table' = [gdt_table EXCEPT ![s] = n]
      /\ tss_sel' = [tss_sel EXCEPT ![n] = s]
      /\ Becomes(Rest)
  BY <1>0, <1>5 DEF tss_init, Continue, Becomes
<1>8. stack'[c] = Rest /\ \A u \in Task \ {c} : stack'[u] = stack[u]
  BY <1>0, <1>7, BecomesFacts
<1>9. /\ tss_sel'[n] = s /\ \A t \in Task \ {n} : tss_sel'[t] = tss_sel[t]
      /\ gdt_table'[s] = n /\ \A i \in TssSlot \ {s} : gdt_table'[i] = gdt_table[i]
  BY <1>3, <1>5, <1>7, GdtTypes
<1> HIDE DEF n, s
<1>10. GdtEntries'
  <2>1. ASSUME NEW t \in Task, tss_sel'[t] # 0 PROVE SwitchLands(t)'
    <3>1. CASE t = n
      BY <1>5, <1>9, <3>1 DEF SwitchLands
    <3>2. CASE t # n
      <4>1. tss_sel[t] \in TssSlot /\ gdt_table[tss_sel[t]] = t
        BY <1>4, <1>9, <2>1, <3>2 DEF GdtEntries, SwitchLands
      <4>2. tss_sel[t] # s
        BY <1>5, <4>1, GdtTypes
      <4> QED BY <1>9, <3>2, <4>1, <4>2 DEF SwitchLands
    <3> QED BY <3>1, <3>2
  <2>2. ASSUME NEW i \in TssSlot, gdt_table'[i] # None PROVE tss_sel'[gdt_table'[i]] = i
    <3>1. CASE i = s
      BY <1>9, <3>1
    <3>2. CASE i # s
      <4>1. gdt_table'[i] = gdt_table[i] /\ gdt_table[i] \in Task /\ tss_sel[gdt_table[i]] = i
        BY <1>4, <1>9, <2>2, <3>2, GdtTypes DEF GdtEntries
      <4>2. gdt_table[i] # n
        BY <1>5, <4>1, GdtTypes
      <4> QED BY <1>9, <4>1, <4>2
    <3> QED BY <3>1, <3>2
  <2>3. ASSUME NEW t \in Nodes(task_list) PROVE tss_sel'[t] # 0
    BY <1>4, <1>5, <1>9, <2>3, GdtTypes DEF GdtEntries
  <2>4. ASSUME NEW t \in Task, tss_sel'[t] # 0
        PROVE  t \in Nodes(task_list) \/ \E u \in Task : new_task[u] = t
    BY <1>4, <1>9, <2>4 DEF GdtEntries, n
  <2>5. idle_task \in Nodes(task_list)
    BY <1>4 DEF GdtEntries
  <2> QED BY <1>1, <2>1, <2>2, <2>3, <2>4, <2>5 DEF GdtEntries
<1>11. Creating(c)'
  <2>1. ~HasPc(Rest, {"gdt_unlock", "tss_set"})
    BY <1>3 DEF HasPc, EarlyPcs
  <2>2. tss_sel'[new_task[c]] # 0
    BY <1>5, <1>9 DEF n
  <2> QED BY <1>1, <1>3, <1>6, <1>8, <2>1, <2>2 DEF Creating
<1>12. ASSUME NEW u \in Task \ {c} PROVE Creating(u)'
  <2>1. Creating(u) /\ stack'[u] = stack[u]
    BY <1>8, <1>12 DEF GdtInv
  <2>2. new_task[u] = None
    BY <1>6, <1>12, <2>1 DEF Creating, OneCreator
  <2>3. ~HasPc(stack[u], InitPcs)
    BY <1>12, <2>2 DEF IInv, InitInv
  <2>4. /\ ~HasPc(stack[u], {"task_ready"}) /\ ~HasPc(stack[u], EarlyPcs)
        /\ ~HasPc(stack[u], {"gdt_unlock", "tss_set"})
    BY <2>3 DEF HasPc, InitPcs, EarlyPcs
  <2> QED BY <1>1, <2>1, <2>2, <2>4 DEF Creating
<1> QED BY <1>10, <1>11, <1>12 DEF GdtInv

\* The new task is linked.
LEMMA GdtLinks ==
    ASSUME IInv, DepthInv, GdtInv, ~halted', task_init_end
    PROVE  GdtInv'
<1>0. PICK c \in Task : c = curr_task
  BY GdtTypes
<1> DEFINE n == new_task[c]
<1>1. /\ At("task_ready") /\ Becomes(Rest) /\ UNCHANGED gdtVars
      /\ task_list' = list_insert_last(task_list, n)
      /\ new_task' = [new_task EXCEPT ![c] = None]
      /\ new_sel' = [new_sel EXCEPT ![c] = 0]
  BY <1>0 DEF task_init_end, Continue, Becomes
<1>2. stack[curr_task] # <<>> /\ stack[curr_task][1].pc = "task_ready"
  BY <1>1, AtFacts
<1>3. /\ n \in Task /\ Rest = <<>>
      /\ \A P : HasPc(stack[c], P) <=> "task_ready" \in P \/ HasPc(Rest, P)
  BY <1>0, <1>2, InitTop, RestFacts DEF InitPcs
<1>4. tss_sel[n] # 0
  <2>1. ~HasPc(Rest, EarlyPcs)
    BY <1>3, HasPcEmpty
  <2>2. HasPc(stack[c], {"task_ready"}) /\ ~HasPc(stack[c], EarlyPcs)
    BY <1>3, <2>1 DEF EarlyPcs
  <2> QED BY <2>2 DEF GdtInv, Creating
<1>5. Nodes(task_list)' = Nodes(task_list) \cup {n}
  <2>1. n \in Task /\ task_list \in Seq(Task) /\ task_list' = list_insert_last(task_list, n)
    BY <1>1, <1>3, GdtTypes
  <2> HIDE DEF n
  <2>2. Nodes(list_insert_last(task_list, n)) = Nodes(task_list) \cup {n}
    BY <2>1, InsertNodes
  <2> QED BY <2>1, <2>2
<1>6. stack'[c] = <<>> /\ \A u \in Task \ {c} : stack'[u] = stack[u]
  BY <1>0, <1>1, <1>3, BecomesFacts
<1>7. /\ new_task'[c] = None /\ \A u \in Task \ {c} : new_task'[u] = new_task[u]
      /\ \A u \in Task \ {c} : new_sel'[u] = new_sel[u]
  BY <1>1, GdtTypes
<1>8. GdtEntries'
  <2>1. GdtEntries /\ tss_sel' = tss_sel /\ gdt_table' = gdt_table
    BY <1>1 DEF GdtInv, gdtVars
  <2>2. \A t \in Nodes(task_list)' : tss_sel'[t] # 0
    BY <1>4, <1>5, <2>1 DEF GdtEntries
  <2>3. ASSUME NEW t \in Task, tss_sel'[t] # 0
        PROVE  t \in Nodes(task_list)' \/ \E u \in Task : new_task'[u] = t
    BY <1>5, <1>7, <2>1, <2>3 DEF GdtEntries
  <2>4. \A t \in Task : tss_sel'[t] # 0 => SwitchLands(t)'
    BY <2>1 DEF GdtEntries, SwitchLands
  <2>5. \A i \in TssSlot : gdt_table'[i] # None => tss_sel'[gdt_table'[i]] = i
    BY <2>1 DEF GdtEntries
  <2>6. idle_task \in Nodes(task_list)'
    BY <1>5, <2>1 DEF GdtEntries
  <2> QED BY <2>2, <2>3, <2>4, <2>5, <2>6 DEF GdtEntries
<1>9. Creating(c)'
  <2>1. \A P : ~HasPc(stack'[c], P)
    BY <1>6, HasPcEmpty
  <2> QED BY <1>7, <2>1 DEF Creating
<1>10. ASSUME NEW u \in Task \ {c} PROVE Creating(u)'
  BY <1>1, <1>6, <1>7, <1>10, CreatingKept DEF GdtInv
<1> QED BY <1>8, <1>9, <1>10 DEF GdtInv

LEMMA GdtNext ==
    ASSUME OneCreator, EnoughEntries, IInv, IdleWaitInv, DepthInv, GdtInv, [Next]_vars
    PROVE  GdtInv'
<1>1. CASE Next
  <2>1. ~halted'
    BY <1>1, LandsNext
  <2>2. CASE InitStep
    BY <2>1, <2>2, GdtBegins, GdtAllocs, GdtReleases, GdtFills, GdtLinks DEF InitStep
  <2>3. CASE ~InitStep
    BY <1>1, <2>3, GdtOther
  <2> QED BY <2>2, <2>3
<1>2. CASE UNCHANGED vars
  BY <1>2 DEF vars, taskVars, listVars, gdtVars, initVars, GdtInv, GdtEntries, Creating, SwitchLands
<1> QED BY <1>1, <1>2

LEMMA InitGdt == ASSUME KernelInit PROVE GdtInv
<1>1. /\ first_task \in Task /\ idle_task \in Task /\ first_task # idle_task /\ None \notin Task
      /\ 3 \in TssSlot /\ 4 \in TssSlot
  BY TaskAssumption DEF Task, TssSlot
<1>2. /\ task_list = <<idle_task, first_task>>
      /\ tss_sel = [t \in Task |-> CASE t = idle_task -> 3 [] t = first_task -> 4 [] OTHER -> 0]
      /\ gdt_table = [i \in TssSlot |-> CASE i = 3 -> idle_task [] i = 4 -> first_task [] OTHER -> None]
      /\ stack = [t \in Task |-> <<>>] /\ new_task = [t \in Task |-> None] /\ ~halted
  BY DEF KernelInit, TaskInit
<1>3. Nodes(task_list) = {idle_task, first_task}
  BY <1>2 DEF Nodes
<1>4. /\ tss_sel[idle_task] = 3 /\ tss_sel[first_task] = 4
      /\ \A t \in Task \ {idle_task, first_task} : tss_sel[t] = 0
      /\ gdt_table[3] = idle_task /\ gdt_table[4] = first_task
      /\ \A i \in TssSlot \ {3, 4} : gdt_table[i] = None
  BY <1>1, <1>2
<1>5. GdtEntries
  BY <1>1, <1>3, <1>4 DEF GdtEntries, SwitchLands
<1>6. \A u \in Task : Creating(u)
  BY <1>2, HasPcEmpty DEF Creating
<1> QED BY <1>2, <1>5, <1>6 DEF GdtInv

\* If one task creates all the others and the GDT has an entry for every task, then every
\* created task has an entry of its own and no task_switch ever faults: gdt_alloc_desc
\* finds an entry each time, and the entry is still free when tss_init fills it in.
THEOREM SwitchSafeAlways ==
    ASSUME OneCreator, EnoughEntries
    PROVE  Spec => []SwitchSafe
<1>1. KernelInit => GdtInv
  BY InitGdt
<1>2. IInv /\ IdleWaitInv /\ DepthInv /\ GdtInv /\ [Next]_vars => GdtInv'
  BY GdtNext
<1>3. IInv /\ GdtInv => SwitchSafe
  <2>1. SUFFICES ASSUME IInv, GdtInv PROVE SwitchSafe
    OBVIOUS
  <2> QED BY <2>1, GdtTypes DEF GdtInv, GdtEntries, SwitchSafe
<1> QED BY <1>1, <1>2, <1>3, KernelInvariant, DepthInvariant, PTL DEF Spec
=============================================================================
