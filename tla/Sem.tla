-------------------------------- MODULE Sem --------------------------------
(***************************************************************************)
(* ipc/sem.c: a counting semaphore with a FIFO wait list.  sem_notify hands*)
(* its unit to the first waiter and only counts it when nobody waits.      *)
(***************************************************************************)
EXTENDS Task

CONSTANTS
    SemId,
    InitCount,      \* the count each semaphore is given by sem_init
    MaxCount        \* bound on the count in the model

ASSUME SemAssumption == InitCount \in [SemId -> Nat] /\ MaxCount \in Nat

VARIABLES
    sem_cnt, sem_wait_list   \* the fields of each sem_t

semVars == <<sem_cnt, sem_wait_list>>

semFrame == <<curr_task, sleep_list, task_list, sleep_ticks, slice_ticks, gdtVars, walk, halted>>

\* Mutants: a waiting task that stays in the ready list, and a unit that is both
\* handed over and counted.
Mutant_SemBlock(s) ==
    /\ sem_cnt[s] <= 0
    /\ sem_wait_list' = [sem_wait_list EXCEPT ![s] = list_insert_last(@, curr_task)]
    /\ ProtectedDispatch(<<>>)
    /\ UNCHANGED <<sem_cnt, ready_list>>

Mutant_SemHandOff(s) ==
    /\ list_count(sem_wait_list[s]) # 0
    /\ LET task == list_first(sem_wait_list[s], None)
       IN  /\ ready_list' = task_set_ready(ready_list, task)
           /\ state' = ReadyState(state, task)
    /\ sem_wait_list' = [sem_wait_list EXCEPT ![s] = list_remove_first(@)]
    /\ ProtectedDispatch(<<>>)
    /\ sem_cnt' = [sem_cnt EXCEPT ![s] = @ + 1]

\* A unit is taken at once, or the task blocks until sem_notify gives it one.
SemTake(s) ==
    /\ sem_cnt[s] > 0
    /\ sem_cnt' = [sem_cnt EXCEPT ![s] = @ - 1]
    /\ UNCHANGED <<sem_wait_list, ready_list, irq, stack>>

SemBlock(s) ==
    /\ sem_cnt[s] <= 0
    /\ ready_list' = task_set_block(ready_list, curr_task)
    /\ sem_wait_list' = [sem_wait_list EXCEPT ![s] = list_insert_last(@, curr_task)]
    /\ ProtectedDispatch(<<>>)
    /\ UNCHANGED sem_cnt

sem_wait(s) ==
    /\ AtBase
    /\ SemTake(s) \/ SemBlock(s)
    /\ UNCHANGED <<semFrame, state>>

\* A waiter gets the unit without the count ever showing it.
SemHandOff(s) ==
    /\ list_count(sem_wait_list[s]) # 0
    /\ LET task == list_first(sem_wait_list[s], None)
       IN  /\ ready_list' = task_set_ready(ready_list, task)
           /\ state' = ReadyState(state, task)
    /\ sem_wait_list' = [sem_wait_list EXCEPT ![s] = list_remove_first(@)]
    /\ ProtectedDispatch(<<>>)
    /\ UNCHANGED sem_cnt

SemCount(s) ==
    /\ list_count(sem_wait_list[s]) = 0
    /\ sem_cnt[s] < MaxCount
    /\ sem_cnt' = [sem_cnt EXCEPT ![s] = @ + 1]
    /\ UNCHANGED <<sem_wait_list, ready_list, state, irq, stack>>

sem_notify(s) ==
    /\ AtBase
    /\ SemHandOff(s) \/ SemCount(s)
    /\ UNCHANGED semFrame

SemInit ==
    /\ sem_cnt = InitCount
    /\ sem_wait_list = [s \in SemId |-> <<>>]

SemTypeOK ==
    /\ sem_cnt \in [SemId -> Nat]
    /\ sem_wait_list \in [SemId -> Seq(Task)]
=============================================================================
