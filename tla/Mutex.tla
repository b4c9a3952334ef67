------------------------------- MODULE Mutex -------------------------------
(***************************************************************************)
(* ipc/mutex.c: a recursive mutex with a FIFO wait list and direct handoff.*)
(* Besides the mutexes of client code there are log_mutex (tools/log.c),   *)
(* which task_dispatch itself takes through log_printf, and gdt_mutex      *)
(* (cpu/cpu.c), which task_init takes through gdt_alloc_desc.              *)
(***************************************************************************)
EXTENDS Task

CONSTANTS
    ClientMutexes,
    log_mutex, gdt_mutex,
    MaxLocked              \* bound on how deep a client nests one mutex

MutexId == ClientMutexes \cup {log_mutex, gdt_mutex}

ASSUME MutexAssumption ==
    /\ log_mutex # gdt_mutex
    /\ {log_mutex, gdt_mutex} \cap ClientMutexes = {}
    /\ MaxLocked \in Nat \ {0}

VARIABLES
    owner, locked_count, mutex_wait   \* the fields of each mutex_t

mutexVars == <<owner, locked_count, mutex_wait>>

-----------------------------------------------------------------------------
(* Mutants: what a plausible slip in this code would make of a definition. *)

\* A re-entry that is not counted.
Mutant_MutexReenter(m, rest) ==
    /\ locked_count[m] # 0 /\ owner[m] = curr_task
    /\ Continue(rest)
    /\ UNCHANGED <<mutexVars, ready_list, irq>>

\* task_set_block forgotten: the waiting task stays in the ready list.
Mutant_MutexBlock(m, rest) ==
    /\ locked_count[m] # 0 /\ owner[m] # curr_task
    /\ mutex_wait' = [mutex_wait EXCEPT ![m] = list_insert_last(@, curr_task)]
    /\ ProtectedDispatch(rest)
    /\ UNCHANGED <<owner, locked_count, ready_list>>

\* The owner is not reset.
Mutant_MutexRelease(m, rest) ==
    /\ owner[m] = curr_task /\ locked_count[m] = 1 /\ list_count(mutex_wait[m]) = 0
    /\ locked_count' = [locked_count EXCEPT ![m] = 0]
    /\ Continue(rest)
    /\ UNCHANGED <<owner, mutex_wait, ready_list, state, irq>>

\* task_set_ready forgotten: the new owner is in no list.
Mutant_MutexHandOff_lost(m, rest) ==
    /\ owner[m] = curr_task /\ locked_count[m] = 1 /\ list_count(mutex_wait[m]) # 0
    /\ owner' = [owner EXCEPT ![m] = list_first(mutex_wait[m], None)]
    /\ mutex_wait' = [mutex_wait EXCEPT ![m] = list_remove_first(@)]
    /\ ProtectedDispatch(rest)
    /\ UNCHANGED <<locked_count, ready_list, state>>

\* Release without looking at the wait list.
Mutant_MutexHandOff_none(m, rest) ==
    /\ owner[m] = curr_task /\ locked_count[m] = 1 /\ list_count(mutex_wait[m]) # 0
    /\ locked_count' = [locked_count EXCEPT ![m] = 0]
    /\ owner' = [owner EXCEPT ![m] = None]
    /\ Continue(rest)
    /\ UNCHANGED <<mutex_wait, ready_list, state, irq>>

(***************************************************************************)
(* mutex_lock(m) by the current task, which goes on with the frames rest.  *)
(* A task that has to wait leaves the ready list, joins the wait list and  *)
(* dispatches; when it runs again it takes the lock to be its own.         *)
(***************************************************************************)
MutexTake(m, rest) ==
    /\ locked_count[m] = 0
    /\ locked_count' = [locked_count EXCEPT ![m] = @ + 1]
    /\ owner' = [owner EXCEPT ![m] = curr_task]
    /\ Continue(rest)
    /\ UNCHANGED <<mutex_wait, ready_list, irq>>

MutexReenter(m, rest) ==
    /\ locked_count[m] # 0
    /\ owner[m] = curr_task
    /\ locked_count' = [locked_count EXCEPT ![m] = @ + 1]
    /\ Continue(rest)
    /\ UNCHANGED <<owner, mutex_wait, ready_list, irq>>

MutexBlock(m, rest) ==
    /\ locked_count[m] # 0
    /\ owner[m] # curr_task
    /\ ready_list' = task_set_block(ready_list, curr_task)
    /\ mutex_wait' = [mutex_wait EXCEPT ![m] = list_insert_last(@, curr_task)]
    /\ ProtectedDispatch(rest)
    /\ UNCHANGED <<owner, locked_count>>

mutex_lock(m, rest) ==
    MutexTake(m, rest) \/ MutexReenter(m, rest) \/ MutexBlock(m, rest)

(***************************************************************************)
(* mutex_unlock(m) by the current task.  The last unlock hands the mutex   *)
(* to the first waiter, if any, and dispatches; a task that is not the     *)
(* owner changes nothing.                                                  *)
(***************************************************************************)
MutexNotOwner(m, rest) ==
    /\ owner[m] # curr_task
    /\ Continue(rest)
    /\ UNCHANGED <<mutexVars, ready_list, state, irq>>

MutexLeave(m, rest) ==
    /\ owner[m] = curr_task
    /\ locked_count[m] # 1
    /\ locked_count' = [locked_count EXCEPT ![m] = @ - 1]
    /\ Continue(rest)
    /\ UNCHANGED <<owner, mutex_wait, ready_list, state, irq>>

MutexRelease(m, rest) ==
    /\ owner[m] = curr_task
    /\ locked_count[m] = 1
    /\ list_count(mutex_wait[m]) = 0
    /\ locked_count' = [locked_count EXCEPT ![m] = 0]
    /\ owner' = [owner EXCEPT ![m] = None]
    /\ Continue(rest)
    /\ UNCHANGED <<mutex_wait, ready_list, state, irq>>

MutexHandOff(m, rest) ==
    /\ owner[m] = curr_task
    /\ locked_count[m] = 1
    /\ list_count(mutex_wait[m]) # 0
    /\ LET task == list_first(mutex_wait[m], None)
       IN  /\ ready_list' = task_set_ready(ready_list, task)
           /\ state' = ReadyState(state, task)
           /\ owner' = [owner EXCEPT ![m] = task]
    /\ mutex_wait' = [mutex_wait EXCEPT ![m] = list_remove_first(@)]
    /\ locked_count' = [locked_count EXCEPT ![m] = 1]
    /\ ProtectedDispatch(rest)

mutex_unlock(m, rest) ==
    \/ MutexNotOwner(m, rest) \/ MutexLeave(m, rest)
    \/ MutexRelease(m, rest) \/ MutexHandOff(m, rest)

\* What neither mutex operation touches.
mutexFrame == <<curr_task, sleep_list, task_list, sleep_ticks, slice_ticks, walk, halted>>

ClientLock(m) ==
    /\ AtBase
    /\ owner[m] = curr_task => locked_count[m] < MaxLocked
    /\ mutex_lock(m, <<>>)
    /\ UNCHANGED <<mutexFrame, state, gdtVars>>

ClientUnlock(m) ==
    /\ AtBase
    /\ mutex_unlock(m, <<>>)
    /\ UNCHANGED <<mutexFrame, gdtVars>>

MutexInit ==
    /\ owner = [m \in MutexId |-> None]
    /\ locked_count = [m \in MutexId |-> 0]
    /\ mutex_wait = [m \in MutexId |-> <<>>]

MutexTypeOK ==
    /\ owner \in [MutexId -> Task \cup {None}]
    /\ locked_count \in [MutexId -> Nat]
    /\ mutex_wait \in [MutexId -> Seq(Task)]
=============================================================================
