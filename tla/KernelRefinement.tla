-------------------------- MODULE KernelRefinement --------------------------
(***************************************************************************)
(* The kernel implements BlockingSync: stacks, lists, interrupts and the   *)
(* dispatcher hidden, its mutexes, semaphores and sleep are those of the   *)
(* abstract specification.                                                 *)
(***************************************************************************)
EXTENDS KernelInv

Sync == INSTANCE BlockingSync WITH
    Process <- Task, Lock <- MutexId, Semaphore <- SemId, Nobody <- None,
    holder <- owner, depth <- locked_count, lock_queue <- mutex_wait,
    units <- sem_cnt, sem_queue <- sem_wait_list,
    asleep <- Nodes(sleep_list)

\* ImplementsSync: every step of the kernel is one step of the abstract locks,
\* semaphores and sleepers, or none.  Above all, a task that mutex_lock, sem_wait or
\* sys_sleep took out of the ready list does nothing to any of them until the owner's
\* mutex_unlock, a sem_notify or the tick handler has served it, although the call it
\* is in has been interrupted and log_printf was called from inside it.
ImplementsSync == Sync!SyncSpec
=============================================================================
