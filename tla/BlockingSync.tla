---------------------------- MODULE BlockingSync ----------------------------
(***************************************************************************)
(* What the kernel promises its clients, with no scheduler in sight: locks *)
(* that a process may nest, counting semaphores, and sleep.  A process     *)
(* that waits, or sleeps, does nothing at all until it is served; waiters  *)
(* are served in the order they came; a lock or a unit passes directly     *)
(* from the process that gives it up to the one that is served.            *)
(***************************************************************************)
EXTENDS Naturals, Sequences

CONSTANTS Process, Lock, Semaphore, Nobody

VARIABLES
    holder, depth,     \* who holds each lock, and how often it took it
    lock_queue,        \* who waits for each lock
    units, sem_queue,  \* the units of each semaphore, and who waits for one
    asleep             \* the processes that sleep

lockVars == <<holder, depth, lock_queue>>
unitVars == <<units, sem_queue>>
syncVars == <<lockVars, unitVars, asleep>>

InQueue(q, p) == \E i \in 1..Len(q) : q[i] = p

\* p waits for something.
Blocked(p) ==
    \/ p \in asleep
    \/ \E l \in Lock : InQueue(lock_queue[l], p)
    \/ \E s \in Semaphore : InQueue(sem_queue[s], p)

-----------------------------------------------------------------------------

Take(p, l) ==
    /\ holder[l] = Nobody
    /\ holder' = [holder EXCEPT ![l] = p]
    /\ depth' = [depth EXCEPT ![l] = 1]
    /\ UNCHANGED <<lock_queue, unitVars, asleep>>

TakeAgain(p, l) ==
    /\ holder[l] = p
    /\ depth' = [depth EXCEPT ![l] = @ + 1]
    /\ UNCHANGED <<holder, lock_queue, unitVars, asleep>>

WaitForLock(p, l) ==
    /\ holder[l] \notin {Nobody, p}
    /\ lock_queue' = [lock_queue EXCEPT ![l] = Append(@, p)]
    /\ UNCHANGED <<holder, depth, unitVars, asleep>>

Untake(p, l) ==
    /\ holder[l] = p
    /\ depth[l] > 1
    /\ depth' = [depth EXCEPT ![l] = @ - 1]
    /\ UNCHANGED <<holder, lock_queue, unitVars, asleep>>

Release(p, l) ==
    /\ holder[l] = p
    /\ depth[l] = 1
    /\ lock_queue[l] = <<>>
    /\ holder' = [holder EXCEPT ![l] = Nobody]
    /\ depth' = [depth EXCEPT ![l] = 0]
    /\ UNCHANGED <<lock_queue, unitVars, asleep>>

HandOver(p, l) ==
    /\ holder[l] = p
    /\ depth[l] = 1
    /\ lock_queue[l] # <<>>
    /\ holder' = [holder EXCEPT ![l] = Head(lock_queue[l])]
    /\ lock_queue' = [lock_queue EXCEPT ![l] = Tail(@)]
    /\ UNCHANGED <<depth, unitVars, asleep>>

TakeUnit(s) ==
    /\ units[s] > 0
    /\ units' = [units EXCEPT ![s] = @ - 1]
    /\ UNCHANGED <<sem_queue, lockVars, asleep>>

WaitForUnit(p, s) ==
    /\ units[s] = 0
    /\ sem_queue' = [sem_queue EXCEPT ![s] = Append(@, p)]
    /\ UNCHANGED <<units, lockVars, asleep>>

GiveUnit(s) ==
    /\ IF sem_queue[s] = <<>>
       THEN units' = [units EXCEPT ![s] = @ + 1] /\ UNCHANGED sem_queue
       ELSE sem_queue' = [sem_queue EXCEPT ![s] = Tail(@)] /\ UNCHANGED units
    /\ UNCHANGED <<lockVars, asleep>>

FallAsleep(p) ==
    /\ asleep' = asleep \cup {p}
    /\ UNCHANGED <<lockVars, unitVars>>

\* Time wakes a process, not the process itself.
WakeUp(p) ==
    /\ p \in asleep
    /\ asleep' = asleep \ {p}
    /\ UNCHANGED <<lockVars, unitVars>>

-----------------------------------------------------------------------------

SyncInit ==
    /\ holder = [l \in Lock |-> Nobody]
    /\ depth = [l \in Lock |-> 0]
    /\ lock_queue = [l \in Lock |-> <<>>]
    /\ units \in [Semaphore -> Nat]
    /\ sem_queue = [s \in Semaphore |-> <<>>]
    /\ asleep = {}

\* p acts on a lock: it can, because it does not wait.
LockStep(p, l) ==
    \/ Take(p, l) \/ TakeAgain(p, l) \/ WaitForLock(p, l)
    \/ Untake(p, l) \/ Release(p, l) \/ HandOver(p, l)

SemStep(p, s) == TakeUnit(s) \/ WaitForUnit(p, s) \/ GiveUnit(s)

SyncNext ==
    \E p \in Process :
        \/ /\ ~Blocked(p)
           /\ \/ \E l \in Lock : LockStep(p, l)
              \/ \E s \in Semaphore : SemStep(p, s)
              \/ FallAsleep(p)
        \/ WakeUp(p)

SyncSpec == SyncInit /\ [][SyncNext]_syncVars
=============================================================================
