---------------------------- MODULE ServiceProof ----------------------------
(***************************************************************************)
(* What the callers of the kernel can rely on, for every number of tasks,  *)
(* mutexes and semaphores.                                                 *)
(*                                                                         *)
(* First, the kernel implements BlockingSync.  A step of the kernel either *)
(* leaves the locks, the units, the wait lists and the sleep list alone,   *)
(* or is a step the task that runs takes on one of them; that this task    *)
(* waits for nothing is what IInv says of it (RunningFacts).               *)
(*                                                                         *)
(* Second, every timer interrupt counts every sleeper down exactly once:   *)
(* the account of SleepTiming balances between the walks and, suitably     *)
(* stated, in the middle of one (TimingInv).                               *)
(***************************************************************************)
EXTENDS KernelSafety, KernelRefinement, SleepTiming, FunctionTheorems

\* The abstract state does not move.
SyncStill == UNCHANGED <<mutexVars, semVars, sleep_list>>

\* A step that touches neither the locks, the semaphores nor the sleep list is a
\* stutter of the abstract specification.
LEMMA StillStutters == ASSUME SyncStill PROVE UNCHANGED Sync!syncVars
BY DEF SyncStill, mutexVars, semVars, Nodes, Sync!syncVars, Sync!lockVars, Sync!unitVars

\* The queues of the abstract specification hold the nodes of the kernel's lists.
LEMMA QueueNodes == ASSUME NEW q, NEW p PROVE Sync!InQueue(q, p) <=> p \in Nodes(q)
BY DEF Sync!InQueue, Nodes

\* The task that runs waits for nothing, outside task_dispatch and the walk of the
\* sleep list.
LEMMA RunsUnblocked ==
    ASSUME IInv, ~halted, ~TopIn(curr_task, {"dispatch", "walk"})
    PROVE  curr_task \in Task /\ ~Sync!Blocked(curr_task)
<1>1. curr_task \in Task
  BY DEF IInv, TypeOK, TaskTypeOK
<1>2. /\ curr_task \notin Nodes(sleep_list)
      /\ \A m \in MutexId : curr_task \notin Nodes(mutex_wait[m])
      /\ \A s \in SemId : curr_task \notin Nodes(sem_wait_list[s])
  BY RunningFacts
<1> QED BY <1>1, <1>2, QueueNodes DEF Sync!Blocked

-----------------------------------------------------------------------------
(* The operations.                                                         *)

\* mutex_lock takes the free lock, takes it again, or queues up.
LEMMA LockImplements ==
    ASSUME IInv, NEW m \in MutexId, NEW rest, mutex_lock(m, rest),
           UNCHANGED <<semVars, sleep_list>>
    PROVE  Sync!LockStep(curr_task, m)
<1> USE DEF semVars, Sync!unitVars, Sync!lockVars
<1>1. /\ curr_task \in Task /\ None \notin Task
      /\ owner \in [MutexId -> Task \cup {None}] /\ locked_count \in [MutexId -> Nat]
      /\ owner[m] = None <=> locked_count[m] = 0
  BY TaskAssumption DEF IInv, TypeOK, TaskTypeOK, MutexTypeOK, MutexInv
<1>2. CASE MutexTake(m, rest)
  <2>1. owner[m] = None /\ locked_count' = [locked_count EXCEPT ![m] = 1]
    BY <1>1, <1>2 DEF MutexTake
  <2> QED BY <1>2, <2>1 DEF MutexTake, Nodes, Sync!LockStep, Sync!Take
<1>3. CASE MutexReenter(m, rest)
  BY <1>3 DEF MutexReenter, Nodes, Sync!LockStep, Sync!TakeAgain
<1>4. CASE MutexBlock(m, rest)
  <2>1. owner[m] \notin {None, curr_task}
    BY <1>1, <1>4 DEF MutexBlock
  <2> QED BY <1>4, <2>1 DEF MutexBlock, list_insert_last, Nodes, Sync!LockStep, Sync!WaitForLock
<1> QED BY <1>2, <1>3, <1>4 DEF mutex_lock

\* mutex_unlock by the owner leaves one level, frees the lock, or hands it to the
\* first in the queue; by another task it does nothing.
LEMMA UnlockImplements ==
    ASSUME IInv, NEW m \in MutexId, NEW rest, mutex_unlock(m, rest),
           UNCHANGED <<semVars, sleep_list>>
    PROVE  SyncStill \/ Sync!LockStep(curr_task, m)
<1> USE DEF semVars, Sync!unitVars, Sync!lockVars
<1>1. /\ curr_task \in Task /\ None \notin Task
      /\ owner \in [MutexId -> Task \cup {None}] /\ locked_count \in [MutexId -> Nat]
      /\ mutex_wait[m] \in Seq(Task)
      /\ owner[m] = None <=> locked_count[m] = 0
  BY TaskAssumption DEF IInv, TypeOK, TaskTypeOK, MutexTypeOK, MutexInv
<1>2. CASE MutexNotOwner(m, rest)
  BY <1>2 DEF MutexNotOwner, SyncStill, mutexVars
<1>3. CASE MutexLeave(m, rest)
  <2>1. locked_count[m] > 1
    BY <1>1, <1>3 DEF MutexLeave
  <2> QED BY <1>3, <2>1 DEF MutexLeave, Nodes, Sync!LockStep, Sync!Untake
<1>4. CASE MutexRelease(m, rest)
  <2>1. mutex_wait[m] = <<>>
    BY <1>1, <1>4 DEF MutexRelease, list_count
  <2> QED BY <1>4, <2>1 DEF MutexRelease, Nodes, Sync!LockStep, Sync!Release
<1>5. CASE MutexHandOff(m, rest)
  <2>1. mutex_wait[m] # <<>>
    BY <1>1, <1>5 DEF MutexHandOff, list_count
  <2>2. locked_count' = locked_count
    BY <1>1, <1>5 DEF MutexHandOff
  <2> QED BY <1>5, <2>1, <2>2
          DEF MutexHandOff, list_first, list_remove_first, Nodes, Sync!LockStep, Sync!HandOver
<1> QED BY <1>2, <1>3, <1>4, <1>5 DEF mutex_unlock

\* sem_wait takes a unit or queues up for one.
LEMMA SemWaitImplements ==
    ASSUME IInv, NEW s \in SemId, sem_wait(s), UNCHANGED mutexVars
    PROVE  Sync!SemStep(curr_task, s)
<1> USE DEF mutexVars, Sync!unitVars, Sync!lockVars
<1>1. sem_cnt[s] \in Nat /\ UNCHANGED sleep_list
  BY DEF IInv, TypeOK, SemTypeOK, sem_wait, semFrame
<1>2. CASE SemTake(s)
  BY <1>1, <1>2 DEF SemTake, Nodes, Sync!SemStep, Sync!TakeUnit
<1>3. CASE SemBlock(s)
  <2>1. sem_cnt[s] = 0
    BY <1>1, <1>3 DEF SemBlock
  <2> QED BY <1>1, <1>3, <2>1 DEF SemBlock, list_insert_last, Nodes, Sync!SemStep, Sync!WaitForUnit
<1> QED BY <1>2, <1>3 DEF sem_wait

\* sem_notify gives its unit to the first in the queue, or counts it.
LEMMA SemNotifyImplements ==
    ASSUME IInv, NEW s \in SemId, sem_notify(s), UNCHANGED mutexVars
    PROVE  Sync!SemStep(curr_task, s)
<1> USE DEF mutexVars, Sync!unitVars, Sync!lockVars
<1>1. sem_wait_list[s] \in Seq(Task) /\ UNCHANGED sleep_list
  BY DEF IInv, TypeOK, SemTypeOK, sem_notify, semFrame
<1>2. CASE SemHandOff(s)
  <2>1. sem_wait_list[s] # <<>>
    BY <1>1, <1>2 DEF SemHandOff, list_count
  <2> QED BY <1>1, <1>2, <2>1 DEF SemHandOff, list_remove_first, Nodes, Sync!SemStep, Sync!GiveUnit
<1>3. CASE SemCount(s)
  <2>1. sem_wait_list[s] = <<>>
    BY <1>1, <1>3 DEF SemCount, list_count
  <2> QED BY <1>1, <1>3, <2>1 DEF SemCount, Nodes, Sync!SemStep, Sync!GiveUnit
<1> QED BY <1>2, <1>3 DEF sem_notify

\* sys_sleep puts the task to sleep, unless the time rounds to no tick.
LEMMA SleepImplements ==
    ASSUME IInv, NEW ms, sys_sleep(ms), UNCHANGED <<mutexVars, semVars>>
    PROVE  SyncStill \/ Sync!FallAsleep(curr_task)
<1>1. curr_task \in Task /\ sleep_list \in Seq(Task)
  BY DEF IInv, TypeOK, TaskTypeOK
<1>2. CASE SleepTicks(ms) = 0
  BY <1>2 DEF sys_sleep, task_set_sleep, SyncStill
<1>3. CASE SleepTicks(ms) # 0
  <2>1. sleep_list' = list_insert_last(sleep_list, curr_task)
    BY <1>3 DEF sys_sleep, task_set_sleep
  <2>2. Nodes(list_insert_last(sleep_list, curr_task)) = Nodes(sleep_list) \cup {curr_task}
    BY <1>1, InsertLast
  <2>3. Nodes(sleep_list') = Nodes(sleep_list) \cup {curr_task}
    BY <2>1, <2>2
  <2> QED BY <2>3 DEF mutexVars, semVars, Nodes, Sync!FallAsleep, Sync!lockVars, Sync!unitVars
<1> QED BY <1>2, <1>3

\* One turn of the tick handler's loop wakes the task it stands at, or nobody.
LEMMA WalkImplements ==
    ASSUME IInv, tick_walk, UNCHANGED <<mutexVars, semVars>>
    PROVE  SyncStill \/ \E p \in Task : Sync!WakeUp(p)
<1>1. sleep_list \in Seq(Task) /\ walk \in Task \cup {None} /\ NoRepeat(sleep_list)
  BY DEF IInv, TypeOK, TaskTypeOK, ListInv
<1>2. CASE UNCHANGED sleep_list
  BY <1>2 DEF SyncStill
<1>3. CASE sleep_list' # sleep_list
  <2>1. walk # None /\ sleep_list' = list_remove(sleep_list, walk)
    BY <1>3 DEF tick_walk, task_set_wakeup
  <2>2. TopIn(curr_task, {"walk"})
    BY RestFacts DEF tick_walk, At, TopIn
  <2>3. walk \in Nodes(sleep_list) /\ walk \in Task
    BY <1>1, <2>1, <2>2 DEF IInv, WalkInv
  <2>4. Nodes(sleep_list') = Nodes(sleep_list) \ {walk}
    BY <1>1, <2>1, <2>3, Remove
  <2>5. Sync!WakeUp(walk)
    BY <2>3, <2>4 DEF mutexVars, semVars, Nodes, Sync!WakeUp, Sync!lockVars, Sync!unitVars
  <2> QED BY <2>3, <2>5
<1> QED BY <1>2, <1>3

-----------------------------------------------------------------------------
(* The specification.                                                      *)

\* What the running task does to a lock, a semaphore or itself is a step of the
\* abstract specification.
LEMMA RunningSteps ==
    ASSUME IInv, ~halted, ~TopIn(curr_task, {"dispatch", "walk"}),
           \/ \E m \in MutexId : Sync!LockStep(curr_task, m)
           \/ \E s \in SemId : Sync!SemStep(curr_task, s)
           \/ Sync!FallAsleep(curr_task)
    PROVE  Sync!SyncNext
BY RunsUnblocked DEF Sync!SyncNext

\* Every step of the kernel is a step of the abstract specification or a stutter.
LEMMA NextImplements == ASSUME IInv, Next PROVE SyncStill \/ Sync!SyncNext
<1> USE DEF listVars, mutexFrame
<1>1. CASE TaskStep
  <2>1. CASE task_dispatch \/ irq_leave_protection \/ tick_rotate \/ tick_scan
    BY <1>1, <2>1 DEF TaskStep, task_dispatch, irq_leave_protection, tick_rotate, tick_scan, SyncStill
  <2>2. CASE tick_walk
    BY <1>1, <2>2, WalkImplements DEF TaskStep, Sync!SyncNext
  <2> QED BY <1>1, <2>1, <2>2 DEF TaskStep
<1>2. CASE LogStart
  <2>1. At("log") /\ mutex_lock(log_mutex, <<Call("unlog")>> \o Rest) /\ UNCHANGED <<semVars, sleep_list>>
    BY <1>2 DEF LogStart, log_printf
  <2>2. ~halted /\ ~TopIn(curr_task, {"dispatch", "walk"})
    BY <2>1, RestFacts DEF At, TopIn
  <2> QED BY <2>1, <2>2, MutexIds, LockImplements, RunningSteps
<1>3. CASE LogEnd
  <2>1. At("unlog") /\ mutex_unlock(log_mutex, Rest) /\ UNCHANGED <<semVars, sleep_list>>
    BY <1>3 DEF LogEnd
  <2>2. ~halted /\ ~TopIn(curr_task, {"dispatch", "walk"})
    BY <2>1, RestFacts DEF At, TopIn
  <2> QED BY <2>1, <2>2, MutexIds, UnlockImplements, RunningSteps
<1>4. CASE gdt_release
  <2>1. At("gdt_unlock") /\ mutex_unlock(gdt_mutex, Rest) /\ UNCHANGED <<semVars, sleep_list>>
    BY <1>4 DEF gdt_release
  <2>2. ~halted /\ ~TopIn(curr_task, {"dispatch", "walk"})
    BY <2>1, RestFacts DEF At, TopIn
  <2> QED BY <2>1, <2>2, MutexIds, UnlockImplements, RunningSteps
<1>5. CASE gdt_alloc_desc \/ tss_init \/ task_init_end
  BY <1>5 DEF gdt_alloc_desc, tss_init, task_init_end, SyncStill
<1>6. CASE Tick \/ Sti
  BY <1>6 DEF Tick, time_tick, Sti, irq_enable_global, SyncStill
<1>7. CASE AtBase /\ ClientCall
  <2>1. ~halted /\ ~TopIn(curr_task, {"dispatch", "walk"})
    BY <1>7, BaseFacts DEF TopIn
  <2>2. CASE sys_sched_yield /\ UNCHANGED <<mutexVars, semVars, initVars>>
    BY <2>2 DEF sys_sched_yield, SyncStill
  <2>3. CASE \E ms \in SleepMs : sys_sleep(ms) /\ UNCHANGED <<mutexVars, semVars, initVars>>
    BY <2>1, <2>3, SleepImplements, RunningSteps
  <2>4. CASE ClientLog
    <3>1. mutex_lock(log_mutex, <<Call("unlog")>> \o <<>>) /\ UNCHANGED <<semVars, sleep_list>>
      BY <2>4 DEF ClientLog, log_printf
    <3> QED BY <2>1, <3>1, MutexIds, LockImplements, RunningSteps
  <2>5. CASE \E m \in ClientMutexes : (ClientLock(m) \/ ClientUnlock(m)) /\ UNCHANGED <<semVars, initVars>>
    <3>1. PICK m \in ClientMutexes : (ClientLock(m) \/ ClientUnlock(m)) /\ UNCHANGED semVars
      BY <2>5
    <3>2. m \in MutexId /\ UNCHANGED sleep_list /\ (mutex_lock(m, <<>>) \/ mutex_unlock(m, <<>>))
      BY <3>1 DEF ClientLock, ClientUnlock, MutexId
    <3> QED BY <2>1, <3>1, <3>2, LockImplements, UnlockImplements, RunningSteps
  <2>6. CASE \E s \in SemId : (sem_wait(s) \/ sem_notify(s)) /\ UNCHANGED <<mutexVars, initVars>>
    BY <2>1, <2>6, SemWaitImplements, SemNotifyImplements, RunningSteps
  <2>7. CASE \E t \in OtherTasks : task_init(t)
    <3>1. /\ mutex_lock(gdt_mutex, <<Call("gdt_scan"), Call("gdt_unlock"), Call("tss_set"), Call("task_ready")>>)
          /\ UNCHANGED <<semVars, sleep_list>>
      BY <2>7 DEF task_init
    <3> QED BY <2>1, <3>1, MutexIds, LockImplements, RunningSteps
  <2> QED BY <1>6, <1>7, <2>2, <2>3, <2>4, <2>5, <2>6, <2>7 DEF ClientCall
<1>8. ClientCall => AtBase
  BY DEF ClientCall, sys_sched_yield, sys_sleep, Sti, irq_enable_global, ClientLog, ClientLock,
         ClientUnlock, sem_wait, sem_notify, task_init
<1> QED BY <1>1, <1>2, <1>3, <1>4, <1>5, <1>6, <1>7, <1>8 DEF Next, Running

\* The kernel starts with every lock free, every queue empty and nobody asleep.
LEMMA InitImplements == ASSUME KernelInit PROVE Sync!SyncInit
<1>1. Nodes(sleep_list) = {}
  BY EmptyList DEF KernelInit, TaskInit
<1> QED BY <1>1, SemAssumption DEF KernelInit, MutexInit, SemInit, Sync!SyncInit

\* The kernel's mutexes, semaphores and sleep implement those of BlockingSync: with
\* any number of tasks, whatever is interrupted or switched away from, a task that
\* mutex_lock, sem_wait or sys_sleep took out of the ready list touches no lock, no
\* unit and no queue until mutex_unlock, sem_notify or the tick handler has served it,
\* and each queue is served first come, first served.
THEOREM KernelImplementsSync == Spec => ImplementsSync
<1>1. KernelInit => Sync!SyncInit
  BY InitImplements
<1>2. IInv /\ [Next]_vars => [Sync!SyncNext]_(Sync!syncVars)
  <2>1. UNCHANGED vars => SyncStill
    BY DEF vars, taskVars, listVars, SyncStill
  <2> QED BY <2>1, NextImplements, StillStutters
<1> QED BY <1>1, <1>2, KernelInvariant, PTL DEF Spec, ImplementsSync, Sync!SyncSpec

-----------------------------------------------------------------------------
(* Counting the walks that are still to come.                              *)

\* Where a stack has a frame "scan", and how often.
ScanAt(fs) == {j \in 1..Len(fs) : fs[j].pc = "scan"}
ScanCount(fs) == Cardinality(ScanAt(fs))

\* The same, of all tasks but c.
OtherScans(st, c) == UNION {{<<t, i>> : i \in ScanAt(st[t])} : t \in Task \ {c}}

LEMMA ScanAtFinite ==
    ASSUME NEW fs \in Seq(Frame)
    PROVE  /\ IsFiniteSet(ScanAt(fs)) /\ ScanAt(fs) \subseteq 1..Len(fs)
           /\ ScanCount(fs) \in Nat
<1>1. Len(fs) \in Nat /\ ScanAt(fs) \subseteq 1..Len(fs)
  BY DEF ScanAt
<1>2. IsFiniteSet(1..Len(fs))
  BY <1>1, FS_Interval
<1>3. IsFiniteSet(ScanAt(fs))
  BY <1>1, <1>2, FS_Subset
<1> QED BY <1>1, <1>3, FS_CardinalityType DEF ScanCount

\* A stack without the frame.
LEMMA ScanNone ==
    ASSUME NEW fs \in Seq(Frame), ~HasPc(fs, {"scan"})
    PROVE  ScanCount(fs) = 0
<1>1. ScanAt(fs) = {}
  BY DEF ScanAt, HasPc
<1> QED BY <1>1, FS_EmptySet DEF ScanCount

\* Frames pushed in front shift the others.
LEMMA ScanConcat ==
    ASSUME NEW es \in Seq(Frame), NEW fs \in Seq(Frame)
    PROVE  ScanCount(es \o fs) = ScanCount(es) + ScanCount(fs)
<1> DEFINE k == Len(es)
           A == ScanAt(es)
           B == ScanAt(fs)
           C == {j + k : j \in B}
           f == [j \in B |-> j + k]
<1>1. /\ k \in Nat /\ Len(fs) \in Nat /\ Len(es \o fs) = k + Len(fs)
      /\ \A j \in 1..k : (es \o fs)[j] = es[j]
      /\ \A j \in 1..Len(fs) : (es \o fs)[j + k] = fs[j]
  OBVIOUS
<1>2. /\ IsFiniteSet(A) /\ A \subseteq 1..k
      /\ IsFiniteSet(B) /\ B \subseteq 1..Len(fs)
  BY ScanAtFinite
<1>3. ScanAt(es \o fs) = A \cup C
  <2>1. ASSUME NEW j \in ScanAt(es \o fs) PROVE j \in A \cup C
    <3>1. j \in 1..(k + Len(fs)) /\ (es \o fs)[j].pc = "scan"
      BY <1>1, <2>1 DEF ScanAt
    <3>2. CASE j <= k
      BY <1>1, <3>1, <3>2 DEF ScanAt
    <3>3. CASE j > k
      <4>1. j - k \in 1..Len(fs) /\ j = (j - k) + k
        BY <1>1, <3>1, <3>3
      <4>2. fs[j - k] = (es \o fs)[j]
        BY <1>1, <4>1
      <4>3. j - k \in B
        BY <3>1, <4>1, <4>2 DEF ScanAt
      <4> QED BY <4>1, <4>3
    <3> QED BY <1>1, <3>1, <3>2, <3>3
  <2>2. ASSUME NEW j \in A PROVE j \in ScanAt(es \o fs)
    BY <1>1, <2>2 DEF ScanAt
  <2>3. ASSUME NEW j \in B PROVE j + k \in ScanAt(es \o fs)
    <3>1. j \in 1..Len(fs) /\ fs[j].pc = "scan"
      BY <2>3 DEF ScanAt
    <3>2. j + k \in 1..(k + Len(fs)) /\ (es \o fs)[j + k] = fs[j]
      BY <1>1, <3>1
    <3> QED BY <1>1, <3>1, <3>2 DEF ScanAt
  <2> QED BY <2>1, <2>2, <2>3
<1>4. A \cap C = {}
  BY <1>1, <1>2
<1>5. IsFiniteSet(C) /\ Cardinality(C) = Cardinality(B)
  <2>1. f \in [B -> C] /\ \A a, b \in B : f[a] = f[b] => a = b
    BY <1>1, <1>2
  <2>2. \A c \in C : \E b \in B : f[b] = c
    OBVIOUS
  <2>3. f \in Bijection(B, C)
    BY <2>1, <2>2, Fun_IsBij
  <2>4. ExistsBijection(B, C)
    BY <2>3 DEF ExistsBijection
  <2> QED BY <1>2, <2>4, FS_Bijection
<1> HIDE DEF A, B, C
<1>6. /\ Cardinality(A \cup C) = Cardinality(A) + Cardinality(C) - Cardinality(A \cap C)
      /\ Cardinality(A \cap C) = 0
      /\ Cardinality(A) \in Nat /\ Cardinality(C) \in Nat
  BY <1>2, <1>4, <1>5, FS_Union, FS_EmptySet, FS_CardinalityType
<1>7. Cardinality(A \cup C) = Cardinality(A) + Cardinality(B)
  <2> DEFINE x == Cardinality(A \cup C)
             a == Cardinality(A)
             b == Cardinality(B)
             c == Cardinality(C)
             z == Cardinality(A \cap C)
  <2>1. x = a + c - z /\ z = 0 /\ a \in Nat /\ c \in Nat /\ c = b
    BY <1>5, <1>6
  <2> HIDE DEF x, a, b, c, z
  <2>2. x = a + b
    BY <2>1
  <2> QED BY <2>2 DEF x, a, b
<1> QED BY <1>3, <1>7 DEF ScanCount, A, B

\* The pending walks are those of one task and those of the others.
LEMMA ScanSplit ==
    ASSUME IsFiniteSet(Task), NEW st \in [Task -> Seq(Frame)], NEW c \in Task
    PROVE  /\ Cardinality(UNION {{<<t, i>> : i \in ScanAt(st[t])} : t \in Task})
                  = Cardinality(OtherScans(st, c)) + ScanCount(st[c])
           /\ Cardinality(OtherScans(st, c)) \in Nat
<1> DEFINE All == UNION {{<<t, i>> : i \in ScanAt(st[t])} : t \in Task}
           Mine == {c} \X ScanAt(st[c])
           Rows == {{<<t, i>> : i \in ScanAt(st[t])} : t \in Task \ {c}}
           O == OtherScans(st, c)
           f == [t \in Task \ {c} |-> {<<t, i>> : i \in ScanAt(st[t])}]
<1>1. \A t \in Task : IsFiniteSet(ScanAt(st[t]))
  BY ScanAtFinite
<1>2. IsFiniteSet(Mine) /\ Cardinality(Mine) = ScanCount(st[c]) /\ ScanCount(st[c]) \in Nat
  <2> DEFINE S == ScanAt(st[c])
             n == Cardinality(S)
  <2>1. IsFiniteSet(S) /\ n \in Nat
    BY <1>1, FS_CardinalityType
  <2>2. IsFiniteSet({c}) /\ Cardinality({c}) = 1
    BY FS_Singleton
  <2> HIDE DEF S
  <2>3. IsFiniteSet({c} \X S) /\ Cardinality({c} \X S) = Cardinality({c}) * Cardinality(S)
    BY <2>1, <2>2, FS_Product
  <2>4. Cardinality({c}) * n = n
    <3> HIDE DEF n
    <3> QED BY <2>1, <2>2
  <2> QED BY <2>1, <2>3, <2>4 DEF S, ScanCount
<1>3. IsFiniteSet(Rows)
  <2>1. IsFiniteSet(Task \ {c})
    BY FS_Difference
  <2>2. f \in [Task \ {c} -> Rows] /\ \A r \in Rows : \E t \in Task \ {c} : f[t] = r
    OBVIOUS
  <2>3. f \in Surjection(Task \ {c}, Rows)
    <3> HIDE DEF f, Rows
    <3> QED BY <2>2 DEF Surjection
  <2> QED BY <2>1, <2>3, FS_Surjection
<1>4. \A r \in Rows : IsFiniteSet(r)
  <2>1. SUFFICES ASSUME NEW t \in Task \ {c} PROVE IsFiniteSet({<<t, i>> : i \in ScanAt(st[t])})
    OBVIOUS
  <2>2. IsFiniteSet({t}) /\ IsFiniteSet(ScanAt(st[t]))
    BY <1>1, FS_Singleton
  <2>3. IsFiniteSet({t} \X ScanAt(st[t]))
    BY <2>2, FS_Product
  <2>4. {t} \X ScanAt(st[t]) = {<<t, i>> : i \in ScanAt(st[t])}
    OBVIOUS
  <2> QED BY <2>3, <2>4
<1>5. IsFiniteSet(O)
  BY <1>3, <1>4, FS_UNION DEF OtherScans
<1>6. All = O \cup Mine
  BY DEF OtherScans
<1>7. O \cap Mine = {}
  BY DEF OtherScans
<1> HIDE DEF All, Mine, O
<1>8. /\ Cardinality(O \cup Mine) = Cardinality(O) + Cardinality(Mine) - Cardinality(O \cap Mine)
      /\ Cardinality(O \cap Mine) = 0
      /\ Cardinality(O) \in Nat
  BY <1>2, <1>5, <1>7, FS_Union, FS_EmptySet, FS_CardinalityType
<1>9. Cardinality(All) = Cardinality(O) + ScanCount(st[c])
  <2> DEFINE x == Cardinality(All)
             o == Cardinality(O)
             m == Cardinality(Mine)
             z == Cardinality(O \cap Mine)
             n == ScanCount(st[c])
  <2>1. x = o + m - z /\ z = 0 /\ o \in Nat /\ m = n /\ n \in Nat
    BY <1>2, <1>6, <1>8
  <2> HIDE DEF x, o, m, z, n
  <2>2. x = o + n
    BY <2>1
  <2> QED BY <2>2 DEF x, o, n
<1> QED BY <1>8, <1>9 DEF All, O

\* A step that changes the current task's stack changes the number of pending walks
\* by what it does to that stack.
LEMMA ScanMove ==
    ASSUME IInv, IsFiniteSet(Task), NEW fs \in Seq(Frame), Becomes(fs)
    PROVE  /\ PendingScans \in Int
           /\ ScanCount(fs) \in Nat /\ ScanCount(stack[curr_task]) \in Nat
           /\ PendingScans' = PendingScans + ScanCount(fs) - ScanCount(stack[curr_task])
<1>1. PICK c \in Task : c = curr_task
  BY DEF IInv, TypeOK, TaskTypeOK
<1>2. /\ stack \in [Task -> Seq(Frame)] /\ stack' \in [Task -> Seq(Frame)]
      /\ stack'[c] = fs /\ \A t \in Task \ {c} : stack'[t] = stack[t]
  BY <1>1 DEF IInv, TypeOK, TaskTypeOK, Becomes
<1>3. PendingScans = Cardinality(OtherScans(stack, c)) + ScanCount(stack[c])
      /\ Cardinality(OtherScans(stack, c)) \in Nat
  BY <1>2, ScanSplit DEF PendingScans, ScanAt
<1>4. PendingScans' = Cardinality(OtherScans(stack', c)) + ScanCount(stack'[c])
  <2> DEFINE st == stack'
  <2>1. st \in [Task -> Seq(Frame)]
    BY <1>2
  <2>2. PendingScans' = Cardinality(UNION {{<<t, i>> : i \in ScanAt(st[t])} : t \in Task})
    BY DEF PendingScans, ScanAt
  <2> HIDE DEF st
  <2>3. Cardinality(UNION {{<<t, i>> : i \in ScanAt(st[t])} : t \in Task})
            = Cardinality(OtherScans(st, c)) + ScanCount(st[c])
    BY <2>1, ScanSplit
  <2> QED BY <2>2, <2>3 DEF st
<1>5. OtherScans(stack', c) = OtherScans(stack, c)
  BY <1>2 DEF OtherScans
<1>6. ScanCount(fs) \in Nat /\ ScanCount(stack[c]) \in Nat
  BY <1>2, ScanAtFinite
<1> DEFINE o == Cardinality(OtherScans(stack, c))
           m == ScanCount(stack[c])
           n == ScanCount(fs)
<1>7. PendingScans = o + m /\ PendingScans' = o + n /\ o \in Nat /\ m \in Nat /\ n \in Nat
  BY <1>2, <1>3, <1>4, <1>5, <1>6
<1> HIDE DEF o, m, n
<1>8. PendingScans \in Int /\ PendingScans' = PendingScans + n - m
  BY <1>7
<1> QED BY <1>1, <1>6, <1>8 DEF m, n

\* The frame on top, and the rest.
LEMMA ScanTop ==
    ASSUME NEW fs \in Seq(Frame), fs # <<>>
    PROVE  ScanCount(fs) = ScanCount(Tail(fs)) + (IF fs[1].pc = "scan" THEN 1 ELSE 0)
<1>1. fs[1] \in Frame /\ Tail(fs) \in Seq(Frame) /\ fs = <<fs[1]>> \o Tail(fs)
  OBVIOUS
<1>2. <<fs[1]>> \in Seq(Frame)
  BY <1>1
<1>3. ScanCount(<<fs[1]>>) = IF fs[1].pc = "scan" THEN 1 ELSE 0
  <2>1. ScanAt(<<fs[1]>>) = IF fs[1].pc = "scan" THEN {1} ELSE {}
    BY DEF ScanAt
  <2> QED BY <2>1, FS_Singleton, FS_EmptySet DEF ScanCount
<1>4. ScanCount(<<fs[1]>> \o Tail(fs)) = ScanCount(<<fs[1]>>) + ScanCount(Tail(fs))
  BY <1>1, <1>2, ScanConcat
<1>5. ScanCount(fs) = ScanCount(<<fs[1]>>) + ScanCount(Tail(fs))
  BY <1>1, <1>4
<1>6. ScanCount(Tail(fs)) \in Nat
  BY <1>1, ScanAtFinite
<1> QED BY <1>3, <1>5, <1>6

-----------------------------------------------------------------------------
(* The steps between two walks.                                            *)

\* The frames that such a step may push.
QuietFrames(es) == es \in Seq(Frame) /\ ~HasPc(es, {"scan", "walk"})

\* The step replaces the first frame of the current task's stack, or begins a call.
QuietStack ==
    \/ UNCHANGED <<stack, curr_task>>
    \/ /\ curr_task' = curr_task \/ (curr_task' = task_next_run /\ task_next_run # curr_task)
       /\ \E es : /\ QuietFrames(es)
                  /\ \/ stack[curr_task] = <<>> /\ Becomes(es)
                     \/ stack[curr_task] # <<>> /\ Becomes(es \o Rest)

\* The sequences of frames that the kernel pushes, but for the tick handler's.
LEMMA PushedFrames ==
    ASSUME NEW b \in BOOLEAN
    PROVE  /\ QuietFrames(<<>>)
           /\ QuietFrames(<<Call("unlog")>>) /\ QuietFrames(<<Call("log")>>)
           /\ QuietFrames(<<Call("dispatch"), Leave(b)>>)
           /\ QuietFrames(<<Call("log"), Leave(b)>>)
           /\ QuietFrames(<<Call("dispatch"), Leave(b), Call("unlog")>>)
           /\ QuietFrames(<<Call("dispatch"), Leave(b)>> \o <<Call("unlog")>>)
           /\ QuietFrames(InitCalls)
           /\ QuietFrames(<<Call("dispatch"), Leave(b)>> \o InitCalls)
<1>1. /\ Call("unlog") \in Frame /\ Call("unlog").pc = "unlog"
      /\ Call("log") \in Frame /\ Call("log").pc = "log"
      /\ Call("dispatch") \in Frame /\ Call("dispatch").pc = "dispatch"
      /\ Leave(b) \in Frame /\ Leave(b).pc = "leave"
      /\ Call("gdt_scan") \in Frame /\ Call("gdt_scan").pc = "gdt_scan"
      /\ Call("gdt_unlock") \in Frame /\ Call("gdt_unlock").pc = "gdt_unlock"
      /\ Call("tss_set") \in Frame /\ Call("tss_set").pc = "tss_set"
      /\ Call("task_ready") \in Frame /\ Call("task_ready").pc = "task_ready"
  BY FrameType DEF Pcs
<1>2. QuietFrames(<<>>)
  BY DEF QuietFrames, HasPc
<1>3. QuietFrames(<<Call("unlog")>>) /\ QuietFrames(<<Call("log")>>)
  BY <1>1 DEF QuietFrames, HasPc
<1>4. QuietFrames(<<Call("dispatch"), Leave(b)>>) /\ QuietFrames(<<Call("log"), Leave(b)>>)
  BY <1>1 DEF QuietFrames, HasPc
<1>5. QuietFrames(<<Call("dispatch"), Leave(b), Call("unlog")>>)
  BY <1>1 DEF QuietFrames, HasPc
<1>6. QuietFrames(InitCalls)
  BY <1>1 DEF QuietFrames, HasPc, InitCalls
<1>7. /\ QuietFrames(<<Call("dispatch"), Leave(b)>> \o InitCalls)
      /\ QuietFrames(<<Call("dispatch"), Leave(b)>> \o <<Call("unlog")>>)
  BY <1>1, <1>3, <1>6, HasPcPushTwo DEF QuietFrames
<1> QED BY <1>2, <1>3, <1>4, <1>5, <1>6, <1>7

\* Only the walk takes the frame "walk" off the stack, only the scan the frame "scan".
LEMMA WalkOnly ==
    ASSUME IInv, Next, ~tick_walk, ~tick_scan, ~Tick
    PROVE  ~TopIn(curr_task, {"scan", "walk"})
<1>1. \/ stack[curr_task] = <<>>
      \/ \E pc \in Pcs \ {"scan", "walk"} : At(pc)
  <2>1. ClientCall => AtBase
    BY DEF ClientCall, sys_sched_yield, sys_sleep, Sti, irq_enable_global, ClientLog, ClientLock,
           ClientUnlock, sem_wait, sem_notify, task_init
  <2>2. Running => \E pc \in Pcs \ {"scan", "walk"} : At(pc)
    BY DEF Running, TaskStep, task_dispatch, irq_leave_protection, tick_rotate, LogStart, LogEnd,
           gdt_alloc_desc, gdt_release, tss_init, task_init_end, Pcs
  <2> QED BY <2>1, <2>2 DEF Next, AtBase
<1> QED BY <1>1, AtFacts DEF TopIn

LEMMA QuietNext ==
    ASSUME IInv, IdleWaitInv, Next, ~tick_walk, ~tick_scan, ~Tick
    PROVE  QuietStack
<1> DEFINE b == irq[curr_task]
<1>1. b \in BOOLEAN /\ curr_task \in Task /\ stack[curr_task] \in Seq(Frame)
  BY DEF IInv, TypeOK, TaskTypeOK
<1>2. ~TopIn(curr_task, {"scan", "walk"})
  BY WalkOnly
<1>3. stack[curr_task] # <<>> => Rest \in Seq(Frame) /\ Rest = <<>> \o Rest
  <2>1. \A fs \in Seq(Frame) : fs = <<>> \o fs
    OBVIOUS
  <2> QED BY <2>1, RestFacts
<1>4. ASSUME stack[curr_task] # <<>>
      PROVE  Enter(<<Call("unlog")>> \o Rest) = <<Call("dispatch"), Leave(b), Call("unlog")>> \o Rest
  <2>1. Rest \in Seq(Frame)
    BY <1>3, <1>4
  <2>2. Call("unlog") \in Frame /\ Call("dispatch") \in Frame /\ Leave(b) \in Frame
    BY <1>1, FrameType DEF Pcs
  <2> HIDE DEF b
  <2>3. <<Call("dispatch"), Leave(b)>> \o (<<Call("unlog")>> \o Rest)
          = <<Call("dispatch"), Leave(b), Call("unlog")>> \o Rest
    BY <2>1, <2>2
  <2> QED BY <2>3 DEF Enter, b
<1>5. CASE ~InitStep
  <2>1. StackMotion
    BY <1>5, NextStack
  <2>2. CASE SameStack
    BY <2>2 DEF SameStack, QuietStack
  <2>3. CASE Popped
    BY <1>1, <1>3, <2>3, PushedFrames DEF Popped, QuietStack
  <2>4. CASE Turned("log", "unlog")
    BY <1>1, <2>4, PushedFrames DEF Turned, QuietStack
  <2>5. CASE Turned("scan", "walk")
    BY <1>2, <2>5 DEF Turned, TopIn
  <2>6. CASE LogWaits
    BY <1>1, <1>4, <2>6, PushedFrames DEF LogWaits, QuietStack
  <2>7. CASE HandsOver("unlog")
    BY <1>1, <2>7, PushedFrames DEF HandsOver, Enter, QuietStack
  <2>8. CASE SwitchedAway
    BY <1>1, <2>8, PushedFrames DEF SwitchedAway, QuietStack
  <2>9. CASE Called
    <3>1. /\ Enter(<<>>) = <<Call("dispatch"), Leave(b)>>
          /\ <<Call("unlog")>> \o <<>> = <<Call("unlog")>>
          /\ Enter(<<Call("unlog")>> \o <<>>) = <<Call("dispatch"), Leave(b)>> \o <<Call("unlog")>>
      <4>1. Call("unlog") \in Frame /\ Call("dispatch") \in Frame /\ Leave(b) \in Frame
        BY <1>1, FrameType DEF Pcs
      <4>2. <<Call("unlog")>> \o <<>> = <<Call("unlog")>>
        BY <4>1
      <4>3. ASSUME NEW f \in Frame, NEW g \in Frame PROVE <<f, g>> \o <<>> = <<f, g>>
        OBVIOUS
      <4> QED BY <4>1, <4>2, <4>3 DEF Enter
    <3> QED BY <1>1, <2>9, <3>1, PushedFrames DEF Called, QuietStack
  <2> QED BY <2>1, <2>2, <2>3, <2>4, <2>5, <2>6, <2>7, <2>8, <2>9 DEF StackMotion
<1>6. CASE InitStep
  <2>1. InitMotion
    BY <1>6, InitStack
  <2>2. CASE Turned("tss_set", "log")
    BY <1>1, <2>2, PushedFrames DEF Turned, QuietStack
  <2>3. CASE HandsOver("gdt_unlock")
    BY <1>1, <2>3, PushedFrames DEF HandsOver, Enter, QuietStack
  <2>4. CASE stack[curr_task] # <<>> /\ Becomes(Rest) /\ UNCHANGED curr_task
    BY <1>1, <1>3, <2>4, PushedFrames DEF QuietStack
  <2>5. CASE stack[curr_task] = <<>> /\ UNCHANGED curr_task
             /\ (Becomes(InitCalls) \/ Becomes(Enter(InitCalls)))
    BY <1>1, <2>5, PushedFrames DEF QuietStack, Enter
  <2> QED BY <2>1, <2>2, <2>3, <2>4, <2>5 DEF InitMotion
<1> QED BY <1>5, <1>6

\* A step between two walks leaves the number of pending walks as it is.
LEMMA QuietScans ==
    ASSUME IInv, IsFiniteSet(Task), QuietStack, ~TopIn(curr_task, {"scan", "walk"})
    PROVE  PendingScans' = PendingScans
<1>1. CASE UNCHANGED <<stack, curr_task>>
  BY <1>1 DEF PendingScans
<1>2. CASE \E es : QuietFrames(es) /\ stack[curr_task] = <<>> /\ Becomes(es)
  <2>1. PICK es : QuietFrames(es) /\ stack[curr_task] = <<>> /\ Becomes(es)
    BY <1>2
  <2>2. es \in Seq(Frame) /\ ~HasPc(es, {"scan"}) /\ <<>> \in Seq(Frame) /\ ~HasPc(<<>>, {"scan"})
    BY <2>1 DEF QuietFrames, HasPc
  <2>3. ScanCount(es) = 0 /\ ScanCount(stack[curr_task]) = 0
    BY <2>1, <2>2, ScanNone
  <2>4. PendingScans \in Int /\ PendingScans' = PendingScans + ScanCount(es) - ScanCount(stack[curr_task])
    BY <2>1, <2>2, ScanMove
  <2> QED BY <2>3, <2>4
<1>3. CASE \E es : QuietFrames(es) /\ stack[curr_task] # <<>> /\ Becomes(es \o Rest)
  <2>1. PICK es : QuietFrames(es) /\ stack[curr_task] # <<>> /\ Becomes(es \o Rest)
    BY <1>3
  <2>2. es \in Seq(Frame) /\ ~HasPc(es, {"scan"})
    BY <2>1 DEF QuietFrames, HasPc
  <2>3. Rest \in Seq(Frame) /\ stack[curr_task] \in Seq(Frame) /\ stack[curr_task][1].pc # "scan"
    BY <2>1, RestFacts DEF TopIn
  <2>4. ScanCount(es) = 0
    BY <2>2, ScanNone
  <2>5. ScanCount(es \o Rest) = ScanCount(es) + ScanCount(Rest)
    BY <2>2, <2>3, ScanConcat
  <2>6. ScanCount(stack[curr_task]) = ScanCount(Rest) + 0
    BY <2>1, <2>3, ScanTop DEF Rest
  <2>7. es \o Rest \in Seq(Frame)
    BY <2>2, <2>3
  <2>8. /\ PendingScans \in Int /\ ScanCount(es \o Rest) \in Nat /\ ScanCount(stack[curr_task]) \in Nat
        /\ PendingScans' = PendingScans + ScanCount(es \o Rest) - ScanCount(stack[curr_task])
    BY <2>1, <2>7, ScanMove
  <2>9. ScanCount(Rest) \in Nat
    BY <2>3, ScanAtFinite
  <2> QED BY <2>4, <2>5, <2>6, <2>8, <2>9
<1> QED BY <1>1, <1>2, <1>3 DEF QuietStack

\* Such a step neither begins nor ends in a walk.
LEMMA QuietWalk ==
    ASSUME IInv, QuietStack, ~TopIn(curr_task, {"scan", "walk"})
    PROVE  ~At("walk") /\ ~At("walk")'
<1>1. ~At("walk")
  BY AtFacts DEF TopIn
<1>2. curr_task \in Task /\ stack[curr_task] \in Seq(Frame) /\ stack \in [Task -> Seq(Frame)]
  BY DEF IInv, TypeOK, TaskTypeOK
<1>3. CASE UNCHANGED <<stack, curr_task>>
  BY <1>2, <1>3 DEF At, TopIn
<1>4. CASE curr_task' = task_next_run /\ task_next_run # curr_task /\ \E fs : Becomes(fs)
  <2>1. task_next_run \in Task
    BY NextRunFacts
  <2>2. stack'[task_next_run] = stack[task_next_run]
    BY <1>2, <1>4, <2>1 DEF Becomes
  <2>3. stack[task_next_run] # <<>> => stack[task_next_run][1].pc = "log"
    BY <1>4, <2>1 DEF IInv, Suspended
  <2>4. stack[task_next_run] \in Seq(Frame)
    BY <1>2, <2>1
  <2>5. stack[task_next_run] # <<>> => Head(stack[task_next_run]).pc = "log"
    BY <2>3, <2>4
  <2> QED BY <1>1, <1>4, <2>2, <2>5 DEF At
<1>5. CASE curr_task' = curr_task /\ \E es : QuietFrames(es) /\ stack[curr_task] = <<>> /\ Becomes(es)
  <2>1. PICK es : QuietFrames(es) /\ stack'[curr_task] = es
    BY <1>2, <1>5 DEF Becomes
  <2>2. es \in Seq(Frame) /\ ~HasPc(es, {"scan", "walk"})
    BY <2>1 DEF QuietFrames
  <2>3. es # <<>> => Head(es).pc # "walk"
    BY <2>2 DEF HasPc
  <2> QED BY <1>1, <1>5, <2>1, <2>3 DEF At
<1>6. CASE curr_task' = curr_task /\ \E es : QuietFrames(es) /\ stack[curr_task] # <<>> /\ Becomes(es \o Rest)
  <2>1. PICK es : QuietFrames(es) /\ stack'[curr_task] = es \o Rest
    BY <1>2, <1>6 DEF Becomes
  <2>2. es \in Seq(Frame) /\ ~HasPc(es, {"walk"})
    BY <2>1 DEF QuietFrames, HasPc
  <2>3. Rest \in Seq(Frame) /\ ~HasPc(Rest, {"walk"})
    BY <1>6, RestFacts
  <2> DEFINE fs == es \o Rest
  <2>4. fs \in Seq(Frame)
    BY <2>2, <2>3
  <2>5. ~HasPc(fs, {"walk"})
    BY <2>2, <2>3, HasPcConcat
  <2>6. stack'[curr_task] = fs
    BY <2>1
  <2> HIDE DEF fs
  <2>7. fs # <<>> => Head(fs).pc # "walk"
    BY <2>4, <2>5 DEF HasPc
  <2> QED BY <1>1, <1>6, <2>6, <2>7 DEF At
<1> QED BY <1>3, <1>4, <1>5, <1>6 DEF QuietStack

\* Outside the walk, what sleeps goes on sleeping with the same ticks left, but for the
\* task that sys_sleep puts to sleep.
LEMMA SleepersKept ==
    ASSUME IInv, Next, ~tick_walk
    PROVE  \/ sleep_list' = sleep_list /\ \A t \in Nodes(sleep_list) : sleep_ticks'[t] = sleep_ticks[t]
           \/ /\ sleep_list' = list_insert_last(sleep_list, curr_task)
              /\ curr_task \notin Nodes(sleep_list)
              /\ \E n : sleep_ticks' = [sleep_ticks EXCEPT ![curr_task] = n]
<1> USE DEF listVars, fieldVars, mutexFrame
<1>1. CASE task_init_end
  <2>1. curr_task \in Task /\ sleep_list' = sleep_list
        /\ sleep_ticks' = [sleep_ticks EXCEPT ![new_task[curr_task]] = 0]
    BY <1>1 DEF task_init_end, IInv, TypeOK, TaskTypeOK
  <2>2. new_task[curr_task] \notin Nodes(sleep_list)
    BY <2>1 DEF IInv, InitInv, LinkInv, Linkable
  <2> QED BY <2>1, <2>2 DEF IInv, TypeOK, TaskTypeOK
<1>2. CASE \E ms \in SleepMs : sys_sleep(ms)
  <2>1. PICK ms \in SleepMs : sys_sleep(ms)
    BY <1>2
  <2>2. curr_task \notin Nodes(sleep_list)
    BY <2>1, BaseFacts, RunningFacts DEF sys_sleep, TopIn
  <2> QED BY <2>1, <2>2 DEF sys_sleep, task_set_sleep
<1>3. Running /\ ~task_init_end => UNCHANGED <<sleep_list, sleep_ticks>>
  BY DEF Running, TaskStep, task_dispatch, irq_leave_protection, tick_rotate, tick_scan,
         LogStart, LogEnd, gdt_alloc_desc, gdt_release, tss_init
<1>4. ClientCall => UNCHANGED <<sleep_list, sleep_ticks>> \/ \E ms \in SleepMs : sys_sleep(ms)
  BY DEF ClientCall, sys_sched_yield, Sti, irq_enable_global, ClientLog, ClientLock, ClientUnlock,
         sem_wait, sem_notify, semFrame, task_init
<1>5. Tick => UNCHANGED <<sleep_list, sleep_ticks>>
  BY DEF Tick, time_tick
<1> QED BY <1>1, <1>2, <1>3, <1>4, <1>5 DEF Next

-----------------------------------------------------------------------------
(* The walk.                                                               *)

\* The nodes of a list from n on.
FromNode(s, n) == {s[i] : i \in Position(s, n)..Len(s)}

LEMMA PositionOf ==
    ASSUME NEW s \in Seq(Task), NoRepeat(s), NEW i \in 1..Len(s)
    PROVE  Position(s, s[i]) = i
<1>1. Position(s, s[i]) \in 1..Len(s) /\ s[Position(s, s[i])] = s[i]
  BY DEF Position
<1> QED BY <1>1 DEF NoRepeat

\* A walk that begins has all nodes before it.
LEMMA FromFirst ==
    ASSUME NEW s \in Seq(Task), NoRepeat(s), s # <<>>
    PROVE  FromNode(s, Head(s)) = Nodes(s)
<1>1. Len(s) \in Nat /\ 1 \in 1..Len(s) /\ Head(s) = s[1]
  OBVIOUS
<1>2. Position(s, s[1]) = 1
  BY <1>1, PositionOf
<1> QED BY <1>1, <1>2 DEF FromNode, Nodes

\* One turn of the walk leaves one node less, whether the node is unlinked or not.
LEMMA FromNext ==
    ASSUME NEW s \in Seq(Task), NoRepeat(s), NEW w \in Nodes(s)
    PROVE  LET y == list_node_next(s, w, None)
           IN  /\ w \in FromNode(s, w)
               /\ y = None => FromNode(s, w) = {w}
               /\ y # None => /\ FromNode(s, y) = FromNode(s, w) \ {w}
                              /\ FromNode(list_remove(s, w), y) = FromNode(s, w) \ {w}
<1> DEFINE y == list_node_next(s, w, None)
           p == Position(s, w)
           r == list_remove(s, w)
<1>1. p \in 1..Len(s) /\ s[p] = w /\ Len(s) \in Nat
  BY DEF Position, Nodes
<1>2. None \notin Task /\ \A i \in 1..Len(s) : s[i] \in Task
  BY TaskAssumption
<1>3. \A i \in 1..Len(s) : s[i] = w => i = p
  BY <1>1 DEF NoRepeat
<1>4. w \in FromNode(s, w)
  BY <1>1 DEF FromNode
<1>5. y = None => FromNode(s, w) = {w}
  <2>1. y = None => p = Len(s)
    BY <1>1, <1>2 DEF list_node_next
  <2> QED BY <1>1, <2>1 DEF FromNode
<1>6. ASSUME y # None
      PROVE  FromNode(s, y) = FromNode(s, w) \ {w} /\ FromNode(r, y) = FromNode(s, w) \ {w}
  <2>1. p # Len(s) /\ y = s[p + 1] /\ p + 1 \in 1..Len(s)
    BY <1>1, <1>6 DEF list_node_next
  <2>2. Position(s, y) = p + 1
    BY <2>1, PositionOf
  <2>3. FromNode(s, w) \ {w} = {s[i] : i \in (p + 1)..Len(s)}
    <3>1. FromNode(s, w) = {s[i] : i \in p..Len(s)}
      BY DEF FromNode
    <3>2. ASSUME NEW i \in p..Len(s) PROVE s[i] # w <=> i \in (p + 1)..Len(s)
      BY <1>1, <1>3
    <3> HIDE DEF p
    <3>3. ASSUME NEW i \in (p + 1)..Len(s) PROVE i \in p..Len(s)
      BY <1>1
    <3> QED BY <3>1, <3>2, <3>3
  <2>4. FromNode(s, y) = {s[i] : i \in (p + 1)..Len(s)}
    BY <2>2 DEF FromNode
  <2>5. /\ Len(r) = Len(s) - 1
        /\ \A i \in 1..Len(r) : r[i] = IF i < p THEN s[i] ELSE s[i + 1]
        /\ p \in 1..Len(r)
    BY <1>1, <2>1 DEF list_remove
  <2>6. r \in Seq(Task) /\ NoRepeat(r)
    BY Remove
  <2>7. r[p] = y
    BY <1>1, <2>1, <2>5
  <2>8. Position(r, y) = p
    <3> HIDE DEF r, p, y
    <3> QED BY <2>5, <2>6, <2>7, PositionOf
  <2>9. FromNode(r, y) = {s[i] : i \in (p + 1)..Len(s)}
    <3>1. FromNode(r, y) = {r[i] : i \in p..Len(r)}
      BY <2>8 DEF FromNode
    <3> HIDE DEF r, p, y
    <3>2. ASSUME NEW i \in p..Len(r) PROVE r[i] = s[i + 1] /\ i + 1 \in (p + 1)..Len(s)
      BY <1>1, <2>5
    <3>3. ASSUME NEW i \in (p + 1)..Len(s) PROVE i - 1 \in p..Len(r) /\ r[i - 1] = s[i]
      <4>1. i - 1 \in p..Len(r) /\ (i - 1) + 1 = i
        BY <1>1, <2>5
      <4> QED BY <3>2, <4>1
    <3> QED BY <3>1, <3>2, <3>3
  <2> QED BY <2>3, <2>4, <2>9
<1> QED BY <1>4, <1>5, <1>6

-----------------------------------------------------------------------------
(* The account.                                                            *)

\* The account holds at the start, when nobody sleeps.
LEMMA InitTiming == ASSUME TimingInit PROVE TimingInv
<1>1. \A t \in Task : ~Asleep(t)
  BY EmptyList DEF TimingInit, KernelInit, TaskInit, Asleep
<1> QED BY <1>1 DEF TimingInit, TimingInv

\* What RecordSleep writes.
LEMMA Recorded ==
    ASSUME IInv, IInv', TimingInv, RecordSleep, IsFiniteSet(Task)
    PROVE  /\ want' \in [Task -> Int] /\ elapsed' \in [Task -> Int] /\ debt' \in [Task -> Int]
           /\ PendingScans \in Int
           /\ \A t \in Task : Asleep(t)' /\ Asleep(t) =>
                 want'[t] = want[t] /\ elapsed'[t] = elapsed[t] /\ debt'[t] = debt[t]
           /\ \A t \in Task : Asleep(t)' /\ ~Asleep(t) =>
                 want'[t] = sleep_ticks'[t] /\ elapsed'[t] = 0 /\ debt'[t] = PendingScans
<1>1. sleep_ticks' \in [Task -> Int]
  BY DEF IInv, TypeOK, TaskTypeOK
<1>2. PendingScans \in Int
  <2>1. PICK c \in Task : c = curr_task
    BY DEF IInv, TypeOK, TaskTypeOK
  <2>2. stack \in [Task -> Seq(Frame)]
    BY DEF IInv, TypeOK, TaskTypeOK
  <2>3. PendingScans = Cardinality(OtherScans(stack, c)) + ScanCount(stack[c])
        /\ Cardinality(OtherScans(stack, c)) \in Nat
    BY <2>2, ScanSplit DEF PendingScans, ScanAt
  <2>4. ScanCount(stack[c]) \in Nat
    BY <2>2, ScanAtFinite
  <2> QED BY <2>3, <2>4
<1>3. want \in [Task -> Int] /\ elapsed \in [Task -> Int] /\ debt \in [Task -> Int]
  BY DEF TimingInv
<1>4. /\ want' = [t \in Task |-> IF ~Asleep(t)' THEN 0
                                 ELSE IF Asleep(t) THEN want[t] ELSE sleep_ticks'[t]]
      /\ elapsed' = [t \in Task |-> IF Asleep(t) /\ Asleep(t)' THEN elapsed[t] ELSE 0]
      /\ debt' = [t \in Task |-> IF ~Asleep(t)' THEN 0
                                 ELSE IF Asleep(t) THEN debt[t] ELSE PendingScans]
  BY DEF RecordSleep
<1>5. want' \in [Task -> Int]
  BY <1>1, <1>3, <1>4
<1>6. elapsed' \in [Task -> Int] /\ debt' \in [Task -> Int]
  BY <1>2, <1>3, <1>4
<1> QED BY <1>2, <1>4, <1>5, <1>6

\* A step between two walks.
LEMMA QuietTiming ==
    ASSUME IInv, IInv', IdleWaitInv, IsFiniteSet(Task), TimingInv,
           Next, ~tick_walk, ~tick_scan, ~Tick, RecordSleep
    PROVE  TimingInv'
<1>1. ~TopIn(curr_task, {"scan", "walk"}) /\ QuietStack
  BY WalkOnly, QuietNext
<1>2. PendingScans' = PendingScans /\ ToCount = {} /\ ToCount' = {}
  BY <1>1, QuietScans, QuietWalk DEF ToCount
<1>3. sleep_ticks \in [Task -> Int] /\ sleep_ticks' \in [Task -> Int] /\ sleep_list \in Seq(Task)
      /\ curr_task \in Task
  BY DEF IInv, TypeOK, TaskTypeOK
<1>4. want \in [Task -> Int] /\ elapsed \in [Task -> Int] /\ debt \in [Task -> Int]
  BY DEF TimingInv
<1>5. ASSUME NEW t \in Task, Asleep(t)', Asleep(t) PROVE Balanced(t)'
  <2>1. sleep_ticks'[t] = sleep_ticks[t]
    <3>1. CASE \A u \in Nodes(sleep_list) : sleep_ticks'[u] = sleep_ticks[u]
      BY <1>5, <3>1 DEF Asleep
    <3>2. CASE curr_task \notin Nodes(sleep_list) /\ \E n : sleep_ticks' = [sleep_ticks EXCEPT ![curr_task] = n]
      BY <1>3, <1>5, <3>2 DEF Asleep
    <3> QED BY <3>1, <3>2, SleepersKept
  <2>2. Balanced(t)
    BY <1>5 DEF TimingInv
  <2>3. want'[t] = want[t] /\ elapsed'[t] = elapsed[t] /\ debt'[t] = debt[t]
    BY <1>5, Recorded
  <2> QED BY <1>2, <2>1, <2>2, <2>3 DEF Balanced
<1>6. ASSUME NEW t \in Task, Asleep(t)', ~Asleep(t) PROVE Balanced(t)'
  <2>1. want'[t] = sleep_ticks'[t] /\ elapsed'[t] = 0 /\ debt'[t] = PendingScans /\ PendingScans \in Int
    BY <1>6, Recorded
  <2>2. sleep_ticks'[t] \in Int
    BY <1>3
  <2> QED BY <1>2, <2>1, <2>2 DEF Balanced
<1>7. want' \in [Task -> Int] /\ elapsed' \in [Task -> Int] /\ debt' \in [Task -> Int]
  BY Recorded
<1> QED BY <1>5, <1>6, <1>7 DEF TimingInv

\* The tick handler comes to its walk: one walk less is pending, and every sleeper is
\* still to be counted.
LEMMA ScanTiming ==
    ASSUME IInv, IInv', IsFiniteSet(Task), TimingInv, tick_scan, RecordSleep
    PROVE  TimingInv'
<1>1. /\ At("scan") /\ Becomes(<<Call("walk")>> \o Rest)
      /\ walk' = list_first(sleep_list, None)
      /\ UNCHANGED <<curr_task, sleep_list, sleep_ticks, halted>>
  BY DEF tick_scan, Continue, Becomes, listVars, fieldVars
<1>2. ~halted /\ stack[curr_task] # <<>> /\ stack[curr_task][1].pc = "scan" /\ ~At("walk")
  <2>1. ~halted /\ stack[curr_task] # <<>> /\ stack[curr_task][1].pc = "scan"
    BY <1>1, AtFacts
  <2> QED BY <1>1, <2>1 DEF At
<1>3. /\ curr_task \in Task /\ stack[curr_task] \in Seq(Frame) /\ stack \in [Task -> Seq(Frame)]
      /\ sleep_list \in Seq(Task) /\ NoRepeat(sleep_list) /\ None \notin Task
      /\ Rest \in Seq(Frame) /\ Call("walk") \in Frame /\ Call("walk").pc = "walk"
  BY <1>2, RestFacts, FrameType, TaskAssumption DEF IInv, TypeOK, TaskTypeOK, ListInv, Pcs
<1> DEFINE fs == <<Call("walk")>> \o Rest
<1>4. fs \in Seq(Frame) /\ fs # <<>> /\ fs[1] = Call("walk") /\ Head(fs) = Call("walk") /\ Tail(fs) = Rest
  BY <1>3, PushIndex
<1>5. Becomes(fs)
  BY <1>1
<1> HIDE DEF fs
<1>6. PendingScans \in Int /\ PendingScans' = PendingScans - 1
  <2>1. ScanCount(fs) = ScanCount(Rest)
    <3>1. ScanCount(fs) = ScanCount(Rest) + 0 /\ ScanCount(Rest) \in Nat
      BY <1>3, <1>4, ScanTop, ScanAtFinite
    <3> QED BY <3>1
  <2>2. ScanCount(stack[curr_task]) = ScanCount(Rest) + 1
    BY <1>2, <1>3, ScanTop DEF Rest
  <2>3. /\ PendingScans \in Int /\ ScanCount(fs) \in Nat
        /\ PendingScans' = PendingScans + ScanCount(fs) - ScanCount(stack[curr_task])
    BY <1>4, <1>5, ScanMove
  <2> QED BY <2>1, <2>2, <2>3
<1>7. At("walk")'
  <2>1. stack'[curr_task] = fs
    BY <1>3, <1>5 DEF Becomes
  <2> QED BY <1>1, <1>2, <1>3, <1>4, <2>1 DEF At
<1>8. ToCount = {} /\ ToCount' = Nodes(sleep_list)
  <2>1. ToCount = {}
    BY <1>2 DEF ToCount
  <2>2. CASE sleep_list = <<>>
    <3>1. walk' = None
      BY <1>1, <2>2 DEF list_first
    <3>2. ToCount' = {}
      BY <3>1 DEF ToCount
    <3> QED BY <2>1, <2>2, <3>2, EmptyList
  <2>3. CASE sleep_list # <<>>
    <3>1. walk' = Head(sleep_list) /\ Head(sleep_list) \in Task
      BY <1>1, <1>3, <2>3 DEF list_first
    <3>2. ToCount' = FromNode(sleep_list, Head(sleep_list))
      BY <1>1, <1>3, <1>7, <3>1 DEF ToCount, FromNode
    <3> QED BY <1>3, <2>1, <2>3, <3>2, FromFirst
  <2> QED BY <2>1, <2>2, <2>3
<1>9. ASSUME NEW t \in Task, Asleep(t)' PROVE Balanced(t)'
  <2>1. Asleep(t) /\ t \in Nodes(sleep_list)
    BY <1>1, <1>9 DEF Asleep
  <2>2. want'[t] = want[t] /\ elapsed'[t] = elapsed[t] /\ debt'[t] = debt[t]
    BY <1>9, <2>1, Recorded
  <2>3. Balanced(t) /\ want[t] \in Int /\ elapsed[t] \in Int /\ debt[t] \in Int /\ sleep_ticks[t] \in Int
    BY <2>1 DEF TimingInv, IInv, TypeOK, TaskTypeOK
  <2>4. t \notin ToCount /\ t \in ToCount' /\ sleep_ticks'[t] = sleep_ticks[t]
    BY <1>1, <1>8, <2>1
  <2> QED BY <1>6, <2>2, <2>3, <2>4 DEF Balanced
<1> QED BY <1>9, Recorded DEF TimingInv

\* One turn of the walk: the node it stands at is counted down, and maybe woken; or the
\* walk ends.
LEMMA WalkTiming ==
    ASSUME IInv, IInv', IsFiniteSet(Task), TimingInv, tick_walk, RecordSleep
    PROVE  TimingInv'
<1>1. At("walk") /\ UNCHANGED <<curr_task, halted>>
  BY DEF tick_walk
<1>2. ~halted /\ stack[curr_task] # <<>> /\ stack[curr_task][1].pc = "walk" /\ TopIn(curr_task, {"walk"})
  BY <1>1, AtFacts
<1>3. /\ curr_task \in Task /\ stack[curr_task] \in Seq(Frame) /\ stack \in [Task -> Seq(Frame)]
      /\ sleep_list \in Seq(Task) /\ NoRepeat(sleep_list) /\ None \notin Task
      /\ sleep_ticks \in [Task -> Int]
  BY TaskAssumption DEF IInv, TypeOK, TaskTypeOK, ListInv
<1>4. \A t \in Task : Asleep(t) =>
         Balanced(t) /\ want[t] \in Int /\ elapsed[t] \in Int /\ debt[t] \in Int /\ sleep_ticks[t] \in Int
  BY <1>3 DEF TimingInv
<1>5. CASE walk = None
  <2>1. Becomes(Rest) /\ UNCHANGED <<sleep_list, sleep_ticks, walk>>
    BY <1>5 DEF tick_walk, Continue, Becomes
  <2>2. Rest \in Seq(Frame) /\ ~HasPc(Rest, {"walk"})
    BY <1>2, RestFacts
  <2>3. ScanCount(stack[curr_task]) = ScanCount(Rest) + 0 /\ ScanCount(Rest) \in Nat
    BY <1>2, <1>3, <2>2, ScanTop, ScanAtFinite DEF Rest
  <2>4. PendingScans \in Int /\ PendingScans' = PendingScans + ScanCount(Rest) - ScanCount(stack[curr_task])
    BY <2>1, <2>2, ScanMove
  <2>5. PendingScans' = PendingScans
    BY <2>3, <2>4
  <2>6. ToCount = {} /\ ToCount' = {}
    BY <1>5, <2>1 DEF ToCount
  <2>7. ASSUME NEW t \in Task, Asleep(t)' PROVE Balanced(t)'
    <3>1. Asleep(t)
      BY <2>1, <2>7 DEF Asleep
    <3>2. want'[t] = want[t] /\ elapsed'[t] = elapsed[t] /\ debt'[t] = debt[t]
      BY <2>7, <3>1, Recorded
    <3> QED BY <1>4, <2>1, <2>5, <2>6, <3>1, <3>2 DEF Balanced
  <2> QED BY <2>7, Recorded DEF TimingInv
<1>6. CASE walk # None
  <2>1. PICK w \in Task : w = walk
    BY <1>6 DEF IInv, TypeOK, TaskTypeOK
  <2> DEFINE y == list_node_next(sleep_list, w, None)
  <2>2. /\ UNCHANGED stack
        /\ walk' = y
        /\ sleep_ticks' = [sleep_ticks EXCEPT ![w] = @ - 1]
        /\ sleep_list' = sleep_list \/ sleep_list' = list_remove(sleep_list, w)
    BY <1>6, <2>1 DEF tick_walk, task_set_wakeup
  <2>3. w \in Nodes(sleep_list)
    BY <1>2, <1>6, <2>1 DEF IInv, WalkInv
  <2>4. Nodes(sleep_list') \subseteq Nodes(sleep_list)
    <3>1. Nodes(list_remove(sleep_list, w)) = Nodes(sleep_list) \ {w}
      BY <1>3, <2>3, Remove
    <3> QED BY <2>2, <3>1
  <2>5. PendingScans' = PendingScans /\ PendingScans \in Int
    BY <2>2, Recorded DEF PendingScans
  <2>6. ToCount = FromNode(sleep_list, w)
    BY <1>1, <1>6, <2>1 DEF ToCount, FromNode
  <2>7. /\ w \in FromNode(sleep_list, w)
        /\ y = None => FromNode(sleep_list, w) = {w}
        /\ y # None => /\ FromNode(sleep_list, y) = FromNode(sleep_list, w) \ {w}
                       /\ FromNode(list_remove(sleep_list, w), y) = FromNode(sleep_list, w) \ {w}
    BY <1>3, <2>3, FromNext
  <2> HIDE DEF y
  <2>8. At("walk")'
    BY <1>1, <2>2 DEF At
  <2>9. ToCount' = IF y = None THEN {} ELSE FromNode(sleep_list', y)
    BY <2>2, <2>8 DEF ToCount, FromNode
  <2>10. w \in ToCount /\ ToCount' = ToCount \ {w}
    <3>1. CASE y = None
      BY <2>6, <2>7, <2>9, <3>1
    <3>2. CASE y # None
      BY <2>2, <2>6, <2>7, <2>9, <3>2
    <3> QED BY <3>1, <3>2
  <2>11. ASSUME NEW t \in Task, Asleep(t)' PROVE Balanced(t)'
    <3>1. Asleep(t)
      BY <2>4, <2>11 DEF Asleep
    <3>2. want'[t] = want[t] /\ elapsed'[t] = elapsed[t] /\ debt'[t] = debt[t]
      BY <2>11, <3>1, Recorded
    <3>3. Balanced(t) /\ want[t] \in Int /\ elapsed[t] \in Int /\ debt[t] \in Int /\ sleep_ticks[t] \in Int
      BY <1>4, <3>1
    <3>4. CASE t = w
      <4>1. sleep_ticks'[t] = sleep_ticks[t] - 1 /\ t \in ToCount /\ t \notin ToCount'
        BY <1>3, <2>2, <2>10, <3>4
      <4> QED BY <2>5, <3>2, <3>3, <4>1 DEF Balanced
    <3>5. CASE t # w
      <4>1. sleep_ticks'[t] = sleep_ticks[t] /\ (t \in ToCount <=> t \in ToCount')
        BY <1>3, <2>2, <2>10, <3>5
      <4> QED BY <2>5, <3>2, <3>3, <4>1 DEF Balanced
    <3> QED BY <3>4, <3>5
  <2> QED BY <2>11, Recorded DEF TimingInv
<1> QED BY <1>5, <1>6

\* The tick handler's frames have one walk, whether the slice has expired or not.
LEMMA ShortTick ==
    ASSUME NEW a \in Frame, NEW b \in Frame, NEW c \in Frame,
           a.pc = "scan", b.pc # "scan", c.pc # "scan",
           NEW s, s = <<a, b, c>>
    PROVE  s \in Seq(Frame) /\ s # <<>> /\ s[1].pc # "walk" /\ ScanCount(s) = 1
<1>1. s \in Seq(Frame)
  OBVIOUS
<1>2. Len(s) = 3 /\ s[1] = a /\ s[2] = b /\ s[3] = c
  OBVIOUS
<1>3. s # <<>> /\ s[1].pc # "walk"
  BY <1>2
<1>4. ScanAt(s) = {1}
  <2>1. \A i \in 1..3 : s[i].pc = "scan" <=> i = 1
    BY <1>2
  <2> QED BY <1>2, <2>1 DEF ScanAt
<1>5. Cardinality({1}) = 1
  BY FS_Singleton
<1> QED BY <1>1, <1>3, <1>4, <1>5 DEF ScanCount

LEMMA LongTick ==
    ASSUME NEW a \in Frame, NEW b \in Frame, NEW c \in Frame, NEW d \in Frame, NEW f \in Frame,
           a.pc \notin {"scan", "walk"}, b.pc # "scan", c.pc # "scan", d.pc = "scan", f.pc # "scan",
           NEW s, s = <<a, b, c, d, c, f>>
    PROVE  s \in Seq(Frame) /\ s # <<>> /\ s[1].pc # "walk" /\ ScanCount(s) = 1
<1>1. s \in Seq(Frame)
  OBVIOUS
<1>2. Len(s) = 6 /\ s[1] = a /\ s[2] = b /\ s[3] = c /\ s[4] = d /\ s[5] = c /\ s[6] = f
  OBVIOUS
<1>3. s # <<>> /\ s[1].pc # "walk"
  BY <1>2
<1>4. ScanAt(s) = {4}
  <2>1. \A i \in 1..6 : s[i].pc = "scan" <=> i = 4
    BY <1>2
  <2> QED BY <1>2, <2>1 DEF ScanAt
<1>5. Cardinality({4}) = 1
  BY FS_Singleton
<1> QED BY <1>1, <1>3, <1>4, <1>5 DEF ScanCount

\* The tick handler's frames, for the slice that has expired and for the one that has not.
LEMMA TickScans ==
    ASSUME NEW e \in BOOLEAN
    PROVE  /\ TickCalls(e) \in Seq(Frame) /\ TickCalls(e) # <<>> /\ TickCalls(e)[1].pc # "walk"
           /\ ScanCount(TickCalls(e)) = 1
<1> DEFINE a == Call("log")
           b == Call("rotate")
           c == Call("dispatch")
           d == Call("scan")
           f == Iret(TRUE)
           s == TickCalls(e)
<1>1. /\ a \in Frame /\ a.pc = "log" /\ b \in Frame /\ b.pc = "rotate"
      /\ c \in Frame /\ c.pc = "dispatch" /\ d \in Frame /\ d.pc = "scan"
      /\ f \in Frame /\ f.pc = "iret"
  BY FrameType DEF Pcs
<1>2. e => s = <<a, b, c, d, c, f>>
  BY DEF TickCalls
<1>3. ~e => s = <<d, c, f>>
  BY DEF TickCalls
<1> HIDE DEF a, b, c, d, f, s
<1>4. CASE e
  <2>1. s \in Seq(Frame) /\ s # <<>> /\ s[1].pc # "walk" /\ ScanCount(s) = 1
    BY <1>1, <1>2, <1>4, LongTick
  <2> QED BY <2>1 DEF s
<1>5. CASE ~e
  <2>1. s \in Seq(Frame) /\ s # <<>> /\ s[1].pc # "walk" /\ ScanCount(s) = 1
    BY <1>1, <1>3, <1>5, ShortTick
  <2> QED BY <2>1 DEF s
<1> QED BY <1>4, <1>5

\* A timer interrupt: one walk more is to come, and one tick more has passed.
LEMMA TickTiming ==
    ASSUME IInv, IsFiniteSet(Task), TimingInv, Tick, RecordTick
    PROVE  TimingInv'
<1> DEFINE e == slice_ticks[curr_task] - 1 = 0
           fs == TickCalls(e) \o stack[curr_task]
<1>1. /\ irq[curr_task] /\ Becomes(fs)
      /\ UNCHANGED <<curr_task, sleep_list, sleep_ticks, halted>>
  BY DEF Tick, time_tick, Continue, Becomes, listVars
<1>2. curr_task \in Task /\ stack[curr_task] \in Seq(Frame) /\ stack \in [Task -> Seq(Frame)]
  BY DEF IInv, TypeOK, TaskTypeOK
<1>3. /\ TickCalls(e) \in Seq(Frame) /\ TickCalls(e) # <<>> /\ TickCalls(e)[1].pc # "walk"
      /\ ScanCount(TickCalls(e)) = 1
  BY TickScans
<1>4. fs \in Seq(Frame) /\ fs # <<>> /\ Head(fs).pc # "walk"
  <2> HIDE DEF e
  <2> DEFINE tc == TickCalls(e)
             st == stack[curr_task]
  <2>1. tc \in Seq(Frame) /\ tc # <<>> /\ tc[1].pc # "walk" /\ st \in Seq(Frame)
    BY <1>2, <1>3
  <2> HIDE DEF tc, st
  <2>2. tc \o st \in Seq(Frame) /\ tc \o st # <<>> /\ Head(tc \o st) = tc[1]
    BY <2>1
  <2> QED BY <2>1, <2>2 DEF tc, st
<1>5. ScanCount(fs) = 1 + ScanCount(stack[curr_task])
  <2>1. ScanCount(fs) = ScanCount(TickCalls(e)) + ScanCount(stack[curr_task])
    BY <1>2, <1>3, ScanConcat
  <2> QED BY <1>3, <2>1
<1> HIDE DEF fs
<1>6. PendingScans \in Int /\ PendingScans' = PendingScans + 1
  <2>1. /\ PendingScans \in Int /\ ScanCount(fs) \in Nat /\ ScanCount(stack[curr_task]) \in Nat
        /\ PendingScans' = PendingScans + ScanCount(fs) - ScanCount(stack[curr_task])
    BY <1>1, <1>4, ScanMove
  <2> QED BY <1>5, <2>1
<1>7. ~At("walk")
  <2>1. SUFFICES ASSUME At("walk") PROVE FALSE
    OBVIOUS
  <2>2. stack[curr_task] # <<>> /\ stack[curr_task][1].pc = "walk"
    BY <2>1, AtFacts
  <2>3. \A i \in 1..Len(stack[curr_task]) : stack[curr_task][i].pc \in OpenPcs
    BY <1>1, <1>2 DEF IInv, StackInv, Shape, ShapeIrq
  <2> QED BY <1>2, <2>2, <2>3 DEF OpenPcs
<1>8. ~At("walk")'
  <2>1. stack'[curr_task] = fs
    BY <1>1, <1>2 DEF Becomes
  <2> QED BY <1>1, <1>4, <2>1 DEF At
<1>9. ToCount = {} /\ ToCount' = {}
  BY <1>7, <1>8 DEF ToCount
<1>10. /\ want \in [Task -> Int] /\ elapsed \in [Task -> Int] /\ debt \in [Task -> Int]
       /\ want' = want /\ debt' = debt
       /\ elapsed' = [t \in Task |-> IF Asleep(t) THEN elapsed[t] + 1 ELSE 0]
  BY DEF TimingInv, RecordTick
<1>11. ASSUME NEW t \in Task, Asleep(t)' PROVE Balanced(t)'
  <2>1. Asleep(t)
    BY <1>1, <1>11 DEF Asleep
  <2>2. elapsed'[t] = elapsed[t] + 1
    BY <1>10, <2>1
  <2>3. Balanced(t) /\ want[t] \in Int /\ elapsed[t] \in Int /\ debt[t] \in Int /\ sleep_ticks[t] \in Int
    BY <1>10, <2>1 DEF TimingInv, IInv, TypeOK, TaskTypeOK
  <2> QED BY <1>1, <1>6, <1>9, <1>10, <2>2, <2>3 DEF Balanced
<1>12. elapsed' \in [Task -> Int]
  BY <1>10
<1> QED BY <1>10, <1>11, <1>12 DEF TimingInv

\* A timer interrupt is not a step of the task it interrupts.
LEMMA TickApart == ASSUME IInv, Running \/ ClientCall PROVE ~Tick
<1>1. SUFFICES ASSUME Tick PROVE FALSE
  OBVIOUS
<1>2. /\ curr_task \in Task /\ slice_ticks \in [Task -> Int] /\ stack \in [Task -> Seq(Frame)]
      /\ stack[curr_task] \in Seq(Frame)
  BY DEF IInv, TypeOK, TaskTypeOK
<1>3. slice_ticks' # slice_ticks
  <2>1. slice_ticks' = [slice_ticks EXCEPT ![curr_task] = @ - 1]
    BY <1>1 DEF Tick, time_tick
  <2>2. slice_ticks'[curr_task] = slice_ticks[curr_task] - 1 /\ slice_ticks[curr_task] \in Int
    BY <1>2, <2>1
  <2> QED BY <2>2
<1>4. stack[curr_task] = <<>> \/ stack'[curr_task] # Rest
  <2> DEFINE e == slice_ticks[curr_task] - 1 = 0
  <2>1. SUFFICES ASSUME stack[curr_task] # <<>>, stack'[curr_task] = Rest PROVE FALSE
    OBVIOUS
  <2>2. stack'[curr_task] = TickCalls(e) \o stack[curr_task]
    BY <1>1, <1>2 DEF Tick, time_tick, Continue
  <2>3. TickCalls(e) \in Seq(Frame)
    BY TickScans
  <2>4. Len(stack'[curr_task]) >= Len(stack[curr_task])
    <3> DEFINE tc == TickCalls(e)
               st == stack[curr_task]
    <3>1. tc \in Seq(Frame) /\ st \in Seq(Frame) /\ stack'[curr_task] = tc \o st
      BY <1>2, <2>2, <2>3
    <3> HIDE DEF tc, st
    <3>2. Len(tc \o st) >= Len(st)
      BY <3>1
    <3> QED BY <3>1, <3>2 DEF st
  <2>5. Len(Rest) = Len(stack[curr_task]) - 1 /\ Len(stack[curr_task]) \in Nat
    BY <1>2, <2>1, PopIndex DEF Rest
  <2> QED BY <2>1, <2>4, <2>5
<1> USE DEF mutexFrame, fieldVars
<1>5. ~Running
  <2>1. ~tick_rotate /\ ~task_init_end
    <3>1. tick_rotate \/ task_init_end => stack[curr_task] # <<>> /\ stack' = [stack EXCEPT ![curr_task] = Rest]
      BY DEF tick_rotate, task_init_end, At, Continue
    <3>2. tick_rotate \/ task_init_end => stack[curr_task] # <<>> /\ stack'[curr_task] = Rest
      BY <1>2, <3>1
    <3> QED BY <1>4, <3>2
  <2>2. Running => tick_rotate \/ task_init_end \/ UNCHANGED slice_ticks
    BY DEF Running, TaskStep, task_dispatch, irq_leave_protection, tick_scan, tick_walk, LogStart,
           LogEnd, gdt_alloc_desc, gdt_release, tss_init
  <2> QED BY <1>3, <2>1, <2>2
<1>6. ClientCall => UNCHANGED slice_ticks
  BY DEF ClientCall, sys_sched_yield, sys_sleep, Sti, irq_enable_global, ClientLog, ClientLock,
         ClientUnlock, sem_wait, sem_notify, semFrame, task_init
<1> QED BY <1>3, <1>5, <1>6

\* Every step keeps the account.
LEMMA TimingNextInv ==
    ASSUME IInv, IInv', IdleWaitInv, IsFiniteSet(Task), TimingInv, [TimingNext]_<<vars, timingVars>>
    PROVE  TimingInv'
<1>1. CASE Tick /\ RecordTick
  BY <1>1, TickTiming
<1>2. CASE (Running \/ ClientCall) /\ RecordSleep
  <2>1. CASE tick_walk
    BY <1>2, <2>1, WalkTiming
  <2>2. CASE tick_scan
    BY <1>2, <2>2, ScanTiming
  <2>3. CASE ~tick_walk /\ ~tick_scan
    <3>1. ~Tick
      BY <1>2, TickApart
    <3> QED BY <1>2, <2>3, <3>1, QuietTiming DEF Next
  <2> QED BY <2>1, <2>2, <2>3
<1>3. CASE UNCHANGED <<vars, timingVars>>
  <2>1. UNCHANGED <<want, elapsed, debt, sleep_list, sleep_ticks, stack, curr_task, halted, walk>>
    BY <1>3 DEF vars, taskVars, listVars, fieldVars, timingVars
  <2>2. PendingScans' = PendingScans /\ ToCount' = ToCount
    BY <2>1 DEF PendingScans, ToCount, At
  <2> QED BY <2>1, <2>2 DEF TimingInv, Balanced, Asleep
<1> QED BY <1>1, <1>2, <1>3 DEF TimingNext

\* TimingInvariant: in every run of the kernel the account of every sleeping task
\* balances, between two walks over the sleep list (task_time_tick, task.c:170) and in
\* the middle of one.
THEOREM TimingInvariant == ASSUME IsFiniteSet(Task) PROVE TimingSpec => [](IInv /\ TimingInv)
<1>1. TimingInit => IInv /\ IdleWaitInv /\ TimingInv
  BY InitIInv, InitTiming, InitDepth DEF TimingInit
<1>2. IInv /\ IdleWaitInv /\ TimingInv /\ [TimingNext]_<<vars, timingVars>>
      => IInv' /\ IdleWaitInv' /\ TimingInv'
  <2> SUFFICES ASSUME IInv, IdleWaitInv, TimingInv, [TimingNext]_<<vars, timingVars>>
               PROVE  IInv' /\ IdleWaitInv' /\ TimingInv'
    OBVIOUS
  <2>1. [Next]_vars
    BY DEF TimingNext, Next
  <2>2. IInv'
    BY <2>1, NextIInv, StutterIInv
  <2>3. IdleWaitInv'
    BY <2>1, IdleWaitNext
  <2> QED BY <2>2, <2>3, TimingNextInv
<1> QED BY <1>1, <1>2, PTL DEF TimingSpec

\* The numbers that the account adds up.
LEMMA AccountTypes ==
    ASSUME IInv, IsFiniteSet(Task), TimingInv, NEW t \in Task
    PROVE  /\ want[t] \in Int /\ elapsed[t] \in Int /\ debt[t] \in Int /\ sleep_ticks[t] \in Int
           /\ PendingScans \in Nat
<1>1. /\ curr_task \in Task /\ stack \in [Task -> Seq(Frame)] /\ stack[curr_task] \in Seq(Frame)
      /\ sleep_ticks[t] \in Int
  BY DEF IInv, TypeOK, TaskTypeOK
<1>2. want[t] \in Int /\ elapsed[t] \in Int /\ debt[t] \in Int
  BY DEF TimingInv
<1>3. PendingScans \in Nat
  <2> DEFINE n == Cardinality(OtherScans(stack, curr_task))
             k == ScanCount(stack[curr_task])
             all == Cardinality(UNION {{<<u, i>> : i \in ScanAt(stack[u])} : u \in Task})
  <2>1. all = n + k /\ n \in Nat
    BY <1>1, ScanSplit
  <2>2. k \in Nat
    BY <1>1, ScanAtFinite
  <2>3. PendingScans = all
    BY DEF PendingScans, ScanAt
  <2> HIDE DEF n, k, all
  <2> QED BY <2>1, <2>2, <2>3
<1> QED BY <1>1, <1>2, <1>3

\* TickAccountingAlways: every timer interrupt counts each sleeping task down exactly
\* once, sooner or later, for every number of tasks and every sequence of interrupts:
\* no tick is lost when the handler is suspended by the dispatch before its walk
\* (task.c:167-170), and none is counted twice.
THEOREM TickAccountingAlways == ASSUME IsFiniteSet(Task) PROVE TimingSpec => []TickAccounting
<1>1. IInv /\ TimingInv => TickAccounting
  <2> SUFFICES ASSUME IInv, TimingInv, NEW t \in Task, Asleep(t), ~At("walk")
               PROVE  want[t] - sleep_ticks[t] + PendingScans = elapsed[t] + debt[t]
    BY DEF TickAccounting
  <2>1. ToCount = {}
    BY DEF ToCount
  <2>2. Balanced(t)
    BY DEF TimingInv
  <2> QED BY <2>1, <2>2, AccountTypes DEF Balanced
<1> QED BY <1>1, TimingInvariant, PTL

\* AheadByDebt: at every moment, in the middle of a walk too, a sleeping task has been
\* counted down by at most the timer interrupts since it called sys_sleep plus the
\* walks that were due at that time.  So a task wakes early only by what suspended
\* tick handlers (task.c:167-170) still owed the sleep list when it was linked there.
THEOREM AheadByDebt ==
    ASSUME IsFiniteSet(Task)
    PROVE  TimingSpec =>
             [](\A t \in Task : Asleep(t) => want[t] - sleep_ticks[t] <= elapsed[t] + debt[t])
<1>1. IInv /\ TimingInv =>
        \A t \in Task : Asleep(t) => want[t] - sleep_ticks[t] <= elapsed[t] + debt[t]
  <2> SUFFICES ASSUME IInv, TimingInv, NEW t \in Task, Asleep(t)
               PROVE  want[t] - sleep_ticks[t] <= elapsed[t] + debt[t]
    OBVIOUS
  <2>1. Balanced(t)
    BY DEF TimingInv
  <2> QED BY <2>1, AccountTypes DEF Balanced
<1> QED BY <1>1, TimingInvariant, PTL
=============================================================================
