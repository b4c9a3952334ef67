# A verification of the ideal-linux-x86 kernel

ideal-linux-x86 is a small 32-bit x86 kernel: a boot sector and a loader, and a
kernel with hardware task switching, a round-robin scheduler driven by the timer,
mutexes, semaphores, a serial log, and the beginnings of memory management. This
directory holds TLA+ models of it, from the boot sector to the scheduler, TLC configurations that check them on small
instances, and proofs, checked by TLAPS, that hold for every instance.

## Inventory

Paths are under `src/source/kernel/` unless they start with `src/`.

| Part | State it keeps | Operations | Interacts with |
|---|---|---|---|
| task manager, `core/task.c` | `curr_task`; ready, sleep and task lists; per task: state, sleep and slice counters, TSS selector | `task_init`, `task_set_ready`, `task_set_block`, `task_dispatch`, `sys_sched_yield`, `sys_sleep`, `task_time_tick` | called by the tick handler and by mutexes and semaphores; calls the log and the GDT |
| timer, `dev/time.c` | `sys_tick` | `do_handler_time` | interrupts any task with IF set |
| interrupt protection, `cpu/irq.c` | the IF flag, saved per task in its TSS | `irq_enter_protection`, `irq_leave_protection` | brackets every operation on the lists |
| mutex, `ipc/mutex.c` | owner, lock count, wait list | `mutex_lock`, `mutex_unlock` | blocks and readies tasks, dispatches |
| semaphore, `ipc/sem.c` | count, wait list | `sem_wait`, `sem_notify` | the same |
| list, `tools/list.c` | first, last, count; pre and next in the nodes | insertion and removal | one node of a task moves between lists |
| log, `tools/log.c` | `log_mutex` | `log_printf` | called inside `task_dispatch` and inside the tick handler |
| GDT, `cpu/cpu.c` | descriptor table and its mutex | `gdt_alloc_desc`, `segment_desc_set` | `tss_init`, task switch |
| IDT, exceptions and PIC, `cpu/irq.c`, `init/start.S` | gates; mask, request and in-service registers | `irq_init`, `init_pic`, `irq_install`, `irq_enable`, `irq_disable`, `pic_send_eoi`, `do_default_handler` | delivers the tick; the exception handlers call the log and stop the machine |
| bitmap and page allocator, `tools/bitmap.c`, `core/memory.c` | bits, search index, mutex | `bitmap_alloc_nbits`, `addr_alloc_page`, `addr_free_page` | paging |
| paging, `core/memory.c`, `cpu/mmu.h` | page directory and tables | `memory_create_map`, `create_kernel_table`, `memory_create_uvm`, `memory_destroy_uvm` | page allocator |
| library, `tools/klib.c` | none | strings, memory, `kernel_itoa`, `kernel_vsprintf` | log, task names |
| boot sector and loader, `src/source/boot/`, `src/source/loader/` | regions found, physical memory, control registers | `detect_memory`, `read_disk`, `reload_elf_file`, `enable_page_mode`, `load_kernel` | hands memory regions and the kernel image to the kernel |
| start-up, `init/` | | straight-line set-up | calls the init function of every part |

The hard part is what happens between the parts. There is one CPU, but a switch can
happen in the middle of `task_dispatch`, which is called in the middle of other calls,
some of them interrupt handlers; `task_dispatch` and the tick handler themselves call
`log_printf`, which takes a mutex and can block. So calls of several tasks are open at
the same time, tick handlers wait suspended with half of their work to do, and
`log_printf` is re-entered by the task that is executing it. The exception handlers log
as well, so even the way to the halted machine can be suspended. Before all of that,
the loader and the kernel share physical memory without any allocator: file, segments,
bitmap, page tables and the loader's page directory have to keep clear of each other by
the addresses alone. What makes the kernel correct:

* scheduler: no task disappears from the lists or is linked twice; the running task is
  the one at the head of the ready list; ready tasks run and sleepers wake; a sleep
  lasts as long as was asked;
* interrupt protection: IF is clear wherever the lists are being changed, although the
  flag is saved and restored across task switches;
* mutex and semaphore: mutual exclusion, first come first served, no lost wake-up, no
  lost or doubled unit;
* log: the lock is balanced under re-entry, and the idle task, which cannot block,
  never finds it taken;
* GDT: every task has an entry of its own, so that a switch lands in the right task;
* lists: the pointers are those of a sequence;
* interrupts: a handler reads the frame that the processor and its stub pushed; a line
  is masked exactly if that was asked for; no tick stays pending because an earlier
  handler is suspended; the first exception gets its report written and stops the machine;
* page allocator: the pages given to a caller lie in the pool and are nobody else's;
* loader and paging: the kernel is in memory as it was linked and stays so; the pool is
  RAM; the directory that is in use maps what the kernel touches; no page is mapped
  twice;
* library: names, numbers and formats come out as their callers expect, at the limits of
  `int` and of the buffers too.

`PROJECT.json` lists each hazard at its line with the properties that cover it.

## Modules

| Module | Models | Notes |
|---|---|---|
| `ListOps` | a `list_t` as its callers see it: a sequence | used by every module below |
| `List` | `tools/list.c` with its pointers | checked and proved to represent those sequences |
| `Task` | `core/task.c`, the IF flag of `cpu/irq.c`, the tick of `dev/time.c` | |
| `Mutex`, `Sem` | `ipc/mutex.c`, `ipc/sem.c` | extend `Task` |
| `Kernel` | all of these on one CPU, with `log_printf`, `task_init` and the GDT; specification and safety properties | |
| `KernelInv` | the inductive invariant `IInv` | |
| `BlockingSync` | the abstract specification: locks, semaphores and sleep with no scheduler | |
| `KernelRefinement` | the mapping from the kernel to `BlockingSync` | |
| `SleepTiming` | the kernel with history variables for sleep times | |
| `Interrupts` | the kernel with IDT, stubs, 8259A, exceptions and the delivery of ticks; fairness and liveness | extends `Kernel`; `cpu/irq.c`, `init/start.S`, `dev/time.c` |
| `PageAlloc` | `tools/bitmap.c` and the page allocator of `core/memory.c` | on its own; the two runs of its findings give its constants directly |
| `Loader` | the boot sector and the loader | |
| `Memory` | paging and `memory_init` of `core/memory.c`, `cpu/mmu.h` | extends `Loader`: starts where the loader jumps into the kernel |
| `Klib` | the functions of `tools/klib.c` that are called, the text of `log_printf`, the loader's `int_to_str` | pure functions |
| `MCKernel`, `MCSleepTiming`, `MCInterrupts`, `MCBoot`, `MCTools` | instances for TLC | `MCTools` puts `List`, `Klib` and `PageAlloc` side by side |
| `ListLemmas` | lemmas about the list operations | |
| `KernelProof` | `IInv` is inductive, and what follows from it alone | |
| `KernelSafety` | the safety properties that need more than `IInv` | extends `KernelProof` |
| `ServiceProof` | the kernel implements `BlockingSync`; the account of ticks | extends `KernelSafety`, `KernelRefinement`, `SleepTiming` |
| `InterruptsProof` | frames, masks, and the kernel under interrupts and exceptions | extends `Interrupts`, `KernelProof` |
| `PageAllocProof` | the page allocator | |
| `BootInv` | the inductive invariant of `Loader` and `Memory` together | extends `Memory` |
| `BootProof` | it is inductive; the properties of `Memory` | extends `BootInv` |
| `ToolsProof` | the pointer lists; strings, numbers and formatted output | extends `List`, `Klib` |

### How the state corresponds to the code

`Task` has the fields of `task_manager_t` and `task_t` as variables, lists being
sequences of tasks. `irq[t]` is the IF flag that the processor saves in the TSS of
task `t`. `stack[t]` is the list of calls that task `t` has still to finish, next one
first: a frame such as `dispatch`, `leave` (an `irq_leave_protection` with the saved
flag), `iret`, `log` and `unlog` (the two halves of `log_printf`), `rotate`, `scan` and
`walk` (the parts of `task_time_tick`), or a part of `task_init`. One action executes
one frame of the current task up to the next place where a switch or an interrupt can
come. `task_dispatch` with a switch leaves `log` and `leave` on the old task's stack,
which is exactly what that task does when it is switched back to. The code between
`irq_enter_protection` and the next call that may switch cannot be interrupted and is
one step. `walk` is a variable of its own and not a field of the frame because the walk
over the sleep list runs with IF clear and calls nothing that switches.

`gdt_table[i]` is the task whose TSS the entry describes. A far jump to a selector
whose entry describes another task, or to no entry, sets `halted`: the processor faults
or runs the wrong task, and the model stops there.

`TaskInit` is the state after `task_manager_init` and `task_first_init`: the idle and
the first task exist and the first task runs with IF clear, as the loader left it.

A client task may make any of the calls in `Calls` whenever it runs its own code. The
idle task makes none: it executes `hlt`.

`List` keeps the pointer fields and, beside them, `view`: what the callers take each
list to be. The callers' contract (insert an unlinked node, remove a node from the list
it is in) is a guard over `view`; that the kernel respects it is what `OnePlace` and
`RunningIsHead` say.

`PageAlloc` has one action for each turn of the two loops of `bitmap_alloc_nbits`;
`inside` is the caller that holds the allocator's mutex (that mutexes exclude is shown by
`MutexConsistent` and `ImplementsSync`), and `held` is what each caller was given. A run
may be of several pages, which `addr_alloc_page` allows although `memory_create_uvm` asks
for one at a time. The branches for a page in use are modelled and never taken: because
of the finding below, no bit is ever 1.

`Interrupts` adds the registers of the 8259A (`imr`, `irr`, `isr`), modelled from how the
code uses it: a line that is raised stays pending; it is delivered when IF is set, unless
it is masked or a line at least as urgent is in service, which lasts until the EOI.
`do_handler_time` is the `Tick` of `Kernel` behind that condition, with the EOI. An
exception, or an interrupt without a handler, drops the stack of the current task (it
never goes back), clears IF and leaves `report` messages to log through the ordinary
`log_printf`, with all its waiting and switching; then the machine is stopped. The gate
table and the numbers and error codes the stubs push are data, translated entry by
entry; `frame(v)` is what a handler reads. `irq_enable` and `irq_disable` read the mask
with `inb` and write it back with `outb`, and nothing protects the two: `driver_read` and
`driver_write` are separate steps, `mask[t]` is what task `t` is about to write in between,
and a tick may come there. `asked` is a history variable: the lines for which `irq_enable`
was the last call that returned. There are no drivers but the timer in the repository, so
these calls come from the environment (the tasks in `Drivers`). Exceptions come from a
task's own code, between two calls of the kernel; that the kernel's own code raises none
is not shown.

`Loader` and `Memory` share `ram`, a function from addresses to words. A page has 16
words instead of 1024 entries, and everything else is in proportion: an entry of the
directory covers 256 words (4 MB), the directory 4096 (4 GB, which is also where
addresses wrap), and 1 MB is at 128. A word of the model holds one entry or one byte of
the kernel. An ELF file is a record: whether its magic is right, its program headers,
its words, and the symbols that `kernel.lds` defines. The loop over the memory map, the
loop over the program headers and the loops that map the kernel's regions are one action
per turn; the bitmap is in `ram`, where the code puts it. `find_pte` and the `CONSOLE_*`
addresses are used but defined nowhere in the repository, and `memory_init` calls
`create_kernel_table` as `creat_kernel_tables`. The model takes the call for what it is
meant to be, `find_pte` from its uses in `memory_create_map`, and the page of the text
screen for the console.

`Klib` keeps the last call with its arguments and its result in `klib`. Strings are
sequences of characters without the NUL; an `int` has `INT_MAX`, and `/` and `%`
truncate towards 0 as in C. The result of `kernel_strncpy` is the destination with one
character on either side of it. The loops are recursive functions: the digits of a number
from the last one on, which `reversed` then turns around, and the state of
`kernel_vsprintf` after each character of the format. A message is a sequence of pieces, a
character or a directive with its argument, and each piece says what it is to be replaced
by. `MCTools` uses the lists, the page allocator and these functions one at a time, each
while the others are in their initial state, so that the state spaces add up and do not
multiply; they share nothing.

## Runs

Bounds: 2 to 4 tasks besides the idle task (three are needed for one task to run, one
to own the log and one to wait for it), slices of 1 or 2 ticks (so that slices expire
both at once and after a tick that did not end them), sleeps of 1 and 2 ticks, nesting
of client mutexes up to 2 (`MaxLocked`), semaphore counts up to 1 (`MaxCount`), `uint32_t`
as arithmetic modulo 65536 (`UINT_MOD`; only the wrap matters). The stacks are not
bounded by a constraint: `StackBounded` shows that they cannot grow. Deadlock is checked
in every passing run. `ipc` uses symmetry over the created tasks, which nothing tells
apart; its properties are all safety.

For `Interrupts`: the timer and a line without a handler, exceptions with and without
an error code and one without a gate of its own, one driver, one message per report
(`ReportLines`; each is a complete `log_printf`; `live` was repeated with two and three).
For `Memory`: memory maps with one block, a hole, more
entries than the loader asks for, RAM above 4 GB and too little RAM, the BIOS failing
after any entry, and kernels with the text ending at a page boundary, inside a page, and
with a bad magic. For `Klib`: an `int` of 11 bits, every one of its values in every base;
strings of up to four characters with buffers of 0 to 6; messages of up to three pieces
and a buffer that they can fill.

| Run | Checks | Shows |
|---|---|---|
| `sched` | `TypeOK`, `NoTaskLost`, `OnePlace`, `RunningIsHead`, `IrqDiscipline`, `LogBalanced`, `LogOwnerRunnable`, `StateMatchesList`, `SliceRunning`, `SwitchSafe`, `StackBounded`, `TickAccounting` | tasks that sleep, log and are created while ticks preempt them keep lists, states, flags and the log lock consistent, and every tick counts every sleeper down exactly once, sooner or later; one task creates the others, and sleeps are of 1 tick or more |
| `ipc` | `IInv`, `MutexConsistent`, `SemNoLostUnit`, `ImplementsSync` | with a client mutex, a semaphore and the log the inductive invariant holds, and every step is a step of `BlockingSync` or none |
| `live` | `ReadyRuns`, `SleeperWakes`, `LogGranted`, `TickServed`, `FaultStops` | under fairness, ready tasks run, sleepers wake, waiters for the log get it, pending ticks are served, all of it unless an exception has stopped the machine; the task that raises the first exception writes its whole report and is the one that stops it |
| `irq` | `FrameTrue`, `MaskAsAsked` | gates, stubs and frames agree for the handlers that are entered; `irq_enable` unmasks its line only, also when the driver is preempted between `inb` and `outb` |
| `tools` | `ListTypeOK`, `Represents`, `UnlinkedClear`, `StrncpyExact`, `NumberRoundTrip`, `FormatExpands`, `AllocTypeOK`, `OverrunAtMostOne`, `OverlapAtMostOne` | the pointers of two lists that share five nodes; the library functions against what their results have to mean; three callers that take and give back runs of 1 to 3 pages from a pool of 6 |
| `boot` | `KernelIntact`, `PoolInRam`, `SelfMapped`, `PanicOnlyShared` | the kernel is loaded as linked and never overwritten; the pool is RAM; the loader's directory maps all that is touched; the assertion against double mapping fails only for a text that ends inside a page |
| `sleep_zero` | `NoTaskLost`, violated | `sys_sleep(0)` loses the task |
| `gdt_race` | `SwitchSafe`, violated | two creators at once share a GDT entry |
| `early_wake` | `NeverAhead`, violated | a walk that was put off wakes a later sleeper early |
| `page_shared` | `HeldDisjoint`, violated | two callers are given the same page |
| `page_overrun` | `RunInPool`, violated | a caller is given a run that ends behind the pool |
| `irq_mask` | `MaskAsAsked`, violated | `irq_disable` masks every line but its own |

The six violated properties are findings of `PROJECT.json`; the passing runs use
instances that stay clear of them (sleeps of at least one tick, one creator, no
`irq_disable` of a line), so that they show what holds otherwise. `OverlapAtMostOne` is
what is left of `HeldDisjoint`, and `OverrunAtMostOne` of `RunInPool`: both are weaker than
what the allocator should do. When the GDT is full, `tss_init` fails, `task_init`
goes on, and `SwitchSafe` fails as well; the instances have entries enough, and no run
shows it.

Some properties have a condition because the code keeps them only under it. `PoolInRam`
needs RAM in one block from 1 MB on, and at least 1 MB found: with a hole or less RAM
the pool reaches addresses that are not RAM, as the comment in `memory.c` half admits.
`StrncpyExact` needs two characters of room: with one the last character of the name is
lost, with none the NUL is written behind the buffer. `NumberRoundTrip` is about every
`int` in base 10, and about numbers that are not negative in the other bases and for
`int_to_str`. What those make of a negative number is modelled and nothing is required of
it: `kernel_itoa` drops the sign, so that `%x` does not show an address above 2 GB as it is,
and `int_to_str` puts the sign behind the digits. `PanicOnlyShared` names the one layout
for which the kernel stops. `SelfMapped` holds because the allocator gives out the same
page again and again: once that is repaired, pages above the 4 MB that the loader maps will
be used. `FaultStops` is about the first exception: a second task that raises one while
the first waits for the log queues behind it, and its report may be cut off by the halt.
`MaskAsAsked` is checked for lines of the master (for a line of the slave `irq_enable`
writes the wrong register) and for one driver. With `Drivers = {first, a}` it fails: `first`
reads the mask and is preempted, `a` enables its line, and `first` writes the mask that it
read over it.

### Fairness

`InterruptSpec` assumes weak fairness of the frames the current task executes (the CPU
goes on), of a driver's `outb` and of the exception handler's next message, weak fairness of `Raise(0)` (the
PIT is periodic), strong fairness of `do_handler_time` (the line stays pending in the PIC
while IF is clear, and is delivered once it is set and nothing more urgent is in
service: a missing EOI disables it for good), strong fairness of finishing a log message
with IF set (the message is finite; ticks interrupt it but each handler returns), and
strong fairness of `sti` for a task that runs its own code with IF clear. The last is
an assumption on client code: a task that keeps interrupts off for ever is never
preempted, and the kernel has no means against it. Nothing is assumed of the other
client calls, of exceptions or of the other lines.

## Proofs

`KernelProof` proves `Spec => []IInv` for every set of tasks, mutexes and semaphores,
every slice length, sleep time and GDT size that meets the assumptions named in `Task`,
`Mutex`, `Sem` and `Kernel`. From it follow `TypeOK`, `OnePlace`, `RunningIsHead`,
`IrqDiscipline`, `LogOwnerRunnable` and `MutexConsistent`; `SemNoLostUnit` is inductive
together with `TypeOK`.

Why `IInv` is what it is: what a task will do next is on its stack, so an invariant of
the lists can be preserved only if the stacks are known. `StackInv` says which stacks
arise: with IF set there is nothing on the stack that needs it clear (`ShapeIrq`);
every part of the tick handler that changes a list is followed by a dispatch
(`ShapeTick`); `log_printf` is open twice only when the inner call runs in a region
with interrupts off, and is then the call being executed (`ShapeLog`); the idle task
has at most tick handlers (`IdleShape`). `Suspended` says that a task that does not run
stopped inside `task_dispatch`. `RunInv` and `WalkInv` tie the running task and the
walk's pointer to the lists, `ListInv` and `LinkInv` say what is linked where,
`MutexInv` and `LogInv` account for the locks, and `InitInv` for the tasks that are
being created. `KernelProof` begins with what pushing and popping frames does to the
shapes and then has one lemma per action; `ListLemmas` has what the list operations do to
the set of nodes.

`KernelSafety` proves the safety properties that `IInv` does not imply, each with an
invariant of its own that is inductive relative to `IInv`:

* `NoTaskLost`, under the hypothesis `NoZeroSleep` that no argument of `sys_sleep` makes
  0 ticks: that is the finding of `sleep_zero`. `OnlyZeroSleepLoses` says without any
  hypothesis that no other step loses a task.
* `StateMatchesList`: `StateInv` adds that the current task, while it is in the ready
  list, is `TASK_READY` or the first of that list, which is what a switch away from it
  needs.
* `LogBalanced`: what `LogInv` counts, and `HaltInv`: a machine stopped by a bad switch
  does not stop in the second half of `log_printf`.
* `SliceRunning` rests on `IdleWaitInv`: nobody waits for the log while the idle task
  owns it, so that no hand-off suspends the idle task.
* `StackBounded`: `DepthInv` bounds, for each kind of frame, what may lie under it
  (`FrameFits`); the one exception is a dispatch that will not switch or that a
  `log_printf` pushed which has to wait. No stack longer than 13 meets it.
* `SwitchSafe`, under `OneCreator` (with two, `gdt_race` shows the failure) and
  `EnoughEntries` (a GDT entry for every task; when the table is full `task_init` goes
  on without one). `GdtInv` says whose entry each used one is, and that the entry a
  `task_init` in progress has found is still free; that one is free is a counting
  argument over the finite set of tasks.

`ServiceProof` proves that the kernel implements `BlockingSync`: `Spec => ImplementsSync`,
with one lemma per operation. A lock, an unlock, a wait, a notification, a sleep and a
turn of the walk that wakes a task are steps of `BlockingSync`; everything else, the
dispatches and the tick handler among it, changes nothing of what it sees. The lemma
that makes it go through is `RunsUnblocked`: the task that executes is in no wait list
and not asleep.

It also proves `TickAccounting`, for any finite set of tasks. Between two walks over the
sleep list it is a sum; to be inductive it has to balance in the middle of a walk too,
where some sleepers have been counted down and others not. `TimingInv` adds 1 for each
sleeper that the walk has still to come to (`ToCount`, the nodes from the walk's
pointer on), so the walk's step moves one task from one side to the other. The walks
still due are frames on the stacks of any number of suspended tasks: the lemmas about
`ScanCount` say how pushing, popping and splitting change their number. `AheadByDebt`
follows: a sleeper wakes early by no more ticks than suspended handlers owed the list
when it was linked there, which is the extent of the finding of `early_wake`.

`InterruptsProof` proves `FrameTrue` from the tables of gates and stubs, for every vector
of the IDT, and `MaskAsAsked` under `MasterOnly` and `OneDriver`: one task at most calls
`irq_enable`, for lines of the master, and no line is disabled (`irq_mask` shows what
`irq_disable` does). The strengthening, `MaskInv`, says that what the driver is about to
write is the register as it still is, without its line; a second driver breaks just that.
`KernelThroughExceptions` carries
`IInv` over to the kernel with its interrupts: ticks as the 8259A delivers them,
exceptions and their reports keep it, and no line stays in service, up to the first
interrupt that no handler was installed for; that one drops whatever the task was doing,
a held `log_mutex` included. `KernelUnderInterrupts` discharges the condition for the
system as it is (`TimerOnly`): `irq_enable(IRQ0_TIMER)` is the only call of its kind, and
with the slave's lines masked line 2 stays silent. It needs no `OneDriver`: whoever reads
the mask reads the same, and writes it back (`TimerInv`).

`ToolsProof` proves that `Represents`, `UnlinkedClear` and the types hold for any number
of lists and nodes: one lemma per operation, with `list_remove_first` shown to be a case
of `list_remove`. With `OnePlace` this is why the other modules may use sequences.

`PageAllocProof` proves `OverrunAtMostOne`, `OverlapAtMostOne` and the types for any pool,
callers and requests, and `RunInPool` for requests of single pages, the only ones that the
kernel makes (`SinglePagesInPool`). The strengthening says where the search is: the run looked at goes
from `ok_idx` to `search_idx`, its first page counted twice (`SearchInv`), and everything
held lies before it (`HeldInv`).

`BootProof` proves `MemorySpec => []BootInv`, and from it the four properties of the `boot`
run, for every memory map, every kernel file and every page size that the assumptions
admit. There is no allocator between the parts that write physical memory, so the
argument is one of addresses, step by step:

* the file that `read_disk` has put at 1 MB is not overwritten while segments are copied
  out of it, and a segment not by a later one, nor by the `memset` behind it (`FileInv`);
* every later write is outside of the kernel: to the bitmap, which lies behind
  `mem_free_start` and below the EBDA, to the one page that `bitmap_alloc_nbits` ever gives
  out, or to `kernel_page_dir`. That it is only one page follows from the finding of
  `page_shared`: the search never marks a bit and starts at 0 again (`BitmapInv`), so all
  entries of the kernel's directory point to the same table (`DirInv`);
* `SelfMapped`: that page and everything below it is in the first 4 MB, which the
  loader's single entry maps, and nothing writes to that entry (`PagingInv`);
* `PoolInRam`: the sum over the regions found is at most the end of the last of them, as
  regions ascend (`TotalInv`). With RAM in one block from 1 MB on this bounds the pool;
* `PanicOnlyShared`: although all directory entries share one table, a page is found mapped
  only if it was mapped before: what is mapped lies below the page that comes next
  (`Frontier`, `MapInv`), and regions that begin at page boundaries do not make the
  frontier go back.

The assumptions are those of the build and of the machine. `AddressAssumption`: the order
of the EBDA, the console and 1 MB, the last with a page more inside the first 4 MB.
`LayoutAssumption`: what `kernel.lds` and the makefile make, a kernel linked behind the
loader (0x10000, the loader having at most 64 sectors from 0x8000 on) and below the place
the file is read to, with segments that do not overlap and the page directory in the bss.
`LoaderAssumption`: the file is not longer than what is read, and no segment has more in
the file than in memory. `MemoryMapAssumption` is external: a BIOS reports at least one
region, and RAM by ascending addresses without overlaps. TLC evaluates all of them on the
instance of `boot`.

`ToolsProof` also proves the three properties of `Klib`: `StrncpyExact` for every string and
size, `NumberRoundTrip` for an `int` of any width, `FormatExpands` for messages of any
number of pieces. The last two are inductions over data. The library's induction theorems
cannot be instantiated by the provers, but `WFMin` can: a set of naturals that is not
empty has a least member (`SmallestNat`), so each induction is an argument about the least
counterexample. In this way the recursive functions are shown to exist (`DigitsExist`,
`HornerExists`, `JoinedExists`, `FormatExists`), after which the `CHOOSE` that defines
them is known to satisfy its equation. Then:

* `DigitsValue`: read from the other end, the digits of `n` stand for `n` and do not begin
  with 0; the step is that `reversed` puts the digit of the remainder behind the digits of
  the quotient (`ReversedCons`), and that this multiplies by the base and adds
  (`HornerAppend`). It needs of a digit table only that it has the right characters for
  the remainders of one sign (`GoodDigits`): `ItoaDigits` shows that for both signs of
  `numchar`, its left half being its right half mirrored, which is why `INT_MIN` comes out
  right although it cannot be negated; `LoaderDigits` for positive remainders only.
* `PiecesFormatted`: after the characters of the first `j` pieces, `kernel_vsprintf` is
  outside of a directive, has written their texts and has taken their arguments.

`NoZeroSleep`, `OneCreator`, `MasterOnly` and the single pages of `SinglePagesInPool` each
exclude a finding, and the run of that finding shows that the hypothesis is needed;
`OneDriver` excludes the race described above; `EnoughEntries`, the finite set of tasks and
`TimerOnly` describe the system the theorems are about.
`TimingInv`, the invariants of `InterruptsProof` and `BootInv` were model-checked on the
instances of `sched`, `irq` and `boot` before they were proved.

With that every invariant and every action property of a passing run is a theorem. Only
model-checked: liveness (`live`), as the prover does neither fairness nor `ENABLED`; and the
six violations, which are counterexamples.

## Not modelled

* In the library, `kernel_strcpy`, `kernel_strncmp`, `kernel_memcmp`, `kernel_memcpy` and
  `kernel_sprintf`, which nothing calls.
* The bit layout of descriptors and gates, and the loader's own GDT.
* The programming sequence of the 8259A (its result is `init_pic`) and of the PIT, and
  the serial port: port I/O with no answer that the code looks at.
* The text of the exception reports and of the boot messages.
* The CR3 that `task_first_init` loads: `tss_init` leaves it 0, so that paging goes on
  with whatever lies at address 0. It is listed as a hazard; the modules of the tasks
  abstract from paging.
* A kernel file longer than the 500 sectors that `read_disk` reads: `LoaderAssumption`
  excludes it.
* `TASK_WAITTING` is declared and never assigned. `sem_count` changes nothing.

## Plan

1. Done: lists, scheduler, tick, protection, mutex, semaphore, log, GDT; the abstract
   specification and the refinement; the inductive invariant and its proof; the bitmap
   and the page allocator.
2. Done: the interrupt controller, gates and exceptions with liveness down to the
   delivery of ticks; the loader and paging; the library.
3. Done: the theorems for every safety property of `Kernel`, `SleepTiming`, `Interrupts`,
   `List` and `PageAlloc` that a run checks, and the refinement of `BlockingSync`.
4. Done: the theorems about the way from the boot sector to the kernel's page tables, and
   about the library.
5. Open: which of the kernel's properties survive an interrupt without a handler; the
   directory that `task_first_init` loads, which needs tasks and paging in one module.
