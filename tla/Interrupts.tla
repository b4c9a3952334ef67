----------------------------- MODULE Interrupts -----------------------------
(***************************************************************************)
(* The kernel with its interrupts: the IDT and the mask registers set up   *)
(* by cpu/irq.c, the handler stubs of init/start.S, the timer interrupt of *)
(* dev/time.c as the 8259A delivers it, and do_default_handler, where      *)
(* every exception ends: it writes a report to the log and halts.          *)
(*                                                                         *)
(* The 8259A is modelled from how the code uses it: a line that is raised  *)
(* stays pending; it is delivered once IF is set, unless it is masked or a *)
(* line at least as urgent is in service, which lasts until the EOI.       *)
(***************************************************************************)
EXTENDS Kernel

CONSTANTS
    Faults,          \* the exceptions that client code raises
    RaisedLines,     \* the lines of the master 8259A that devices raise
    Drivers,         \* the tasks that call irq_enable and irq_disable
    EnableIrqs,      \* what they pass to irq_enable
    DisableIrqs,     \* and to irq_disable
    ReportLines      \* the messages that do_default_handler logs

IRQ_PIC_START == 32
IRQ0_TIMER == 32
IDT_TABLE_NR == 128

ASSUME InterruptAssumption ==
    /\ Faults \subseteq 0..31
    /\ RaisedLines \subseteq 0..7 /\ 0 \in RaisedLines
    /\ Drivers \subseteq Task
    /\ EnableIrqs \cup DisableIrqs \subseteq 0..(IRQ_PIC_START + 15)
    /\ ReportLines \in Nat \ {0}

VARIABLES
    imr,         \* the mask registers: the masked lines of each 8259A
    irr, isr,    \* the lines of the master that are pending, and in service
    fault,       \* the exception or interrupt that each task's report is about
    report,      \* the messages of the report that are still to come
    mask,        \* what each task is about to write to the master's mask register
    asked        \* the lines for which irq_enable was the last call that returned

irqVars == <<imr, irr, isr, fault, report, mask, asked>>
allVars == <<vars, irqVars>>

NoFault == -1

-----------------------------------------------------------------------------
(* The IDT, and the stubs its gates lead to.                               *)

\* irq_init: the vector of each gate that does not lead to the unknown handler.
ExceptionGates ==
    [divider |-> 0, Debug |-> 1, NMI |-> 2, breakpoint |-> 3, overflow |-> 4,
     bound_range |-> 5, invalid_opcode |-> 6, device_unavailable |-> 7,
     double_fault |-> 8, invalid_tss |-> 10, segment_not_present |-> 11,
     stack_segment_fault |-> 12, general_protection |-> 13, page_fault |-> 14,
     fpu_error |-> 16, alignment_check |-> 17, machine_check |-> 18,
     smd_exception |-> 19, virtual_exception |-> 20]

irq_init ==
    [v \in 0..(IDT_TABLE_NR - 1) |->
        IF \E h \in DOMAIN ExceptionGates : ExceptionGates[h] = v
        THEN CHOOSE h \in DOMAIN ExceptionGates : ExceptionGates[h] = v
        ELSE "unknown"]

irq_install(idt, irq_num, handler) ==
    IF irq_num >= IDT_TABLE_NR THEN idt ELSE [idt EXCEPT ![irq_num] = handler]

\* The table after irq_init and time_init; it does not change any more.
idt_table == irq_install(irq_init, IRQ0_TIMER, "time")

\* The number each stub pushes.
StubNum ==
    [unknown |-> -1, divider |-> 0, Debug |-> 1, NMI |-> 2, breakpoint |-> 3,
     overflow |-> 4, bound_range |-> 5, invalid_opcode |-> 6, device_unavailable |-> 7,
     double_fault |-> 8, invalid_tss |-> 10, segment_not_present |-> 11,
     stack_segment_fault |-> 12, general_protection |-> 13, page_fault |-> 14,
     fpu_error |-> 16, alignment_check |-> 17, machine_check |-> 18,
     smd_exception |-> 19, virtual_exception |-> 20, time |-> IRQ0_TIMER]

\* Mutant: the page fault's stub is written without with_error_code.
Mutant_WithErrorCode ==
    {"double_fault", "invalid_tss", "segment_not_present", "stack_segment_fault",
     "general_protection", "alignment_check"}

\* The stubs for exceptions with an error code; the others push a 0 instead.
WithErrorCode ==
    {"double_fault", "invalid_tss", "segment_not_present", "stack_segment_fault",
     "general_protection", "page_fault", "alignment_check"}

\* The exceptions for which the processor pushes an error code.
PushesErrorCode == {8, 10, 11, 12, 13, 14, 17}

\* What the processor and then the stub push, last word first.
Pushed(v) ==
    (IF idt_table[v] \in WithErrorCode THEN <<>> ELSE <<"zero">>)
    \o (IF v \in PushesErrorCode THEN <<"error code">> ELSE <<>>)
    \o <<"eip", "cs", "eflags">>

\* The exception_frame_t that the handler reads, and the frame that is left for iret
\* when the stub has dropped err_code and num.
frame(v) == [num |-> StubNum[idt_table[v]], err_code |-> Pushed(v)[1], eip |-> Pushed(v)[2]]

-----------------------------------------------------------------------------
(* The mask registers.                                                     *)

\* Every line masked but the one of the slave.
init_pic == [pic0 |-> 0..7 \ {2}, pic1 |-> 0..7]

\* What irq_enable makes of the mask that inb read.
EnableBits(m, line) == IF line < 8 THEN m.pic0 \ {line} ELSE m.pic1 \ {line - 8}

\* What irq_disable may make of it.  For a line of the slave the shift count is
\* negative, which C leaves undefined: any bits may be or-ed into the mask.
DisableBits(m, line) ==
    IF line < 8 THEN {m.pic0 \cup ((0..7) \ {line})} ELSE {m.pic1 \cup b : b \in SUBSET (0..7)}

NoMask == [bits |-> {}, line |-> -1, on |-> FALSE]

\* Mutant: the mask is not read first, all other lines are masked.
Mutant_irq_enable(irq_num) ==
    LET line == irq_num - IRQ_PIC_START
    IN  IF irq_num < IRQ_PIC_START THEN UNCHANGED mask
        ELSE mask' = [mask EXCEPT ![curr_task] =
                         [bits |-> (0..7) \ {line}, line |-> line, on |-> TRUE]]

\* irq_enable up to inb.  A number below IRQ_PIC_START is no line.
irq_enable(irq_num) ==
    LET line == irq_num - IRQ_PIC_START
    IN  IF irq_num < IRQ_PIC_START THEN UNCHANGED mask
        ELSE mask' = [mask EXCEPT ![curr_task] =
                         [bits |-> EnableBits(imr, line), line |-> line, on |-> TRUE]]

\* irq_disable up to inb.
irq_disable(irq_num) ==
    LET line == irq_num - IRQ_PIC_START
    IN  IF irq_num < IRQ_PIC_START THEN UNCHANGED mask
        ELSE \E b \in DisableBits(imr, line) :
                mask' = [mask EXCEPT ![curr_task] = [bits |-> b, line |-> line, on |-> FALSE]]

Driving == AtBase /\ curr_task \in Drivers /\ fault[curr_task] = NoFault

\* A driver's call, up to inb.  It is not protected: with IF set, the task may be
\* preempted before outb.
driver_read ==
    /\ Driving
    /\ mask[curr_task] = NoMask
    /\ \/ \E n \in EnableIrqs : irq_enable(n)
       \/ \E n \in DisableIrqs : irq_disable(n)
    /\ UNCHANGED <<vars, imr, irr, isr, fault, report, asked>>

\* outb, and the return: always to the register of the master, also for a line of the
\* slave.
driver_write ==
    /\ Driving
    /\ mask[curr_task] # NoMask
    /\ LET w == mask[curr_task]
       IN  /\ imr' = [imr EXCEPT !.pic0 = w.bits]
           /\ asked' = IF w.on THEN asked \cup {w.line} ELSE asked \ {w.line}
    /\ mask' = [mask EXCEPT ![curr_task] = NoMask]
    /\ UNCHANGED <<vars, irr, isr, fault, report>>

-----------------------------------------------------------------------------
(* Delivery of interrupts.                                                 *)

\* A device raises its line.
Raise(l) ==
    /\ l \notin irr
    /\ irr' = irr \cup {l}
    /\ UNCHANGED <<vars, imr, isr, fault, report, mask, asked>>

\* The 8259A presents its most urgent line.
Presented(l) ==
    /\ l \in irr \ imr.pic0
    /\ \A k \in irr \ imr.pic0 : l <= k
    /\ \A k \in isr : l < k

\* Mutant: no EOI is sent.
Mutant_pic_send_eoi(s, irq_num) == s

\* The EOI ends the service of the most urgent line.  (To the slave it goes as well
\* for a line of the slave; none is ever delivered from there.)
pic_send_eoi(s, irq_num) == {k \in s : \E j \in s : j < k}

\* The timer interrupt.  The EOI is sent first; no other handler can come before the
\* switch that task_time_tick may make, as IF is clear.
do_handler_time ==
    /\ Presented(0)
    /\ Tick
    /\ irr' = irr \ {0}
    /\ isr' = pic_send_eoi(isr \cup {0}, IRQ0_TIMER)
    /\ UNCHANGED <<imr, fault, report, mask, asked>>

\* The current task enters do_default_handler, which it never leaves: whatever it was
\* doing is not gone on with.  All gates are interrupt gates, which clear IF.
DefaultHandler(v) ==
    /\ stack' = [stack EXCEPT ![curr_task] = <<>>]
    /\ irq' = [irq EXCEPT ![curr_task] = FALSE]
    /\ fault' = [fault EXCEPT ![curr_task] = v]
    /\ report' = [report EXCEPT ![curr_task] = ReportLines]
    /\ mask' = [mask EXCEPT ![curr_task] = NoMask]
    /\ UNCHANGED <<curr_task, listVars, fieldVars, gdtVars, walk, halted,
                   mutexVars, semVars, initVars, imr, asked>>

\* An interrupt that no handler was installed for.
DeviceInterrupt(l) ==
    /\ idt_table[IRQ_PIC_START + l] = "unknown"
    /\ Presented(l)
    /\ ~halted
    /\ irq[curr_task]
    /\ irr' = irr \ {l}
    /\ isr' = isr \cup {l}
    /\ DefaultHandler(IRQ_PIC_START + l)

\* A task's own code raises an exception, between two calls of the kernel.
Exception(v) ==
    /\ AtBase
    /\ fault[curr_task] = NoFault
    /\ mask[curr_task] = NoMask
    /\ DefaultHandler(v)
    /\ UNCHANGED <<irr, isr>>

Reporting == ~halted /\ fault[curr_task] # NoFault /\ stack[curr_task] = <<>>

\* Mutant: the handler goes on logging.
Mutant_do_default_handler ==
    /\ Reporting
    /\ report[curr_task] > 0
    /\ log_printf(<<>>)
    /\ UNCHANGED <<mutexFrame, state, gdtVars, semVars, initVars, irqVars>>

\* The handler's next message.  log_printf may find log_mutex taken, and then other
\* tasks run on until it is handed to this one.
do_default_handler ==
    /\ Reporting
    /\ report[curr_task] > 0
    /\ log_printf(<<>>)
    /\ report' = [report EXCEPT ![curr_task] = @ - 1]
    /\ UNCHANGED <<mutexFrame, state, gdtVars, semVars, initVars,
                   imr, irr, isr, fault, mask, asked>>

\* hlt with IF clear, for ever.
Stopped == Reporting /\ report[curr_task] = 0

Halt == Stopped /\ UNCHANGED allVars

-----------------------------------------------------------------------------

InterruptInit ==
    /\ KernelInit
    /\ imr = [init_pic EXCEPT !.pic0 = EnableBits(init_pic, IRQ0_TIMER - IRQ_PIC_START)]
    /\ irr = {}
    /\ isr = {}
    /\ fault = [t \in Task |-> NoFault]
    /\ report = [t \in Task |-> 0]
    /\ mask = [t \in Task |-> NoMask]
    /\ asked = {2, 0}

CpuStep == Running /\ UNCHANGED irqVars

Client ==
    /\ fault[curr_task] = NoFault
    /\ mask[curr_task] = NoMask
    /\ ClientCall
    /\ UNCHANGED irqVars

InterruptNext ==
    \/ CpuStep \/ Client \/ driver_read \/ driver_write
    \/ \E l \in RaisedLines : Raise(l)
    \/ do_handler_time
    \/ \E l \in RaisedLines : DeviceInterrupt(l)
    \/ \E v \in Faults : Exception(v)
    \/ do_default_handler
    \/ Halt

(***************************************************************************)
(* Fairness.  The CPU goes on with the call it executes; the PIT goes on   *)
(* raising its line; an interrupt that is presented is taken sooner or     *)
(* later when IF is set again and again; between two ticks a task gets its *)
(* message written (LogEnd is interrupted, but not forever at the same     *)
(* place); and a task that runs with IF clear sets it sooner or later, as  *)
(* a task that is never preempted starves the others.                      *)
(***************************************************************************)
Fairness ==
    /\ WF_allVars(CpuStep)
    /\ WF_allVars(driver_write)
    /\ WF_allVars(do_default_handler)
    /\ WF_allVars(Raise(0))
    /\ SF_allVars(do_handler_time)
    /\ \A t \in Task : SF_allVars(curr_task = t /\ irq[t] /\ LogEnd /\ UNCHANGED irqVars)
    /\ \A t \in Task :
          SF_allVars(/\ curr_task = t /\ fault[t] = NoFault /\ mask[t] = NoMask
                     /\ ~irq[t] /\ Sti /\ UNCHANGED irqVars)

InterruptSafetySpec == InterruptInit /\ [][InterruptNext]_allVars

InterruptSpec == InterruptSafetySpec /\ Fairness

-----------------------------------------------------------------------------
(* Invariants.                                                             *)

\* The vectors of the handlers that some task is in.
Entered ==
    ({fault[t] : t \in Task} \ {NoFault})
    \cup (IF \E t \in Task : \E i \in 1..Len(stack[t]) : stack[t][i].pc = "iret"
          THEN {IRQ0_TIMER} ELSE {})

\* FrameTrue: a handler reads the number of its own vector (-1 only for a vector that
\* start.S has no stub for), the error code where there is one, and the address the
\* processor pushed: gate, stub and exception_frame_t agree on what is on the stack
\* (irq.c:179-197, start.S:69-89), so iret and the report use the right words.
FrameTrue ==
    \A v \in Entered :
        /\ frame(v).num = (IF \E h \in DOMAIN StubNum : StubNum[h] = v THEN v ELSE -1)
        /\ frame(v).err_code = (IF v \in PushesErrorCode THEN "error code" ELSE "zero")
        /\ frame(v).eip = "eip"

\* MaskAsAsked: a line is unmasked exactly if irq_enable was the last call for it that
\* returned, or init_pic left it so: irq_enable clears and irq_disable sets the bit of
\* its line ("获取PIC0_IMR的第irq_num位   置1", irq.c:234) and no other, also when the task is
\* preempted between inb and outb.  Two drivers preempting each other there would lose
\* an update (irq.c:219-220 is not protected).
MaskAsAsked ==
    /\ imr.pic0 = {l \in 0..7 : l \notin asked}
    /\ imr.pic1 = {l \in 0..7 : l + 8 \notin asked}

-----------------------------------------------------------------------------
(* Liveness.                                                               *)

\* ReadyRuns: a task in the ready list eventually runs (round robin by slices,
\* although the tick handler that ends a slice may itself wait for log_mutex),
\* unless the machine is stopped by an exception.
ReadyRuns ==
    \A t \in Task \ {idle_task} : t \in Nodes(ready_list) ~> curr_task = t \/ Stopped

\* SleeperWakes: a sleeping task is eventually made ready, although the walk over
\* the sleep list is put off while the task that took the tick is suspended.
SleeperWakes ==
    \A t \in Task \ {idle_task} :
        t \in Nodes(sleep_list) ~> t \in Nodes(ready_list) \/ Stopped

\* LogGranted: a task that waits for log_mutex is eventually given it.
LogGranted ==
    \A t \in Task \ {idle_task} :
        t \in Nodes(mutex_wait[log_mutex]) ~> owner[log_mutex] = t \/ Stopped

\* TickServed: every pending timer interrupt is eventually taken, although the handlers
\* of earlier ones are suspended in task_dispatch: the EOI does not wait for them
\* ("这个要放在pic_send_eoi之后", time.c:12).
TickServed == 0 \in irr ~> 0 \notin irr \/ Stopped

\* FaultStops: a task that enters do_default_handler while no other is in it gets its own
\* report written to the last message and then stops the machine, also when it has to
\* wait for log_mutex and other tasks run on meanwhile and raise exceptions of their
\* own: they queue behind it message by message (the first exception is the one that
\* tells what went wrong; the reports of later ones may be cut off by the halt).
FaultStops ==
    \A t \in Task \ {idle_task} :
        fault[t] # NoFault /\ (\A u \in Task \ {t} : fault[u] = NoFault)
            ~> Stopped /\ curr_task = t
=============================================================================
