-------------------------- MODULE InterruptsProof ---------------------------
(***************************************************************************)
(* What is proved of the kernel with its interrupts: what the handlers     *)
(* find on the stack, what the mask registers hold, and that up to the     *)
(* first exception the interrupts, as the 8259A delivers them, leave the   *)
(* kernel's invariant intact.                                              *)
(***************************************************************************)
EXTENDS Interrupts, KernelProof, SequenceTheorems

-----------------------------------------------------------------------------
(* Gates, stubs and frames.                                                *)

\* Every gate of irq_init leads to the stub of its vector, or to the unknown handler.
LEMMA Gates ==
    ASSUME NEW v \in 0..(IDT_TABLE_NR - 1)
    PROVE  \/ /\ irq_init[v] \in DOMAIN ExceptionGates
              /\ ExceptionGates[irq_init[v]] = v
           \/ /\ irq_init[v] = "unknown"
              /\ \A h \in DOMAIN ExceptionGates : ExceptionGates[h] # v
<1> DEFINE P(h) == ExceptionGates[h] = v
           D == DOMAIN ExceptionGates
<1>1. irq_init[v] = IF \E h \in D : P(h) THEN CHOOSE h \in D : P(h) ELSE "unknown"
  BY DEF irq_init
<1>2. (\E h \in D : P(h)) => (CHOOSE h \in D : P(h)) \in D /\ P(CHOOSE h \in D : P(h))
  OBVIOUS
<1> HIDE DEF D
<1> QED BY <1>1, <1>2 DEF D

\* The stub of an exception pushes its vector, and an error code of its own exactly if
\* the processor pushes none.
LEMMA Stubs ==
    /\ \A h \in DOMAIN ExceptionGates :
          /\ StubNum[h] = ExceptionGates[h]
          /\ h \in WithErrorCode <=> ExceptionGates[h] \in PushesErrorCode
    /\ \A v \in PushesErrorCode : \E h \in DOMAIN ExceptionGates : ExceptionGates[h] = v
    /\ StubNum["unknown"] = -1 /\ StubNum["time"] = IRQ0_TIMER
    /\ DOMAIN StubNum = DOMAIN ExceptionGates \cup {"unknown", "time"}
    /\ {"unknown", "time"} \cap WithErrorCode = {} /\ IRQ0_TIMER \notin PushesErrorCode
<1> DEFINE Names == {"divider", "Debug", "NMI", "breakpoint", "overflow",
                     "bound_range", "invalid_opcode", "device_unavailable",
                     "double_fault", "invalid_tss", "segment_not_present",
                     "stack_segment_fault", "general_protection", "page_fault",
                     "fpu_error", "alignment_check", "machine_check",
                     "smd_exception", "virtual_exception"}
<1>1. DOMAIN ExceptionGates = Names
  BY DEF ExceptionGates
<1>2. \A h \in Names : StubNum[h] = ExceptionGates[h]
  BY DEF ExceptionGates, StubNum
<1>3. \A h \in Names : h \in WithErrorCode <=> ExceptionGates[h] \in PushesErrorCode
  BY DEF ExceptionGates, WithErrorCode, PushesErrorCode
<1>4. /\ ExceptionGates["double_fault"] = 8 /\ ExceptionGates["invalid_tss"] = 10
      /\ ExceptionGates["segment_not_present"] = 11 /\ ExceptionGates["stack_segment_fault"] = 12
      /\ ExceptionGates["general_protection"] = 13 /\ ExceptionGates["page_fault"] = 14
      /\ ExceptionGates["alignment_check"] = 17
  BY DEF ExceptionGates
<1>5. \A v \in PushesErrorCode : \E h \in Names : ExceptionGates[h] = v
  BY <1>4 DEF PushesErrorCode
<1>6. StubNum["unknown"] = -1 /\ StubNum["time"] = IRQ0_TIMER
  BY DEF StubNum
<1>7. {"unknown", "time"} \cap WithErrorCode = {} /\ IRQ0_TIMER \notin PushesErrorCode
  BY DEF WithErrorCode, IRQ0_TIMER, PushesErrorCode
<1>8. DOMAIN StubNum = Names \cup {"unknown", "time"}
  BY DEF StubNum
<1> QED BY <1>1, <1>2, <1>3, <1>5, <1>6, <1>7, <1>8

\* The two words that the handler and iret find first.
LEMMA Words ==
    ASSUME NEW S, NEW a \in Seq(S), NEW e \in Seq(S), Len(a) = 1, Len(e) = 3
    PROVE  (a \o e)[1] = a[1] /\ (a \o e)[2] = e[1]
<1> DEFINE r == a \o e
<1>1. \A i \in 1..(Len(a) + Len(e)) : r[i] = IF i <= Len(a) THEN a[i] ELSE e[i - Len(a)]
  BY ConcatProperties
<1> HIDE DEF r
<1>2. 1 \in 1..(Len(a) + Len(e)) /\ 2 \in 1..(Len(a) + Len(e)) /\ 2 - Len(a) = 1
  OBVIOUS
<1>3. r[1] = a[1] /\ r[2] = e[1]
  BY <1>1, <1>2
<1> QED BY <1>3 DEF r

\* The number that the handler of a vector is to read.
TrueNum(v) == IF \E h \in DOMAIN StubNum : StubNum[h] = v THEN v ELSE -1

\* The frame of a vector: the right number, error code and address.
TrueFrame(v) ==
    /\ frame(v).num = TrueNum(v)
    /\ frame(v).err_code = (IF v \in PushesErrorCode THEN "error code" ELSE "zero")
    /\ frame(v).eip = "eip"

\* Gate and stub agree about every vector of the table.
LEMMA Frames == ASSUME NEW v \in 0..(IDT_TABLE_NR - 1) PROVE TrueFrame(v)
<1> DEFINE g == idt_table[v]
<1>1. g = IF v = IRQ0_TIMER THEN "time" ELSE irq_init[v]
  <2>1. idt_table = [irq_init EXCEPT ![IRQ0_TIMER] = "time"]
    BY DEF idt_table, irq_install, IRQ0_TIMER, IDT_TABLE_NR
  <2>2. DOMAIN irq_init = 0..(IDT_TABLE_NR - 1)
    BY DEF irq_init
  <2> QED BY <2>1, <2>2
<1>2. StubNum[g] = TrueNum(v) /\ (g \in WithErrorCode <=> v \in PushesErrorCode)
  <2>1. CASE v = IRQ0_TIMER
    <3>1. StubNum["time"] = v /\ "time" \in DOMAIN StubNum
      BY <2>1, Stubs
    <3> QED BY <1>1, <2>1, <3>1, Stubs DEF TrueNum
  <2>2. CASE v # IRQ0_TIMER /\ irq_init[v] = "unknown"
    <3>1. g = "unknown" /\ v \notin PushesErrorCode
      <4>1. ~ irq_init[v] \in DOMAIN ExceptionGates
        BY <2>2 DEF ExceptionGates
      <4> QED BY <1>1, <2>2, <4>1, Gates, Stubs
    <3>2. \A h \in DOMAIN ExceptionGates : StubNum[h] # v
      <4>1. ~ irq_init[v] \in DOMAIN ExceptionGates
        BY <2>2 DEF ExceptionGates
      <4> QED BY <4>1, Gates, Stubs
    <3>3. v # -1 /\ v # IRQ0_TIMER
      BY <2>2
    <3>4. \A h \in DOMAIN StubNum : StubNum[h] # v
      BY <3>2, <3>3, Stubs
    <3> QED BY <3>1, <3>4, Stubs DEF TrueNum
  <2>3. CASE v # IRQ0_TIMER /\ irq_init[v] # "unknown"
    <3>1. g \in DOMAIN ExceptionGates /\ ExceptionGates[g] = v
      BY <1>1, <2>3, Gates
    <3>2. StubNum[g] = v /\ g \in DOMAIN StubNum
      BY <3>1, Stubs
    <3> QED BY <3>1, <3>2, Stubs DEF TrueNum
  <2> QED BY <2>1, <2>2, <2>3
<1>3. Pushed(v)[1] = (IF v \in PushesErrorCode THEN "error code" ELSE "zero") /\ Pushed(v)[2] = "eip"
  <2> DEFINE e == <<"eip", "cs", "eflags">>
             S == {"zero", "error code", "eip", "cs", "eflags"}
             a == IF v \in PushesErrorCode THEN <<"error code">> ELSE <<"zero">>
  <2>1. e \in Seq(S) /\ Len(e) = 3 /\ e[1] = "eip"
    OBVIOUS
  <2>2. a \in Seq(S) /\ Len(a) = 1 /\ a[1] = (IF v \in PushesErrorCode THEN "error code" ELSE "zero")
    <3>1. CASE v \in PushesErrorCode
      BY <3>1
    <3>2. CASE v \notin PushesErrorCode
      BY <3>2
    <3> QED BY <3>1, <3>2
  <2>3. Pushed(v) = <<>> \o a \o e \/ Pushed(v) = a \o <<>> \o e
    BY <1>2 DEF Pushed
  <2> HIDE DEF e, S, a
  <2>4. <<>> \o a = a /\ a \o <<>> = a
    BY <2>2, ConcatEmptySeq
  <2>5. Pushed(v) = a \o e
    BY <2>3, <2>4
  <2>6. (a \o e)[1] = a[1] /\ (a \o e)[2] = e[1]
    BY <2>1, <2>2, Words
  <2> QED BY <2>1, <2>2, <2>5, <2>6
<1>4. frame(v).num = StubNum[g] /\ frame(v).err_code = Pushed(v)[1] /\ frame(v).eip = Pushed(v)[2]
  BY DEF frame
<1> HIDE DEF g
<1> QED BY <1>2, <1>3, <1>4 DEF TrueFrame

\* The handlers that run: what is recorded of an exception or an interrupt is a vector
\* of the 8259A's master or below, and the idle task itself raises no exception.
FaultInv ==
    /\ fault \in [Task -> {NoFault} \cup 0..39]
    /\ fault[idle_task] \notin 0..31

LEMMA FaultInit == ASSUME InterruptInit PROVE FaultInv
<1>1. idle_task \in Task
  BY DEF Task
<1> QED BY <1>1 DEF InterruptInit, FaultInv, NoFault

\* What the default handler records.
LEMMA FaultHandler ==
    ASSUME FaultInv, NEW v \in 0..39, DefaultHandler(v), curr_task = idle_task => v > 31
    PROVE  FaultInv'
<1>1. fault' = [fault EXCEPT ![curr_task] = v] /\ idle_task \in Task
  BY DEF DefaultHandler, Task
<1>2. fault' \in [Task -> {NoFault} \cup 0..39]
  BY <1>1 DEF FaultInv
<1>3. fault'[idle_task] = IF curr_task = idle_task THEN v ELSE fault[idle_task]
  BY <1>1 DEF FaultInv
<1> QED BY <1>2, <1>3 DEF FaultInv

LEMMA FaultNext == ASSUME FaultInv, [InterruptNext]_allVars PROVE FaultInv'
<1>1. CASE UNCHANGED fault
  BY <1>1 DEF FaultInv
<1>2. CASE \E l \in RaisedLines : DeviceInterrupt(l)
  <2>1. PICK l \in RaisedLines : DeviceInterrupt(l)
    BY <1>2
  <2>2. IRQ_PIC_START + l \in 0..39 /\ IRQ_PIC_START + l > 31
    BY InterruptAssumption DEF IRQ_PIC_START
  <2>3. DefaultHandler(IRQ_PIC_START + l)
    BY <2>1 DEF DeviceInterrupt
  <2> QED BY <2>2, <2>3, FaultHandler
<1>3. CASE \E v \in Faults : Exception(v)
  <2>1. PICK v \in Faults : Exception(v)
    BY <1>3
  <2>2. v \in 0..39
    BY InterruptAssumption
  <2>3. DefaultHandler(v) /\ curr_task # idle_task
    BY <2>1 DEF Exception, AtBase
  <2> QED BY <2>2, <2>3, FaultHandler
<1>4. InterruptNext => \/ UNCHANGED fault
                       \/ \E l \in RaisedLines : DeviceInterrupt(l)
                       \/ \E v \in Faults : Exception(v)
  BY DEF InterruptNext, CpuStep, Client, irqVars, driver_read, driver_write, Raise, do_handler_time,
         do_default_handler, Halt, allVars
<1>5. UNCHANGED allVars => UNCHANGED fault
  BY DEF allVars, irqVars
<1> QED BY <1>1, <1>2, <1>3, <1>4, <1>5

\* FrameTrueAlways: whichever exception or interrupt a task is in, the gate, the stub
\* and exception_frame_t agree on what is on the stack (irq.c:179-197, start.S:69-89),
\* so the report names the right vector and iret returns to the right place.
THEOREM FrameTrueAlways == InterruptSafetySpec => []FrameTrue
<1>1. FaultInv => FrameTrue
  <2>1. SUFFICES ASSUME FaultInv, NEW v \in Entered PROVE TrueFrame(v)
    BY DEF FrameTrue, TrueFrame, TrueNum
  <2>2. v \in 0..(IDT_TABLE_NR - 1)
    <3>1. v \in {fault[t] : t \in Task} \ {NoFault} => v \in 0..39
      BY <2>1 DEF FaultInv
    <3>2. v \in {fault[t] : t \in Task} \ {NoFault} \/ v = IRQ0_TIMER
      BY DEF Entered
    <3> QED BY <3>1, <3>2 DEF IRQ0_TIMER, IDT_TABLE_NR
  <2> QED BY <2>2, Frames
<1>2. InterruptInit => FaultInv
  BY FaultInit
<1>3. FaultInv /\ [InterruptNext]_allVars => FaultInv'
  BY FaultNext
<1> QED BY <1>1, <1>2, <1>3, PTL DEF InterruptSafetySpec

-----------------------------------------------------------------------------
(* The mask registers.                                                     *)

\* Drivers ask only for lines of the master to be enabled, and for none to be disabled
\* (a number below IRQ_PIC_START is no line).  The only call in the repository is
\* irq_enable(IRQ0_TIMER); for the other calls the property does not hold.
MasterOnly ==
    /\ EnableIrqs \subseteq 0..(IRQ_PIC_START + 7)
    /\ DisableIrqs \subseteq 0..(IRQ_PIC_START - 1)

\* One task at most calls irq_enable once the scheduler runs, so that no other changes
\* the register between its inb and its outb.  In this repository none does.
OneDriver == \A t, u \in Drivers : t = u

MaskCall == [bits : SUBSET (0..7), line : Int, on : BOOLEAN]

\* The registers, with the record that holds them, and what a driver that is between
\* inb and outb is about to write: the register as it still is, without its line.
MaskInv ==
    /\ imr = [pic0 |-> {l \in 0..7 : l \notin asked}, pic1 |-> {l \in 0..7 : l + 8 \notin asked}]
    /\ mask \in [Task -> MaskCall]
    /\ \A t \in Task : mask[t] # NoMask =>
          /\ t \in Drivers /\ mask[t].on
          /\ mask[t].line \in 0..7
          /\ mask[t].bits = imr.pic0 \ {mask[t].line}

LEMMA NoMaskCall == NoMask \in MaskCall
BY DEF NoMask, MaskCall

LEMMA MaskInit == ASSUME InterruptInit PROVE MaskInv
<1>1. asked = {2, 0}
  BY DEF InterruptInit
<1>2. imr = [pic0 |-> (0..7 \ {2}) \ {0}, pic1 |-> 0..7]
  BY DEF InterruptInit, EnableBits, init_pic, IRQ0_TIMER, IRQ_PIC_START
<1>3. (0..7 \ {2}) \ {0} = {l \in 0..7 : l \notin asked} /\ 0..7 = {l \in 0..7 : l + 8 \notin asked}
  BY <1>1
<1>4. mask = [t \in Task |-> NoMask]
  BY DEF InterruptInit
<1>5. mask \in [Task -> MaskCall] /\ \A t \in Task : mask[t] = NoMask
  BY <1>4, NoMaskCall
<1> QED BY <1>2, <1>3, <1>5 DEF MaskInv

\* A call that read the register: its task alone is about to write.
LEMMA EnableRead ==
    ASSUME OneDriver, MaskInv, UNCHANGED <<imr, asked>>, curr_task \in Drivers,
           NEW n \in 0..(IRQ_PIC_START + 7), irq_enable(n)
    PROVE  MaskInv'
<1>1. CASE n < IRQ_PIC_START
  BY <1>1 DEF irq_enable, MaskInv
<1>2. CASE ~(n < IRQ_PIC_START)
  <2> DEFINE line == n - IRQ_PIC_START
             w == [bits |-> imr.pic0 \ {line}, line |-> line, on |-> TRUE]
  <2>1. line \in 0..7 /\ line < 8
    BY <1>2 DEF IRQ_PIC_START
  <2>2. mask' = [mask EXCEPT ![curr_task] = w]
    BY <1>2, <2>1 DEF irq_enable, EnableBits
  <2>3. /\ w \in MaskCall /\ w.on /\ w.line = line
        /\ w.bits = imr.pic0 \ {line}
    BY <2>1 DEF MaskInv, MaskCall
  <2> HIDE DEF w, line
  <2>4. mask' \in [Task -> MaskCall]
    BY <2>2, <2>3 DEF MaskInv
  <2>5. \A t \in Task : mask'[t] = IF t = curr_task THEN w ELSE mask[t]
    BY <2>2 DEF MaskInv
  <2>6. \A t \in Task : mask'[t] # NoMask =>
          /\ t \in Drivers /\ mask'[t].on
          /\ mask'[t].line \in 0..7
          /\ mask'[t].bits = imr.pic0 \ {mask'[t].line}
    BY <2>1, <2>3, <2>5 DEF MaskInv
  <2> QED BY <2>4, <2>6 DEF MaskInv
<1> QED BY <1>1, <1>2

\* outb clears the bit of the line asked for and no other.
LEMMA EnableWrite == ASSUME OneDriver, MaskInv, driver_write PROVE MaskInv'
<1> DEFINE w == mask[curr_task]
<1>1. curr_task \in Drivers /\ curr_task \in Task /\ w # NoMask
  BY InterruptAssumption DEF driver_write, Driving
<1>2. w.on /\ w.line \in 0..7 /\ w.bits = imr.pic0 \ {w.line}
  BY <1>1 DEF MaskInv
<1>3. /\ imr' = [imr EXCEPT !.pic0 = w.bits]
      /\ asked' = asked \cup {w.line}
      /\ mask' = [mask EXCEPT ![curr_task] = NoMask]
  BY <1>2 DEF driver_write
<1> HIDE DEF w
<1>4. imr' = [pic0 |-> imr.pic0 \ {w.line}, pic1 |-> imr.pic1]
  BY <1>2, <1>3 DEF MaskInv
<1>5. imr.pic0 \ {w.line} = {l \in 0..7 : l \notin asked'}
  BY <1>3 DEF MaskInv
<1>6. imr.pic1 = {l \in 0..7 : l + 8 \notin asked'}
  <2>1. \A l \in 0..7 : l + 8 # w.line
    BY <1>2
  <2> QED BY <1>3, <2>1 DEF MaskInv
<1>7. mask' \in [Task -> MaskCall]
  BY <1>3, NoMaskCall DEF MaskInv
<1>8. \A t \in Task : mask'[t] = NoMask
  BY <1>1, <1>3 DEF MaskInv, OneDriver
<1> QED BY <1>4, <1>5, <1>6, <1>7, <1>8 DEF MaskInv

\* A task that is caught in the default handler does not go on with its call.
LEMMA MaskDropped ==
    ASSUME MaskInv, UNCHANGED <<imr, asked>>, mask' = [mask EXCEPT ![curr_task] = NoMask]
    PROVE  MaskInv'
<1>1. mask' \in [Task -> MaskCall]
  BY NoMaskCall DEF MaskInv
<1>2. \A t \in Task : mask'[t] # NoMask => mask'[t] = mask[t]
  BY DEF MaskInv
<1> QED BY <1>1, <1>2 DEF MaskInv

\* The steps that touch the registers or a driver's call.
LEMMA MaskSteps ==
    ASSUME [InterruptNext]_allVars
    PROVE  \/ UNCHANGED <<imr, mask, asked>>
           \/ driver_read \/ driver_write
           \/ UNCHANGED <<imr, asked>> /\ mask' = [mask EXCEPT ![curr_task] = NoMask]
<1>1. ASSUME NEW v, DefaultHandler(v)
      PROVE  UNCHANGED <<imr, asked>> /\ mask' = [mask EXCEPT ![curr_task] = NoMask]
  BY <1>1 DEF DefaultHandler
<1>2. (\E l \in RaisedLines : DeviceInterrupt(l)) \/ (\E v \in Faults : Exception(v))
          => \E v : DefaultHandler(v)
  BY DEF DeviceInterrupt, Exception
<1>3. CpuStep \/ Client \/ (\E l \in RaisedLines : Raise(l)) \/ do_handler_time
        \/ do_default_handler \/ Halt \/ UNCHANGED allVars => UNCHANGED <<imr, mask, asked>>
  BY DEF CpuStep, Client, Raise, do_handler_time, do_default_handler, Halt, allVars, irqVars
<1> QED BY <1>1, <1>2, <1>3 DEF InterruptNext

LEMMA MaskNext ==
    ASSUME MasterOnly, OneDriver, MaskInv, [InterruptNext]_allVars
    PROVE  MaskInv'
<1>1. CASE UNCHANGED <<imr, mask, asked>>
  BY <1>1 DEF MaskInv
<1>2. CASE driver_read
  <2>1. UNCHANGED <<imr, asked>> /\ curr_task \in Drivers
    BY <1>2 DEF driver_read, Driving
  <2>2. CASE \E n \in EnableIrqs : irq_enable(n)
    BY <2>1, <2>2, EnableRead DEF MasterOnly
  <2>3. CASE \E n \in DisableIrqs : irq_disable(n)
    <3>1. PICK n \in DisableIrqs : irq_disable(n)
      BY <2>3
    <3>2. n < IRQ_PIC_START
      BY DEF MasterOnly, IRQ_PIC_START
    <3>3. UNCHANGED mask
      BY <3>1, <3>2 DEF irq_disable
    <3> QED BY <2>1, <3>3 DEF MaskInv
  <2> QED BY <1>2, <2>2, <2>3 DEF driver_read
<1>3. CASE driver_write
  BY <1>3, EnableWrite
<1>4. CASE UNCHANGED <<imr, asked>> /\ mask' = [mask EXCEPT ![curr_task] = NoMask]
  BY <1>4, MaskDropped
<1> QED BY <1>1, <1>2, <1>3, <1>4, MaskSteps

\* MaskAsAskedAlways: as long as one task at most calls irq_enable, and for lines of the
\* master, a line is unmasked exactly if it was asked for, wherever that task is preempted
\* between its inb and its outb (irq.c:219-220): irq_enable changes the bit of its line
\* and no other.
THEOREM MaskAsAskedAlways ==
    ASSUME MasterOnly, OneDriver PROVE InterruptSafetySpec => []MaskAsAsked
<1>1. InterruptInit => MaskInv
  BY MaskInit
<1>2. MaskInv /\ [InterruptNext]_allVars => MaskInv'
  BY MaskNext
<1>3. MaskInv => MaskAsAsked
  BY DEF MaskInv, MaskAsAsked
<1> QED BY <1>1, <1>2, <1>3, PTL DEF InterruptSafetySpec

-----------------------------------------------------------------------------
(* The kernel's invariant under interrupts and exceptions.                 *)

\* No task was caught in the default handler by a line without a handler of its own.
NoStray == \A t \in Task : fault[t] < IRQ_PIC_START

\* An exception leaves the kernel's lists, locks and stacks as they are.
LEMMA ExceptionStep ==
    ASSUME IInv, AtBase, NEW v, DefaultHandler(v)
    PROVE  IInv'
<1>1. /\ irq' = [irq EXCEPT ![curr_task] = FALSE]
      /\ stack' = [stack EXCEPT ![curr_task] = <<>>]
      /\ UNCHANGED <<curr_task, listVars, fieldVars, gdtVars, walk, halted>>
      /\ UNCHANGED <<mutexVars, semVars, initVars>>
  BY DEF DefaultHandler
<1>2. /\ curr_task \in Task /\ curr_task # idle_task /\ ~halted
      /\ stack[curr_task] = <<>> /\ <<>> \in Seq(Frame)
      /\ ~TopIn(curr_task, {"dispatch", "walk"}) /\ ~TopIn(curr_task, {"unlog"})
      /\ ~TwoUnlogs(<<>>)
  BY BaseFacts DEF TopIn
<1>3. owner[log_mutex] # idle_task
  BY <1>2, IdleNotOwner
<1>4. FieldTypeOK'
  BY <1>1, Fields DEF FieldTypeOK, fieldVars, gdtVars, initVars
<1>5. RunInv'
  <2>1. curr_task = task_next_run
    BY <1>2, RunningFacts
  <2> QED BY <1>1, <2>1 DEF RunInv, task_next_run, listVars
<1>6. WalkInv'
  <2>1. stack' = stack
    BY <1>1, <1>2 DEF IInv, TypeOK, TaskTypeOK
  <2> QED BY <1>1, <1>2, <2>1 DEF WalkInv, TopIn
<1>7. Shape(<<>>, FALSE)
  BY ShapeBase
<1> QED BY <1>1, <1>2, <1>3, <1>4, <1>5, <1>6, <1>7, PlainStep DEF initVars

\* Once a task is caught in the default handler, it stays there.
LEMMA StrayStays ==
    ASSUME FaultInv, [InterruptNext]_allVars, NoStray'
    PROVE  NoStray
<1>1. SUFFICES ASSUME NEW t \in Task, ~(fault[t] < IRQ_PIC_START) PROVE FALSE
  BY DEF NoStray
<1>2. fault'[t] < IRQ_PIC_START
  BY DEF NoStray
<1>3. CASE UNCHANGED fault
  BY <1>1, <1>2, <1>3
<1>4. CASE \E l \in RaisedLines : DeviceInterrupt(l)
  <2>1. PICK l \in RaisedLines : DeviceInterrupt(l)
    BY <1>4
  <2>2. fault' = [fault EXCEPT ![curr_task] = IRQ_PIC_START + l]
    BY <2>1 DEF DeviceInterrupt, DefaultHandler
  <2>3. l \in Int /\ l >= 0
    BY InterruptAssumption
  <2>4. fault'[t] = fault[t] \/ fault'[t] = IRQ_PIC_START + l
    BY <2>2 DEF FaultInv
  <2> QED BY <1>1, <1>2, <2>3, <2>4 DEF IRQ_PIC_START
<1>5. CASE \E v \in Faults : Exception(v)
  <2>1. PICK v \in Faults : Exception(v)
    BY <1>5
  <2>2. fault' = [fault EXCEPT ![curr_task] = v] /\ fault[curr_task] = NoFault
    BY <2>1 DEF Exception, DefaultHandler
  <2>3. t # curr_task
    BY <1>1, <2>2 DEF NoFault, IRQ_PIC_START
  <2>4. fault'[t] = fault[t]
    BY <2>2, <2>3 DEF FaultInv
  <2> QED BY <1>1, <1>2, <2>4
<1>6. InterruptNext => \/ UNCHANGED fault
                       \/ \E l \in RaisedLines : DeviceInterrupt(l)
                       \/ \E v \in Faults : Exception(v)
  BY DEF InterruptNext, CpuStep, Client, irqVars, driver_read, driver_write, Raise, do_handler_time,
         do_default_handler, Halt, allVars
<1>7. UNCHANGED allVars => UNCHANGED fault
  BY DEF allVars, irqVars
<1> QED BY <1>3, <1>4, <1>5, <1>6, <1>7

\* One step of the whole system, as long as no line without a handler comes.
LEMMA GuardedNext ==
    ASSUME FaultInv, IInv, isr = {}, NoStray, NoStray', [InterruptNext]_allVars
    PROVE  IInv' /\ isr' = {}
<1>1. CASE UNCHANGED vars /\ UNCHANGED isr
  BY <1>1, StutterIInv
<1>2. CASE Next /\ UNCHANGED isr
  BY <1>2, NextIInv
<1>3. CASE do_handler_time
  <2>1. Next /\ isr' = pic_send_eoi(isr \cup {0}, IRQ0_TIMER)
    BY <1>3 DEF do_handler_time, Next
  <2>2. isr' = {}
    BY <2>1 DEF pic_send_eoi
  <2> QED BY <2>1, <2>2, NextIInv
<1>4. CASE \E l \in RaisedLines : DeviceInterrupt(l)
  <2>1. PICK l \in RaisedLines : DeviceInterrupt(l)
    BY <1>4
  <2>2. fault' = [fault EXCEPT ![curr_task] = IRQ_PIC_START + l]
    BY <2>1 DEF DeviceInterrupt, DefaultHandler
  <2>3. l \in Int /\ l >= 0
    BY InterruptAssumption
  <2>4. curr_task \in Task
    BY DEF IInv, TypeOK, TaskTypeOK
  <2>5. fault'[curr_task] = IRQ_PIC_START + l
    BY <2>2, <2>4 DEF FaultInv
  <2>6. fault'[curr_task] < IRQ_PIC_START
    BY <2>4 DEF NoStray
  <2> QED BY <2>3, <2>5, <2>6 DEF IRQ_PIC_START
<1>5. CASE \E v \in Faults : Exception(v)
  <2>1. PICK v \in Faults : Exception(v)
    BY <1>5
  <2>2. AtBase /\ DefaultHandler(v) /\ UNCHANGED isr
    BY <2>1 DEF Exception
  <2> QED BY <2>2, ExceptionStep
<1>6. CASE do_default_handler
  <2>1. /\ ~halted /\ fault[curr_task] # NoFault /\ stack[curr_task] = <<>>
        /\ UNCHANGED isr
    BY <1>6 DEF do_default_handler, Reporting
  <2>2. curr_task # idle_task
    <3>1. curr_task \in Task
      BY DEF IInv, TypeOK, TaskTypeOK
    <3>2. fault[curr_task] \in 0..39 /\ fault[curr_task] < IRQ_PIC_START
      BY <2>1, <3>1 DEF FaultInv, NoStray
    <3>3. fault[curr_task] \in 0..31
      BY <3>2 DEF IRQ_PIC_START
    <3> QED BY <3>3 DEF FaultInv
  <2>3. ClientLog
    BY <1>6, <2>1, <2>2 DEF do_default_handler, ClientLog, AtBase
  <2> QED BY <2>1, <2>3, ClientLogStep
<1>7. InterruptNext =>
        \/ UNCHANGED vars /\ UNCHANGED isr
        \/ Next /\ UNCHANGED isr
        \/ do_handler_time \/ do_default_handler
        \/ \E l \in RaisedLines : DeviceInterrupt(l)
        \/ \E v \in Faults : Exception(v)
  BY DEF InterruptNext, CpuStep, Client, Next, irqVars, driver_read, driver_write, Raise, Halt, allVars
<1>8. UNCHANGED allVars => UNCHANGED vars /\ UNCHANGED isr
  BY DEF allVars, irqVars
<1> QED BY <1>1, <1>2, <1>3, <1>4, <1>5, <1>6, <1>7, <1>8

GuardedInv == FaultInv /\ (NoStray => IInv /\ isr = {})

\* KernelThroughExceptions: exceptions, their reports through log_printf (irq.c,
\* do_default_handler) and the timer interrupt as the 8259A delivers it keep the
\* kernel's invariant, and no line is left in service, as long as no line arrives
\* that has no handler of its own.
THEOREM KernelThroughExceptions == InterruptSafetySpec => [](NoStray => IInv /\ isr = {})
<1>1. InterruptInit => GuardedInv
  <2>1. InterruptInit => KernelInit /\ isr = {}
    BY DEF InterruptInit
  <2> QED BY <2>1, FaultInit, InitIInv DEF GuardedInv
<1>2. GuardedInv /\ [InterruptNext]_allVars => GuardedInv'
  <2>1. SUFFICES ASSUME GuardedInv, [InterruptNext]_allVars PROVE GuardedInv'
    OBVIOUS
  <2>2. FaultInv /\ FaultInv'
    BY <2>1, FaultNext DEF GuardedInv
  <2>3. ASSUME NoStray' PROVE IInv' /\ isr' = {}
    <3>1. NoStray
      BY <2>1, <2>2, <2>3, StrayStays
    <3> QED BY <2>1, <2>2, <2>3, <3>1, GuardedNext DEF GuardedInv
  <2> QED BY <2>2, <2>3 DEF GuardedInv
<1>3. GuardedInv => (NoStray => IInv /\ isr = {})
  BY DEF GuardedInv
<1> QED BY <1>1, <1>2, <1>3, PTL DEF InterruptSafetySpec

\* The system as it is: the timer's is the only line that a driver enables, nothing is
\* disabled, and with its lines masked the slave does not raise line 2 of the master.
TimerOnly ==
    /\ EnableIrqs \subseteq 0..IRQ0_TIMER
    /\ DisableIrqs \subseteq 0..(IRQ_PIC_START - 1)
    /\ 2 \notin RaisedLines

\* Then the register of the master never changes, and no line but the timer's gets
\* through; neither does it matter which drivers are between inb and outb.
TimerMask == (0..7) \ {0, 2}

TimerInv ==
    /\ \E pic1 : imr = [pic0 |-> TimerMask, pic1 |-> pic1]
    /\ mask \in [Task -> MaskCall]
    /\ \A t \in Task : mask[t] # NoMask => mask[t].bits = TimerMask
    /\ FaultInv
    /\ NoStray

LEMMA TimerInit == ASSUME InterruptInit PROVE TimerInv
<1>1. imr = [pic0 |-> TimerMask, pic1 |-> 0..7]
  BY DEF InterruptInit, EnableBits, init_pic, IRQ0_TIMER, IRQ_PIC_START, TimerMask
<1>2. mask = [t \in Task |-> NoMask]
  BY DEF InterruptInit
<1>3. mask \in [Task -> MaskCall] /\ \A t \in Task : mask[t] = NoMask
  BY <1>2, NoMaskCall
<1>4. NoStray
  BY DEF InterruptInit, NoStray, NoFault, IRQ_PIC_START
<1> QED BY <1>1, <1>3, <1>4, FaultInit DEF TimerInv

\* The mask stays as it is, whatever the drivers read and write.
LEMMA TimerMaskNext ==
    ASSUME TimerOnly, TimerInv, [InterruptNext]_allVars
    PROVE  /\ \E pic1 : imr' = [pic0 |-> TimerMask, pic1 |-> pic1]
           /\ mask' \in [Task -> MaskCall]
           /\ \A t \in Task : mask'[t] # NoMask => mask'[t].bits = TimerMask
<1>1. CASE UNCHANGED <<imr, mask, asked>>
  BY <1>1 DEF TimerInv
<1>2. CASE driver_read
  <2>1. UNCHANGED imr
    BY <1>2 DEF driver_read
  <2>2. CASE UNCHANGED mask
    BY <2>1, <2>2 DEF TimerInv
  <2>3. CASE ~ UNCHANGED mask
    <3> DEFINE w == [bits |-> TimerMask, line |-> 0, on |-> TRUE]
    <3>1. \A n \in DisableIrqs : irq_disable(n) => UNCHANGED mask
      <4>1. \A n \in DisableIrqs : n < IRQ_PIC_START
        BY DEF TimerOnly, IRQ_PIC_START
      <4> QED BY <4>1 DEF irq_disable
    <3>2. PICK n \in EnableIrqs : irq_enable(n)
      BY <1>2, <2>3, <3>1 DEF driver_read
    <3>3. ~(n < IRQ_PIC_START)
      BY <2>3, <3>2 DEF irq_enable
    <3>4. n - IRQ_PIC_START = 0
      BY <3>3 DEF TimerOnly, IRQ0_TIMER, IRQ_PIC_START
    <3>5. imr.pic0 \ {0} = TimerMask
      BY DEF TimerInv, TimerMask
    <3>6. EnableBits(imr, 0) = TimerMask
      BY <3>5 DEF EnableBits
    <3>7. mask' = [mask EXCEPT ![curr_task] = w]
      BY <3>2, <3>3, <3>4, <3>6 DEF irq_enable
    <3>8. w \in MaskCall /\ w.bits = TimerMask
      BY DEF MaskCall, TimerMask
    <3> HIDE DEF w
    <3>9. mask' \in [Task -> MaskCall] /\ \A t \in Task : mask'[t] \in {w, mask[t]}
      BY <3>7, <3>8 DEF TimerInv
    <3> QED BY <2>1, <3>8, <3>9 DEF TimerInv
  <2> QED BY <2>2, <2>3
<1>3. CASE driver_write
  <2>1. curr_task \in Task /\ mask[curr_task] # NoMask
    BY <1>3, InterruptAssumption DEF driver_write, Driving
  <2>2. imr' = [imr EXCEPT !.pic0 = TimerMask] /\ mask' = [mask EXCEPT ![curr_task] = NoMask]
    BY <1>3, <2>1 DEF driver_write, TimerInv
  <2>3. \E pic1 : imr' = [pic0 |-> TimerMask, pic1 |-> pic1]
    BY <2>2 DEF TimerInv
  <2>4. mask' \in [Task -> MaskCall] /\ \A t \in Task : mask'[t] \in {NoMask, mask[t]}
    BY <2>2, NoMaskCall DEF TimerInv
  <2> QED BY <2>3, <2>4 DEF TimerInv
<1>4. CASE UNCHANGED <<imr, asked>> /\ mask' = [mask EXCEPT ![curr_task] = NoMask]
  <2>1. mask' \in [Task -> MaskCall] /\ \A t \in Task : mask'[t] \in {NoMask, mask[t]}
    BY <1>4, NoMaskCall DEF TimerInv
  <2> QED BY <1>4, <2>1 DEF TimerInv
<1> QED BY <1>1, <1>2, <1>3, <1>4, MaskSteps

LEMMA TimerNext == ASSUME TimerOnly, TimerInv, [InterruptNext]_allVars PROVE TimerInv'
<1>1. FaultInv'
  BY FaultNext DEF TimerInv
<1>2. NoStray'
  <2>1. CASE UNCHANGED fault
    BY <2>1 DEF TimerInv, NoStray
  <2>2. CASE \E l \in RaisedLines : DeviceInterrupt(l)
    <3>1. PICK l \in RaisedLines : DeviceInterrupt(l)
      BY <2>2
    <3>2. l \in 0..7 /\ l \notin imr.pic0
      BY <3>1, InterruptAssumption DEF DeviceInterrupt, Presented
    <3>3. imr.pic0 = TimerMask
      BY DEF TimerInv
    <3>4. l = 0
      BY <3>1, <3>2, <3>3 DEF TimerMask, TimerOnly
    <3>5. idt_table[IRQ_PIC_START + l] = "time"
      <4>1. idt_table = [irq_init EXCEPT ![IRQ0_TIMER] = "time"]
        BY DEF idt_table, irq_install, IRQ0_TIMER, IDT_TABLE_NR
      <4>2. DOMAIN irq_init = 0..(IDT_TABLE_NR - 1)
        BY DEF irq_init
      <4> QED BY <3>4, <4>1, <4>2 DEF IRQ0_TIMER, IRQ_PIC_START, IDT_TABLE_NR
    <3> QED BY <3>1, <3>5 DEF DeviceInterrupt
  <2>3. CASE \E v \in Faults : Exception(v)
    <3>1. PICK v \in Faults : Exception(v)
      BY <2>3
    <3>2. fault' = [fault EXCEPT ![curr_task] = v]
      BY <3>1 DEF Exception, DefaultHandler
    <3>3. v < IRQ_PIC_START
      BY InterruptAssumption DEF IRQ_PIC_START
    <3> QED BY <3>2, <3>3 DEF TimerInv, NoStray, FaultInv
  <2>4. InterruptNext => \/ UNCHANGED fault
                         \/ \E l \in RaisedLines : DeviceInterrupt(l)
                         \/ \E v \in Faults : Exception(v)
    BY DEF InterruptNext, CpuStep, Client, irqVars, driver_read, driver_write, Raise, do_handler_time,
           do_default_handler, Halt, allVars
  <2>5. UNCHANGED allVars => UNCHANGED fault
    BY DEF allVars, irqVars
  <2> QED BY <2>1, <2>2, <2>3, <2>4, <2>5
<1> QED BY <1>1, <1>2, TimerMaskNext DEF TimerInv

\* KernelUnderInterrupts: with the timer's as the only line enabled, as in this
\* repository (time.c:24, irq_enable(IRQ0_TIMER)), the kernel's invariant holds for ever,
\* whatever exceptions its tasks raise, and every timer interrupt is acknowledged.
THEOREM KernelUnderInterrupts == ASSUME TimerOnly PROVE InterruptSafetySpec => [](IInv /\ isr = {})
<1>1. InterruptInit => TimerInv
  BY TimerInit
<1>2. TimerInv /\ [InterruptNext]_allVars => TimerInv'
  BY TimerNext
<1>3. TimerInv => NoStray
  BY DEF TimerInv
<1> QED BY <1>1, <1>2, <1>3, KernelThroughExceptions, PTL DEF InterruptSafetySpec
=============================================================================
