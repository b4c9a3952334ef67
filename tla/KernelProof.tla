---------------------------- MODULE KernelProof -----------------------------
(***************************************************************************)
(* IInv is an invariant of the kernel, for any number of tasks, mutexes,   *)
(* semaphores and GDT entries, and what follows from it.                   *)
(***************************************************************************)
EXTENDS KernelInv, ListLemmas, WellFoundedInduction

-----------------------------------------------------------------------------
(* What pushing, popping and replacing frames does to a task's stack.      *)

\* The frames pushed by the actions are frames.
LEMMA FrameType ==
    /\ \A pc \in Pcs : Call(pc) \in Frame /\ Call(pc).pc = pc /\ Call(pc).irq = FALSE
    /\ \A b \in BOOLEAN : Leave(b) \in Frame /\ Leave(b).pc = "leave" /\ Leave(b).irq = b
    /\ \A b \in BOOLEAN : Iret(b) \in Frame /\ Iret(b).pc = "iret" /\ Iret(b).irq = b
BY DEF Frame, Call, Leave, Iret, Pcs

\* What is left after a pop.
LEMMA PopIndex ==
    ASSUME NEW fs \in Seq(Frame), fs # <<>>
    PROVE  /\ Tail(fs) \in Seq(Frame)
           /\ Len(fs) \in Nat /\ Len(fs) > 0
           /\ Len(Tail(fs)) = Len(fs) - 1
           /\ \A i \in 1..Len(Tail(fs)) : Tail(fs)[i] = fs[i + 1]
           /\ Head(fs) = fs[1]
OBVIOUS

\* One frame pushed.
LEMMA PushIndex ==
    ASSUME NEW fs \in Seq(Frame), NEW f \in Frame
    PROVE  LET r == <<f>> \o fs
           IN  /\ r \in Seq(Frame)
               /\ r # <<>>
               /\ Len(fs) \in Nat
               /\ Len(r) = Len(fs) + 1
               /\ r[1] = f
               /\ Head(r) = f
               /\ Tail(r) = fs
               /\ \A i \in 2..Len(r) : r[i] = fs[i - 1]
<1> DEFINE r == <<f>> \o fs
<1>1. r \in Seq(Frame) /\ Len(fs) \in Nat /\ Len(r) = Len(fs) + 1 /\ r[1] = f
  OBVIOUS
<1>2. \A i \in 2..Len(r) : r[i] = fs[i - 1]
  OBVIOUS
<1>3. Head(r) = f /\ r # <<>>
  BY <1>1
<1>4. Tail(r) = fs
  OBVIOUS
<1> QED BY <1>1, <1>2, <1>3, <1>4

\* Two frames pushed.
LEMMA PushTwoIndex ==
    ASSUME NEW fs \in Seq(Frame), NEW f \in Frame, NEW g \in Frame
    PROVE  LET r == <<f, g>> \o fs
           IN  /\ r \in Seq(Frame)
               /\ r # <<>>
               /\ Len(fs) \in Nat
               /\ Len(r) = Len(fs) + 2
               /\ r[1] = f
               /\ r[2] = g
               /\ Head(r) = f
               /\ \A i \in 3..Len(r) : r[i] = fs[i - 2]
<1> DEFINE r == <<f, g>> \o fs
<1>1. r \in Seq(Frame) /\ Len(fs) \in Nat /\ Len(r) = Len(fs) + 2 /\ r[1] = f /\ r[2] = g
  OBVIOUS
<1>2. \A i \in 3..Len(r) : r[i] = fs[i - 2]
  OBVIOUS
<1>3. Head(r) = f /\ r # <<>>
  BY <1>1
<1> QED BY <1>1, <1>2, <1>3

\* The frames of a popped, and of a pushed, stack.
LEMMA HasPcPop ==
    ASSUME NEW fs \in Seq(Frame), fs # <<>>, NEW P
    PROVE  HasPc(fs, P) <=> fs[1].pc \in P \/ HasPc(Tail(fs), P)
<1>1. HasPc(Tail(fs), P) => HasPc(fs, P)
  BY PopIndex DEF HasPc
<1>2. fs[1].pc \in P => HasPc(fs, P)
  BY PopIndex DEF HasPc
<1>3. ASSUME HasPc(fs, P), fs[1].pc \notin P
      PROVE  HasPc(Tail(fs), P)
  <2>1. PICK i \in 1..Len(fs) : fs[i].pc \in P
    BY <1>3 DEF HasPc
  <2>2. i - 1 \in 1..Len(Tail(fs)) /\ Tail(fs)[i - 1] = fs[i]
    BY <1>3, <2>1, PopIndex
  <2> QED BY <2>1, <2>2 DEF HasPc
<1> QED BY <1>1, <1>2, <1>3

LEMMA HasPcPush ==
    ASSUME NEW fs \in Seq(Frame), NEW f \in Frame, NEW P
    PROVE  HasPc(<<f>> \o fs, P) <=> f.pc \in P \/ HasPc(fs, P)
<1> DEFINE r == <<f>> \o fs
<1>1. /\ r \in Seq(Frame) /\ r # <<>> /\ r[1] = f /\ Tail(r) = fs
  BY PushIndex
<1> HIDE DEF r
<1>2. HasPc(r, P) <=> r[1].pc \in P \/ HasPc(Tail(r), P)
  BY <1>1, HasPcPop
<1> QED BY <1>1, <1>2 DEF r

LEMMA HasPcPushTwo ==
    ASSUME NEW fs \in Seq(Frame), NEW f \in Frame, NEW g \in Frame, NEW P
    PROVE  HasPc(<<f, g>> \o fs, P) <=> f.pc \in P \/ g.pc \in P \/ HasPc(fs, P)
<1> DEFINE r == <<f, g>> \o fs
<1>1. /\ r \in Seq(Frame) /\ Len(fs) \in Nat /\ Len(r) = Len(fs) + 2
      /\ r[1] = f /\ r[2] = g /\ \A i \in 3..Len(r) : r[i] = fs[i - 2]
  BY PushTwoIndex
<1> HIDE DEF r
<1>2. f.pc \in P \/ g.pc \in P => HasPc(r, P)
  BY <1>1 DEF HasPc
<1>3. ASSUME HasPc(fs, P) PROVE HasPc(r, P)
  <2>1. PICK i \in 1..Len(fs) : fs[i].pc \in P
    BY <1>3 DEF HasPc
  <2>2. i + 2 \in 3..Len(r) /\ (i + 2) - 2 = i
    BY <1>1
  <2>3. r[i + 2] = fs[i]
    BY <1>1, <2>2
  <2> QED BY <1>1, <2>1, <2>2, <2>3 DEF HasPc
<1>4. ASSUME HasPc(r, P), f.pc \notin P, g.pc \notin P PROVE HasPc(fs, P)
  <2>1. PICK i \in 1..Len(r) : r[i].pc \in P
    BY <1>4 DEF HasPc
  <2>2. i \in 3..Len(r) /\ i - 2 \in 1..Len(fs)
    BY <1>1, <1>4, <2>1
  <2> QED BY <1>1, <2>1, <2>2 DEF HasPc
<1> QED BY <1>2, <1>3, <1>4 DEF r

LEMMA HasPcEmpty == ASSUME NEW P PROVE ~HasPc(<<>>, P)
BY DEF HasPc

-----------------------------------------------------------------------------
(* The shape of a stack.                                                   *)

\* Popping a frame keeps the shape.
LEMMA ShapePop ==
    ASSUME NEW fs \in Seq(Frame), fs # <<>>, NEW b \in BOOLEAN, Shape(fs, b)
    PROVE  Shape(Tail(fs), b) /\ ~TwoUnlogs(Tail(fs))
<1> DEFINE r == Tail(fs)
<1>1. /\ r \in Seq(Frame) /\ Len(fs) \in Nat /\ Len(fs) > 0 /\ Len(r) = Len(fs) - 1
      /\ \A i \in 1..Len(r) : r[i] = fs[i + 1]
  BY PopIndex
<1> HIDE DEF r
<1>2. ShapeIrq(r, b)
  <2>1. /\ \A i \in 1..Len(r) : i + 1 \in 1..Len(fs)
        /\ \A i \in 1..Len(r) : \A j \in (i + 1)..Len(r) : j \in 1..Len(r) /\ j + 1 \in ((i + 1) + 1)..Len(fs)
    BY <1>1
  <2>2. b => \A i \in 1..Len(r) : r[i].pc \in OpenPcs
    BY <1>1, <2>1 DEF Shape, ShapeIrq
  <2>3. ASSUME NEW i \in 1..Len(r), r[i].pc \in LeavePcs, r[i].irq,
               NEW j \in (i + 1)..Len(r)
        PROVE  r[j].pc \in OpenPcs
    <3>1. fs[i + 1].pc \in LeavePcs /\ fs[i + 1].irq /\ r[j] = fs[j + 1]
      BY <1>1, <2>1, <2>3
    <3> QED BY <2>1, <3>1 DEF Shape, ShapeIrq
  <2> QED BY <2>2, <2>3 DEF ShapeIrq
<1>3. ShapeTick(r)
  <2> SUFFICES ASSUME NEW i \in 1..Len(r)
               PROVE  /\ r[i].pc \in {"rotate", "scan", "walk"} =>
                            i < Len(r) /\ r[i + 1].pc = "dispatch"
                      /\ r[i].pc = "walk" => i = 1
    BY DEF ShapeTick
  <2>1. i \in Nat /\ i + 1 \in 1..Len(fs) /\ r[i] = fs[i + 1] /\ i + 1 # 1
    BY <1>1
  <2>2. /\ fs[i + 1].pc \in {"rotate", "scan", "walk"} =>
              i + 1 < Len(fs) /\ fs[(i + 1) + 1].pc = "dispatch"
        /\ fs[i + 1].pc # "walk"
    BY <2>1 DEF Shape, ShapeTick
  <2>3. i + 1 < Len(fs) => i < Len(r) /\ i + 1 \in 1..Len(r)
    BY <1>1
  <2>4. i + 1 < Len(fs) => r[i + 1] = fs[(i + 1) + 1]
    BY <1>1, <2>3
  <2> QED BY <2>1, <2>2, <2>3, <2>4
<1>4. ShapeInit(r)
  BY <1>1 DEF Shape, ShapeInit
<1>5. \A i, j \in 1..Len(r) : i < j /\ r[i].pc = "unlog" /\ r[j].pc = "unlog" => FALSE
  <2>1. SUFFICES ASSUME NEW i \in 1..Len(r), NEW j \in 1..Len(r), i < j,
                        r[i].pc = "unlog", r[j].pc = "unlog"
                 PROVE  FALSE
    OBVIOUS
  <2>2. i + 1 \in 1..Len(fs) /\ j + 1 \in 1..Len(fs) /\ i + 1 < j + 1 /\ i + 1 # 1
    BY <1>1, <2>1
  <2> QED BY <1>1, <2>1, <2>2 DEF Shape, ShapeLog
<1>6. ASSUME NEW i \in 1..Len(r), NEW j \in 1..Len(r), i < j,
             r[i].pc \in {"log", "unlog"} \cup InitPcs, r[j].pc = "unlog"
      PROVE  \E k \in (i + 1)..(j - 1) : r[k].pc \in LeavePcs
  <2>1. i + 1 \in 1..Len(fs) /\ j + 1 \in 1..Len(fs) /\ i + 1 < j + 1
    BY <1>1, <1>6
  <2>2. PICK k \in (i + 2)..j : fs[k].pc \in LeavePcs
    <3>1. \E k \in ((i + 1) + 1)..((j + 1) - 1) : fs[k].pc \in LeavePcs
      BY <1>1, <1>6, <2>1 DEF Shape, ShapeLog
    <3> QED BY <3>1
  <2>3. k - 1 \in (i + 1)..(j - 1) /\ k - 1 \in 1..Len(r) /\ (k - 1) + 1 = k
    BY <1>1, <2>2
  <2> QED BY <1>1, <2>2, <2>3
<1>7. ShapeLog(r)
  BY <1>5, <1>6 DEF ShapeLog
<1>8. ~TwoUnlogs(r)
  <2>1. Len(r) > 0 \/ r = <<>>
    BY <1>1
  <2> QED BY <1>1, <1>5, <2>1 DEF TwoUnlogs
<1> QED BY <1>2, <1>3, <1>4, <1>7, <1>8 DEF Shape, r

\* irq_leave_protection and iret: the flag they put back fits what is left.
LEMMA ShapeLeave ==
    ASSUME NEW fs \in Seq(Frame), fs # <<>>, NEW b \in BOOLEAN, Shape(fs, b),
           fs[1].pc \in LeavePcs
    PROVE  Shape(Tail(fs), fs[1].irq)
<1> DEFINE r == Tail(fs)
<1>1. /\ r \in Seq(Frame) /\ Len(fs) \in Nat /\ Len(fs) > 0 /\ Len(r) = Len(fs) - 1
      /\ \A i \in 1..Len(r) : r[i] = fs[i + 1]
  BY PopIndex
<1>2. Shape(r, b)
  BY ShapePop
<1> HIDE DEF r
<1>3. ShapeIrq(r, fs[1].irq)
  <2>1. fs[1].irq => \A j \in 2..Len(fs) : fs[j].pc \in OpenPcs
    BY <1>1 DEF Shape, ShapeIrq
  <2>2. fs[1].irq => \A i \in 1..Len(r) : r[i].pc \in OpenPcs
    BY <1>1, <2>1
  <2> QED BY <1>2, <2>2 DEF Shape, ShapeIrq
<1> QED BY <1>2, <1>3 DEF Shape, r

\* With IF set at most one log_printf is open.
LEMMA ShapeOpen ==
    ASSUME NEW fs \in Seq(Frame), Shape(fs, TRUE)
    PROVE  ~TwoUnlogs(fs)
<1>1. SUFFICES ASSUME TwoUnlogs(fs) PROVE FALSE
  OBVIOUS
<1>2. PICK j \in 2..Len(fs) : fs[j].pc = "unlog"
  BY <1>1 DEF TwoUnlogs
<1>3. 1 \in 1..Len(fs) /\ j \in 1..Len(fs) /\ 1 < j /\ fs[1].pc = "unlog"
  BY <1>1, <1>2 DEF TwoUnlogs
<1>4. PICK k \in (1 + 1)..(j - 1) : fs[k].pc \in LeavePcs
  BY <1>2, <1>3 DEF Shape, ShapeLog
<1>5. k \in 1..Len(fs)
  BY <1>2, <1>4
<1>6. fs[k].pc \in OpenPcs
  BY <1>5 DEF Shape, ShapeIrq
<1> QED BY <1>4, <1>6 DEF OpenPcs, LeavePcs

\* Entering a region with interrupts off: a call of task_dispatch, or the log_printf
\* with which a suspended task will go on, and the flag to put back afterwards.
LEMMA ShapeEnter ==
    ASSUME NEW fs \in Seq(Frame), NEW b \in BOOLEAN, Shape(fs, b),
           ~TwoUnlogs(fs), ~HasPc(fs, {"walk"}),
           NEW pc \in {"dispatch", "log"}
    PROVE  Shape(<<Call(pc), Leave(b)>> \o fs, FALSE)
<1> DEFINE f == Call(pc)
           g == Leave(b)
           r == <<f, g>> \o fs
           n == Len(fs)
<1>1. f \in Frame /\ g \in Frame /\ f.pc = pc /\ g.pc = "leave" /\ g.irq = b
  BY FrameType DEF Pcs
<1>2. /\ r \in Seq(Frame) /\ n \in Nat /\ Len(r) = n + 2
      /\ r[1] = f /\ r[2] = g /\ \A i \in 3..Len(r) : r[i] = fs[i - 2]
  BY <1>1, PushTwoIndex
<1> HIDE DEF f, g, r, n
<1>3. \A i \in 1..(n + 2) : i = 1 \/ i = 2 \/ (i \in 3..(n + 2) /\ i - 2 \in 1..n)
  BY <1>2
<1>4. ShapeIrq(r, FALSE)
  <2>1. SUFFICES ASSUME NEW i \in 1..Len(r), r[i].pc \in LeavePcs, r[i].irq,
                        NEW j \in (i + 1)..Len(r)
                 PROVE  r[j].pc \in OpenPcs
    BY DEF ShapeIrq
  <2>2. i # 1
    BY <1>1, <1>2, <2>1 DEF LeavePcs
  <2>3. j \in 3..Len(r) /\ j - 2 \in 1..n
    BY <1>2, <2>2
  <2>4. CASE i = 2
    <3>1. b
      BY <1>1, <1>2, <2>1, <2>4
    <3>2. fs[j - 2].pc \in OpenPcs
      BY <2>3, <3>1 DEF Shape, ShapeIrq, n
    <3> QED BY <1>2, <2>3, <3>2
  <2>5. CASE i # 2
    <3>1. i - 2 \in 1..n /\ r[i] = fs[i - 2] /\ j - 2 \in ((i - 2) + 1)..n
      BY <1>2, <2>2, <2>3, <2>5
    <3>2. fs[j - 2].pc \in OpenPcs
      BY <2>1, <3>1 DEF Shape, ShapeIrq, n
    <3> QED BY <1>2, <2>3, <3>2
  <2> QED BY <2>4, <2>5
<1>5. ShapeTick(r)
  <2>1. SUFFICES ASSUME NEW i \in 1..Len(r)
                 PROVE  /\ r[i].pc \in {"rotate", "scan", "walk"} =>
                              i < Len(r) /\ r[i + 1].pc = "dispatch"
                        /\ r[i].pc = "walk" => i = 1
    BY DEF ShapeTick
  <2>2. CASE i = 1 \/ i = 2
    BY <1>1, <1>2, <2>2
  <2>3. CASE i \in 3..(n + 2) /\ i - 2 \in 1..n
    <3>1. r[i] = fs[i - 2]
      BY <1>2, <2>3
    <3>2. r[i].pc # "walk"
      BY <2>3, <3>1 DEF HasPc, n
    <3>3. ASSUME r[i].pc \in {"rotate", "scan"}
          PROVE  i < Len(r) /\ r[i + 1].pc = "dispatch"
      <4>1. i - 2 < n /\ fs[(i - 2) + 1].pc = "dispatch"
        BY <2>3, <3>1, <3>3 DEF Shape, ShapeTick, n
      <4>2. i + 1 \in 3..Len(r) /\ (i + 1) - 2 = (i - 2) + 1
        BY <1>2, <2>3, <4>1
      <4> QED BY <1>2, <4>1, <4>2
    <3> QED BY <3>2, <3>3
  <2> QED BY <1>2, <1>3, <2>2, <2>3
<1>6. ShapeInit(r)
  <2>1. SUFFICES ASSUME NEW i \in 1..Len(r), r[i].pc = "task_ready"
                 PROVE  i = Len(r)
    BY DEF ShapeInit
  <2>2. i \in 3..(n + 2) /\ i - 2 \in 1..n /\ r[i] = fs[i - 2]
    BY <1>1, <1>2, <1>3, <2>1
  <2>3. i - 2 = n
    BY <2>1, <2>2 DEF Shape, ShapeInit, n
  <2> QED BY <1>2, <2>2, <2>3
<1>7. ASSUME NEW i \in 1..Len(r), NEW j \in 1..Len(r), i < j,
             r[i].pc \in {"log", "unlog"} \cup InitPcs, r[j].pc = "unlog"
      PROVE  \E k \in (i + 1)..(j - 1) : r[k].pc \in LeavePcs
  <2>1. j \in 3..(n + 2) /\ j - 2 \in 1..n /\ r[j] = fs[j - 2]
    BY <1>1, <1>2, <1>3, <1>7
  <2>2. CASE i = 1
    <3>1. 2 \in (i + 1)..(j - 1)
      BY <2>1, <2>2
    <3> QED BY <1>1, <1>2, <3>1 DEF LeavePcs
  <2>3. CASE i # 1
    <3>1. i # 2
      BY <1>1, <1>2, <1>7 DEF InitPcs
    <3>2. i - 2 \in 1..n /\ r[i] = fs[i - 2] /\ i - 2 < j - 2
      BY <1>2, <1>3, <1>7, <2>1, <2>3, <3>1
    <3>3. PICK k \in ((i - 2) + 1)..((j - 2) - 1) : fs[k].pc \in LeavePcs
      BY <1>7, <2>1, <3>2 DEF Shape, ShapeLog, n
    <3>4. k + 2 \in (i + 1)..(j - 1) /\ k + 2 \in 3..Len(r) /\ (k + 2) - 2 = k
      BY <1>2, <2>1, <3>2, <3>3
    <3>5. r[k + 2] = fs[k]
      BY <1>2, <3>4
    <3> QED BY <3>3, <3>4, <3>5
  <2> QED BY <2>2, <2>3
<1>8. ASSUME NEW i \in 1..Len(r), NEW j \in 1..Len(r), i < j,
             r[i].pc = "unlog", r[j].pc = "unlog"
      PROVE  i = 1
  <2>1. /\ i \in 3..(n + 2) /\ i - 2 \in 1..n /\ r[i] = fs[i - 2]
        /\ j \in 3..(n + 2) /\ j - 2 \in 1..n /\ r[j] = fs[j - 2]
    BY <1>1, <1>2, <1>3, <1>8
  <2>2. i - 2 = 1
    BY <1>8, <2>1 DEF Shape, ShapeLog, n
  <2>3. fs[1].pc = "unlog" /\ j - 2 \in 2..n /\ fs # <<>>
    BY <1>8, <2>1, <2>2 DEF n
  <2> QED BY <1>8, <2>1, <2>3 DEF TwoUnlogs, n
<1>9. ShapeLog(r)
  BY <1>7, <1>8 DEF ShapeLog
<1> QED BY <1>4, <1>5, <1>6, <1>9 DEF Shape, r, f, g

\* The first frame replaced by the one that follows it in the same function.
LEMMA ReplaceIndex ==
    ASSUME NEW fs \in Seq(Frame), fs # <<>>, NEW f \in Frame
    PROVE  LET r == <<f>> \o Tail(fs)
           IN  /\ r \in Seq(Frame) /\ r # <<>>
               /\ Len(fs) \in Nat /\ Len(fs) > 0
               /\ Len(r) = Len(fs)
               /\ r[1] = f
               /\ \A i \in 2..Len(fs) : r[i] = fs[i]
<1> DEFINE t == Tail(fs)
           r == <<f>> \o t
<1>1. /\ t \in Seq(Frame) /\ Len(fs) \in Nat /\ Len(fs) > 0 /\ Len(t) = Len(fs) - 1
      /\ \A i \in 1..Len(t) : t[i] = fs[i + 1]
  BY PopIndex
<1> HIDE DEF t
<1>2. /\ r \in Seq(Frame) /\ r # <<>> /\ Len(r) = Len(t) + 1 /\ r[1] = f
      /\ \A i \in 2..Len(r) : r[i] = t[i - 1]
  BY <1>1, PushIndex
<1> HIDE DEF r
<1>3. ASSUME NEW i \in 2..Len(fs) PROVE r[i] = fs[i]
  <2>1. i \in 2..Len(r) /\ i - 1 \in 1..Len(t) /\ (i - 1) + 1 = i
    BY <1>1, <1>2
  <2> QED BY <1>1, <1>2, <2>1
<1> QED BY <1>1, <1>2, <1>3 DEF r, t

LEMMA ShapeReplace ==
    ASSUME NEW fs \in Seq(Frame), fs # <<>>, NEW b \in BOOLEAN, Shape(fs, b),
           NEW q \in {"log", "unlog", "walk"},
           fs[1].pc = CASE q = "unlog" -> "log" [] q = "walk" -> "scan" [] q = "log" -> "tss_set"
    PROVE  Shape(<<Call(q)>> \o Tail(fs), b)
<1> DEFINE f == Call(q)
           r == <<f>> \o Tail(fs)
           n == Len(fs)
<1>1. f \in Frame /\ f.pc = q
  BY FrameType DEF Pcs
<1>2. /\ r \in Seq(Frame) /\ n \in Nat /\ n > 0 /\ Len(r) = n
      /\ r[1] = f /\ \A i \in 2..n : r[i] = fs[i]
  BY <1>1, ReplaceIndex
<1> HIDE DEF f, r, n
<1>3. \/ q = "unlog" /\ fs[1].pc = "log"
      \/ q = "walk" /\ fs[1].pc = "scan"
      \/ q = "log" /\ fs[1].pc = "tss_set"
  OBVIOUS
<1>4. \A i \in 1..n : i = 1 \/ i \in 2..n
  BY <1>2
<1>5. ShapeIrq(r, b)
  <2>1. \A i \in 1..n : b => fs[i].pc \in OpenPcs
    BY DEF Shape, ShapeIrq, n
  <2>2. b => q \in {"unlog", "log"}
    <3>1. 1 \in 1..n
      BY <1>2
    <3> QED BY <1>3, <2>1, <3>1 DEF OpenPcs
  <2>3. \A i \in 1..n : b => r[i].pc \in OpenPcs
    BY <1>1, <1>2, <1>4, <2>1, <2>2 DEF OpenPcs
  <2>4. ASSUME NEW i \in 1..n, r[i].pc \in LeavePcs, r[i].irq, NEW j \in (i + 1)..n
        PROVE  r[j].pc \in OpenPcs
    <3>1. i # 1
      BY <1>1, <1>2, <2>4 DEF LeavePcs
    <3>2. r[i] = fs[i] /\ r[j] = fs[j] /\ j \in (i + 1)..Len(fs) /\ i \in 1..Len(fs)
      BY <1>2, <1>4, <2>4, <3>1 DEF n
    <3> QED BY <2>4, <3>2 DEF Shape, ShapeIrq
  <2> QED BY <1>2, <2>3, <2>4 DEF ShapeIrq
<1>6. ShapeTick(r)
  <2>1. SUFFICES ASSUME NEW i \in 1..n
                 PROVE  /\ r[i].pc \in {"rotate", "scan", "walk"} =>
                              i < n /\ r[i + 1].pc = "dispatch"
                        /\ r[i].pc = "walk" => i = 1
    BY <1>2 DEF ShapeTick
  <2>2. ASSUME fs[i].pc \in {"rotate", "scan", "walk"}
        PROVE  i < n /\ fs[i + 1].pc = "dispatch" /\ r[i + 1] = fs[i + 1]
    <3>1. i < n /\ fs[i + 1].pc = "dispatch"
      BY <2>2 DEF Shape, ShapeTick, n
    <3>2. i + 1 \in 2..n
      BY <1>2, <3>1
    <3> QED BY <1>2, <3>1, <3>2
  <2>3. CASE i = 1
    BY <1>1, <1>2, <1>3, <2>2, <2>3
  <2>4. CASE i \in 2..n
    <3>1. fs[i].pc # "walk"
      BY <2>4 DEF Shape, ShapeTick, n
    <3> QED BY <1>2, <2>2, <2>4, <3>1
  <2> QED BY <1>4, <2>3, <2>4
<1>7. ShapeInit(r)
  <2>1. SUFFICES ASSUME NEW i \in 1..n, r[i].pc = "task_ready" PROVE i = n
    BY <1>2 DEF ShapeInit
  <2>2. i \in 2..n
    BY <1>1, <1>2, <1>4, <2>1
  <2> QED BY <1>2, <2>1, <2>2 DEF Shape, ShapeInit, n
<1>8. ASSUME NEW i \in 1..n, NEW j \in 1..n, i < j,
             r[i].pc \in {"log", "unlog"} \cup InitPcs, r[j].pc = "unlog"
      PROVE  \E k \in (i + 1)..(j - 1) : r[k].pc \in LeavePcs
  <2>1. j \in 2..n /\ fs[j].pc = "unlog"
    BY <1>2, <1>4, <1>8
  <2>2. fs[i].pc \in {"log", "unlog"} \cup InitPcs
    <3>1. CASE i = 1
      <4>1. q # "walk"
        BY <1>1, <1>2, <1>8, <3>1 DEF InitPcs
      <4> QED BY <1>3, <3>1, <4>1 DEF InitPcs
    <3>2. CASE i \in 2..n
      BY <1>2, <1>8, <3>2
    <3> QED BY <1>4, <3>1, <3>2
  <2>3. PICK k \in (i + 1)..(j - 1) : fs[k].pc \in LeavePcs
    BY <1>8, <2>1, <2>2 DEF Shape, ShapeLog, n
  <2>4. k \in 2..n
    BY <1>2, <2>3
  <2> QED BY <1>2, <2>3, <2>4
<1>9. ASSUME NEW i \in 1..n, NEW j \in 1..n, i < j, r[i].pc = "unlog", r[j].pc = "unlog"
      PROVE  i = 1
  <2>1. CASE i \in 2..n
    <3>1. j \in 2..n
      BY <1>9, <1>4, <2>1
    <3>2. fs[i].pc = "unlog" /\ fs[j].pc = "unlog"
      BY <1>2, <1>9, <2>1, <3>1
    <3> QED BY <1>9, <3>2 DEF Shape, ShapeLog, n
  <2> QED BY <1>4, <2>1
<1>10. ShapeLog(r)
  BY <1>2, <1>8, <1>9 DEF ShapeLog
<1> QED BY <1>5, <1>6, <1>7, <1>10 DEF Shape, r, f

\* A call from the task's own code: log_printf, or task_init's frames.
LEMMA ShapeBase ==
    ASSUME NEW b \in BOOLEAN
    PROVE  /\ Shape(<<>>, b)
           /\ Shape(<<Call("unlog")>>, b)
           /\ Shape(<<Call("gdt_scan"), Call("gdt_unlock"), Call("tss_set"),
                      Call("task_ready")>>, b)
<1>1. Shape(<<>>, b)
  BY DEF Shape, ShapeIrq, ShapeTick, ShapeInit, ShapeLog
<1>2. Shape(<<Call("unlog")>>, b)
  BY DEF Shape, ShapeIrq, ShapeTick, ShapeInit, ShapeLog, Call, OpenPcs, LeavePcs
<1>3. Shape(<<Call("gdt_scan"), Call("gdt_unlock"), Call("tss_set"), Call("task_ready")>>, b)
  <2> DEFINE r == <<Call("gdt_scan"), Call("gdt_unlock"), Call("tss_set"), Call("task_ready")>>
  <2>1. /\ Len(r) = 4
        /\ r[1].pc = "gdt_scan" /\ r[2].pc = "gdt_unlock"
        /\ r[3].pc = "tss_set" /\ r[4].pc = "task_ready"
    BY DEF Call
  <2>2. \A i \in 1..4 : i = 1 \/ i = 2 \/ i = 3 \/ i = 4
    OBVIOUS
  <2> HIDE DEF r
  <2>3. ShapeIrq(r, b)
    BY <2>1, <2>2 DEF ShapeIrq, OpenPcs, LeavePcs
  <2>4. ShapeTick(r) /\ ShapeInit(r)
    BY <2>1, <2>2 DEF ShapeTick, ShapeInit
  <2>5. ShapeLog(r)
    BY <2>1, <2>2 DEF ShapeLog
  <2> QED BY <2>3, <2>4, <2>5 DEF Shape, r
<1> QED BY <1>1, <1>2, <1>3

\* A tuple of frames is a sequence of frames.
LEMMA ThreeFrames ==
    ASSUME NEW a \in Frame, NEW b \in Frame, NEW c \in Frame
    PROVE  <<a, b, c>> \in Seq(Frame) /\ Len(<<a, b, c>>) = 3
OBVIOUS

LEMMA FourFrames ==
    ASSUME NEW a \in Frame, NEW b \in Frame, NEW c \in Frame, NEW d \in Frame
    PROVE  <<a, b, c, d>> \in Seq(Frame) /\ Len(<<a, b, c, d>>) = 4
OBVIOUS

LEMMA SixFrames ==
    ASSUME NEW a \in Frame, NEW b \in Frame, NEW c \in Frame,
           NEW d \in Frame, NEW e \in Frame, NEW f \in Frame
    PROVE  <<a, b, c, d, e, f>> \in Seq(Frame) /\ Len(<<a, b, c, d, e, f>>) = 6
OBVIOUS

\* The frames the timer interrupt pushes.
LEMMA TickFrames ==
    ASSUME NEW e \in BOOLEAN
    PROVE  \E k \in {3, 6} :
              /\ TickCalls(e) \in Seq(Frame) /\ Len(TickCalls(e)) = k
              /\ TickCalls(e)[1].pc \in {"log", "scan"}
              /\ TickCalls(e)[k].pc = "iret"
              /\ \A i \in 1..(k - 1) :
                    TickCalls(e)[i].pc \in {"log", "rotate", "dispatch", "scan"}
              /\ \A i \in 1..k : TickCalls(e)[i].pc \in {"rotate", "scan"} =>
                    i < k /\ TickCalls(e)[i + 1].pc = "dispatch"
<1>1. /\ Call("log") \in Frame /\ Call("rotate") \in Frame /\ Call("dispatch") \in Frame
      /\ Call("scan") \in Frame /\ Iret(TRUE) \in Frame
      /\ Call("log").pc = "log" /\ Call("rotate").pc = "rotate"
      /\ Call("dispatch").pc = "dispatch" /\ Call("scan").pc = "scan"
      /\ Iret(TRUE).pc = "iret"
  BY FrameType DEF Pcs
<1>2. CASE e
  <2> DEFINE q == <<Call("log"), Call("rotate"), Call("dispatch"), Call("scan"),
                    Call("dispatch"), Iret(TRUE)>>
  <2>1. TickCalls(e) = q
    BY <1>2 DEF TickCalls
  <2>2. q \in Seq(Frame) /\ Len(q) = 6
    BY <1>1, SixFrames
  <2>3. /\ q[1].pc = "log" /\ q[2].pc = "rotate" /\ q[3].pc = "dispatch"
        /\ q[4].pc = "scan" /\ q[5].pc = "dispatch" /\ q[6].pc = "iret"
    BY <1>1
  <2> HIDE DEF q
  <2>4. \A i \in 1..6 : i = 1 \/ i = 2 \/ i = 3 \/ i = 4 \/ i = 5 \/ i = 6
    OBVIOUS
  <2>5. \A i \in 1..(6 - 1) : q[i].pc \in {"log", "rotate", "dispatch", "scan"}
    BY <2>3, <2>4
  <2>6. \A i \in 1..6 : q[i].pc \in {"rotate", "scan"} => i < 6 /\ q[i + 1].pc = "dispatch"
    BY <2>3, <2>4
  <2> QED BY <2>1, <2>2, <2>3, <2>5, <2>6
<1>3. CASE ~e
  <2> DEFINE q == <<Call("scan"), Call("dispatch"), Iret(TRUE)>>
  <2>1. TickCalls(e) = q
    BY <1>3 DEF TickCalls
  <2>2. q \in Seq(Frame) /\ Len(q) = 3
    BY <1>1, ThreeFrames
  <2>3. q[1].pc = "scan" /\ q[2].pc = "dispatch" /\ q[3].pc = "iret"
    BY <1>1
  <2> HIDE DEF q
  <2>4. \A i \in 1..3 : i = 1 \/ i = 2 \/ i = 3
    OBVIOUS
  <2>5. \A i \in 1..(3 - 1) : q[i].pc \in {"log", "rotate", "dispatch", "scan"}
    BY <2>3, <2>4
  <2>6. \A i \in 1..3 : q[i].pc \in {"rotate", "scan"} => i < 3 /\ q[i + 1].pc = "dispatch"
    BY <2>3, <2>4
  <2> QED BY <2>1, <2>2, <2>3, <2>5, <2>6
<1> QED BY <1>2, <1>3

\* The timer interrupt on a stack that runs with IF set.
LEMMA ShapeTimer ==
    ASSUME NEW fs \in Seq(Frame), Shape(fs, TRUE), NEW e \in BOOLEAN
    PROVE  LET r == TickCalls(e) \o fs
           IN  /\ r \in Seq(Frame)
               /\ r # <<>>
               /\ r[1].pc \in {"log", "scan"}
               /\ Shape(r, FALSE)
               /\ HasPc(r, {"unlog"}) <=> HasPc(fs, {"unlog"})
               /\ HasPc(r, InitPcs) <=> HasPc(fs, InitPcs)
               /\ fs = <<>> => IdleShape(r, FALSE)
<1> DEFINE p == TickCalls(e)
           r == p \o fs
           n == Len(fs)
<1>1. PICK k \in {3, 6} :
          /\ p \in Seq(Frame) /\ Len(p) = k
          /\ p[1].pc \in {"log", "scan"}
          /\ p[k].pc = "iret"
          /\ \A i \in 1..(k - 1) : p[i].pc \in {"log", "rotate", "dispatch", "scan"}
          /\ \A i \in 1..k : p[i].pc \in {"rotate", "scan"} =>
                i < k /\ p[i + 1].pc = "dispatch"
  BY TickFrames
<1> HIDE DEF p
<1>2. /\ r \in Seq(Frame) /\ n \in Nat /\ Len(r) = n + k
      /\ \A i \in 1..k : r[i] = p[i]
      /\ \A i \in (k + 1)..(n + k) : r[i] = fs[i - k]
  BY <1>1
<1> HIDE DEF r, n
<1>3. \A i \in 1..(n + k) : i \in 1..(k - 1) \/ i = k \/ (i \in (k + 1)..(n + k) /\ i - k \in 1..n)
  BY <1>1, <1>2
<1>4. \A i \in 1..n : fs[i].pc \in OpenPcs
  BY DEF Shape, ShapeIrq, n
<1>5. \A i \in (k + 1)..(n + k) : i - k \in 1..n /\ r[i].pc \in OpenPcs
  BY <1>1, <1>2, <1>4
<1>6. /\ \A i \in 1..(k - 1) : r[i].pc \in {"log", "rotate", "dispatch", "scan"}
      /\ r[k].pc = "iret"
  <2>1. k \in 1..k /\ \A i \in 1..(k - 1) : i \in 1..k
    BY <1>1
  <2> QED BY <1>1, <1>2, <2>1
<1>7. ShapeIrq(r, FALSE)
  <2>1. SUFFICES ASSUME NEW i \in 1..(n + k), r[i].pc \in LeavePcs,
                        NEW j \in (i + 1)..(n + k)
                 PROVE  r[j].pc \in OpenPcs
    BY <1>2 DEF ShapeIrq
  <2>2. i \notin 1..(k - 1)
    BY <1>6, <2>1 DEF LeavePcs
  <2>3. j \in (k + 1)..(n + k)
    BY <1>1, <1>2, <1>3, <2>2
  <2> QED BY <1>5, <2>3
<1>8. ShapeTick(r)
  <2>1. SUFFICES ASSUME NEW i \in 1..(n + k)
                 PROVE  /\ r[i].pc \in {"rotate", "scan", "walk"} =>
                              i < n + k /\ r[i + 1].pc = "dispatch"
                        /\ r[i].pc # "walk"
    BY <1>2 DEF ShapeTick
  <2>2. CASE i \in 1..(k - 1)
    <3>1. r[i].pc # "walk" /\ i \in 1..k /\ i + 1 \in 1..k /\ i < n + k
      BY <1>1, <1>2, <1>6, <2>2
    <3> QED BY <1>1, <1>2, <3>1
  <2>3. CASE i = k
    BY <1>6, <2>3
  <2>4. CASE i \in (k + 1)..(n + k)
    BY <1>5, <2>4 DEF OpenPcs
  <2> QED BY <1>3, <2>2, <2>3, <2>4
<1>9. ShapeInit(r)
  <2>1. SUFFICES ASSUME NEW i \in 1..(n + k), r[i].pc = "task_ready" PROVE i = n + k
    BY <1>2 DEF ShapeInit
  <2>2. i \in (k + 1)..(n + k) /\ i - k \in 1..n /\ r[i] = fs[i - k]
    BY <1>2, <1>3, <1>6, <2>1
  <2>3. i - k = n
    BY <2>1, <2>2 DEF Shape, ShapeInit, n
  <2> QED BY <1>1, <1>2, <2>2, <2>3
<1>10. ASSUME NEW j \in 1..(n + k), r[j].pc = "unlog"
       PROVE  j \in (k + 1)..(n + k) /\ j - k \in 1..n /\ r[j] = fs[j - k]
  BY <1>2, <1>3, <1>6, <1>10
<1>11. ASSUME NEW i \in 1..(n + k), NEW j \in 1..(n + k), i < j,
              r[i].pc \in {"log", "unlog"} \cup InitPcs, r[j].pc = "unlog"
       PROVE  i < k
  <2>1. j \in (k + 1)..(n + k) /\ j - k \in 1..n /\ r[j] = fs[j - k]
    BY <1>10, <1>11
  <2>2. SUFFICES ASSUME i \in (k + 1)..(n + k) PROVE FALSE
    BY <1>1, <1>2, <1>3, <1>6, <1>11 DEF InitPcs
  <2>3. i - k \in 1..n /\ r[i] = fs[i - k] /\ i - k < j - k
    BY <1>1, <1>2, <1>5, <1>11, <2>1, <2>2
  <2>4. PICK l \in ((i - k) + 1)..((j - k) - 1) : fs[l].pc \in LeavePcs
    BY <1>11, <2>1, <2>3 DEF Shape, ShapeLog, n
  <2>5. l \in 1..n
    BY <1>1, <1>2, <2>1, <2>3, <2>4
  <2> QED BY <1>4, <2>4, <2>5 DEF LeavePcs, OpenPcs
<1>12. ShapeLog(r)
  <2>1. ASSUME NEW i \in 1..(n + k), NEW j \in 1..(n + k), i < j,
               r[i].pc \in {"log", "unlog"} \cup InitPcs, r[j].pc = "unlog"
        PROVE  \E l \in (i + 1)..(j - 1) : r[l].pc \in LeavePcs
    <3>1. i < k /\ j \in (k + 1)..(n + k)
      BY <1>10, <1>11, <2>1
    <3>2. k \in (i + 1)..(j - 1)
      BY <1>1, <1>2, <3>1
    <3> QED BY <1>6, <3>2 DEF LeavePcs
  <2>2. ASSUME NEW i \in 1..(n + k), NEW j \in 1..(n + k), i < j,
               r[i].pc = "unlog", r[j].pc = "unlog"
        PROVE  FALSE
    <3>1. i < k
      BY <1>11, <2>2
    <3>2. i \in (k + 1)..(n + k)
      BY <1>10, <2>2
    <3> QED BY <1>1, <1>2, <3>1, <3>2
  <2> QED BY <1>2, <2>1, <2>2 DEF ShapeLog
<1>13. ASSUME NEW P, P \cap {"log", "rotate", "dispatch", "scan", "iret"} = {}
       PROVE  HasPc(r, P) <=> HasPc(fs, P)
  <2>1. ASSUME HasPc(r, P) PROVE HasPc(fs, P)
    <3>1. PICK i \in 1..(n + k) : r[i].pc \in P
      BY <1>2, <2>1 DEF HasPc
    <3>2. i - k \in 1..n /\ r[i] = fs[i - k]
      BY <1>2, <1>3, <1>6, <1>13, <3>1
    <3> QED BY <3>1, <3>2 DEF HasPc, n
  <2>2. ASSUME HasPc(fs, P) PROVE HasPc(r, P)
    <3>1. PICK i \in 1..n : fs[i].pc \in P
      BY <2>2 DEF HasPc, n
    <3>2. i + k \in (k + 1)..(n + k) /\ (i + k) - k = i /\ i + k \in 1..(n + k)
      BY <1>1, <1>2
    <3>3. r[i + k] = fs[i]
      BY <1>2, <3>2
    <3> QED BY <1>2, <3>1, <3>2, <3>3 DEF HasPc
  <2> QED BY <2>1, <2>2
<1>14. HasPc(r, {"unlog"}) <=> HasPc(fs, {"unlog"})
  BY <1>13
<1>15. HasPc(r, InitPcs) <=> HasPc(fs, InitPcs)
  <2>1. InitPcs \cap {"log", "rotate", "dispatch", "scan", "iret"} = {}
    BY DEF InitPcs
  <2> QED BY <1>13, <2>1
<1>16. r # <<>> /\ r[1].pc \in {"log", "scan"}
  BY <1>1, <1>2
<1>17. ASSUME fs = <<>> PROVE IdleShape(r, FALSE)
  <2>1. n = 0
    BY <1>17 DEF n
  <2>2. \A i \in 1..k : i \in 1..(k - 1) \/ i = k
    BY <1>1
  <2>3. \A i \in 1..Len(r) : /\ r[i].pc \notin InitPcs
                             /\ r[i].pc \in LeavePcs => i = Len(r)
                             /\ r[i].pc # "unlog"
    BY <1>1, <1>2, <1>6, <2>1, <2>2 DEF InitPcs, LeavePcs
  <2>4. \A i \in 1..Len(r) : /\ r[i].pc \notin InitPcs
                             /\ r[i].pc \in LeavePcs /\ r[i].irq => i = Len(r)
                             /\ r[i].pc = "unlog" => i = 1
    BY <2>3
  <2> QED BY <2>4 DEF IdleShape
<1> QED BY <1>2, <1>7, <1>8, <1>9, <1>12, <1>14, <1>15, <1>16, <1>17 DEF Shape, r, p

\* The same steps on the idle task's stack.
LEMMA IdlePop ==
    ASSUME NEW fs \in Seq(Frame), fs # <<>>, NEW b \in BOOLEAN, IdleShape(fs, b)
    PROVE  /\ b = FALSE
           /\ IdleShape(Tail(fs), FALSE)
           /\ fs[1].pc \in LeavePcs => IdleShape(Tail(fs), fs[1].irq)
           /\ ~HasPc(Tail(fs), {"unlog"})
<1> DEFINE r == Tail(fs)
<1>1. /\ r \in Seq(Frame) /\ Len(fs) \in Nat /\ Len(fs) > 0 /\ Len(r) = Len(fs) - 1
      /\ \A i \in 1..Len(r) : r[i] = fs[i + 1]
  BY PopIndex
<1> HIDE DEF r
<1>2. b = FALSE
  BY DEF IdleShape
<1>3. \A i \in 1..Len(r) : /\ r[i].pc \notin InitPcs
                           /\ r[i].pc \in LeavePcs /\ r[i].irq => i = Len(r)
                           /\ r[i].pc # "unlog"
  BY <1>1 DEF IdleShape
<1>4. ASSUME fs[1].pc \in LeavePcs, fs[1].irq PROVE r = <<>>
  <2>1. 1 \in 1..Len(fs)
    BY <1>1
  <2>2. Len(fs) = 1
    BY <1>4, <2>1 DEF IdleShape
  <2> QED BY <1>1, <2>2
<1> QED BY <1>2, <1>3, <1>4 DEF IdleShape, HasPc, r

LEMMA IdleEnter ==
    ASSUME NEW fs \in Seq(Frame), IdleShape(fs, FALSE), ~HasPc(fs, {"unlog"}),
           NEW pc \in {"dispatch", "log"}
    PROVE  IdleShape(<<Call(pc), Leave(FALSE)>> \o fs, FALSE)
<1> DEFINE f == Call(pc)
           g == Leave(FALSE)
           r == <<f, g>> \o fs
<1>1. f \in Frame /\ g \in Frame /\ f.pc = pc /\ g.pc = "leave" /\ g.irq = FALSE
  BY FrameType DEF Pcs
<1>2. /\ Len(fs) \in Nat /\ Len(r) = Len(fs) + 2
      /\ r[1] = f /\ r[2] = g /\ \A i \in 3..Len(r) : r[i] = fs[i - 2]
  BY <1>1, PushTwoIndex
<1> HIDE DEF f, g, r
<1>3. \A i \in 1..Len(r) : i = 1 \/ i = 2 \/ (i \in 3..Len(r) /\ i - 2 \in 1..Len(fs))
  BY <1>2
<1>4. \A i \in 1..Len(r) : r[i].pc \notin InitPcs /\ r[i].pc # "unlog"
  BY <1>1, <1>2, <1>3 DEF IdleShape, HasPc, InitPcs
<1>5. ASSUME NEW i \in 1..Len(r), r[i].pc \in LeavePcs, r[i].irq PROVE i = Len(r)
  <2>1. i \in 3..Len(r) /\ i - 2 \in 1..Len(fs) /\ r[i] = fs[i - 2]
    BY <1>1, <1>2, <1>3, <1>5 DEF LeavePcs
  <2>2. i - 2 = Len(fs)
    BY <1>5, <2>1 DEF IdleShape
  <2> QED BY <1>2, <2>1, <2>2
<1> QED BY <1>4, <1>5 DEF IdleShape, r, f, g

LEMMA IdleReplace ==
    ASSUME NEW fs \in Seq(Frame), fs # <<>>, NEW b \in BOOLEAN, IdleShape(fs, b),
           NEW q \in {"log", "unlog", "walk"}
    PROVE  IdleShape(<<Call(q)>> \o Tail(fs), b)
<1> DEFINE f == Call(q)
           r == <<f>> \o Tail(fs)
<1>1. f \in Frame /\ f.pc = q
  BY FrameType DEF Pcs
<1>2. /\ r # <<>> /\ Len(fs) \in Nat /\ Len(fs) > 0 /\ Len(r) = Len(fs)
      /\ r[1] = f /\ \A i \in 2..Len(fs) : r[i] = fs[i]
  BY <1>1, ReplaceIndex
<1> HIDE DEF f, r
<1>3. \A i \in 1..Len(r) : i = 1 \/ i \in 2..Len(fs)
  BY <1>2
<1>4. b = FALSE
  BY DEF IdleShape
<1>5. \A i \in 1..Len(r) : /\ r[i].pc \notin InitPcs
                           /\ r[i].pc \in LeavePcs /\ r[i].irq => i = Len(r)
                           /\ r[i].pc = "unlog" => i = 1
  BY <1>1, <1>2, <1>3 DEF IdleShape, InitPcs, LeavePcs
<1>6. IdleShape(r, FALSE)
  BY <1>5 DEF IdleShape
<1> QED BY <1>4, <1>6 DEF r, f

\* Nothing below the first frame is a walk; task_init's last frame is the last; what
\* stands below a change of the lists is a dispatch.
LEMMA ShapeBelow ==
    ASSUME NEW fs \in Seq(Frame), fs # <<>>, NEW b \in BOOLEAN, Shape(fs, b)
    PROVE  /\ ~HasPc(Tail(fs), {"walk"})
           /\ fs[1].pc = "task_ready" => Tail(fs) = <<>>
           /\ fs[1].pc \in {"rotate", "scan", "walk"} =>
                 Tail(fs) # <<>> /\ Tail(fs)[1].pc = "dispatch"
           /\ fs[1].pc \notin OpenPcs => b = FALSE
<1> DEFINE r == Tail(fs)
<1>1. /\ r \in Seq(Frame) /\ Len(fs) \in Nat /\ Len(fs) > 0 /\ Len(r) = Len(fs) - 1
      /\ \A i \in 1..Len(r) : r[i] = fs[i + 1]
      /\ 1 \in 1..Len(fs)
  BY PopIndex
<1> HIDE DEF r
<1>2. \A i \in 1..Len(r) : r[i].pc # "walk"
  BY <1>1 DEF Shape, ShapeTick
<1>3. fs[1].pc = "task_ready" => r = <<>>
  BY <1>1 DEF Shape, ShapeInit
<1>4. ASSUME fs[1].pc \in {"rotate", "scan", "walk"} PROVE r # <<>> /\ r[1].pc = "dispatch"
  <2>1. 1 < Len(fs) /\ fs[1 + 1].pc = "dispatch"
    BY <1>1, <1>4 DEF Shape, ShapeTick
  <2>2. 1 \in 1..Len(r)
    BY <1>1, <2>1
  <2> QED BY <1>1, <2>1, <2>2
<1>5. fs[1].pc \notin OpenPcs => b = FALSE
  BY <1>1 DEF Shape, ShapeIrq
<1> QED BY <1>2, <1>3, <1>4, <1>5 DEF HasPc, r

-----------------------------------------------------------------------------
(* What IInv says of the current task.                                     *)

\* A task that executes anything but a dispatch or the walk is the first of the
\* ready list, or the idle task and that list is empty; it is linked nowhere else.
LEMMA RunningFacts ==
    ASSUME IInv, ~halted, ~TopIn(curr_task, {"dispatch", "walk"})
    PROVE  /\ curr_task = task_next_run
           /\ curr_task # idle_task => ready_list # <<>> /\ curr_task = Head(ready_list)
                                       /\ curr_task \in Nodes(ready_list)
           /\ curr_task = idle_task => ready_list = <<>>
           /\ curr_task \notin Nodes(sleep_list)
           /\ \A m \in MutexId : curr_task \notin Nodes(mutex_wait[m])
           /\ \A s \in SemId : curr_task \notin Nodes(sem_wait_list[s])
<1>1. curr_task = task_next_run
  BY DEF IInv, RunInv, TopIn
<1>2. ready_list \in Seq(Task)
  BY DEF IInv, TypeOK, TaskTypeOK
<1>3. ready_list = <<>> => task_next_run = idle_task
  BY DEF task_next_run, list_count
<1>4. ready_list # <<>> => task_next_run = Head(ready_list) /\ Head(ready_list) \in Nodes(ready_list)
  <2>1. ready_list # <<>> => Len(ready_list) # 0
    BY <1>2
  <2>2. ready_list # <<>> => Head(ready_list) \in Nodes(ready_list)
    BY <1>2, RemoveFirst
  <2> QED BY <2>1, <2>2 DEF task_next_run, list_count, list_first
<1>5. idle_task \notin Nodes(ready_list)
  BY DEF IInv, LinkInv, Linkable
<1>6. CASE ready_list = <<>>
  <2>1. curr_task = idle_task
    BY <1>1, <1>3, <1>6
  <2> QED BY <1>1, <1>6, <2>1 DEF IInv, LinkInv, Linkable
<1>7. CASE ready_list # <<>>
  <2>1. curr_task = Head(ready_list) /\ curr_task \in Nodes(ready_list)
    BY <1>1, <1>4, <1>7
  <2> QED BY <1>1, <1>5, <1>7, <2>1 DEF IInv, ListInv
<1> QED BY <1>6, <1>7

\* A step that replaces the current task's stack by a well-shaped one, and does not
\* switch, keeps StackInv and Suspended.
LEMMA StackStep ==
    ASSUME IInv, NEW fs \in Seq(Frame), NEW b \in BOOLEAN,
           Shape(fs, b), curr_task = idle_task => IdleShape(fs, b),
           curr_task' = curr_task,
           stack' = [stack EXCEPT ![curr_task] = fs],
           irq' = [irq EXCEPT ![curr_task] = b]
    PROVE  /\ stack' \in [Task -> Seq(Frame)] /\ irq' \in [Task -> BOOLEAN]
           /\ stack'[curr_task] = fs /\ irq'[curr_task] = b
           /\ \A t \in Task \ {curr_task} : stack'[t] = stack[t]
           /\ StackInv' /\ Suspended'
<1>1. /\ curr_task \in Task /\ idle_task \in Task
      /\ stack \in [Task -> Seq(Frame)] /\ irq \in [Task -> BOOLEAN]
  BY DEF IInv, TypeOK, TaskTypeOK, Task
<1>2. /\ stack' \in [Task -> Seq(Frame)] /\ irq' \in [Task -> BOOLEAN]
      /\ stack'[curr_task] = fs /\ irq'[curr_task] = b
      /\ \A t \in Task \ {curr_task} : stack'[t] = stack[t] /\ irq'[t] = irq[t]
  BY <1>1
<1>3. \A t \in Task : Shape(stack[t], irq[t])
  BY DEF IInv, StackInv
<1>4. \A t \in Task : Shape(stack'[t], irq'[t])
  BY <1>2, <1>3
<1>5. IdleShape(stack'[idle_task], irq'[idle_task])
  BY <1>1, <1>2 DEF IInv, StackInv
<1>6. StackInv'
  BY <1>4, <1>5 DEF StackInv
<1>7. Suspended'
  BY <1>2 DEF IInv, Suspended
<1> QED BY <1>2, <1>6, <1>7

\* The same when only the stack changes.
LEMMA StackOnlyStep ==
    ASSUME IInv, NEW fs \in Seq(Frame),
           Shape(fs, irq[curr_task]), curr_task = idle_task => IdleShape(fs, irq[curr_task]),
           curr_task' = curr_task,
           stack' = [stack EXCEPT ![curr_task] = fs],
           irq' = irq
    PROVE  /\ stack' \in [Task -> Seq(Frame)] /\ irq' \in [Task -> BOOLEAN]
           /\ stack'[curr_task] = fs
           /\ \A t \in Task \ {curr_task} : stack'[t] = stack[t]
           /\ StackInv' /\ Suspended'
<1>1. curr_task \in Task /\ irq \in [Task -> BOOLEAN]
  BY DEF IInv, TypeOK, TaskTypeOK
<1>2. irq' = [irq EXCEPT ![curr_task] = irq[curr_task]] /\ irq[curr_task] \in BOOLEAN
  BY <1>1
<1> QED BY <1>2, StackStep

\* The invariant without what the frames of log_printf and task_init stand for.
Core ==
    /\ TaskTypeOK /\ MutexTypeOK /\ SemTypeOK
    /\ StackInv /\ Suspended
    /\ ListInv /\ LinkInv
    /\ RunInv /\ WalkInv
    /\ MutexInv

\* What the current task may go on with.
GoodRest(rest) ==
    /\ rest \in Seq(Frame)
    /\ Shape(rest, irq[curr_task])
    /\ curr_task = idle_task => IdleShape(rest, irq[curr_task])
    /\ ~HasPc(rest, {"walk"})

\* The current task disables interrupts and is about to dispatch.
LEMMA DispatchStep ==
    ASSUME IInv, NEW rest, GoodRest(rest), ~TwoUnlogs(rest),
           curr_task = idle_task => irq[curr_task] = FALSE /\ ~HasPc(rest, {"unlog"}),
           curr_task' = curr_task, ProtectedDispatch(rest)
    PROVE  /\ stack' \in [Task -> Seq(Frame)] /\ irq' \in [Task -> BOOLEAN]
           /\ StackInv' /\ Suspended'
           /\ \A t \in Task \ {curr_task} : stack'[t] = stack[t]
           /\ stack'[curr_task] # <<>> /\ stack'[curr_task][1].pc = "dispatch"
           /\ ~TwoUnlogs(stack'[curr_task])
           /\ \A P : {"dispatch", "leave"} \cap P = {} =>
                 (HasPc(stack'[curr_task], P) <=> HasPc(rest, P))
<1> DEFINE b == irq[curr_task]
           fs == <<Call("dispatch"), Leave(b)>> \o rest
<1>1. curr_task \in Task /\ b \in BOOLEAN
  BY DEF IInv, TypeOK, TaskTypeOK
<1>2. /\ Call("dispatch") \in Frame /\ Call("dispatch").pc = "dispatch"
      /\ Leave(b) \in Frame /\ Leave(b).pc = "leave"
  BY <1>1, FrameType DEF Pcs
<1>3. fs \in Seq(Frame) /\ fs # <<>> /\ fs[1].pc = "dispatch"
  BY <1>2, PushTwoIndex DEF GoodRest
<1>4. \A P : HasPc(fs, P) <=> "dispatch" \in P \/ "leave" \in P \/ HasPc(rest, P)
  BY <1>2, HasPcPushTwo DEF GoodRest
<1>5. Shape(fs, FALSE)
  BY <1>1, ShapeEnter DEF GoodRest
<1>6. curr_task = idle_task => IdleShape(fs, FALSE)
  <2>1. SUFFICES ASSUME curr_task = idle_task PROVE IdleShape(fs, FALSE)
    OBVIOUS
  <2>2. b = FALSE /\ IdleShape(rest, FALSE) /\ rest \in Seq(Frame) /\ ~HasPc(rest, {"unlog"})
    BY <2>1 DEF GoodRest
  <2>3. IdleShape(<<Call("dispatch"), Leave(FALSE)>> \o rest, FALSE)
    BY <2>2, IdleEnter
  <2> QED BY <2>2, <2>3
<1>7. stack' = [stack EXCEPT ![curr_task] = fs] /\ irq' = [irq EXCEPT ![curr_task] = FALSE]
  BY DEF ProtectedDispatch, Continue
<1> HIDE DEF fs, b
<1>8. /\ stack' \in [Task -> Seq(Frame)] /\ irq' \in [Task -> BOOLEAN]
      /\ stack'[curr_task] = fs
      /\ \A t \in Task \ {curr_task} : stack'[t] = stack[t]
      /\ StackInv' /\ Suspended'
  BY <1>3, <1>5, <1>6, <1>7, StackStep
<1>9. ~TwoUnlogs(fs)
  BY <1>3 DEF TwoUnlogs
<1> QED BY <1>3, <1>4, <1>8, <1>9

\* The current task goes on with rest, maybe after a dispatch; no other stack changes.
GoesOn(rest) ==
    /\ \A t \in Task \ {curr_task} : stack'[t] = stack[t]
    /\ \A P : {"dispatch", "leave"} \cap P = {} =>
          (HasPc(stack'[curr_task], P) <=> HasPc(rest, P))
    /\ ~TwoUnlogs(rest) => ~TwoUnlogs(stack'[curr_task])

\* mutex_lock keeps Core, provided the idle task does not find the mutex taken.
LEMMA LockCore ==
    ASSUME IInv, NEW m \in MutexId, NEW rest, GoodRest(rest),
           ~halted, ~TopIn(curr_task, {"dispatch", "walk"}),
           locked_count[m] = 0 \/ owner[m] = curr_task
              \/ (curr_task # idle_task /\ ~TwoUnlogs(rest)),
           mutex_lock(m, rest),
           UNCHANGED <<mutexFrame, state, gdtVars, semVars>>
    PROVE  /\ Core'
           /\ GoesOn(rest)
           /\ \A t \in Nodes(ready_list) \ {curr_task} : t \in Nodes(ready_list)'
           /\ locked_count[m] = 0 \/ owner[m] = curr_task =>
                 stack'[curr_task] = rest /\ ready_list' = ready_list
<1> USE DEF mutexFrame, gdtVars, semVars
<1>1. /\ curr_task \in Task /\ None \notin Task /\ irq \in [Task -> BOOLEAN]
      /\ TaskTypeOK /\ MutexTypeOK /\ SemTypeOK
  BY TaskAssumption DEF IInv, TypeOK, TaskTypeOK
<1>2. /\ curr_task = task_next_run
      /\ curr_task # idle_task => curr_task \in Nodes(ready_list)
      /\ curr_task \notin Nodes(sleep_list)
      /\ \A n \in MutexId : curr_task \notin Nodes(mutex_wait[n])
      /\ \A s \in SemId : curr_task \notin Nodes(sem_wait_list[s])
  BY RunningFacts
<1>3. CASE MutexTake(m, rest) \/ MutexReenter(m, rest)
  <2>1. stack' = [stack EXCEPT ![curr_task] = rest] /\ irq' = irq
    BY <1>3 DEF MutexTake, MutexReenter, Continue
  <2>2. /\ stack' \in [Task -> Seq(Frame)] /\ irq' \in [Task -> BOOLEAN]
        /\ stack'[curr_task] = rest
        /\ \A t \in Task \ {curr_task} : stack'[t] = stack[t]
        /\ StackInv' /\ Suspended'
    BY <2>1, StackOnlyStep DEF GoodRest
  <2>3. UNCHANGED <<ready_list, mutex_wait>>
    BY <1>3 DEF MutexTake, MutexReenter
  <2>4. TaskTypeOK'
    BY <1>1, <2>2, <2>3 DEF TaskTypeOK
  <2>5. MutexTypeOK' /\ SemTypeOK'
    <3>1. owner \in [MutexId -> Task \cup {None}] /\ locked_count \in [MutexId -> Nat]
      BY <1>1 DEF MutexTypeOK
    <3>2. locked_count' = [locked_count EXCEPT ![m] = @ + 1]
      BY <1>3 DEF MutexTake, MutexReenter
    <3>3. owner' = owner \/ owner' = [owner EXCEPT ![m] = curr_task]
      BY <1>3 DEF MutexTake, MutexReenter
    <3>4. owner' \in [MutexId -> Task \cup {None}]
      BY <1>1, <3>1, <3>3
    <3>5. locked_count' \in [MutexId -> Nat]
      BY <3>1, <3>2
    <3> QED BY <1>1, <2>3, <3>4, <3>5 DEF MutexTypeOK, SemTypeOK
  <2>6. ListInv' /\ LinkInv'
    BY <2>3 DEF IInv, ListInv, LinkInv, Linkable
  <2>7. RunInv'
    BY <1>2, <2>3 DEF RunInv, task_next_run
  <2>8. WalkInv'
    <3>1. rest # <<>> => rest[1].pc # "walk"
      BY DEF GoodRest, HasPc
    <3> QED BY <2>2, <3>1 DEF WalkInv, TopIn
  <2>9. MutexInv'
    <3>1. \A n \in MutexId \ {m} : owner'[n] = owner[n] /\ locked_count'[n] = locked_count[n]
      BY <1>1, <1>3 DEF MutexTypeOK, MutexTake, MutexReenter
    <3>2. owner'[m] = curr_task /\ locked_count'[m] = locked_count[m] + 1
      BY <1>1, <1>3 DEF MutexTypeOK, MutexTake, MutexReenter
    <3>3. locked_count[m] \in Nat
      BY <1>1 DEF MutexTypeOK
    <3>4. /\ owner'[m] = None <=> locked_count'[m] = 0
          /\ mutex_wait'[m] # <<>> => owner'[m] # None
          /\ owner'[m] \notin Nodes(mutex_wait'[m])
      BY <1>1, <1>2, <2>3, <3>2, <3>3
    <3> QED BY <2>3, <3>1, <3>4 DEF IInv, MutexInv
  <2>10. Core'
    BY <2>2, <2>4, <2>5, <2>6, <2>7, <2>8, <2>9 DEF Core
  <2> QED BY <2>2, <2>3, <2>10 DEF GoesOn
<1>4. CASE MutexBlock(m, rest)
  <2>1. /\ locked_count[m] # 0 /\ owner[m] # curr_task
        /\ ready_list' = task_set_block(ready_list, curr_task)
        /\ mutex_wait' = [mutex_wait EXCEPT ![m] = list_insert_last(@, curr_task)]
        /\ ProtectedDispatch(rest)
        /\ UNCHANGED <<owner, locked_count>>
    BY <1>4 DEF MutexBlock
  <2>2. curr_task # idle_task /\ ~TwoUnlogs(rest)
    BY <2>1
  <2>3. /\ stack' \in [Task -> Seq(Frame)] /\ irq' \in [Task -> BOOLEAN]
        /\ StackInv' /\ Suspended'
        /\ stack'[curr_task] # <<>> /\ stack'[curr_task][1].pc = "dispatch"
        /\ GoesOn(rest)
    BY <2>1, <2>2, DispatchStep DEF GoesOn
  <2>4. /\ ready_list' \in Seq(Task)
        /\ Nodes(ready_list)' = Nodes(ready_list) \ {curr_task}
        /\ NoRepeat(ready_list)'
    BY <1>1, <1>2, <2>1, <2>2, Remove DEF task_set_block, IInv, ListInv, TaskTypeOK
  <2>5. /\ mutex_wait' \in [MutexId -> Seq(Task)]
        /\ mutex_wait'[m] = list_insert_last(mutex_wait[m], curr_task)
        /\ \A n \in MutexId \ {m} : mutex_wait'[n] = mutex_wait[n]
    BY <1>1, <2>1, InsertLast DEF MutexTypeOK
  <2>6. Nodes(mutex_wait'[m]) = Nodes(mutex_wait[m]) \cup {curr_task} /\ NoRepeat(mutex_wait'[m])
    <3>1. mutex_wait[m] \in Seq(Task) /\ NoRepeat(mutex_wait[m]) /\ curr_task \notin Nodes(mutex_wait[m])
      BY <1>1, <1>2 DEF IInv, ListInv, MutexTypeOK
    <3>2. /\ Nodes(list_insert_last(mutex_wait[m], curr_task)) = Nodes(mutex_wait[m]) \cup {curr_task}
          /\ NoRepeat(list_insert_last(mutex_wait[m], curr_task))
      BY <1>1, <3>1, InsertLast
    <3> QED BY <2>5, <3>2
  <2>7. TaskTypeOK' /\ MutexTypeOK' /\ SemTypeOK'
    BY <1>1, <2>1, <2>3, <2>4, <2>5 DEF TaskTypeOK, MutexTypeOK, SemTypeOK
  <2>8. ListInv'
    <3>1. UNCHANGED <<sleep_list, sem_wait_list>>
      OBVIOUS
    <3>2. \A n \in MutexId : NoRepeat(mutex_wait'[n])
      BY <2>5, <2>6 DEF IInv, ListInv
    <3>3. \A t \in Nodes(ready_list)' :
              /\ t \notin Nodes(sleep_list)
              /\ \A n \in MutexId : t \notin Nodes(mutex_wait'[n])
              /\ \A s \in SemId : t \notin Nodes(sem_wait_list[s])
      BY <2>4, <2>5, <2>6 DEF IInv, ListInv
    <3>4. \A t \in Nodes(sleep_list) : \A n \in MutexId : t \notin Nodes(mutex_wait'[n])
      BY <1>2, <2>5, <2>6 DEF IInv, ListInv
    <3>5. \A k \in MutexId : \A t \in Nodes(mutex_wait'[k]) :
              /\ \A n \in MutexId \ {k} : t \notin Nodes(mutex_wait'[n])
              /\ \A s \in SemId : t \notin Nodes(sem_wait_list[s])
      <4>1. \A k \in MutexId : \A t \in Nodes(mutex_wait[k]) :
                /\ \A n \in MutexId \ {k} : t \notin Nodes(mutex_wait[n])
                /\ \A s \in SemId : t \notin Nodes(sem_wait_list[s])
        BY DEF IInv, ListInv
      <4>2. \A k \in MutexId : \A y :
                y \in Nodes(mutex_wait'[k]) <=> y \in Nodes(mutex_wait[k]) \/ (k = m /\ y = curr_task)
        BY <2>5, <2>6
      <4>3. SUFFICES ASSUME NEW k \in MutexId, NEW t \in Nodes(mutex_wait'[k])
                     PROVE  /\ \A n \in MutexId \ {k} : t \notin Nodes(mutex_wait'[n])
                            /\ \A s \in SemId : t \notin Nodes(sem_wait_list[s])
        OBVIOUS
      <4>4. CASE t = curr_task
        BY <1>2, <4>2, <4>3, <4>4
      <4>5. CASE t # curr_task
        <5>1. t \in Nodes(mutex_wait[k])
          BY <4>2, <4>3, <4>5
        <5> QED BY <4>1, <4>2, <4>5, <5>1
      <4> QED BY <4>4, <4>5
    <3> QED BY <2>4, <3>1, <3>2, <3>3, <3>4, <3>5 DEF IInv, ListInv
  <2>9. LinkInv'
    BY <1>2, <2>2, <2>4, <2>5, <2>6 DEF IInv, LinkInv, Linkable
  <2>10. RunInv' /\ WalkInv'
    BY <2>3 DEF RunInv, WalkInv, TopIn
  <2>11. MutexInv'
    <3>1. owner[m] # None
      BY <2>1 DEF IInv, MutexInv
    <3> QED BY <2>1, <2>5, <2>6, <3>1 DEF IInv, MutexInv
  <2>12. Core'
    BY <2>3, <2>7, <2>8, <2>9, <2>10, <2>11 DEF Core
  <2> QED BY <2>1, <2>3, <2>4, <2>12
<1> QED BY <1>3, <1>4 DEF mutex_lock

\* mutex_unlock keeps Core.
LEMMA UnlockCore ==
    ASSUME IInv, NEW m \in MutexId, NEW rest, GoodRest(rest),
           ~halted, ~TopIn(curr_task, {"dispatch", "walk"}), ~TwoUnlogs(rest),
           curr_task = idle_task => irq[curr_task] = FALSE /\ ~HasPc(rest, {"unlog"}),
           mutex_unlock(m, rest),
           UNCHANGED <<mutexFrame, gdtVars, semVars>>
    PROVE  /\ Core'
           /\ GoesOn(rest)
           /\ \A t \in Nodes(ready_list) : t \in Nodes(ready_list)'
<1> USE DEF mutexFrame, gdtVars, semVars
<1>1. /\ curr_task \in Task /\ None \notin Task /\ irq \in [Task -> BOOLEAN]
      /\ TaskTypeOK /\ MutexTypeOK /\ SemTypeOK
  BY TaskAssumption DEF IInv, TypeOK, TaskTypeOK
<1>2. curr_task = task_next_run
  BY RunningFacts
<1>3. CASE MutexNotOwner(m, rest) \/ MutexLeave(m, rest) \/ MutexRelease(m, rest)
  <2>1. /\ stack' = [stack EXCEPT ![curr_task] = rest]
        /\ UNCHANGED <<ready_list, mutex_wait, state, irq>>
    BY <1>3 DEF MutexNotOwner, MutexLeave, MutexRelease, Continue, mutexVars
  <2>2. /\ stack' \in [Task -> Seq(Frame)] /\ irq' \in [Task -> BOOLEAN]
        /\ stack'[curr_task] = rest
        /\ \A t \in Task \ {curr_task} : stack'[t] = stack[t]
        /\ StackInv' /\ Suspended'
    BY <2>1, StackOnlyStep DEF GoodRest
  <2>3. owner \in [MutexId -> Task \cup {None}] /\ locked_count \in [MutexId -> Nat]
    BY <1>1 DEF MutexTypeOK
  <2>4. \A n \in MutexId : owner[n] = None <=> locked_count[n] = 0
    BY DEF IInv, MutexInv
  <2>5. /\ owner' \in [MutexId -> Task \cup {None}] /\ locked_count' \in [MutexId -> Nat]
        /\ \A n \in MutexId \ {m} : owner'[n] = owner[n] /\ locked_count'[n] = locked_count[n]
        /\ \/ owner'[m] = owner[m] /\ (locked_count'[m] = 0 <=> locked_count[m] = 0)
           \/ owner'[m] = None /\ locked_count'[m] = 0 /\ mutex_wait[m] = <<>>
    <3>1. CASE MutexNotOwner(m, rest)
      BY <2>3, <3>1 DEF MutexNotOwner, mutexVars
    <3>2. CASE MutexLeave(m, rest)
      <4>1. owner[m] = curr_task /\ locked_count[m] # 1 /\ UNCHANGED owner
            /\ locked_count' = [locked_count EXCEPT ![m] = @ - 1]
        BY <3>2 DEF MutexLeave
      <4>2. locked_count[m] \in Nat \ {0, 1}
        BY <1>1, <2>3, <2>4, <4>1
      <4>3. locked_count' \in [MutexId -> Nat] /\ locked_count'[m] = locked_count[m] - 1
            /\ \A n \in MutexId \ {m} : locked_count'[n] = locked_count[n]
        BY <2>3, <4>1, <4>2
      <4> QED BY <2>3, <4>1, <4>2, <4>3
    <3>3. CASE MutexRelease(m, rest)
      <4>1. Len(mutex_wait[m]) = 0 /\ mutex_wait[m] \in Seq(Task)
        BY <1>1, <3>3 DEF MutexRelease, list_count, MutexTypeOK
      <4>2. /\ owner' = [owner EXCEPT ![m] = None]
            /\ locked_count' = [locked_count EXCEPT ![m] = 0]
        BY <3>3 DEF MutexRelease
      <4> QED BY <2>3, <4>1, <4>2
    <3> QED BY <1>3, <3>1, <3>2, <3>3
  <2>6. TaskTypeOK' /\ MutexTypeOK' /\ SemTypeOK'
    BY <1>1, <2>1, <2>2, <2>5 DEF TaskTypeOK, MutexTypeOK, SemTypeOK
  <2>7. ListInv' /\ LinkInv'
    BY <2>1 DEF IInv, ListInv, LinkInv, Linkable
  <2>8. RunInv'
    BY <1>2, <2>1 DEF RunInv, task_next_run
  <2>9. WalkInv'
    <3>1. rest # <<>> => rest[1].pc # "walk"
      BY DEF GoodRest, HasPc
    <3> QED BY <2>2, <3>1 DEF WalkInv, TopIn
  <2>10. MutexInv'
    <3>1. None \notin Nodes(mutex_wait[m])
      BY <1>1, NodesType DEF MutexTypeOK
    <3> QED BY <2>1, <2>5, <3>1 DEF IInv, MutexInv
  <2>11. Core'
    BY <2>2, <2>6, <2>7, <2>8, <2>9, <2>10 DEF Core
  <2> QED BY <2>1, <2>2, <2>11 DEF GoesOn
<1>4. CASE MutexHandOff(m, rest)
  <2> DEFINE task == Head(mutex_wait[m])
  <2>1. mutex_wait[m] \in Seq(Task) /\ mutex_wait[m] # <<>> /\ NoRepeat(mutex_wait[m])
    BY <1>1, <1>4 DEF MutexHandOff, MutexTypeOK, list_count, IInv, ListInv
  <2>2. /\ task \in Nodes(mutex_wait[m])
        /\ Tail(mutex_wait[m]) \in Seq(Task)
        /\ Nodes(mutex_wait[m]) = Nodes(Tail(mutex_wait[m])) \cup {task}
        /\ NoRepeat(Tail(mutex_wait[m]))
        /\ task \notin Nodes(Tail(mutex_wait[m]))
    BY <2>1, RemoveFirst DEF list_remove_first
  <2>3. task \in Task /\ task # idle_task /\ task \in Linkable
    BY <2>1, <2>2, NodesType DEF IInv, LinkInv, Linkable
  <2>4. /\ task \notin Nodes(ready_list) /\ task \notin Nodes(sleep_list)
        /\ \A n \in MutexId \ {m} : task \notin Nodes(mutex_wait[n])
        /\ \A s \in SemId : task \notin Nodes(sem_wait_list[s])
    BY <2>2 DEF IInv, ListInv
  <2>5. list_first(mutex_wait[m], None) = task
    BY <2>1 DEF list_first
  <2> HIDE DEF task
  <2>6. /\ ready_list' = list_insert_last(ready_list, task)
        /\ state' = [state EXCEPT ![task] = "TASK_READY"]
        /\ owner' = [owner EXCEPT ![m] = task]
        /\ mutex_wait' = [mutex_wait EXCEPT ![m] = Tail(@)]
        /\ locked_count' = [locked_count EXCEPT ![m] = 1]
        /\ ProtectedDispatch(rest)
    BY <1>4, <2>3, <2>5 DEF MutexHandOff, task_set_ready, ReadyState, list_remove_first
  <2>7. /\ stack' \in [Task -> Seq(Frame)] /\ irq' \in [Task -> BOOLEAN]
        /\ StackInv' /\ Suspended'
        /\ stack'[curr_task] # <<>> /\ stack'[curr_task][1].pc = "dispatch"
        /\ GoesOn(rest)
    BY <2>6, DispatchStep DEF GoesOn
  <2>8. /\ ready_list' \in Seq(Task)
        /\ Nodes(ready_list)' = Nodes(ready_list) \cup {task}
        /\ NoRepeat(ready_list)'
    <3>1. ready_list \in Seq(Task) /\ NoRepeat(ready_list)
      BY <1>1 DEF TaskTypeOK, IInv, ListInv
    <3>2. /\ list_insert_last(ready_list, task) \in Seq(Task)
          /\ Nodes(list_insert_last(ready_list, task)) = Nodes(ready_list) \cup {task}
          /\ NoRepeat(list_insert_last(ready_list, task))
      BY <2>3, <2>4, <3>1, InsertLast
    <3> QED BY <2>6, <3>2
  <2>9. /\ mutex_wait' \in [MutexId -> Seq(Task)]
        /\ mutex_wait'[m] = Tail(mutex_wait[m])
        /\ \A n \in MutexId \ {m} : mutex_wait'[n] = mutex_wait[n]
    BY <1>1, <2>2, <2>6 DEF MutexTypeOK
  <2>10. \A k \in MutexId : \A y :
             y \in Nodes(mutex_wait'[k]) <=> y \in Nodes(mutex_wait[k]) /\ ~(k = m /\ y = task)
    BY <2>2, <2>9
  <2>11. /\ owner' \in [MutexId -> Task \cup {None}] /\ owner'[m] = task
         /\ locked_count' \in [MutexId -> Nat] /\ locked_count'[m] = 1
         /\ \A n \in MutexId \ {m} : owner'[n] = owner[n] /\ locked_count'[n] = locked_count[n]
    BY <1>1, <2>3, <2>6 DEF MutexTypeOK
  <2>12. TaskTypeOK' /\ MutexTypeOK' /\ SemTypeOK'
    <3>1. state' \in [Task -> States]
      BY <1>1, <2>3, <2>6 DEF TaskTypeOK, States
    <3> QED BY <1>1, <2>7, <2>8, <2>9, <2>11, <3>1 DEF TaskTypeOK, MutexTypeOK, SemTypeOK
  <2>13. ListInv'
    <3>1. \A n \in MutexId : NoRepeat(mutex_wait'[n])
      BY <2>2, <2>9 DEF IInv, ListInv
    <3>2. ASSUME NEW t \in Nodes(ready_list)'
          PROVE  /\ t \notin Nodes(sleep_list)
                 /\ \A n \in MutexId : t \notin Nodes(mutex_wait'[n])
                 /\ \A s \in SemId : t \notin Nodes(sem_wait_list[s])
      <4>1. CASE t = task
        BY <2>4, <2>10, <4>1
      <4>2. CASE t # task
        BY <2>8, <2>10, <3>2, <4>2 DEF IInv, ListInv
      <4> QED BY <4>1, <4>2
    <3>3. \A t \in Nodes(sleep_list) : \A n \in MutexId : t \notin Nodes(mutex_wait'[n])
      BY <2>10 DEF IInv, ListInv
    <3>4. \A k \in MutexId : \A t \in Nodes(mutex_wait'[k]) :
              /\ \A n \in MutexId \ {k} : t \notin Nodes(mutex_wait'[n])
              /\ \A s \in SemId : t \notin Nodes(sem_wait_list[s])
      BY <2>10 DEF IInv, ListInv
    <3> QED BY <2>8, <3>1, <3>2, <3>3, <3>4 DEF IInv, ListInv
  <2>14. LinkInv'
    <3>1. \A k \in MutexId : Nodes(mutex_wait'[k]) \subseteq Linkable
      BY <2>10 DEF IInv, LinkInv
    <3> QED BY <2>3, <2>8, <3>1 DEF IInv, LinkInv, Linkable
  <2>15. RunInv' /\ WalkInv'
    BY <2>7 DEF RunInv, WalkInv, TopIn
  <2>16. MutexInv'
    <3>1. owner'[m] # None /\ owner'[m] \notin Nodes(mutex_wait'[m])
      BY <1>1, <2>2, <2>3, <2>9, <2>11
    <3>2. \A n \in MutexId \ {m} :
              /\ owner'[n] = None <=> locked_count'[n] = 0
              /\ mutex_wait'[n] # <<>> => owner'[n] # None
              /\ owner'[n] \notin Nodes(mutex_wait'[n])
      <4>1. SUFFICES ASSUME NEW n \in MutexId \ {m}
                     PROVE  /\ owner'[n] = None <=> locked_count'[n] = 0
                            /\ mutex_wait'[n] # <<>> => owner'[n] # None
                            /\ owner'[n] \notin Nodes(mutex_wait'[n])
        OBVIOUS
      <4>2. /\ owner'[n] = owner[n] /\ locked_count'[n] = locked_count[n]
            /\ mutex_wait'[n] = mutex_wait[n]
        BY <2>9, <2>11
      <4>3. /\ owner[n] = None <=> locked_count[n] = 0
            /\ mutex_wait[n] # <<>> => owner[n] # None
            /\ owner[n] \notin Nodes(mutex_wait[n])
        BY DEF IInv, MutexInv
      <4> QED BY <4>2, <4>3
    <3> QED BY <2>11, <3>1, <3>2 DEF MutexInv
  <2>17. Core'
    BY <2>7, <2>12, <2>13, <2>14, <2>15, <2>16 DEF Core
  <2> QED BY <2>7, <2>8, <2>17
<1> QED BY <1>3, <1>4 DEF mutex_unlock

-----------------------------------------------------------------------------
(* What the frames of log_printf and task_init stand for.                  *)

\* The idle task owns log_mutex only while it executes log_printf.
LEMMA IdleNotOwner ==
    ASSUME IInv, ~TopIn(curr_task, {"unlog"})
    PROVE  owner[log_mutex] # idle_task /\ ~TwoUnlogs(stack[curr_task])
BY DEF IInv, LogInv, TopIn, TwoUnlogs

\* A step that opens and closes no log_printf and leaves log_mutex alone.
LEMMA LogFrame ==
    ASSUME IInv, curr_task \in Task,
           owner[log_mutex] # idle_task,
           ~TwoUnlogs(stack[curr_task]), ~TwoUnlogs(stack'[curr_task]),
           \A t \in Task \ {curr_task} : stack'[t] = stack[t],
           HasPc(stack'[curr_task], {"unlog"}) <=> HasPc(stack[curr_task], {"unlog"}),
           owner'[log_mutex] = owner[log_mutex],
           locked_count'[log_mutex] = locked_count[log_mutex],
           mutex_wait'[log_mutex] = mutex_wait[log_mutex],
           owner[log_mutex] \in Nodes(ready_list) => owner[log_mutex] \in Nodes(ready_list)'
    PROVE  LogInv'
<1>1. ASSUME NEW t \in Task
      PROVE  /\ HasPc(stack'[t], {"unlog"}) <=> HasPc(stack[t], {"unlog"})
             /\ TwoUnlogs(stack'[t]) <=> TwoUnlogs(stack[t])
  BY <1>1
<1> QED BY <1>1 DEF IInv, LogInv

\* A step that begins and ends no task_init.
LEMMA InitFrame ==
    ASSUME IInv,
           \A t \in Task \ {curr_task} : stack'[t] = stack[t],
           HasPc(stack'[curr_task], InitPcs) => HasPc(stack[curr_task], InitPcs),
           UNCHANGED <<new_task, task_list>>
    PROVE  InitInv'
<1>1. ASSUME NEW t \in Task, HasPc(stack'[t], InitPcs) PROVE HasPc(stack[t], InitPcs)
  BY <1>1
<1> QED BY <1>1 DEF IInv, InitInv

\* log_mutex and gdt_mutex are mutexes; the operations on one leave the others alone.
LEMMA OtherMutex ==
    ASSUME MutexTypeOK, NEW m \in MutexId, NEW rest,
           mutex_lock(m, rest) \/ mutex_unlock(m, rest)
    PROVE  \A n \in MutexId \ {m} :
              /\ owner'[n] = owner[n]
              /\ locked_count'[n] = locked_count[n]
              /\ mutex_wait'[n] = mutex_wait[n]
<1> USE DEF MutexTypeOK, mutexVars
<1>1. CASE mutex_lock(m, rest)
  BY <1>1 DEF mutex_lock, MutexTake, MutexReenter, MutexBlock
<1>2. CASE mutex_unlock(m, rest)
  BY <1>2 DEF mutex_unlock, MutexNotOwner, MutexLeave, MutexRelease, MutexHandOff
<1> QED BY <1>1, <1>2

LEMMA MutexIds ==
    /\ log_mutex \in MutexId /\ gdt_mutex \in MutexId /\ log_mutex # gdt_mutex
    /\ \A m \in ClientMutexes : m \in MutexId /\ m # log_mutex
BY MutexAssumption DEF MutexId

\* The frames of log_printf's second half on top of what is below.
LEMMA UnlogFrames ==
    ASSUME NEW fs \in Seq(Frame)
    PROVE  LET r == <<Call("unlog")>> \o fs
           IN  /\ r \in Seq(Frame) /\ r # <<>> /\ r[1].pc = "unlog"
               /\ \A P : HasPc(r, P) <=> "unlog" \in P \/ HasPc(fs, P)
               /\ TwoUnlogs(r) <=> HasPc(fs, {"unlog"})
<1> DEFINE f == Call("unlog")
           r == <<f>> \o fs
<1>1. f \in Frame /\ f.pc = "unlog"
  BY FrameType DEF Pcs
<1>2. /\ r \in Seq(Frame) /\ r # <<>> /\ r[1] = f /\ Len(fs) \in Nat /\ Len(r) = Len(fs) + 1
      /\ \A i \in 2..Len(r) : r[i] = fs[i - 1]
  BY <1>1, PushIndex
<1>3. \A P : HasPc(r, P) <=> "unlog" \in P \/ HasPc(fs, P)
  BY <1>1, HasPcPush
<1> HIDE DEF f, r
<1>4. ASSUME HasPc(fs, {"unlog"}) PROVE TwoUnlogs(r)
  <2>1. PICK i \in 1..Len(fs) : fs[i].pc = "unlog"
    BY <1>4 DEF HasPc
  <2>2. i + 1 \in 2..Len(r) /\ (i + 1) - 1 = i
    BY <1>2
  <2>3. r[i + 1].pc = "unlog"
    BY <1>2, <2>1, <2>2
  <2> QED BY <1>1, <1>2, <2>2, <2>3 DEF TwoUnlogs
<1>5. ASSUME TwoUnlogs(r) PROVE HasPc(fs, {"unlog"})
  <2>1. PICK i \in 2..Len(r) : r[i].pc = "unlog"
    BY <1>5 DEF TwoUnlogs
  <2>2. i - 1 \in 1..Len(fs) /\ r[i] = fs[i - 1]
    BY <1>2
  <2> QED BY <2>1, <2>2 DEF HasPc
<1> QED BY <1>1, <1>2, <1>3, <1>4, <1>5 DEF r, f

\* IInv from its parts.
LEMMA Assemble ==
    ASSUME IInv, Core', InitInv', LogInv', UNCHANGED initVars
    PROVE  IInv'
BY DEF IInv, Core, TypeOK, initVars

\* log_printf's lock, called from another kernel function or from the task's own code.
LEMMA LogLock ==
    ASSUME IInv, ~halted, ~TopIn(curr_task, {"dispatch", "walk", "unlog"}),
           NEW below \in Seq(Frame), GoodRest(<<Call("unlog")>> \o below),
           HasPc(below, {"unlog"}) <=> HasPc(stack[curr_task], {"unlog"}),
           HasPc(below, InitPcs) => HasPc(stack[curr_task], InitPcs),
           log_printf(below),
           UNCHANGED <<mutexFrame, state, gdtVars, semVars, initVars>>
    PROVE  IInv'
<1> DEFINE rest == <<Call("unlog")>> \o below
           lm == log_mutex
<1>1. /\ curr_task \in Task /\ idle_task \in Task /\ None \notin Task /\ lm \in MutexId
      /\ TaskTypeOK /\ MutexTypeOK
      /\ owner \in [MutexId -> Task \cup {None}] /\ locked_count \in [MutexId -> Nat]
  BY TaskAssumption, MutexIds DEF IInv, TypeOK, TaskTypeOK, MutexTypeOK, Task
<1>2. /\ curr_task # idle_task => curr_task \in Nodes(ready_list)
      /\ curr_task = idle_task => ready_list = <<>>
      /\ \A m \in MutexId : curr_task \notin Nodes(mutex_wait[m])
  BY RunningFacts DEF TopIn
<1>3. /\ rest # <<>> /\ rest[1].pc = "unlog"
      /\ \A P : HasPc(rest, P) <=> "unlog" \in P \/ HasPc(below, P)
      /\ TwoUnlogs(rest) <=> HasPc(below, {"unlog"})
  BY UnlogFrames
<1>4. owner[lm] # idle_task /\ ~TwoUnlogs(stack[curr_task])
  BY IdleNotOwner DEF TopIn
<1>5. HasPc(below, {"unlog"}) <=> owner[lm] = curr_task
  BY <1>1, <1>2 DEF IInv, LogInv
<1>6. locked_count[lm] = 0 \/ owner[lm] = curr_task \/ (curr_task # idle_task /\ ~TwoUnlogs(rest))
  <2>1. SUFFICES ASSUME locked_count[lm] # 0, owner[lm] # curr_task
                 PROVE  curr_task # idle_task /\ ~TwoUnlogs(rest)
    OBVIOUS
  <2>2. owner[lm] \in Task \ {idle_task}
    BY <1>1, <1>4, <2>1 DEF IInv, MutexInv
  <2>3. owner[lm] \in Nodes(ready_list)
    BY <2>2 DEF IInv, LogInv
  <2> QED BY <1>2, <1>3, <1>5, <2>1, <2>3, EmptyList
<1>7. mutex_lock(lm, rest)
  BY DEF log_printf
<1> HIDE DEF rest
<1>8. /\ Core'
      /\ GoesOn(rest)
      /\ \A t \in Nodes(ready_list) \ {curr_task} : t \in Nodes(ready_list)'
      /\ locked_count[lm] = 0 \/ owner[lm] = curr_task =>
            stack'[curr_task] = rest /\ ready_list' = ready_list
  BY <1>1, <1>6, <1>7, LockCore DEF rest, TopIn
<1>9. /\ \A t \in Task \ {curr_task} : stack'[t] = stack[t]
      /\ HasPc(stack'[curr_task], {"unlog"})
      /\ HasPc(stack'[curr_task], InitPcs) => HasPc(below, InitPcs)
      /\ ~TwoUnlogs(rest) => ~TwoUnlogs(stack'[curr_task])
  <2>1. {"dispatch", "leave"} \cap {"unlog"} = {} /\ {"dispatch", "leave"} \cap InitPcs = {}
        /\ "unlog" \notin InitPcs
    BY DEF InitPcs
  <2> QED BY <1>3, <1>8, <2>1 DEF GoesOn
<1>10. InitInv'
  BY <1>9, InitFrame DEF initVars, mutexFrame
<1>11. LogInv'
  <2>1. ASSUME NEW t \in Task \ {curr_task}
        PROVE  HasPc(stack'[t], {"unlog"}) <=> (owner[lm] = t \/ t \in Nodes(mutex_wait[lm]))
    BY <1>9 DEF IInv, LogInv
  <2>2. CASE MutexTake(lm, rest)
    <3>1. /\ owner[lm] = None /\ owner'[lm] = curr_task
          /\ locked_count'[lm] = 1 /\ mutex_wait' = mutex_wait
          /\ stack'[curr_task] = rest /\ ready_list' = ready_list
      <4>1. locked_count[lm] = 0
        BY <2>2 DEF MutexTake
      <4>2. owner'[lm] = curr_task /\ locked_count'[lm] = 0 + 1 /\ mutex_wait' = mutex_wait
        BY <1>1, <2>2, <4>1 DEF MutexTake
      <4> QED BY <1>1, <1>8, <4>1, <4>2 DEF IInv, MutexInv
    <3>2. ~TwoUnlogs(stack'[curr_task]) /\ TopIn(curr_task, {"unlog"})'
      BY <1>1, <1>3, <1>5, <3>1 DEF TopIn, mutexFrame
    <3>3. \A t \in Task : HasPc(stack'[t], {"unlog"}) <=> (owner'[lm] = t \/ t \in Nodes(mutex_wait'[lm]))
      BY <1>1, <1>9, <2>1, <3>1
    <3> QED BY <1>1, <1>2, <3>1, <3>2, <3>3 DEF LogInv, mutexFrame
  <2>3. CASE MutexReenter(lm, rest)
    <3>1. /\ owner[lm] = curr_task /\ owner'[lm] = curr_task
          /\ locked_count'[lm] = 2 /\ mutex_wait' = mutex_wait
          /\ stack'[curr_task] = rest /\ ready_list' = ready_list
      <4>1. owner[lm] = curr_task /\ locked_count' = [locked_count EXCEPT ![lm] = @ + 1]
            /\ UNCHANGED <<owner, mutex_wait>>
        BY <2>3 DEF MutexReenter
      <4>2. locked_count[lm] = 1
        BY <1>1, <1>4, <4>1 DEF IInv, LogInv
      <4>3. locked_count'[lm] = 1 + 1
        BY <1>1, <4>1, <4>2
      <4> QED BY <1>8, <4>1, <4>3
    <3>2. TwoUnlogs(stack'[curr_task])
      BY <1>3, <1>5, <3>1
    <3>3. \A t \in Task : HasPc(stack'[t], {"unlog"}) <=> (owner'[lm] = t \/ t \in Nodes(mutex_wait'[lm]))
      BY <1>1, <1>9, <2>1, <3>1
    <3> QED BY <1>1, <1>2, <1>4, <3>1, <3>2, <3>3 DEF LogInv
  <2>4. CASE MutexBlock(lm, rest)
    <3>1. /\ locked_count[lm] # 0 /\ owner[lm] # curr_task
          /\ owner' = owner /\ locked_count' = locked_count
          /\ mutex_wait' = [mutex_wait EXCEPT ![lm] = list_insert_last(@, curr_task)]
      BY <2>4 DEF MutexBlock
    <3>2. mutex_wait[lm] \in Seq(Task) /\ mutex_wait'[lm] = list_insert_last(mutex_wait[lm], curr_task)
      BY <1>1, <3>1 DEF MutexTypeOK
    <3>3. Nodes(list_insert_last(mutex_wait[lm], curr_task)) = Nodes(mutex_wait[lm]) \cup {curr_task}
      <4>1. curr_task \in Task /\ mutex_wait[lm] \in Seq(Task)
        BY <1>1, <3>2
      <4> QED BY <4>1, InsertLast
    <3>4. Nodes(mutex_wait'[lm]) = Nodes(mutex_wait[lm]) \cup {curr_task}
      BY <3>2, <3>3
    <3>5. \A t \in Task : HasPc(stack'[t], {"unlog"}) <=> (owner'[lm] = t \/ t \in Nodes(mutex_wait'[lm]))
      BY <1>1, <1>9, <2>1, <3>1, <3>4
    <3>6. ASSUME NEW t \in Task, owner'[lm] = t
          PROVE  locked_count'[lm] = IF TwoUnlogs(stack'[t]) THEN 2 ELSE 1
      BY <1>9, <3>1, <3>6 DEF IInv, LogInv
    <3>7. owner'[lm] \in Task \ {idle_task} => owner'[lm] \in Nodes(ready_list)'
      BY <1>8, <3>1 DEF IInv, LogInv
    <3> QED BY <1>4, <3>1, <3>5, <3>6, <3>7 DEF LogInv
  <2> QED BY <1>7, <2>2, <2>3, <2>4 DEF mutex_lock
<1> QED BY <1>8, <1>10, <1>11, Assemble

\* What a task whose stack is not empty goes on with.
LEMMA RestFacts ==
    ASSUME IInv, stack[curr_task] # <<>>
    PROVE  /\ curr_task \in Task /\ stack[curr_task] \in Seq(Frame) /\ irq[curr_task] \in BOOLEAN
           /\ Head(stack[curr_task]) = stack[curr_task][1]
           /\ Shape(stack[curr_task], irq[curr_task])
           /\ Rest \in Seq(Frame)
           /\ Shape(Rest, irq[curr_task])
           /\ ~TwoUnlogs(Rest)
           /\ ~HasPc(Rest, {"walk"})
           /\ curr_task = idle_task => /\ irq[curr_task] = FALSE
                                       /\ IdleShape(stack[curr_task], FALSE)
                                       /\ IdleShape(Rest, FALSE)
                                       /\ ~HasPc(Rest, {"unlog"})
           /\ \A P : HasPc(stack[curr_task], P) <=> stack[curr_task][1].pc \in P \/ HasPc(Rest, P)
<1> DEFINE fs == stack[curr_task]
           b == irq[curr_task]
<1>1. curr_task \in Task /\ fs \in Seq(Frame) /\ b \in BOOLEAN
  BY DEF IInv, TypeOK, TaskTypeOK
<1>2. Shape(fs, b)
  BY <1>1 DEF IInv, StackInv
<1>3. curr_task = idle_task => IdleShape(fs, b)
  BY DEF IInv, StackInv
<1>4. Rest = Tail(fs)
  BY DEF Rest
<1> HIDE DEF fs, b
<1>5. fs # <<>>
  BY DEF fs
<1>6. Tail(fs) \in Seq(Frame) /\ Head(fs) = fs[1]
  BY <1>1, <1>5, PopIndex
<1>7. Shape(Tail(fs), b) /\ ~TwoUnlogs(Tail(fs)) /\ ~HasPc(Tail(fs), {"walk"})
  BY <1>1, <1>2, <1>5, ShapePop, ShapeBelow
<1>8. curr_task = idle_task => b = FALSE /\ IdleShape(Tail(fs), FALSE) /\ ~HasPc(Tail(fs), {"unlog"})
  BY <1>1, <1>3, <1>5, IdlePop
<1>9. \A P : HasPc(fs, P) <=> fs[1].pc \in P \/ HasPc(Tail(fs), P)
  BY <1>1, <1>5, HasPcPop
<1> QED BY <1>1, <1>2, <1>3, <1>4, <1>6, <1>7, <1>8, <1>9 DEF fs, b

LEMMA RestGood ==
    ASSUME IInv, stack[curr_task] # <<>> PROVE GoodRest(Rest)
BY RestFacts DEF GoodRest

LEMMA LogStartStep == ASSUME IInv, LogStart PROVE IInv'
<1>1. /\ ~halted /\ stack[curr_task] # <<>> /\ Head(stack[curr_task]).pc = "log"
      /\ log_printf(Rest)
      /\ UNCHANGED <<mutexFrame, state, gdtVars, semVars, initVars>>
  BY DEF LogStart, At
<1>2. stack[curr_task][1].pc = "log"
  BY <1>1, RestFacts
<1>3. ~TopIn(curr_task, {"dispatch", "walk", "unlog"})
  BY <1>2 DEF TopIn
<1> DEFINE fs == stack[curr_task]
<1>4. /\ fs \in Seq(Frame) /\ irq[curr_task] \in BOOLEAN /\ Shape(fs, irq[curr_task])
      /\ Rest \in Seq(Frame) /\ Rest = Tail(fs)
      /\ ~HasPc(Rest, {"walk"})
      /\ curr_task = idle_task => irq[curr_task] = FALSE /\ IdleShape(fs, FALSE)
      /\ \A P : HasPc(fs, P) <=> fs[1].pc \in P \/ HasPc(Rest, P)
  BY <1>1, RestFacts DEF Rest
<1>5. Shape(<<Call("unlog")>> \o Tail(fs), irq[curr_task])
  BY <1>1, <1>2, <1>4, ShapeReplace
<1>6. curr_task = idle_task => IdleShape(<<Call("unlog")>> \o Tail(fs), irq[curr_task])
  BY <1>1, <1>4, IdleReplace
<1>7. /\ <<Call("unlog")>> \o Rest \in Seq(Frame)
      /\ ~HasPc(<<Call("unlog")>> \o Rest, {"walk"})
  BY <1>4, UnlogFrames
<1>8. GoodRest(<<Call("unlog")>> \o Rest)
  BY <1>4, <1>5, <1>6, <1>7 DEF GoodRest
<1>9. /\ HasPc(Rest, {"unlog"}) <=> HasPc(stack[curr_task], {"unlog"})
      /\ HasPc(Rest, InitPcs) => HasPc(stack[curr_task], InitPcs)
  BY <1>2, <1>4
<1> QED BY <1>1, <1>3, <1>4, <1>8, <1>9, LogLock

\* A task in its own code has nothing on its stack.
LEMMA BaseFacts ==
    ASSUME IInv, AtBase
    PROVE  /\ curr_task \in Task /\ curr_task # idle_task /\ ~halted
           /\ irq[curr_task] \in BOOLEAN
           /\ stack[curr_task] = <<>> /\ <<>> \in Seq(Frame)
           /\ ~TopIn(curr_task, {"dispatch", "walk", "unlog"})
           /\ \A P : ~HasPc(stack[curr_task], P)
           /\ \A P : ~HasPc(<<>>, P)
           /\ ~TwoUnlogs(<<>>)
           /\ GoodRest(<<>>)
           /\ owner[log_mutex] # curr_task
<1>1. curr_task \in Task /\ curr_task # idle_task /\ stack[curr_task] = <<>> /\ ~halted
      /\ irq[curr_task] \in BOOLEAN
  BY DEF AtBase, IInv, TypeOK, TaskTypeOK
<1>2. \A P : ~HasPc(<<>>, P)
  BY HasPcEmpty
<1>3. GoodRest(<<>>)
  BY <1>1, <1>2, ShapeBase DEF GoodRest
<1>4. owner[log_mutex] # curr_task
  BY <1>1, <1>2 DEF IInv, LogInv
<1> QED BY <1>1, <1>2, <1>3, <1>4 DEF TopIn, TwoUnlogs

LEMMA ClientLogStep == ASSUME IInv, ClientLog PROVE IInv'
<1>1. AtBase /\ log_printf(<<>>) /\ UNCHANGED <<mutexFrame, state, gdtVars, semVars, initVars>>
  BY DEF ClientLog
<1>2. /\ curr_task \in Task /\ curr_task # idle_task /\ ~halted
      /\ irq[curr_task] \in BOOLEAN
      /\ stack[curr_task] = <<>> /\ <<>> \in Seq(Frame)
      /\ ~TopIn(curr_task, {"dispatch", "walk", "unlog"})
      /\ \A P : ~HasPc(<<>>, P)
  BY <1>1, BaseFacts
<1> DEFINE r == <<Call("unlog")>> \o <<>>
<1>3. r \in Seq(Frame) /\ ~HasPc(r, {"walk"})
  BY <1>2, UnlogFrames
<1>4. Shape(r, irq[curr_task])
  <2>1. r = <<Call("unlog")>>
    BY FrameType DEF Pcs
  <2> QED BY <1>2, <2>1, ShapeBase
<1>5. GoodRest(r)
  BY <1>2, <1>3, <1>4 DEF GoodRest
<1> QED BY <1>1, <1>2, <1>5, LogLock

\* With log_printf's second half on top, a second one below is what TwoUnlogs says.
LEMMA UnlogBelow ==
    ASSUME NEW fs \in Seq(Frame), fs # <<>>, fs[1].pc = "unlog"
    PROVE  TwoUnlogs(fs) <=> HasPc(Tail(fs), {"unlog"})
<1>1. /\ Tail(fs) \in Seq(Frame) /\ Len(fs) \in Nat /\ Len(fs) > 0
      /\ Len(Tail(fs)) = Len(fs) - 1
      /\ \A i \in 1..Len(Tail(fs)) : Tail(fs)[i] = fs[i + 1]
  BY PopIndex
<1>2. ASSUME NEW i \in 2..Len(fs), fs[i].pc = "unlog" PROVE HasPc(Tail(fs), {"unlog"})
  <2>1. i - 1 \in 1..Len(Tail(fs)) /\ (i - 1) + 1 = i
    BY <1>1
  <2> QED BY <1>1, <1>2, <2>1 DEF HasPc
<1>3. ASSUME HasPc(Tail(fs), {"unlog"}) PROVE \E i \in 2..Len(fs) : fs[i].pc = "unlog"
  <2>1. PICK i \in 1..Len(Tail(fs)) : Tail(fs)[i].pc = "unlog"
    BY <1>3 DEF HasPc
  <2>2. i + 1 \in 2..Len(fs)
    BY <1>1
  <2> QED BY <1>1, <2>1, <2>2
<1> QED BY <1>2, <1>3 DEF TwoUnlogs

\* log_printf's unlock.
LEMMA LogEndStep == ASSUME IInv, LogEnd PROVE IInv'
<1> DEFINE lm == log_mutex
<1>1. /\ ~halted /\ stack[curr_task] # <<>> /\ Head(stack[curr_task]).pc = "unlog"
      /\ mutex_unlock(lm, Rest)
      /\ UNCHANGED <<mutexFrame, gdtVars, semVars, initVars>>
  BY DEF LogEnd, At
<1>2. /\ curr_task \in Task /\ idle_task \in Task /\ None \notin Task /\ lm \in MutexId
      /\ MutexTypeOK
      /\ owner \in [MutexId -> Task \cup {None}] /\ locked_count \in [MutexId -> Nat]
  BY TaskAssumption, MutexIds DEF IInv, TypeOK, TaskTypeOK, MutexTypeOK, Task
<1>3. /\ stack[curr_task][1].pc = "unlog" /\ stack[curr_task] \in Seq(Frame)
      /\ Rest = Tail(stack[curr_task])
      /\ ~TwoUnlogs(Rest)
      /\ curr_task = idle_task => irq[curr_task] = FALSE /\ ~HasPc(Rest, {"unlog"})
      /\ \A P : HasPc(stack[curr_task], P) <=> stack[curr_task][1].pc \in P \/ HasPc(Rest, P)
  BY <1>1, RestFacts DEF Rest
<1>4. ~TopIn(curr_task, {"dispatch", "walk"})
  BY <1>3 DEF TopIn
<1>5. TwoUnlogs(stack[curr_task]) <=> HasPc(Rest, {"unlog"})
  BY <1>1, <1>3, UnlogBelow
<1>6. /\ curr_task # idle_task => curr_task \in Nodes(ready_list)
      /\ \A m \in MutexId : curr_task \notin Nodes(mutex_wait[m])
  BY <1>1, <1>4, RunningFacts
<1>7. owner[lm] = curr_task /\ locked_count[lm] = IF HasPc(Rest, {"unlog"}) THEN 2 ELSE 1
  BY <1>2, <1>3, <1>5, <1>6 DEF IInv, LogInv
<1>8. /\ Core'
      /\ GoesOn(Rest)
      /\ \A t \in Nodes(ready_list) : t \in Nodes(ready_list)'
  <2>1. GoodRest(Rest)
    BY <1>1, RestGood
  <2> QED BY <1>1, <1>2, <1>3, <1>4, <2>1, UnlockCore
<1>9. /\ \A t \in Task \ {curr_task} : stack'[t] = stack[t]
      /\ HasPc(stack'[curr_task], {"unlog"}) <=> HasPc(Rest, {"unlog"})
      /\ HasPc(stack'[curr_task], InitPcs) <=> HasPc(Rest, InitPcs)
      /\ ~TwoUnlogs(stack'[curr_task])
  <2>1. {"dispatch", "leave"} \cap {"unlog"} = {} /\ {"dispatch", "leave"} \cap InitPcs = {}
    BY DEF InitPcs
  <2> QED BY <1>3, <1>8, <2>1 DEF GoesOn
<1>10. InitInv'
  BY <1>1, <1>3, <1>9, InitFrame DEF initVars, mutexFrame
<1>11. ASSUME NEW t \in Task \ {curr_task}
       PROVE  HasPc(stack'[t], {"unlog"}) <=> t \in Nodes(mutex_wait[lm])
  BY <1>7, <1>9 DEF IInv, LogInv
<1>12. LogInv'
  <2>1. CASE MutexNotOwner(lm, Rest)
    BY <1>7, <2>1 DEF MutexNotOwner
  <2>2. CASE MutexLeave(lm, Rest)
    <3>1. /\ owner' = owner /\ mutex_wait' = mutex_wait /\ locked_count[lm] # 1
          /\ locked_count' = [locked_count EXCEPT ![lm] = @ - 1]
      BY <2>2 DEF MutexLeave
    <3>2. HasPc(Rest, {"unlog"}) /\ locked_count[lm] = 2
      BY <1>7, <3>1
    <3>3. locked_count'[lm] = 2 - 1
      BY <1>2, <3>1, <3>2
    <3>4. curr_task # idle_task
      BY <1>3, <3>2
    <3>5. \A t \in Task : HasPc(stack'[t], {"unlog"}) <=> (owner'[lm] = t \/ t \in Nodes(mutex_wait'[lm]))
      BY <1>2, <1>7, <1>9, <1>11, <3>1, <3>2
    <3> QED BY <1>6, <1>7, <1>8, <1>9, <3>1, <3>3, <3>4, <3>5 DEF LogInv
  <2>3. CASE MutexRelease(lm, Rest)
    <3>1. /\ owner' = [owner EXCEPT ![lm] = None] /\ mutex_wait' = mutex_wait /\ locked_count[lm] = 1
      BY <2>3 DEF MutexRelease
    <3>2. owner'[lm] = None
      BY <1>2, <3>1
    <3>3. ~HasPc(Rest, {"unlog"})
      BY <1>7, <3>1
    <3>4. \A t \in Task : HasPc(stack'[t], {"unlog"}) <=> (owner'[lm] = t \/ t \in Nodes(mutex_wait'[lm]))
      BY <1>2, <1>6, <1>9, <1>11, <3>1, <3>2, <3>3
    <3> QED BY <1>2, <3>2, <3>4 DEF LogInv
  <2>4. CASE MutexHandOff(lm, Rest)
    <3> DEFINE task == Head(mutex_wait[lm])
    <3>1. mutex_wait[lm] \in Seq(Task) /\ mutex_wait[lm] # <<>> /\ NoRepeat(mutex_wait[lm])
      BY <1>2, <2>4 DEF MutexHandOff, MutexTypeOK, list_count, IInv, ListInv
    <3>2. /\ task \in Nodes(mutex_wait[lm])
          /\ Nodes(mutex_wait[lm]) = Nodes(Tail(mutex_wait[lm])) \cup {task}
          /\ task \notin Nodes(Tail(mutex_wait[lm]))
      BY <3>1, RemoveFirst DEF list_remove_first
    <3>3. task \in Task /\ task # idle_task /\ task # curr_task
      BY <1>2, <1>6, <3>1, <3>2, NodesType DEF IInv, LinkInv, Linkable
    <3>4. list_first(mutex_wait[lm], None) = task
      BY <3>1 DEF list_first
    <3> HIDE DEF task
    <3>5. /\ ready_list' = list_insert_last(ready_list, task)
          /\ owner' = [owner EXCEPT ![lm] = task]
          /\ mutex_wait' = [mutex_wait EXCEPT ![lm] = Tail(@)]
          /\ locked_count' = [locked_count EXCEPT ![lm] = 1]
          /\ locked_count[lm] = 1
      BY <2>4, <3>3, <3>4 DEF MutexHandOff, task_set_ready, list_remove_first
    <3>6. owner'[lm] = task /\ mutex_wait'[lm] = Tail(mutex_wait[lm]) /\ locked_count'[lm] = 1
      BY <1>2, <3>5 DEF MutexTypeOK
    <3>7. task \in Nodes(ready_list)'
      <4>1. ready_list \in Seq(Task)
        BY DEF IInv, TypeOK, TaskTypeOK
      <4>2. Nodes(list_insert_last(ready_list, task)) = Nodes(ready_list) \cup {task}
        BY <3>3, <4>1, InsertLast
      <4> QED BY <3>5, <4>2
    <3>8. ~HasPc(Rest, {"unlog"})
      BY <1>7, <3>5
    <3>9. \A t \in Task : HasPc(stack'[t], {"unlog"}) <=> (owner'[lm] = t \/ t \in Nodes(mutex_wait'[lm]))
      BY <1>2, <1>6, <1>9, <1>11, <3>2, <3>3, <3>6, <3>8
    <3>10. ~TwoUnlogs(stack'[task])
      BY <1>9, <3>3 DEF IInv, Suspended, TwoUnlogs
    <3> QED BY <3>3, <3>6, <3>7, <3>9, <3>10 DEF LogInv
  <2> QED BY <1>1, <2>1, <2>2, <2>3, <2>4 DEF mutex_unlock
<1> QED BY <1>1, <1>8, <1>10, <1>12, Assemble

-----------------------------------------------------------------------------
(* The other mutexes.                                                      *)

\* An operation on a mutex other than log_mutex keeps LogInv.
LEMMA OtherMutexLog ==
    ASSUME IInv, ~TopIn(curr_task, {"unlog"}), curr_task \in Task,
           NEW m \in MutexId, m # log_mutex, NEW rest,
           mutex_lock(m, rest) \/ mutex_unlock(m, rest),
           GoesOn(rest), ~TwoUnlogs(rest),
           HasPc(rest, {"unlog"}) <=> HasPc(stack[curr_task], {"unlog"}),
           owner[log_mutex] \in Nodes(ready_list) => owner[log_mutex] \in Nodes(ready_list)'
    PROVE  LogInv'
<1>1. owner[log_mutex] # idle_task /\ ~TwoUnlogs(stack[curr_task])
  BY IdleNotOwner
<1>2. /\ owner'[log_mutex] = owner[log_mutex]
      /\ locked_count'[log_mutex] = locked_count[log_mutex]
      /\ mutex_wait'[log_mutex] = mutex_wait[log_mutex]
  BY OtherMutex, MutexIds DEF IInv, TypeOK
<1>3. HasPc(stack'[curr_task], {"unlog"}) <=> HasPc(stack[curr_task], {"unlog"})
  <2>1. {"dispatch", "leave"} \cap {"unlog"} = {}
    OBVIOUS
  <2> QED BY <2>1 DEF GoesOn
<1> QED BY <1>1, <1>2, <1>3, LogFrame DEF GoesOn

LEMMA ClientLockStep ==
    ASSUME IInv, NEW m \in ClientMutexes, ClientLock(m), UNCHANGED <<semVars, initVars>>
    PROVE  IInv'
<1>1. AtBase /\ mutex_lock(m, <<>>) /\ UNCHANGED <<mutexFrame, state, gdtVars>>
  BY DEF ClientLock
<1>2. /\ curr_task \in Task /\ curr_task # idle_task /\ ~halted
      /\ ~TopIn(curr_task, {"dispatch", "walk", "unlog"})
      /\ ~TopIn(curr_task, {"dispatch", "walk"}) /\ ~TopIn(curr_task, {"unlog"})
      /\ \A P : ~HasPc(stack[curr_task], P)
      /\ \A P : ~HasPc(<<>>, P)
      /\ ~TwoUnlogs(<<>>)
      /\ GoodRest(<<>>)
      /\ owner[log_mutex] # curr_task
  BY <1>1, BaseFacts DEF TopIn
<1>3. m \in MutexId /\ m # log_mutex
  BY MutexIds
<1>4. /\ Core'
      /\ GoesOn(<<>>)
      /\ \A t \in Nodes(ready_list) \ {curr_task} : t \in Nodes(ready_list)'
  BY <1>1, <1>2, <1>3, LockCore
<1>5. LogInv'
  BY <1>1, <1>2, <1>3, <1>4, OtherMutexLog
<1>6. InitInv'
  <2>1. {"dispatch", "leave"} \cap InitPcs = {}
    BY DEF InitPcs
  <2>2. ~HasPc(stack'[curr_task], InitPcs)
    BY <1>2, <1>4, <2>1 DEF GoesOn
  <2> QED BY <1>1, <1>4, <2>2, InitFrame DEF GoesOn, mutexFrame, initVars
<1> QED BY <1>4, <1>5, <1>6, Assemble

LEMMA ClientUnlockStep ==
    ASSUME IInv, NEW m \in ClientMutexes, ClientUnlock(m), UNCHANGED <<semVars, initVars>>
    PROVE  IInv'
<1>1. AtBase /\ mutex_unlock(m, <<>>) /\ UNCHANGED <<mutexFrame, gdtVars>>
  BY DEF ClientUnlock
<1>2. /\ curr_task \in Task /\ curr_task # idle_task /\ ~halted
      /\ ~TopIn(curr_task, {"dispatch", "walk"}) /\ ~TopIn(curr_task, {"unlog"})
      /\ \A P : ~HasPc(stack[curr_task], P)
      /\ \A P : ~HasPc(<<>>, P)
      /\ ~TwoUnlogs(<<>>)
      /\ GoodRest(<<>>)
  BY <1>1, BaseFacts DEF TopIn
<1>3. m \in MutexId /\ m # log_mutex
  BY MutexIds
<1>4. /\ Core'
      /\ GoesOn(<<>>)
      /\ \A t \in Nodes(ready_list) : t \in Nodes(ready_list)'
  BY <1>1, <1>2, <1>3, UnlockCore
<1>5. LogInv'
  BY <1>1, <1>2, <1>3, <1>4, OtherMutexLog
<1>6. InitInv'
  <2>1. {"dispatch", "leave"} \cap InitPcs = {}
    BY DEF InitPcs
  <2>2. ~HasPc(stack'[curr_task], InitPcs)
    BY <1>2, <1>4, <2>1 DEF GoesOn
  <2> QED BY <1>1, <1>4, <2>2, InitFrame DEF GoesOn, mutexFrame, initVars
<1> QED BY <1>4, <1>5, <1>6, Assemble

LEMMA GdtReleaseStep == ASSUME IInv, gdt_release PROVE IInv'
<1>1. /\ ~halted /\ stack[curr_task] # <<>> /\ Head(stack[curr_task]).pc = "gdt_unlock"
      /\ mutex_unlock(gdt_mutex, Rest)
      /\ UNCHANGED <<mutexFrame, gdtVars, semVars, initVars>>
  BY DEF gdt_release, At
<1>2. /\ curr_task \in Task /\ stack[curr_task][1].pc = "gdt_unlock"
      /\ ~TwoUnlogs(Rest)
      /\ curr_task = idle_task => irq[curr_task] = FALSE /\ ~HasPc(Rest, {"unlog"})
      /\ \A P : HasPc(stack[curr_task], P) <=> stack[curr_task][1].pc \in P \/ HasPc(Rest, P)
  BY <1>1, RestFacts
<1>3. ~TopIn(curr_task, {"dispatch", "walk"}) /\ ~TopIn(curr_task, {"unlog"})
  BY <1>2 DEF TopIn
<1>4. gdt_mutex \in MutexId /\ gdt_mutex # log_mutex
  BY MutexIds
<1>5. /\ Core'
      /\ GoesOn(Rest)
      /\ \A t \in Nodes(ready_list) : t \in Nodes(ready_list)'
  BY <1>1, <1>2, <1>3, <1>4, RestGood, UnlockCore
<1>6. HasPc(Rest, {"unlog"}) <=> HasPc(stack[curr_task], {"unlog"})
  BY <1>2
<1>7. LogInv'
  BY <1>1, <1>2, <1>3, <1>4, <1>5, <1>6, OtherMutexLog
<1>8. InitInv'
  <2>1. {"dispatch", "leave"} \cap InitPcs = {}
    BY DEF InitPcs
  <2>2. HasPc(stack'[curr_task], InitPcs) => HasPc(stack[curr_task], InitPcs)
    BY <1>2, <1>5, <2>1 DEF GoesOn
  <2> QED BY <1>1, <1>5, <2>2, InitFrame DEF GoesOn, mutexFrame, initVars
<1> QED BY <1>1, <1>5, <1>7, <1>8, Assemble

\* task_init begins: the new task_t is nobody else's.
LEMMA TaskInitStep == ASSUME IInv, NEW t \in OtherTasks, task_init(t) PROVE IInv'
<1> DEFINE rest == <<Call("gdt_scan"), Call("gdt_unlock"), Call("tss_set"), Call("task_ready")>>
<1>1. /\ AtBase /\ Uncreated(t) /\ mutex_lock(gdt_mutex, rest)
      /\ new_task' = [new_task EXCEPT ![curr_task] = t]
      /\ UNCHANGED <<mutexFrame, state, gdtVars, semVars, new_sel>>
  BY DEF task_init
<1>2. /\ curr_task \in Task /\ curr_task # idle_task /\ ~halted
      /\ irq[curr_task] \in BOOLEAN
      /\ ~TopIn(curr_task, {"dispatch", "walk"}) /\ ~TopIn(curr_task, {"unlog"})
      /\ \A P : ~HasPc(stack[curr_task], P)
      /\ owner[log_mutex] # curr_task
  BY <1>1, BaseFacts DEF TopIn
<1>3. gdt_mutex \in MutexId /\ gdt_mutex # log_mutex
  BY MutexIds
<1>4. rest \in Seq(Frame) /\ Len(rest) = 4
  BY FrameType, FourFrames DEF Pcs
<1>5. /\ rest[1].pc = "gdt_scan" /\ rest[2].pc = "gdt_unlock"
      /\ rest[3].pc = "tss_set" /\ rest[4].pc = "task_ready"
  BY DEF Call
<1>6. Shape(rest, irq[curr_task])
  BY <1>2, ShapeBase
<1> HIDE DEF rest
<1>7. \A i \in 1..Len(rest) : rest[i].pc \in InitPcs
  <2>1. \A i \in 1..4 : i = 1 \/ i = 2 \/ i = 3 \/ i = 4
    OBVIOUS
  <2> QED BY <1>4, <1>5, <2>1 DEF InitPcs
<1>8. ~HasPc(rest, {"walk"}) /\ ~HasPc(rest, {"unlog"}) /\ ~TwoUnlogs(rest)
  BY <1>5, <1>7 DEF HasPc, InitPcs, TwoUnlogs
<1>9. GoodRest(rest)
  BY <1>2, <1>4, <1>6, <1>8 DEF GoodRest
<1>10. /\ Core'
       /\ GoesOn(rest)
       /\ \A u \in Nodes(ready_list) \ {curr_task} : u \in Nodes(ready_list)'
  BY <1>1, <1>2, <1>3, <1>8, <1>9, LockCore
<1>11. LogInv'
  BY <1>1, <1>2, <1>3, <1>8, <1>10, OtherMutexLog
<1>12. t \in Task /\ t # None /\ new_task \in [Task -> OtherTasks \cup {None}]
  BY TaskAssumption DEF Task, IInv, TypeOK
<1>13. /\ new_task' \in [Task -> OtherTasks \cup {None}]
       /\ new_task'[curr_task] = t
       /\ \A u \in Task \ {curr_task} : new_task'[u] = new_task[u] /\ new_task[u] # t
  BY <1>1, <1>2, <1>12 DEF Uncreated
<1>14. InitInv'
  <2>1. task_list' = task_list
    BY <1>1 DEF mutexFrame
  <2>2. \A u \in Task : HasPc(stack'[u], InitPcs) => new_task'[u] # None
    BY <1>10, <1>12, <1>13 DEF GoesOn, IInv, InitInv
  <2>3. \A u \in Task : new_task'[u] \notin Nodes(task_list)'
    BY <1>1, <1>13, <2>1 DEF Uncreated, IInv, InitInv
  <2>4. \A u, v \in Task : new_task'[u] = new_task'[v] /\ new_task'[u] # None => u = v
    BY <1>13 DEF IInv, InitInv
  <2> QED BY <2>2, <2>3, <2>4 DEF InitInv
<1> QED BY <1>1, <1>10, <1>11, <1>13, <1>14 DEF IInv, Core, TypeOK

-----------------------------------------------------------------------------
(* The steps that touch no mutex.                                          *)

\* The types of what a step may change besides the stack and the lists.
FieldTypeOK ==
    /\ state \in [Task -> States]
    /\ sleep_ticks \in [Task -> Int]
    /\ slice_ticks \in [Task -> Int]
    /\ tss_sel \in [Task -> {0} \cup TssSlot]
    /\ gdt_table \in [TssSlot -> Task \cup {None}]
    /\ walk \in Task \cup {None}
    /\ halted \in BOOLEAN
    /\ new_sel \in [Task -> {0} \cup TssSlot]

\* The current task goes on with fs and IF = b, and the lists stay in order.
LEMMA StepInv ==
    ASSUME IInv, NEW fs \in Seq(Frame), NEW b \in BOOLEAN,
           Shape(fs, b), curr_task = idle_task => IdleShape(fs, b),
           UNCHANGED <<curr_task, task_list, mutexVars, new_task>>,
           stack' = [stack EXCEPT ![curr_task] = fs],
           irq' = [irq EXCEPT ![curr_task] = b],
           FieldTypeOK', ready_list' \in Seq(Task), sleep_list' \in Seq(Task), SemTypeOK',
           ListInv', LinkInv', RunInv', WalkInv',
           owner[log_mutex] # idle_task, ~TwoUnlogs(stack[curr_task]), ~TwoUnlogs(fs),
           HasPc(fs, {"unlog"}) <=> HasPc(stack[curr_task], {"unlog"}),
           HasPc(fs, InitPcs) => HasPc(stack[curr_task], InitPcs),
           owner[log_mutex] \in Nodes(ready_list) => owner[log_mutex] \in Nodes(ready_list)'
    PROVE  IInv'
<1>1. /\ stack' \in [Task -> Seq(Frame)] /\ irq' \in [Task -> BOOLEAN]
      /\ stack'[curr_task] = fs
      /\ \A t \in Task \ {curr_task} : stack'[t] = stack[t]
      /\ StackInv' /\ Suspended'
  BY StackStep
<1>2. curr_task \in Task /\ task_list \in Seq(Task) /\ MutexTypeOK
      /\ new_task \in [Task -> OtherTasks \cup {None}]
  BY DEF IInv, TypeOK, TaskTypeOK
<1>3. TypeOK'
  <2>1. TaskTypeOK'
    BY <1>1, <1>2 DEF TaskTypeOK, FieldTypeOK
  <2>2. MutexTypeOK'
    BY <1>2 DEF MutexTypeOK, mutexVars
  <2> QED BY <1>2, <2>1, <2>2 DEF TypeOK, FieldTypeOK
<1>4. InitInv'
  BY <1>1, InitFrame
<1>5. LogInv'
  BY <1>1, <1>2, LogFrame DEF mutexVars
<1>6. MutexInv'
  BY DEF IInv, MutexInv, mutexVars
<1> QED BY <1>1, <1>3, <1>4, <1>5, <1>6 DEF IInv

\* The same when no list changes.
LEMMA PlainStep ==
    ASSUME IInv, NEW fs \in Seq(Frame), NEW b \in BOOLEAN,
           Shape(fs, b), curr_task = idle_task => IdleShape(fs, b),
           UNCHANGED <<curr_task, listVars, mutexVars, semVars, new_task>>,
           stack' = [stack EXCEPT ![curr_task] = fs],
           irq' = [irq EXCEPT ![curr_task] = b],
           FieldTypeOK', RunInv', WalkInv',
           owner[log_mutex] # idle_task, ~TwoUnlogs(stack[curr_task]), ~TwoUnlogs(fs),
           HasPc(fs, {"unlog"}) <=> HasPc(stack[curr_task], {"unlog"}),
           HasPc(fs, InitPcs) => HasPc(stack[curr_task], InitPcs)
    PROVE  IInv'
<1>1. /\ ready_list \in Seq(Task) /\ sleep_list \in Seq(Task) /\ SemTypeOK
      /\ ListInv /\ LinkInv
  BY DEF IInv, TypeOK, TaskTypeOK
<1>2. UNCHANGED <<ready_list, sleep_list, task_list, mutex_wait, sem_wait_list, sem_cnt>>
  BY DEF listVars, mutexVars, semVars
<1>3. ListInv'
  BY <1>1, <1>2 DEF ListInv
<1>4. LinkInv'
  BY <1>1, <1>2 DEF LinkInv, Linkable
<1>5. SemTypeOK'
  BY <1>1, <1>2 DEF SemTypeOK
<1> QED BY <1>1, <1>2, <1>3, <1>4, <1>5, StepInv

LEMMA Fields == ASSUME IInv PROVE FieldTypeOK
BY DEF IInv, TypeOK, TaskTypeOK, FieldTypeOK

LEMMA LeaveStep ==
    ASSUME IInv, irq_leave_protection, UNCHANGED <<mutexVars, semVars, initVars>>
    PROVE  IInv'
<1> DEFINE fs == stack[curr_task]
<1>1. /\ ~halted /\ fs # <<>> /\ Head(fs).pc \in LeavePcs
      /\ irq' = [irq EXCEPT ![curr_task] = Head(fs).irq]
      /\ stack' = [stack EXCEPT ![curr_task] = Rest]
      /\ UNCHANGED <<curr_task, listVars, fieldVars, gdtVars, walk, halted>>
  BY DEF irq_leave_protection, At, Continue, LeavePcs
<1>2. /\ curr_task \in Task /\ fs \in Seq(Frame) /\ irq[curr_task] \in BOOLEAN
      /\ Head(fs) = fs[1] /\ Shape(fs, irq[curr_task])
      /\ Rest \in Seq(Frame) /\ Rest = Tail(fs) /\ ~TwoUnlogs(Rest) /\ ~HasPc(Rest, {"walk"})
      /\ curr_task = idle_task => IdleShape(fs, FALSE)
      /\ \A P : HasPc(fs, P) <=> fs[1].pc \in P \/ HasPc(Rest, P)
  BY <1>1, RestFacts DEF Rest
<1>3. fs[1].pc \in LeavePcs /\ fs[1] \in Frame /\ fs[1].irq \in BOOLEAN
  <2>1. fs[1] \in Frame
    BY <1>1, <1>2
  <2> QED BY <1>1, <1>2, <2>1 DEF Frame
<1>4. Shape(Rest, fs[1].irq)
  BY <1>1, <1>2, <1>3, ShapeLeave
<1>5. curr_task = idle_task => IdleShape(Rest, fs[1].irq)
  BY <1>1, <1>2, <1>3, IdlePop
<1>6. ~TopIn(curr_task, {"unlog"}) /\ ~TopIn(curr_task, {"dispatch", "walk"})
  BY <1>3 DEF TopIn, LeavePcs
<1>7. owner[log_mutex] # idle_task /\ ~TwoUnlogs(fs)
  BY <1>6, IdleNotOwner
<1>8. /\ HasPc(Rest, {"unlog"}) <=> HasPc(fs, {"unlog"})
      /\ HasPc(Rest, InitPcs) => HasPc(fs, InitPcs)
  BY <1>2, <1>3 DEF LeavePcs
<1>9. FieldTypeOK'
  BY <1>1, Fields DEF FieldTypeOK, fieldVars, gdtVars, initVars
<1>10. RunInv'
  <2>1. curr_task = task_next_run
    BY <1>1, <1>6, RunningFacts
  <2> QED BY <1>1, <2>1 DEF RunInv, task_next_run, listVars
<1>11. stack'[curr_task] = Rest
  BY <1>1, <1>2 DEF IInv, TypeOK, TaskTypeOK
<1>12. WalkInv'
  <2>1. Rest # <<>> => 1 \in 1..Len(Rest)
    <3>1. Rest \in Seq(Frame)
      BY <1>2
    <3> QED BY <3>1
  <2>2. \A i \in 1..Len(Rest) : Rest[i].pc # "walk"
    <3>1. ~HasPc(Rest, {"walk"})
      BY <1>2
    <3> QED BY <3>1 DEF HasPc
  <2> QED BY <1>1, <1>11, <2>1, <2>2 DEF WalkInv, TopIn
<1> QED BY <1>1, <1>2, <1>3, <1>4, <1>5, <1>7, <1>8, <1>9, <1>10, <1>12, PlainStep DEF initVars

\* A set of natural numbers that is not empty has a least one.
LEMMA LeastNat ==
    ASSUME NEW S, S \subseteq Nat, S # {}
    PROVE  \E i \in S : \A j \in S : ~(j < i)
<1> DEFINE R == OpToRel(<, Nat)
<1>1. IsWellFoundedOn(R, Nat)
  BY NatLessThanWellFounded
<1>2. \A i, j \in Nat : i < j => <<i, j>> \in R
  BY DEF OpToRel
<1> HIDE DEF R
<1>3. \E i \in S : \A j \in S : ~(<<j, i>> \in R)
  BY <1>1, WFMin
<1> QED BY <1>2, <1>3

\* gdt_alloc_desc finds an entry of the table that is free, or none.
LEMMA FreeSlotType ==
    ASSUME gdt_table \in [TssSlot -> Task \cup {None}]
    PROVE  /\ FreeSlot \in {0} \cup TssSlot
           /\ FreeSlot \in TssSlot => gdt_table[FreeSlot] = None
<1>1. TssSlot \subseteq Nat /\ 0 \notin TssSlot
  BY TaskAssumption DEF TssSlot
<1>2. CASE \E i \in TssSlot : gdt_table[i] = None
  <2> DEFINE S == {i \in TssSlot : gdt_table[i] = None}
  <2>1. S \subseteq Nat /\ S # {}
    BY <1>1, <1>2
  <2>2. \E i \in S : \A j \in S : ~(j < i)
    BY <2>1, LeastNat
  <2>3. \E i \in TssSlot : gdt_table[i] = None /\ \A j \in TssSlot : j < i => gdt_table[j] # None
    BY <2>2
  <2> QED BY <1>2, <2>3 DEF FreeSlot
<1>3. CASE ~\E i \in TssSlot : gdt_table[i] = None
  BY <1>1, <1>3 DEF FreeSlot
<1> QED BY <1>2, <1>3

\* The current task has executed the frame on top; no list changes.
LEMMA PopStep ==
    ASSUME IInv, stack[curr_task] # <<>>, stack[curr_task][1].pc # "unlog",
           UNCHANGED <<curr_task, listVars, irq, mutexVars, semVars, new_task>>,
           stack' = [stack EXCEPT ![curr_task] = Rest],
           FieldTypeOK', RunInv'
    PROVE  IInv'
<1> DEFINE fs == stack[curr_task]
<1>1. /\ curr_task \in Task /\ irq[curr_task] \in BOOLEAN
      /\ Rest \in Seq(Frame) /\ Shape(Rest, irq[curr_task])
      /\ ~TwoUnlogs(Rest) /\ ~HasPc(Rest, {"walk"})
      /\ curr_task = idle_task => irq[curr_task] = FALSE /\ IdleShape(Rest, FALSE)
      /\ \A P : HasPc(fs, P) <=> fs[1].pc \in P \/ HasPc(Rest, P)
  BY RestFacts
<1>2. owner[log_mutex] # idle_task /\ ~TwoUnlogs(fs)
  BY IdleNotOwner DEF TopIn
<1>3. stack'[curr_task] = Rest /\ irq' = [irq EXCEPT ![curr_task] = irq[curr_task]]
  BY <1>1 DEF IInv, TypeOK, TaskTypeOK
<1>4. WalkInv'
  <2>1. Rest # <<>> => Rest[1].pc # "walk"
    BY <1>1 DEF HasPc
  <2> QED BY <1>3, <2>1 DEF WalkInv, TopIn
<1>5. /\ HasPc(Rest, {"unlog"}) <=> HasPc(fs, {"unlog"})
      /\ HasPc(Rest, InitPcs) => HasPc(fs, InitPcs)
  BY <1>1
<1>6. curr_task = idle_task => IdleShape(Rest, irq[curr_task])
  BY <1>1
<1> QED BY <1>1, <1>2, <1>3, <1>4, <1>5, <1>6, PlainStep

\* The current task goes on with a call of log_printf, or with the walk; no list changes.
LEMMA ReplaceStep ==
    ASSUME IInv, stack[curr_task] # <<>>, NEW q \in {"log", "walk"},
           Head(stack[curr_task]).pc = CASE q = "log" -> "tss_set" [] q = "walk" -> "scan",
           UNCHANGED <<curr_task, listVars, irq, mutexVars, semVars, new_task>>,
           stack' = [stack EXCEPT ![curr_task] = <<Call(q)>> \o Rest],
           FieldTypeOK', RunInv', q = "walk" => WalkInv'
    PROVE  IInv'
<1> DEFINE fs == stack[curr_task]
           r == <<Call(q)>> \o Rest
<1>1. /\ curr_task \in Task /\ irq[curr_task] \in BOOLEAN /\ fs \in Seq(Frame)
      /\ Head(fs) = fs[1] /\ Shape(fs, irq[curr_task])
      /\ Rest \in Seq(Frame) /\ Rest = Tail(fs) /\ ~HasPc(Rest, {"walk"})
      /\ curr_task = idle_task => irq[curr_task] = FALSE /\ IdleShape(fs, FALSE)
      /\ \A P : HasPc(fs, P) <=> fs[1].pc \in P \/ HasPc(Rest, P)
  BY RestFacts DEF Rest
<1>2. fs[1].pc = CASE q = "log" -> "tss_set" [] q = "walk" -> "scan"
  BY <1>1
<1>3. fs[1].pc = CASE q = "unlog" -> "log" [] q = "walk" -> "scan" [] q = "log" -> "tss_set"
  BY <1>2
<1>4. Shape(r, irq[curr_task])
  BY <1>1, <1>3, ShapeReplace
<1>5. curr_task = idle_task => IdleShape(r, irq[curr_task])
  BY <1>1, IdleReplace
<1>6. Call(q) \in Frame /\ Call(q).pc = q
  BY FrameType DEF Pcs
<1>7. r \in Seq(Frame) /\ r # <<>> /\ r[1].pc = q /\ \A P : HasPc(r, P) <=> q \in P \/ HasPc(Rest, P)
  <2>1. Rest \in Seq(Frame)
    BY <1>1
  <2>2. r \in Seq(Frame) /\ r # <<>> /\ r[1] = Call(q)
    BY <1>6, <2>1, PushIndex
  <2>3. \A P : HasPc(r, P) <=> Call(q).pc \in P \/ HasPc(Rest, P)
    BY <1>6, <2>1, HasPcPush
  <2> QED BY <1>6, <2>2, <2>3
<1>8. fs[1].pc # "unlog" /\ (q = "log" => fs[1].pc = "tss_set")
  BY <1>2
<1>9. owner[log_mutex] # idle_task /\ ~TwoUnlogs(fs)
  BY <1>8, IdleNotOwner DEF TopIn
<1>10. stack'[curr_task] = r /\ irq' = [irq EXCEPT ![curr_task] = irq[curr_task]]
  BY <1>1 DEF IInv, TypeOK, TaskTypeOK
<1> HIDE DEF r
<1>11. ~TwoUnlogs(r) /\ (q = "log" => WalkInv')
  BY <1>7, <1>10 DEF TwoUnlogs, WalkInv, TopIn
<1>12. /\ HasPc(r, {"unlog"}) <=> HasPc(fs, {"unlog"})
       /\ HasPc(r, InitPcs) => HasPc(fs, InitPcs)
  BY <1>1, <1>7, <1>8 DEF InitPcs
<1>13. WalkInv'
  BY <1>11
<1>14. stack' = [stack EXCEPT ![curr_task] = r]
  BY DEF r
<1> QED BY <1>1, <1>4, <1>5, <1>7, <1>9, <1>10, <1>11, <1>12, <1>13, <1>14, PlainStep

LEMMA GdtAllocStep == ASSUME IInv, gdt_alloc_desc PROVE IInv'
<1>1. /\ ~halted /\ stack[curr_task] # <<>> /\ Head(stack[curr_task]).pc = "gdt_scan"
      /\ new_sel' = [new_sel EXCEPT ![curr_task] = FreeSlot]
      /\ stack' = [stack EXCEPT ![curr_task] = Rest]
      /\ UNCHANGED <<curr_task, listVars, fieldVars, gdtVars, irq, walk, halted,
                     mutexVars, semVars, new_task>>
  BY DEF gdt_alloc_desc, At, Continue
<1>2. stack[curr_task][1].pc = "gdt_scan" /\ curr_task \in Task
  BY <1>1, RestFacts
<1>3. FieldTypeOK
  BY Fields
<1>4. FreeSlot \in {0} \cup TssSlot
  BY <1>3, FreeSlotType DEF FieldTypeOK
<1>5. FieldTypeOK'
  BY <1>1, <1>2, <1>3, <1>4 DEF FieldTypeOK, fieldVars, gdtVars
<1>6. RunInv'
  <2>1. curr_task = task_next_run
    BY <1>1, <1>2, RunningFacts DEF TopIn
  <2> QED BY <1>1, <2>1 DEF RunInv, task_next_run, listVars
<1> QED BY <1>1, <1>2, <1>5, <1>6, PopStep

LEMMA TssInitStep == ASSUME IInv, tss_init PROVE IInv'
<1>1. /\ ~halted /\ stack[curr_task] # <<>> /\ Head(stack[curr_task]).pc = "tss_set"
      /\ UNCHANGED <<curr_task, listVars, fieldVars, irq, walk, halted,
                     mutexVars, semVars, initVars>>
  BY DEF tss_init, At
<1>2. /\ stack[curr_task][1].pc = "tss_set" /\ curr_task \in Task
      /\ \A P : HasPc(stack[curr_task], P) <=> stack[curr_task][1].pc \in P \/ HasPc(Rest, P)
  BY <1>1, RestFacts
<1>3. FieldTypeOK
  BY Fields
<1>4. RunInv'
  <2>1. curr_task = task_next_run
    BY <1>1, <1>2, RunningFacts DEF TopIn
  <2> QED BY <1>1, <2>1 DEF RunInv, task_next_run, listVars
<1>5. new_task[curr_task] \in Task
  <2>1. HasPc(stack[curr_task], InitPcs)
    BY <1>2 DEF InitPcs
  <2>2. new_task[curr_task] # None /\ new_task[curr_task] \in OtherTasks \cup {None}
    BY <1>2, <2>1 DEF IInv, InitInv, TypeOK
  <2> QED BY <2>2 DEF Task
<1>6. CASE new_sel[curr_task] = 0
  <2>1. /\ stack' = [stack EXCEPT ![curr_task] = <<Call("log")>> \o Rest]
        /\ UNCHANGED <<tss_sel, gdt_table>>
    BY <1>6 DEF tss_init, Continue
  <2>2. FieldTypeOK'
    BY <1>1, <1>3, <2>1 DEF FieldTypeOK, fieldVars, initVars
  <2>3. Head(stack[curr_task]).pc = CASE "log" = "log" -> "tss_set" [] "log" = "walk" -> "scan"
    BY <1>1
  <2> QED BY <1>1, <1>4, <2>1, <2>2, <2>3, ReplaceStep DEF initVars
<1>7. CASE new_sel[curr_task] # 0
  <2>1. /\ gdt_table' = [gdt_table EXCEPT ![new_sel[curr_task]] = new_task[curr_task]]
        /\ tss_sel' = [tss_sel EXCEPT ![new_task[curr_task]] = new_sel[curr_task]]
        /\ stack' = [stack EXCEPT ![curr_task] = Rest]
    BY <1>7 DEF tss_init, Continue
  <2>2. new_sel[curr_task] \in TssSlot
    BY <1>2, <1>3, <1>7 DEF FieldTypeOK
  <2>3. FieldTypeOK'
    <3>1. gdt_table' \in [TssSlot -> Task \cup {None}]
      BY <1>3, <1>5, <2>1, <2>2 DEF FieldTypeOK
    <3>2. tss_sel' \in [Task -> {0} \cup TssSlot]
      BY <1>3, <1>5, <2>1, <2>2 DEF FieldTypeOK
    <3> QED BY <1>1, <1>3, <3>1, <3>2 DEF FieldTypeOK, fieldVars, initVars
  <2> QED BY <1>1, <1>2, <1>4, <2>1, <2>3, PopStep DEF initVars
<1> QED BY <1>6, <1>7

LEMMA StiStep == ASSUME IInv, Sti PROVE IInv'
<1>1. /\ AtBase
      /\ irq' = [irq EXCEPT ![curr_task] = TRUE]
      /\ UNCHANGED <<curr_task, listVars, fieldVars, gdtVars, stack, walk, halted>>
      /\ UNCHANGED <<mutexVars, semVars, initVars>>
  BY DEF Sti, irq_enable_global
<1>2. /\ curr_task \in Task /\ curr_task # idle_task /\ ~halted
      /\ stack[curr_task] = <<>> /\ <<>> \in Seq(Frame)
      /\ ~TopIn(curr_task, {"dispatch", "walk"}) /\ ~TopIn(curr_task, {"unlog"})
      /\ ~TwoUnlogs(<<>>)
  BY <1>1, BaseFacts DEF TopIn
<1>3. owner[log_mutex] # idle_task
  BY <1>2, IdleNotOwner
<1>4. stack' = [stack EXCEPT ![curr_task] = <<>>]
  BY <1>1, <1>2 DEF IInv, TypeOK, TaskTypeOK
<1>5. FieldTypeOK'
  BY <1>1, Fields DEF FieldTypeOK, fieldVars, gdtVars, initVars
<1>6. RunInv'
  <2>1. curr_task = task_next_run
    BY <1>2, RunningFacts
  <2> QED BY <1>1, <2>1 DEF RunInv, task_next_run, listVars
<1>7. WalkInv'
  BY <1>1, <1>2 DEF WalkInv, TopIn
<1>8. Shape(<<>>, TRUE)
  BY ShapeBase
<1> QED BY <1>1, <1>2, <1>3, <1>4, <1>5, <1>6, <1>7, <1>8, PlainStep DEF initVars

LEMMA ScanStep ==
    ASSUME IInv, tick_scan, UNCHANGED <<mutexVars, semVars, initVars>>
    PROVE  IInv'
<1>1. /\ ~halted /\ stack[curr_task] # <<>> /\ Head(stack[curr_task]).pc = "scan"
      /\ walk' = list_first(sleep_list, None)
      /\ stack' = [stack EXCEPT ![curr_task] = <<Call("walk")>> \o Rest]
      /\ UNCHANGED <<curr_task, listVars, fieldVars, gdtVars, irq, halted>>
  BY DEF tick_scan, At, Continue
<1>2. stack[curr_task][1].pc = "scan" /\ curr_task \in Task
  BY <1>1, RestFacts
<1>3. /\ sleep_list \in Seq(Task)
      /\ sleep_list # <<>> => Head(sleep_list) \in Nodes(sleep_list) /\ Head(sleep_list) \in Task
  <2>1. sleep_list \in Seq(Task)
    BY DEF IInv, TypeOK, TaskTypeOK
  <2> QED BY <2>1, RemoveFirst, NodesType
<1>4. walk' = None \/ (walk' \in Nodes(sleep_list) /\ walk' \in Task)
  BY <1>1, <1>3 DEF list_first
<1>5. FieldTypeOK'
  BY <1>1, <1>4, Fields DEF FieldTypeOK, fieldVars, gdtVars, initVars
<1>6. RunInv'
  <2>1. curr_task = task_next_run
    BY <1>1, <1>2, RunningFacts DEF TopIn
  <2> QED BY <1>1, <2>1 DEF RunInv, task_next_run, listVars
<1>7. WalkInv'
  BY <1>1, <1>4 DEF WalkInv, listVars
<1>8. Head(stack[curr_task]).pc = CASE "walk" = "log" -> "tss_set" [] "walk" = "walk" -> "scan"
  BY <1>1
<1> QED BY <1>1, <1>5, <1>6, <1>7, <1>8, ReplaceStep DEF initVars

-----------------------------------------------------------------------------
(* task_dispatch.                                                          *)

LEMMA DispatchStay ==
    ASSUME IInv, At("dispatch"), task_next_run = curr_task,
           stack' = [stack EXCEPT ![curr_task] = Rest],
           UNCHANGED <<curr_task, state, irq, halted>>,
           UNCHANGED <<listVars, sleep_ticks, slice_ticks, gdtVars, walk>>,
           UNCHANGED <<mutexVars, semVars, initVars>>
    PROVE  IInv'
<1>1. stack[curr_task] # <<>> /\ stack[curr_task][1].pc = "dispatch"
  BY RestFacts DEF At
<1>2. FieldTypeOK'
  BY Fields DEF FieldTypeOK, gdtVars, initVars
<1>3. RunInv'
  BY DEF RunInv, task_next_run, listVars
<1> QED BY <1>1, <1>2, <1>3, PopStep DEF initVars

LEMMA DispatchSwitch ==
    ASSUME IInv, At("dispatch"), task_next_run # curr_task,
           curr_task' = task_next_run,
           state' = [state EXCEPT ![task_next_run] = "TASK_RUNNING"],
           stack' = [stack EXCEPT ![curr_task] = <<Call("log"), Leave(irq[curr_task])>> \o Rest],
           irq' = [irq EXCEPT ![curr_task] = FALSE],
           halted' \in BOOLEAN,
           UNCHANGED <<listVars, sleep_ticks, slice_ticks, gdtVars, walk>>,
           UNCHANGED <<mutexVars, semVars, initVars>>
    PROVE  IInv'
<1> DEFINE nt == task_next_run
           r == <<Call("log"), Leave(irq[curr_task])>> \o Rest
<1>1. stack[curr_task] # <<>> /\ stack[curr_task][1].pc = "dispatch"
  BY RestFacts DEF At
<1>2. /\ curr_task \in Task /\ irq[curr_task] \in BOOLEAN
      /\ stack[curr_task] \in Seq(Frame) /\ Shape(stack[curr_task], irq[curr_task])
      /\ Rest \in Seq(Frame) /\ Shape(Rest, irq[curr_task])
      /\ ~TwoUnlogs(Rest) /\ ~HasPc(Rest, {"walk"})
      /\ curr_task = idle_task => /\ irq[curr_task] = FALSE
                                  /\ IdleShape(Rest, FALSE)
                                  /\ ~HasPc(Rest, {"unlog"})
      /\ \A P : HasPc(stack[curr_task], P) <=> stack[curr_task][1].pc \in P \/ HasPc(Rest, P)
  BY <1>1, RestFacts
<1>3. /\ Call("log") \in Frame /\ Call("log").pc = "log"
      /\ Leave(irq[curr_task]) \in Frame /\ Leave(irq[curr_task]).pc = "leave"
  BY <1>2, FrameType DEF Pcs
<1>4. /\ r \in Seq(Frame) /\ r # <<>> /\ Len(r) > 1
      /\ r[1].pc = "log" /\ r[2].pc = "leave"
  <2>1. /\ r \in Seq(Frame) /\ r # <<>> /\ Len(Rest) \in Nat /\ Len(r) = Len(Rest) + 2
        /\ r[1] = Call("log") /\ r[2] = Leave(irq[curr_task])
    BY <1>2, <1>3, PushTwoIndex
  <2> QED BY <1>3, <2>1
<1>5. \A P : HasPc(r, P) <=> "log" \in P \/ "leave" \in P \/ HasPc(Rest, P)
  BY <1>2, <1>3, HasPcPushTwo
<1>6. Shape(r, FALSE)
  BY <1>2, ShapeEnter
<1>7. curr_task = idle_task => IdleShape(r, FALSE)
  BY <1>2, IdleEnter
<1>8. nt \in Task
  <2>1. ready_list \in Seq(Task) /\ idle_task \in Task
    BY DEF IInv, TypeOK, TaskTypeOK, Task
  <2>2. ready_list # <<>> => Head(ready_list) \in Nodes(ready_list) /\ Head(ready_list) \in Task
    BY <2>1, RemoveFirst, NodesType
  <2> QED BY <2>1, <2>2 DEF task_next_run, list_count, list_first
<1> HIDE DEF r, nt
<1>9. stack' = [stack EXCEPT ![curr_task] = r] /\ curr_task' = nt /\ nt # curr_task
  BY DEF r, nt
<1>10. /\ stack' \in [Task -> Seq(Frame)] /\ irq' \in [Task -> BOOLEAN]
       /\ stack'[curr_task] = r /\ irq'[curr_task] = FALSE
       /\ \A t \in Task \ {curr_task} : stack'[t] = stack[t] /\ irq'[t] = irq[t]
  BY <1>2, <1>4, <1>9 DEF IInv, TypeOK, TaskTypeOK
<1>11. StackInv'
  <2>1. \A t \in Task : Shape(stack'[t], irq'[t])
    BY <1>6, <1>10 DEF IInv, StackInv
  <2>2. idle_task \in Task
    BY DEF Task
  <2>3. IdleShape(stack'[idle_task], irq'[idle_task])
    BY <1>7, <1>10, <2>2 DEF IInv, StackInv
  <2> QED BY <2>1, <2>3 DEF StackInv
<1>12. Suspended'
  BY <1>4, <1>9, <1>10 DEF IInv, Suspended
<1>13. TypeOK'
  <2>1. FieldTypeOK
    BY Fields
  <2>2. state' \in [Task -> States]
    BY <1>8, <2>1 DEF FieldTypeOK, States, nt
  <2>3. TaskTypeOK'
    BY <1>8, <1>9, <1>10, <2>1, <2>2 DEF TaskTypeOK, FieldTypeOK, IInv, TypeOK, listVars, gdtVars
  <2> QED BY <2>3 DEF IInv, TypeOK, MutexTypeOK, SemTypeOK, mutexVars, semVars, initVars
<1>14. ListInv' /\ LinkInv' /\ MutexInv'
  BY DEF IInv, ListInv, LinkInv, Linkable, MutexInv, listVars, mutexVars, semVars
<1>15. RunInv'
  BY <1>9 DEF RunInv, task_next_run, nt, listVars
<1>16. WalkInv'
  <2>1. stack'[nt] = stack[nt]
    BY <1>8, <1>9, <1>10
  <2>2. stack[nt] # <<>> => stack[nt][1].pc = "log"
    BY <1>8, <1>9 DEF IInv, Suspended
  <2> QED BY <1>9, <2>1, <2>2 DEF WalkInv, TopIn
<1>17. owner[log_mutex] # idle_task /\ ~TwoUnlogs(stack[curr_task])
  BY <1>1, IdleNotOwner DEF TopIn
<1>18. /\ HasPc(r, {"unlog"}) <=> HasPc(stack[curr_task], {"unlog"})
       /\ HasPc(r, InitPcs) => HasPc(stack[curr_task], InitPcs)
       /\ ~TwoUnlogs(r)
  <2>1. "log" \notin InitPcs /\ "leave" \notin InitPcs
    BY DEF InitPcs
  <2>2. ~TwoUnlogs(r)
    BY <1>4 DEF TwoUnlogs
  <2> QED BY <1>1, <1>2, <1>5, <2>1, <2>2
<1>19. LogInv'
  BY <1>2, <1>10, <1>17, <1>18, LogFrame DEF mutexVars, listVars
<1>20. InitInv'
  BY <1>10, <1>18, InitFrame DEF initVars, listVars
<1> QED BY <1>11, <1>12, <1>13, <1>14, <1>15, <1>16, <1>19, <1>20 DEF IInv

LEMMA DispatchIInv ==
    ASSUME IInv, task_dispatch, UNCHANGED <<mutexVars, semVars, initVars>>
    PROVE  IInv'
<1>1. /\ At("dispatch")
      /\ UNCHANGED <<listVars, sleep_ticks, slice_ticks, gdtVars, walk>>
  BY DEF task_dispatch
<1>2. CASE task_next_run = curr_task
  BY <1>1, <1>2, DispatchStay DEF task_dispatch, Continue
<1>3. CASE task_next_run # curr_task
  <2>1. /\ curr_task' = task_next_run
        /\ state' = [state EXCEPT ![task_next_run] = "TASK_RUNNING"]
        /\ stack' = [stack EXCEPT ![curr_task] = <<Call("log"), Leave(irq[curr_task])>> \o Rest]
        /\ irq' = [irq EXCEPT ![curr_task] = FALSE]
        /\ halted' = ~SwitchLands(task_next_run)
    BY <1>3 DEF task_dispatch, Continue
  <2>2. halted' \in BOOLEAN
    BY <2>1 DEF SwitchLands
  <2> QED BY <1>1, <1>3, <2>1, <2>2, DispatchSwitch
<1> QED BY <1>2, <1>3

-----------------------------------------------------------------------------
(* The steps that change the lists.                                        *)

\* Moving the current task to the end of the ready list.
LEMMA Rotated ==
    ASSUME IInv, curr_task \in Nodes(ready_list) \cup {idle_task}
    PROVE  LET r == task_set_ready(task_set_block(ready_list, curr_task), curr_task)
           IN  r \in Seq(Task) /\ NoRepeat(r) /\ Nodes(r) = Nodes(ready_list)
<1>1. ready_list \in Seq(Task) /\ NoRepeat(ready_list) /\ curr_task \in Task
  BY DEF IInv, TypeOK, TaskTypeOK, ListInv
<1>2. CASE curr_task = idle_task
  BY <1>1, <1>2 DEF task_set_ready, task_set_block
<1>3. CASE curr_task # idle_task
  <2> DEFINE s == list_remove(ready_list, curr_task)
  <2>1. s \in Seq(Task) /\ NoRepeat(s) /\ Nodes(s) = Nodes(ready_list) \ {curr_task}
    BY <1>1, <1>3, Remove
  <2> HIDE DEF s
  <2>2. /\ list_insert_last(s, curr_task) \in Seq(Task)
        /\ Nodes(list_insert_last(s, curr_task)) = Nodes(s) \cup {curr_task}
        /\ NoRepeat(list_insert_last(s, curr_task))
    <3>1. s \in Seq(Task) /\ NoRepeat(s) /\ curr_task \notin Nodes(s) /\ curr_task \in Task
      BY <1>1, <2>1
    <3> QED BY <3>1, InsertLast
  <2>3. Nodes(s) \cup {curr_task} = Nodes(ready_list)
    BY <1>3, <2>1
  <2> QED BY <1>3, <2>2, <2>3 DEF s, task_set_ready, task_set_block
<1> QED BY <1>2, <1>3

LEMMA RotateStep ==
    ASSUME IInv, tick_rotate, UNCHANGED <<mutexVars, semVars, initVars>>
    PROVE  IInv'
<1>1. /\ ~halted /\ stack[curr_task] # <<>> /\ Head(stack[curr_task]).pc = "rotate"
      /\ slice_ticks' = [slice_ticks EXCEPT ![curr_task] = TASK_TIME_SLICE_DEFAULT]
      /\ ready_list' = task_set_ready(task_set_block(ready_list, curr_task), curr_task)
      /\ state' = ReadyState(state, curr_task)
      /\ stack' = [stack EXCEPT ![curr_task] = Rest]
      /\ UNCHANGED <<curr_task, sleep_list, task_list, sleep_ticks, gdtVars, irq, walk, halted>>
  BY DEF tick_rotate, At, Continue
<1> DEFINE fs == stack[curr_task]
<1>2. /\ curr_task \in Task /\ fs \in Seq(Frame) /\ irq[curr_task] \in BOOLEAN
      /\ fs[1].pc = "rotate" /\ Shape(fs, irq[curr_task])
      /\ Rest = Tail(fs) /\ Rest \in Seq(Frame) /\ Shape(Rest, irq[curr_task])
      /\ ~TwoUnlogs(Rest)
      /\ curr_task = idle_task => irq[curr_task] = FALSE /\ IdleShape(Rest, FALSE)
      /\ \A P : HasPc(fs, P) <=> fs[1].pc \in P \/ HasPc(Rest, P)
  BY <1>1, RestFacts DEF Rest
<1>3. Rest # <<>> /\ Rest[1].pc = "dispatch"
  BY <1>1, <1>2, ShapeBelow
<1>4. owner[log_mutex] # idle_task /\ ~TwoUnlogs(fs)
  BY <1>2, IdleNotOwner DEF TopIn
<1>5. curr_task \in Nodes(ready_list) \cup {idle_task}
  BY <1>1, <1>2, RunningFacts DEF TopIn
<1>6. ready_list' \in Seq(Task) /\ NoRepeat(ready_list') /\ Nodes(ready_list') = Nodes(ready_list)
  BY <1>1, <1>5, Rotated
<1>7. UNCHANGED <<sleep_list, task_list, mutex_wait, sem_wait_list, sem_cnt>>
  BY <1>1 DEF mutexVars, semVars
<1>8. ListInv' /\ LinkInv'
  BY <1>6, <1>7 DEF IInv, ListInv, LinkInv, Linkable
<1>9. FieldTypeOK'
  <2>1. FieldTypeOK
    BY Fields
  <2>2. state' \in [Task -> States]
    BY <1>1, <1>2, <2>1 DEF FieldTypeOK, ReadyState, States
  <2>3. slice_ticks' \in [Task -> Int]
    <3>1. TASK_TIME_SLICE_DEFAULT \in Int
      BY TaskAssumption
    <3> QED BY <1>1, <2>1, <3>1 DEF FieldTypeOK
  <2> QED BY <1>1, <2>1, <2>2, <2>3 DEF FieldTypeOK, gdtVars, initVars
<1>10. stack'[curr_task] = Rest /\ irq' = [irq EXCEPT ![curr_task] = irq[curr_task]]
  BY <1>1, <1>2 DEF IInv, TypeOK, TaskTypeOK
<1>11. RunInv' /\ WalkInv'
  BY <1>1, <1>3, <1>10 DEF RunInv, WalkInv, TopIn
<1>12. /\ HasPc(Rest, {"unlog"}) <=> HasPc(fs, {"unlog"})
       /\ HasPc(Rest, InitPcs) => HasPc(fs, InitPcs)
  BY <1>2
<1>13. SemTypeOK' /\ sleep_list' \in Seq(Task)
  BY <1>7 DEF IInv, TypeOK, TaskTypeOK, SemTypeOK
<1>14. curr_task = idle_task => IdleShape(Rest, irq[curr_task])
  BY <1>2
<1> QED BY <1>1, <1>2, <1>4, <1>6, <1>8, <1>9, <1>10, <1>11, <1>12, <1>13, <1>14, StepInv DEF initVars

\* A kernel call from the task's own code that ends in a dispatch.
LEMMA CallStep ==
    ASSUME IInv, AtBase, ProtectedDispatch(<<>>),
           UNCHANGED <<curr_task, task_list, mutexVars, initVars, halted>>,
           FieldTypeOK', ready_list' \in Seq(Task), sleep_list' \in Seq(Task), SemTypeOK',
           ListInv', LinkInv',
           \A t \in Nodes(ready_list) \ {curr_task} : t \in Nodes(ready_list)'
    PROVE  IInv'
<1>1. /\ curr_task \in Task /\ curr_task # idle_task
      /\ ~TopIn(curr_task, {"unlog"})
      /\ \A P : ~HasPc(stack[curr_task], P)
      /\ \A P : ~HasPc(<<>>, P)
      /\ ~TwoUnlogs(<<>>)
      /\ GoodRest(<<>>)
      /\ owner[log_mutex] # curr_task
  BY BaseFacts DEF TopIn
<1>2. /\ stack' \in [Task -> Seq(Frame)] /\ irq' \in [Task -> BOOLEAN]
      /\ StackInv' /\ Suspended'
      /\ \A t \in Task \ {curr_task} : stack'[t] = stack[t]
      /\ stack'[curr_task] # <<>> /\ stack'[curr_task][1].pc = "dispatch"
      /\ ~TwoUnlogs(stack'[curr_task])
      /\ \A P : {"dispatch", "leave"} \cap P = {} =>
            (HasPc(stack'[curr_task], P) <=> HasPc(<<>>, P))
  BY <1>1, DispatchStep
<1>3. /\ ~HasPc(stack'[curr_task], {"unlog"})
      /\ ~HasPc(stack'[curr_task], InitPcs)
  <2>1. {"dispatch", "leave"} \cap {"unlog"} = {} /\ {"dispatch", "leave"} \cap InitPcs = {}
    BY DEF InitPcs
  <2> QED BY <1>1, <1>2, <2>1
<1>4. RunInv' /\ WalkInv'
  BY <1>2 DEF RunInv, WalkInv, TopIn
<1>5. InitInv'
  BY <1>2, <1>3, InitFrame DEF initVars
<1>6. owner[log_mutex] # idle_task /\ ~TwoUnlogs(stack[curr_task])
  BY <1>1, IdleNotOwner
<1>7. LogInv'
  BY <1>1, <1>2, <1>3, <1>6, LogFrame DEF mutexVars
<1>8. TypeOK'
  <2>1. TaskTypeOK'
    BY <1>1, <1>2 DEF TaskTypeOK, FieldTypeOK, IInv, TypeOK
  <2> QED BY <2>1 DEF IInv, TypeOK, MutexTypeOK, mutexVars, initVars
<1>9. MutexInv'
  BY DEF IInv, MutexInv, mutexVars
<1> QED BY <1>2, <1>4, <1>5, <1>7, <1>8, <1>9 DEF IInv

LEMMA YieldStep ==
    ASSUME IInv, sys_sched_yield, UNCHANGED <<mutexVars, semVars, initVars>>
    PROVE  IInv'
<1>1. /\ AtBase /\ ProtectedDispatch(<<>>)
      /\ ready_list' = task_set_ready(task_set_block(ready_list, curr_task), curr_task)
      /\ state' = ReadyState(state, curr_task)
      /\ UNCHANGED <<curr_task, sleep_list, task_list, sleep_ticks, slice_ticks,
                     gdtVars, walk, halted>>
  BY DEF sys_sched_yield
<1>2. /\ curr_task \in Task /\ curr_task # idle_task /\ ~halted
      /\ ~TopIn(curr_task, {"dispatch", "walk"})
  BY <1>1, BaseFacts DEF TopIn
<1>3. curr_task \in Nodes(ready_list) \cup {idle_task}
  BY <1>2, RunningFacts
<1>4. ready_list' \in Seq(Task) /\ NoRepeat(ready_list') /\ Nodes(ready_list') = Nodes(ready_list)
  BY <1>1, <1>3, Rotated
<1>5. UNCHANGED <<sleep_list, task_list, mutex_wait, sem_wait_list, sem_cnt>>
  BY <1>1 DEF mutexVars, semVars
<1>6. ListInv' /\ LinkInv'
  BY <1>4, <1>5 DEF IInv, ListInv, LinkInv, Linkable
<1>7. FieldTypeOK'
  <2>1. FieldTypeOK
    BY Fields
  <2>2. state' \in [Task -> States]
    BY <1>1, <1>2, <2>1 DEF FieldTypeOK, ReadyState, States
  <2> QED BY <1>1, <2>1, <2>2 DEF FieldTypeOK, gdtVars, initVars
<1>8. SemTypeOK' /\ sleep_list' \in Seq(Task)
  BY <1>5 DEF IInv, TypeOK, TaskTypeOK, SemTypeOK
<1> QED BY <1>1, <1>4, <1>6, <1>7, <1>8, CallStep

\* The current task out of the ready list.
LEMMA Blocked ==
    ASSUME IInv, AtBase
    PROVE  LET r == task_set_block(ready_list, curr_task)
           IN  /\ r \in Seq(Task) /\ NoRepeat(r)
               /\ \A y : y \in Nodes(r) <=> y \in Nodes(ready_list) /\ y # curr_task
               /\ curr_task \in Linkable
               /\ curr_task \notin Nodes(sleep_list)
               /\ \A m \in MutexId : curr_task \notin Nodes(mutex_wait[m])
               /\ \A s \in SemId : curr_task \notin Nodes(sem_wait_list[s])
<1>1. /\ curr_task \in Task /\ curr_task # idle_task /\ ~halted
      /\ ~TopIn(curr_task, {"dispatch", "walk"})
  BY BaseFacts DEF TopIn
<1>2. /\ curr_task \in Nodes(ready_list)
      /\ curr_task \notin Nodes(sleep_list)
      /\ \A m \in MutexId : curr_task \notin Nodes(mutex_wait[m])
      /\ \A s \in SemId : curr_task \notin Nodes(sem_wait_list[s])
  BY <1>1, RunningFacts
<1>3. ready_list \in Seq(Task) /\ NoRepeat(ready_list)
  BY DEF IInv, TypeOK, TaskTypeOK, ListInv
<1>4. /\ list_remove(ready_list, curr_task) \in Seq(Task)
      /\ NoRepeat(list_remove(ready_list, curr_task))
      /\ Nodes(list_remove(ready_list, curr_task)) = Nodes(ready_list) \ {curr_task}
  BY <1>2, <1>3, Remove
<1>5. task_set_block(ready_list, curr_task) = list_remove(ready_list, curr_task)
  BY <1>1 DEF task_set_block
<1>6. curr_task \in Linkable
  BY <1>2 DEF IInv, LinkInv
<1> QED BY <1>2, <1>4, <1>5, <1>6

LEMMA SleepStep ==
    ASSUME IInv, NEW ms \in SleepMs, sys_sleep(ms), UNCHANGED <<mutexVars, semVars, initVars>>
    PROVE  IInv'
<1>1. /\ AtBase /\ ProtectedDispatch(<<>>)
      /\ ready_list' = task_set_block(ready_list, curr_task)
      /\ task_set_sleep(curr_task, SleepTicks(ms))
      /\ UNCHANGED <<curr_task, task_list, slice_ticks, gdtVars, walk, halted>>
  BY DEF sys_sleep
<1>2. curr_task \in Task /\ sleep_list \in Seq(Task) /\ NoRepeat(sleep_list)
  BY DEF IInv, TypeOK, TaskTypeOK, ListInv
<1>3. /\ ready_list' \in Seq(Task) /\ NoRepeat(ready_list')
      /\ \A y : y \in Nodes(ready_list') <=> y \in Nodes(ready_list) /\ y # curr_task
      /\ curr_task \in Linkable
      /\ curr_task \notin Nodes(sleep_list)
      /\ \A m \in MutexId : curr_task \notin Nodes(mutex_wait[m])
      /\ \A s \in SemId : curr_task \notin Nodes(sem_wait_list[s])
  BY <1>1, Blocked
<1>4. UNCHANGED <<task_list, mutex_wait, sem_wait_list, sem_cnt>>
  BY <1>1 DEF mutexVars, semVars
<1>5. SleepTicks(ms) \in Int
  <2>1. ms \in Nat /\ OS_TICKS_MS \in Nat \ {0} /\ UINT_MOD \in Nat \ {0}
    BY TaskAssumption
  <2> DEFINE k == (ms + (OS_TICKS_MS - 1)) % UINT_MOD
  <2>2. k \in Nat
    BY <2>1
  <2> HIDE DEF k
  <2>3. k \div OS_TICKS_MS \in Int
    BY <2>1, <2>2
  <2> QED BY <2>3 DEF SleepTicks, k
<1>6. /\ sleep_list' \in Seq(Task) /\ NoRepeat(sleep_list')
      /\ \A y : y \in Nodes(sleep_list') => y \in Nodes(sleep_list) \/ y = curr_task
      /\ sleep_ticks' \in [Task -> Int] /\ state' \in [Task -> States]
  <2>1. sleep_ticks \in [Task -> Int] /\ state \in [Task -> States]
    BY DEF IInv, TypeOK, TaskTypeOK
  <2>2. CASE SleepTicks(ms) = 0
    BY <1>1, <1>2, <2>1, <2>2 DEF task_set_sleep
  <2>3. CASE SleepTicks(ms) # 0
    <3>1. /\ sleep_ticks' = [sleep_ticks EXCEPT ![curr_task] = SleepTicks(ms)]
          /\ state' = [state EXCEPT ![curr_task] = "TASK_SLEEP"]
          /\ sleep_list' = list_insert_last(sleep_list, curr_task)
      BY <1>1, <2>3 DEF task_set_sleep
    <3>2. sleep_ticks' \in [Task -> Int] /\ state' \in [Task -> States]
      BY <1>5, <2>1, <3>1 DEF States
    <3>3. curr_task \notin Nodes(sleep_list)
      BY <1>3
    <3>4. /\ list_insert_last(sleep_list, curr_task) \in Seq(Task)
          /\ NoRepeat(list_insert_last(sleep_list, curr_task))
          /\ Nodes(list_insert_last(sleep_list, curr_task)) = Nodes(sleep_list) \cup {curr_task}
      BY <1>2, <3>3, InsertLast
    <3> QED BY <3>1, <3>2, <3>4
  <2> QED BY <2>2, <2>3
<1>7. ListInv'
  BY <1>3, <1>4, <1>6 DEF IInv, ListInv
<1>8. LinkInv'
  BY <1>3, <1>4, <1>6 DEF IInv, LinkInv, Linkable
<1>9. FieldTypeOK'
  BY <1>1, <1>6, Fields DEF FieldTypeOK, gdtVars, initVars
<1>10. SemTypeOK'
  BY <1>4 DEF IInv, TypeOK, SemTypeOK
<1>11. \A t \in Nodes(ready_list) \ {curr_task} : t \in Nodes(ready_list)'
  BY <1>3
<1> QED BY <1>1, <1>3, <1>6, <1>7, <1>8, <1>9, <1>10, <1>11, CallStep

\* A unit taken or counted: neither the lists nor the stack change.
LEMMA SemCountStep ==
    ASSUME IInv, AtBase, sem_cnt' \in [SemId -> Nat],
           UNCHANGED <<sem_wait_list, ready_list, irq, stack>>,
           UNCHANGED <<semFrame, state>>, UNCHANGED <<mutexVars, initVars>>
    PROVE  IInv'
<1>1. /\ curr_task \in Task /\ curr_task # idle_task /\ ~halted
      /\ irq[curr_task] \in BOOLEAN
      /\ stack[curr_task] = <<>> /\ <<>> \in Seq(Frame)
      /\ ~TopIn(curr_task, {"dispatch", "walk"}) /\ ~TopIn(curr_task, {"unlog"})
      /\ ~TwoUnlogs(<<>>)
      /\ GoodRest(<<>>)
  BY BaseFacts DEF TopIn
<1>2. owner[log_mutex] # idle_task
  BY <1>1, IdleNotOwner
<1>3. /\ stack' = [stack EXCEPT ![curr_task] = <<>>]
      /\ irq' = [irq EXCEPT ![curr_task] = irq[curr_task]]
  BY <1>1 DEF IInv, TypeOK, TaskTypeOK
<1>4. FieldTypeOK'
  BY Fields DEF FieldTypeOK, semFrame, gdtVars, initVars
<1>5. UNCHANGED <<curr_task, halted, walk, ready_list, sleep_list, task_list, mutex_wait, sem_wait_list>>
  BY DEF semFrame, mutexVars
<1>6. RunInv'
  <2>1. curr_task = task_next_run
    BY <1>1, RunningFacts
  <2> QED BY <1>5, <2>1 DEF RunInv, task_next_run
<1>7. WalkInv'
  BY <1>1, <1>5 DEF WalkInv, TopIn
<1>8. ListInv' /\ LinkInv'
  BY <1>5 DEF IInv, ListInv, LinkInv, Linkable
<1>9. SemTypeOK' /\ ready_list' \in Seq(Task) /\ sleep_list' \in Seq(Task)
  BY <1>5 DEF IInv, TypeOK, TaskTypeOK, SemTypeOK
<1>10. Shape(<<>>, irq[curr_task])
  BY <1>1 DEF GoodRest
<1> QED BY <1>1, <1>2, <1>3, <1>4, <1>5, <1>6, <1>7, <1>8, <1>9, <1>10, StepInv DEF initVars

LEMMA SemWaitStep ==
    ASSUME IInv, NEW s \in SemId, sem_wait(s), UNCHANGED <<mutexVars, initVars>>
    PROVE  IInv'
<1>1. AtBase /\ UNCHANGED <<semFrame, state>>
  BY DEF sem_wait
<1>2. sem_cnt \in [SemId -> Nat] /\ sem_wait_list \in [SemId -> Seq(Task)] /\ curr_task \in Task
  BY DEF IInv, TypeOK, SemTypeOK, TaskTypeOK
<1>3. CASE SemTake(s)
  <2>1. sem_cnt[s] > 0 /\ sem_cnt' = [sem_cnt EXCEPT ![s] = @ - 1]
        /\ UNCHANGED <<sem_wait_list, ready_list, irq, stack>>
    BY <1>3 DEF SemTake
  <2>2. sem_cnt' \in [SemId -> Nat]
    BY <1>2, <2>1
  <2> QED BY <1>1, <2>1, <2>2, SemCountStep
<1>4. CASE SemBlock(s)
  <2>1. /\ ready_list' = task_set_block(ready_list, curr_task)
        /\ sem_wait_list' = [sem_wait_list EXCEPT ![s] = list_insert_last(@, curr_task)]
        /\ ProtectedDispatch(<<>>)
        /\ UNCHANGED sem_cnt
    BY <1>4 DEF SemBlock
  <2>2. /\ ready_list' \in Seq(Task) /\ NoRepeat(ready_list')
        /\ \A y : y \in Nodes(ready_list') <=> y \in Nodes(ready_list) /\ y # curr_task
        /\ curr_task \in Linkable
        /\ curr_task \notin Nodes(sleep_list)
        /\ \A m \in MutexId : curr_task \notin Nodes(mutex_wait[m])
        /\ \A u \in SemId : curr_task \notin Nodes(sem_wait_list[u])
    BY <1>1, <2>1, Blocked
  <2>3. UNCHANGED <<curr_task, halted, sleep_list, task_list, mutex_wait>>
    BY <1>1 DEF semFrame, mutexVars
  <2>4. /\ list_insert_last(sem_wait_list[s], curr_task) \in Seq(Task)
        /\ NoRepeat(list_insert_last(sem_wait_list[s], curr_task))
        /\ Nodes(list_insert_last(sem_wait_list[s], curr_task)) = Nodes(sem_wait_list[s]) \cup {curr_task}
    <3>1. sem_wait_list[s] \in Seq(Task) /\ NoRepeat(sem_wait_list[s])
          /\ curr_task \notin Nodes(sem_wait_list[s]) /\ curr_task \in Task
      BY <1>2, <2>2 DEF IInv, ListInv
    <3> QED BY <3>1, InsertLast
  <2>5. /\ sem_wait_list' \in [SemId -> Seq(Task)]
        /\ sem_wait_list'[s] = list_insert_last(sem_wait_list[s], curr_task)
        /\ \A u \in SemId \ {s} : sem_wait_list'[u] = sem_wait_list[u]
    BY <1>2, <2>1, <2>4
  <2>6. \A u \in SemId : \A y :
            y \in Nodes(sem_wait_list'[u]) <=> y \in Nodes(sem_wait_list[u]) \/ (u = s /\ y = curr_task)
    BY <2>4, <2>5
  <2>7. \A u \in SemId : NoRepeat(sem_wait_list'[u])
    BY <2>4, <2>5 DEF IInv, ListInv
  <2>8. ListInv'
    <3>1. \A t \in Nodes(ready_list') :
              /\ t \notin Nodes(sleep_list)
              /\ \A m \in MutexId : t \notin Nodes(mutex_wait[m])
              /\ \A u \in SemId : t \notin Nodes(sem_wait_list'[u])
      BY <2>2, <2>6 DEF IInv, ListInv
    <3>2. \A t \in Nodes(sleep_list) : \A u \in SemId : t \notin Nodes(sem_wait_list'[u])
      BY <2>2, <2>6 DEF IInv, ListInv
    <3>3. ASSUME NEW m \in MutexId, NEW t \in Nodes(mutex_wait[m]), NEW u \in SemId
          PROVE  t \notin Nodes(sem_wait_list'[u])
      <4>1. t \notin Nodes(sem_wait_list[u])
        BY DEF IInv, ListInv
      <4>2. t # curr_task
        BY <2>2
      <4> QED BY <2>6, <4>1, <4>2
    <3>4. \A u \in SemId : \A t \in Nodes(sem_wait_list'[u]) :
              \A v \in SemId \ {u} : t \notin Nodes(sem_wait_list'[v])
      BY <2>2, <2>6 DEF IInv, ListInv
    <3> QED BY <2>2, <2>3, <2>7, <3>1, <3>2, <3>3, <3>4 DEF IInv, ListInv
  <2>9. LinkInv'
    BY <2>2, <2>3, <2>6 DEF IInv, LinkInv, Linkable
  <2>10. FieldTypeOK'
    BY <1>1, Fields DEF FieldTypeOK, semFrame, gdtVars, initVars
  <2>11. SemTypeOK' /\ sleep_list' \in Seq(Task)
    BY <1>2, <2>1, <2>3, <2>5 DEF SemTypeOK, IInv, TypeOK, TaskTypeOK
  <2>12. \A t \in Nodes(ready_list) \ {curr_task} : t \in Nodes(ready_list)'
    BY <2>2
  <2> QED BY <1>1, <2>1, <2>2, <2>3, <2>8, <2>9, <2>10, <2>11, <2>12, CallStep
<1> QED BY <1>3, <1>4 DEF sem_wait

LEMMA SemNotifyStep ==
    ASSUME IInv, NEW s \in SemId, sem_notify(s), UNCHANGED <<mutexVars, initVars>>
    PROVE  IInv'
<1>1. AtBase /\ UNCHANGED semFrame
  BY DEF sem_notify
<1>2. sem_cnt \in [SemId -> Nat] /\ sem_wait_list \in [SemId -> Seq(Task)] /\ curr_task \in Task
  BY DEF IInv, TypeOK, SemTypeOK, TaskTypeOK
<1>3. CASE SemCount(s)
  <2>1. sem_cnt' = [sem_cnt EXCEPT ![s] = @ + 1]
        /\ UNCHANGED <<sem_wait_list, ready_list, state, irq, stack>>
    BY <1>3 DEF SemCount
  <2>2. sem_cnt' \in [SemId -> Nat]
    BY <1>2, <2>1
  <2> QED BY <1>1, <2>1, <2>2, SemCountStep
<1>4. CASE SemHandOff(s)
  <2> DEFINE task == Head(sem_wait_list[s])
  <2>1. sem_wait_list[s] \in Seq(Task) /\ sem_wait_list[s] # <<>> /\ NoRepeat(sem_wait_list[s])
    BY <1>2, <1>4 DEF SemHandOff, list_count, IInv, ListInv
  <2>2. /\ task \in Nodes(sem_wait_list[s])
        /\ Tail(sem_wait_list[s]) \in Seq(Task)
        /\ Nodes(sem_wait_list[s]) = Nodes(Tail(sem_wait_list[s])) \cup {task}
        /\ NoRepeat(Tail(sem_wait_list[s]))
        /\ task \notin Nodes(Tail(sem_wait_list[s]))
    BY <2>1, RemoveFirst DEF list_remove_first
  <2>3. task \in Task /\ task # idle_task /\ task \in Linkable
    BY <2>1, <2>2, NodesType DEF IInv, LinkInv, Linkable
  <2>4. /\ task \notin Nodes(ready_list) /\ task \notin Nodes(sleep_list)
        /\ \A m \in MutexId : task \notin Nodes(mutex_wait[m])
        /\ \A u \in SemId \ {s} : task \notin Nodes(sem_wait_list[u])
    BY <2>2 DEF IInv, ListInv
  <2>5. list_first(sem_wait_list[s], None) = task
    BY <2>1 DEF list_first
  <2> HIDE DEF task
  <2>6. /\ ready_list' = list_insert_last(ready_list, task)
        /\ state' = [state EXCEPT ![task] = "TASK_READY"]
        /\ sem_wait_list' = [sem_wait_list EXCEPT ![s] = Tail(@)]
        /\ ProtectedDispatch(<<>>)
        /\ UNCHANGED sem_cnt
    BY <1>4, <2>3, <2>5 DEF SemHandOff, task_set_ready, ReadyState, list_remove_first
  <2>7. /\ ready_list' \in Seq(Task)
        /\ \A y : y \in Nodes(ready_list') <=> y \in Nodes(ready_list) \/ y = task
        /\ NoRepeat(ready_list')
    <3>1. ready_list \in Seq(Task) /\ NoRepeat(ready_list)
      BY DEF IInv, TypeOK, TaskTypeOK, ListInv
    <3>2. /\ list_insert_last(ready_list, task) \in Seq(Task)
          /\ Nodes(list_insert_last(ready_list, task)) = Nodes(ready_list) \cup {task}
          /\ NoRepeat(list_insert_last(ready_list, task))
      BY <2>3, <2>4, <3>1, InsertLast
    <3> QED BY <2>6, <3>2
  <2>8. /\ sem_wait_list' \in [SemId -> Seq(Task)]
        /\ sem_wait_list'[s] = Tail(sem_wait_list[s])
        /\ \A u \in SemId \ {s} : sem_wait_list'[u] = sem_wait_list[u]
    BY <1>2, <2>2, <2>6
  <2>9. \A u \in SemId : \A y :
            y \in Nodes(sem_wait_list'[u]) <=> y \in Nodes(sem_wait_list[u]) /\ ~(u = s /\ y = task)
    BY <2>2, <2>8
  <2>10. \A u \in SemId : NoRepeat(sem_wait_list'[u])
    BY <2>2, <2>8 DEF IInv, ListInv
  <2>11. UNCHANGED <<curr_task, halted, sleep_list, task_list, mutex_wait>>
    BY <1>1 DEF semFrame, mutexVars
  <2>12. ListInv'
    <3>1. ASSUME NEW t \in Nodes(ready_list')
          PROVE  /\ t \notin Nodes(sleep_list)
                 /\ \A m \in MutexId : t \notin Nodes(mutex_wait[m])
                 /\ \A u \in SemId : t \notin Nodes(sem_wait_list'[u])
      <4>1. CASE t = task
        BY <2>4, <2>9, <4>1
      <4>2. CASE t # task
        BY <2>7, <2>9, <3>1, <4>2 DEF IInv, ListInv
      <4> QED BY <4>1, <4>2
    <3>2. \A t \in Nodes(sleep_list) : \A u \in SemId : t \notin Nodes(sem_wait_list'[u])
      BY <2>9 DEF IInv, ListInv
    <3>3. \A m \in MutexId : \A t \in Nodes(mutex_wait[m]) : \A u \in SemId : t \notin Nodes(sem_wait_list'[u])
      BY <2>9 DEF IInv, ListInv
    <3>4. \A u \in SemId : \A t \in Nodes(sem_wait_list'[u]) :
              \A v \in SemId \ {u} : t \notin Nodes(sem_wait_list'[v])
      BY <2>9 DEF IInv, ListInv
    <3> QED BY <2>7, <2>10, <2>11, <3>1, <3>2, <3>3, <3>4 DEF IInv, ListInv
  <2>13. LinkInv'
    BY <2>3, <2>7, <2>9, <2>11 DEF IInv, LinkInv, Linkable
  <2>14. FieldTypeOK'
    <3>1. FieldTypeOK
      BY Fields
    <3>2. state' \in [Task -> States]
      BY <2>3, <2>6, <3>1 DEF FieldTypeOK, States
    <3> QED BY <1>1, <3>1, <3>2 DEF FieldTypeOK, semFrame, gdtVars, initVars
  <2>15. SemTypeOK' /\ sleep_list' \in Seq(Task)
    BY <1>2, <2>6, <2>8, <2>11 DEF SemTypeOK, IInv, TypeOK, TaskTypeOK
  <2>16. \A t \in Nodes(ready_list) \ {curr_task} : t \in Nodes(ready_list)'
    BY <2>7
  <2> QED BY <1>1, <2>6, <2>7, <2>11, <2>12, <2>13, <2>14, <2>15, <2>16, CallStep
<1> QED BY <1>3, <1>4 DEF sem_notify

\* One turn of the loop over the sleep list.
LEMMA WalkStep ==
    ASSUME IInv, tick_walk, UNCHANGED <<mutexVars, semVars, initVars>>
    PROVE  IInv'
<1> DEFINE fs == stack[curr_task]
<1>1. /\ ~halted /\ fs # <<>> /\ Head(fs).pc = "walk"
      /\ UNCHANGED <<curr_task, task_list, slice_ticks, gdtVars, irq, halted>>
  BY DEF tick_walk, At
<1>2. /\ curr_task \in Task /\ fs \in Seq(Frame) /\ irq[curr_task] \in BOOLEAN
      /\ fs[1].pc = "walk" /\ Shape(fs, irq[curr_task])
      /\ Rest = Tail(fs)
      /\ curr_task = idle_task => irq[curr_task] = FALSE /\ IdleShape(fs, FALSE)
  BY <1>1, RestFacts DEF Rest
<1>3. FieldTypeOK
  BY Fields
<1>4. CASE walk = None
  <2>1. /\ stack' = [stack EXCEPT ![curr_task] = Rest]
        /\ UNCHANGED <<ready_list, sleep_list, state, sleep_ticks, walk>>
    BY <1>4 DEF tick_walk, Continue
  <2>2. Rest # <<>> /\ Rest[1].pc = "dispatch"
    BY <1>1, <1>2, ShapeBelow
  <2>3. stack'[curr_task] = Rest
    BY <1>2, <2>1 DEF IInv, TypeOK, TaskTypeOK
  <2>4. RunInv'
    BY <1>1, <2>2, <2>3 DEF RunInv, TopIn
  <2>5. FieldTypeOK'
    BY <1>1, <1>3, <2>1 DEF FieldTypeOK, gdtVars, initVars
  <2> QED BY <1>1, <1>2, <2>1, <2>4, <2>5, PopStep DEF listVars, initVars
<1>5. CASE walk # None
  <2> DEFINE x == walk
             y == list_node_next(sleep_list, x, None)
  <2>1. /\ walk' = y
        /\ sleep_ticks' = [sleep_ticks EXCEPT ![x] = @ - 1]
        /\ IF sleep_ticks[x] - 1 = 0
           THEN /\ sleep_list' = list_remove(sleep_list, x)
                /\ ready_list' = task_set_ready(ready_list, x)
                /\ state' = ReadyState(state, x)
           ELSE UNCHANGED <<ready_list, sleep_list, state>>
        /\ UNCHANGED stack
    BY <1>5 DEF tick_walk, task_set_wakeup
  <2>2. x \in Nodes(sleep_list) /\ sleep_list \in Seq(Task) /\ NoRepeat(sleep_list)
    BY <1>1, <1>2, <1>5 DEF IInv, WalkInv, TopIn, TypeOK, TaskTypeOK, ListInv
  <2>3. x \in Task /\ x # idle_task /\ x \in Linkable
    BY <2>2, NodesType DEF IInv, LinkInv, Linkable
  <2>4. /\ x \notin Nodes(ready_list)
        /\ \A m \in MutexId : x \notin Nodes(mutex_wait[m])
        /\ \A s \in SemId : x \notin Nodes(sem_wait_list[s])
    BY <2>2 DEF IInv, ListInv
  <2>5. y = None \/ (y \in Nodes(sleep_list) /\ y # x /\ y \in Task)
    <3>1. y \in Nodes(sleep_list) \cup {None} /\ (y \in Nodes(sleep_list) => y # x \/ y = None)
      BY <1>5, <2>2, NextNode
    <3> QED BY <2>2, <3>1, NodesType
  <2> HIDE DEF y
  <2>6. curr_task \in Nodes(ready_list) \cup {idle_task}
    <3>1. SUFFICES ASSUME curr_task = task_next_run, curr_task # idle_task
                   PROVE  curr_task \in Nodes(ready_list)
      BY <1>1, <1>2 DEF IInv, RunInv, TopIn
    <3>2. ready_list \in Seq(Task)
      BY DEF IInv, TypeOK, TaskTypeOK
    <3>3. ready_list # <<>> /\ curr_task = Head(ready_list)
      BY <3>1, <3>2 DEF task_next_run, list_count, list_first
    <3> QED BY <3>2, <3>3, RemoveFirst
  <2>7. /\ ready_list' \in Seq(Task) /\ NoRepeat(ready_list')
        /\ sleep_list' \in Seq(Task) /\ NoRepeat(sleep_list')
        /\ state' \in [Task -> States]
        /\ \/ /\ \A z : z \in Nodes(ready_list') <=> z \in Nodes(ready_list) \/ z = x
              /\ \A z : z \in Nodes(sleep_list') <=> z \in Nodes(sleep_list) /\ z # x
           \/ ready_list' = ready_list /\ sleep_list' = sleep_list
    <3>1. ready_list \in Seq(Task) /\ NoRepeat(ready_list)
      BY DEF IInv, TypeOK, TaskTypeOK, ListInv
    <3>2. CASE sleep_ticks[x] - 1 = 0
      <4>1. /\ sleep_list' = list_remove(sleep_list, x)
            /\ ready_list' = list_insert_last(ready_list, x)
            /\ state' = [state EXCEPT ![x] = "TASK_READY"]
        BY <2>1, <2>3, <3>2 DEF task_set_ready, ReadyState
      <4>2. /\ list_remove(sleep_list, x) \in Seq(Task)
            /\ NoRepeat(list_remove(sleep_list, x))
            /\ Nodes(list_remove(sleep_list, x)) = Nodes(sleep_list) \ {x}
        BY <2>2, Remove
      <4>3. /\ list_insert_last(ready_list, x) \in Seq(Task)
            /\ NoRepeat(list_insert_last(ready_list, x))
            /\ Nodes(list_insert_last(ready_list, x)) = Nodes(ready_list) \cup {x}
        BY <2>3, <2>4, <3>1, InsertLast
      <4>4. state' \in [Task -> States]
        BY <1>3, <2>3, <4>1 DEF FieldTypeOK, States
      <4> QED BY <4>1, <4>2, <4>3, <4>4
    <3>3. CASE sleep_ticks[x] - 1 # 0
      BY <1>3, <2>1, <2>2, <3>1, <3>3 DEF FieldTypeOK
    <3> QED BY <3>2, <3>3
  <2>8. UNCHANGED <<task_list, mutex_wait, sem_wait_list, sem_cnt>>
    BY <1>1 DEF mutexVars, semVars
  <2>9. ListInv' /\ LinkInv'
    <3>1. CASE ready_list' = ready_list /\ sleep_list' = sleep_list
      BY <2>8, <3>1 DEF IInv, ListInv, LinkInv, Linkable
    <3>2. CASE /\ \A z : z \in Nodes(ready_list') <=> z \in Nodes(ready_list) \/ z = x
               /\ \A z : z \in Nodes(sleep_list') <=> z \in Nodes(sleep_list) /\ z # x
      <4>1. ASSUME NEW t \in Nodes(ready_list')
            PROVE  /\ t \notin Nodes(sleep_list')
                   /\ \A m \in MutexId : t \notin Nodes(mutex_wait[m])
                   /\ \A s \in SemId : t \notin Nodes(sem_wait_list[s])
        <5>1. CASE t = x
          BY <2>4, <3>2, <5>1
        <5>2. CASE t # x
          BY <3>2, <4>1, <5>2 DEF IInv, ListInv
        <5> QED BY <5>1, <5>2
      <4>2. \A t \in Nodes(sleep_list') :
                /\ \A m \in MutexId : t \notin Nodes(mutex_wait[m])
                /\ \A s \in SemId : t \notin Nodes(sem_wait_list[s])
        BY <3>2 DEF IInv, ListInv
      <4>3. ListInv'
        BY <2>7, <2>8, <4>1, <4>2 DEF IInv, ListInv
      <4>4. LinkInv'
        BY <2>3, <2>8, <3>2 DEF IInv, LinkInv, Linkable
      <4> QED BY <4>3, <4>4
    <3> QED BY <2>7, <3>1, <3>2
  <2>10. FieldTypeOK'
    <3>1. sleep_ticks' \in [Task -> Int]
      BY <1>3, <2>1, <2>3 DEF FieldTypeOK
    <3>2. walk' \in Task \cup {None}
      BY <2>1, <2>5
    <3> QED BY <1>1, <1>3, <2>7, <3>1, <3>2 DEF FieldTypeOK, gdtVars, initVars
  <2>11. RunInv'
    BY <1>1, <1>2, <2>1, <2>6, <2>7 DEF RunInv, TopIn
  <2>12. WalkInv'
    BY <2>1, <2>5, <2>7 DEF WalkInv
  <2>13. owner[log_mutex] # idle_task /\ ~TwoUnlogs(fs)
    BY <1>2, IdleNotOwner DEF TopIn
  <2>14. /\ stack' = [stack EXCEPT ![curr_task] = fs]
         /\ irq' = [irq EXCEPT ![curr_task] = irq[curr_task]]
    BY <1>1, <1>2, <2>1 DEF IInv, TypeOK, TaskTypeOK
  <2>15. SemTypeOK'
    BY <2>8 DEF IInv, TypeOK, SemTypeOK
  <2>16. owner[log_mutex] \in Nodes(ready_list) => owner[log_mutex] \in Nodes(ready_list)'
    BY <2>7
  <2>17. curr_task = idle_task => IdleShape(fs, irq[curr_task])
    BY <1>2
  <2> QED BY <1>1, <1>2, <2>7, <2>8, <2>9, <2>10, <2>11, <2>12, <2>13, <2>14, <2>15, <2>16,
             <2>17, StepInv DEF initVars
<1> QED BY <1>4, <1>5

\* task_init ends: the new task is linked in the ready list and the task list.
LEMMA TaskReadyStep == ASSUME IInv, task_init_end PROVE IInv'
<1> DEFINE t == new_task[curr_task]
<1>1. /\ ~halted /\ stack[curr_task] # <<>> /\ Head(stack[curr_task]).pc = "task_ready"
      /\ sleep_ticks' = [sleep_ticks EXCEPT ![t] = 0]
      /\ slice_ticks' = [slice_ticks EXCEPT ![t] = TASK_TIME_SLICE_DEFAULT]
      /\ ready_list' = task_set_ready(ready_list, t)
      /\ state' = ReadyState(state, t)
      /\ task_list' = list_insert_last(task_list, t)
      /\ new_task' = [new_task EXCEPT ![curr_task] = None]
      /\ new_sel' = [new_sel EXCEPT ![curr_task] = 0]
      /\ stack' = [stack EXCEPT ![curr_task] = Rest]
      /\ UNCHANGED <<curr_task, sleep_list, gdtVars, irq, walk, halted, mutexVars, semVars>>
  BY DEF task_init_end, At, Continue
<1>2. /\ curr_task \in Task /\ irq[curr_task] \in BOOLEAN
      /\ stack[curr_task] \in Seq(Frame) /\ stack[curr_task][1].pc = "task_ready"
      /\ Shape(stack[curr_task], irq[curr_task])
      /\ Rest = Tail(stack[curr_task]) /\ Shape(Rest, irq[curr_task])
      /\ curr_task = idle_task => irq[curr_task] = FALSE /\ IdleShape(Rest, FALSE)
      /\ \A P : HasPc(stack[curr_task], P) <=> stack[curr_task][1].pc \in P \/ HasPc(Rest, P)
  BY <1>1, RestFacts DEF Rest
<1>3. Rest = <<>> /\ Rest \in Seq(Frame) /\ \A P : ~HasPc(Rest, P)
  <2>1. Rest = <<>>
    BY <1>1, <1>2, ShapeBelow
  <2> QED BY <2>1, HasPcEmpty
<1>4. new_task \in [Task -> OtherTasks \cup {None}] /\ new_sel \in [Task -> {0} \cup TssSlot]
  BY DEF IInv, TypeOK
<1>5. /\ t \in OtherTasks /\ t \in Task /\ t # idle_task /\ t # None /\ t \notin Nodes(task_list)
      /\ None \notin Task
  <2>1. HasPc(stack[curr_task], InitPcs)
    BY <1>2 DEF InitPcs
  <2>2. t # None /\ t \notin Nodes(task_list)
    BY <1>2, <2>1 DEF IInv, InitInv
  <2> QED BY <1>2, <1>4, <2>2, TaskAssumption DEF Task
<1>6. \A u \in Task \ {curr_task} : new_task[u] # t
  BY <1>2, <1>5 DEF IInv, InitInv
<1> HIDE DEF t
<1>7. ~TopIn(curr_task, {"dispatch", "walk"}) /\ ~TopIn(curr_task, {"unlog"})
  BY <1>2 DEF TopIn
<1>8. /\ curr_task = task_next_run
      /\ curr_task # idle_task => ready_list # <<>> /\ curr_task = Head(ready_list)
  BY <1>1, <1>7, RunningFacts
<1>9. curr_task # idle_task
  BY <1>2 DEF IInv, StackInv, IdleShape, HasPc, InitPcs
<1>10. ready_list \in Seq(Task) /\ NoRepeat(ready_list) /\ task_list \in Seq(Task)
  BY DEF IInv, TypeOK, TaskTypeOK, ListInv
<1>11. /\ t \notin Nodes(ready_list) /\ t \notin Nodes(sleep_list)
       /\ \A m \in MutexId : t \notin Nodes(mutex_wait[m])
       /\ \A s \in SemId : t \notin Nodes(sem_wait_list[s])
  BY <1>5 DEF IInv, LinkInv, Linkable
<1>12. /\ ready_list' \in Seq(Task) /\ NoRepeat(ready_list')
       /\ \A y : y \in Nodes(ready_list') <=> y \in Nodes(ready_list) \/ y = t
       /\ ready_list' # <<>> /\ Head(ready_list') = Head(ready_list)
  <2>1. ready_list' = list_insert_last(ready_list, t)
    BY <1>1, <1>5 DEF task_set_ready
  <2>2. /\ list_insert_last(ready_list, t) \in Seq(Task)
        /\ NoRepeat(list_insert_last(ready_list, t))
        /\ Nodes(list_insert_last(ready_list, t)) = Nodes(ready_list) \cup {t}
        /\ list_insert_last(ready_list, t) # <<>>
        /\ Head(list_insert_last(ready_list, t)) = Head(ready_list)
    BY <1>5, <1>8, <1>9, <1>10, <1>11, InsertLast
  <2> QED BY <2>1, <2>2
<1>13. task_list' \in Seq(Task) /\ \A y : y \in Nodes(task_list') <=> y \in Nodes(task_list) \/ y = t
  <2>1. /\ list_insert_last(task_list, t) \in Seq(Task)
        /\ Nodes(list_insert_last(task_list, t)) = Nodes(task_list) \cup {t}
    BY <1>5, <1>10, InsertLast
  <2> QED BY <1>1, <2>1
<1>14. /\ stack' \in [Task -> Seq(Frame)] /\ irq' \in [Task -> BOOLEAN]
       /\ stack'[curr_task] = Rest
       /\ \A u \in Task \ {curr_task} : stack'[u] = stack[u]
       /\ StackInv' /\ Suspended'
  BY <1>1, <1>2, <1>3, <1>9, StackOnlyStep
<1>15. UNCHANGED <<sleep_list, mutex_wait, sem_wait_list, owner, locked_count>>
  BY <1>1 DEF mutexVars, semVars
<1>16. ListInv'
  <2>1. ASSUME NEW u \in Nodes(ready_list')
        PROVE  /\ u \notin Nodes(sleep_list)
               /\ \A m \in MutexId : u \notin Nodes(mutex_wait[m])
               /\ \A s \in SemId : u \notin Nodes(sem_wait_list[s])
    <3>1. CASE u = t
      BY <1>11, <3>1
    <3>2. CASE u # t
      BY <1>12, <2>1, <3>2 DEF IInv, ListInv
    <3> QED BY <3>1, <3>2
  <2> QED BY <1>12, <1>15, <2>1 DEF IInv, ListInv
<1>17. LinkInv'
  <2>1. \A u : u \in Linkable => u \in Linkable'
    BY <1>13 DEF Linkable
  <2>2. t \in Linkable'
    BY <1>5, <1>13 DEF Linkable
  <2> QED BY <1>12, <1>15, <2>1, <2>2 DEF IInv, LinkInv
<1>18. /\ new_task' \in [Task -> OtherTasks \cup {None}] /\ new_sel' \in [Task -> {0} \cup TssSlot]
       /\ new_task'[curr_task] = None
       /\ \A u \in Task \ {curr_task} : new_task'[u] = new_task[u]
  BY <1>1, <1>2, <1>4
<1>19. InitInv'
  <2>1. ASSUME NEW u \in Task, HasPc(stack'[u], InitPcs) PROVE new_task'[u] # None
    <3>1. u # curr_task
      BY <1>3, <1>14, <2>1
    <3>2. HasPc(stack[u], InitPcs) /\ new_task'[u] = new_task[u]
      BY <1>14, <1>18, <2>1, <3>1
    <3> QED BY <3>2 DEF IInv, InitInv
  <2>2. \A u \in Task : new_task'[u] \notin Nodes(task_list')
    <3>1. None \notin Nodes(task_list')
      BY <1>5, <1>13, NodesType
    <3> QED BY <1>6, <1>13, <1>18, <3>1 DEF IInv, InitInv
  <2>3. \A u, v \in Task : new_task'[u] = new_task'[v] /\ new_task'[u] # None => u = v
    BY <1>18 DEF IInv, InitInv
  <2> QED BY <2>1, <2>2, <2>3 DEF InitInv
<1>20. TypeOK'
  <2>1. FieldTypeOK
    BY Fields
  <2>2. state' \in [Task -> States]
    BY <1>1, <1>5, <2>1 DEF FieldTypeOK, ReadyState, States
  <2>3. sleep_ticks' \in [Task -> Int] /\ slice_ticks' \in [Task -> Int]
    <3>1. TASK_TIME_SLICE_DEFAULT \in Int
      BY TaskAssumption
    <3>2. /\ sleep_ticks \in [Task -> Int] /\ sleep_ticks' = [sleep_ticks EXCEPT ![t] = 0]
          /\ slice_ticks \in [Task -> Int]
          /\ slice_ticks' = [slice_ticks EXCEPT ![t] = TASK_TIME_SLICE_DEFAULT]
      BY <1>1, <2>1 DEF FieldTypeOK
    <3>3. sleep_ticks' \in [Task -> Int]
      <4> DEFINE z == 0
      <4>1. z \in Int /\ sleep_ticks' = [sleep_ticks EXCEPT ![t] = z]
        BY <3>2
      <4> HIDE DEF z
      <4> QED BY <3>2, <4>1
    <3>4. slice_ticks' \in [Task -> Int]
      BY <3>1, <3>2
    <3> QED BY <3>3, <3>4
  <2>4. TaskTypeOK'
    BY <1>1, <1>2, <1>12, <1>13, <1>14, <2>1, <2>2, <2>3
       DEF TaskTypeOK, FieldTypeOK, IInv, TypeOK, gdtVars
  <2> QED BY <1>1, <1>18, <2>4 DEF IInv, TypeOK, MutexTypeOK, SemTypeOK, mutexVars, semVars
<1>21. RunInv'
  <2>1. Len(ready_list') # 0
    BY <1>12
  <2>2. task_next_run' = Head(ready_list')
    BY <1>12, <2>1 DEF task_next_run, list_count, list_first
  <2> QED BY <1>1, <1>8, <1>9, <1>12, <2>2 DEF RunInv
<1>22. WalkInv'
  BY <1>1, <1>3, <1>14 DEF WalkInv, TopIn
<1>23. MutexInv'
  BY <1>15 DEF IInv, MutexInv
<1>24. LogInv'
  <2>1. owner[log_mutex] # idle_task /\ ~TwoUnlogs(stack[curr_task])
    BY <1>7, IdleNotOwner
  <2>2. ~TwoUnlogs(Rest) /\ (HasPc(Rest, {"unlog"}) <=> HasPc(stack[curr_task], {"unlog"}))
    BY <1>2, <1>3 DEF TwoUnlogs
  <2>3. owner[log_mutex] \in Nodes(ready_list) => owner[log_mutex] \in Nodes(ready_list)'
    BY <1>12
  <2> QED BY <1>2, <1>14, <1>15, <2>1, <2>2, <2>3, LogFrame
<1> QED BY <1>14, <1>16, <1>17, <1>19, <1>20, <1>21, <1>22, <1>23, <1>24 DEF IInv

\* The timer interrupt.
LEMMA TickStep == ASSUME IInv, Tick PROVE IInv'
<1> DEFINE fs == stack[curr_task]
           e == (slice_ticks[curr_task] - 1 = 0)
           r == TickCalls(e) \o fs
<1>1. /\ ~halted /\ irq[curr_task]
      /\ irq' = [irq EXCEPT ![curr_task] = FALSE]
      /\ slice_ticks' = [slice_ticks EXCEPT ![curr_task] = @ - 1]
      /\ stack' = [stack EXCEPT ![curr_task] = r]
      /\ UNCHANGED <<curr_task, listVars, state, sleep_ticks, gdtVars, walk, halted>>
      /\ UNCHANGED <<mutexVars, semVars, initVars>>
  BY DEF Tick, time_tick, Continue
<1>2. curr_task \in Task /\ fs \in Seq(Frame) /\ irq[curr_task] = TRUE
  BY <1>1 DEF IInv, TypeOK, TaskTypeOK
<1>3. Shape(fs, TRUE)
  BY <1>2 DEF IInv, StackInv
<1>4. e \in BOOLEAN
  OBVIOUS
<1> HIDE DEF e
<1>5. /\ r \in Seq(Frame) /\ r # <<>> /\ r[1].pc \in {"log", "scan"}
      /\ Shape(r, FALSE)
      /\ HasPc(r, {"unlog"}) <=> HasPc(fs, {"unlog"})
      /\ HasPc(r, InitPcs) <=> HasPc(fs, InitPcs)
      /\ fs = <<>> => IdleShape(r, FALSE)
  BY <1>2, <1>3, <1>4, ShapeTimer
<1> HIDE DEF r
<1>6. curr_task = idle_task => fs = <<>>
  BY <1>2 DEF IInv, StackInv, IdleShape
<1>7. fs # <<>> => fs[1].pc \in OpenPcs
  BY <1>2, <1>3 DEF Shape, ShapeIrq
<1>8. ~TopIn(curr_task, {"dispatch", "walk"})
  BY <1>7 DEF TopIn, OpenPcs
<1>9. owner[log_mutex] # idle_task
  BY <1>6 DEF IInv, LogInv, TopIn
<1>10. ~TwoUnlogs(fs) /\ ~TwoUnlogs(r)
  <2>1. ~TwoUnlogs(fs)
    BY <1>2, <1>3, ShapeOpen
  <2> QED BY <1>5, <2>1 DEF TwoUnlogs
<1>11. FieldTypeOK'
  <2>1. FieldTypeOK
    BY Fields
  <2>2. slice_ticks' \in [Task -> Int]
    BY <1>1, <1>2, <2>1 DEF FieldTypeOK
  <2> QED BY <1>1, <2>1, <2>2 DEF FieldTypeOK, gdtVars, initVars
<1>12. RunInv'
  <2>1. curr_task = task_next_run
    BY <1>1, <1>8, RunningFacts
  <2> QED BY <1>1, <2>1 DEF RunInv, task_next_run, listVars
<1>13. WalkInv'
  <2>1. stack'[curr_task] = r
    BY <1>1, <1>2 DEF IInv, TypeOK, TaskTypeOK
  <2> QED BY <1>1, <1>5, <2>1 DEF WalkInv, TopIn
<1>14. curr_task = idle_task => IdleShape(r, FALSE)
  BY <1>5, <1>6
<1> QED BY <1>1, <1>2, <1>5, <1>9, <1>10, <1>11, <1>12, <1>13, <1>14, PlainStep DEF initVars

-----------------------------------------------------------------------------
(* The theorems.                                                           *)

LEMMA InitIInv == ASSUME KernelInit PROVE IInv
<1> USE DEF KernelInit, TaskInit, MutexInit, SemInit
<1>1. /\ first_task \in Task /\ idle_task \in Task /\ first_task # idle_task /\ None \notin Task
      /\ log_mutex \in MutexId
  BY TaskAssumption DEF Task, MutexId
<1>2. /\ ready_list \in Seq(Task) /\ sleep_list \in Seq(Task) /\ task_list \in Seq(Task)
      /\ Nodes(ready_list) = {first_task} /\ NoRepeat(ready_list)
      /\ Nodes(task_list) = {idle_task, first_task}
      /\ Nodes(<<>>) = {} /\ NoRepeat(<<>>)
  <2>1. <<first_task>> \in Seq(Task) /\ <<idle_task, first_task>> \in Seq(Task) /\ <<>> \in Seq(Task)
    BY <1>1
  <2>2. Nodes(<<first_task>>) = {first_task} /\ NoRepeat(<<first_task>>)
    BY DEF Nodes, NoRepeat
  <2>3. Nodes(<<idle_task, first_task>>) = {idle_task, first_task}
    <3>1. \A i \in 1..2 : i = 1 \/ i = 2
      OBVIOUS
    <3> QED BY <3>1 DEF Nodes
  <2> QED BY <2>1, <2>2, <2>3, EmptyList
<1>3. /\ \A t \in Task : stack[t] = <<>> /\ irq[t] \in BOOLEAN
      /\ irq[idle_task] = TRUE
      /\ \A P : ~HasPc(<<>>, P)
  BY <1>1, HasPcEmpty
<1>4. TypeOK
  <2>1. gdt_table \in [TssSlot -> Task \cup {None}]
    BY <1>1
  <2>2. tss_sel \in [Task -> {0} \cup TssSlot]
    <3>1. 3 \in TssSlot /\ 4 \in TssSlot
      BY TaskAssumption DEF TssSlot
    <3> QED BY <3>1
  <2>3. state \in [Task -> States] /\ irq \in [Task -> BOOLEAN] /\ stack \in [Task -> Seq(Frame)]
    BY DEF States
  <2>4. sleep_ticks \in [Task -> Int] /\ slice_ticks \in [Task -> Int]
    BY TaskAssumption
  <2>5. TaskTypeOK
    BY <1>1, <1>2, <2>1, <2>2, <2>3, <2>4 DEF TaskTypeOK
  <2>6. MutexTypeOK
    BY DEF MutexTypeOK
  <2>7. SemTypeOK
    BY SemAssumption DEF SemTypeOK
  <2> QED BY <2>5, <2>6, <2>7 DEF TypeOK
<1>5. StackInv
  <2>1. \A t \in Task : Shape(stack[t], irq[t])
    BY <1>3, ShapeBase
  <2>2. IdleShape(stack[idle_task], irq[idle_task])
    BY <1>1, <1>3 DEF IdleShape
  <2> QED BY <2>1, <2>2 DEF StackInv
<1>6. Suspended
  BY <1>3 DEF Suspended
<1>7. InitInv
  BY <1>1, <1>2, <1>3 DEF InitInv
<1>8. ListInv /\ LinkInv
  BY <1>1, <1>2 DEF ListInv, LinkInv, Linkable
<1>9. RunInv
  <2>1. ready_list # <<>> /\ Head(ready_list) = first_task /\ Len(ready_list) # 0
    OBVIOUS
  <2> QED BY <2>1 DEF RunInv, task_next_run, list_count, list_first
<1>10. WalkInv
  BY <1>1, <1>3 DEF WalkInv, TopIn
<1>11. MutexInv
  BY <1>2 DEF MutexInv
<1>12. LogInv
  BY <1>1, <1>2, <1>3 DEF LogInv
<1> QED BY <1>4, <1>5, <1>6, <1>7, <1>8, <1>9, <1>10, <1>11, <1>12 DEF IInv

\* One step of the kernel.
LEMMA NextIInv == ASSUME IInv, Next PROVE IInv'
<1>1. CASE Running
  <2>1. CASE TaskStep
    BY <2>1, DispatchIInv, LeaveStep, RotateStep, ScanStep, WalkStep DEF TaskStep
  <2> QED BY <1>1, <2>1, LogStartStep, LogEndStep, GdtAllocStep, GdtReleaseStep, TssInitStep,
             TaskReadyStep DEF Running
<1>2. CASE ClientCall
  <2>1. CASE \/ sys_sched_yield /\ UNCHANGED <<mutexVars, semVars, initVars>>
             \/ \E ms \in SleepMs : sys_sleep(ms) /\ UNCHANGED <<mutexVars, semVars, initVars>>
    BY <2>1, YieldStep, SleepStep
  <2>2. CASE \E m \in ClientMutexes : (ClientLock(m) \/ ClientUnlock(m)) /\ UNCHANGED <<semVars, initVars>>
    BY <2>2, ClientLockStep, ClientUnlockStep
  <2>3. CASE \E s \in SemId : (sem_wait(s) \/ sem_notify(s)) /\ UNCHANGED <<mutexVars, initVars>>
    BY <2>3, SemWaitStep, SemNotifyStep
  <2>4. CASE \E t \in OtherTasks : task_init(t)
    BY <2>4, TaskInitStep
  <2>5. CASE Sti \/ ClientLog
    BY <2>5, StiStep, ClientLogStep
  <2> QED BY <1>2, <2>1, <2>2, <2>3, <2>4, <2>5 DEF ClientCall
<1>3. CASE Tick
  BY <1>3, TickStep
<1> QED BY <1>1, <1>2, <1>3 DEF Next

LEMMA StutterIInv == ASSUME IInv, UNCHANGED vars PROVE IInv'
<1> USE DEF vars, taskVars, listVars, fieldVars, gdtVars, mutexVars, semVars, initVars
<1>1. TypeOK'
  BY DEF IInv, TypeOK, TaskTypeOK, MutexTypeOK, SemTypeOK
<1>2. StackInv' /\ Suspended' /\ InitInv'
  BY DEF IInv, StackInv, Suspended, InitInv
<1>3. ListInv' /\ LinkInv'
  BY DEF IInv, ListInv, LinkInv, Linkable
<1>4. RunInv' /\ WalkInv'
  BY DEF IInv, RunInv, WalkInv, TopIn, task_next_run
<1>5. MutexInv' /\ LogInv'
  BY DEF IInv, MutexInv, LogInv, TopIn
<1> QED BY <1>1, <1>2, <1>3, <1>4, <1>5 DEF IInv

\* IInv holds in every state the kernel reaches, whatever the tasks call, for any number
\* of tasks, mutexes, semaphores and GDT entries.
THEOREM KernelInvariant == Spec => []IInv
<1>1. KernelInit => IInv
  BY InitIInv
<1>2. IInv /\ [Next]_vars => IInv'
  BY NextIInv, StutterIInv
<1> QED BY <1>1, <1>2, PTL DEF Spec

\* Every variable keeps its type: no list links anything but a task, no GDT entry or
\* selector is out of range, no lock count or semaphore count is negative.
THEOREM KernelTypes == Spec => []TypeOK
<1>1. IInv => TypeOK
  BY DEF IInv
<1> QED BY <1>1, KernelInvariant, PTL

\* No task is ever linked twice: neither in two lists nor twice in one (task.c, mutex.c
\* and sem.c insert one node into several lists and rely on this).
THEOREM OnePlaceAlways == Spec => []OnePlace
<1>1. IInv => OnePlace
  <2>1. SUFFICES ASSUME IInv PROVE OnePlace
    OBVIOUS
  <2>2. ListInv
    BY <2>1 DEF IInv
  <2>3. \A t : t \in MutexWaiters <=> \E m \in MutexId : t \in Nodes(mutex_wait[m])
    BY DEF MutexWaiters
  <2>4. \A t : t \in SemWaiters <=> \E s \in SemId : t \in Nodes(sem_wait_list[s])
    BY DEF SemWaiters
  <2>5. \A t \in Nodes(ready_list) \cup Nodes(sleep_list) : ~Waiting(t)
    BY <2>2, <2>3, <2>4 DEF ListInv, Waiting
  <2>6. MutexWaiters \cap SemWaiters = {}
    BY <2>2, <2>3, <2>4 DEF ListInv
  <2> QED BY <2>2, <2>5, <2>6 DEF ListInv, OnePlace
<1> QED BY <1>1, KernelInvariant, PTL

\* task_dispatch keeps the running task in line with the ready list.
THEOREM RunningIsHeadAlways == Spec => []RunningIsHead
<1>1. IInv => RunningIsHead
  <2>1. SUFFICES ASSUME IInv, Dispatched, ~halted PROVE curr_task = task_next_run
    BY DEF RunningIsHead
  <2>2. stack[curr_task] # <<>> => Head(stack[curr_task]) = stack[curr_task][1]
    BY <2>1, RestFacts
  <2>3. ~TopIn(curr_task, {"dispatch", "walk"})
    BY <2>1, <2>2 DEF Dispatched, TopIn
  <2> QED BY <2>1, <2>3, RunningFacts
<1> QED BY <1>1, KernelInvariant, PTL

\* Interrupts stay off in every region entered with irq_enter_protection and in the
\* tick handler, across the switches made inside it.
THEOREM IrqDisciplineAlways == Spec => []IrqDiscipline
<1>1. IInv => IrqDiscipline
  <2>1. SUFFICES ASSUME IInv PROVE IrqDiscipline
    OBVIOUS
  <2>2. ASSUME NEW t \in Task, irq[t] PROVE ~Protected(t)
    <3>1. \A i \in 1..Len(stack[t]) : stack[t][i].pc \in OpenPcs
      BY <2>1, <2>2 DEF IInv, StackInv, Shape, ShapeIrq
    <3> QED BY <3>1 DEF Protected, OpenPcs
  <2>3. ASSUME NEW t \in Task \ {curr_task}, stack[t] # <<>> PROVE Protected(t)
    <3>1. stack[t] \in Seq(Frame) /\ Len(stack[t]) > 1 /\ stack[t][2].pc = "leave"
      BY <2>1, <2>3 DEF IInv, Suspended, TypeOK, TaskTypeOK
    <3>2. 2 \in 1..Len(stack[t])
      BY <3>1
    <3> QED BY <3>1, <3>2 DEF Protected
  <2> QED BY <2>2, <2>3 DEF IrqDiscipline
<1> QED BY <1>1, KernelInvariant, PTL

\* The owner of log_mutex can always run, so the idle task, which cannot block, never
\* has to wait in log_printf.
THEOREM LogOwnerRunnableAlways == Spec => []LogOwnerRunnable
<1>1. IInv => LogOwnerRunnable
  BY DEF IInv, LogInv, LogOwnerRunnable
<1> QED BY <1>1, KernelInvariant, PTL

\* Every mutex keeps its owner, count and wait list consistent.
THEOREM MutexConsistentAlways == Spec => []MutexConsistent
<1>1. IInv => MutexConsistent
  BY DEF IInv, MutexInv, ListInv, LinkInv, Linkable, MutexConsistent
<1> QED BY <1>1, KernelInvariant, PTL

\* One step keeps SemNoLostUnit: only sem_wait and sem_notify touch a semaphore.
LEMMA SemUnitNext == ASSUME TypeOK, SemNoLostUnit, [Next]_vars PROVE SemNoLostUnit'
<1>1. CASE \E s \in SemId : sem_wait(s)
  <2>1. PICK s \in SemId : sem_wait(s)
    BY <1>1
  <2>2. sem_cnt \in [SemId -> Nat] /\ sem_wait_list \in [SemId -> Seq(Task)]
    BY DEF TypeOK, SemTypeOK
  <2>3. CASE SemTake(s)
    BY <2>2, <2>3 DEF SemTake, SemNoLostUnit
  <2>4. CASE SemBlock(s)
    <3>1. sem_cnt' = sem_cnt /\ sem_cnt[s] = 0
      BY <2>2, <2>4 DEF SemBlock
    <3>2. \A u \in SemId \ {s} : sem_wait_list'[u] = sem_wait_list[u]
      BY <2>2, <2>4 DEF SemBlock
    <3> QED BY <3>1, <3>2 DEF SemNoLostUnit
  <2> QED BY <2>1, <2>3, <2>4 DEF sem_wait
<1>2. CASE \E s \in SemId : sem_notify(s)
  <2>1. PICK s \in SemId : sem_notify(s)
    BY <1>2
  <2>2. sem_cnt \in [SemId -> Nat] /\ sem_wait_list \in [SemId -> Seq(Task)]
    BY DEF TypeOK, SemTypeOK
  <2>3. CASE SemHandOff(s)
    <3>1. sem_cnt' = sem_cnt
      BY <2>3 DEF SemHandOff
    <3>2. sem_wait_list[s] # <<>>
      BY <2>2, <2>3 DEF SemHandOff, list_count
    <3>3. sem_cnt[s] = 0
      BY <3>2 DEF SemNoLostUnit
    <3>4. \A u \in SemId \ {s} : sem_wait_list'[u] = sem_wait_list[u]
      BY <2>2, <2>3 DEF SemHandOff
    <3> QED BY <3>1, <3>3, <3>4 DEF SemNoLostUnit
  <2>4. CASE SemCount(s)
    <3>1. sem_wait_list' = sem_wait_list /\ sem_wait_list[s] = <<>>
      BY <2>2, <2>4 DEF SemCount, list_count
    <3>2. \A u \in SemId \ {s} : sem_cnt'[u] = sem_cnt[u]
      BY <2>2, <2>4 DEF SemCount
    <3> QED BY <3>1, <3>2 DEF SemNoLostUnit
  <2> QED BY <2>1, <2>3, <2>4 DEF sem_notify
<1>3. CASE UNCHANGED semVars
  BY <1>3 DEF semVars, SemNoLostUnit
<1>4. Running \/ Tick \/ UNCHANGED vars => UNCHANGED semVars
  BY DEF Running, TaskStep, LogStart, LogEnd, gdt_alloc_desc, gdt_release, tss_init,
         task_init_end, Tick, vars
<1>5. ClientCall => \/ UNCHANGED semVars
                    \/ \E s \in SemId : sem_wait(s) \/ sem_notify(s)
  BY DEF ClientCall, Sti, ClientLog, task_init
<1> QED BY <1>1, <1>2, <1>3, <1>4, <1>5 DEF Next

\* No unit of a semaphore is lost between sem_notify and sem_wait: whenever a task
\* waits, the count is 0.
THEOREM SemNoLostUnitAlways == Spec => []SemNoLostUnit
<1>1. KernelInit => SemNoLostUnit
  BY DEF KernelInit, SemInit, SemNoLostUnit
<1>2. TypeOK /\ SemNoLostUnit /\ [Next]_vars => SemNoLostUnit'
  BY SemUnitNext
<1> QED BY <1>1, <1>2, KernelTypes, PTL DEF Spec
=============================================================================
