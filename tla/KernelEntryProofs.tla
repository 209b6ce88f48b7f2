-------------------------- MODULE KernelEntryProofs --------------------------
(***************************************************************************)
(* Kernel code runs on the stack of current_task, and a user program is     *)
(* always ready for the next interrupt: for every set of tasks.             *)
(***************************************************************************)
EXTENDS KernelEntry, SequenceTheorems, TLAPS

(* What remains of a stack of which the upper part is gone. *)
LEMMA CutStack ==
    ASSUME NEW t \in Task, NEW s \in Seq(Frame), Sound(t, s), NEW m \in 0 .. Len(s)
    PROVE  LET r == SubSeq(s, 1, m) IN
           /\ r \in Seq(Frame) /\ Len(r) = m
           /\ \A i \in 1 .. m : r[i] = s[i]
           /\ Sound(t, r)
           /\ \A d \in 0 .. m, p \in Pcs : Fits(t, s, d, p) <=> Fits(t, r, d, p)
  <1> DEFINE r == SubSeq(s, 1, m)
  <1>1. r \in Seq(Frame) /\ Len(r) = m /\ \A i \in 1 .. m : r[i] = s[i]
    OBVIOUS
  <1>2. \A d \in 0 .. m : \A p : Fits(t, s, d, p) <=> Fits(t, r, d, p)
    BY <1>1 DEF Fits
  <1> HIDE DEF r
  <1>3. Sound(t, r)
    <2> SUFFICES ASSUME NEW i \in 1 .. Len(r)
                 PROVE  /\ r[i].kind # "sys" => Fits(t, r, i - 1, r[i].pc)
                        /\ r[i].kind = "irq" => r[i].sp = [of |-> t, top |-> i - 1]
      BY DEF Sound
    <2>1. i \in 1 .. Len(s) /\ r[i] = s[i] /\ i - 1 \in 0 .. m
      BY <1>1
    <2> QED BY <2>1, <1>2 DEF Sound
  <1> QED BY <1>1, <1>2, <1>3 DEF r

(* A frame pushed where it fits. *)
Over(s, n, f) == SubSeq(s, 1, n) \o <<f>>

LEMMA OverIs ==
    ASSUME NEW s \in Seq(Frame), NEW n \in 0 .. Len(s), NEW f \in Frame
    PROVE  /\ Over(s, n, f) \in Seq(Frame) /\ Len(Over(s, n, f)) = n + 1
           /\ Over(s, n, f)[n + 1] = f /\ \A i \in 1 .. n : Over(s, n, f)[i] = s[i]
  BY DEF Over

LEMMA PushFrame ==
    ASSUME NEW t \in Task, NEW s \in Seq(Frame), Sound(t, s), NEW n \in 0 .. Len(s),
           NEW f \in Frame,
           f.kind # "sys" => Fits(t, s, n, f.pc),
           f.kind = "irq" => f.sp = [of |-> t, top |-> n]
    PROVE  /\ Over(s, n, f) \in Seq(Frame)
           /\ Len(Over(s, n, f)) = n + 1 /\ Over(s, n, f)[n + 1] = f
           /\ Sound(t, Over(s, n, f))
  <1> DEFINE r == Over(s, n, f)
  <1>1. r \in Seq(Frame) /\ Len(r) = n + 1 /\ r[n + 1] = f /\ \A i \in 1 .. n : r[i] = s[i]
    BY OverIs
  <1>2. \A d \in 0 .. n : \A p : Fits(t, s, d, p) <=> Fits(t, r, d, p)
    BY <1>1 DEF Fits
  <1> HIDE DEF r
  <1>3. Sound(t, r)
    <2> SUFFICES ASSUME NEW i \in 1 .. Len(r)
                 PROVE  /\ r[i].kind # "sys" => Fits(t, r, i - 1, r[i].pc)
                        /\ r[i].kind = "irq" => r[i].sp = [of |-> t, top |-> i - 1]
      BY DEF Sound
    <2>1. CASE i = n + 1
      <3>1. r[i] = f /\ i - 1 = n /\ n \in 0 .. n
        BY <2>1, <1>1
      <3> QED BY <3>1, <1>2
    <2>2. CASE i # n + 1
      <3>1. i \in 1 .. Len(s) /\ r[i] = s[i] /\ i - 1 \in 0 .. n
        BY <2>2, <1>1
      <3> QED BY <3>1, <1>2 DEF Sound
    <2> QED BY <2>1, <2>2
  <1> QED BY <1>1, <1>3 DEF r

(* An interrupt that preempts pushes its frame and that of a call at once. *)
LEMMA PushBoth ==
    ASSUME NEW t \in Task, NEW s \in Seq(Frame), Sound(t, s), NEW n \in 0 .. Len(s),
           NEW f \in Frame, f.kind = "irq", Fits(t, s, n, f.pc),
           f.sp = [of |-> t, top |-> n],
           NEW ret \in {"irqret", "never"}
    PROVE  LET r == SubSeq(s, 1, n) \o <<f, CallFrame(ret)>> IN
           /\ r \in Seq(Frame) /\ Len(r) = n + 2 /\ r[n + 2] = CallFrame(ret)
           /\ Sound(t, r)
  <1> DEFINE q == Over(s, n, f)
             g == CallFrame(ret)
             r == SubSeq(s, 1, n) \o <<f, g>>
  <1>1. q \in Seq(Frame) /\ Len(q) = n + 1 /\ q[n + 1] = f /\ Sound(t, q)
    BY PushFrame
  <1>2. g \in Frame /\ g.kind = "call" /\ g.pc = ret
    BY DEF CallFrame, Frame, Pcs
  <1>3. g.kind # "irq" /\ n + 1 \in 0 .. Len(q)
    BY <1>1, <1>2
  <1>4. Fits(t, q, n + 1, g.pc)
    BY <1>1, <1>2 DEF Fits
  <1> HIDE DEF g, q
  <1>5. r = Over(q, n + 1, g)
    <2> DEFINE p == SubSeq(s, 1, n)
    <2>1. p \in Seq(Frame) /\ <<f>> \in Seq(Frame) /\ <<g>> \in Seq(Frame)
      BY <1>2
    <2>2. <<f, g>> = <<f>> \o <<g>>
      OBVIOUS
    <2>3. SubSeq(q, 1, n + 1) = q
      BY <1>1, SubSeqFull
    <2> HIDE DEF p
    <2>4. (p \o <<f>>) \o <<g>> = p \o (<<f>> \o <<g>>)
      BY <2>1, ConcatAssociative
    <2> QED BY <2>2, <2>3, <2>4 DEF p, q, Over
  <1>6. PICK m : m = n + 1
    OBVIOUS
  <1>7. q \in Seq(Frame) /\ Sound(t, q) /\ g \in Frame /\ g.kind # "irq" /\ m \in 0 .. Len(q) /\ Fits(t, q, m, g.pc)
    BY <1>1, <1>2, <1>3, <1>4, <1>6
  <1>8. /\ Over(q, m, g) \in Seq(Frame) /\ Len(Over(q, m, g)) = m + 1 /\ Over(q, m, g)[m + 1] = g
        /\ Sound(t, Over(q, m, g))
    BY <1>7, PushFrame
  <1>9. m + 1 = n + 2
    BY <1>6
  <1> HIDE DEF r
  <1>10. r \in Seq(Frame) /\ Len(r) = n + 2 /\ r[n + 2] = g /\ Sound(t, r)
    BY <1>5, <1>6, <1>8, <1>9
  <1> QED BY <1>10 DEF g, r

(* The steps of the running task on its own stack: what is left of          *)
(* EntryInv to show.                                                       *)
LEMMA OwnStep ==
    ASSUME EntryInv,
           NEW s \in Seq(Frame), Sound(current, s),
           stack' = [stack EXCEPT ![current] = s],
           sp' \in Pointer, sp'.of = current, sp'.top <= Len(s),
           pc' \in Pcs, Fits(current, s, sp'.top, pc'),
           on' \in BOOLEAN, regs' \in Registers, scratch' \in Contents,
           UNCHANGED <<current, saved, cr3>>,
           rsp0' = rsp0 \/ rsp0' = current
    PROVE  EntryInv'
  <1>1. EntryTypeOK'
    BY DEF EntryInv, EntryTypeOK
  <1>2. stack'[current] = s /\ \A t \in Task \ {current} : stack'[t] = stack[t]
    BY DEF EntryInv, EntryTypeOK
  <1>3. \A t \in Task : Sound(t, stack'[t])
    BY <1>2 DEF EntryInv
  <1>4. \A t \in Task \ {current} : Parked(t)'
    BY <1>2 DEF EntryInv, Parked
  <1> QED BY <1>1, <1>2, <1>3, <1>4 DEF EntryInv, Sound, Fits

(* One more frame on it, under which the code of pc' runs. *)
LEMMA PushStep ==
    ASSUME EntryInv,
           NEW m \in 0 .. Len(stack[current]), NEW f \in Frame,
           f.kind # "sys" => Fits(current, stack[current], m, f.pc),
           f.kind = "irq" => f.sp = [of |-> current, top |-> m],
           Push([of |-> current, top |-> m], <<f>>),
           pc' \in {"irqret", "yield", "sys"},
           pc' = "irqret" => f.kind = "irq",
           pc' = "yield" => f.kind = "call",
           pc' = "sys" => f.kind = "sys" /\ current \in User /\ m = 0,
           on' \in BOOLEAN, regs' \in Registers, scratch' \in Contents,
           UNCHANGED <<current, saved, cr3, rsp0>>
    PROVE  EntryInv'
  <1> DEFINE s == stack[current]
             r == Over(s, m, f)
  <1>1. s \in Seq(Frame) /\ Sound(current, s) /\ current \in Task
    BY DEF EntryInv, EntryTypeOK
  <1>2. r \in Seq(Frame) /\ Len(r) = m + 1 /\ r[m + 1] = f /\ Sound(current, r)
    BY <1>1, PushFrame
  <1>3. stack' = [stack EXCEPT ![current] = r] /\ sp' = [of |-> current, top |-> m + 1]
    <2>1. Len(<<f>>) = 1
      OBVIOUS
    <2> QED BY <2>1, <1>1 DEF Push, Pushed, Deeper, Over
  <1> HIDE DEF s, r
  <1>4. sp'.top = m + 1 /\ m + 1 > 0
    BY <1>3
  <1>5. Fits(current, r, m + 1, pc')
    <2>1. pc' \notin {"task", "ktramp"} /\ (pc' \in {"sys", "sysret"} => m = 0)
      OBVIOUS
    <2> QED BY <1>2, <1>4, <2>1 DEF Fits
  <1>6. sp' \in Pointer /\ sp'.of = current /\ sp'.top <= Len(r)
    BY <1>1, <1>2, <1>3 DEF Pointer
  <1>7. pc' \in Pcs
    BY DEF Pcs
  <1> QED BY <1>2, <1>3, <1>4, <1>5, <1>6, <1>7, OwnStep

(* One frame less: what pc' goes back to was found to fit. *)
LEMMA PopStep ==
    ASSUME EntryInv, sp.top > 0,
           NEW newtop \in 0 .. sp.top - 1, Pop([of |-> current, top |-> newtop]),
           pc' \in Pcs, Fits(current, stack[current], newtop, pc'),
           on' \in BOOLEAN, regs' \in Registers,
           UNCHANGED <<current, saved, cr3, rsp0, scratch>>
    PROVE  EntryInv'
  <1> DEFINE s == stack[current]
             m == sp.top - 1
             r == SubSeq(s, 1, m)
  <1>1. s \in Seq(Frame) /\ Sound(current, s) /\ current \in Task /\ m \in 0 .. Len(s) /\ sp.of = current
    BY DEF EntryInv, EntryTypeOK, Pointer
  <1> HIDE DEF s
  <1>2. /\ r \in Seq(Frame) /\ Len(r) = m /\ Sound(current, r)
        /\ Fits(current, s, newtop, pc') <=> Fits(current, r, newtop, pc')
    BY <1>1, CutStack
  <1>3. stack' = [stack EXCEPT ![current] = r] /\ sp' = [of |-> current, top |-> newtop]
    BY <1>1 DEF Pop, s
  <1> HIDE DEF r
  <1>4. sp' \in Pointer /\ sp'.of = current /\ sp'.top <= Len(r)
    BY <1>1, <1>2, <1>3 DEF Pointer
  <1>5. scratch' \in Contents
    BY DEF EntryInv, EntryTypeOK
  <1> QED BY <1>2, <1>3, <1>4, <1>5, OwnStep DEF s

LEMMA EntryInit == Init => EntryInv
  <1> SUFFICES ASSUME Init PROVE EntryInv
    OBVIOUS
  <1> USE TaskAssumption DEF Init
  <1>1. \A t \in Task : /\ FirstStack(t) \in Seq(Frame) /\ Sound(t, FirstStack(t))
                        /\ t # Boot => Len(FirstStack(t)) = 1 /\ FirstStack(t)[1].kind = "ctx"
                        /\ t = Boot => Len(FirstStack(t)) = 0
    <2> SUFFICES ASSUME NEW t \in Task
                 PROVE  /\ FirstStack(t) \in Seq(Frame) /\ Sound(t, FirstStack(t))
                        /\ t # Boot => Len(FirstStack(t)) = 1 /\ FirstStack(t)[1].kind = "ctx"
                        /\ t = Boot => Len(FirstStack(t)) = 0
      OBVIOUS
    <2>1. CASE t = Boot
      BY <2>1 DEF FirstStack, Sound
    <2>2. CASE t # Boot
      <3> DEFINE f == CtxFrame(Trampoline(t), 0)
      <3>1. f \in Frame /\ f.kind = "ctx" /\ f.pc = Trampoline(t)
        BY DEF CtxFrame, Trampoline, Frame, Pcs, Contents
      <3>2. Fits(t, <<f>>, 0, f.pc)
        BY <3>1 DEF Trampoline, Fits
      <3> HIDE DEF f
      <3>3. FirstStack(t) = <<f>>
        BY <2>2 DEF FirstStack, f
      <3>4. \A i \in 1 .. Len(<<f>>) : i = 1 /\ <<f>>[i] = f
        OBVIOUS
      <3>5. Sound(t, <<f>>)
        BY <3>1, <3>2, <3>4 DEF Sound
      <3> QED BY <3>1, <3>3, <3>5, <2>2
    <2> QED BY <2>1, <2>2
  <1>2. EntryTypeOK
    <2>1. stack \in [Task -> Seq(Frame)]
      BY <1>1
    <2>2. saved \in [Task -> Pointer]
      BY <1>1 DEF Pointer
    <2>3. Fresh \in Registers /\ Base(Boot) \in Pointer /\ 0 \in Contents
      BY DEF Fresh, Registers, Contents, Base, Pointer
    <2> QED BY <2>1, <2>2, <2>3 DEF EntryTypeOK, Pcs
  <1>3. \A t \in Task \ {Boot} : Parked(t)
    <2> SUFFICES ASSUME NEW t \in Task, t # Boot PROVE Parked(t)
      OBVIOUS
    <2>1. stack[t] = FirstStack(t) /\ saved[t] = [of |-> t, top |-> 1]
      BY <1>1
    <2> QED BY <1>1, <2>1 DEF Parked
  <1>4. sp.of = current /\ sp.top = 0 /\ sp.top <= Len(stack[current])
    BY <1>1 DEF Base
  <1>5. Fits(current, stack[current], sp.top, pc)
    <2>1. pc = "task"
      OBVIOUS
    <2> HIDE DEF Init
    <2> QED BY <1>4, <2>1 DEF Fits
  <1> QED BY <1>1, <1>2, <1>3, <1>4, <1>5 DEF EntryInv

(* What a frame of each kind holds. *)
LEMMA FrameKinds ==
    ASSUME NEW f \in Frame
    PROVE  /\ f.kind = "irq" => f.pc \in Pcs /\ f.on \in BOOLEAN /\ f.regs \in Registers
           /\ f.kind = "sys" => f.rsp \in Contents /\ f.caller \in Contents
           /\ f.kind = "call" => f.pc \in Pcs
           /\ f.kind = "ctx" => f.pc \in Pcs /\ f.callee \in Contents
  BY DEF Frame

(* The running task's stack and the place it is at. *)
LEMMA Running ==
    ASSUME EntryInv
    PROVE  /\ current \in Task /\ stack[current] \in Seq(Frame) /\ Sound(current, stack[current])
           /\ sp = [of |-> current, top |-> sp.top] /\ sp.top \in 0 .. Len(stack[current])
           /\ sp.top > 0 => Top = stack[current][sp.top] /\ Top \in Frame
           /\ stack = [stack EXCEPT ![current] = stack[current]]
           /\ regs \in Registers /\ Clobbered \in Registers
           /\ scratch \in Contents /\ pc \in Pcs /\ on \in BOOLEAN
           /\ Base(current) = [of |-> current, top |-> 0]
  <1> USE DEF EntryInv, EntryTypeOK
  <1>1. /\ current \in Task /\ stack[current] \in Seq(Frame) /\ Sound(current, stack[current])
        /\ stack = [stack EXCEPT ![current] = stack[current]]
        /\ regs \in Registers /\ scratch \in Contents /\ pc \in Pcs /\ on \in BOOLEAN
    OBVIOUS
  <1>2. sp = [of |-> current, top |-> sp.top] /\ sp.top \in 0 .. Len(stack[current])
    BY <1>1 DEF Pointer
  <1>3. sp.top > 0 => Top = stack[current][sp.top] /\ Top \in Frame
    BY <1>1, <1>2 DEF Top
  <1>4. Clobbered \in Registers /\ Base(current) = [of |-> current, top |-> 0]
    BY <1>1 DEF Clobbered, Registers, Contents, Base
  <1> QED BY <1>1, <1>2, <1>3, <1>4

(* Nothing but the place in the code, and registers. *)
LEMMA StayStep ==
    ASSUME EntryInv,
           pc' \in Pcs, Fits(current, stack[current], sp.top, pc'),
           on' \in BOOLEAN, regs' \in Registers, scratch' \in Contents,
           UNCHANGED <<current, saved, cr3, stack, sp>>,
           rsp0' = rsp0 \/ rsp0' = current
    PROVE  EntryInv'
  <1>1. /\ stack[current] \in Seq(Frame) /\ Sound(current, stack[current])
        /\ stack' = [stack EXCEPT ![current] = stack[current]]
        /\ sp' \in Pointer /\ sp'.of = current /\ sp'.top <= Len(stack[current])
        /\ sp'.top = sp.top
    BY DEF EntryInv, EntryTypeOK
  <1> QED BY <1>1, OwnStep

LEMMA IrqFrameFits ==
    ASSUME EntryInv
    PROVE  /\ IrqFrame \in Frame /\ IrqFrame.kind = "irq" /\ IrqFrame.pc = pc
           /\ IrqFrame.sp = sp /\ Fits(current, stack[current], sp.top, IrqFrame.pc)
           /\ EntryStack = sp
  <1>1. EntryStack = sp
    <2>1. CASE pc = "user"
      BY <2>1, Running DEF EntryInv, Fits, EntryStack, Base
    <2>2. CASE pc # "user"
      BY <2>2 DEF EntryStack
    <2> QED BY <2>1, <2>2
  <1> QED BY <1>1 DEF EntryInv, EntryTypeOK, IrqFrame, Frame

LEMMA OneIrq ==
    ASSUME EntryInv, Enter(<<IrqFrame>>, "irqret")
    PROVE  EntryInv'
  <1>1. Push([of |-> current, top |-> sp.top], <<IrqFrame>>)
    BY Running, IrqFrameFits DEF Enter
  <1> DEFINE f == IrqFrame
  <1>2. /\ f \in Frame /\ f.kind = "irq" /\ Fits(current, stack[current], sp.top, f.pc)
        /\ f.sp = [of |-> current, top |-> sp.top]
    BY Running, IrqFrameFits
  <1>3. pc' = "irqret" /\ on' \in BOOLEAN /\ regs' \in Registers /\ scratch' \in Contents
    BY Running DEF Enter
  <1>4. UNCHANGED <<current, saved, cr3, rsp0>>
    BY DEF Enter
  <1> HIDE DEF f
  <1> QED BY <1>1, <1>2, <1>3, <1>4, Running, PushStep DEF Pcs, f

LEMMA IrqAndCall ==
    ASSUME EntryInv, NEW ret \in {"irqret", "never"},
           Enter(<<IrqFrame, CallFrame(ret)>>, "yield")
    PROVE  EntryInv'
  <1> DEFINE s == stack[current]
             n == sp.top
             f == IrqFrame
             g == CallFrame(ret)
             r == SubSeq(s, 1, n) \o <<f, g>>
  <1>1. /\ f \in Frame /\ f.kind = "irq" /\ Fits(current, s, n, f.pc)
        /\ f.sp = [of |-> current, top |-> n] /\ EntryStack = [of |-> current, top |-> n]
    BY Running, IrqFrameFits
  <1>2. current \in Task /\ s \in Seq(Frame) /\ Sound(current, s) /\ n \in 0 .. Len(s)
    BY Running
  <1>3. r \in Seq(Frame) /\ Len(r) = n + 2 /\ r[n + 2] = g /\ Sound(current, r)
    <2> HIDE DEF s, n, f
    <2> QED BY <1>1, <1>2, PushBoth
  <1>4. stack' = [stack EXCEPT ![current] = r] /\ sp' = [of |-> current, top |-> n + 2]
    <2>1. Len(<<f, g>>) = 2
      OBVIOUS
    <2> QED BY <2>1, <1>1, <1>2 DEF Enter, Push, Pushed, Deeper
  <1>5. g.kind = "call"
    BY DEF CallFrame
  <1>6. pc' = "yield" /\ on' \in BOOLEAN /\ regs' \in Registers /\ scratch' \in Contents
    BY Running DEF Enter
  <1>7. UNCHANGED <<current, saved, cr3>> /\ rsp0' = rsp0
    BY DEF Enter
  <1> HIDE DEF s, n, f, g, r
  <1>8. sp' \in Pointer /\ sp'.of = current /\ sp'.top = n + 2 /\ n + 2 > 0 /\ sp'.top <= Len(r)
    BY <1>2, <1>3, <1>4 DEF Pointer
  <1>9. Fits(current, r, sp'.top, pc')
    BY <1>3, <1>5, <1>6, <1>8 DEF Fits
  <1>10. pc' \in Pcs
    BY <1>6 DEF Pcs
  <1> QED BY <1>3, <1>4, <1>6, <1>7, <1>8, <1>9, <1>10, OwnStep

(* What a switch to another task does, with the two stacks and what the     *)
(* processor takes from the frame the other task left.                     *)
Parking == Over(stack[current], sp.top, CtxFrame("resumed", regs.callee))
Unparked(t) == SubSeq(stack[t], 1, saved[t].top - 1)
Waiting(t) == stack[t][saved[t].top]

LEMMA Switched ==
    ASSUME EntryInv, NEW next \in Task, next # current, Switch(next)
    PROVE  /\ current' = next /\ cr3' = Space(next) /\ rsp0' = NextRsp0(next)
           /\ stack'[current] = Parking /\ stack'[next] = Unparked(next)
           /\ \A t \in Task \ {current, next} : stack'[t] = stack[t]
           /\ saved'[current] = [of |-> current, top |-> sp.top + 1]
           /\ \A t \in Task \ {current} : saved'[t] = saved[t]
           /\ stack' = [[stack EXCEPT ![current] = Parking] EXCEPT ![next] = Unparked(next)]
           /\ saved' = [saved EXCEPT ![current] = [of |-> current, top |-> sp.top + 1]]
           /\ sp' = [of |-> next, top |-> saved[next].top - 1]
           /\ regs' = [regs EXCEPT !.callee = Waiting(next).callee]
           /\ pc' = Waiting(next).pc
           /\ saved[next].top \in 1 .. Len(stack[next])
  <1> DEFINE f == CtxFrame("resumed", regs.callee)
  <1>1. /\ current \in Task /\ sp = [of |-> current, top |-> sp.top]
        /\ stack \in [Task -> Seq(Frame)] /\ saved \in [Task -> Pointer]
    BY Running DEF EntryInv, EntryTypeOK
  <1>2. /\ saved[next].of = next /\ saved[next].top \in 1 .. Len(stack[next])
        /\ saved[next] = [of |-> next, top |-> saved[next].top]
    BY <1>1 DEF EntryInv, Parked, Pointer
  <1>3. ContextSwitch(next) /\ current' = next /\ cr3' = Space(next) /\ rsp0' = NextRsp0(next)
    BY DEF Switch
  <1>4. Len(<<f>>) = 1
    OBVIOUS
  <1>5. Pushed(sp, <<f>>) = [stack EXCEPT ![current] = Parking]
    <2>1. sp.of = current
      BY <1>1
    <2>2. Parking = SubSeq(stack[current], 1, sp.top) \o <<f>>
      BY DEF Parking, Over
    <2> HIDE DEF f
    <2> QED BY <2>1, <2>2 DEF Pushed
  <1>6. Deeper(sp, 1) = [of |-> current, top |-> sp.top + 1]
    BY <1>1 DEF Deeper
  <1>7. Deeper(saved[next], -1) = [of |-> next, top |-> saved[next].top - 1]
    BY <1>2 DEF Deeper
  <1>8. [stack EXCEPT ![current] = Parking][next] = stack[next]
    BY <1>1
  <1>9. /\ stack' = [[stack EXCEPT ![current] = Parking] EXCEPT ![next] = Unparked(next)]
        /\ saved' = [saved EXCEPT ![current] = [of |-> current, top |-> sp.top + 1]]
        /\ sp' = [of |-> next, top |-> saved[next].top - 1]
        /\ regs' = [regs EXCEPT !.callee = Waiting(next).callee]
        /\ pc' = Waiting(next).pc
    BY <1>2, <1>3, <1>5, <1>6, <1>7, <1>8 DEF ContextSwitch, Unparked, Waiting
  <1> HIDE DEF f
  <1> QED BY <1>1, <1>2, <1>3, <1>9

(* A switch to another task, which parked itself, leaves this one parked. *)
LEMMA SwitchStep ==
    ASSUME EntryInv, NEW next \in Task, Switch(next)
    PROVE  EntryInv'
  <1>1. pc = "yield" /\ pc' \in {"resumed", stack[saved[next].of][saved[next].top].pc}
    BY DEF Switch, ContextSwitch
  <1>2. sp.top > 0 /\ stack[current][sp.top].kind = "call"
    BY <1>1 DEF EntryInv, Fits
  <1>3. on' \in BOOLEAN /\ scratch' \in Contents
    BY DEF Switch, EntryInv, EntryTypeOK
  <1>4. CASE next = current
    <2>1. pc' = "resumed" /\ UNCHANGED <<current, saved, cr3, stack, sp, regs, rsp0>>
      BY <1>4 DEF Switch
    <2>2. Fits(current, stack[current], sp.top, pc')
      BY <2>1, <1>2 DEF Fits
    <2> QED BY <2>1, <2>2, <1>3, Running, StayStep DEF Pcs
  <1>5. CASE next # current
    <2> DEFINE s == stack[current]
               n == sp.top
               f == CtxFrame("resumed", regs.callee)
               r == Over(s, n, f)
               o == stack[next]
               m == saved[next].top
               q == SubSeq(o, 1, m - 1)
    <2>1. /\ s \in Seq(Frame) /\ Sound(current, s) /\ n \in 0 .. Len(s) /\ current \in Task
          /\ sp = [of |-> current, top |-> n]
      BY Running
    <2>2. /\ o \in Seq(Frame) /\ Sound(next, o) /\ m \in 1 .. Len(o)
          /\ o[m].kind = "ctx" /\ o[m] \in Frame /\ saved[next] = [of |-> next, top |-> m]
      BY <1>5 DEF EntryInv, EntryTypeOK, Parked, Pointer
    <2>3. f \in Frame /\ f.kind = "ctx" /\ f.pc = "resumed"
      BY DEF CtxFrame, Frame, Pcs, EntryInv, EntryTypeOK, Registers
    <2>4. Fits(current, s, n, f.pc)
      BY <1>2, <2>3 DEF Fits
    <2> HIDE DEF f
    <2>5. r \in Seq(Frame) /\ Len(r) = n + 1 /\ r[n + 1] = f /\ Sound(current, r)
      BY <2>1, <2>3, <2>4, PushFrame
    <2>6. Fits(next, o, m - 1, o[m].pc) /\ o[m].pc \in Pcs /\ o[m].callee \in Contents
      BY <2>2, FrameKinds DEF Sound
    <2>7. m - 1 \in 0 .. Len(o)
      BY <2>2
    <2> HIDE DEF s, n, o, m
    <2>8. /\ q \in Seq(Frame) /\ Len(q) = m - 1 /\ Sound(next, q)
          /\ Fits(next, q, m - 1, o[m].pc)
      <3>1. q \in Seq(Frame) /\ Len(q) = m - 1 /\ Sound(next, q)
        BY <2>2, <2>7, CutStack
      <3>2. \A d \in 0 .. m - 1, p \in Pcs : Fits(next, o, d, p) <=> Fits(next, q, d, p)
        BY <2>2, <2>7, CutStack
      <3>3. m - 1 \in 0 .. m - 1
        BY <2>2, <2>7
      <3> HIDE DEF q
      <3> QED BY <2>6, <3>1, <3>2, <3>3
    <2> HIDE DEF r, q
    <2>9. /\ current' = next /\ cr3' = Space(next) /\ rsp0' = NextRsp0(next)
          /\ stack' = [[stack EXCEPT ![current] = r] EXCEPT ![next] = q]
          /\ saved' = [saved EXCEPT ![current] = [of |-> current, top |-> n + 1]]
          /\ stack'[current] = r /\ stack'[next] = q
          /\ \A t \in Task \ {current, next} : stack'[t] = stack[t]
          /\ saved'[current] = [of |-> current, top |-> n + 1]
          /\ \A t \in Task \ {current} : saved'[t] = saved[t]
          /\ sp' = [of |-> next, top |-> m - 1]
          /\ regs' = [regs EXCEPT !.callee = o[m].callee]
          /\ pc' = o[m].pc
      BY <1>5, Switched DEF r, q, s, n, m, o, f, Parking, Unparked, Waiting
    <2>11. EntryTypeOK'
      <3>1. stack' \in [Task -> Seq(Frame)]
        BY <2>5, <2>8, <2>9 DEF EntryInv, EntryTypeOK
      <3>2. saved' \in [Task -> Pointer]
        BY <2>1, <2>9 DEF EntryInv, EntryTypeOK, Pointer
      <3>3. sp' \in Pointer
        BY <2>2, <2>9 DEF Pointer
      <3>4. regs' \in Registers
        BY <2>6, <2>9 DEF EntryInv, EntryTypeOK, Registers
      <3> QED BY <3>1, <3>2, <3>3, <3>4, <1>3, <2>6, <2>9 DEF EntryTypeOK
    <2>12. \A t \in Task : Sound(t, stack'[t])
      BY <2>5, <2>8, <2>9 DEF EntryInv
    <2>13. \A t \in Task \ {next} : Parked(t)'
      <3>1. \A t \in {current} : Parked(t)'
        BY <2>1, <2>3, <2>5, <2>9 DEF Parked
      <3>2. ASSUME NEW t \in Task \ {current, next} PROVE Parked(t)'
        <4>1. stack'[t] = stack[t] /\ saved'[t] = saved[t]
          BY <2>9
        <4>2. Parked(t)
          BY DEF EntryInv
        <4> QED BY <4>1, <4>2 DEF Parked
      <3> QED BY <3>1, <3>2
    <2>14. next \in User => rsp0' = next /\ cr3' = next
      BY <2>9 DEF NextRsp0, Space
    <2>15. sp'.of = current' /\ sp'.top <= Len(stack'[current'])
      BY <2>2, <2>8, <2>9
    <2>16. Fits(current', stack'[current'], sp'.top, pc')
      BY <2>8, <2>9
    <2> QED BY <2>9, <2>11, <2>12, <2>13, <2>14, <2>15, <2>16 DEF EntryInv
  <1> QED BY <1>4, <1>5

LEMMA EntryStep == EntryInv /\ [Next]_vars => EntryInv'
  <1> SUFFICES ASSUME EntryInv, [Next]_vars PROVE EntryInv'
    OBVIOUS
  <1> DEFINE s == stack[current]
             n == sp.top
  <1>0. Fits(current, s, n, pc)
    BY DEF EntryInv
  <1>1. CASE UNCHANGED vars
    BY <1>1 DEF vars, cpu, EntryInv, EntryTypeOK, Parked
  <1>2. CASE Compute
    <2>1. regs' \in Registers
      BY <1>2, Running DEF Compute, Registers, Contents
    <2>2. UNCHANGED <<current, saved, cr3, stack, sp, pc, on, scratch>> /\ rsp0' = rsp0
      BY <1>2 DEF Compute
    <2> QED BY <2>1, <2>2, <1>0, Running, StayStep
  <1>3. CASE Syscall
    <2>1. /\ pc = "user" /\ pc' = "entry" /\ on' = FALSE /\ scratch' = regs.rsp /\ regs' = regs
          /\ UNCHANGED <<current, saved, cr3, stack, sp>> /\ rsp0' = rsp0
      BY <1>3 DEF Syscall
    <2>2. Fits(current, s, n, pc') /\ pc' \in Pcs
      BY <2>1, <1>0 DEF Fits, Pcs
    <2>3. scratch' \in Contents
      BY <2>1, Running DEF Registers
    <2> QED BY <2>1, <2>2, <2>3, Running, StayStep
  <1>4. CASE SysSave
    <2> DEFINE f == SysFrame
    <2>1. f \in Frame /\ f.kind = "sys" /\ f.kind # "irq"
      BY Running DEF SysFrame, Frame, Registers
    <2>2. /\ pc = "entry" /\ pc' = "sys" /\ on' = TRUE /\ regs' = Clobbered /\ scratch' = scratch
          /\ UNCHANGED <<current, saved, cr3, rsp0>>
          /\ Push([of |-> current, top |-> 0], <<f>>)
      BY <1>4, Running DEF SysSave
    <2>3. current \in User /\ 0 \in 0 .. Len(s)
      BY <2>2, <1>0, Running DEF Fits
    <2> HIDE DEF f
    <2> QED BY <2>1, <2>2, <2>3, Running, PushStep DEF Pcs
  <1>5. CASE CallYield \/ LastYield
    <2>1. PICK ret \in {"sys", "task", "never"} :
             /\ ret = "never" \/ ret = pc
             /\ Push(sp, <<CallFrame(ret)>>)
      BY <1>5 DEF CallYield, LastYield
    <2> DEFINE f == CallFrame(ret)
    <2>2. f \in Frame /\ f.kind = "call" /\ f.kind # "irq" /\ f.pc = ret
      BY <2>1 DEF CallFrame, Frame, Pcs
    <2>3. Fits(current, s, n, f.pc)
      BY <2>1, <2>2, <1>0 DEF Fits
    <2>4. /\ pc' = "yield" /\ on' = on /\ regs' = Clobbered /\ scratch' = scratch
          /\ UNCHANGED <<current, saved, cr3, rsp0>>
      BY <1>5 DEF CallYield, LastYield
    <2>5. Push([of |-> current, top |-> n], <<f>>) /\ n \in 0 .. Len(s)
      BY <2>1, Running
    <2>6. on' \in BOOLEAN /\ regs' \in Registers /\ scratch' \in Contents
      BY <2>4, Running
    <2> HIDE DEF f
    <2> QED BY <2>2, <2>3, <2>4, <2>5, <2>6, PushStep
  <1>6. CASE Die \/ SysDone \/ task_trampoline
    <2>1. /\ pc' = "exit" \/ (pc = "sys" /\ pc' = "sysret") \/ (pc = "ktramp" /\ pc' = "task")
          /\ on' \in BOOLEAN /\ regs' = regs /\ scratch' = scratch
          /\ UNCHANGED <<current, saved, cr3, stack, sp>> /\ rsp0' = rsp0
      BY <1>6, Running DEF Die, SysDone, task_trampoline
    <2>2. Fits(current, s, n, pc') /\ pc' \in Pcs
      BY <2>1, <1>0 DEF Fits, Pcs
    <2> QED BY <2>1, <2>2, Running, StayStep
  <1>7. CASE SysRet
    <2>1. pc = "sysret" /\ pc' = "user" /\ on' = TRUE
          /\ regs' = [rsp |-> Top.rsp, caller |-> Top.caller, callee |-> regs.callee]
          /\ Pop([of |-> current, top |-> 0])
          /\ UNCHANGED <<current, saved, cr3, rsp0, scratch>>
      BY <1>7, Running DEF SysRet, SysRestored
    <2>2. n > 0 /\ s[n].kind = "sys" /\ current \in User
      BY <2>1, <1>0 DEF Fits
    <2>3. Top.rsp \in Contents /\ Top.caller \in Contents
      BY <2>2, Running, FrameKinds
    <2>4. regs' \in Registers
      BY <2>1, <2>3, Running DEF Registers
    <2>5. Fits(current, s, 0, pc') /\ pc' \in Pcs /\ 0 \in 0 .. n - 1
      BY <2>1, <2>2, Running DEF Fits, Pcs
    <2> QED BY <2>1, <2>2, <2>4, <2>5, PopStep
  <1>8. CASE DeviceIrq
    BY <1>8, OneIrq DEF DeviceIrq
  <1>9. CASE TimerIrq
    BY <1>9, OneIrq, IrqAndCall DEF TimerIrq
  <1>10. CASE IrqRet
    <2>1. /\ pc = "irqret" /\ pc' = Top.pc /\ on' = Top.on /\ regs' = Top.regs /\ Pop(Top.sp)
          /\ UNCHANGED <<current, saved, cr3, rsp0, scratch>>
      BY <1>10 DEF IrqRet
    <2>2. n > 0 /\ s[n].kind = "irq" /\ Top = s[n] /\ Top \in Frame
      BY <2>1, <1>0, Running DEF Fits
    <2>3. n \in 1 .. Len(s) /\ n - 1 \in 0 .. n - 1
      BY <2>2, Running
    <2>4. Top.sp = [of |-> current, top |-> n - 1] /\ Fits(current, s, n - 1, Top.pc)
      BY <2>2, <2>3, Running DEF Sound
    <2>5. pc' \in Pcs /\ on' \in BOOLEAN /\ regs' \in Registers
      BY <2>1, <2>2, FrameKinds
    <2> QED BY <2>1, <2>2, <2>3, <2>4, <2>5, PopStep
  <1>11. CASE Fault
    BY <1>11, IrqAndCall DEF Fault
  <1>12. CASE \E next \in Task : Switch(next)
    BY <1>12, SwitchStep
  <1>13. CASE Resume
    <2>1. /\ pc = "resumed" /\ pc' = Top.pc /\ on' = TRUE /\ regs' = regs /\ Pop(Deeper(sp, -1))
          /\ UNCHANGED <<current, saved, cr3, rsp0, scratch>>
      BY <1>13 DEF Resume
    <2>2. n > 0 /\ s[n].kind = "call" /\ Top = s[n] /\ Top \in Frame
      BY <2>1, <1>0, Running DEF Fits
    <2>3. n \in 1 .. Len(s) /\ n - 1 \in 0 .. n - 1
      BY <2>2, Running
    <2>4. Deeper(sp, -1) = [of |-> current, top |-> n - 1]
      BY <2>3, Running DEF Deeper
    <2>5. Fits(current, s, n - 1, Top.pc)
      BY <2>2, <2>3, Running DEF Sound
    <2>6. pc' \in Pcs /\ on' \in BOOLEAN /\ regs' \in Registers
      BY <2>1, <2>2, FrameKinds, Running
    <2> QED BY <2>1, <2>2, <2>3, <2>4, <2>5, <2>6, PopStep
  <1>14. CASE user_task_trampoline
    <2>1. /\ pc \in {"utramp", "utramp2", "utramp3"} /\ pc' \in {"utramp2", "utramp3", "user"}
          /\ on' \in BOOLEAN /\ regs' = regs /\ scratch' = scratch
          /\ UNCHANGED <<current, saved, cr3, stack, sp>>
          /\ rsp0' = rsp0 \/ rsp0' = current
      BY <1>14, Running DEF user_task_trampoline
    <2>2. Fits(current, s, n, pc') /\ pc' \in Pcs
      BY <2>1, <1>0 DEF Fits, Pcs
    <2> QED BY <2>1, <2>2, Running, StayStep
  <1> QED BY <1>1, <1>2, <1>3, <1>4, <1>5, <1>6, <1>7, <1>8, <1>9, <1>10, <1>11, <1>12,
             <1>13, <1>14 DEF Next

(* The invariant behind OwnStack holds always.                              *)
THEOREM EntryAlways == Spec => []EntryInv
  BY EntryInit, EntryStep, PTL DEF Spec

(* Kernel code runs on the stack of current_task only, and a user program   *)
(* with its own page table, its kernel stack empty and tss.rsp0 at it       *)
(* (scheduler_yield, user_task_trampoline, the entry stubs).                *)
THEOREM OwnStackAlways == Spec => []OwnStack
  <1>1. EntryInv => OwnStack
    BY DEF EntryInv, OwnStack, Fits
  <1> QED BY <1>1, EntryAlways, PTL
-----------------------------------------------------------------------------
(* The registers a task left its own code with are those it will find.      *)
(* Kernel code keeps the callee-saved ones and counts on no other: r suits  *)
(* code at pc p over d frames of the stack s when what goes back from there *)
(* to the task's own code puts l together.                                  *)
Entering == {"ktramp", "utramp", "utramp2", "utramp3", "entry"}
Kernel == Pcs \ (Home \cup {"entry", "exit", "never"})
Kept(v) == [rsp |-> Junk, caller |-> Junk, callee |-> v]

Suits(l, s, d, p, r) ==
    /\ p \in Entering => r = l
    /\ p \in Kernel => r.rsp = Junk /\ r.caller = Junk
    /\ p \in {"sys", "sysret"} => r.callee = l.callee
    /\ p \in {"yield", "resumed"} /\ d > 0 /\ s[d].pc \in {"sys", "task"} => r.callee = l.callee

(* So does every frame, for the code it goes back to.                      *)
Holds(l, s, i) ==
    /\ s[i].kind = "irq" =>
         /\ s[i].pc # "entry" /\ Suits(l, s, i - 1, s[i].pc, s[i].regs)
         /\ s[i].pc \in Home => s[i].regs = l
    /\ s[i].kind = "sys" => s[i].rsp = l.rsp /\ s[i].caller = l.caller
    /\ s[i].kind = "call" =>
         /\ s[i].pc \in {"sys", "task", "never", "irqret"}
         /\ s[i].pc = "task" => l.rsp = Junk /\ l.caller = Junk
    /\ s[i].kind = "ctx" =>
         /\ s[i].pc \in {"resumed", "ktramp", "utramp"}
         /\ Suits(l, s, i - 1, s[i].pc, Kept(s[i].callee))
Keeps(l, s, d) == \A i \in 1 .. d : Holds(l, s, i)

RegsInv ==
    /\ left \in [Task -> Registers]
    /\ \A t \in Task \ {current} : Keeps(left[t], stack[t], saved[t].top)
    /\ Keeps(left[current], stack[current], sp.top)
    /\ Suits(left[current], stack[current], sp.top, pc, regs)
    /\ pc = "entry" => on = FALSE /\ scratch = left[current].rsp

LEMMA SuitsSame ==
    ASSUME NEW l, NEW s, NEW r, NEW d \in Nat, d > 0 => r[d] = s[d], NEW p, NEW x, Suits(l, s, d, p, x)
    PROVE  Suits(l, r, d, p, x)
BY DEF Suits

LEMMA KeepsSame ==
    ASSUME NEW l, NEW s, NEW r, NEW d \in Nat, \A i \in 1 .. d : r[i] = s[i], Keeps(l, s, d)
    PROVE  Keeps(l, r, d)
  <1> SUFFICES ASSUME NEW i \in 1 .. d PROVE Holds(l, r, i)
    BY DEF Keeps
  <1>1. r[i] = s[i] /\ i - 1 \in Nat /\ (i - 1 > 0 => r[i - 1] = s[i - 1]) /\ Holds(l, s, i)
    BY DEF Keeps
  <1>2. \A p, x : Suits(l, s, i - 1, p, x) => Suits(l, r, i - 1, p, x)
    BY <1>1, SuitsSame
  <1> QED BY <1>1, <1>2 DEF Holds

LEMMA KeepsMore ==
    ASSUME NEW l, NEW s, NEW d \in Nat, Keeps(l, s, d), Holds(l, s, d + 1)
    PROVE  Keeps(l, s, d + 1)
  <1>1. \A i \in 1 .. d + 1 : i \in 1 .. d \/ i = d + 1
    OBVIOUS
  <1> QED BY <1>1 DEF Keeps

(* A step of the running task disturbs no other's.                         *)
LEMMA OwnRegs ==
    ASSUME EntryInv, RegsInv, UNCHANGED <<current, saved>>,
           NEW r, stack' = [stack EXCEPT ![current] = r],
           NEW l \in Registers, left' = [left EXCEPT ![current] = l],
           Keeps(l, r, sp'.top), Suits(l, r, sp'.top, pc', regs'),
           pc' = "entry" => on' = FALSE /\ scratch' = l.rsp
    PROVE  RegsInv'
  <1>1. current \in Task /\ stack \in [Task -> Seq(Frame)] /\ left \in [Task -> Registers]
    BY DEF EntryInv, EntryTypeOK, RegsInv
  <1>2. stack'[current] = r /\ left'[current] = l /\ left' \in [Task -> Registers]
    BY <1>1
  <1>3. \A t \in Task \ {current} : stack'[t] = stack[t] /\ left'[t] = left[t] /\ saved'[t] = saved[t]
    BY <1>1
  <1> QED BY <1>2, <1>3 DEF RegsInv

(* Nothing but the place, the registers, and what they were at home.        *)
LEMMA StayRegs ==
    ASSUME EntryInv, RegsInv, UNCHANGED <<current, saved, stack, sp>>,
           NEW l \in Registers, left' = [left EXCEPT ![current] = l],
           l = left[current] \/ sp.top = 0, Suits(l, stack[current], sp.top, pc', regs'),
           pc' = "entry" => on' = FALSE /\ scratch' = l.rsp
    PROVE  RegsInv'
  <1>1. Keeps(l, stack[current], sp.top)
    <2>1. CASE sp.top = 0
      BY <2>1 DEF Keeps
    <2>2. CASE l = left[current]
      BY <2>2 DEF RegsInv
    <2> QED BY <2>1, <2>2
  <1>2. stack' = [stack EXCEPT ![current] = stack[current]] /\ sp'.top = sp.top
    BY DEF EntryInv, EntryTypeOK
  <1> QED BY <1>1, <1>2, OwnRegs

(* A frame more over what is there, or over nothing.                       *)
LEMMA PushRegs ==
    ASSUME EntryInv, RegsInv, UNCHANGED <<current, saved>>,
           NEW m \in 0 .. sp.top, NEW f \in Frame, Push([of |-> current, top |-> m], <<f>>),
           NEW l \in Registers, left' = [left EXCEPT ![current] = l], l = left[current] \/ m = 0,
           \A s : s[m + 1] = f /\ (m > 0 => s[m] = stack[current][m])
                    => Holds(l, s, m + 1) /\ Suits(l, s, m + 1, pc', regs'),
           pc' # "entry"
    PROVE  RegsInv'
  <1> DEFINE s == stack[current]
             r == Over(s, m, f)
  <1>1. s \in Seq(Frame) /\ current \in Task /\ m \in 0 .. Len(s)
    BY Running
  <1>2. Len(r) = m + 1 /\ r[m + 1] = f /\ \A i \in 1 .. m : r[i] = s[i]
    BY <1>1, OverIs
  <1>3. stack' = [stack EXCEPT ![current] = r] /\ sp'.top = m + 1
    <2>1. Len(<<f>>) = 1
      OBVIOUS
    <2> QED BY <2>1, <1>1 DEF Push, Pushed, Deeper, Over
  <1> HIDE DEF s, r
  <1>4. Keeps(l, s, m)
    <2>1. CASE m = 0
      BY <2>1 DEF Keeps
    <2>2. CASE m # 0
      BY <2>2, Running DEF RegsInv, Keeps, s
    <2> QED BY <2>1, <2>2
  <1>5. Keeps(l, r, m)
    <2>1. m \in Nat
      BY <1>1
    <2> QED BY <1>2, <1>4, <2>1, KeepsSame
  <1>6. m > 0 => m \in 1 .. m
    BY <1>1
  <1>7. Holds(l, r, m + 1) /\ Suits(l, r, m + 1, pc', regs')
    BY <1>2, <1>6 DEF s
  <1>8. Keeps(l, r, m + 1)
    BY <1>1, <1>5, <1>7, KeepsMore
  <1> QED BY <1>3, <1>7, <1>8, OwnRegs

(* A frame less.                                                           *)
LEMMA PopRegs ==
    ASSUME EntryInv, RegsInv, UNCHANGED <<current, saved, left>>, sp.top > 0,
           Pop([of |-> current, top |-> sp.top - 1]), 
           Suits(left[current], stack[current], sp.top - 1, pc', regs'), pc' # "entry"
    PROVE  RegsInv'
  <1> DEFINE s == stack[current]
             m == sp.top - 1
             r == SubSeq(s, 1, m)
  <1>1. s \in Seq(Frame) /\ current \in Task /\ m \in 0 .. Len(s) /\ sp.of = current /\ sp.top = m + 1
    BY Running DEF EntryInv
  <1>2. \A i \in 1 .. m : r[i] = s[i]
    BY <1>1
  <1>3. stack' = [stack EXCEPT ![current] = r] /\ sp'.top = m
    BY <1>1 DEF Pop
  <1>4. left[current] \in Registers /\ left' = [left EXCEPT ![current] = left[current]]
    BY <1>1 DEF RegsInv
  <1>5. Keeps(left[current], s, m)
    BY <1>1 DEF RegsInv, Keeps
  <1>6. Suits(left[current], s, m, pc', regs')
    OBVIOUS
  <1> HIDE DEF s, m, r
  <1>7. m \in Nat /\ (m > 0 => m \in 1 .. m)
    BY <1>1
  <1>8. Keeps(left[current], r, m) /\ Suits(left[current], r, m, pc', regs')
    BY <1>2, <1>5, <1>6, <1>7, KeepsSame, SuitsSame
  <1> QED BY <1>3, <1>4, <1>8, OwnRegs

LEMMA RegsInit == Init => RegsInv
  <1> SUFFICES ASSUME Init PROVE RegsInv
    OBVIOUS
  <1>1. left = [t \in Task |-> Fresh] /\ Fresh \in Registers /\ Fresh = Kept(0)
    BY DEF Init, Fresh, Registers, Contents, Kept
  <1>2. current = Boot /\ pc = "task" /\ sp.top = 0 /\ Boot \in Task
    BY TaskAssumption DEF Init, Base
  <1>3. ASSUME NEW t \in Task \ {Boot} PROVE Keeps(left[t], stack[t], saved[t].top)
    <2>1. left[t] = Fresh
      BY <1>1
    <2> DEFINE f == CtxFrame(Trampoline(t), 0)
               s == <<f>>
    <2>2. f.kind = "ctx" /\ f.pc \in {"ktramp", "utramp"} /\ f.callee = 0
      BY DEF CtxFrame, Trampoline
    <2>3. stack[t] = s /\ saved[t].top = 1
      <3>1. FirstStack(t) = s /\ Len(s) = 1
        BY DEF FirstStack
      <3>2. stack[t] = FirstStack(t) /\ saved[t] = [of |-> t, top |-> Len(FirstStack(t))]
        BY DEF Init
      <3> QED BY <3>1, <3>2
    <2>4. s[1] = f
      OBVIOUS
    <2> HIDE DEF f, s
    <2>5. Holds(Fresh, s, 1)
      <3>1. Suits(Fresh, s, 0, s[1].pc, Kept(0))
        BY <1>1, <2>2, <2>4 DEF Suits, Kept
      <3> QED BY <2>2, <2>4, <3>1 DEF Holds
    <2> QED BY <2>1, <2>3, <2>5 DEF Keeps
  <1>4. Keeps(left[current], stack[current], sp.top)
    BY <1>2 DEF Keeps
  <1>5. Suits(left[current], stack[current], sp.top, pc, regs)
    BY <1>2 DEF Suits, Entering, Kernel, Home
  <1> QED BY <1>1, <1>2, <1>3, <1>4, <1>5 DEF RegsInv

(* The frames that kernel code pushes hold what it would lose.              *)
LEMMA Clobbers ==
    ASSUME EntryInv
    PROVE  Clobbered = Kept(regs.callee) /\ Clobbered \in Registers
  <1>1. regs \in Registers /\ Clobbered \in Registers
    BY Running
  <1>2. Clobbered.rsp = Junk /\ Clobbered.caller = Junk /\ Clobbered.callee = regs.callee
    BY <1>1 DEF Clobbered, Registers
  <1>3. \A r \in Registers : r = [rsp |-> r.rsp, caller |-> r.caller, callee |-> r.callee]
    BY DEF Registers
  <1> QED BY <1>1, <1>2, <1>3 DEF Kept

(* What left is after the running task left its own code, or did not.       *)
LEMMA LeftBy ==
    ASSUME EntryInv, RegsInv
    PROVE  /\ left[current] \in Registers /\ left = [left EXCEPT ![current] = left[current]]
           /\ pc \in Home => sp.top = 0
  BY Running DEF EntryInv, Fits, RegsInv, Home

LEMMA IrqRegs ==
    ASSUME EntryInv, RegsInv, pc # "entry", Enter(<<IrqFrame>>, "irqret")
    PROVE  RegsInv'
  <1> DEFINE l == IF pc \in Home THEN regs ELSE left[current]
             f == IrqFrame
             n == sp.top
  <1>1. /\ Push([of |-> current, top |-> n], <<f>>) /\ n \in 0 .. n
        /\ f \in Frame /\ f.kind = "irq" /\ f.pc = pc /\ f.regs = regs
    <2>1. f.regs = regs
      BY DEF IrqFrame
    <2> QED BY <2>1, Running, IrqFrameFits DEF Enter
  <1>2. left' = [left EXCEPT ![current] = l] /\ l \in Registers /\ (l = left[current] \/ n = 0)
    BY LeftBy, Running DEF Enter
  <1>3. pc' = "irqret" /\ regs' = Kept(regs.callee) /\ UNCHANGED <<current, saved>>
    BY Clobbers DEF Enter
  <1>4. pc # "entry" /\ (pc \in Home => regs = l)
    OBVIOUS
  <1>5. Suits(l, stack[current], n, pc, regs)
    <2>1. CASE pc \in Home
      BY <2>1 DEF Suits, Home, Entering, Kernel
    <2>2. CASE pc \notin Home
      BY <2>2 DEF RegsInv
    <2> QED BY <2>1, <2>2
  <1> HIDE DEF l, f, n
  <1>6. ASSUME NEW s, s[n + 1] = f, n > 0 => s[n] = stack[current][n]
        PROVE  Holds(l, s, n + 1) /\ Suits(l, s, n + 1, pc', regs')
    <2>1. n \in Nat /\ (n + 1) - 1 = n
      BY <1>1
    <2>2. Suits(l, s, n, pc, regs)
      BY <1>5, <1>6, <2>1, SuitsSame
    <2>3. Holds(l, s, n + 1)
      BY <1>1, <1>4, <1>6, <2>1, <2>2 DEF Holds
    <2>4. Suits(l, s, n + 1, pc', regs')
      BY <1>3 DEF Suits, Kept, Entering
    <2> QED BY <2>3, <2>4
  <1> QED BY <1>1, <1>2, <1>3, <1>6, PushRegs DEF n

LEMMA IrqCallRegs ==
    ASSUME EntryInv, RegsInv, pc # "entry", NEW ret \in {"irqret", "never"}, Enter(<<IrqFrame, CallFrame(ret)>>, "yield")
    PROVE  RegsInv'
  <1> DEFINE l == IF pc \in Home THEN regs ELSE left[current]
             f == IrqFrame
             g == CallFrame(ret)
             n == sp.top
             s == stack[current]
             r == SubSeq(s, 1, n) \o <<f, g>>
  <1>1. /\ f \in Frame /\ f.kind = "irq" /\ f.pc = pc /\ f.regs = regs /\ EntryStack = [of |-> current, top |-> n]
        /\ g.kind = "call" /\ g.pc = ret
    <2>1. f.regs = regs
      BY DEF IrqFrame
    <2> QED BY <2>1, Running, IrqFrameFits DEF CallFrame
  <1>2. left' = [left EXCEPT ![current] = l] /\ l \in Registers /\ (l = left[current] \/ n = 0)
    BY LeftBy, Running DEF Enter
  <1>3. pc' = "yield" /\ regs' = Kept(regs.callee) /\ UNCHANGED <<current, saved>>
    BY Clobbers DEF Enter
  <1>4. pc # "entry" /\ (pc \in Home => regs = l)
    OBVIOUS
  <1>5. Suits(l, s, n, pc, regs)
    <2>1. CASE pc \in Home
      BY <2>1 DEF Suits, Home, Entering, Kernel
    <2>2. CASE pc \notin Home
      BY <2>2 DEF RegsInv
    <2> QED BY <2>1, <2>2
  <1>6. s \in Seq(Frame) /\ current \in Task /\ n \in 0 .. Len(s)
    BY Running
  <1>7. stack' = [stack EXCEPT ![current] = r] /\ sp'.top = n + 2
    <2>1. Len(<<f, g>>) = 2
      OBVIOUS
    <2> QED BY <2>1, <1>1, <1>6 DEF Enter, Push, Pushed, Deeper
  <1>8. Keeps(l, s, n)
    <2>1. CASE n = 0
      BY <2>1 DEF Keeps
    <2>2. CASE l = left[current]
      BY <2>2 DEF RegsInv
    <2> QED BY <1>2, <2>1, <2>2
  <1> HIDE DEF f, g, s, l
  <1> HIDE DEF n
  <1>9. r[n + 1] = f /\ r[n + 2] = g /\ \A i \in 1 .. n : r[i] = s[i]
    <2> DEFINE q == SubSeq(s, 1, n)
    <2>1. q \in Seq(Frame) /\ Len(q) = n /\ n \in Nat /\ \A i \in 1 .. n : q[i] = s[i]
      BY <1>6
    <2> HIDE DEF q
    <2>2. r = q \o <<f, g>>
      BY DEF q
    <2> HIDE DEF r
    <2> QED BY <2>1, <2>2
  <1> HIDE DEF r
  <1>10. n \in Nat /\ (n + 1) - 1 = n /\ (n > 0 => n \in 1 .. n) /\ (n + 1) + 1 = n + 2 /\ n + 1 \in Nat
    BY <1>6
  <1>11. Keeps(l, r, n) /\ Suits(l, r, n, pc, regs)
    BY <1>5, <1>8, <1>9, <1>10, KeepsSame, SuitsSame
  <1>12. Holds(l, r, n + 1)
    BY <1>1, <1>4, <1>9, <1>10, <1>11 DEF Holds
  <1>13. Keeps(l, r, n + 1)
    BY <1>10, <1>11, <1>12, KeepsMore
  <1>14. Holds(l, r, n + 2)
    BY <1>1, <1>9 DEF Holds
  <1>15. Keeps(l, r, n + 2)
    BY <1>10, <1>13, <1>14, KeepsMore
  <1>16. Suits(l, r, n + 2, pc', regs')
    BY <1>1, <1>3, <1>9 DEF Suits, Kept, Entering
  <1> QED BY <1>2, <1>3, <1>7, <1>15, <1>16, OwnRegs

(* A switch parks what yield kept and takes up what another task parked.    *)
LEMMA RegsSwitch ==
    ASSUME EntryInv, RegsInv, NEW next \in Task, Switch(next)
    PROVE  RegsInv'
  <1>1. /\ pc = "yield" /\ left' = left /\ sp.top \in Nat /\ sp.top > 0
        /\ left = [left EXCEPT ![current] = left[current]] /\ left[current] \in Registers
    BY LeftBy DEF Switch, EntryInv, Fits, EntryTypeOK, Pointer
  <1>2. regs.rsp = Junk /\ regs.caller = Junk /\ regs \in Registers
    BY <1>1, Running DEF RegsInv, Suits, Kernel, Pcs, Home
  <1>3. CASE next = current
    <2>1. pc' = "resumed" /\ UNCHANGED <<current, saved, stack, sp, regs>>
      BY <1>3 DEF Switch
    <2>2. Suits(left[current], stack[current], sp.top, pc', regs')
      BY <1>1, <1>2, <2>1 DEF RegsInv, Suits, Entering
    <2> QED BY <1>1, <2>1, <2>2, StayRegs
  <1>4. CASE next # current
    <2> DEFINE s == stack[current]
               n == sp.top
               f == CtxFrame("resumed", regs.callee)
               r == Over(s, n, f)
               o == stack[next]
               m == saved[next].top
               q == SubSeq(o, 1, m - 1)
    <2>1. /\ s \in Seq(Frame) /\ o \in Seq(Frame) /\ n \in 0 .. Len(s) /\ m \in 1 .. Len(o)
      BY <1>4, Running, Switched DEF EntryInv, EntryTypeOK
    <2>2. /\ current' = next /\ stack'[current] = r /\ stack'[next] = q
          /\ \A t \in Task \ {current, next} : stack'[t] = stack[t]
          /\ saved'[current].top = n + 1
          /\ \A t \in Task \ {current} : saved'[t] = saved[t]
          /\ sp'.top = m - 1 /\ pc' = o[m].pc
          /\ regs' = [regs EXCEPT !.callee = o[m].callee]
      BY <1>4, Switched DEF Parking, Unparked, Waiting
    <2>3. regs' = Kept(o[m].callee)
      BY <1>2, <2>2 DEF Registers, Kept
    <2>4. f \in Frame /\ f.kind = "ctx" /\ f.pc = "resumed" /\ f.callee = regs.callee
      BY <1>2 DEF CtxFrame, Frame, Pcs, Registers
    <2>5. Keeps(left[next], o, m) /\ o[m].kind = "ctx"
      BY <1>4 DEF RegsInv, EntryInv, Parked
    <2>6. Keeps(left[current], s, n) /\ Suits(left[current], s, n, "yield", regs)
      BY <1>1 DEF RegsInv
    <2> HIDE DEF f
    <2>7. r[n + 1] = f /\ \A i \in 1 .. n : r[i] = s[i]
      BY <2>1, <2>4, OverIs
    <2>8. \A i \in 1 .. m - 1 : q[i] = o[i]
      BY <2>1
    <2> HIDE DEF s, n, r, o, m, q
    <2>9. /\ n \in Nat /\ n > 0 /\ n \in 1 .. n /\ (n + 1) - 1 = n /\ n + 1 > n
          /\ m - 1 \in Nat /\ m \in 1 .. m /\ (m - 1 > 0 => m - 1 \in 1 .. m - 1)
      BY <1>1, <2>1 DEF n
    <2>10. Keeps(left[current], r, n + 1)
      <3>1. Keeps(left[current], r, n)
        BY <2>6, <2>7, <2>9, KeepsSame
      <3>2. Suits(left[current], r, n, "resumed", Kept(regs.callee))
        <4>1. r[n] = s[n]
          BY <2>7, <2>9
        <4>2. Suits(left[current], s, n, "resumed", Kept(regs.callee))
          BY <2>6 DEF Suits, Kept, Entering
        <4> QED BY <4>1, <4>2, <2>9, SuitsSame
      <3>3. Holds(left[current], r, n + 1)
        BY <3>2, <2>4, <2>7, <2>9 DEF Holds
      <3> QED BY <3>1, <3>3, <2>9, KeepsMore
    <2>11. Keeps(left[next], q, m - 1)
      <3>1. Keeps(left[next], o, m - 1)
        BY <2>1, <2>5 DEF Keeps
      <3> QED BY <3>1, <2>8, <2>9, KeepsSame
    <2>12. Suits(left[next], q, m - 1, pc', regs') /\ pc' # "entry"
      <3>1. Holds(left[next], o, m)
        BY <2>5, <2>9 DEF Keeps
      <3>2. Suits(left[next], o, m - 1, pc', regs') /\ pc' # "entry"
        BY <3>1, <2>2, <2>3, <2>5 DEF Holds
      <3>3. m - 1 > 0 => q[m - 1] = o[m - 1]
        BY <2>8, <2>9
      <3> QED BY <3>2, <3>3, <2>9, SuitsSame
    <2>13. \A t \in Task \ {next} : Keeps(left[t], stack'[t], saved'[t].top)
      <3>1. \A t \in Task \ {next, current} : Keeps(left[t], stack'[t], saved'[t].top)
        BY <2>2 DEF RegsInv
      <3>2. Keeps(left[current], stack'[current], saved'[current].top)
        BY <2>2, <2>10
      <3> QED BY <3>1, <3>2
    <2> QED BY <1>1, <2>2, <2>11, <2>12, <2>13 DEF RegsInv
  <1> QED BY <1>3, <1>4

(* What is on top of the stack where the running task is.                   *)
LEMMA TopHolds ==
    ASSUME EntryInv, RegsInv, sp.top > 0
    PROVE  /\ Top = stack[current][sp.top] /\ Top \in Frame
           /\ Holds(left[current], stack[current], sp.top)
  BY Running DEF RegsInv, Keeps

LEMMA RegsNext == EntryInv /\ RegsInv /\ [Next]_vars => RegsInv'
  <1> SUFFICES ASSUME EntryInv, RegsInv, [Next]_vars PROVE RegsInv'
    OBVIOUS
  <1> DEFINE s == stack[current]
             n == sp.top
             l == left[current]
  <1>0. /\ Fits(current, s, n, pc) /\ Suits(l, s, n, pc, regs)
        /\ l \in Registers /\ left = [left EXCEPT ![current] = l]
        /\ regs \in Registers /\ n \in 0 .. Len(s) /\ sp = [of |-> current, top |-> n]
        /\ Clobbered = Kept(regs.callee) /\ Clobbered \in Registers
    BY LeftBy, Running, Clobbers DEF EntryInv, RegsInv
  <1>1. CASE UNCHANGED vars
    BY <1>1 DEF vars, cpu, RegsInv
  <1>2. CASE Compute
    <2>1. /\ pc' \in Home /\ UNCHANGED <<current, saved, stack, sp, left>>
      BY <1>2 DEF Compute
    <2>2. Suits(l, s, n, pc', regs') /\ pc' # "entry"
      BY <2>1 DEF Suits, Home, Entering, Kernel
    <2> QED BY <2>1, <2>2, <1>0, StayRegs
  <1>3. CASE Syscall
    <2>1. /\ pc = "user" /\ pc' = "entry" /\ on' = FALSE /\ scratch' = regs.rsp /\ regs' = regs
          /\ UNCHANGED <<current, saved, stack, sp>> /\ left' = [left EXCEPT ![current] = regs]
      BY <1>3 DEF Syscall
    <2>2. n = 0
      BY <2>1, <1>0 DEF Fits
    <2>3. Suits(regs, s, n, pc', regs')
      BY <2>1 DEF Suits, Entering, Kernel
    <2> QED BY <2>1, <2>2, <2>3, <1>0, StayRegs
  <1>4. CASE SysSave
    <2> DEFINE f == SysFrame
    <2>1. f \in Frame /\ f.kind = "sys" /\ f.rsp = scratch /\ f.caller = regs.caller
      BY Running DEF SysFrame, Frame, Registers
    <2>2. /\ pc = "entry" /\ pc' = "sys" /\ regs' = Clobbered
          /\ UNCHANGED <<current, saved, left>>
          /\ Push([of |-> current, top |-> 0], <<f>>)
      BY <1>4, Running DEF SysSave
    <2>3. regs = l /\ scratch = l.rsp
      BY <2>2, <1>0 DEF Suits, Entering, RegsInv
    <2> HIDE DEF f
    <2>4. ASSUME NEW q, q[0 + 1] = f
          PROVE  Holds(l, q, 0 + 1) /\ Suits(l, q, 0 + 1, pc', regs')
      BY <2>1, <2>2, <2>3, <2>4, <1>0 DEF Holds, Suits, Kept, Entering
    <2>5. 0 \in 0 .. n
      BY <1>0
    <2> QED BY <2>1, <2>2, <2>4, <2>5, <1>0, PushRegs
  <1>5. CASE CallYield \/ LastYield
    <2> DEFINE k == IF CallYield /\ pc = "task" THEN Clobbered ELSE l
    <2>1. PICK ret \in {"sys", "task", "never"} :
             /\ ret = "never" \/ ret = pc
             /\ Push([of |-> current, top |-> n], <<CallFrame(ret)>>)
             /\ left' = [left EXCEPT ![current] = k] /\ k \in Registers
             /\ ret = "task" => k = Clobbered
             /\ k = l \/ pc = "task"
      <3>1. CASE CallYield
        BY <3>1, <1>0 DEF CallYield
      <3>2. CASE LastYield
        BY <3>2, <1>0 DEF LastYield
      <3> QED BY <3>1, <3>2, <1>5
    <2> HIDE DEF k
    <2> DEFINE f == CallFrame(ret)
    <2>2. f \in Frame /\ f.kind = "call" /\ f.pc = ret
      BY <2>1 DEF CallFrame, Frame, Pcs
    <2>3. pc' = "yield" /\ regs' = Kept(regs.callee) /\ UNCHANGED <<current, saved>>
      BY <1>5, <1>0 DEF CallYield, LastYield
    <2>4. k = l \/ n = 0
      BY <2>1, <1>0 DEF Fits
    <2>5. ret = "sys" => regs.callee = k.callee
      BY <2>1, <1>0 DEF Suits
    <2>6. ret = "task" => k = Kept(regs.callee)
      BY <2>1, <1>0
    <2> HIDE DEF f
    <2>7. ASSUME NEW q, q[n + 1] = f
          PROVE  Holds(k, q, n + 1) /\ Suits(k, q, n + 1, pc', regs')
      BY <2>1, <2>2, <2>3, <2>5, <2>6, <2>7 DEF Holds, Suits, Kept, Entering
    <2>8. n \in 0 .. n
      BY <1>0
    <2>9. Push([of |-> current, top |-> n], <<f>>)
      BY <2>1 DEF f
    <2> QED BY <2>1, <2>2, <2>3, <2>4, <2>7, <2>8, <2>9, PushRegs
  <1>6. CASE Die \/ SysDone \/ task_trampoline \/ user_task_trampoline
    <2>1. /\ \/ pc' = "exit"
             \/ pc = "sys" /\ pc' = "sysret"
             \/ pc = "ktramp" /\ pc' = "task"
             \/ pc \in Entering \ {"entry"} /\ pc' \in {"utramp2", "utramp3", "user"}
          /\ regs' = regs /\ UNCHANGED <<current, saved, stack, sp, left>>
      BY <1>6 DEF Die, SysDone, task_trampoline, user_task_trampoline, Entering
    <2>2. Suits(l, s, n, pc', regs') /\ pc' # "entry"
      <3>1. CASE pc' \in {"exit", "task", "user"}
        BY <3>1 DEF Suits, Entering, Kernel, Home
      <3>2. CASE pc = "sys" /\ pc' = "sysret"
        BY <3>2, <2>1, <1>0 DEF Suits, Entering, Kernel, Home, Pcs
      <3>3. CASE pc \in Entering \ {"entry"} /\ pc' \in {"utramp2", "utramp3"}
        BY <3>3, <2>1, <1>0 DEF Suits, Entering, Kernel, Home, Pcs
      <3> QED BY <3>1, <3>2, <3>3, <2>1
    <2> QED BY <2>1, <2>2, <1>0, StayRegs
  <1>7. CASE SysRet
    <2>1. /\ pc = "sysret" /\ pc' = "user" /\ Pop([of |-> current, top |-> 0])
          /\ UNCHANGED <<current, saved, left>>
      BY <1>7, Running DEF SysRet
    <2>2. n = 1 /\ n - 1 = 0
      BY <2>1, <1>0 DEF Fits
    <2>3. Suits(l, s, n - 1, pc', regs')
      BY <2>1 DEF Suits, Entering, Kernel, Home
    <2> QED BY <2>1, <2>2, <2>3, PopRegs
  <1>8. CASE DeviceIrq \/ TimerIrq
    <2>1. pc # "entry"
      BY <1>8 DEF DeviceIrq, TimerIrq, RegsInv
    <2> QED BY <2>1, <1>8, IrqRegs, IrqCallRegs DEF DeviceIrq, TimerIrq
  <1>9. CASE Fault
    BY <1>9, IrqCallRegs DEF Fault
  <1>10. CASE IrqRet
    <2>1. /\ pc = "irqret" /\ pc' = Top.pc /\ regs' = Top.regs /\ Pop(Top.sp)
          /\ UNCHANGED <<current, saved, left>>
      BY <1>10 DEF IrqRet
    <2>2. n > 0 /\ s[n].kind = "irq"
      BY <2>1, <1>0 DEF Fits
    <2>3. Top = s[n] /\ Holds(l, s, n) /\ Top.sp = [of |-> current, top |-> n - 1]
      BY <2>2, <1>0, TopHolds, Running DEF Sound
    <2>4. Suits(l, s, n - 1, pc', regs') /\ pc' # "entry"
      BY <2>1, <2>2, <2>3 DEF Holds
    <2> QED BY <2>1, <2>2, <2>3, <2>4, PopRegs
  <1>11. CASE \E next \in Task : Switch(next)
    BY <1>11, RegsSwitch
  <1>12. CASE Resume
    <2>1. /\ pc = "resumed" /\ pc' = Top.pc /\ regs' = regs /\ Pop(Deeper(sp, -1))
          /\ UNCHANGED <<current, saved, left>>
      BY <1>12 DEF Resume
    <2>2. n > 0 /\ s[n].kind = "call"
      BY <2>1, <1>0 DEF Fits
    <2>3. Top = s[n] /\ Holds(l, s, n) /\ Deeper(sp, -1) = [of |-> current, top |-> n - 1]
      BY <2>2, <1>0, TopHolds DEF Deeper
    <2>4. pc' = s[n].pc /\ pc' \in {"sys", "task", "never", "irqret"}
      BY <2>1, <2>2, <2>3 DEF Holds
    <2>5. regs.rsp = Junk /\ regs.caller = Junk /\ (pc' = "sys" => regs.callee = l.callee)
      BY <2>1, <2>2, <2>4, <1>0 DEF Suits, Kernel, Pcs, Home
    <2>6. Suits(l, s, n - 1, pc', regs') /\ pc' # "entry"
      BY <2>1, <2>4, <2>5 DEF Suits, Entering, Kernel, Home
    <2> QED BY <2>1, <2>2, <2>3, <2>6, PopRegs
  <1> QED BY <1>1, <1>2, <1>3, <1>4, <1>5, <1>6, <1>7, <1>8, <1>9, <1>10, <1>11, <1>12 DEF Next

(* So the task finds them.                                                 *)
LEMMA RegsBack ==
    ASSUME EntryInv, RegsInv, [Next]_vars, pc \notin Home, pc' \in Home
    PROVE  regs' = left[current']
  <1> DEFINE s == stack[current]
             n == sp.top
             l == left[current]
  <1>0. Fits(current, s, n, pc) /\ Suits(l, s, n, pc, regs) /\ l \in Registers /\ regs \in Registers
    BY LeftBy, Running DEF EntryInv, RegsInv
  <1>1. CASE UNCHANGED vars
    BY <1>1 DEF vars, cpu
  <1>2. CASE Compute \/ Syscall \/ DeviceIrq \/ TimerIrq \/ Fault
    BY <1>2 DEF Compute, Syscall, DeviceIrq, TimerIrq, Fault, Enter, Home
  <1>3. CASE SysSave \/ CallYield \/ Die \/ LastYield \/ SysDone
    BY <1>3 DEF SysSave, CallYield, Die, LastYield, SysDone, Home
  <1>4. CASE SysRet
    <2>1. /\ pc = "sysret" /\ current' = current
          /\ regs' = [rsp |-> Top.rsp, caller |-> Top.caller, callee |-> regs.callee]
      BY <1>4 DEF SysRet, SysRestored
    <2>2. n > 0 /\ s[n].kind = "sys"
      BY <2>1, <1>0 DEF Fits
    <2>3. Top.rsp = l.rsp /\ Top.caller = l.caller /\ regs.callee = l.callee
      BY <2>1, <2>2, <1>0, TopHolds DEF Holds, Suits
    <2>4. l = [rsp |-> l.rsp, caller |-> l.caller, callee |-> l.callee]
      BY <1>0 DEF Registers
    <2> QED BY <2>1, <2>3, <2>4
  <1>5. CASE IrqRet
    <2>1. pc = "irqret" /\ current' = current /\ regs' = Top.regs /\ pc' = Top.pc
      BY <1>5 DEF IrqRet
    <2>2. n > 0 /\ s[n].kind = "irq"
      BY <2>1, <1>0 DEF Fits
    <2> QED BY <2>1, <2>2, TopHolds DEF Holds
  <1>6. CASE \E next \in Task : Switch(next)
    <2>1. PICK next \in Task : Switch(next)
      BY <1>6
    <2>2. CASE next = current
      BY <2>1, <2>2 DEF Switch, Home
    <2>3. CASE next # current
      <3> DEFINE o == stack[next]
                 m == saved[next].top
      <3>1. pc' = o[m].pc /\ m \in 1 .. m
        BY <2>1, <2>3, Switched DEF Waiting
      <3>2. o[m].kind = "ctx" /\ Keeps(left[next], o, m)
        BY <2>3 DEF EntryInv, Parked, RegsInv
      <3>3. Holds(left[next], o, m)
        BY <3>1, <3>2 DEF Keeps
      <3> QED BY <3>1, <3>2, <3>3 DEF Holds, Home
    <2> QED BY <2>2, <2>3
  <1>7. CASE Resume
    <2>1. pc = "resumed" /\ current' = current /\ regs' = regs /\ pc' = Top.pc
      BY <1>7 DEF Resume
    <2>2. n > 0 /\ s[n].kind = "call"
      BY <2>1, <1>0 DEF Fits
    <2>3. s[n].pc = "task" /\ l.rsp = Junk /\ l.caller = Junk
      BY <2>1, <2>2, TopHolds DEF Holds, Home
    <2>4. regs.rsp = Junk /\ regs.caller = Junk /\ regs.callee = l.callee
      BY <2>1, <2>2, <2>3, <1>0 DEF Suits, Kernel, Pcs, Home
    <2>5. \A r \in Registers : r = [rsp |-> r.rsp, caller |-> r.caller, callee |-> r.callee]
      BY DEF Registers
    <2> QED BY <2>1, <2>3, <2>4, <2>5, <1>0
  <1>8. CASE task_trampoline \/ user_task_trampoline
    BY <1>8, <1>0 DEF task_trampoline, user_task_trampoline, Suits, Entering
  <1> QED BY <1>1, <1>2, <1>3, <1>4, <1>5, <1>6, <1>7, <1>8 DEF Next

THEOREM RegsAlways == Spec => []RegsInv
  BY RegsInit, RegsNext, EntryAlways, PTL DEF Spec

(* Whenever a task is back in its own code, by sysret, iretq, the return of *)
(* scheduler_yield or a trampoline, it finds the registers with which it    *)
(* left, whoever ran meanwhile (isr_stubs.S, syscall_entry.S,               *)
(* context_switch.S).                                                      *)
THEOREM RegistersRestored == Spec => Restored
  <1>1. EntryInv /\ RegsInv /\ [Next]_vars
          => [pc \notin Home /\ pc' \in Home => regs' = left[current']]_vars
    BY RegsBack
  <1> QED BY <1>1, EntryAlways, RegsAlways, PTL DEF Spec, Restored
=============================================================================
