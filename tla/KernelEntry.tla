----------------------------- MODULE KernelEntry ----------------------------
(***************************************************************************)
(* How the processor enters and leaves the kernel and changes task:         *)
(* isr_stubs.S, syscall_entry.S, context_switch.S, the trampolines and the  *)
(* initial stacks of task.c, irq_handler and scheduler_yield.  What the     *)
(* other modules take for granted, that a task goes on where it was, is     *)
(* here the work of frames pushed on kernel stacks.                         *)
(***************************************************************************)
EXTENDS Integers, Sequences

CONSTANTS Task, User,     \* all tasks, and those with is_user set
          Idle, Boot,     \* idle_task and the task of kmain
          SLICE,          \* SCHED_TICK_SLICE
          Values,         \* of registers, beside those that tell whose they are
          Junk            \* what the kernel leaves in a register, and its page table

ASSUME TaskAssumption == User \subseteq Task /\ {Idle, Boot} \subseteq Task \ User
ASSUME SliceAssumption == SLICE \in Nat /\ SLICE >= 2
ASSUME JunkAssumption == Junk \notin Task

VARIABLES current, state, ticks,   \* current_task, its slice, all states
          pc, on,                  \* where the processor is, and its IF flag
          regs,                    \* rsp; caller-saved (and rip, rflags); callee-saved
          sp,                      \* the kernel stack pointer: whose stack, how deep
          stack, saved,            \* the kernel stacks, and task->rsp
          rsp0, cr3,               \* tss.rsp0 and the page table, by owner
          scratch,                 \* user_rsp_scratch
          left                     \* history: the registers as a task last left its own code

cpu == <<pc, on, regs, sp>>
vars == <<current, state, ticks, cpu, stack, saved, rsp0, cr3, scratch, left>>

Home == {"user", "task"}           \* a task's own code, in ring 3 and in ring 0
Base(t) == [of |-> t, top |-> 0]   \* task->kernel_rsp, the top of the stack page

Fresh == [rsp |-> Junk, caller |-> Junk, callee |-> 0]
Clobbered == [regs EXCEPT !.rsp = Junk, !.caller = Junk]

(* Frames: of an interrupt, a system call, a call of scheduler_yield and    *)
(* context_switch.                                                         *)
IrqFrame == [kind |-> "irq", pc |-> pc, on |-> on, sp |-> sp, regs |-> regs]
SysFrame == [kind |-> "sys", rsp |-> scratch, caller |-> regs.caller]
CallFrame(ret) == [kind |-> "call", pc |-> ret]

CtxFrame(ret, callee) == [kind |-> "ctx", pc |-> ret, callee |-> callee]

(* task_create and task_create_user: six zeros below a trampoline.          *)
Trampoline(t) == IF t \in User THEN "utramp" ELSE "ktramp"
FirstStack(t) == IF t = Boot THEN <<>> ELSE <<CtxFrame(Trampoline(t), 0)>>

Init ==
    /\ current = Boot
    /\ state = [t \in Task |-> IF t = Boot THEN "RUNNING" ELSE "READY"]
    /\ ticks = SLICE
    /\ pc = "task" /\ on = TRUE /\ regs = Fresh /\ sp = Base(Boot)
    /\ stack = [t \in Task |-> FirstStack(t)]
    /\ saved = [t \in Task |-> [of |-> t, top |-> Len(FirstStack(t))]]
    /\ rsp0 = Junk /\ cr3 = Junk
    /\ scratch = 0
    /\ left = [t \in Task |-> Fresh]

(* Pushing overwrites what lies below the stack pointer.                    *)
Pushed(at, frames) == [stack EXCEPT ![at.of] = SubSeq(@, 1, at.top) \o frames]
Deeper(at, n) == [at EXCEPT !.top = @ + n]
Push(at, frames) == stack' = Pushed(at, frames) /\ sp' = Deeper(at, Len(frames))
Top == stack[sp.of][sp.top]
Pop(newsp) == stack' = [stack EXCEPT ![sp.of] = SubSeq(@, 1, sp.top - 1)] /\ sp' = newsp
-----------------------------------------------------------------------------
(* A task's own code, in which every register changes.                      *)
Compute ==
    /\ pc \in Home /\ current # Idle
    /\ \E v \in Values \cup {current} :
         regs' = [rsp |-> IF pc = "user" THEN v ELSE Junk, caller |-> v, callee |-> v]
    /\ UNCHANGED <<current, state, ticks, pc, on, sp, stack, saved, rsp0, cr3, scratch, left>>

(* syscall: IF is cleared by FMASK before rsp goes to the one scratch cell. *)
Syscall ==
    /\ pc = "user"
    /\ pc' = "entry" /\ on' = FALSE
    /\ scratch' = regs.rsp
    /\ left' = [left EXCEPT ![current] = regs]
    /\ UNCHANGED <<current, state, ticks, regs, sp, stack, saved, rsp0, cr3>>

SysSave ==
    /\ pc = "entry"
    /\ Push(Base(current), <<SysFrame>>)
    /\ pc' = "sys" /\ on' = TRUE /\ regs' = Clobbered
    /\ UNCHANGED <<current, state, ticks, saved, rsp0, cr3, scratch, left>>

(* A call of scheduler_yield, from SYS_yield, task_wait or a kernel task.   *)
CallYield ==
    /\ pc \in {"sys", "task"}
    /\ Push(sp, <<CallFrame(pc)>>)
    /\ pc' = "yield" /\ regs' = Clobbered
    /\ left' = IF pc = "task" THEN [left EXCEPT ![current] = Clobbered] ELSE left
    /\ UNCHANGED <<current, state, ticks, on, saved, rsp0, cr3, scratch>>

(* SYS_exit, and the return of a kernel task's entry function: the task is  *)
(* a zombie while it still runs, with interrupts on.                        *)
Die ==
    /\ pc = "sys" \/ (pc = "task" /\ current \notin {Idle, Boot})
    /\ state' = [state EXCEPT ![current] = "ZOMBIE"]
    /\ pc' = "exit"
    /\ UNCHANGED <<current, ticks, on, regs, sp, stack, saved, rsp0, cr3, scratch, left>>

LastYield ==
    /\ pc = "exit"
    /\ Push(sp, <<CallFrame("never")>>)
    /\ pc' = "yield" /\ regs' = Clobbered
    /\ UNCHANGED <<current, state, ticks, on, saved, rsp0, cr3, scratch, left>>

SysDone ==
    /\ pc = "sys"
    /\ pc' = "sysret" /\ on' = FALSE
    /\ UNCHANGED <<current, state, ticks, regs, sp, stack, saved, rsp0, cr3, scratch, left>>

(* A slip: the user's rsp is taken from the scratch cell again.             *)
SysRestored_Scratch == [Top EXCEPT !.rsp = scratch]

SysRestored == Top

SysRet ==
    /\ pc = "sysret"
    /\ regs' = [rsp |-> SysRestored.rsp, caller |-> SysRestored.caller, callee |-> regs.callee]
    /\ Pop(Base(current))
    /\ pc' = "user" /\ on' = TRUE
    /\ UNCHANGED <<current, state, ticks, saved, rsp0, cr3, scratch, left>>
-----------------------------------------------------------------------------
(* An interrupt: the processor changes to the stack of rsp0 in ring 3 only. *)
EntryStack == IF pc = "user" THEN Base(rsp0) ELSE sp

Enter(frames, next) ==
    /\ Push(EntryStack, frames)
    /\ pc' = next /\ on' = FALSE /\ regs' = Clobbered
    /\ left' = IF pc \in Home THEN [left EXCEPT ![current] = regs] ELSE left
    /\ UNCHANGED <<current, saved, rsp0, cr3, scratch>>

DeviceIrq ==
    /\ on
    /\ Enter(<<IrqFrame>>, "irqret")
    /\ UNCHANGED <<state, ticks>>

(* The few instructions of a handler after the switch back to its task, and *)
(* before its iretq, see at most one tick: a whole period is far longer.    *)
ShortWindow == pc = "irqret" => ticks = SLICE

(* irq_handler charges a task that is RUNNING, and preempts it at 0.        *)
Charged == IF state[current] = "RUNNING" /\ ticks > 0 THEN ticks - 1 ELSE ticks
Expired == state[current] = "RUNNING" /\ Charged = 0

TimerIrq ==
    /\ on /\ ShortWindow
    /\ ticks' = Charged
    /\ IF Expired THEN Enter(<<IrqFrame, CallFrame("irqret")>>, "yield")
                  ELSE Enter(<<IrqFrame>>, "irqret")
    /\ UNCHANGED state

IrqRet ==
    /\ pc = "irqret"
    /\ pc' = Top.pc /\ on' = Top.on /\ regs' = Top.regs
    /\ Pop(Top.sp)
    /\ UNCHANGED <<current, state, ticks, saved, rsp0, cr3, scratch, left>>

(* isr_handler: a fault in ring 3 kills the task.                           *)
Fault ==
    /\ pc = "user"
    /\ state' = [state EXCEPT ![current] = "ZOMBIE"]
    /\ Enter(<<IrqFrame, CallFrame("never")>>, "yield")
    /\ UNCHANGED ticks
-----------------------------------------------------------------------------
(* Which of the runnable tasks is next is RunQueue's matter.                *)
Runnable == {t \in Task : state[t] # "ZOMBIE"} \cup {Idle}

Space(t) == IF t \in User THEN t ELSE Junk

(* A slip: the trampoline alone sets tss.rsp0.                              *)
NextRsp0_Unset(next) == rsp0

NextRsp0(next) == IF next \in User THEN next ELSE rsp0

NextTicks(next) == SLICE

(* context_switch: six registers and rsp go to the old task, come from the  *)
(* new one.                                                                 *)
ContextSwitch(next) ==
    LET ctx == stack[saved[next].of][saved[next].top] IN
    /\ stack' = [Pushed(sp, <<CtxFrame("resumed", regs.callee)>>)
                   EXCEPT ![saved[next].of] = SubSeq(@, 1, saved[next].top - 1)]
    /\ saved' = [saved EXCEPT ![current] = Deeper(sp, 1)]
    /\ sp' = Deeper(saved[next], -1)
    /\ regs' = [regs EXCEPT !.callee = ctx.callee]
    /\ pc' = ctx.pc

(* scheduler_yield, from its cli on.                                        *)
Switch(next) ==
    /\ pc = "yield" /\ next \in Runnable
    /\ on' = FALSE
    /\ state' = [[state EXCEPT ![current] = IF @ = "RUNNING" THEN "READY" ELSE @]
                   EXCEPT ![next] = "RUNNING"]
    /\ current' = next
    /\ ticks' = NextTicks(next)
    /\ IF next = current
         THEN pc' = "resumed" /\ UNCHANGED <<stack, saved, sp, regs, cr3, rsp0>>
         ELSE ContextSwitch(next) /\ cr3' = Space(next) /\ rsp0' = NextRsp0(next)
    /\ UNCHANGED <<scratch, left>>

(* The sti at the end of scheduler_yield, and its return.                   *)
Resume ==
    /\ pc = "resumed"
    /\ on' = TRUE /\ pc' = Top.pc
    /\ Pop(Deeper(sp, -1))
    /\ UNCHANGED <<current, state, ticks, regs, saved, rsp0, cr3, scratch, left>>

(* The trampolines.                                                         *)
task_trampoline ==
    /\ pc = "ktramp"
    /\ pc' = "task" /\ on' = TRUE
    /\ UNCHANGED <<current, state, ticks, regs, sp, stack, saved, rsp0, cr3, scratch, left>>

user_task_trampoline ==
    /\ \/ pc = "utramp" /\ pc' = "utramp2" /\ on' = TRUE /\ UNCHANGED rsp0
       \/ pc = "utramp2" /\ pc' = "utramp3" /\ rsp0' = current /\ UNCHANGED on
       \/ pc = "utramp3" /\ pc' = "user" /\ on' = TRUE /\ UNCHANGED rsp0
    /\ UNCHANGED <<current, state, ticks, regs, sp, stack, saved, cr3, scratch, left>>

Next ==
    \/ Compute \/ Syscall \/ SysSave \/ CallYield \/ Die \/ LastYield \/ SysDone \/ SysRet
    \/ DeviceIrq \/ TimerIrq \/ IrqRet \/ Fault
    \/ \E next \in Task : Switch(next)
    \/ Resume \/ task_trampoline \/ user_task_trampoline

Spec == Init /\ [][Next]_vars
-----------------------------------------------------------------------------
(* Properties.                                                              *)

(* Restored: whenever a task is back in its own code, by sysret, iretq or   *)
(* the return of scheduler_yield, whatever happened meanwhile to the other  *)
(* tasks and to the scratch cell, it finds the registers with which it left.*)
Restored == [][pc \notin Home /\ pc' \in Home => regs' = left[current']]_vars

(* OwnStack: kernel code runs on the stack of current_task and nowhere else,*)
(* and a user program runs with its own page table, its kernel stack empty  *)
(* and tss.rsp0 at that stack, so that the next interrupt lands there.      *)
OwnStack ==
    /\ sp.of = current
    /\ pc = "user" => rsp0 = current /\ cr3 = current /\ sp.top = 0
-----------------------------------------------------------------------------
(* Why kernel code always finds its own frames: the inductive invariant     *)
(* behind OwnStack.                                                         *)

Pcs == {"user", "task", "entry", "sys", "sysret", "yield", "exit", "resumed", "irqret",
        "ktramp", "utramp", "utramp2", "utramp3", "never"}
Contents == Values \cup Task \cup {Junk, 0}
Pointer == [of : Task, top : Nat]
Registers == [rsp : Contents, caller : Contents, callee : Contents]
Frame ==
         [kind : {"irq"}, pc : Pcs, on : BOOLEAN, sp : Pointer, regs : Registers]
    \cup [kind : {"sys"}, rsp : Contents, caller : Contents]
    \cup [kind : {"call"}, pc : Pcs]
    \cup [kind : {"ctx"}, pc : Pcs, callee : Contents]

EntryTypeOK ==
    /\ current \in Task
    /\ pc \in Pcs /\ on \in BOOLEAN /\ regs \in Registers /\ sp \in Pointer
    /\ stack \in [Task -> Seq(Frame)] /\ saved \in [Task -> Pointer]
    /\ scratch \in Contents

(* Where task t may be at pc p, its stack s filled up to d: code that ends  *)
(* by popping has the right frame on top, code of ring 3 or on its way      *)
(* there belongs to a user task, whose stack is still empty.                *)
Fits(t, s, d, p) ==
    /\ p = "irqret" => d > 0 /\ s[d].kind = "irq"
    /\ p \in {"yield", "resumed"} => d > 0 /\ s[d].kind = "call"
    /\ p \in {"sys", "sysret"} => d = 1 /\ s[d].kind = "sys" /\ t \in User
    /\ p \in {"task", "ktramp"} => d = 0
    /\ p = "entry" => t \in User
    /\ p \in {"user", "utramp", "utramp2", "utramp3"} => t \in User /\ d = 0

(* What a frame goes back to fits what lies under it.                       *)
Sound(t, s) ==
    \A i \in 1 .. Len(s) :
        /\ s[i].kind # "sys" => Fits(t, s, i - 1, s[i].pc)
        /\ s[i].kind = "irq" => s[i].sp = [of |-> t, top |-> i - 1]

(* A task that is not running left a frame of context_switch.               *)
Parked(t) ==
    /\ saved[t].of = t /\ saved[t].top \in 1 .. Len(stack[t])
    /\ stack[t][saved[t].top].kind = "ctx"

(* EntryInv: the processor is on the stack of the running task, at a place  *)
(* that fits what lies on it; so will every task be that is switched to;    *)
(* and a user task runs with its own page table and tss.rsp0.               *)
EntryInv ==
    /\ EntryTypeOK
    /\ sp.of = current /\ sp.top <= Len(stack[current])
    /\ Fits(current, stack[current], sp.top, pc)
    /\ \A t \in Task : Sound(t, stack[t])
    /\ \A t \in Task \ {current} : Parked(t)
    /\ current \in User => rsp0 = current /\ cr3 = current
=============================================================================
