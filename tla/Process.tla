------------------------------ MODULE Process ------------------------------
(***************************************************************************)
(* The life of tasks: task.c, scheduler.c, the timer interrupt's charge and *)
(* the kill of a faulting program, under the clients the repository has.    *)
(* Kernel code runs with interrupts on unless it turns them off, so a tick  *)
(* may come between any two actions of a task and give the CPU to another.  *)
(***************************************************************************)
EXTENDS RunQueue, FiniteSets

CONSTANTS Boot,        \* the task_t of kmain
          SLICE,       \* SCHED_TICK_SLICE
          MaxPid,      \* bound on the tasks ever created
          Codes,       \* what tasks exit with
          Builds       \* the clients of task.c: records of
                       \*   starts   who adds which kind of task, pairs of kinds
                       \*   adopts   who also becomes its parent
                       \*   exits    the ways to die: "exit", "fault", "return"

ASSUME BootAssumption == Boot \in Slots \ {Idle}
ASSUME SliceAssumption == SLICE \in Nat \ {0}
ASSUME PidAssumption == MaxPid \in Nat \ {0} /\ 0 \in Codes

(* kmain and idle_task are not made by task_create, and idle_task makes none. *)
ASSUME BuildAssumption ==
    \A b \in Builds : \A p \in b.starts \cup b.adopts :
        {p[1], p[2]} \cap {"none", "idle"} = {} /\ p[2] # "boot"

VARIABLES next, state, current_task,
          ticks_remaining,                   \* of current_task
          parent, first_child, next_sibling,
          kind,                              \* what a block holds, and which program it runs
          pid, exit_code, next_pid,
          pc,                                \* where in the functions below a task is
          work,                              \* its child, task or zombie
          prev, got,                         \* of remove_from_scheduler; code and pid of task_wait
          build,                             \* which client this kernel has
          queued,                            \* history: what is on the run queue
          fate                               \* history: the status each pid dies with

sched == <<next, state, current_task, ticks_remaining>>
family == <<parent, first_child, next_sibling>>
ident == <<kind, pid, exit_code, next_pid>>
locals == <<pc, work, prev, got>>
history == <<build, queued, fate>>
vars == <<sched, family, ident, locals, history>>

States == {"FREE", "READY", "RUNNING", "BLOCKED", "ZOMBIE"}
Kinds == {"none", "boot", "idle", "shell", "kernel", "job", "user"}
Pcs == {"run", "adopt", "add", "wait", "scan", "block", "sleep", "woken",
        "unchild", "find", "unlink", "free",
        "orphan", "die", "wake", "leave", "dead"}
Ptr == Slots \cup {NULL}
NoStatus == [pid |-> 0, code |-> 0]

Starts == build.starts
Adopts == build.adopts

(* The kinds that adopt tasks, and those that start any.                    *)
Parents == {p[1] : p \in Adopts}
Clients == {p[1] : p \in Starts} \cup Parents

Init ==
    /\ build \in Builds
    /\ next = [t \in Slots |-> CASE t = Boot -> Idle [] t = Idle -> Boot [] OTHER -> NULL]
    /\ state = [t \in Slots |-> CASE t = Boot -> "RUNNING" [] t = Idle -> "READY" [] OTHER -> "FREE"]
    /\ current_task = Boot /\ ticks_remaining = SLICE
    /\ parent = [t \in Slots |-> NULL]
    /\ first_child = [t \in Slots |-> NULL]
    /\ next_sibling = [t \in Slots |-> NULL]
    /\ kind = [t \in Slots |-> CASE t = Boot -> "boot" [] t = Idle -> "idle" [] OTHER -> "none"]
    /\ pid = [t \in Slots |-> IF t = Idle THEN 1 ELSE 0]
    /\ exit_code = [t \in Slots |-> 0] /\ next_pid = 2
    /\ pc = [t \in Slots |-> "run"] /\ work = [t \in Slots |-> NULL]
    /\ prev = [t \in Slots |-> NULL] /\ got = [t \in Slots |-> NoStatus]
    /\ queued = {Boot, Idle} /\ fate = [p \in 0 .. MaxPid |-> 0]

(* The running task t is at p.                                              *)
At(t, p) == current_task = t /\ pc[t] = p
Goto(t, p) == pc' = [pc EXCEPT ![t] = p]
-----------------------------------------------------------------------------
(* scheduler_yield, which runs with interrupts off.                         *)
Reschedule ==
    LET to == PickNext(next, state, current_task) IN
    /\ state' = [[state EXCEPT ![current_task] = IF @ = "RUNNING" THEN "READY" ELSE @]
                   EXCEPT ![to] = "RUNNING"]
    /\ current_task' = to
    /\ ticks_remaining' = SLICE
    /\ UNCHANGED next

(* A slip: a task that is blocking or dying is charged too.                 *)
Charged_Always == TRUE

(* irq_handler charges a task that is RUNNING.                              *)
Charged == state[current_task] = "RUNNING"

(* A slip: the slice is tested before it is charged.                        *)
Tick_Late ==
    /\ Charged
    /\ IF ticks_remaining > 0 THEN ticks_remaining' = ticks_remaining - 1 /\ UNCHANGED <<next, state, current_task>>
                              ELSE Reschedule
    /\ UNCHANGED <<family, ident, locals, history>>

Tick ==
    /\ Charged
    /\ IF ticks_remaining > 1 THEN ticks_remaining' = ticks_remaining - 1 /\ UNCHANGED <<next, state, current_task>>
                              ELSE Reschedule
    /\ UNCHANGED <<family, ident, locals, history>>

(* task_yield, SYS_yield, the loops of kmain, the shell and idle_entry.     *)
Yield(t) ==
    /\ At(t, "run")
    /\ Reschedule
    /\ UNCHANGED <<family, ident, locals, history>>
-----------------------------------------------------------------------------
(* task_create, task_create_user, task_create_elf: a block for task_t c,    *)
(* its fields, and a pid.                                                   *)
Create(t, c, k) ==
    /\ At(t, "run") /\ state[c] = "FREE" /\ next_pid <= MaxPid
    /\ <<kind[t], k>> \in Starts \cup Adopts
    /\ k = "shell" => \A s \in Slots : kind[s] # "shell"
    /\ state' = [state EXCEPT ![c] = "READY"]
    /\ kind' = [kind EXCEPT ![c] = k]
    /\ pid' = [pid EXCEPT ![c] = next_pid] /\ next_pid' = next_pid + 1
    /\ exit_code' = [exit_code EXCEPT ![c] = 0]
    /\ next' = [next EXCEPT ![c] = NULL]
    /\ parent' = [parent EXCEPT ![c] = NULL]
    /\ first_child' = [first_child EXCEPT ![c] = NULL]
    /\ next_sibling' = [next_sibling EXCEPT ![c] = NULL]
    /\ work' = [work EXCEPT ![t] = c]
    /\ pc' = [pc EXCEPT ![t] = IF <<kind[t], k>> \in Adopts THEN "adopt" ELSE "add", ![c] = "run"]
    /\ UNCHANGED <<current_task, ticks_remaining, prev, got, history>>

(* task_set_parent(work, task_current()).                                   *)
SetParent(t) ==
    /\ At(t, "adopt")
    /\ parent' = [parent EXCEPT ![work[t]] = t]
    /\ next_sibling' = [next_sibling EXCEPT ![work[t]] = first_child[t]]
    /\ first_child' = [first_child EXCEPT ![t] = work[t]]
    /\ Goto(t, "add")
    /\ UNCHANGED <<sched, ident, work, prev, got, history>>

(* scheduler_add, under cli.  cmd_run goes on to task_wait.                 *)
Add(t) ==
    /\ At(t, "add")
    /\ next' = InsertAfter(next, t, work[t])
    /\ queued' = queued \cup {work[t]}
    /\ Goto(t, IF kind[t] = "shell" THEN "wait" ELSE "run")
    /\ UNCHANGED <<state, current_task, ticks_remaining, family, ident, work, prev, got, build, fate>>

Spawn(t) ==
    \/ \E c \in Slots, k \in Kinds : Create(t, c, k)
    \/ SetParent(t) \/ Add(t)
-----------------------------------------------------------------------------
(* task_wait, called by a parent, or by any program as SYS_wait.            *)
CallWait(t) ==
    /\ At(t, "run") /\ kind[t] \in (Parents \cup {"user"}) \ {"shell"}
    /\ Goto(t, "wait")
    /\ UNCHANGED <<sched, family, ident, work, prev, got, history>>

WaitNoChild(t) ==
    /\ At(t, "wait") /\ first_child[t] = NULL
    /\ Goto(t, "run")
    /\ UNCHANGED <<sched, family, ident, work, prev, got, history>>

WaitBegin(t) ==
    /\ At(t, "wait") /\ first_child[t] # NULL
    /\ work' = [work EXCEPT ![t] = first_child[t]]
    /\ Goto(t, "scan")
    /\ UNCHANGED <<sched, family, ident, prev, got, history>>

ScanNext(t) ==
    /\ At(t, "scan") /\ work[t] # NULL
    /\ state[work[t]] # "ZOMBIE"
    /\ work' = [work EXCEPT ![t] = next_sibling[work[t]]]
    /\ UNCHANGED <<sched, family, ident, pc, prev, got, history>>

(* A slip: the first child is reaped whether it is dead or not.             *)
ScanHit_AnyChild(t) ==
    /\ At(t, "scan") /\ work[t] # NULL
    /\ got' = [got EXCEPT ![t] = [pid |-> pid[work[t]], code |-> exit_code[work[t]]]]
    /\ Goto(t, "unchild")
    /\ UNCHANGED <<sched, family, ident, work, prev, history>>

ScanHit(t) ==
    /\ At(t, "scan") /\ work[t] # NULL
    /\ state[work[t]] = "ZOMBIE"
    /\ got' = [got EXCEPT ![t] = [pid |-> pid[work[t]], code |-> exit_code[work[t]]]]
    /\ Goto(t, "unchild")
    /\ UNCHANGED <<sched, family, ident, work, prev, history>>

ScanEnd(t) ==
    /\ At(t, "scan") /\ work[t] = NULL
    /\ Goto(t, "block")
    /\ UNCHANGED <<sched, family, ident, work, prev, got, history>>

Block(t) ==
    /\ At(t, "block")
    /\ state' = [state EXCEPT ![t] = "BLOCKED"]
    /\ Goto(t, "sleep")
    /\ UNCHANGED <<next, current_task, ticks_remaining, family, ident, work, prev, got, history>>

Sleep(t) ==
    /\ At(t, "sleep")
    /\ Reschedule
    /\ Goto(t, "woken")
    /\ UNCHANGED <<family, ident, work, prev, got, history>>

Retry(t) ==
    /\ At(t, "woken")
    /\ work' = [work EXCEPT ![t] = first_child[t]]
    /\ Goto(t, "scan")
    /\ UNCHANGED <<sched, family, ident, prev, got, history>>

(* task_reap: the zombie leaves its parent's list,                          *)
Children(t) == Walk(next_sibling, first_child[t], Slots)

(* A slip: only the head of the list is ever taken off it.                  *)
Unchild_Forgotten(t) ==
    /\ At(t, "unchild")
    /\ IF first_child[t] = work[t]
         THEN first_child' = [first_child EXCEPT ![t] = next_sibling[work[t]]]
         ELSE UNCHANGED first_child
    /\ next_sibling' = [next_sibling EXCEPT ![work[t]] = NULL]
    /\ Goto(t, "find")
    /\ UNCHANGED <<sched, parent, ident, work, prev, got, history>>

Unchild(t) ==
    LET z == work[t]
        before == {c \in Children(t) : next_sibling[c] = z} IN
    /\ At(t, "unchild")
    /\ IF first_child[t] = z
         THEN /\ first_child' = [first_child EXCEPT ![t] = next_sibling[z]]
              /\ next_sibling' = [next_sibling EXCEPT ![z] = NULL]
         ELSE /\ next_sibling' = [c \in Slots |-> CASE c = z -> NULL
                                                   [] c \in before \ {z} -> next_sibling[z]
                                                   [] OTHER -> next_sibling[c]]
              /\ UNCHANGED first_child
    /\ Goto(t, "find")
    /\ UNCHANGED <<sched, parent, ident, work, prev, got, history>>

(* remove_from_scheduler finds its predecessor,                             *)
FindPrevious(t) ==
    /\ At(t, "find")
    /\ \E p \in Stops(next, t, work[t]) :
         /\ prev' = [prev EXCEPT ![t] = p]
         /\ Goto(t, IF next[p] = work[t] THEN "unlink" ELSE "free")
    /\ UNCHANGED <<sched, family, ident, work, got, history>>

(* and stores its next pointer, with interrupts on,                         *)
Unlink(t) ==
    /\ At(t, "unlink")
    /\ next' = Unlinked(next, prev[t], work[t])
    /\ queued' = queued \ {work[t]}
    /\ Goto(t, "free")
    /\ UNCHANGED <<state, current_task, ticks_remaining, family, ident, work, prev, got, build, fate>>

(* and its block goes back to the heap.                                     *)
Free(t) ==
    /\ At(t, "free")
    /\ state' = [state EXCEPT ![work[t]] = "FREE"]
    /\ kind' = [kind EXCEPT ![work[t]] = "none"]
    /\ Goto(t, "run")
    /\ UNCHANGED <<next, current_task, ticks_remaining, family, pid, exit_code, next_pid, work, prev, got, history>>

Reap(t) == Unchild(t) \/ FindPrevious(t) \/ Unlink(t) \/ Free(t)

Wait(t) ==
    \/ CallWait(t) \/ WaitNoChild(t) \/ WaitBegin(t)
    \/ ScanNext(t) \/ ScanHit(t) \/ ScanEnd(t) \/ Block(t) \/ Sleep(t) \/ Retry(t)
-----------------------------------------------------------------------------
(* How a task may die: a program by SYS_exit or a fault, a kernel task by   *)
(* task_exit or by returning from its entry function.                       *)
Deaths(t) ==
    build.exits \cap CASE kind[t] = "user" -> {"exit", "fault"}
                     [] kind[t] \in {"kernel", "job"} -> {"exit", "return"}
                     [] OTHER -> {}

(* A slip: the exit code is not stored.                                     *)
ExitCall_DropsCode(t) ==
    /\ At(t, "run") /\ "exit" \in Deaths(t)
    /\ \E code \in Codes : fate' = [fate EXCEPT ![pid[t]] = code]
    /\ work' = [work EXCEPT ![t] = first_child[t]]
    /\ Goto(t, "orphan")
    /\ UNCHANGED <<sched, family, ident, prev, got, build, queued>>

(* task_exit: the code,                                                     *)
ExitCall(t) ==
    /\ At(t, "run") /\ "exit" \in Deaths(t)
    /\ \E code \in Codes :
         /\ exit_code' = [exit_code EXCEPT ![t] = code]
         /\ fate' = [fate EXCEPT ![pid[t]] = code]
    /\ work' = [work EXCEPT ![t] = first_child[t]]
    /\ Goto(t, "orphan")
    /\ UNCHANGED <<sched, family, kind, pid, next_pid, prev, got, build, queued>>

(* the children,                                                            *)
OrphanStep(t) ==
    /\ At(t, "orphan") /\ work[t] # NULL
    /\ parent' = [parent EXCEPT ![work[t]] = NULL]
    /\ work' = [work EXCEPT ![t] = next_sibling[work[t]]]
    /\ UNCHANGED <<sched, first_child, next_sibling, ident, pc, prev, got, history>>

(* A slip: the list is not emptied.                                         *)
OrphanDone_KeepsList(t) ==
    /\ At(t, "orphan") /\ work[t] = NULL
    /\ Goto(t, "die")
    /\ UNCHANGED <<sched, family, ident, work, prev, got, history>>

OrphanDone(t) ==
    /\ At(t, "orphan") /\ work[t] = NULL
    /\ first_child' = [first_child EXCEPT ![t] = NULL]
    /\ Goto(t, "die")
    /\ UNCHANGED <<sched, parent, next_sibling, ident, work, prev, got, history>>

(* A slip: the task frees itself, before its last switch.                   *)
Die_SelfReap(t) ==
    /\ At(t, "die")
    /\ state' = [state EXCEPT ![t] = "ZOMBIE"]
    /\ work' = [work EXCEPT ![t] = t]
    /\ Goto(t, "find")
    /\ UNCHANGED <<next, current_task, ticks_remaining, family, ident, prev, got, history>>

(* the state,                                                               *)
Die(t) ==
    /\ At(t, "die")
    /\ state' = [state EXCEPT ![t] = "ZOMBIE"]
    /\ Goto(t, "wake")
    /\ UNCHANGED <<next, current_task, ticks_remaining, family, ident, work, prev, got, history>>

(* A slip: only a parent whose last child this is wakes up.                 *)
WakeParent_HeadOnly(t) ==
    /\ At(t, "wake")
    /\ state' = [s \in Slots |-> IF s = parent[t] /\ state[s] = "BLOCKED" /\ first_child[s] = t
                                 THEN "READY" ELSE state[s]]
    /\ Goto(t, "leave")
    /\ UNCHANGED <<next, current_task, ticks_remaining, family, ident, work, prev, got, history>>

(* and the parent, if it sleeps.                                            *)
WakeParent(t) ==
    /\ At(t, "wake")
    /\ state' = [s \in Slots |-> IF s = parent[t] /\ state[s] = "BLOCKED" THEN "READY" ELSE state[s]]
    /\ Goto(t, "leave")
    /\ UNCHANGED <<next, current_task, ticks_remaining, family, ident, work, prev, got, history>>

(* A kernel task's return takes only one of these steps.                    *)
Return(t) ==
    /\ At(t, "run") /\ "return" \in Deaths(t)
    /\ state' = [state EXCEPT ![t] = "ZOMBIE"]
    /\ Goto(t, "leave")
    /\ UNCHANGED <<next, current_task, ticks_remaining, family, ident, work, prev, got, history>>

(* The last scheduler_yield.                                                *)
Leave(t) ==
    /\ At(t, "leave")
    /\ Reschedule
    /\ Goto(t, "dead")
    /\ UNCHANGED <<family, ident, work, prev, got, history>>

(* The state isr_handler leaves a faulting program in; interrupts are off.  *)
Killed(t) == [state EXCEPT ![t] = "ZOMBIE"]

Fault(t) ==
    /\ At(t, "run") /\ "fault" \in Deaths(t)
    /\ LET to == PickNext(next, Killed(t), t) IN
       /\ state' = [Killed(t) EXCEPT ![to] = "RUNNING"]
       /\ current_task' = to
    /\ ticks_remaining' = SLICE
    /\ Goto(t, "dead")
    /\ UNCHANGED <<next, family, ident, work, prev, got, history>>

Exit(t) ==
    \/ ExitCall(t) \/ OrphanStep(t) \/ OrphanDone(t) \/ Die(t) \/ WakeParent(t)
    \/ Return(t) \/ Leave(t) \/ Fault(t)
-----------------------------------------------------------------------------
Own(t) == Yield(t) \/ Spawn(t) \/ Wait(t) \/ Reap(t) \/ Exit(t)

Next == Tick \/ \E t \in Slots : Own(t)

Spec == Init /\ [][Next]_vars

(* Kernel code that is begun goes on while its task is given the CPU again  *)
(* and again: a slice is many instructions.  kmain, the shell and idle_task *)
(* reach their next yield; what a program or a kernel task does of its own  *)
(* accord, it may never do.                                                 *)
InKernel(t) ==
    \/ SetParent(t) \/ Add(t)
    \/ WaitNoChild(t) \/ WaitBegin(t) \/ ScanNext(t) \/ ScanHit(t) \/ ScanEnd(t)
    \/ Block(t) \/ Sleep(t) \/ Retry(t) \/ Reap(t)
    \/ OrphanStep(t) \/ OrphanDone(t) \/ Die(t) \/ WakeParent(t) \/ Leave(t)
    \/ (kind[t] \in {"boot", "idle", "shell"} /\ Yield(t))

FairSpec == Spec /\ WF_vars(Tick) /\ \A t \in Slots : SF_vars(InKernel(t))
=============================================================================
