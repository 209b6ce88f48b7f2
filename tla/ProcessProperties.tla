------------------------- MODULE ProcessProperties --------------------------
(***************************************************************************)
(* What a correct task.c and scheduler.c keep true, under every preemption. *)
(***************************************************************************)
EXTENDS Process

Living(t) == state[t] # "FREE"
Dead(t) == state[t] = "ZOMBIE"
Reaping(t) == pc[t] \in {"unchild", "find", "unlink", "free"}

(* Reaping is past the list of children.                                    *)
Unlisted(t) == pc[t] \in {"find", "unlink", "free"}

(* Making a task, or reaping one.                                           *)
Handling(t) == pc[t] \in {"adopt", "add", "unchild", "find", "unlink", "free"}

(* The value sets, and that the task that is made or reaped is there.       *)
TypeOK ==
    /\ build \in Builds
    /\ next \in [Slots -> Ptr] /\ state \in [Slots -> States]
    /\ current_task \in Slots /\ ticks_remaining \in 1 .. SLICE
    /\ parent \in [Slots -> Ptr] /\ first_child \in [Slots -> Ptr]
    /\ next_sibling \in [Slots -> Ptr]
    /\ kind \in [Slots -> Kinds]
    /\ pid \in [Slots -> 0 .. MaxPid] /\ exit_code \in [Slots -> Codes]
    /\ next_pid \in 2 .. MaxPid + 2
    /\ pc \in [Slots -> Pcs] /\ work \in [Slots -> Ptr] /\ prev \in [Slots -> Ptr]
    /\ got \in [Slots -> [pid : 0 .. MaxPid, code : Codes]]
    /\ queued \subseteq Slots /\ fate \in [0 .. MaxPid -> Codes]
    /\ \A t \in Slots : Handling(t) => work[t] # NULL

(* The two clients the repository has: the shell, and the regression tests. *)
ShellClient == Starts \subseteq {<<"boot", "shell">>} /\ Adopts \subseteq {<<"shell", "user">>}
TestClient == Clients \subseteq {"boot"}
Orderly == ShellClient \/ TestClient

(* The run queue is one ring of the tasks that were added and not removed,  *)
(* the running, the idle and the bootstrap task among them, none of them    *)
(* freed ("circular linked list of all tasks").                             *)
RunQueueIntact ==
    /\ Ring(next, queued)
    /\ {Boot, Idle, current_task} \subseteq queued
    /\ \A t \in queued : Living(t)

(* No task is about to add to or to unlink from the run queue while another *)
(* is preempted between the two halves of remove_from_scheduler, which      *)
(* edits it with interrupts on.                                             *)
QueueEditsExclusive ==
    \A t, u \in Slots : pc[t] = "unlink" /\ pc[u] \in {"add", "unlink"} => t = u

(* Both hold whatever is preempted, with the clients there are.             *)
OrderlyQueue == Orderly => RunQueueIntact /\ QueueEditsExclusive

(* No task that lives refers to one whose task_t was given back.            *)
NoDangling ==
    \A t \in Slots : Living(t) =>
        \A p \in {parent[t], first_child[t], next_sibling[t]} \ {NULL} :
            Living(p) \/ (p = next_sibling[t] /\ parent[t] = NULL)

(* The list a task keeps of its children is the set of the tasks that name  *)
(* it as their parent, but for the one being reaped, and for those not yet  *)
(* orphaned by a task that exits.                                           *)
ChildrenList ==
    \A t \in Slots : Living(t) =>
        LET mine == {c \in Slots : Living(c) /\ parent[c] = t}
        IN  IF pc[t] = "orphan" THEN Walk(next_sibling, work[t], Slots) = mine
            ELSE Children(t) = mine \ (IF Unlisted(t) THEN {work[t]} ELSE {})

(* One task RUNS, the one that has the CPU, but for a task on its way off   *)
(* it: to sleep, or dead.                                                   *)
CpuOwner ==
    \A t \in Slots :
        state[t] = "RUNNING" <=> current_task = t /\ pc[t] \notin {"sleep", "wake", "leave"}

(* task_wait returns the pid of the task it reaps and the code that task    *)
(* passed to task_exit.                                                     *)
StatusDelivered ==
    \A t \in Slots : Reaping(t) => got[t] = [pid |-> pid[work[t]], code |-> fate[pid[work[t]]]]

(* A task that is dead never runs again, is freed at most once, and not     *)
(* while it has the CPU and stands on its stack.                            *)
DeadStaysDead ==
    [][\A t \in Slots : Dead(t) =>
         /\ state'[t] \in {"ZOMBIE", "FREE"}
         /\ current_task' = t => current_task = t /\ Dead(t)']_vars

(* A task on the run queue that can run does run, again and again.          *)
NoStarvation ==
    \A t \in Slots : (Orderly /\ t \in queued /\ state[t] = "READY") ~> current_task = t

(* A task asleep in task_wait reaps a child that calls task_exit: the wake  *)
(* up, the scan, the removal and the return all come.                       *)
SleeperIsServed ==
    \A t, c \in Slots :
        (Orderly /\ pc[t] = "woken" /\ pc[c] = "orphan" /\ parent[c] = t) ~> pc[t] = "run"

(* "Wait for any child to exit": a task_wait whose caller has a dead child  *)
(* returns.                                                                 *)
WaitReturns ==
    \A t \in Slots :
        (pc[t] \in {"scan", "block", "sleep", "woken"} /\ \E c \in Children(t) : Dead(c)) ~> pc[t] = "run"

(* The lifecycle implements the states of tasks.                            *)
Tasks == INSTANCE TaskStates WITH Tasks <- Slots, First <- Boot, cpu <- current_task
ImplementsTaskStates == Tasks!Spec
-----------------------------------------------------------------------------
(* The inductive invariant behind the theorems on the lifecycle.  Lists are *)
(* described link by link, by the parent the linked tasks name.             *)

OnCpu == {"sleep", "wake", "leave"}
Making(t) == pc[t] \in {"adopt", "add"}

(* Where a task is, given its state s, and whether it has the CPU.          *)
Placed(s, p, has) ==
    /\ s = "FREE" => p \in {"run", "dead"} /\ ~has
    /\ s = "READY" => p \notin OnCpu \cup {"dead"} /\ ~has
    /\ s = "RUNNING" => p \notin OnCpu \cup {"dead"} /\ has
    /\ s = "BLOCKED" => p = IF has THEN "sleep" ELSE "woken"
    /\ s = "ZOMBIE" => p \in IF has THEN {"wake", "leave"} ELSE {"dead"}

StateInv ==
    /\ \A t \in Slots : Placed(state[t], pc[t], t = current_task)
    /\ state[Idle] \in {"READY", "RUNNING"} /\ pc[Idle] = "run"

(* Which program may be where: what is below is done by clients only, and   *)
(* kmain and idle_task are no one's child.                                  *)
Kinded(t) ==
    /\ kind[t] = "boot" => t = Boot
    /\ kind[t] = "idle" => t = Idle
    /\ state[t] = "FREE" <=> kind[t] = "none"
    /\ Making(t) => <<kind[t], kind[work[t]]>> \in Starts \cup Adopts
    /\ Reaping(t) \/ pc[t] \in {"scan", "block", "sleep", "woken"} => kind[t] \in Parents
    /\ Living(t) /\ first_child[t] # NULL => kind[t] \in Parents
    /\ pc[t] = "adopt" => kind[t] \in Parents
    /\ kind[t] = "shell" => \A s \in Slots : kind[s] = "shell" => s = t

KindInv ==
    /\ kind[Boot] = "boot" /\ kind[Idle] = "idle"
    /\ \A t \in Slots : Kinded(t)
    /\ parent[Boot] = NULL /\ parent[Idle] = NULL

(* A task that was made and not added is known to its maker alone.          *)
Made(c, t) ==
    /\ c \in Slots /\ state[c] = "READY" /\ pc[c] = "run" /\ c \notin queued
    /\ first_child[c] = NULL
    /\ pc[t] = "adopt" => parent[c] = NULL
    /\ pc[t] = "add" => parent[c] \in {NULL, t}
    /\ \A u \in Slots : Making(u) /\ work[u] = c => u = t

MakingInv == \A t \in Slots : Making(t) => Made(work[t], t)

(* The task somebody reaps is dead, its child, and where the run queue and  *)
(* the list of children have it at this step.                               *)
Reaped(z, t) ==
    /\ z \in Slots /\ state[z] = "ZOMBIE" /\ z # current_task /\ parent[z] = t
    /\ z \in queued <=> pc[t] # "free"
    /\ pc[t] = "unlink" => prev[t] \in queued /\ next[prev[t]] = z
    /\ Unlisted(t) =>
         /\ first_child[t] # z /\ next_sibling[z] = NULL
         /\ \A c \in Slots : Living(c) /\ parent[c] = t => next_sibling[c] # z

ReapInv == \A t \in Slots : Reaping(t) => Reaped(work[t], t)

(* A list of children leads from child to child, and no two links of it     *)
(* lead to one task.                                                        *)
Child(c, t) == Living(c) /\ parent[c] = t

Heads(c, t) ==
    /\ Child(c, t)
    /\ \A b \in Slots : Child(b, t) => next_sibling[b] # c

Linked(t) ==
    /\ \A c, d \in Slots : Child(c, t) /\ next_sibling[c] = d => Child(d, t)
    /\ \A c, d \in Slots : Child(c, t) /\ Child(d, t) /\ next_sibling[c] = next_sibling[d] =>
                              c = d \/ next_sibling[c] = NULL

Listed(t) ==
    \A c \in Slots :
        /\ Living(t) /\ pc[t] # "orphan" /\ first_child[t] = c => Heads(c, t)
        /\ pc[t] = "orphan" /\ work[t] = c => Heads(c, t)
        /\ pc[t] \in {"scan", "unchild"} /\ work[t] = c => c \in Children(t)

ListInv == \A t \in Slots : Linked(t) /\ Listed(t)

(* Every task that lives is on the run queue, but for those not added yet   *)
(* and those taken off it to be freed.                                      *)
QueueInv ==
    /\ RunQueueIntact
    /\ \A c \in Slots : Living(c) /\ c \notin queued =>
         \E t \in Slots : (Making(t) \/ pc[t] = "free") /\ work[t] = c

(* No two tasks have one pid, and a task has the code it exits with.        *)
StatusInv ==
    /\ \A t \in Slots : Living(t) => pid[t] < next_pid /\ exit_code[t] = fate[pid[t]]
    /\ \A t, u \in Slots : Living(t) /\ Living(u) /\ pid[t] = pid[u] => t = u
    /\ \A p \in 0 .. MaxPid : p >= next_pid => fate[p] = 0
    /\ StatusDelivered

IInv ==
    /\ TypeOK /\ StateInv /\ KindInv /\ MakingInv /\ ReapInv /\ ListInv /\ QueueInv
    /\ StatusInv

OrderlyInv == Orderly => IInv
=============================================================================
