----------------------------- MODULE TaskStates -----------------------------
(***************************************************************************)
(* What scheduler.h and task.h promise of task_t.state: the edges between   *)
(* the states, and that one task, the one that RUNS, has the CPU.  A task   *)
(* that has the CPU blocks or dies itself; others wake it, or free it once  *)
(* it is off the CPU.                                                       *)
(***************************************************************************)
CONSTANTS Tasks, First, Idle

VARIABLES state, cpu

vars == <<state, cpu>>

Init ==
    /\ state = [t \in Tasks |-> CASE t = First -> "RUNNING" [] t = Idle -> "READY" [] OTHER -> "FREE"]
    /\ cpu = First

Make(t) ==
    /\ state[t] = "FREE"
    /\ state' = [state EXCEPT ![t] = "READY"]
    /\ UNCHANGED cpu

(* The task that has the CPU waits, or dies; it keeps the CPU for a while.  *)
Stop(s) ==
    /\ state[cpu] = "RUNNING" /\ s \in {"BLOCKED", "ZOMBIE"}
    /\ state' = [state EXCEPT ![cpu] = s]
    /\ UNCHANGED cpu

(* It leaves the CPU to a READY task, or keeps it if it RUNS; it may die in *)
(* the same step.                                                           *)
Switch(left, to) ==
    /\ state[to] = "READY" \/ (to = cpu /\ left = "READY")
    /\ \/ state[cpu] = "RUNNING" /\ left \in {"READY", "ZOMBIE"}
       \/ left = state[cpu]
    /\ state' = [[state EXCEPT ![cpu] = left] EXCEPT ![to] = "RUNNING"]
    /\ cpu' = to

Wake(t) ==
    /\ t # cpu /\ state[t] = "BLOCKED"
    /\ state' = [state EXCEPT ![t] = "READY"]
    /\ UNCHANGED cpu

Release(t) ==
    /\ t # cpu /\ state[t] = "ZOMBIE"
    /\ state' = [state EXCEPT ![t] = "FREE"]
    /\ UNCHANGED cpu

Next ==
    \/ \E t \in Tasks : Make(t) \/ Wake(t) \/ Release(t)
    \/ \E s \in {"BLOCKED", "ZOMBIE"} : Stop(s)
    \/ \E left \in {"READY", "BLOCKED", "ZOMBIE"}, to \in Tasks : Switch(left, to)

Spec == Init /\ [][Next]_vars
=============================================================================
