------------------------------ MODULE RunQueue ------------------------------
(***************************************************************************)
(* The circular run queue of scheduler.c and task.c: task_t records linked  *)
(* by their next pointers.  The loops that follow them are the sets of      *)
(* tasks they come to.                                                     *)
(***************************************************************************)
EXTENDS Integers

CONSTANTS Slots,       \* the blocks of memory that hold task_t records
          NULL,
          Idle         \* idle_task

ASSUME IdleAssumption == Idle \in Slots
ASSUME NullAssumption == NULL \notin Slots

(* Where a loop comes to that starts at from and goes on while it is on a   *)
(* task of the set over: what every set holds that is closed that way.      *)
Walk(next, from, over) ==
    {t \in Slots : \A S \in SUBSET Slots :
        from \in S \cup {NULL} /\ (\A u \in S \cap over : next[u] \in S \cup {NULL}) => t \in S}

(* scheduler_add.                                                           *)
InsertAfter(next, at, task) == [next EXCEPT ![at] = task, ![task] = next[at]]

(* Where the search of remove_from_scheduler stops: at a task whose next is *)
(* the one looked for, or the one it began with.                            *)
Stops(next, begin, task) ==
    LET passed == {t \in Slots : next[t] \notin {task, begin}}
    IN  Walk(next, begin, passed) \ passed

(* A slip: the predecessor is found, and left as it is.                     *)
Unlinked_Forgotten(next, prev, task) == next

(* The store of remove_from_scheduler.                                      *)
Unlinked(next, prev, task) == [next EXCEPT ![prev] = next[task]]

(* Slips: one of the two states is not passed over.                         *)
Skipped_OnlyBlocked(state) == {t \in Slots \ {Idle} : state[t] = "BLOCKED"}

(* The tasks scheduler_yield passes over.                                   *)
Skipped(state) == {t \in Slots \ {Idle} : state[t] \in {"ZOMBIE", "BLOCKED"}}

(* A slip: the search always begins behind idle_task.                       *)
PickNext_FromIdle(next, state, current) ==
    LET runnable == Walk(next, next[Idle], Skipped(state)) \ Skipped(state)
    IN  IF runnable # {} THEN CHOOSE t \in runnable : TRUE ELSE Idle

(* The task scheduler_yield switches to: the first that is not passed over, *)
(* or idle_task once it has gone round.                                     *)
PickNext(next, state, current) ==
    LET runnable == Walk(next, next[current], Skipped(state)) \ Skipped(state)
    IN  IF runnable # {} THEN CHOOSE t \in runnable : TRUE ELSE Idle

(* The next pointers link the tasks of S to one ring: none leads out of S,  *)
(* and none to a smaller round inside it.                                   *)
Ring(next, S) ==
    /\ \A t \in S : next[t] \in S
    /\ \A T \in SUBSET S : T # {} /\ (\A t \in T : next[t] \in T) => T = S
=============================================================================
