---------------------------- MODULE ProcessProofs ---------------------------
(***************************************************************************)
(* The lifecycle of tasks, proved for every number of tasks, pids, codes    *)
(* and clients.                                                            *)
(***************************************************************************)
EXTENDS ProcessProperties, TLAPS
-----------------------------------------------------------------------------
(* The run queue stays one ring under insertion and removal, and its walks  *)
(* end where they should: for every number of tasks.                        *)

Links == [Slots -> Slots \cup {NULL}]

(* Closed(link, from, over, S): a loop over the tasks of over that starts   *)
(* at from does not leave S.                                                *)
Closed(link, from, over, S) ==
    /\ S \in SUBSET Slots
    /\ from \in S \cup {NULL}
    /\ \A u \in S \cap over : link[u] \in S \cup {NULL}

LEMMA WalkWithin ==
    ASSUME NEW link, NEW from, NEW over, NEW S, Closed(link, from, over, S)
    PROVE  Walk(link, from, over) \subseteq S
  BY DEF Walk, Closed

LEMMA WalkStart ==
    ASSUME NEW link, NEW from \in Slots, NEW over
    PROVE  from \in Walk(link, from, over)
  BY NullAssumption DEF Walk

LEMMA WalkNext ==
    ASSUME NEW link, NEW from, NEW over,
           NEW u \in Walk(link, from, over) \cap over, link[u] \in Slots
    PROVE  link[u] \in Walk(link, from, over)
  BY NullAssumption DEF Walk

(* What a loop comes to after its start, it comes to from elsewhere.        *)
LEMMA WalkPrevious ==
    ASSUME NEW link \in Links, NEW from \in Slots \cup {NULL},
           NEW z \in Walk(link, from, Slots), z # from
    PROVE  \E p \in Walk(link, from, Slots) \ {z} : link[p] = z
  <1> SUFFICES ASSUME \A p \in Walk(link, from, Slots) \ {z} : link[p] # z PROVE FALSE
    OBVIOUS
  <1> DEFINE C == Walk(link, from, Slots) \ {z}
  <1>1. C \subseteq Slots
    BY DEF Walk
  <1>2. from \in C \cup {NULL}
    BY WalkStart
  <1>3. \A c \in C : link[c] \in C \cup {NULL}
    <2> SUFFICES ASSUME NEW c \in C PROVE link[c] \in C \cup {NULL}
      OBVIOUS
    <2>1. c \in Slots /\ link[c] \in Slots \cup {NULL} /\ link[c] # z
      BY <1>1 DEF Links
    <2> QED BY <2>1, WalkNext
  <1>4. Closed(link, from, Slots, C)
    BY <1>1, <1>2, <1>3 DEF Closed
  <1> QED BY <1>4, WalkWithin

(* A loop is not disturbed by links it does not come to.                    *)
LEMMA WalkSame ==
    ASSUME NEW link, NEW other, NEW from, NEW over, NEW C, Closed(link, from, over, C),
           \A u \in C : other[u] = link[u]
    PROVE  Walk(other, from, over) = Walk(link, from, over)
  <1>1. Closed(other, from, over, C)
    BY DEF Closed
  <1>2. ASSUME NEW a, NEW b, Closed(a, from, over, C), \A u \in C : b[u] = a[u],
               NEW t \in Walk(a, from, over)
        PROVE  t \in Walk(b, from, over)
    <2> SUFFICES ASSUME NEW S \in SUBSET Slots, Closed(b, from, over, S) PROVE t \in S
      BY DEF Walk, Closed
    <2>1. Closed(a, from, over, S \cap C)
      BY <1>2 DEF Closed
    <2> QED BY <1>2, <2>1, WalkWithin
  <1>3. \A t \in Walk(link, from, over) : t \in Walk(other, from, over)
    BY <1>2
  <1>4. \A t \in Walk(other, from, over) : t \in Walk(link, from, over)
    BY <1>1, <1>2
  <1> QED BY <1>3, <1>4

(* Only what lies on a ring is ever closed.                                 *)
LEMMA RingClosed ==
    ASSUME NEW link, NEW S \in SUBSET Slots, Ring(link, S), NEW from \in S, NEW over
    PROVE  Closed(link, from, over, S)
  BY DEF Ring, Closed

(* Links outside it leave a ring as it is.                                  *)
LEMMA RingSame ==
    ASSUME NEW link, NEW other, NEW S, Ring(link, S), \A u \in S : other[u] = link[u]
    PROVE  Ring(other, S)
  <1>1. \A t \in S : other[t] \in S
    BY DEF Ring
  <1>2. ASSUME NEW T \in SUBSET S, T # {}, \A t \in T : other[t] \in T PROVE T = S
    <2>1. \A t \in T : link[t] \in T
      BY <1>2
    <2> QED BY <1>2, <2>1 DEF Ring
  <1> QED BY <1>1, <1>2 DEF Ring

(* scheduler_add keeps the ring, with one task more.                        *)
LEMMA RingInsert ==
    ASSUME NEW link \in Links, NEW S \in SUBSET Slots, Ring(link, S),
           NEW at \in S, NEW task \in Slots \ S
    PROVE  Ring(InsertAfter(link, at, task), S \cup {task})
  <1> DEFINE n == InsertAfter(link, at, task)
  <1>1. n[at] = task /\ n[task] = link[at] /\ \A t \in S \ {at} : n[t] = link[t]
    BY DEF InsertAfter, Links
  <1> HIDE DEF n
  <1>2. \A t \in S \cup {task} : n[t] \in S \cup {task}
    BY <1>1 DEF Ring
  <1>3. ASSUME NEW T \in SUBSET (S \cup {task}), T # {}, \A t \in T : n[t] \in T
        PROVE  T = S \cup {task}
    <2>1. T \ {task} # {}
      BY <1>1, <1>3 DEF Ring
    <2>2. \A t \in T \ {task} : link[t] \in T \ {task}
      BY <1>1, <1>3 DEF Ring
    <2>3. T \ {task} = S
      BY <2>1, <2>2 DEF Ring
    <2> QED BY <1>1, <1>3, <2>3
  <1> QED BY <1>2, <1>3 DEF Ring, n

(* Round a ring, a loop ends at one task.                                   *)
LEMMA OneStop ==
    ASSUME NEW link \in Links, NEW S \in SUBSET Slots, Ring(link, S), NEW begin \in S, NEW over,
           NEW p \in Walk(link, begin, over) \ over, NEW q \in Walk(link, begin, over) \ over
    PROVE  p = q
  <1> SUFFICES ASSUME p # q PROVE FALSE
    OBVIOUS
  <1> DEFINE B == {x \in S : {p, q} \subseteq Walk(link, x, over)}
  <1>1. begin \in B
    OBVIOUS
  <1>2. \A x \in B : x \in over
    <2> SUFFICES ASSUME NEW x \in B, x \notin over PROVE FALSE
      OBVIOUS
    <2>1. Closed(link, x, over, {x})
      BY DEF Closed
    <2>2. Walk(link, x, over) \subseteq {x}
      BY <2>1, WalkWithin
    <2> QED BY <2>2
  <1>3. \A x \in B : link[x] \in B
    <2> SUFFICES ASSUME NEW x \in B PROVE link[x] \in B
      OBVIOUS
    <2>1. link[x] \in S /\ x \in over
      BY <1>2 DEF Ring
    <2>2. ASSUME NEW r \in Walk(link, x, over), r # x
          PROVE  r \in Walk(link, link[x], over)
      <3> SUFFICES ASSUME NEW T \in SUBSET Slots, Closed(link, link[x], over, T) PROVE r \in T
        BY <2>1, <2>2 DEF Walk, Closed
      <3>1. Closed(link, x, over, T \cup {x})
        BY <2>1 DEF Closed
      <3> QED BY <2>2, <3>1, WalkWithin
    <2>3. x # p /\ x # q
      BY <2>1
    <2> QED BY <2>1, <2>2, <2>3
  <1>4. B = S
    BY <1>1, <1>3 DEF Ring
  <1>5. p \in S
    BY RingClosed, WalkWithin
  <1> QED BY <1>2, <1>4, <1>5

(* No two links of a ring lead to one task.                                 *)
LEMMA RingInjective ==
    ASSUME NEW link \in Links, NEW S \in SUBSET Slots, Ring(link, S),
           NEW a \in S, NEW b \in S, link[a] = link[b]
    PROVE  a = b
  <1> DEFINE over == S \ {a, b}
             W == Walk(link, link[a], over)
  <1>1. link[a] \in S
    BY DEF Ring
  <1>2. W \subseteq S
    BY <1>1, RingClosed, WalkWithin
  <1>3. link[a] \in W
    BY <1>1, WalkStart
  <1>4. \A x \in W : link[x] \in W
    <2> SUFFICES ASSUME NEW x \in W PROVE link[x] \in W
      OBVIOUS
    <2>1. CASE x \in {a, b}
      BY <1>3, <2>1
    <2>2. CASE x \notin {a, b}
      <3>1. x \in over /\ link[x] \in Slots
        BY <1>2, <2>2 DEF Ring
      <3> QED BY <3>1, WalkNext
    <2> QED BY <2>1, <2>2
  <1>5. W = S
    BY <1>2, <1>3, <1>4 DEF Ring
  <1>6. a \in W \ over /\ b \in W \ over
    BY <1>5
  <1> QED BY <1>1, <1>6, OneStop

(* The store of remove_from_scheduler keeps it, with one task less.         *)
LEMMA RingRemove ==
    ASSUME NEW link \in Links, NEW S \in SUBSET Slots, Ring(link, S),
           NEW before \in S, NEW task \in S, link[before] = task, S # {task}
    PROVE  Ring(Unlinked(link, before, task), S \ {task})
  <1> DEFINE n == Unlinked(link, before, task)
  <1>1. n[before] = link[task] /\ \A t \in S \ {before} : n[t] = link[t]
    BY DEF Unlinked, Links
  <1> HIDE DEF n
  <1>2. link[task] # task /\ before # task
    <2> DEFINE T == {task}
    <2>1. T \in SUBSET S /\ T # {} /\ T # S /\ (link[task] = task => \A t \in T : link[t] \in T)
      OBVIOUS
    <2> HIDE DEF T
    <2> QED BY <2>1 DEF Ring
  <1>3. \A t \in S : link[t] = task => t = before
    BY RingInjective
  <1>4. \A t \in S \ {task} : n[t] \in S \ {task}
    BY <1>1, <1>2, <1>3 DEF Ring
  <1>5. ASSUME NEW T \in SUBSET (S \ {task}), T # {}, \A t \in T : n[t] \in T
        PROVE  T = S \ {task}
    <2>1. before \in T
      <3> SUFFICES ASSUME before \notin T PROVE FALSE
        OBVIOUS
      <3>1. \A t \in T : link[t] \in T
        BY <1>1, <1>5
      <3>2. T = S
        BY <1>5, <3>1 DEF Ring
      <3> QED BY <3>2
    <2> DEFINE U == T \cup {task}
    <2>2. U \in SUBSET S /\ U # {} /\ \A t \in U : link[t] \in U
      BY <1>1, <1>5, <2>1
    <2> HIDE DEF U
    <2>3. U = S
      BY <2>2 DEF Ring
    <2> QED BY <1>5, <2>3 DEF U
  <1> QED BY <1>4, <1>5 DEF Ring, n

(* Every task of a ring has a predecessor in it.                            *)
LEMMA Predecessor ==
    ASSUME NEW link \in Links, NEW S \in SUBSET Slots, Ring(link, S), NEW task \in S
    PROVE  \E u \in S : link[u] = task
  <1> SUFFICES ASSUME \A u \in S : link[u] # task PROVE FALSE
    OBVIOUS
  <1>1. CASE S \ {task} = {}
    BY <1>1 DEF Ring
  <1>2. CASE S \ {task} # {}
    <2>1. \A u \in S \ {task} : link[u] \in S \ {task}
      BY DEF Ring
    <2>2. S \ {task} = S
      BY <1>2, <2>1 DEF Ring
    <2> QED BY <2>2
  <1> QED BY <1>1, <1>2

(* The search of remove_from_scheduler stops at the predecessor of the task *)
(* it looks for, wherever on the ring it begins.                            *)
THEOREM StopsAtPredecessor ==
    ASSUME NEW link \in Links, NEW S \in SUBSET Slots, Ring(link, S),
           NEW begin \in S, NEW task \in S, NEW p \in Stops(link, begin, task)
    PROVE  p \in S /\ link[p] = task
  <1> DEFINE passed == {t \in Slots : link[t] \notin {task, begin}}
             W == Walk(link, begin, passed)
  <1>1. p \in W \ passed
    BY DEF Stops
  <1>2. W \subseteq S
    BY RingClosed, WalkWithin
  <1>3. begin \in W
    BY WalkStart
  <1> HIDE DEF W
  <1>4. PICK u \in S : link[u] = task
    BY Predecessor
  <1>5. CASE u \in W
    <2>1. u \in W \ passed
      BY <1>4, <1>5
    <2>2. u = p
      BY <1>1, <2>1, OneStop DEF W
    <2> QED BY <1>2, <1>4, <2>2
  <1>6. CASE u \notin W
    <2>1. \A x \in W : link[x] \in W
      <3> SUFFICES ASSUME NEW x \in W PROVE link[x] \in W
        OBVIOUS
      <3>1. link[x] \in Slots /\ x \in Slots
        BY <1>2 DEF Ring
      <3>2. CASE x \in passed
        BY <3>1, <3>2, WalkNext DEF W
      <3>3. CASE x \notin passed
        <4>1. link[x] \in {task, begin}
          BY <3>1, <3>3
        <4>2. link[x] # task
          BY <1>2, <1>4, <1>6, RingInjective
        <4> QED BY <1>3, <4>1, <4>2
      <3> QED BY <3>2, <3>3
    <2>2. W = S
      BY <1>2, <1>3, <2>1 DEF Ring
    <2> QED BY <1>6, <2>2
  <1> QED BY <1>5, <1>6

(* scheduler_yield picks a task of the queue that it does not pass over.    *)
THEOREM PicksRunnable ==
    ASSUME NEW link \in Links, NEW S \in SUBSET Slots, Ring(link, S),
           Idle \in S, NEW current \in S, NEW states
    PROVE  PickNext(link, states, current) \in S \ Skipped(states)
  <1> DEFINE runnable == Walk(link, link[current], Skipped(states)) \ Skipped(states)
  <1>1. link[current] \in S
    BY DEF Ring
  <1>2. runnable \subseteq S
    BY <1>1, RingClosed, WalkWithin
  <1>3. Idle \notin Skipped(states)
    BY DEF Skipped
  <1> HIDE DEF runnable
  <1>4. PickNext(link, states, current) = IF runnable # {} THEN CHOOSE t \in runnable : TRUE ELSE Idle
    BY DEF PickNext, runnable
  <1>5. CASE runnable = {}
    BY <1>3, <1>4, <1>5
  <1>6. CASE runnable # {}
    <2>1. (CHOOSE t \in runnable : TRUE) \in runnable
      BY <1>6
    <2>2. runnable \cap Skipped(states) = {}
      BY DEF runnable
    <2> QED BY <1>2, <1>4, <1>6, <2>1, <2>2
  <1> QED BY <1>5, <1>6
-----------------------------------------------------------------------------
USE DEF Ptr

(* PickNext always comes to a task.                                         *)
LEMMA PicksTask == \A st : PickNext(next, st, current_task) \in Slots
  <1> SUFFICES ASSUME NEW st PROVE PickNext(next, st, current_task) \in Slots
    OBVIOUS
  <1> DEFINE runnable == Walk(next, next[current_task], Skipped(st)) \ Skipped(st)
  <1>1. runnable \subseteq Slots
    BY DEF Walk
  <1> HIDE DEF runnable
  <1>2. PickNext(next, st, current_task) = IF runnable # {} THEN CHOOSE t \in runnable : TRUE ELSE Idle
    BY DEF PickNext, runnable
  <1> QED BY <1>1, <1>2, IdleAssumption

LEMMA TypeInit == Init => TypeOK
  <1> SUFFICES ASSUME Init PROVE TypeOK
    OBVIOUS
  <1> QED BY IdleAssumption, BootAssumption, SliceAssumption, PidAssumption
          DEF Init, TypeOK, States, Kinds, Pcs, NoStatus, Handling

LEMMA RescheduleType ==
    ASSUME TypeOK, Reschedule
    PROVE  /\ next' \in [Slots -> Ptr] /\ state' \in [Slots -> States]
           /\ current_task' \in Slots /\ ticks_remaining' \in 1 .. SLICE
  <1> DEFINE to == PickNext(next, state, current_task)
  <1>1. to \in Slots
    BY PicksTask
  <1>2. /\ state' = [[state EXCEPT ![current_task] = IF @ = "RUNNING" THEN "READY" ELSE @]
                      EXCEPT ![to] = "RUNNING"]
        /\ current_task' = to /\ ticks_remaining' = SLICE /\ next' = next
    BY DEF Reschedule
  <1> HIDE DEF to
  <1>3. next \in [Slots -> Ptr] /\ state \in [Slots -> States] /\ current_task \in Slots
    BY DEF TypeOK
  <1>4. {"READY", "RUNNING"} \subseteq States
    BY DEF States
  <1>5. state' \in [Slots -> States]
    BY <1>1, <1>2, <1>3, <1>4
  <1> QED BY <1>1, <1>2, <1>3, <1>5, SliceAssumption

(* Where a task is afterwards.                                              *)
LEMMA GotoType ==
    ASSUME TypeOK, NEW t \in Slots, NEW p \in Pcs, Goto(t, p),
           work' \in [Slots -> Ptr], \A u \in Slots \ {t} : work'[u] = work[u],
           p \in {"adopt", "add", "unchild", "find", "unlink", "free"} => work'[t] # NULL
    PROVE  pc' \in [Slots -> Pcs] /\ \A u \in Slots : Handling(u)' => work'[u] # NULL
  <1>1. pc \in [Slots -> Pcs] /\ \A u \in Slots : Handling(u) => work[u] # NULL
    BY DEF TypeOK
  <1>2. pc' = [pc EXCEPT ![t] = p]
    BY DEF Goto
  <1> QED BY <1>1, <1>2 DEF Handling

LEMMA TypeStep == TypeOK /\ [Next]_vars => TypeOK'
  <1> SUFFICES ASSUME TypeOK, [Next]_vars PROVE TypeOK'
    OBVIOUS
  <1> USE NullAssumption, SliceAssumption, PidAssumption
      DEF TypeOK, sched, family, ident, locals, history, At
  <1>1. CASE UNCHANGED vars
    BY <1>1 DEF vars, Handling
  <1>2. CASE Tick
    <2>1. CASE Reschedule
      BY <1>2, <2>1, RescheduleType DEF Tick, Handling
    <2>2. CASE ~Reschedule
      BY <1>2, <2>2 DEF Tick, Handling
    <2> QED BY <2>1, <2>2
  <1>3. ASSUME NEW t \in Slots, Yield(t) PROVE TypeOK'
    BY <1>3, RescheduleType DEF Yield, Handling
  <1>4. ASSUME NEW t \in Slots, Spawn(t) PROVE TypeOK'
    <2>1. ASSUME NEW c \in Slots, NEW k \in Kinds, Create(t, c, k) PROVE TypeOK'
      <3>1. c # NULL /\ work' = [work EXCEPT ![t] = c]
        BY <2>1 DEF Create
      <3>2. PICK p \in {"adopt", "add"} : pc' = [pc EXCEPT ![t] = p, ![c] = "run"]
        BY <2>1 DEF Create
      <3>3. pc' \in [Slots -> Pcs] /\ \A u \in Slots : Handling(u)' => work'[u] # NULL
        BY <3>1, <3>2 DEF Pcs, Handling
      <3>4. state' \in [Slots -> States] /\ kind' \in [Slots -> Kinds] /\ exit_code' \in [Slots -> Codes]
        BY <2>1 DEF Create, States
      <3>5. pid' \in [Slots -> 0 .. MaxPid] /\ next_pid' \in 2 .. MaxPid + 2
        BY <2>1 DEF Create
      <3>6. /\ next' \in [Slots -> Ptr] /\ parent' \in [Slots -> Ptr] /\ work' \in [Slots -> Ptr]
            /\ first_child' \in [Slots -> Ptr] /\ next_sibling' \in [Slots -> Ptr]
        BY <2>1 DEF Create
      <3> QED BY <2>1, <3>3, <3>4, <3>5, <3>6 DEF Create
    <2>2. CASE SetParent(t)
      <3>1. PICK p \in Pcs : Goto(t, p) /\ (p \in {"adopt", "add", "unchild", "find", "unlink", "free"} => work'[t] # NULL)
        BY <2>2 DEF SetParent, Goto, Pcs, Handling
      <3>2. work' \in [Slots -> Ptr] /\ \A u \in Slots \ {t} : work'[u] = work[u]
        BY <2>2 DEF SetParent
      <3>3. pc' \in [Slots -> Pcs] /\ \A u \in Slots : Handling(u)' => work'[u] # NULL
        BY <3>1, <3>2, GotoType
      <3> QED BY <2>2, <3>2, <3>3 DEF SetParent
    <2>3. CASE Add(t)
      <3>1. PICK p \in Pcs : Goto(t, p) /\ (p \in {"adopt", "add", "unchild", "find", "unlink", "free"} => work'[t] # NULL)
        BY <2>3 DEF Add, Goto, Pcs, Handling
      <3>2. work' \in [Slots -> Ptr] /\ \A u \in Slots \ {t} : work'[u] = work[u]
        BY <2>3 DEF Add
      <3>3. pc' \in [Slots -> Pcs] /\ \A u \in Slots : Handling(u)' => work'[u] # NULL
        BY <3>1, <3>2, GotoType
      <3>4. work[t] \in Slots
        BY <2>3 DEF Add, Handling
      <3> QED BY <2>3, <3>2, <3>3, <3>4 DEF Add, InsertAfter
    <2> QED BY <1>4, <2>1, <2>2, <2>3 DEF Spawn
  <1>5. ASSUME NEW t \in Slots, Wait(t) PROVE TypeOK'
    <2>1. CASE CallWait(t)
      <3>1. PICK p \in Pcs : Goto(t, p) /\ (p \in {"adopt", "add", "unchild", "find", "unlink", "free"} => work'[t] # NULL)
        BY <2>1 DEF CallWait, Goto, Pcs, Handling
      <3>2. work' \in [Slots -> Ptr] /\ \A u \in Slots \ {t} : work'[u] = work[u]
        BY <2>1 DEF CallWait
      <3>3. pc' \in [Slots -> Pcs] /\ \A u \in Slots : Handling(u)' => work'[u] # NULL
        BY <3>1, <3>2, GotoType
      <3> QED BY <2>1, <3>2, <3>3 DEF CallWait
    <2>2. CASE WaitNoChild(t)
      <3>1. PICK p \in Pcs : Goto(t, p) /\ (p \in {"adopt", "add", "unchild", "find", "unlink", "free"} => work'[t] # NULL)
        BY <2>2 DEF WaitNoChild, Goto, Pcs, Handling
      <3>2. work' \in [Slots -> Ptr] /\ \A u \in Slots \ {t} : work'[u] = work[u]
        BY <2>2 DEF WaitNoChild
      <3>3. pc' \in [Slots -> Pcs] /\ \A u \in Slots : Handling(u)' => work'[u] # NULL
        BY <3>1, <3>2, GotoType
      <3> QED BY <2>2, <3>2, <3>3 DEF WaitNoChild
    <2>3. CASE WaitBegin(t)
      <3>1. PICK p \in Pcs : Goto(t, p) /\ (p \in {"adopt", "add", "unchild", "find", "unlink", "free"} => work'[t] # NULL)
        BY <2>3 DEF WaitBegin, Goto, Pcs, Handling
      <3>2. work' \in [Slots -> Ptr] /\ \A u \in Slots \ {t} : work'[u] = work[u]
        BY <2>3 DEF WaitBegin
      <3>3. pc' \in [Slots -> Pcs] /\ \A u \in Slots : Handling(u)' => work'[u] # NULL
        BY <3>1, <3>2, GotoType
      <3> QED BY <2>3, <3>2, <3>3 DEF WaitBegin
    <2>4. CASE ScanNext(t)
      BY <2>4 DEF ScanNext, Handling
    <2>5. CASE ScanHit(t)
      <3>1. PICK p \in Pcs : Goto(t, p) /\ (p \in {"adopt", "add", "unchild", "find", "unlink", "free"} => work'[t] # NULL)
        BY <2>5 DEF ScanHit, Goto, Pcs, Handling
      <3>2. work' \in [Slots -> Ptr] /\ \A u \in Slots \ {t} : work'[u] = work[u]
        BY <2>5 DEF ScanHit
      <3>3. pc' \in [Slots -> Pcs] /\ \A u \in Slots : Handling(u)' => work'[u] # NULL
        BY <3>1, <3>2, GotoType
      <3> QED BY <2>5, <3>2, <3>3 DEF ScanHit
    <2>6. CASE ScanEnd(t)
      <3>1. PICK p \in Pcs : Goto(t, p) /\ (p \in {"adopt", "add", "unchild", "find", "unlink", "free"} => work'[t] # NULL)
        BY <2>6 DEF ScanEnd, Goto, Pcs, Handling
      <3>2. work' \in [Slots -> Ptr] /\ \A u \in Slots \ {t} : work'[u] = work[u]
        BY <2>6 DEF ScanEnd
      <3>3. pc' \in [Slots -> Pcs] /\ \A u \in Slots : Handling(u)' => work'[u] # NULL
        BY <3>1, <3>2, GotoType
      <3> QED BY <2>6, <3>2, <3>3 DEF ScanEnd
    <2>7. CASE Block(t)
      <3>1. PICK p \in Pcs : Goto(t, p) /\ (p \in {"adopt", "add", "unchild", "find", "unlink", "free"} => work'[t] # NULL)
        BY <2>7 DEF Block, Goto, Pcs, Handling
      <3>2. work' \in [Slots -> Ptr] /\ \A u \in Slots \ {t} : work'[u] = work[u]
        BY <2>7 DEF Block
      <3>3. pc' \in [Slots -> Pcs] /\ \A u \in Slots : Handling(u)' => work'[u] # NULL
        BY <3>1, <3>2, GotoType
      <3> QED BY <2>7, <3>2, <3>3 DEF Block, States
    <2>8. CASE Sleep(t)
      <3>1. PICK p \in Pcs : Goto(t, p) /\ (p \in {"adopt", "add", "unchild", "find", "unlink", "free"} => work'[t] # NULL)
        BY <2>8 DEF Sleep, Goto, Pcs, Handling
      <3>2. work' \in [Slots -> Ptr] /\ \A u \in Slots \ {t} : work'[u] = work[u]
        BY <2>8 DEF Sleep
      <3>3. pc' \in [Slots -> Pcs] /\ \A u \in Slots : Handling(u)' => work'[u] # NULL
        BY <3>1, <3>2, GotoType
      <3> QED BY <2>8, <3>2, <3>3, RescheduleType DEF Sleep
    <2>9. CASE Retry(t)
      <3>1. PICK p \in Pcs : Goto(t, p) /\ (p \in {"adopt", "add", "unchild", "find", "unlink", "free"} => work'[t] # NULL)
        BY <2>9 DEF Retry, Goto, Pcs, Handling
      <3>2. work' \in [Slots -> Ptr] /\ \A u \in Slots \ {t} : work'[u] = work[u]
        BY <2>9 DEF Retry
      <3>3. pc' \in [Slots -> Pcs] /\ \A u \in Slots : Handling(u)' => work'[u] # NULL
        BY <3>1, <3>2, GotoType
      <3> QED BY <2>9, <3>2, <3>3 DEF Retry
    <2> QED BY <1>5, <2>1, <2>2, <2>3, <2>4, <2>5, <2>6, <2>7, <2>8, <2>9 DEF Wait
  <1>6. ASSUME NEW t \in Slots, Reap(t) PROVE TypeOK'
    <2>1. CASE Unchild(t)
      <3>1. PICK p \in Pcs : Goto(t, p) /\ (p \in {"adopt", "add", "unchild", "find", "unlink", "free"} => work'[t] # NULL)
        BY <2>1 DEF Unchild, Goto, Pcs, Handling
      <3>2. work' \in [Slots -> Ptr] /\ \A u \in Slots \ {t} : work'[u] = work[u]
        BY <2>1 DEF Unchild
      <3>3. pc' \in [Slots -> Pcs] /\ \A u \in Slots : Handling(u)' => work'[u] # NULL
        BY <3>1, <3>2, GotoType
      <3>4. work[t] \in Slots /\ next_sibling[work[t]] \in Ptr
        BY <2>1 DEF Unchild, Handling
      <3>5. first_child' \in [Slots -> Ptr] /\ next_sibling' \in [Slots -> Ptr]
        <4>1. CASE first_child[t] = work[t]
          BY <2>1, <3>4, <4>1 DEF Unchild
        <4>2. CASE first_child[t] # work[t]
          <5>1. /\ first_child' = first_child
                /\ DOMAIN next_sibling' = Slots
                /\ \A c \in Slots : next_sibling'[c] \in {NULL, next_sibling[work[t]], next_sibling[c]}
            BY <2>1, <4>2 DEF Unchild
          <5>2. next_sibling' = [c \in Slots |-> next_sibling'[c]]
            BY <2>1, <4>2 DEF Unchild
          <5> QED BY <3>4, <5>1, <5>2
        <4> QED BY <4>1, <4>2
      <3> QED BY <2>1, <3>2, <3>3, <3>5 DEF Unchild
    <2>2. CASE FindPrevious(t)
      BY <2>2 DEF FindPrevious, Goto, Stops, Walk, Pcs, Handling
    <2>3. CASE Unlink(t)
      <3>1. PICK p \in Pcs : Goto(t, p) /\ (p \in {"adopt", "add", "unchild", "find", "unlink", "free"} => work'[t] # NULL)
        BY <2>3 DEF Unlink, Goto, Pcs, Handling
      <3>2. work' \in [Slots -> Ptr] /\ \A u \in Slots \ {t} : work'[u] = work[u]
        BY <2>3 DEF Unlink
      <3>3. pc' \in [Slots -> Pcs] /\ \A u \in Slots : Handling(u)' => work'[u] # NULL
        BY <3>1, <3>2, GotoType
      <3> QED BY <2>3, <3>2, <3>3 DEF Unlink, Unlinked, Handling
    <2>4. CASE Free(t)
      <3>1. PICK p \in Pcs : Goto(t, p) /\ (p \in {"adopt", "add", "unchild", "find", "unlink", "free"} => work'[t] # NULL)
        BY <2>4 DEF Free, Goto, Pcs, Handling
      <3>2. work' \in [Slots -> Ptr] /\ \A u \in Slots \ {t} : work'[u] = work[u]
        BY <2>4 DEF Free
      <3>3. pc' \in [Slots -> Pcs] /\ \A u \in Slots : Handling(u)' => work'[u] # NULL
        BY <3>1, <3>2, GotoType
      <3> QED BY <2>4, <3>2, <3>3 DEF Free, States, Kinds, Handling
    <2> QED BY <1>6, <2>1, <2>2, <2>3, <2>4 DEF Reap
  <1>7. ASSUME NEW t \in Slots, Exit(t) PROVE TypeOK'
    <2>1. CASE ExitCall(t)
      <3>1. PICK p \in Pcs : Goto(t, p) /\ (p \in {"adopt", "add", "unchild", "find", "unlink", "free"} => work'[t] # NULL)
        BY <2>1 DEF ExitCall, Goto, Pcs, Handling
      <3>2. work' \in [Slots -> Ptr] /\ \A u \in Slots \ {t} : work'[u] = work[u]
        BY <2>1 DEF ExitCall
      <3>3. pc' \in [Slots -> Pcs] /\ \A u \in Slots : Handling(u)' => work'[u] # NULL
        BY <3>1, <3>2, GotoType
      <3> QED BY <2>1, <3>2, <3>3 DEF ExitCall
    <2>2. CASE OrphanStep(t)
      BY <2>2 DEF OrphanStep, Handling
    <2>3. CASE OrphanDone(t)
      <3>1. PICK p \in Pcs : Goto(t, p) /\ (p \in {"adopt", "add", "unchild", "find", "unlink", "free"} => work'[t] # NULL)
        BY <2>3 DEF OrphanDone, Goto, Pcs, Handling
      <3>2. work' \in [Slots -> Ptr] /\ \A u \in Slots \ {t} : work'[u] = work[u]
        BY <2>3 DEF OrphanDone
      <3>3. pc' \in [Slots -> Pcs] /\ \A u \in Slots : Handling(u)' => work'[u] # NULL
        BY <3>1, <3>2, GotoType
      <3> QED BY <2>3, <3>2, <3>3 DEF OrphanDone
    <2>4. CASE Die(t)
      <3>1. PICK p \in Pcs : Goto(t, p) /\ (p \in {"adopt", "add", "unchild", "find", "unlink", "free"} => work'[t] # NULL)
        BY <2>4 DEF Die, Goto, Pcs, Handling
      <3>2. work' \in [Slots -> Ptr] /\ \A u \in Slots \ {t} : work'[u] = work[u]
        BY <2>4 DEF Die
      <3>3. pc' \in [Slots -> Pcs] /\ \A u \in Slots : Handling(u)' => work'[u] # NULL
        BY <3>1, <3>2, GotoType
      <3> QED BY <2>4, <3>2, <3>3 DEF Die, States
    <2>5. CASE WakeParent(t)
      <3>1. PICK p \in Pcs : Goto(t, p) /\ (p \in {"adopt", "add", "unchild", "find", "unlink", "free"} => work'[t] # NULL)
        BY <2>5 DEF WakeParent, Goto, Pcs, Handling
      <3>2. work' \in [Slots -> Ptr] /\ \A u \in Slots \ {t} : work'[u] = work[u]
        BY <2>5 DEF WakeParent
      <3>3. pc' \in [Slots -> Pcs] /\ \A u \in Slots : Handling(u)' => work'[u] # NULL
        BY <3>1, <3>2, GotoType
      <3> QED BY <2>5, <3>2, <3>3 DEF WakeParent, States
    <2>6. CASE Return(t)
      <3>1. PICK p \in Pcs : Goto(t, p) /\ (p \in {"adopt", "add", "unchild", "find", "unlink", "free"} => work'[t] # NULL)
        BY <2>6 DEF Return, Goto, Pcs, Handling
      <3>2. work' \in [Slots -> Ptr] /\ \A u \in Slots \ {t} : work'[u] = work[u]
        BY <2>6 DEF Return
      <3>3. pc' \in [Slots -> Pcs] /\ \A u \in Slots : Handling(u)' => work'[u] # NULL
        BY <3>1, <3>2, GotoType
      <3> QED BY <2>6, <3>2, <3>3 DEF Return, States
    <2>7. CASE Leave(t)
      <3>1. PICK p \in Pcs : Goto(t, p) /\ (p \in {"adopt", "add", "unchild", "find", "unlink", "free"} => work'[t] # NULL)
        BY <2>7 DEF Leave, Goto, Pcs, Handling
      <3>2. work' \in [Slots -> Ptr] /\ \A u \in Slots \ {t} : work'[u] = work[u]
        BY <2>7 DEF Leave
      <3>3. pc' \in [Slots -> Pcs] /\ \A u \in Slots : Handling(u)' => work'[u] # NULL
        BY <3>1, <3>2, GotoType
      <3> QED BY <2>7, <3>2, <3>3, RescheduleType DEF Leave
    <2>8. CASE Fault(t)
      <3>1. PICK p \in Pcs : Goto(t, p) /\ (p \in {"adopt", "add", "unchild", "find", "unlink", "free"} => work'[t] # NULL)
        BY <2>8 DEF Fault, Goto, Pcs, Handling
      <3>2. work' \in [Slots -> Ptr] /\ \A u \in Slots \ {t} : work'[u] = work[u]
        BY <2>8 DEF Fault
      <3>3. pc' \in [Slots -> Pcs] /\ \A u \in Slots : Handling(u)' => work'[u] # NULL
        BY <3>1, <3>2, GotoType
      <3>4. PICK to \in Slots : state' = [[state EXCEPT ![t] = "ZOMBIE"] EXCEPT ![to] = "RUNNING"]
                                  /\ current_task' = to
        BY <2>8, PicksTask DEF Fault, Killed
      <3>5. state' \in [Slots -> States]
        BY <3>4 DEF States
      <3> QED BY <2>8, <3>2, <3>3, <3>4, <3>5 DEF Fault
    <2> QED BY <1>7, <2>1, <2>2, <2>3, <2>4, <2>5, <2>6, <2>7, <2>8 DEF Exit
  <1> QED BY <1>1, <1>2, <1>3, <1>4, <1>5, <1>6, <1>7 DEF Next, Own

(* Every field of every task holds what its type says, and a task that      *)
(* reaps has something to reap: task.c, scheduler.c.                        *)
THEOREM TypeCorrect == Spec => []TypeOK
  BY TypeInit, TypeStep, PTL DEF Spec

-----------------------------------------------------------------------------
(* scheduler_yield gives the CPU to a task of the queue that can run.       *)
LEMMA Chosen ==
    ASSUME TypeOK, RunQueueIntact, NEW st
    PROVE  PickNext(next, st, current_task) \in queued \ Skipped(st)
  <1>1. next \in Links
    BY DEF TypeOK, Links
  <1>2. queued \in SUBSET Slots /\ Ring(next, queued) /\ Idle \in queued /\ current_task \in queued
    BY DEF TypeOK, RunQueueIntact
  <1> QED BY <1>1, <1>2, PicksRunnable

LEMMA Switches ==
    ASSUME TypeOK, StateInv, RunQueueIntact, Reschedule
    PROVE  \E to \in Slots :
             /\ to \in queued
             /\ state[to] = "READY" \/ (state[to] = "RUNNING" /\ to = current_task)
             /\ current_task' = to /\ next' = next
             /\ state' = [[state EXCEPT ![current_task] = IF @ = "RUNNING" THEN "READY" ELSE @]
                            EXCEPT ![to] = "RUNNING"]
  <1> DEFINE to == PickNext(next, state, current_task)
  <1>1. to \in queued \ Skipped(state)
    BY Chosen
  <1>2. /\ current_task' = to /\ next' = next
        /\ state' = [[state EXCEPT ![current_task] = IF @ = "RUNNING" THEN "READY" ELSE @]
                       EXCEPT ![to] = "RUNNING"]
    BY DEF Reschedule
  <1> HIDE DEF to
  <1>3. to \in Slots /\ state[to] \in States /\ state[to] # "FREE"
    BY <1>1 DEF TypeOK, RunQueueIntact, Living
  <1>4. state[to] \notin {"ZOMBIE", "BLOCKED"}
    BY <1>1, <1>3 DEF Skipped, StateInv
  <1>5. state[to] = "READY" \/ (state[to] = "RUNNING" /\ to = current_task)
    BY <1>3, <1>4 DEF States, StateInv, Placed
  <1> QED BY <1>1, <1>2, <1>3, <1>5

(* idle_task only yields.                                                   *)
LEMMA KindsOfPairs ==
    ASSUME TypeOK
    PROVE  /\ \A p \in Starts \cup Adopts :
                /\ p[1] \notin {"none", "idle"}
                /\ p[2] \notin {"none", "idle", "boot"}
           /\ \A k \in Parents : k \notin {"none", "idle"}
  <1>1. build \in Builds
    BY DEF TypeOK
  <1>2. \A p \in Starts \cup Adopts : {p[1], p[2]} \cap {"none", "idle"} = {} /\ p[2] # "boot"
    BY <1>1, BuildAssumption DEF Starts, Adopts
  <1> QED BY <1>2 DEF Parents

LEMMA IdleYields ==
    ASSUME TypeOK, KindInv, NEW t \in Slots
    PROVE  /\ \A c \in Slots, k \in Kinds : Create(t, c, k) => t # Idle
           /\ CallWait(t) \/ ExitCall(t) \/ Return(t) \/ Fault(t) => t # Idle
  <1>1. kind[Idle] = "idle"
    BY DEF KindInv
  <1>2. ASSUME NEW c \in Slots, NEW k \in Kinds, Create(t, c, k) PROVE t # Idle
    <2>1. <<kind[t], k>> \in Starts \cup Adopts
      BY <1>2 DEF Create
    <2>2. <<kind[t], k>>[1] # "idle"
      BY <2>1, KindsOfPairs
    <2> QED BY <1>1, <2>2
  <1>3. ASSUME CallWait(t) PROVE t # Idle
    BY <1>1, <1>3, KindsOfPairs DEF CallWait
  <1>4. ASSUME Deaths(t) # {} PROVE t # Idle
    BY <1>1, <1>4 DEF Deaths
  <1>5. ASSUME ExitCall(t) \/ Return(t) \/ Fault(t) PROVE t # Idle
    BY <1>4, <1>5 DEF ExitCall, Return, Fault
  <1> QED BY <1>2, <1>3, <1>5

(* A task that gives the CPU away is where its state lets it be.            *)
LEMMA SwitchPlaces ==
    ASSUME state \in [Slots -> States], pc \in [Slots -> Pcs], current_task \in Slots,
           StateInv, NEW to \in Slots,
           state[to] = "READY" \/ (state[to] = "RUNNING" /\ to = current_task),
           current_task' = to,
           state' = [[state EXCEPT ![current_task] = IF @ = "RUNNING" THEN "READY" ELSE @]
                       EXCEPT ![to] = "RUNNING"],
           NEW p, pc' = [pc EXCEPT ![current_task] = p],
           \/ state[current_task] = "RUNNING" /\ p = pc[current_task]
           \/ state[current_task] = "BLOCKED" /\ p = "woken"
           \/ state[current_task] = "ZOMBIE" /\ p = "dead"
    PROVE  StateInv'
  <1>1. \A t \in Slots \ {current_task, to} :
           Placed(state[t], pc[t], t = current_task) => Placed(state'[t], pc'[t], t = current_task')
    BY DEF Placed
  <1>2. Placed(state'[to], pc'[to], to = current_task')
    BY DEF StateInv, Placed, OnCpu
  <1>3. current_task # to => Placed(state'[current_task], pc'[current_task], current_task = current_task')
    BY DEF StateInv, Placed, OnCpu
  <1>4. state'[Idle] \in {"READY", "RUNNING"} /\ pc'[Idle] = "run"
    BY IdleAssumption DEF StateInv
  <1> QED BY <1>1, <1>2, <1>3, <1>4 DEF StateInv

LEMMA StateStep ==
    ASSUME TypeOK, StateInv, KindInv, MakingInv, ReapInv, RunQueueIntact, [Next]_vars
    PROVE  StateInv'
  <1> DEFINE Here(t) == current_task = t /\ state[t] = "RUNNING"
  <1>0. state \in [Slots -> States] /\ pc \in [Slots -> Pcs] /\ current_task \in Slots
    BY DEF TypeOK
  <1> USE DEF sched, family, ident, locals, history
  <1>1. CASE UNCHANGED vars
    BY <1>1 DEF vars, StateInv
  <1>2. CASE Tick
    <2>1. CASE Reschedule
      <3>1. state[current_task] = "RUNNING" /\ pc' = [pc EXCEPT ![current_task] = pc[current_task]]
        BY <1>0, <1>2 DEF Tick, Charged
      <3> QED BY <1>0, <2>1, <3>1, Switches, SwitchPlaces
    <2>2. CASE ~Reschedule
      BY <1>2, <2>2 DEF Tick, StateInv
    <2> QED BY <2>1, <2>2
  <1>3. ASSUME NEW t \in Slots, Yield(t) PROVE StateInv'
    <2>1. pc' = [pc EXCEPT ![current_task] = pc[current_task]] /\ state[current_task] = "RUNNING"
      BY <1>0, <1>3 DEF Yield, At, StateInv, Placed, OnCpu, States
    <2> QED BY <1>0, <1>3, <2>1, Switches, SwitchPlaces DEF Yield
  <1>4. ASSUME NEW t \in Slots, Spawn(t) PROVE StateInv'
    <2>1. ASSUME NEW c \in Slots, NEW k \in Kinds, Create(t, c, k) PROVE StateInv'
      <3>1. /\ t # Idle /\ current_task = t /\ pc[t] = "run" /\ state[c] = "FREE" /\ current_task' = t
            /\ state' = [state EXCEPT ![c] = "READY"]
        BY <2>1, IdleYields DEF Create, At
      <3>2. PICK p \in {"adopt", "add"} : pc' = [pc EXCEPT ![t] = p, ![c] = "run"]
        BY <2>1 DEF Create
      <3> QED BY <1>0, <3>1, <3>2, IdleAssumption DEF StateInv, Placed, OnCpu
    <2>2. CASE SetParent(t)
      BY <1>0, <2>2, IdleYields DEF SetParent, At, Goto, StateInv, Placed, OnCpu
    <2>3. CASE Add(t)
      BY <1>0, <2>3, IdleYields DEF Add, At, Goto, StateInv, Placed, OnCpu
    <2> QED BY <1>4, <2>1, <2>2, <2>3 DEF Spawn
  <1>5. ASSUME NEW t \in Slots, Wait(t) PROVE StateInv'
    <2>1. CASE CallWait(t)
      <3>1. /\ t # Idle /\ current_task = t /\ pc[t] = "run" /\ current_task' = t
            /\ state' = state /\ pc' = [pc EXCEPT ![t] = "wait"]
        BY <2>1, IdleYields DEF CallWait, At, Goto
      <3> QED BY <1>0, <3>1, IdleAssumption DEF StateInv, Placed, OnCpu
    <2>2. CASE WaitNoChild(t)
      BY <1>0, <2>2, IdleYields DEF WaitNoChild, At, Goto, StateInv, Placed, OnCpu
    <2>3. CASE WaitBegin(t)
      BY <1>0, <2>3, IdleYields DEF WaitBegin, At, Goto, StateInv, Placed, OnCpu
    <2>4. CASE ScanNext(t)
      BY <1>0, <2>4, IdleYields DEF ScanNext, At, Goto, StateInv, Placed, OnCpu
    <2>5. CASE ScanHit(t)
      BY <1>0, <2>5, IdleYields DEF ScanHit, At, Goto, StateInv, Placed, OnCpu
    <2>6. CASE ScanEnd(t)
      BY <1>0, <2>6, IdleYields DEF ScanEnd, At, Goto, StateInv, Placed, OnCpu
    <2>7. CASE Block(t)
      BY <1>0, <2>7, IdleYields DEF Block, At, Goto, StateInv, Placed, OnCpu
    <2>8. CASE Sleep(t)
      <3>1. pc' = [pc EXCEPT ![current_task] = "woken"] /\ state[current_task] = "BLOCKED"
        BY <1>0, <2>8 DEF Sleep, At, Goto, StateInv, Placed, OnCpu, States
      <3> QED BY <1>0, <2>8, <3>1, Switches, SwitchPlaces DEF Sleep
    <2>9. CASE Retry(t)
      BY <1>0, <2>9, IdleYields DEF Retry, At, Goto, StateInv, Placed, OnCpu
    <2> QED BY <1>5, <2>1, <2>2, <2>3, <2>4, <2>5, <2>6, <2>7, <2>8, <2>9 DEF Wait
  <1>6. ASSUME NEW t \in Slots, Reap(t) PROVE StateInv'
    <2>1. CASE Unchild(t)
      BY <1>0, <2>1, IdleYields DEF Unchild, At, Goto, StateInv, Placed, OnCpu
    <2>2. CASE FindPrevious(t)
      BY <1>0, <2>2, IdleYields DEF FindPrevious, At, Goto, StateInv, Placed, OnCpu
    <2>3. CASE Unlink(t)
      BY <1>0, <2>3, IdleYields DEF Unlink, At, Goto, StateInv, Placed, OnCpu
    <2>4. CASE Free(t)
      BY <1>0, <2>4 DEF Free, At, Goto, StateInv, Placed, OnCpu, ReapInv, Reaped, Reaping
    <2> QED BY <1>6, <2>1, <2>2, <2>3, <2>4 DEF Reap
  <1>7. ASSUME NEW t \in Slots, Exit(t) PROVE StateInv'
    <2>1. CASE ExitCall(t)
      <3>1. /\ t # Idle /\ current_task = t /\ pc[t] = "run" /\ current_task' = t
            /\ state' = state /\ pc' = [pc EXCEPT ![t] = "orphan"]
        BY <2>1, IdleYields DEF ExitCall, At, Goto
      <3> QED BY <1>0, <3>1, IdleAssumption DEF StateInv, Placed, OnCpu
    <2>2. CASE OrphanStep(t)
      BY <1>0, <2>2, IdleYields DEF OrphanStep, At, Goto, StateInv, Placed, OnCpu
    <2>3. CASE OrphanDone(t)
      BY <1>0, <2>3, IdleYields DEF OrphanDone, At, Goto, StateInv, Placed, OnCpu
    <2>4. CASE Die(t)
      BY <1>0, <2>4, IdleYields DEF Die, At, Goto, StateInv, Placed, OnCpu
    <2>5. CASE WakeParent(t)
      <3>1. state[t] = "ZOMBIE" /\ current_task = t /\ pc' = [pc EXCEPT ![t] = "leave"] /\ t # Idle
        BY <1>0, <2>5 DEF WakeParent, At, Goto, StateInv, Placed, OnCpu, States
      <3>2. \A u \in Slots : state'[u] = state[u] \/ (state[u] = "BLOCKED" /\ state'[u] = "READY" /\ u # t)
        BY <1>0, <2>5, <3>1 DEF WakeParent
      <3>3. current_task' = current_task
        BY <2>5 DEF WakeParent
      <3> QED BY <1>0, <3>1, <3>2, <3>3, IdleAssumption DEF StateInv, Placed, OnCpu
    <2>6. CASE Return(t)
      <3>1. /\ t # Idle /\ current_task = t /\ pc[t] = "run" /\ current_task' = t
            /\ state' = [state EXCEPT ![t] = "ZOMBIE"] /\ pc' = [pc EXCEPT ![t] = "leave"]
        BY <2>6, IdleYields DEF Return, At, Goto
      <3> QED BY <1>0, <3>1, IdleAssumption DEF StateInv, Placed, OnCpu
    <2>7. CASE Leave(t)
      <3>1. pc' = [pc EXCEPT ![current_task] = "dead"] /\ state[current_task] = "ZOMBIE"
        BY <1>0, <2>7 DEF Leave, At, Goto, StateInv, Placed, OnCpu, States
      <3> QED BY <1>0, <2>7, <3>1, Switches, SwitchPlaces DEF Leave
    <2>8. CASE Fault(t)
      <3> DEFINE to == PickNext(next, Killed(t), current_task)
      <3>1. /\ current_task = t /\ pc[t] = "run" /\ t # Idle
            /\ state' = [Killed(t) EXCEPT ![to] = "RUNNING"] /\ current_task' = to
            /\ pc' = [pc EXCEPT ![t] = "dead"]
        BY <2>8, IdleYields DEF Fault, At, Goto
      <3>2. to \in queued /\ to \notin Skipped(Killed(t))
        BY Chosen
      <3> HIDE DEF to
      <3>3. to \in Slots /\ state[to] # "FREE"
        BY <3>2 DEF TypeOK, RunQueueIntact, Living
      <3>4. to # t
        BY <1>0, <3>1, <3>2 DEF Skipped, Killed
      <3>5. state[to] = "READY"
        BY <1>0, <3>1, <3>2, <3>3, <3>4 DEF Skipped, Killed, StateInv, Placed, States
      <3>6. \A u \in Slots \ {t, to} : state'[u] = state[u] /\ pc'[u] = pc[u]
        BY <1>0, <3>1 DEF Killed
      <3>7. state'[t] = "ZOMBIE" /\ pc'[t] = "dead" /\ state'[to] = "RUNNING" /\ pc'[to] = pc[to]
        BY <1>0, <3>1, <3>3, <3>4 DEF Killed
      <3> QED BY <1>0, <3>1, <3>3, <3>4, <3>5, <3>6, <3>7, IdleAssumption DEF StateInv, Placed, OnCpu
    <2> QED BY <1>7, <2>1, <2>2, <2>3, <2>4, <2>5, <2>6, <2>7, <2>8 DEF Exit
  <1> QED BY <1>1, <1>2, <1>3, <1>4, <1>5, <1>6, <1>7 DEF Next, Own

(* What every step but Create and Free leaves as it was.                    *)
Calm == /\ \A u \in Slots : state'[u] = "FREE" <=> state[u] = "FREE"
        /\ \A u \in Slots : state[u] = "ZOMBIE" => state'[u] = "ZOMBIE"
        /\ \A u \in Slots : state[u] = "READY" /\ u \notin queued => state'[u] = "READY"
        /\ current_task' = current_task \/ (current_task' \in queued /\ state[current_task'] = "READY")

LEMMA CalmStep ==
    ASSUME TypeOK, StateInv, RunQueueIntact, NEW t \in Slots,
           \/ Tick \/ Yield(t) \/ SetParent(t) \/ Add(t) \/ Wait(t)
           \/ Unchild(t) \/ FindPrevious(t) \/ Unlink(t) \/ Exit(t)
    PROVE  Calm
  <1>0. /\ state \in [Slots -> States] /\ current_task \in Slots /\ current_task \in queued
        /\ At(t, "run") \/ At(t, "block") \/ At(t, "die") => state[t] = "RUNNING"
    BY DEF TypeOK, StateInv, Placed, OnCpu, At, States, RunQueueIntact
  <1> USE DEF sched, family, ident, locals, history
  <1>1. CASE UNCHANGED <<state, current_task>>
    BY <1>1 DEF Calm
  <1>2. CASE Reschedule
    BY <1>0, <1>2, Switches DEF Calm, StateInv, Placed
  <1>3. CASE Block(t) \/ Die(t) \/ Return(t)
    BY <1>0, <1>3 DEF Block, Die, Return, Calm, At
  <1>4. CASE WakeParent(t)
    BY <1>0, <1>4 DEF WakeParent, Calm
  <1>5. CASE Fault(t)
    <2> DEFINE to == PickNext(next, Killed(t), current_task)
    <2>1. /\ current_task = t /\ state[t] = "RUNNING"
          /\ state' = [Killed(t) EXCEPT ![to] = "RUNNING"] /\ current_task' = to
      BY <1>0, <1>5 DEF Fault, At
    <2>2. to \in queued /\ to \notin Skipped(Killed(t))
      BY Chosen
    <2> HIDE DEF to
    <2>3. to \in Slots /\ state[to] # "FREE" /\ to # t /\ state[to] \notin {"ZOMBIE", "BLOCKED"}
      BY <1>0, <2>1, <2>2 DEF TypeOK, RunQueueIntact, Living, Skipped, Killed, StateInv
    <2>4. state[to] = "READY"
      BY <1>0, <2>1, <2>3 DEF StateInv, Placed, States
    <2> QED BY <1>0, <2>1, <2>2, <2>3, <2>4 DEF Calm, Killed
  <1>6. Tick \/ Yield(t) \/ Sleep(t) \/ Leave(t) => UNCHANGED <<state, current_task>> \/ Reschedule
    BY DEF Tick, Yield, Sleep, Leave
  <1>7. SetParent(t) \/ Add(t) \/ Unchild(t) \/ FindPrevious(t) \/ Unlink(t) => UNCHANGED <<state, current_task>>
    BY DEF SetParent, Add, Unchild, FindPrevious, Unlink
  <1>8. Wait(t) => UNCHANGED <<state, current_task>> \/ Sleep(t) \/ Block(t)
    BY DEF Wait, CallWait, WaitNoChild, WaitBegin, ScanNext, ScanHit, ScanEnd, Retry
  <1>9. Exit(t) => \/ UNCHANGED <<state, current_task>> \/ Leave(t) \/ Die(t) \/ Return(t)
                   \/ WakeParent(t) \/ Fault(t)
    BY DEF Exit, ExitCall, OrphanStep, OrphanDone
  <1> QED BY <1>1, <1>2, <1>3, <1>4, <1>5, <1>6, <1>7, <1>8, <1>9

LEMMA PairParent ==
    ASSUME NEW a, NEW b, <<a, b>> \in Adopts
    PROVE  a \in Parents
  <1>1. <<a, b>>[1] = a
    OBVIOUS
  <1> QED BY <1>1 DEF Parents

LEMMA KindStep ==
    ASSUME TypeOK, StateInv, KindInv, MakingInv, ReapInv, ListInv, RunQueueIntact, [Next]_vars
    PROVE  KindInv'
  <1>0. /\ state \in [Slots -> States] /\ pc \in [Slots -> Pcs] /\ current_task \in Slots
        /\ kind \in [Slots -> Kinds] /\ work \in [Slots -> Ptr]
        /\ first_child \in [Slots -> Ptr] /\ parent \in [Slots -> Ptr]
    BY DEF TypeOK
  <1> USE DEF sched, family, ident, locals, history
  <1>1. CASE UNCHANGED vars
    BY <1>1 DEF vars, KindInv, Kinded, Living, Reaping, Making, Starts, Adopts, Parents
  <1>2. CASE Tick
    <2>1. Calm
      BY <1>2, CalmStep, IdleAssumption
    <2> QED BY <1>2, <2>1 DEF Tick, Reschedule, Calm, KindInv, Kinded, Living, Reaping, Making, Starts, Adopts, Parents
  <1>3. ASSUME NEW t \in Slots, Yield(t) PROVE KindInv'
    <2>1. \A u \in Slots : state'[u] = "FREE" <=> state[u] = "FREE"
      BY <1>3, CalmStep DEF Calm
    <2>2. /\ pc' = pc /\ kind' = kind /\ work' = work /\ first_child' = first_child /\ parent' = parent
         /\ Starts' = Starts /\ Adopts' = Adopts /\ Parents' = Parents
      BY <1>3 DEF Yield, Starts, Adopts, Parents
    <2>3. ASSUME NEW u \in Slots PROVE Kinded(u)'
      <3>1. Kinded(u)
        BY DEF KindInv
      <3> QED BY <2>1, <2>2, <3>1 DEF Kinded, Living, Reaping, Making
    <2> QED BY <2>2, <2>3 DEF KindInv
  <1>4. ASSUME NEW t \in Slots, Spawn(t) PROVE KindInv'
    <2>1. ASSUME NEW c \in Slots, NEW k \in Kinds, Create(t, c, k) PROVE KindInv'
      <3>1. /\ <<kind[t], k>> \in Starts \cup Adopts /\ (<<kind[t], k>> \notin Adopts => <<kind[t], k>> \in Starts)
            /\ pc[t] = "run" /\ state[c] = "FREE" /\ kind[c] = "none" /\ t = current_task /\ t # c
            /\ k = "shell" => \A s \in Slots : kind[s] # "shell"
        BY <2>1 DEF Create, At, KindInv, Kinded, StateInv, Placed
      <3>2. k \notin {"none", "boot", "idle"}
        <4>1. <<kind[t], k>>[2] \notin {"none", "boot", "idle"}
          BY <3>1, KindsOfPairs
        <4> QED BY <4>1
      <3>3. /\ kind' = [kind EXCEPT ![c] = k] /\ work' = [work EXCEPT ![t] = c]
            /\ parent' = [parent EXCEPT ![c] = NULL] /\ first_child' = [first_child EXCEPT ![c] = NULL]
            /\ state' = [state EXCEPT ![c] = "READY"] /\ build' = build
        BY <2>1 DEF Create
      <3>4. PICK p \in {"adopt", "add"} :
               /\ pc' = [pc EXCEPT ![t] = p, ![c] = "run"]
               /\ p = "adopt" => <<kind[t], k>> \in Adopts
        BY <2>1 DEF Create
      <3>5. \A u \in Slots : Making(u) => work[u] # c
        BY <3>1 DEF MakingInv, Made
      <3>6. p = "adopt" => kind[t] \in Parents
        BY <3>4, PairParent
      <3>7. kind'[Boot] = "boot" /\ kind'[Idle] = "idle" /\ parent'[Boot] = NULL /\ parent'[Idle] = NULL
        BY <1>0, <3>1, <3>3, BootAssumption, IdleAssumption DEF KindInv
      <3>8. \A u \in Slots \ {c} :
              /\ kind'[u] = kind[u] /\ state'[u] = state[u] /\ first_child'[u] = first_child[u]
              /\ u # t => pc'[u] = pc[u] /\ work'[u] = work[u]
        BY <1>0, <3>3, <3>4
      <3>9. kind'[c] = k /\ state'[c] = "READY" /\ first_child'[c] = NULL /\ pc'[c] = "run" /\ work'[t] = c /\ pc'[t] = p
        BY <1>0, <3>1, <3>3, <3>4
      <3>10. Parents' = Parents /\ Starts' = Starts /\ Adopts' = Adopts
        BY <3>3 DEF Parents, Starts, Adopts
      <3>11. \A u \in Slots \ {c, t} : Kinded(u)'
        <4>1. \A u \in Slots \ {c, t} : Making(u) => work[u] \in Slots
          BY DEF MakingInv, Made
        <4> SUFFICES ASSUME NEW u \in Slots \ {c, t} PROVE Kinded(u)'
          OBVIOUS
        <4>2. Kinded(u) /\ u # c /\ u \in Slots
          BY DEF KindInv
        <4>3. /\ UNCHANGED <<kind[u], state[u], first_child[u], pc[u], work[u]>>
              /\ Making(u) => work[u] # c /\ work[u] \in Slots /\ kind'[work[u]] = kind[work[u]]
          BY <3>5, <3>8, <4>1, <4>2
        <4>4. kind[u] = "shell" => \A s \in Slots : kind'[s] = "shell" => s = u
          BY <3>1, <3>8, <3>9, <4>2 DEF Kinded
        <4> QED BY <3>10, <4>2, <4>3, <4>4 DEF Kinded, Living, Reaping, Making
      <3>12. Kinded(c)'
        BY <3>1, <3>2, <3>8, <3>9 DEF KindInv, Kinded, Living, Reaping, Making
      <3>13. Kinded(t)'
        <4>1. \A s \in Slots : kind[t] = "shell" /\ kind'[s] = "shell" => s = t
          BY <3>1, <3>8, <3>9 DEF KindInv, Kinded
        <4>2. kind'[t] = kind[t] /\ kind'[work'[t]] = k /\ UNCHANGED <<state[t], first_child[t]>>
          BY <3>1, <3>8, <3>9
        <4>3. Kinded(t) /\ (pc'[t] = "adopt" => kind[t] \in Parents) /\ pc'[t] \in {"adopt", "add"}
          BY <3>6, <3>9 DEF KindInv
        <4> QED BY <3>1, <3>10, <4>1, <4>2, <4>3 DEF Kinded, Living, Reaping, Making
      <3> QED BY <3>7, <3>11, <3>12, <3>13 DEF KindInv
    <2>2. CASE SetParent(t)
      <3> DEFINE c == work[t]
      <3>1. c \in Slots /\ kind[t] \in Parents /\ <<kind[t], kind[c]>> \in Starts \cup Adopts
        BY <2>2 DEF SetParent, At, MakingInv, Made, KindInv, Kinded, Making
      <3>2. kind[c] \notin {"boot", "idle"}
        <4>1. <<kind[t], kind[c]>>[2] \notin {"boot", "idle"}
          BY <3>1, KindsOfPairs
        <4> QED BY <4>1
      <3>3. c # Boot /\ c # Idle
        BY <3>2 DEF KindInv, Kinded
      <3> HIDE DEF c
      <3>4. /\ parent' = [parent EXCEPT ![c] = t] /\ first_child' = [first_child EXCEPT ![t] = c]
            /\ pc' = [pc EXCEPT ![t] = "add"] /\ pc[t] = "adopt"
            /\ UNCHANGED <<kind, work, state, build>>
        BY <2>2 DEF SetParent, At, Goto, c
      <3> QED BY <1>0, <3>1, <3>3, <3>4, BootAssumption, IdleAssumption DEF KindInv, Kinded, Living, Reaping, Making, Starts, Adopts, Parents
    <2>3. CASE Add(t)
      BY <1>0, <2>3 DEF Add, At, Goto, KindInv, Kinded, Living, Reaping, Making, Starts, Adopts, Parents
    <2> QED BY <1>4, <2>1, <2>2, <2>3 DEF Spawn
  <1>5. ASSUME NEW t \in Slots, Wait(t) PROVE KindInv'
    <2>1. CASE CallWait(t)
      BY <1>0, <2>1 DEF CallWait, At, Goto, KindInv, Kinded, Living, Reaping, Making, Starts, Adopts, Parents
    <2>2. CASE WaitNoChild(t)
      BY <1>0, <2>2 DEF WaitNoChild, At, Goto, KindInv, Kinded, Living, Reaping, Making, Starts, Adopts, Parents
    <2>3. CASE WaitBegin(t)
      <3>1. kind[t] \in Parents
        BY <1>0, <2>3 DEF WaitBegin, At, KindInv, Kinded, Living, StateInv, Placed
      <3> QED BY <1>0, <2>3, <3>1 DEF WaitBegin, At, Goto, KindInv, Kinded, Living, Reaping, Making, Starts, Adopts, Parents
    <2>4. CASE ScanNext(t)
      BY <1>0, <2>4 DEF ScanNext, At, Goto, KindInv, Kinded, Living, Reaping, Making, Starts, Adopts, Parents
    <2>5. CASE ScanHit(t)
      BY <1>0, <2>5 DEF ScanHit, At, Goto, KindInv, Kinded, Living, Reaping, Making, Starts, Adopts, Parents
    <2>6. CASE ScanEnd(t)
      BY <1>0, <2>6 DEF ScanEnd, At, Goto, KindInv, Kinded, Living, Reaping, Making, Starts, Adopts, Parents
    <2>7. CASE Block(t)
      <3>1. Calm
        BY <2>7, CalmStep DEF Wait
      <3> QED BY <1>0, <2>7, <3>1 DEF Block, Reschedule, Calm, At, Goto, KindInv, Kinded, Living, Reaping, Making, Starts, Adopts, Parents
    <2>8. CASE Sleep(t)
      <3>1. Calm
        BY <2>8, CalmStep DEF Wait
      <3> QED BY <1>0, <2>8, <3>1 DEF Sleep, Reschedule, Calm, At, Goto, KindInv, Kinded, Living, Reaping, Making, Starts, Adopts, Parents
    <2>9. CASE Retry(t)
      BY <1>0, <2>9 DEF Retry, At, Goto, KindInv, Kinded, Living, Reaping, Making, Starts, Adopts, Parents
    <2> QED BY <1>5, <2>1, <2>2, <2>3, <2>4, <2>5, <2>6, <2>7, <2>8, <2>9 DEF Wait
  <1>6. ASSUME NEW t \in Slots, Reap(t) PROVE KindInv'
    <2>1. CASE Unchild(t)
      BY <1>0, <2>1 DEF Unchild, At, Goto, KindInv, Kinded, Living, Reaping, Making, Starts, Adopts, Parents
    <2>2. CASE FindPrevious(t)
      BY <1>0, <2>2 DEF FindPrevious, At, Goto, KindInv, Kinded, Living, Reaping, Making, Starts, Adopts, Parents
    <2>3. CASE Unlink(t)
      BY <1>0, <2>3 DEF Unlink, At, Goto, KindInv, Kinded, Living, Reaping, Making, Starts, Adopts, Parents
    <2>4. CASE Free(t)
      <3>1. /\ work[t] \in Slots /\ state[work[t]] = "ZOMBIE" /\ parent[work[t]] = t /\ work[t] # current_task
            /\ t = current_task
        BY <2>4 DEF Free, At, ReapInv, Reaped, Reaping
      <3>2. work[t] \notin {Boot, Idle}
        BY <3>1, NullAssumption DEF KindInv
      <3>3. \A u \in Slots : Making(u) => work[u] # work[t] /\ u # work[t]
        BY <1>0, <3>1 DEF MakingInv, Made, Making, StateInv, Placed
      <3>4. Parents' = Parents /\ Starts' = Starts /\ Adopts' = Adopts
        BY <2>4 DEF Free, Parents, Starts, Adopts
      <3> DEFINE z == work[t]
      <3>5. \A u \in Slots \ {z} :
              /\ kind'[u] = kind[u] /\ state'[u] = state[u]
              /\ u # t => pc'[u] = pc[u]
        BY <1>0, <2>4 DEF Free, Goto
      <3>6. /\ kind'[z] = "none" /\ state'[z] = "FREE" /\ pc'[z] = "dead" /\ pc'[t] = "run"
            /\ UNCHANGED <<work, first_child, parent>>
        BY <1>0, <2>4, <3>1 DEF Free, Goto, StateInv, Placed
      <3> HIDE DEF z
      <3>7. \A u \in Slots : Making(u) => work[u] \in Slots
        BY DEF MakingInv, Made
      <3>8. \A u \in Slots : Kinded(u)'
        <4> SUFFICES ASSUME NEW u \in Slots PROVE Kinded(u)'
          OBVIOUS
        <4>1. CASE u = z
          BY <3>6, <4>1, NullAssumption DEF Kinded, Living, Reaping, Making
        <4>2. CASE u # z
          <5>1. Kinded(u) /\ UNCHANGED <<kind[u], state[u], first_child[u], work[u]>>
            BY <3>5, <3>6, <4>2 DEF KindInv
          <5>2. pc'[u] = pc[u] \/ pc'[u] = "run"
            BY <3>5, <3>6, <4>2
          <5>3. Making(u) => kind'[work[u]] = kind[work[u]]
            BY <3>3, <3>5, <3>7 DEF z
          <5>4. kind[u] = "shell" => \A s \in Slots : kind'[s] = "shell" => s = u
            BY <3>5, <3>6, <5>1 DEF Kinded
          <5> QED BY <3>4, <5>1, <5>2, <5>3, <5>4 DEF Kinded, Living, Reaping, Making
        <4> QED BY <4>1, <4>2
      <3>9. kind'[Boot] = "boot" /\ kind'[Idle] = "idle"
        BY <3>2, <3>5, BootAssumption, IdleAssumption DEF z, KindInv
      <3> QED BY <3>6, <3>8, <3>9 DEF KindInv
    <2> QED BY <1>6, <2>1, <2>2, <2>3, <2>4 DEF Reap
  <1>7. ASSUME NEW t \in Slots, Exit(t) PROVE KindInv'
    <2>1. CASE ExitCall(t)
      BY <1>0, <2>1 DEF ExitCall, At, Goto, KindInv, Kinded, Living, Reaping, Making, Starts, Adopts, Parents
    <2>2. CASE OrphanStep(t)
      <3>1. work[t] \in Slots
        BY <1>0, <2>2 DEF OrphanStep
      <3>2. /\ pc[t] = "orphan" /\ \A u \in Slots \ {t} : work'[u] = work[u]
            /\ UNCHANGED <<kind, state, pc, first_child, build>>
        BY <1>0, <2>2 DEF OrphanStep, At
      <3>3. parent'[Boot] = NULL /\ parent'[Idle] = NULL
        BY <1>0, <2>2, <3>1, BootAssumption, IdleAssumption DEF OrphanStep, KindInv
      <3> QED BY <3>2, <3>3 DEF KindInv, Kinded, Living, Reaping, Making, Starts, Adopts, Parents
    <2>3. CASE OrphanDone(t)
      BY <1>0, <2>3 DEF OrphanDone, At, Goto, KindInv, Kinded, Living, Reaping, Making, Starts, Adopts, Parents
    <2>4. CASE Die(t)
      <3>1. Calm
        BY <2>4, CalmStep DEF Exit
      <3> QED BY <1>0, <2>4, <3>1 DEF Die, Reschedule, Calm, At, Goto, KindInv, Kinded, Living, Reaping, Making, Starts, Adopts, Parents
    <2>5. CASE WakeParent(t)
      <3>1. Calm
        BY <2>5, CalmStep DEF Exit
      <3> QED BY <1>0, <2>5, <3>1 DEF WakeParent, Reschedule, Calm, At, Goto, KindInv, Kinded, Living, Reaping, Making, Starts, Adopts, Parents
    <2>6. CASE Return(t)
      <3>1. Calm
        BY <2>6, CalmStep DEF Exit
      <3> QED BY <1>0, <2>6, <3>1 DEF Return, Reschedule, Calm, At, Goto, KindInv, Kinded, Living, Reaping, Making, Starts, Adopts, Parents
    <2>7. CASE Leave(t)
      <3>1. Calm
        BY <2>7, CalmStep DEF Exit
      <3> QED BY <1>0, <2>7, <3>1 DEF Leave, Reschedule, Calm, At, Goto, KindInv, Kinded, Living, Reaping, Making, Starts, Adopts, Parents
    <2>8. CASE Fault(t)
      <3>1. Calm
        BY <2>8, CalmStep DEF Exit
      <3> QED BY <1>0, <2>8, <3>1 DEF Fault, Reschedule, Calm, At, Goto, KindInv, Kinded, Living, Reaping, Making, Starts, Adopts, Parents
    <2> QED BY <1>7, <2>1, <2>2, <2>3, <2>4, <2>5, <2>6, <2>7, <2>8 DEF Exit
  <1> QED BY <1>1, <1>2, <1>3, <1>4, <1>5, <1>6, <1>7 DEF Next, Own

(* A task that is on the queue makes nothing of what is being made.         *)
LEMMA MakingFrame ==
    ASSUME TypeOK, RunQueueIntact, MakingInv, Calm, NEW t \in Slots, current_task = t,
           ~Making(t), ~Making(t)',
           \A u \in Slots \ {t} : /\ UNCHANGED <<pc[u], work[u], first_child[u]>>
                                  /\ parent'[u] \in {parent[u], NULL},
           queued' \subseteq queued
    PROVE  MakingInv'
  <1> SUFFICES ASSUME NEW u \in Slots, Making(u)' PROVE Made(work[u], u)'
    BY DEF MakingInv
  <1>1. u # t /\ Making(u) /\ work'[u] = work[u] /\ pc'[u] = pc[u]
    BY DEF Making
  <1>2. Made(work[u], u)
    BY <1>1 DEF MakingInv
  <1>3. work[u] \in Slots \ {t} /\ state'[work[u]] = "READY"
    BY <1>2 DEF Made, Calm, RunQueueIntact
  <1>4. \A v \in Slots : Making(v)' => v # t /\ Making(v) /\ work'[v] = work[v]
    BY DEF Making
  <1> QED BY <1>1, <1>2, <1>3, <1>4 DEF Made

LEMMA MakingStep ==
    ASSUME TypeOK, StateInv, KindInv, MakingInv, ReapInv, RunQueueIntact, [Next]_vars
    PROVE  MakingInv'
  <1>0. /\ state \in [Slots -> States] /\ pc \in [Slots -> Pcs] /\ current_task \in Slots
        /\ work \in [Slots -> Ptr] /\ queued \subseteq Slots
        /\ first_child \in [Slots -> Ptr] /\ parent \in [Slots -> Ptr]
    BY DEF TypeOK
  <1> USE DEF sched, family, ident, locals, history
  <1>1. CASE UNCHANGED vars
    BY <1>1 DEF vars, MakingInv, Made, Making
  <1>2. CASE Tick
    <2>1. Calm
      BY <1>2, CalmStep, IdleAssumption
    <2>2. UNCHANGED <<pc, work, queued, first_child, parent>>
      BY <1>2 DEF Tick
    <2> QED BY <2>1, <2>2 DEF Calm, MakingInv, Made, Making
  <1>3. ASSUME NEW t \in Slots, Yield(t) PROVE MakingInv'
    <2>1. Calm /\ current_task = t /\ ~Making(t) /\ UNCHANGED <<pc, work, queued, first_child, parent>>
      BY <1>3, CalmStep DEF Yield, At, Making
    <2> QED BY <2>1, MakingFrame DEF Making
  <1>4. ASSUME NEW t \in Slots, Spawn(t) PROVE MakingInv'
    <2>1. ASSUME NEW c \in Slots, NEW k \in Kinds, Create(t, c, k) PROVE MakingInv'
      <3>1. /\ current_task = t /\ pc[t] = "run" /\ state[c] = "FREE" /\ c \notin queued /\ c # t
            /\ t \in queued
        BY <2>1 DEF Create, At, RunQueueIntact, Living
      <3>2. /\ \A u \in Slots \ {c} : UNCHANGED <<state[u], first_child[u], parent[u]>>
            /\ \A u \in Slots \ {c, t} : pc'[u] = pc[u]
            /\ \A u \in Slots \ {t} : work'[u] = work[u]
            /\ state'[c] = "READY" /\ first_child'[c] = NULL /\ parent'[c] = NULL /\ pc'[c] = "run"
            /\ pc'[t] \in {"adopt", "add"} /\ work'[t] = c /\ queued' = queued
        BY <1>0, <2>1, <3>1 DEF Create
      <3>3. \A u \in Slots : Making(u) => work[u] # c /\ u # c
        BY <3>1 DEF MakingInv, Made, Making, StateInv, Placed
      <3> SUFFICES ASSUME NEW u \in Slots, Making(u)' PROVE Made(work[u], u)'
        BY DEF MakingInv
      <3>4. CASE u = t
        BY <3>1, <3>2, <3>3, <3>4 DEF Made, Making
      <3>5. CASE u # t
        BY <3>1, <3>2, <3>3, <3>5 DEF MakingInv, Made, Making
      <3> QED BY <3>4, <3>5
    <2>2. CASE SetParent(t)
      <3>1. Calm
        BY <2>2, CalmStep
      <3>2. /\ pc[t] = "adopt" /\ work[t] \in Slots /\ t \in queued
            /\ \A u \in Slots \ {t} : pc'[u] = pc[u] /\ first_child'[u] = first_child[u]
            /\ \A u \in Slots \ {work[t]} : parent'[u] = parent[u]
            /\ pc'[t] = "add" /\ parent'[work[t]] = t /\ UNCHANGED <<work, queued>>
        BY <1>0, <2>2 DEF SetParent, At, Goto, MakingInv, Made, Making, RunQueueIntact
      <3> QED BY <3>1, <3>2 DEF Calm, MakingInv, Made, Making
    <2>3. CASE Add(t)
      <3>1. Calm
        BY <2>3, CalmStep
      <3>2. /\ pc[t] = "add" /\ t \in queued /\ queued' = queued \cup {work[t]}
            /\ \A u \in Slots \ {t} : pc'[u] = pc[u]
            /\ pc'[t] \in {"run", "wait"} /\ UNCHANGED <<work, first_child, parent>>
        BY <1>0, <2>3 DEF Add, At, Goto, RunQueueIntact
      <3>3. \A u \in Slots : Making(u) /\ work[u] = work[t] => u = t
        BY <3>2 DEF MakingInv, Made, Making
      <3> QED BY <3>1, <3>2, <3>3 DEF Calm, MakingInv, Made, Making
    <2> QED BY <1>4, <2>1, <2>2, <2>3 DEF Spawn
  <1>5. ASSUME NEW t \in Slots, Wait(t) PROVE MakingInv'
    <2>1. CASE CallWait(t)
      <3>1. Calm
        BY <2>1, CalmStep DEF Wait
      <3>2. /\ current_task = t /\ ~Making(t) /\ ~Making(t)' /\ queued' \subseteq queued
            /\ \A u \in Slots \ {t} : /\ UNCHANGED <<pc[u], work[u], first_child[u]>>
                                      /\ parent'[u] \in {parent[u], NULL}
        BY <1>0, <2>1 DEF CallWait, At, Goto, Making
      <3> QED BY <3>1, <3>2, MakingFrame
    <2>2. CASE WaitNoChild(t)
      <3>1. Calm
        BY <2>2, CalmStep DEF Wait
      <3>2. /\ current_task = t /\ ~Making(t) /\ ~Making(t)' /\ queued' \subseteq queued
            /\ \A u \in Slots \ {t} : /\ UNCHANGED <<pc[u], work[u], first_child[u]>>
                                      /\ parent'[u] \in {parent[u], NULL}
        BY <1>0, <2>2 DEF WaitNoChild, At, Goto, Making
      <3> QED BY <3>1, <3>2, MakingFrame
    <2>3. CASE WaitBegin(t)
      <3>1. Calm
        BY <2>3, CalmStep DEF Wait
      <3>2. /\ current_task = t /\ ~Making(t) /\ ~Making(t)' /\ queued' \subseteq queued
            /\ \A u \in Slots \ {t} : /\ UNCHANGED <<pc[u], work[u], first_child[u]>>
                                      /\ parent'[u] \in {parent[u], NULL}
        BY <1>0, <2>3 DEF WaitBegin, At, Goto, Making
      <3> QED BY <3>1, <3>2, MakingFrame
    <2>4. CASE ScanNext(t)
      <3>1. Calm
        BY <2>4, CalmStep DEF Wait
      <3>2. /\ current_task = t /\ ~Making(t) /\ ~Making(t)' /\ queued' \subseteq queued
            /\ \A u \in Slots \ {t} : /\ UNCHANGED <<pc[u], work[u], first_child[u]>>
                                      /\ parent'[u] \in {parent[u], NULL}
        BY <1>0, <2>4 DEF ScanNext, At, Goto, Making
      <3> QED BY <3>1, <3>2, MakingFrame
    <2>5. CASE ScanHit(t)
      <3>1. Calm
        BY <2>5, CalmStep DEF Wait
      <3>2. /\ current_task = t /\ ~Making(t) /\ ~Making(t)' /\ queued' \subseteq queued
            /\ \A u \in Slots \ {t} : /\ UNCHANGED <<pc[u], work[u], first_child[u]>>
                                      /\ parent'[u] \in {parent[u], NULL}
        BY <1>0, <2>5 DEF ScanHit, At, Goto, Making
      <3> QED BY <3>1, <3>2, MakingFrame
    <2>6. CASE ScanEnd(t)
      <3>1. Calm
        BY <2>6, CalmStep DEF Wait
      <3>2. /\ current_task = t /\ ~Making(t) /\ ~Making(t)' /\ queued' \subseteq queued
            /\ \A u \in Slots \ {t} : /\ UNCHANGED <<pc[u], work[u], first_child[u]>>
                                      /\ parent'[u] \in {parent[u], NULL}
        BY <1>0, <2>6 DEF ScanEnd, At, Goto, Making
      <3> QED BY <3>1, <3>2, MakingFrame
    <2>7. CASE Block(t)
      <3>1. Calm
        BY <2>7, CalmStep DEF Wait
      <3>2. /\ current_task = t /\ ~Making(t) /\ ~Making(t)' /\ queued' \subseteq queued
            /\ \A u \in Slots \ {t} : /\ UNCHANGED <<pc[u], work[u], first_child[u]>>
                                      /\ parent'[u] \in {parent[u], NULL}
        BY <1>0, <2>7 DEF Block, At, Goto, Making
      <3> QED BY <3>1, <3>2, MakingFrame
    <2>8. CASE Sleep(t)
      <3>1. Calm
        BY <2>8, CalmStep DEF Wait
      <3>2. /\ current_task = t /\ ~Making(t) /\ ~Making(t)' /\ queued' \subseteq queued
            /\ \A u \in Slots \ {t} : /\ UNCHANGED <<pc[u], work[u], first_child[u]>>
                                      /\ parent'[u] \in {parent[u], NULL}
        BY <1>0, <2>8 DEF Sleep, At, Goto, Making
      <3> QED BY <3>1, <3>2, MakingFrame
    <2>9. CASE Retry(t)
      <3>1. Calm
        BY <2>9, CalmStep DEF Wait
      <3>2. /\ current_task = t /\ ~Making(t) /\ ~Making(t)' /\ queued' \subseteq queued
            /\ \A u \in Slots \ {t} : /\ UNCHANGED <<pc[u], work[u], first_child[u]>>
                                      /\ parent'[u] \in {parent[u], NULL}
        BY <1>0, <2>9 DEF Retry, At, Goto, Making
      <3> QED BY <3>1, <3>2, MakingFrame
    <2> QED BY <1>5, <2>1, <2>2, <2>3, <2>4, <2>5, <2>6, <2>7, <2>8, <2>9 DEF Wait
  <1>6. ASSUME NEW t \in Slots, Reap(t) PROVE MakingInv'
    <2>1. CASE Unchild(t)
      <3>1. Calm
        BY <2>1, CalmStep DEF Reap
      <3>2. /\ current_task = t /\ ~Making(t) /\ ~Making(t)' /\ queued' \subseteq queued
            /\ \A u \in Slots \ {t} : /\ UNCHANGED <<pc[u], work[u], first_child[u]>>
                                      /\ parent'[u] \in {parent[u], NULL}
        BY <1>0, <2>1 DEF Unchild, At, Goto, Making
      <3> QED BY <3>1, <3>2, MakingFrame
    <2>2. CASE FindPrevious(t)
      <3>1. Calm
        BY <2>2, CalmStep DEF Reap
      <3>2. /\ current_task = t /\ ~Making(t) /\ ~Making(t)' /\ queued' \subseteq queued
            /\ \A u \in Slots \ {t} : /\ UNCHANGED <<pc[u], work[u], first_child[u]>>
                                      /\ parent'[u] \in {parent[u], NULL}
        BY <1>0, <2>2 DEF FindPrevious, At, Goto, Making
      <3> QED BY <3>1, <3>2, MakingFrame
    <2>3. CASE Unlink(t)
      <3>1. Calm
        BY <2>3, CalmStep DEF Reap
      <3>2. /\ current_task = t /\ ~Making(t) /\ ~Making(t)' /\ queued' \subseteq queued
            /\ \A u \in Slots \ {t} : /\ UNCHANGED <<pc[u], work[u], first_child[u]>>
                                      /\ parent'[u] \in {parent[u], NULL}
        BY <1>0, <2>3 DEF Unlink, At, Goto, Making
      <3> QED BY <3>1, <3>2, MakingFrame
    <2>4. CASE Free(t)
      <3>1. work[t] \in Slots /\ state[work[t]] = "ZOMBIE" /\ current_task = t /\ pc[t] = "free"
        BY <2>4 DEF Free, At, ReapInv, Reaped, Reaping
      <3>2. /\ \A u \in Slots \ {work[t]} : state'[u] = state[u]
            /\ \A u \in Slots \ {t} : pc'[u] = pc[u]
            /\ pc'[t] = "run" /\ UNCHANGED <<work, first_child, parent, queued>>
        BY <1>0, <2>4 DEF Free, Goto
      <3>3. t \in queued
        BY <3>1 DEF RunQueueIntact
      <3> QED BY <3>1, <3>2, <3>3 DEF MakingInv, Made, Making
    <2> QED BY <1>6, <2>1, <2>2, <2>3, <2>4 DEF Reap
  <1>7. ASSUME NEW t \in Slots, Exit(t) PROVE MakingInv'
    <2>1. CASE ExitCall(t)
      <3>1. Calm
        BY <2>1, CalmStep DEF Exit
      <3>2. /\ current_task = t /\ ~Making(t) /\ ~Making(t)' /\ queued' \subseteq queued
            /\ \A u \in Slots \ {t} : /\ UNCHANGED <<pc[u], work[u], first_child[u]>>
                                      /\ parent'[u] \in {parent[u], NULL}
        BY <1>0, <2>1 DEF ExitCall, At, Goto, Making
      <3> QED BY <3>1, <3>2, MakingFrame
    <2>2. CASE OrphanStep(t)
      <3>1. Calm
        BY <2>2, CalmStep DEF Exit
      <3>2. /\ current_task = t /\ ~Making(t) /\ ~Making(t)' /\ queued' \subseteq queued
            /\ \A u \in Slots \ {t} : /\ UNCHANGED <<pc[u], work[u], first_child[u]>>
                                      /\ parent'[u] \in {parent[u], NULL}
        BY <1>0, <2>2 DEF OrphanStep, At, Goto, Making
      <3> QED BY <3>1, <3>2, MakingFrame
    <2>3. CASE OrphanDone(t)
      <3>1. Calm
        BY <2>3, CalmStep DEF Exit
      <3>2. /\ current_task = t /\ ~Making(t) /\ ~Making(t)' /\ queued' \subseteq queued
            /\ \A u \in Slots \ {t} : /\ UNCHANGED <<pc[u], work[u], first_child[u]>>
                                      /\ parent'[u] \in {parent[u], NULL}
        BY <1>0, <2>3 DEF OrphanDone, At, Goto, Making
      <3> QED BY <3>1, <3>2, MakingFrame
    <2>4. CASE Die(t)
      <3>1. Calm
        BY <2>4, CalmStep DEF Exit
      <3>2. /\ current_task = t /\ ~Making(t) /\ ~Making(t)' /\ queued' \subseteq queued
            /\ \A u \in Slots \ {t} : /\ UNCHANGED <<pc[u], work[u], first_child[u]>>
                                      /\ parent'[u] \in {parent[u], NULL}
        BY <1>0, <2>4 DEF Die, At, Goto, Making
      <3> QED BY <3>1, <3>2, MakingFrame
    <2>5. CASE WakeParent(t)
      <3>1. Calm
        BY <2>5, CalmStep DEF Exit
      <3>2. /\ current_task = t /\ ~Making(t) /\ ~Making(t)' /\ queued' \subseteq queued
            /\ \A u \in Slots \ {t} : /\ UNCHANGED <<pc[u], work[u], first_child[u]>>
                                      /\ parent'[u] \in {parent[u], NULL}
        BY <1>0, <2>5 DEF WakeParent, At, Goto, Making
      <3> QED BY <3>1, <3>2, MakingFrame
    <2>6. CASE Return(t)
      <3>1. Calm
        BY <2>6, CalmStep DEF Exit
      <3>2. /\ current_task = t /\ ~Making(t) /\ ~Making(t)' /\ queued' \subseteq queued
            /\ \A u \in Slots \ {t} : /\ UNCHANGED <<pc[u], work[u], first_child[u]>>
                                      /\ parent'[u] \in {parent[u], NULL}
        BY <1>0, <2>6 DEF Return, At, Goto, Making
      <3> QED BY <3>1, <3>2, MakingFrame
    <2>7. CASE Leave(t)
      <3>1. Calm
        BY <2>7, CalmStep DEF Exit
      <3>2. /\ current_task = t /\ ~Making(t) /\ ~Making(t)' /\ queued' \subseteq queued
            /\ \A u \in Slots \ {t} : /\ UNCHANGED <<pc[u], work[u], first_child[u]>>
                                      /\ parent'[u] \in {parent[u], NULL}
        BY <1>0, <2>7 DEF Leave, At, Goto, Making
      <3> QED BY <3>1, <3>2, MakingFrame
    <2>8. CASE Fault(t)
      <3>1. Calm
        BY <2>8, CalmStep DEF Exit
      <3>2. /\ current_task = t /\ ~Making(t) /\ ~Making(t)' /\ queued' \subseteq queued
            /\ \A u \in Slots \ {t} : /\ UNCHANGED <<pc[u], work[u], first_child[u]>>
                                      /\ parent'[u] \in {parent[u], NULL}
        BY <1>0, <2>8 DEF Fault, At, Goto, Making
      <3> QED BY <3>1, <3>2, MakingFrame
    <2> QED BY <1>7, <2>1, <2>2, <2>3, <2>4, <2>5, <2>6, <2>7, <2>8 DEF Exit
  <1> QED BY <1>1, <1>2, <1>3, <1>4, <1>5, <1>6, <1>7 DEF Next, Own

(* The list of a task that lives leads only to its children.                *)
LEMMA ChildrenAreMine ==
    ASSUME TypeOK, ListInv, NEW t \in Slots, Living(t), pc[t] # "orphan"
    PROVE  Children(t) \subseteq {c \in Slots : Child(c, t)}
  <1> DEFINE C == {c \in Slots : Child(c, t)}
  <1>1. first_child[t] \in C \cup {NULL}
    BY DEF TypeOK, ListInv, Listed, Heads
  <1>2. \A c \in C : next_sibling[c] \in C \cup {NULL}
    BY DEF TypeOK, ListInv, Linked
  <1>3. Closed(next_sibling, first_child[t], Slots, C)
    BY <1>1, <1>2 DEF Closed
  <1> QED BY <1>3, WalkWithin DEF Children

(* Lists are not disturbed by a task that only moves along its own.         *)
LEMMA ListFrame ==
    ASSUME TypeOK, ListInv, \A u \in Slots : Living(u)' <=> Living(u),
           UNCHANGED <<parent, first_child, next_sibling>>,
           NEW t \in Slots, pc[t] # "orphan",
           \A u \in Slots \ {t} : UNCHANGED <<pc[u], work[u]>>,
           pc'[t] = "orphan" => work'[t] = first_child[t] /\ Living(t),
           pc'[t] \in {"scan", "unchild"} => work'[t] \in Children(t) \cup {NULL}
    PROVE  ListInv'
  <1> SUFFICES ASSUME NEW u \in Slots PROVE Linked(u)' /\ Listed(u)'
    BY DEF ListInv
  <1>1. \A c \in Slots : Child(c, u)' <=> Child(c, u)
    BY DEF Child
  <1>2. Linked(u)'
    BY <1>1 DEF ListInv, Linked
  <1>3. Listed(u)
    BY DEF ListInv
  <1>4. \A c \in Slots : Heads(c, u)' <=> Heads(c, u)
    BY <1>1 DEF Heads
  <1>5. Children(u)' = Children(u)
    BY DEF Children
  <1> HIDE DEF ListInv
  <1>6. CASE u = t
    BY <1>2, <1>3, <1>4, <1>5, <1>6, NullAssumption DEF Listed
  <1>7. CASE u # t
    <2>1. UNCHANGED <<pc[u], work[u], first_child[u]>> /\ (Living(u)' <=> Living(u))
      BY <1>7
    <2> QED BY <1>2, <1>3, <1>4, <1>5, <2>1 DEF Listed
  <1> QED BY <1>2, <1>6, <1>7

(* A list whose own links stay is not disturbed.                            *)
LEMMA ListSame ==
    ASSUME TypeOK, StateInv, ListInv, NEW u \in Slots,
           \A d \in Slots : Child(d, u)' <=> Child(d, u),
           \A d \in Slots : Child(d, u) => next_sibling'[d] = next_sibling[d],
           UNCHANGED <<pc[u], work[u], first_child[u]>>, Living(u)' => Living(u)
    PROVE  Linked(u)' /\ Listed(u)'
  <1>1. Linked(u) /\ Listed(u)
    BY DEF ListInv
  <1>2. Linked(u)'
    BY <1>1 DEF Linked
  <1>3. \A d \in Slots : Heads(d, u)' <=> Heads(d, u)
    BY DEF Heads
  <1>4. pc[u] \in {"scan", "unchild"} => Children(u)' = Children(u)
    <2> SUFFICES ASSUME pc[u] \in {"scan", "unchild"} PROVE Children(u)' = Children(u)
      OBVIOUS
    <2> DEFINE C == {d \in Slots : Child(d, u)}
    <2>1. Living(u)
      BY DEF Living, StateInv, Placed
    <2>2. Closed(next_sibling, first_child[u], Slots, C)
      BY <1>1, <2>1 DEF TypeOK, Closed, Linked, Listed, Heads
    <2> QED BY <2>2, WalkSame DEF Children
  <1> QED BY <1>1, <1>2, <1>3, <1>4 DEF Listed

(* Unchild leaves the lists of the others alone.                            *)
LEMMA UnchildOthers ==
    ASSUME TypeOK, StateInv, ListInv, NEW t \in Slots, Linked(t)', Listed(t)',
           Children(t) \subseteq {c \in Slots : Child(c, t)},
           UNCHANGED <<state, parent, work>>,
           \A u \in Slots \ {t} : UNCHANGED <<pc[u], first_child[u]>>,
           \A d, u \in Slots : Child(d, u)' <=> Child(d, u),
           \A c \in Slots : ~Child(c, t) => next_sibling'[c] = next_sibling[c]
    PROVE  ListInv'
  <1> SUFFICES ASSUME NEW u \in Slots, u # t PROVE Linked(u)' /\ Listed(u)'
    BY DEF ListInv
  <1>1. UNCHANGED <<pc[u], work[u], first_child[u]>> /\ (Living(u)' => Living(u))
    BY DEF Living
  <1>2. \A d \in Slots : Child(d, u) => next_sibling'[d] = next_sibling[d]
    BY DEF Child
  <1> QED BY <1>1, <1>2, ListSame

LEMMA ListStep ==
    ASSUME TypeOK, StateInv, KindInv, MakingInv, ReapInv, ListInv, RunQueueIntact, [Next]_vars
    PROVE  ListInv'
  <1>0. /\ state \in [Slots -> States] /\ pc \in [Slots -> Pcs] /\ current_task \in Slots
        /\ work \in [Slots -> Ptr] /\ parent \in [Slots -> Ptr]
        /\ first_child \in [Slots -> Ptr] /\ next_sibling \in [Slots -> Ptr]
    BY DEF TypeOK
  <1>F. \A t \in Slots : first_child[t] \in Children(t) \cup {NULL}
    BY <1>0, WalkStart DEF Children
  <1>L. \A t \in Slots : t = current_task => Living(t)
    BY DEF Living, StateInv, Placed
  <1> USE DEF sched, family, ident, locals, history
  <1>1. CASE UNCHANGED vars
    BY <1>1 DEF vars, ListInv, Linked, Listed, Heads, Child, Living, Children
  <1>2. CASE Tick
    <2>1. Calm
      BY <1>2, CalmStep, IdleAssumption
    <2>2. UNCHANGED <<pc, work, parent, first_child, next_sibling>> /\ pc[Idle] = "run"
      BY <1>2 DEF Tick, StateInv
    <2>3. \A u \in Slots : Living(u)' <=> Living(u)
      BY <2>1 DEF Calm, Living
    <2> QED BY <2>2, <2>3, ListFrame, IdleAssumption
  <1>3. ASSUME NEW t \in Slots, Yield(t) PROVE ListInv'
    <2>1. Calm /\ pc[t] = "run" /\ UNCHANGED <<pc, work, parent, first_child, next_sibling>>
      BY <1>3, CalmStep DEF Yield, At
    <2>2. \A u \in Slots : Living(u)' <=> Living(u)
      BY <2>1 DEF Calm, Living
    <2> QED BY <2>1, <2>2, ListFrame
  <1>4. ASSUME NEW t \in Slots, Spawn(t) PROVE ListInv'
    <2>1. ASSUME NEW c \in Slots, NEW k \in Kinds, Create(t, c, k) PROVE ListInv'
      <3>1. /\ state[c] = "FREE" /\ state'[c] = "READY" /\ parent'[c] = NULL
            /\ \A u \in Slots \ {c} : UNCHANGED <<state[u], parent[u], first_child[u], next_sibling[u]>>
            /\ first_child'[c] = NULL /\ pc'[c] = "run" /\ pc'[t] \in {"adopt", "add"} /\ pc[t] = "run"
            /\ \A u \in Slots \ {c, t} : pc'[u] = pc[u] /\ work'[u] = work[u]
        BY <1>0, <2>1 DEF Create, At
      <3> SUFFICES ASSUME NEW u \in Slots PROVE Linked(u)' /\ Listed(u)'
        BY DEF ListInv
      <3>2. \A d \in Slots :
              /\ Child(d, u)' <=> Child(d, u)
              /\ Child(d, u) => next_sibling'[d] = next_sibling[d]
        BY <3>1, NullAssumption DEF Child, Living
      <3>3. CASE u \in {c, t}
        <4>1. Linked(u) /\ Listed(u)
          BY DEF ListInv
        <4>2. Linked(u)' /\ \A d \in Slots : Heads(d, u)' <=> Heads(d, u)
          BY <3>2, <4>1 DEF Linked, Heads
        <4>3. pc'[u] \notin {"orphan", "scan", "unchild"}
          BY <3>1, <3>3
        <4>4. u = c => first_child'[u] = NULL
          BY <3>1
        <4>5. u # c => Living(u) /\ pc[u] # "orphan" /\ first_child'[u] = first_child[u]
          BY <3>1, <3>3, <1>L, <2>1 DEF Create, At
        <4> QED BY <4>1, <4>2, <4>3, <4>4, <4>5, NullAssumption DEF Listed
      <3>4. CASE u \notin {c, t}
        BY <3>1, <3>2, <3>4, ListSame DEF Living
      <3> QED BY <3>3, <3>4
    <2>2. CASE SetParent(t)
      <3> DEFINE w == work[t]
      <3>1. w \in Slots /\ parent[w] = NULL /\ state[w] = "READY" /\ w # t /\ pc[t] = "adopt" /\ Living(t)
        BY <1>L, <2>2 DEF SetParent, At, MakingInv, Made, Making, StateInv, Placed
      <3>2. /\ parent'[w] = t /\ next_sibling'[w] = first_child[t] /\ first_child'[t] = w /\ pc'[t] = "add"
            /\ \A d \in Slots \ {w} : parent'[d] = parent[d] /\ next_sibling'[d] = next_sibling[d]
            /\ \A u \in Slots \ {t} : UNCHANGED <<pc[u], work[u], first_child[u]>>
            /\ UNCHANGED state
        BY <1>0, <3>1, <2>2 DEF SetParent, Goto
      <3> HIDE DEF w
      <3>3. \A d, u \in Slots : Child(d, u)' <=> Child(d, u) \/ (u = t /\ d = w)
        BY <3>1, <3>2, NullAssumption DEF Child, Living
      <3>4. \A u \in Slots : ~Child(w, u)
        BY <3>1, NullAssumption DEF Child
      <3> SUFFICES ASSUME NEW u \in Slots PROVE Linked(u)' /\ Listed(u)'
        BY DEF ListInv
      <3>5. CASE u # t
        <4>1. UNCHANGED <<pc[u], work[u], first_child[u]>> /\ (Living(u)' => Living(u))
          BY <3>2, <3>5 DEF Living
        <4>2. \A d \in Slots : Child(d, u) => next_sibling'[d] = next_sibling[d]
          BY <3>2, <3>4
        <4> QED BY <3>3, <3>5, <4>1, <4>2, ListSame
      <3>6. CASE u = t
        <4>1. Linked(t) /\ \A c \in Slots : first_child[t] = c => Heads(c, t)
          BY <3>1 DEF ListInv, Listed
        <4>2. Linked(t)'
          <5>1. \A c, d \in Slots : Child(c, t)' /\ next_sibling'[c] = d => Child(d, t)'
            BY <3>1, <3>2, <3>3, <4>1 DEF Linked, Heads
          <5>2. ASSUME NEW c \in Slots, NEW d \in Slots, Child(c, t)', Child(d, t)',
                       next_sibling'[c] = next_sibling'[d]
                PROVE  c = d \/ next_sibling'[c] = NULL
            <6>1. \A b \in Slots : Child(b, t) => next_sibling[b] # first_child[t] \/ first_child[t] = NULL
              BY <1>0, <4>1 DEF Heads
            <6> QED BY <3>2, <3>3, <4>1, <5>2, <6>1 DEF Linked
          <5> QED BY <5>1, <5>2 DEF Linked
        <4>3. \A c \in Slots : w = c => Heads(c, t)'
          <5>1. first_child[t] # w
            BY <3>1, <3>4, <4>1 DEF Heads
          <5>2. \A b \in Slots : Child(b, t) => next_sibling[b] # w
            BY <3>1, <3>4, <4>1 DEF Linked
          <5> QED BY <3>1, <3>2, <3>3, <5>1, <5>2 DEF Heads
        <4> QED BY <3>2, <3>6, <4>2, <4>3 DEF Listed
      <3> QED BY <3>5, <3>6
    <2>3. CASE Add(t)
      <3>1. Calm
        BY <2>3, CalmStep DEF Spawn
      <3>2. /\ pc[t] # "orphan" /\ UNCHANGED <<parent, first_child, next_sibling>>
            /\ \A u \in Slots \ {t} : UNCHANGED <<pc[u], work[u]>>
            /\ pc'[t] = "orphan" => work'[t] = first_child[t] /\ Living(t)
            /\ pc'[t] \in {"scan", "unchild"} => work'[t] \in Children(t) \cup {NULL}
        BY <1>0, <2>3 DEF Add, At, Goto
      <3>3. \A u \in Slots : Living(u)' <=> Living(u)
        BY <3>1 DEF Calm, Living
      <3> QED BY <3>2, <3>3, ListFrame
    <2> QED BY <1>4, <2>1, <2>2, <2>3 DEF Spawn
  <1>5. ASSUME NEW t \in Slots, Wait(t) PROVE ListInv'
    <2>1. CASE CallWait(t)
      <3>1. Calm
        BY <2>1, CalmStep DEF Wait
      <3>2. /\ pc[t] # "orphan" /\ UNCHANGED <<parent, first_child, next_sibling>>
            /\ \A u \in Slots \ {t} : UNCHANGED <<pc[u], work[u]>>
            /\ pc'[t] = "orphan" => work'[t] = first_child[t] /\ Living(t)
            /\ pc'[t] \in {"scan", "unchild"} => work'[t] \in Children(t) \cup {NULL}
        BY <1>0, <2>1 DEF CallWait, At, Goto
      <3>3. \A u \in Slots : Living(u)' <=> Living(u)
        BY <3>1 DEF Calm, Living
      <3> QED BY <3>2, <3>3, ListFrame
    <2>2. CASE WaitNoChild(t)
      <3>1. Calm
        BY <2>2, CalmStep DEF Wait
      <3>2. /\ pc[t] # "orphan" /\ UNCHANGED <<parent, first_child, next_sibling>>
            /\ \A u \in Slots \ {t} : UNCHANGED <<pc[u], work[u]>>
            /\ pc'[t] = "orphan" => work'[t] = first_child[t] /\ Living(t)
            /\ pc'[t] \in {"scan", "unchild"} => work'[t] \in Children(t) \cup {NULL}
        BY <1>0, <2>2 DEF WaitNoChild, At, Goto
      <3>3. \A u \in Slots : Living(u)' <=> Living(u)
        BY <3>1 DEF Calm, Living
      <3> QED BY <3>2, <3>3, ListFrame
    <2>3. CASE WaitBegin(t)
      <3>1. Calm
        BY <2>3, CalmStep DEF Wait
      <3>2. /\ pc[t] # "orphan" /\ UNCHANGED <<parent, first_child, next_sibling>>
            /\ \A u \in Slots \ {t} : UNCHANGED <<pc[u], work[u]>>
            /\ pc'[t] = "orphan" => work'[t] = first_child[t] /\ Living(t)
            /\ pc'[t] \in {"scan", "unchild"} => work'[t] \in Children(t) \cup {NULL}
        BY <1>0, <2>3, <1>F DEF WaitBegin, At, Goto
      <3>3. \A u \in Slots : Living(u)' <=> Living(u)
        BY <3>1 DEF Calm, Living
      <3> QED BY <3>2, <3>3, ListFrame
    <2>4. CASE ScanNext(t)
      <3>A. work[t] \in Children(t) /\ work[t] \in Slots /\ next_sibling[work[t]] \in Ptr
        BY <1>0, <2>4 DEF ScanNext, At, ListInv, Listed
      <3>B. next_sibling[work[t]] \in Children(t) \cup {NULL}
        BY <3>A, WalkNext DEF Children
      <3>1. Calm
        BY <2>4, CalmStep DEF Wait
      <3>2. /\ pc[t] # "orphan" /\ UNCHANGED <<parent, first_child, next_sibling>>
            /\ \A u \in Slots \ {t} : UNCHANGED <<pc[u], work[u]>>
            /\ pc'[t] = "orphan" => work'[t] = first_child[t] /\ Living(t)
            /\ pc'[t] \in {"scan", "unchild"} => work'[t] \in Children(t) \cup {NULL}
        BY <1>0, <2>4, <3>B DEF ScanNext, At, Goto
      <3>3. \A u \in Slots : Living(u)' <=> Living(u)
        BY <3>1 DEF Calm, Living
      <3> QED BY <3>2, <3>3, ListFrame
    <2>5. CASE ScanHit(t)
      <3>A. work[t] \in Children(t)
        BY <1>0, <2>5 DEF ScanHit, At, ListInv, Listed
      <3>1. Calm
        BY <2>5, CalmStep DEF Wait
      <3>2. /\ pc[t] # "orphan" /\ UNCHANGED <<parent, first_child, next_sibling>>
            /\ \A u \in Slots \ {t} : UNCHANGED <<pc[u], work[u]>>
            /\ pc'[t] = "orphan" => work'[t] = first_child[t] /\ Living(t)
            /\ pc'[t] \in {"scan", "unchild"} => work'[t] \in Children(t) \cup {NULL}
        BY <1>0, <2>5, <3>A DEF ScanHit, At, Goto
      <3>3. \A u \in Slots : Living(u)' <=> Living(u)
        BY <3>1 DEF Calm, Living
      <3> QED BY <3>2, <3>3, ListFrame
    <2>6. CASE ScanEnd(t)
      <3>1. Calm
        BY <2>6, CalmStep DEF Wait
      <3>2. /\ pc[t] # "orphan" /\ UNCHANGED <<parent, first_child, next_sibling>>
            /\ \A u \in Slots \ {t} : UNCHANGED <<pc[u], work[u]>>
            /\ pc'[t] = "orphan" => work'[t] = first_child[t] /\ Living(t)
            /\ pc'[t] \in {"scan", "unchild"} => work'[t] \in Children(t) \cup {NULL}
        BY <1>0, <2>6 DEF ScanEnd, At, Goto
      <3>3. \A u \in Slots : Living(u)' <=> Living(u)
        BY <3>1 DEF Calm, Living
      <3> QED BY <3>2, <3>3, ListFrame
    <2>7. CASE Block(t)
      <3>1. Calm
        BY <2>7, CalmStep DEF Wait
      <3>2. /\ pc[t] # "orphan" /\ UNCHANGED <<parent, first_child, next_sibling>>
            /\ \A u \in Slots \ {t} : UNCHANGED <<pc[u], work[u]>>
            /\ pc'[t] = "orphan" => work'[t] = first_child[t] /\ Living(t)
            /\ pc'[t] \in {"scan", "unchild"} => work'[t] \in Children(t) \cup {NULL}
        BY <1>0, <2>7 DEF Block, At, Goto
      <3>3. \A u \in Slots : Living(u)' <=> Living(u)
        BY <3>1 DEF Calm, Living
      <3> QED BY <3>2, <3>3, ListFrame
    <2>8. CASE Sleep(t)
      <3>1. Calm
        BY <2>8, CalmStep DEF Wait
      <3>2. /\ pc[t] # "orphan" /\ UNCHANGED <<parent, first_child, next_sibling>>
            /\ \A u \in Slots \ {t} : UNCHANGED <<pc[u], work[u]>>
            /\ pc'[t] = "orphan" => work'[t] = first_child[t] /\ Living(t)
            /\ pc'[t] \in {"scan", "unchild"} => work'[t] \in Children(t) \cup {NULL}
        BY <1>0, <2>8 DEF Sleep, At, Goto
      <3>3. \A u \in Slots : Living(u)' <=> Living(u)
        BY <3>1 DEF Calm, Living
      <3> QED BY <3>2, <3>3, ListFrame
    <2>9. CASE Retry(t)
      <3>1. Calm
        BY <2>9, CalmStep DEF Wait
      <3>2. /\ pc[t] # "orphan" /\ UNCHANGED <<parent, first_child, next_sibling>>
            /\ \A u \in Slots \ {t} : UNCHANGED <<pc[u], work[u]>>
            /\ pc'[t] = "orphan" => work'[t] = first_child[t] /\ Living(t)
            /\ pc'[t] \in {"scan", "unchild"} => work'[t] \in Children(t) \cup {NULL}
        BY <1>0, <2>9, <1>F DEF Retry, At, Goto
      <3>3. \A u \in Slots : Living(u)' <=> Living(u)
        BY <3>1 DEF Calm, Living
      <3> QED BY <3>2, <3>3, ListFrame
    <2> QED BY <1>5, <2>1, <2>2, <2>3, <2>4, <2>5, <2>6, <2>7, <2>8, <2>9 DEF Wait
  <1>6. ASSUME NEW t \in Slots, Reap(t) PROVE ListInv'
    <2>1. CASE Unchild(t)
      <3> DEFINE z == work[t]
                 before == {c \in Children(t) : next_sibling[c] = z}
      <3>1. z \in Slots /\ z \in Children(t) /\ pc[t] = "unchild" /\ Living(t)
        BY <1>0, <1>L, <2>1 DEF Unchild, At, ListInv, Listed, ReapInv, Reaped, Reaping
      <3>2. Children(t) \subseteq {c \in Slots : Child(c, t)}
        BY <3>1, ChildrenAreMine
      <3>3. Linked(t) /\ \A c \in Slots : first_child[t] = c => Heads(c, t)
        BY <3>1 DEF ListInv, Listed
      <3>4. /\ UNCHANGED <<state, parent, work>> /\ pc'[t] = "find"
            /\ \A u \in Slots \ {t} : UNCHANGED <<pc[u], first_child[u]>>
        BY <1>0, <2>1 DEF Unchild, Goto
      <3>5. \A d, u \in Slots : Child(d, u)' <=> Child(d, u)
        BY <3>4 DEF Child, Living
      <3>6. \A c \in Slots : c \notin before \cup {z} => next_sibling'[c] = next_sibling[c]
        BY <1>0, <3>1, <2>1 DEF Unchild
      <3>7. next_sibling'[z] = NULL
        BY <1>0, <3>1, <2>1 DEF Unchild
      <3>8. CASE first_child[t] = z
        <4>1. Heads(z, t) /\ before = {}
          BY <3>1, <3>2, <3>3, <3>8 DEF Heads
        <4>2. first_child'[t] = next_sibling[z]
          BY <1>0, <3>1, <3>8, <2>1 DEF Unchild
        <4>3. \A c \in Slots \ {z} : next_sibling'[c] = next_sibling[c]
          BY <3>6, <4>1
        <4>4. Linked(t)'
          BY <3>3, <3>5, <3>7, <4>3, NullAssumption DEF Linked
        <4>5. \A c \in Slots : next_sibling[z] = c => Heads(c, t)'
          <5> SUFFICES ASSUME NEW c \in Slots, next_sibling[z] = c PROVE Heads(c, t)'
            OBVIOUS
          <5>1. Child(z, t) /\ Child(c, t)
            BY <3>1, <3>2, <3>3 DEF Linked
          <5>2. \A b \in Slots : Child(b, t) /\ next_sibling[b] = c => b = z
            BY <3>1, <3>3, <5>1, NullAssumption DEF Linked
          <5> QED BY <3>5, <3>7, <4>3, <5>1, <5>2, NullAssumption DEF Heads
        <4>6. Listed(t)'
          BY <3>4, <4>2, <4>5 DEF Listed
        <4> QED BY <3>2, <3>4, <3>5, <4>3, <4>4, <4>6, <3>1, UnchildOthers
      <3>9. CASE first_child[t] # z
        <4>1. first_child'[t] = first_child[t]
          BY <3>9, <2>1 DEF Unchild
        <4>2. PICK p \in Children(t) \ {z} : next_sibling[p] = z
          BY <1>0, <3>1, <3>9, WalkPrevious DEF Children, Links
        <4>3. before = {p}
          BY <3>1, <3>2, <3>3, <4>2, NullAssumption DEF Linked
        <4>4. next_sibling'[p] = next_sibling[z] /\ p # z /\ p \in Slots /\ Child(p, t) /\ Child(z, t)
          BY <1>0, <3>1, <3>2, <3>9, <4>2, <2>1 DEF Unchild
        <4>5. \A c \in Slots \ {p, z} : next_sibling'[c] = next_sibling[c]
          BY <3>6, <4>3
        <4>6. Linked(t)'
          <5>1. \A c, d \in Slots : Child(c, t)' /\ next_sibling'[c] = d => Child(d, t)'
            <6> SUFFICES ASSUME NEW c \in Slots, NEW d \in Slots, Child(c, t), next_sibling'[c] = d
                         PROVE  Child(d, t)
              BY <3>5
            <6>1. CASE c = p
              BY <3>1, <3>3, <4>4, <6>1 DEF Linked
            <6>2. CASE c = z
              BY <3>7, <6>2, NullAssumption
            <6>3. CASE c \notin {p, z}
              BY <3>3, <4>5, <6>3 DEF Linked
            <6> QED BY <6>1, <6>2, <6>3
          <5>2. \A c, d \in Slots : Child(c, t) /\ Child(d, t) /\ next_sibling'[c] = next_sibling'[d] =>
                                      c = d \/ next_sibling'[c] = NULL
            BY <3>1, <3>3, <3>7, <4>2, <4>4, <4>5 DEF Linked
          <5> QED BY <3>5, <5>1, <5>2 DEF Linked
        <4>7. \A c \in Slots : first_child[t] = c => Heads(c, t)'
          BY <3>1, <3>3, <3>5, <3>7, <4>4, <4>5, NullAssumption DEF Heads
        <4>8. Listed(t)'
          BY <3>4, <4>1, <4>7 DEF Listed
        <4> QED BY <3>1, <3>2, <3>4, <3>5, <3>6, <4>6, <4>8, UnchildOthers
      <3> QED BY <3>8, <3>9
    <2>2. CASE FindPrevious(t)
      <3>1. Calm
        BY <2>2, CalmStep DEF Reap
      <3>2. /\ pc[t] # "orphan" /\ UNCHANGED <<parent, first_child, next_sibling>>
            /\ \A u \in Slots \ {t} : UNCHANGED <<pc[u], work[u]>>
            /\ pc'[t] = "orphan" => work'[t] = first_child[t] /\ Living(t)
            /\ pc'[t] \in {"scan", "unchild"} => work'[t] \in Children(t) \cup {NULL}
        BY <1>0, <2>2 DEF FindPrevious, At, Goto
      <3>3. \A u \in Slots : Living(u)' <=> Living(u)
        BY <3>1 DEF Calm, Living
      <3> QED BY <3>2, <3>3, ListFrame
    <2>3. CASE Unlink(t)
      <3>1. Calm
        BY <2>3, CalmStep DEF Reap
      <3>2. /\ pc[t] # "orphan" /\ UNCHANGED <<parent, first_child, next_sibling>>
            /\ \A u \in Slots \ {t} : UNCHANGED <<pc[u], work[u]>>
            /\ pc'[t] = "orphan" => work'[t] = first_child[t] /\ Living(t)
            /\ pc'[t] \in {"scan", "unchild"} => work'[t] \in Children(t) \cup {NULL}
        BY <1>0, <2>3 DEF Unlink, At, Goto
      <3>3. \A u \in Slots : Living(u)' <=> Living(u)
        BY <3>1 DEF Calm, Living
      <3> QED BY <3>2, <3>3, ListFrame
    <2>4. CASE Free(t)
      <3> DEFINE z == work[t]
      <3>1. z \in Slots /\ state[z] = "ZOMBIE" /\ parent[z] = t /\ pc[t] = "free" /\ Living(t) /\ z # t
        BY <1>L, <2>4 DEF Free, At, ReapInv, Reaped, Reaping
      <3>2. first_child[t] # z /\ \A c \in Slots : Child(c, t) => next_sibling[c] # z
        BY <2>4 DEF Free, At, ReapInv, Reaped, Reaping, Unlisted, Child
      <3>3. /\ state'[z] = "FREE" /\ \A d \in Slots \ {z} : state'[d] = state[d]
            /\ pc'[t] = "run" /\ \A u \in Slots \ {t} : UNCHANGED <<pc[u], work[u], first_child[u]>>
            /\ UNCHANGED <<parent, first_child, next_sibling>>
        BY <1>0, <3>1, <2>4 DEF Free, Goto
      <3> HIDE DEF z
      <3>4. \A d, u \in Slots : Child(d, u)' <=> Child(d, u) /\ ~(u = t /\ d = z)
        BY <3>1, <3>3 DEF Child, Living
      <3> SUFFICES ASSUME NEW u \in Slots PROVE Linked(u)' /\ Listed(u)'
        BY DEF ListInv
      <3>5. CASE u # t
        <4>1. UNCHANGED <<pc[u], work[u], first_child[u]>> /\ (Living(u)' => Living(u))
          BY <3>1, <3>3, <3>5 DEF Living
        <4> QED BY <3>3, <3>4, <3>5, <4>1, ListSame
      <3>6. CASE u = t
        <4>1. Linked(t) /\ \A c \in Slots : first_child[t] = c => Heads(c, t)
          BY <3>1 DEF ListInv, Listed
        <4>2. Linked(t)'
          BY <3>2, <3>3, <3>4, <4>1 DEF Linked
        <4>3. \A c \in Slots : first_child[t] = c => Heads(c, t)'
          BY <3>2, <3>3, <3>4, <4>1 DEF Heads
        <4> QED BY <3>3, <3>6, <4>2, <4>3 DEF Listed
      <3> QED BY <3>5, <3>6
    <2> QED BY <1>6, <2>1, <2>2, <2>3, <2>4 DEF Reap
  <1>7. ASSUME NEW t \in Slots, Exit(t) PROVE ListInv'
    <2>1. CASE ExitCall(t)
      <3>1. Calm
        BY <2>1, CalmStep DEF Exit
      <3>2. /\ pc[t] # "orphan" /\ UNCHANGED <<parent, first_child, next_sibling>>
            /\ \A u \in Slots \ {t} : UNCHANGED <<pc[u], work[u]>>
            /\ pc'[t] = "orphan" => work'[t] = first_child[t] /\ Living(t)
            /\ pc'[t] \in {"scan", "unchild"} => work'[t] \in Children(t) \cup {NULL}
        BY <1>0, <2>1, <1>L DEF ExitCall, At, Goto
      <3>3. \A u \in Slots : Living(u)' <=> Living(u)
        BY <3>1 DEF Calm, Living
      <3> QED BY <3>2, <3>3, ListFrame
    <2>2. CASE OrphanStep(t)
      <3> DEFINE w == work[t]
      <3>1. w \in Slots /\ pc[t] = "orphan" /\ Heads(w, t) /\ Linked(t)
        BY <1>0, <2>2 DEF OrphanStep, At, ListInv, Listed
      <3>2. /\ parent'[w] = NULL /\ \A d \in Slots \ {w} : parent'[d] = parent[d]
            /\ work'[t] = next_sibling[w] /\ \A u \in Slots \ {t} : work'[u] = work[u]
            /\ UNCHANGED <<state, pc, first_child, next_sibling>>
        BY <1>0, <3>1, <2>2 DEF OrphanStep
      <3> HIDE DEF w
      <3>3. \A d, u \in Slots : Child(d, u)' <=> Child(d, u) /\ ~(u = t /\ d = w)
        BY <3>1, <3>2, NullAssumption DEF Heads, Child, Living
      <3> SUFFICES ASSUME NEW u \in Slots PROVE Linked(u)' /\ Listed(u)'
        BY DEF ListInv
      <3>4. CASE u # t
        <4>1. UNCHANGED <<pc[u], work[u], first_child[u]>> /\ (Living(u)' => Living(u))
          BY <3>2, <3>4 DEF Living
        <4> QED BY <3>2, <3>3, <3>4, <4>1, ListSame
      <3>5. CASE u = t
        <4>1. Linked(t)'
          BY <3>1, <3>2, <3>3 DEF Linked, Heads
        <4>2. \A c \in Slots : next_sibling[w] = c => Heads(c, t)'
          <5> SUFFICES ASSUME NEW c \in Slots, next_sibling[w] = c PROVE Heads(c, t)'
            OBVIOUS
          <5>1. Child(w, t) /\ Child(c, t) /\ c # w
            BY <3>1 DEF Linked, Heads
          <5>2. \A b \in Slots : Child(b, t) /\ next_sibling[b] = c => b = w
            BY <3>1, <5>1, NullAssumption DEF Linked
          <5> QED BY <3>1, <3>2, <3>3, <5>1, <5>2 DEF Heads
        <4> QED BY <3>1, <3>2, <3>5, <4>1, <4>2 DEF Listed
      <3> QED BY <3>4, <3>5
    <2>3. CASE OrphanDone(t)
      <3>1. /\ first_child'[t] = NULL /\ pc'[t] = "die"
            /\ \A u \in Slots \ {t} : UNCHANGED <<pc[u], first_child[u]>>
            /\ UNCHANGED <<state, parent, next_sibling, work>>
        BY <1>0, <2>3 DEF OrphanDone, Goto
      <3>2. \A d, u \in Slots : Child(d, u)' <=> Child(d, u)
        BY <3>1 DEF Child, Living
      <3> SUFFICES ASSUME NEW u \in Slots PROVE Linked(u)' /\ Listed(u)'
        BY DEF ListInv
      <3>3. CASE u # t
        <4>1. UNCHANGED <<pc[u], work[u], first_child[u]>> /\ (Living(u)' => Living(u))
          BY <3>1, <3>3 DEF Living
        <4> QED BY <3>1, <3>2, <3>3, <4>1, ListSame
      <3>4. CASE u = t
        <4>1. Linked(t)'
          BY <3>1, <3>2 DEF ListInv, Linked
        <4> QED BY <3>1, <3>4, <4>1, NullAssumption DEF Listed
      <3> QED BY <3>3, <3>4
    <2>4. CASE Die(t)
      <3>1. Calm
        BY <2>4, CalmStep DEF Exit
      <3>2. /\ pc[t] # "orphan" /\ UNCHANGED <<parent, first_child, next_sibling>>
            /\ \A u \in Slots \ {t} : UNCHANGED <<pc[u], work[u]>>
            /\ pc'[t] = "orphan" => work'[t] = first_child[t] /\ Living(t)
            /\ pc'[t] \in {"scan", "unchild"} => work'[t] \in Children(t) \cup {NULL}
        BY <1>0, <2>4 DEF Die, At, Goto
      <3>3. \A u \in Slots : Living(u)' <=> Living(u)
        BY <3>1 DEF Calm, Living
      <3> QED BY <3>2, <3>3, ListFrame
    <2>5. CASE WakeParent(t)
      <3>1. Calm
        BY <2>5, CalmStep DEF Exit
      <3>2. /\ pc[t] # "orphan" /\ UNCHANGED <<parent, first_child, next_sibling>>
            /\ \A u \in Slots \ {t} : UNCHANGED <<pc[u], work[u]>>
            /\ pc'[t] = "orphan" => work'[t] = first_child[t] /\ Living(t)
            /\ pc'[t] \in {"scan", "unchild"} => work'[t] \in Children(t) \cup {NULL}
        BY <1>0, <2>5 DEF WakeParent, At, Goto
      <3>3. \A u \in Slots : Living(u)' <=> Living(u)
        BY <3>1 DEF Calm, Living
      <3> QED BY <3>2, <3>3, ListFrame
    <2>6. CASE Return(t)
      <3>1. Calm
        BY <2>6, CalmStep DEF Exit
      <3>2. /\ pc[t] # "orphan" /\ UNCHANGED <<parent, first_child, next_sibling>>
            /\ \A u \in Slots \ {t} : UNCHANGED <<pc[u], work[u]>>
            /\ pc'[t] = "orphan" => work'[t] = first_child[t] /\ Living(t)
            /\ pc'[t] \in {"scan", "unchild"} => work'[t] \in Children(t) \cup {NULL}
        BY <1>0, <2>6 DEF Return, At, Goto
      <3>3. \A u \in Slots : Living(u)' <=> Living(u)
        BY <3>1 DEF Calm, Living
      <3> QED BY <3>2, <3>3, ListFrame
    <2>7. CASE Leave(t)
      <3>1. Calm
        BY <2>7, CalmStep DEF Exit
      <3>2. /\ pc[t] # "orphan" /\ UNCHANGED <<parent, first_child, next_sibling>>
            /\ \A u \in Slots \ {t} : UNCHANGED <<pc[u], work[u]>>
            /\ pc'[t] = "orphan" => work'[t] = first_child[t] /\ Living(t)
            /\ pc'[t] \in {"scan", "unchild"} => work'[t] \in Children(t) \cup {NULL}
        BY <1>0, <2>7 DEF Leave, At, Goto
      <3>3. \A u \in Slots : Living(u)' <=> Living(u)
        BY <3>1 DEF Calm, Living
      <3> QED BY <3>2, <3>3, ListFrame
    <2>8. CASE Fault(t)
      <3>1. Calm
        BY <2>8, CalmStep DEF Exit
      <3>2. /\ pc[t] # "orphan" /\ UNCHANGED <<parent, first_child, next_sibling>>
            /\ \A u \in Slots \ {t} : UNCHANGED <<pc[u], work[u]>>
            /\ pc'[t] = "orphan" => work'[t] = first_child[t] /\ Living(t)
            /\ pc'[t] \in {"scan", "unchild"} => work'[t] \in Children(t) \cup {NULL}
        BY <1>0, <2>8 DEF Fault, At, Goto
      <3>3. \A u \in Slots : Living(u)' <=> Living(u)
        BY <3>1 DEF Calm, Living
      <3> QED BY <3>2, <3>3, ListFrame
    <2> QED BY <1>7, <2>1, <2>2, <2>3, <2>4, <2>5, <2>6, <2>7, <2>8 DEF Exit
  <1> QED BY <1>1, <1>2, <1>3, <1>4, <1>5, <1>6, <1>7 DEF Next, Own

(* Whatever t does, the lists of the others stay as they are.               *)
OthersKept(t) ==
    \A d, u \in Slots : u # t => /\ Child(d, u)' <=> Child(d, u)
                                 /\ Child(d, u) => next_sibling'[d] = next_sibling[d]

LEMMA KeptIfSame ==
    ASSUME NEW t \in Slots, Calm, UNCHANGED <<parent, next_sibling>>
    PROVE  OthersKept(t)
  BY DEF OthersKept, Calm, Child, Living

LEMMA FamilyStep ==
    ASSUME TypeOK, StateInv, KindInv, MakingInv, ReapInv, ListInv, RunQueueIntact,
           NEW t \in Slots, Own(t)
    PROVE  OthersKept(t)
  <1>0. /\ state \in [Slots -> States] /\ work \in [Slots -> Ptr] /\ parent \in [Slots -> Ptr]
        /\ first_child \in [Slots -> Ptr] /\ next_sibling \in [Slots -> Ptr]
    BY DEF TypeOK
  <1> USE DEF sched, family, ident, locals, history
  <1>1. CASE Yield(t)
    <2>1. Calm /\ UNCHANGED <<parent, next_sibling>>
      BY <1>1, CalmStep DEF Yield
    <2> QED BY <2>1, KeptIfSame
  <1>2. CASE Spawn(t)
    <2>1. ASSUME NEW c \in Slots, NEW k \in Kinds, Create(t, c, k) PROVE OthersKept(t)
      <3>1. /\ state[c] = "FREE" /\ parent'[c] = NULL
            /\ \A u \in Slots \ {c} : UNCHANGED <<state[u], parent[u], next_sibling[u]>>
        BY <1>0, <2>1 DEF Create
      <3> QED BY <3>1, NullAssumption DEF OthersKept, Child, Living
    <2>2. CASE SetParent(t)
      <3>1. work[t] \in Slots /\ parent[work[t]] = NULL /\ UNCHANGED state
        BY <2>2 DEF SetParent, At, MakingInv, Made, Making
      <3>2. /\ parent'[work[t]] = t
            /\ \A d \in Slots \ {work[t]} : parent'[d] = parent[d] /\ next_sibling'[d] = next_sibling[d]
        BY <1>0, <3>1, <2>2 DEF SetParent
      <3> QED BY <3>1, <3>2, NullAssumption DEF OthersKept, Child, Living
    <2>3. CASE Add(t)
      <3>1. Calm
        BY <2>3, CalmStep DEF Spawn
      <3>2. UNCHANGED <<parent, next_sibling>>
        BY <2>3 DEF Add
      <3> QED BY <3>1, <3>2, KeptIfSame
    <2> QED BY <1>2, <2>1, <2>2, <2>3 DEF Spawn
  <1>3. CASE Wait(t)
    <2>1. CASE CallWait(t)
      <3>1. Calm
        BY <2>1, CalmStep DEF Wait
      <3>2. UNCHANGED <<parent, next_sibling>>
        BY <2>1 DEF CallWait
      <3> QED BY <3>1, <3>2, KeptIfSame
    <2>2. CASE WaitNoChild(t)
      <3>1. Calm
        BY <2>2, CalmStep DEF Wait
      <3>2. UNCHANGED <<parent, next_sibling>>
        BY <2>2 DEF WaitNoChild
      <3> QED BY <3>1, <3>2, KeptIfSame
    <2>3. CASE WaitBegin(t)
      <3>1. Calm
        BY <2>3, CalmStep DEF Wait
      <3>2. UNCHANGED <<parent, next_sibling>>
        BY <2>3 DEF WaitBegin
      <3> QED BY <3>1, <3>2, KeptIfSame
    <2>4. CASE ScanNext(t)
      <3>1. Calm
        BY <2>4, CalmStep DEF Wait
      <3>2. UNCHANGED <<parent, next_sibling>>
        BY <2>4 DEF ScanNext
      <3> QED BY <3>1, <3>2, KeptIfSame
    <2>5. CASE ScanHit(t)
      <3>1. Calm
        BY <2>5, CalmStep DEF Wait
      <3>2. UNCHANGED <<parent, next_sibling>>
        BY <2>5 DEF ScanHit
      <3> QED BY <3>1, <3>2, KeptIfSame
    <2>6. CASE ScanEnd(t)
      <3>1. Calm
        BY <2>6, CalmStep DEF Wait
      <3>2. UNCHANGED <<parent, next_sibling>>
        BY <2>6 DEF ScanEnd
      <3> QED BY <3>1, <3>2, KeptIfSame
    <2>7. CASE Block(t)
      <3>1. Calm
        BY <2>7, CalmStep DEF Wait
      <3>2. UNCHANGED <<parent, next_sibling>>
        BY <2>7 DEF Block
      <3> QED BY <3>1, <3>2, KeptIfSame
    <2>8. CASE Sleep(t)
      <3>1. Calm
        BY <2>8, CalmStep DEF Wait
      <3>2. UNCHANGED <<parent, next_sibling>>
        BY <2>8 DEF Sleep
      <3> QED BY <3>1, <3>2, KeptIfSame
    <2>9. CASE Retry(t)
      <3>1. Calm
        BY <2>9, CalmStep DEF Wait
      <3>2. UNCHANGED <<parent, next_sibling>>
        BY <2>9 DEF Retry
      <3> QED BY <3>1, <3>2, KeptIfSame
    <2> QED BY <1>3, <2>1, <2>2, <2>3, <2>4, <2>5, <2>6, <2>7, <2>8, <2>9 DEF Wait
  <1>4. CASE Reap(t)
    <2>1. CASE Unchild(t)
      <3>1. work[t] \in Slots /\ parent[work[t]] = t /\ Living(t) /\ pc[t] # "orphan" /\ UNCHANGED <<state, parent>>
        BY <2>1 DEF Unchild, At, ReapInv, Reaped, Reaping, StateInv, Placed, Living
      <3>2. \A c \in Slots : c \notin Children(t) \cup {work[t]} => next_sibling'[c] = next_sibling[c]
        BY <1>0, <3>1, <2>1 DEF Unchild
      <3>3. Children(t) \subseteq {c \in Slots : Child(c, t)}
        BY <3>1, ChildrenAreMine
      <3> QED BY <3>1, <3>2, <3>3 DEF OthersKept, Child, Living
    <2>2. CASE FindPrevious(t)
      <3>1. Calm
        BY <2>2, CalmStep DEF Reap
      <3>2. UNCHANGED <<parent, next_sibling>>
        BY <2>2 DEF FindPrevious
      <3> QED BY <3>1, <3>2, KeptIfSame
    <2>3. CASE Unlink(t)
      <3>1. Calm
        BY <2>3, CalmStep DEF Reap
      <3>2. UNCHANGED <<parent, next_sibling>>
        BY <2>3 DEF Unlink
      <3> QED BY <3>1, <3>2, KeptIfSame
    <2>4. CASE Free(t)
      <3>1. work[t] \in Slots /\ parent[work[t]] = t /\ UNCHANGED <<parent, next_sibling>>
        BY <2>4 DEF Free, At, ReapInv, Reaped, Reaping
      <3>2. \A d \in Slots \ {work[t]} : state'[d] = state[d]
        BY <1>0, <2>4 DEF Free
      <3> QED BY <3>1, <3>2 DEF OthersKept, Child, Living
    <2> QED BY <1>4, <2>1, <2>2, <2>3, <2>4 DEF Reap
  <1>5. CASE Exit(t)
    <2>1. CASE ExitCall(t)
      <3>1. Calm
        BY <2>1, CalmStep DEF Exit
      <3>2. UNCHANGED <<parent, next_sibling>>
        BY <2>1 DEF ExitCall
      <3> QED BY <3>1, <3>2, KeptIfSame
    <2>2. CASE OrphanStep(t)
      <3>1. work[t] \in Slots /\ parent[work[t]] = t /\ UNCHANGED <<state, next_sibling>>
        BY <1>0, <2>2 DEF OrphanStep, At, ListInv, Listed, Heads, Child
      <3>2. parent'[work[t]] = NULL /\ \A d \in Slots \ {work[t]} : parent'[d] = parent[d]
        BY <1>0, <3>1, <2>2 DEF OrphanStep
      <3> QED BY <3>1, <3>2, NullAssumption DEF OthersKept, Child, Living
    <2>3. CASE OrphanDone(t)
      <3>1. Calm
        BY <2>3, CalmStep DEF Exit
      <3>2. UNCHANGED <<parent, next_sibling>>
        BY <2>3 DEF OrphanDone
      <3> QED BY <3>1, <3>2, KeptIfSame
    <2>4. CASE Die(t)
      <3>1. Calm
        BY <2>4, CalmStep DEF Exit
      <3>2. UNCHANGED <<parent, next_sibling>>
        BY <2>4 DEF Die
      <3> QED BY <3>1, <3>2, KeptIfSame
    <2>5. CASE WakeParent(t)
      <3>1. Calm
        BY <2>5, CalmStep DEF Exit
      <3>2. UNCHANGED <<parent, next_sibling>>
        BY <2>5 DEF WakeParent
      <3> QED BY <3>1, <3>2, KeptIfSame
    <2>6. CASE Return(t)
      <3>1. Calm
        BY <2>6, CalmStep DEF Exit
      <3>2. UNCHANGED <<parent, next_sibling>>
        BY <2>6 DEF Return
      <3> QED BY <3>1, <3>2, KeptIfSame
    <2>7. CASE Leave(t)
      <3>1. Calm
        BY <2>7, CalmStep DEF Exit
      <3>2. UNCHANGED <<parent, next_sibling>>
        BY <2>7 DEF Leave
      <3> QED BY <3>1, <3>2, KeptIfSame
    <2>8. CASE Fault(t)
      <3>1. Calm
        BY <2>8, CalmStep DEF Exit
      <3>2. UNCHANGED <<parent, next_sibling>>
        BY <2>8 DEF Fault
      <3> QED BY <3>1, <3>2, KeptIfSame
    <2> QED BY <1>5, <2>1, <2>2, <2>3, <2>4, <2>5, <2>6, <2>7, <2>8 DEF Exit
  <1> QED BY <1>1, <1>2, <1>3, <1>4, <1>5 DEF Own

(* What t does leaves what the others reap as it was.                       *)
LEMMA ReapOthers ==
    ASSUME ReapInv, NEW t \in Slots, NEW u \in Slots, u # t, Reaping(u)', OthersKept(t),
           UNCHANGED <<pc[u], work[u], prev[u], first_child[u]>>,
           \A z \in Slots : state[z] = "ZOMBIE" /\ parent[z] = u /\ z # current_task =>
               state'[z] = "ZOMBIE" /\ z # current_task' /\ (z \in queued' <=> z \in queued),
           pc[u] = "unlink" => prev[u] \in queued' /\ next'[prev[u]] = next[prev[u]]
    PROVE  Reaped(work[u], u)'
  <1> DEFINE z == work[u]
  <1>1. Reaped(z, u) /\ z' = z /\ z \in Slots
    BY DEF ReapInv, Reaped, Reaping
  <1>2. Child(z, u) /\ parent'[z] = u /\ next_sibling'[z] = next_sibling[z] /\ state'[z] = "ZOMBIE"
    <2>1. Child(z, u)
      BY <1>1 DEF Reaped, Child, Living
    <2>2. ASSUME NEW d \in Slots, Child(d, u) PROVE parent'[d] = u /\ next_sibling'[d] = next_sibling[d]
      BY <2>2 DEF OthersKept, Child
    <2> QED BY <1>1, <2>1, <2>2 DEF Reaped
  <1>3. \A c \in Slots : Living(c)' /\ parent'[c] = u => Child(c, u) /\ next_sibling'[c] = next_sibling[c]
    BY DEF OthersKept, Child
  <1> QED BY <1>1, <1>2, <1>3 DEF Reaped, Unlisted, Child

(* What t does leaves the place of the others, and of those they reap.      *)
LocalsKept(t) ==
    \A u \in Slots : u # t /\ Reaping(u)' => UNCHANGED <<pc[u], work[u], prev[u], first_child[u]>>

LEMMA LocalStep ==
    ASSUME TypeOK, NEW t \in Slots, Own(t)
    PROVE  LocalsKept(t)
  <1>0. /\ pc \in [Slots -> Pcs] /\ work \in [Slots -> Ptr] /\ prev \in [Slots -> Ptr]
        /\ first_child \in [Slots -> Ptr] /\ next_sibling \in [Slots -> Ptr]
    BY DEF TypeOK
  <1> DEFINE Kept(u) == UNCHANGED <<pc[u], work[u], prev[u], first_child[u]>>
  <1> SUFFICES ASSUME NEW u \in Slots, u # t, Reaping(u)' PROVE Kept(u)
    BY DEF LocalsKept
  <1> USE DEF sched, family, ident, locals, history
  <1>1. CASE Yield(t)
    BY <1>1 DEF Yield
  <1>2. CASE Spawn(t)
    <2>1. ASSUME NEW c \in Slots, NEW k \in Kinds, Create(t, c, k) PROVE Kept(u)
      <3>1. u = c => pc'[u] = "run"
        BY <1>0, <2>1 DEF Create
      <3>2. u # c
        BY <3>1 DEF Reaping
      <3> QED BY <1>0, <2>1, <3>2 DEF Create
    <2>2. CASE SetParent(t)
      BY <1>0, <2>2 DEF SetParent, Goto
    <2>3. CASE Add(t)
      BY <1>0, <2>3 DEF Add, Goto
    <2> QED BY <1>2, <2>1, <2>2, <2>3 DEF Spawn
  <1>3. CASE Wait(t)
    BY <1>0, <1>3 DEF Wait, CallWait, WaitNoChild, WaitBegin, ScanNext, ScanHit, ScanEnd, Block,
                      Sleep, Retry, Goto
  <1>4. CASE Reap(t)
    <2>1. CASE Unchild(t)
      BY <1>0, <2>1 DEF Unchild, Goto
    <2>2. CASE FindPrevious(t)
      BY <1>0, <2>2 DEF FindPrevious, Goto
    <2>3. CASE Unlink(t) \/ Free(t)
      BY <1>0, <2>3 DEF Unlink, Free, Goto
    <2> QED BY <1>4, <2>1, <2>2, <2>3 DEF Reap
  <1>5. CASE Exit(t)
    BY <1>0, <1>5 DEF Exit, ExitCall, OrphanStep, OrphanDone, Die, WakeParent, Return, Leave, Fault, Goto
  <1> QED BY <1>1, <1>2, <1>3, <1>4, <1>5 DEF Own

(* The dead stay where they are, but for the one t reaps.                   *)
DeadKept(t) ==
    \A z \in Slots : state[z] = "ZOMBIE" /\ parent[z] # t /\ z # current_task =>
        state'[z] = "ZOMBIE" /\ z # current_task' /\ (z \in queued' <=> z \in queued)

LEMMA DeadStep ==
    ASSUME TypeOK, StateInv, MakingInv, ReapInv, RunQueueIntact, NEW t \in Slots, Own(t)
    PROVE  DeadKept(t)
  <1>0. /\ state \in [Slots -> States] /\ work \in [Slots -> Ptr]
    BY DEF TypeOK
  <1> USE DEF sched, family, ident, locals, history
  <1>1. Calm /\ UNCHANGED queued => DeadKept(t)
    BY DEF Calm, DeadKept
  <1>2. CASE Spawn(t)
    <2>1. ASSUME NEW c \in Slots, NEW k \in Kinds, Create(t, c, k) PROVE DeadKept(t)
      BY <1>0, <2>1 DEF Create, DeadKept
    <2>2. CASE SetParent(t)
      BY <1>1, <2>2, CalmStep DEF SetParent
    <2>3. CASE Add(t)
      <3>1. state[work[t]] = "READY" /\ queued' = queued \cup {work[t]}
        BY <2>3 DEF Add, At, MakingInv, Made, Making
      <3>2. Calm
        BY <2>3, CalmStep
      <3> QED BY <3>1, <3>2 DEF Calm, DeadKept
    <2> QED BY <1>2, <2>1, <2>2, <2>3 DEF Spawn
  <1>3. CASE Reap(t)
    <2>1. CASE Unchild(t) \/ FindPrevious(t)
      <3>1. Calm
        BY <2>1, CalmStep
      <3> QED BY <1>1, <2>1, <3>1 DEF Unchild, FindPrevious
    <2>2. CASE Unlink(t)
      <3>1. parent[work[t]] = t /\ queued' = queued \ {work[t]}
        BY <2>2 DEF Unlink, At, ReapInv, Reaped, Reaping
      <3>2. Calm
        BY <2>2, CalmStep
      <3> QED BY <3>1, <3>2 DEF Calm, DeadKept
    <2>3. CASE Free(t)
      <3>1. parent[work[t]] = t
        BY <2>3 DEF Free, At, ReapInv, Reaped, Reaping
      <3> QED BY <1>0, <2>3, <3>1 DEF Free, DeadKept
    <2> QED BY <1>3, <2>1, <2>2, <2>3 DEF Reap
  <1>4. CASE Yield(t) \/ Wait(t) \/ Exit(t)
    <2>1. Calm
      BY <1>4, CalmStep
    <2>2. Yield(t) => UNCHANGED queued
      BY DEF Yield
    <2>3. Wait(t) => UNCHANGED queued
      BY DEF Wait, CallWait, WaitNoChild, WaitBegin, ScanNext, ScanHit, ScanEnd, Block, Sleep, Retry
    <2>4. Exit(t) => UNCHANGED queued
      BY DEF Exit, ExitCall, OrphanStep, OrphanDone, Die, WakeParent, Return, Leave, Fault
    <2> QED BY <1>1, <1>4, <2>1, <2>2, <2>3, <2>4
  <1> QED BY <1>2, <1>3, <1>4 DEF Own

(* With the edits of the run queue exclusive, t does not move the           *)
(* predecessor another has found.                                           *)
LEMMA EditStep ==
    ASSUME TypeOK, MakingInv, ReapInv, RunQueueIntact, QueueEditsExclusive,
           NEW t \in Slots, Own(t), NEW u \in Slots, u # t, pc[u] = "unlink"
    PROVE  prev[u] \in queued' /\ next'[prev[u]] = next[prev[u]]
  <1>0. next \in [Slots -> Ptr] /\ prev[u] \in queued /\ queued \subseteq Slots
    BY DEF TypeOK, ReapInv, Reaped, Reaping
  <1>1. pc[t] \notin {"add", "unlink"}
    BY DEF QueueEditsExclusive
  <1> USE DEF sched, family, ident, locals, history
  <1>2. ASSUME NEW c \in Slots, NEW k \in Kinds, Create(t, c, k)
        PROVE  prev[u] \in queued' /\ next'[prev[u]] = next[prev[u]]
    <2>1. c \notin queued
      BY <1>2 DEF Create, RunQueueIntact, Living
    <2> QED BY <1>0, <1>2, <2>1 DEF Create
  <1>3. CASE SetParent(t)
    BY <1>0, <1>3 DEF SetParent
  <1>4. CASE Add(t) \/ Unlink(t)
    BY <1>1, <1>4 DEF Add, Unlink, At
  <1>5. CASE Yield(t)
    BY <1>0, <1>5 DEF Yield, Reschedule
  <1>6. CASE Wait(t)
    BY <1>0, <1>6 DEF Wait, CallWait, WaitNoChild, WaitBegin, ScanNext, ScanHit, ScanEnd, Block, Sleep,
                      Retry, Reschedule
  <1>7. CASE Unchild(t) \/ FindPrevious(t) \/ Free(t)
    BY <1>0, <1>7 DEF Unchild, FindPrevious, Free
  <1>8. CASE Exit(t)
    BY <1>0, <1>8 DEF Exit, ExitCall, OrphanStep, OrphanDone, Die, WakeParent, Return, Leave, Fault,
                      Reschedule
  <1> QED BY <1>2, <1>3, <1>4, <1>5, <1>6, <1>7, <1>8 DEF Own, Spawn, Reap

(* What t reaps, after each of its steps.                                   *)
LEMMA ReapOwn ==
    ASSUME TypeOK, StateInv, MakingInv, ReapInv, ListInv, QueueInv, NEW t \in Slots, Own(t), Reaping(t)'
    PROVE  Reaped(work[t], t)'
  <1>0. /\ state \in [Slots -> States] /\ pc \in [Slots -> Pcs] /\ work \in [Slots -> Ptr]
        /\ parent \in [Slots -> Ptr] /\ first_child \in [Slots -> Ptr]
        /\ next_sibling \in [Slots -> Ptr] /\ next \in [Slots -> Ptr] /\ queued \subseteq Slots
        /\ prev \in [Slots -> Ptr]
    BY DEF TypeOK
  <1> USE DEF sched, family, ident, locals, history
  <1> DEFINE z == work[t]
  <1>1. Reaping(t) => Reaped(z, t)
    BY DEF ReapInv
  <1>2. CASE Yield(t) \/ Spawn(t) \/ Exit(t)
    <2>1. ASSUME NEW c \in Slots, NEW k \in Kinds, Create(t, c, k) PROVE FALSE
      BY <1>0, <2>1 DEF Create, Reaping
    <2>2. Yield(t) \/ SetParent(t) \/ Add(t) => ~Reaping(t)'
      BY <1>0 DEF Yield, SetParent, Add, At, Goto, Reaping
    <2>3. Exit(t) => ~Reaping(t)'
      BY <1>0 DEF Exit, ExitCall, OrphanStep, OrphanDone, Die, WakeParent, Return, Leave, Fault, At, Goto,
                  Reaping
    <2> QED BY <1>2, <2>1, <2>2, <2>3 DEF Spawn
  <1>3. CASE Wait(t)
    <2>1. ScanHit(t)
      BY <1>0, <1>3 DEF Wait, CallWait, WaitNoChild, WaitBegin, ScanNext, ScanEnd, Block, Sleep, Retry,
                        At, Goto, Reaping
    <2>2. /\ z \in Slots /\ state[z] = "ZOMBIE" /\ pc[t] = "scan" /\ current_task = t
          /\ pc'[t] = "unchild" /\ UNCHANGED <<state, current_task, parent, work, queued>>
      BY <1>0, <2>1 DEF ScanHit, At, Goto
    <2>3. Living(t) /\ state[t] # "ZOMBIE"
      BY <1>0, <2>2 DEF StateInv, Placed, Living
    <2>4. parent[z] = t
      BY <2>2, <2>3, ChildrenAreMine DEF ListInv, Listed, Child
    <2>5. z \in queued
      <3> SUFFICES ASSUME z \notin queued PROVE FALSE
        OBVIOUS
      <3>1. PICK v \in Slots : (Making(v) \/ pc[v] = "free") /\ work[v] = z
        BY <2>2 DEF QueueInv, Living
      <3>2. CASE Making(v)
        BY <2>2, <3>1, <3>2 DEF MakingInv, Made
      <3>3. CASE pc[v] = "free"
        BY <2>2, <2>4, <3>1, <3>3 DEF ReapInv, Reaped, Reaping
      <3> QED BY <3>1, <3>2, <3>3
    <2> QED BY <2>2, <2>3, <2>4, <2>5 DEF Reaped, Unlisted
  <1>4. CASE Unchild(t)
    <2>1. /\ Reaped(z, t) /\ pc[t] = "unchild" /\ pc'[t] = "find"
          /\ UNCHANGED <<state, current_task, parent, work, queued, next, prev>>
          /\ z \in Slots /\ z \in queued /\ current_task = t
      BY <1>0, <1>1, <1>4 DEF Unchild, At, Goto, Reaping, Reaped
    <2>2. Living(t)
      BY <1>0, <2>1 DEF StateInv, Placed, Living
    <2>3. /\ Linked(t) /\ z \in Children(t) /\ Children(t) \subseteq {c \in Slots : Child(c, t)}
          /\ \A c \in Slots : first_child[t] = c => Heads(c, t)
      BY <2>1, <2>2, ChildrenAreMine DEF ListInv, Listed
    <2>4. next_sibling'[z] = NULL
      BY <1>0, <1>4, <2>1 DEF Unchild
    <2>5. first_child'[t] # z /\ \A c \in Slots \ {z} : Child(c, t) => next_sibling'[c] # z
      <3>1. CASE first_child[t] = z
        <4>1. /\ first_child'[t] = next_sibling[z]
              /\ \A c \in Slots \ {z} : next_sibling'[c] = next_sibling[c]
          BY <1>0, <1>4, <2>1, <3>1 DEF Unchild
        <4> QED BY <2>1, <2>3, <3>1, <4>1 DEF Heads
      <3>2. CASE first_child[t] # z
        <4>1. PICK p \in Children(t) \ {z} : next_sibling[p] = z
          BY <1>0, <2>3, <3>2, WalkPrevious DEF Children, Links
        <4>2. \A c \in Slots : Child(c, t) /\ next_sibling[c] = z => c = p
          BY <2>1, <2>3, <4>1, NullAssumption DEF Linked
        <4>3. next_sibling[z] # z
          BY <2>3, <4>1, <4>2
        <4>4. /\ first_child'[t] = first_child[t]
              /\ \A c \in Slots \ {z} : next_sibling'[c] \in {next_sibling[c], next_sibling[z]}
              /\ next_sibling'[p] = next_sibling[z]
          BY <1>0, <1>4, <2>3, <3>2, <4>1 DEF Unchild
        <4> QED BY <3>2, <4>2, <4>3, <4>4
      <3> QED BY <3>1, <3>2
    <2> QED BY <2>1, <2>4, <2>5, NullAssumption DEF Reaped, Unlisted, Child, Living
  <1>5. CASE FindPrevious(t)
    <2>1. /\ Reaped(z, t) /\ pc[t] = "find"
          /\ UNCHANGED <<state, current_task, parent, work, queued, next, first_child, next_sibling>>
          /\ z \in Slots /\ z \in queued /\ current_task = t
      BY <1>0, <1>1, <1>5 DEF FindPrevious, At, Goto, Reaping, Reaped
    <2>2. PICK p \in Stops(next, t, z) :
             prev' = [prev EXCEPT ![t] = p] /\ pc' = [pc EXCEPT ![t] = IF next[p] = z THEN "unlink" ELSE "free"]
      BY <1>5 DEF FindPrevious, Goto
    <2>3. p \in queued /\ next[p] = z
      BY <1>0, <2>1, <2>2, StopsAtPredecessor DEF QueueInv, RunQueueIntact, Links
    <2>4. prev'[t] = p /\ pc'[t] = "unlink"
      BY <1>0, <2>2, <2>3
    <2> QED BY <2>1, <2>3, <2>4 DEF Reaped, Unlisted, Living
  <1>6. CASE Unlink(t)
    <2>1. /\ Reaped(z, t) /\ pc[t] = "unlink" /\ pc'[t] = "free" /\ queued' = queued \ {z}
          /\ UNCHANGED <<state, current_task, parent, work, first_child, next_sibling>>
      BY <1>0, <1>1, <1>6 DEF Unlink, At, Goto, Reaping
    <2> QED BY <2>1 DEF Reaped, Unlisted, Living
  <1>7. CASE Free(t)
    BY <1>0, <1>7 DEF Free, Goto, Reaping
  <1> QED BY <1>2, <1>3, <1>4, <1>5, <1>6, <1>7 DEF Own, Reap

LEMMA ReapStep ==
    ASSUME TypeOK, StateInv, KindInv, MakingInv, ReapInv, ListInv, QueueInv, QueueEditsExclusive, [Next]_vars
    PROVE  ReapInv'
  <1> USE DEF sched, family, ident, locals, history
  <1>0. RunQueueIntact
    BY DEF QueueInv
  <1>1. CASE UNCHANGED vars
    BY <1>1 DEF vars, ReapInv, Reaped, Reaping, Unlisted, Living
  <1>2. CASE Tick
    <2>1. Calm
      BY <1>0, <1>2, CalmStep, IdleAssumption
    <2>2. UNCHANGED <<pc, work, prev, parent, first_child, next_sibling, queued, next>>
      BY <1>2 DEF Tick, Reschedule
    <2> QED BY <2>1, <2>2 DEF Calm, ReapInv, Reaped, Reaping, Unlisted, Living
  <1>3. ASSUME NEW t \in Slots, Own(t) PROVE ReapInv'
    <2> SUFFICES ASSUME NEW u \in Slots, Reaping(u)' PROVE Reaped(work[u], u)'
      BY DEF ReapInv
    <2>1. CASE u = t
      BY <1>3, <2>1, ReapOwn
    <2>2. CASE u # t
      <3>1. UNCHANGED <<pc[u], work[u], prev[u], first_child[u]>>
        BY <1>3, <2>2, LocalStep DEF LocalsKept
      <3>2. OthersKept(t)
        BY <1>0, <1>3, FamilyStep
      <3>3. DeadKept(t)
        BY <1>0, <1>3, DeadStep
      <3>4. pc[u] = "unlink" => prev[u] \in queued' /\ next'[prev[u]] = next[prev[u]]
        BY <1>0, <1>3, <2>2, EditStep
      <3> QED BY <2>2, <3>1, <3>2, <3>3, <3>4, ReapOthers DEF DeadKept
    <2> QED BY <2>1, <2>2
  <1> QED BY <1>1, <1>2, <1>3 DEF Next

(* What every step but those that edit the queue leaves of it.              *)
LEMMA QueueFrame ==
    ASSUME TypeOK, QueueInv, Calm, NEW t \in Slots,
           UNCHANGED <<next, queued>>, ~Making(t), pc[t] # "free",
           \A u \in Slots \ {t} : UNCHANGED <<pc[u], work[u]>>
    PROVE  QueueInv'
  <1>1. current_task' \in queued /\ queued' = queued /\ next' = next
    BY DEF Calm, QueueInv, RunQueueIntact
  <1>2. RunQueueIntact'
    <2>1. Ring(next, queued)'
      BY <1>1 DEF QueueInv, RunQueueIntact
    <2>2. \A u \in queued : Living(u)'
      BY DEF TypeOK, QueueInv, RunQueueIntact, Calm, Living
    <2> QED BY <1>1, <2>1, <2>2 DEF QueueInv, RunQueueIntact
  <1>3. ASSUME NEW c \in Slots, Living(c)', c \notin queued'
        PROVE  \E u \in Slots : (Making(u)' \/ pc'[u] = "free") /\ work'[u] = c
    <2>1. Living(c) /\ c \notin queued
      BY <1>1, <1>3 DEF Calm, Living
    <2>2. PICK u \in Slots : (Making(u) \/ pc[u] = "free") /\ work[u] = c
      BY <2>1 DEF QueueInv
    <2> QED BY <2>2 DEF Making
  <1> QED BY <1>2, <1>3 DEF QueueInv

LEMMA QueueStep ==
    ASSUME TypeOK, StateInv, KindInv, MakingInv, ReapInv, QueueInv, [Next]_vars
    PROVE  QueueInv'
  <1>0. /\ state \in [Slots -> States] /\ pc \in [Slots -> Pcs] /\ current_task \in Slots
        /\ work \in [Slots -> Ptr] /\ queued \in SUBSET Slots /\ next \in Links
    BY DEF TypeOK, Links
  <1>I. /\ RunQueueIntact /\ Ring(next, queued)
        /\ Boot \in queued /\ Idle \in queued /\ current_task \in queued
        /\ \A u \in queued : Living(u)
    BY DEF QueueInv, RunQueueIntact
  <1> USE DEF sched, family, ident, locals, history
  <1>1. CASE UNCHANGED vars
    BY <1>1 DEF vars, QueueInv, RunQueueIntact, Living, Making
  <1>2. CASE Tick
    <2>1. Calm /\ UNCHANGED <<pc, work, next, queued>>
      BY <1>I, <1>2, CalmStep, IdleAssumption DEF Tick, Reschedule
    <2>2. \A c \in Slots : Living(c)' <=> Living(c)
      BY <2>1 DEF Calm, Living
    <2>3. current_task' \in queued
      BY <1>I, <2>1 DEF Calm
    <2>4. Ring(next, queued)' /\ \A u \in queued : Living(u)'
      BY <1>0, <1>I, <2>1, <2>2
    <2> QED BY <1>I, <2>1, <2>2, <2>3, <2>4 DEF QueueInv, RunQueueIntact, Making
  <1>3. ASSUME NEW t \in Slots, Yield(t) PROVE QueueInv'
    <2>1. /\ Calm /\ ~Making(t) /\ pc[t] # "free" /\ UNCHANGED <<pc, work, next, queued>>
      BY <1>I, <1>3, CalmStep DEF Yield, At, Making, Reschedule
    <2> QED BY <2>1, QueueFrame
  <1>4. ASSUME NEW t \in Slots, NEW c \in Slots, NEW k \in Kinds, Create(t, c, k) PROVE QueueInv'
    <2>1. /\ pc[t] = "run" /\ state[c] = "FREE" /\ c \notin queued /\ c # t
          /\ pc'[t] \in {"adopt", "add"} /\ work'[t] = c
          /\ \A u \in Slots \ {c} : state'[u] = state[u] /\ next'[u] = next[u]
          /\ \A u \in Slots \ {c, t} : UNCHANGED <<pc[u], work[u]>>
          /\ UNCHANGED <<queued, current_task>>
      BY <1>0, <1>I, <1>4 DEF Create, At, Living
    <2>2. Ring(next', queued)
      <3>1. \A u \in queued : next'[u] = next[u]
        BY <1>0, <2>1
      <3> QED BY <1>I, <3>1, RingSame
    <2>3. RunQueueIntact'
      BY <1>0, <1>I, <2>1, <2>2 DEF RunQueueIntact, Living
    <2>4. ASSUME NEW d \in Slots, Living(d)', d \notin queued'
          PROVE  \E u \in Slots : (Making(u)' \/ pc'[u] = "free") /\ work'[u] = d
      <3>1. CASE d = c
        BY <2>1, <3>1 DEF Making
      <3>2. CASE d # c
        <4>1. PICK u \in Slots : (Making(u) \/ pc[u] = "free") /\ work[u] = d
          BY <2>1, <2>4, <3>2 DEF QueueInv, Living
        <4>2. u # t /\ u # c
          BY <2>1, <4>1 DEF Making, StateInv, Placed
        <4> QED BY <2>1, <4>1, <4>2 DEF Making
      <3> QED BY <3>1, <3>2
    <2> QED BY <2>3, <2>4 DEF QueueInv
  <1>5. ASSUME NEW t \in Slots, SetParent(t) PROVE QueueInv'
    <2>1. Calm /\ UNCHANGED <<work, next, queued, current_task>> /\ Making(t) /\ pc'[t] = "add"
          /\ \A u \in Slots \ {t} : pc'[u] = pc[u]
      BY <1>0, <1>I, <1>5, CalmStep DEF SetParent, At, Goto, Making
    <2>2. \A c \in Slots : Living(c)' <=> Living(c)
      BY <2>1 DEF Calm, Living
    <2>3. Ring(next, queued)' /\ \A u \in queued : Living(u)'
      BY <1>0, <1>I, <2>1, <2>2
    <2>4. \A u \in Slots : Making(u) \/ pc[u] = "free" => Making(u)' \/ pc'[u] = "free"
      BY <2>1 DEF Making
    <2> QED BY <1>I, <2>1, <2>2, <2>3, <2>4 DEF QueueInv, RunQueueIntact
  <1>6. ASSUME NEW t \in Slots, Add(t) PROVE QueueInv'
    <2>1. /\ Making(t) /\ current_task = t /\ next' = InsertAfter(next, t, work[t])
          /\ queued' = queued \cup {work[t]}
          /\ \A u \in Slots \ {t} : pc'[u] = pc[u]
          /\ UNCHANGED <<work, state, current_task>>
      BY <1>0, <1>6 DEF Add, At, Goto, Making
    <2>2. work[t] \in Slots \ queued /\ state[work[t]] = "READY"
      BY <2>1 DEF MakingInv, Made
    <2>3. Ring(next', queued')
      BY <1>0, <1>I, <2>1, <2>2, RingInsert
    <2>4. RunQueueIntact'
      BY <1>0, <1>I, <2>1, <2>2, <2>3 DEF RunQueueIntact, Living
    <2>5. ASSUME NEW d \in Slots, Living(d)', d \notin queued'
          PROVE  \E u \in Slots : (Making(u)' \/ pc'[u] = "free") /\ work'[u] = d
      <3>1. PICK u \in Slots : (Making(u) \/ pc[u] = "free") /\ work[u] = d
        BY <2>1, <2>5 DEF QueueInv, Living
      <3>2. u # t
        BY <2>1, <2>5, <3>1
      <3> QED BY <2>1, <3>1, <3>2 DEF Making
    <2> QED BY <2>4, <2>5 DEF QueueInv
  <1>7. ASSUME NEW t \in Slots, Wait(t) PROVE QueueInv'
    <2>1. Calm
      BY <1>I, <1>7, CalmStep
    <2>2. /\ ~Making(t) /\ pc[t] # "free"
          /\ UNCHANGED <<next, queued>> /\ \A u \in Slots \ {t} : UNCHANGED <<pc[u], work[u]>>
      BY <1>0, <1>7 DEF Wait, CallWait, WaitNoChild, WaitBegin, ScanNext, ScanHit, ScanEnd, Block, Sleep,
                        Retry, Reschedule, At, Goto, Making
    <2> QED BY <2>1, <2>2, QueueFrame
  <1>8. ASSUME NEW t \in Slots, Unchild(t) \/ FindPrevious(t) PROVE QueueInv'
    <2>1. Calm
      BY <1>I, <1>8, CalmStep
    <2>2. /\ ~Making(t) /\ pc[t] # "free"
          /\ UNCHANGED <<next, queued>> /\ \A u \in Slots \ {t} : UNCHANGED <<pc[u], work[u]>>
      BY <1>0, <1>8 DEF Unchild, FindPrevious, At, Goto, Making
    <2> QED BY <2>1, <2>2, QueueFrame
  <1>9. ASSUME NEW t \in Slots, Unlink(t) PROVE QueueInv'
    <2> DEFINE z == work[t]
    <2>1. /\ pc[t] = "unlink" /\ current_task = t /\ next' = Unlinked(next, prev[t], z)
          /\ queued' = queued \ {z} /\ pc'[t] = "free"
          /\ \A u \in Slots \ {t} : pc'[u] = pc[u]
          /\ UNCHANGED <<work, state, current_task>>
      BY <1>0, <1>9 DEF Unlink, At, Goto
    <2>2. /\ z \in queued /\ prev[t] \in queued /\ next[prev[t]] = z /\ z # current_task
          /\ parent[z] = t
      BY <1>0, <2>1 DEF ReapInv, Reaped, Reaping
    <2>3. z # Boot /\ z # Idle
      BY <1>0, <2>1, <2>2, NullAssumption DEF KindInv
    <2>4. Ring(next', queued')
      BY <1>0, <1>I, <2>1, <2>2, RingRemove
    <2>5. RunQueueIntact'
      BY <1>0, <1>I, <2>1, <2>2, <2>3, <2>4 DEF RunQueueIntact, Living
    <2>6. ASSUME NEW d \in Slots, Living(d)', d \notin queued'
          PROVE  \E u \in Slots : (Making(u)' \/ pc'[u] = "free") /\ work'[u] = d
      <3>1. CASE d = z
        BY <2>1, <3>1
      <3>2. CASE d # z
        <4>1. PICK u \in Slots : (Making(u) \/ pc[u] = "free") /\ work[u] = d
          BY <2>1, <2>6, <3>2 DEF QueueInv, Living
        <4> QED BY <2>1, <3>2, <4>1 DEF Making
      <3> QED BY <3>1, <3>2
    <2> QED BY <2>5, <2>6 DEF QueueInv
  <1>10. ASSUME NEW t \in Slots, Free(t) PROVE QueueInv'
    <2> DEFINE z == work[t]
    <2>1. /\ pc[t] = "free" /\ z \notin queued /\ z \in Slots
      BY <1>0, <1>10 DEF Free, At, ReapInv, Reaped, Reaping
    <2>2. /\ \A u \in Slots \ {z} : state'[u] = state[u]
          /\ state'[z] = "FREE"
          /\ \A u \in Slots \ {t} : pc'[u] = pc[u]
          /\ UNCHANGED <<work, queued, current_task, next>>
      BY <1>0, <1>10, <2>1 DEF Free, Goto
    <2>3. RunQueueIntact'
      BY <1>0, <1>I, <2>1, <2>2 DEF RunQueueIntact, Living, Ring
    <2>4. ASSUME NEW d \in Slots, Living(d)', d \notin queued'
          PROVE  \E u \in Slots : (Making(u)' \/ pc'[u] = "free") /\ work'[u] = d
      <3>1. d # z /\ Living(d)
        BY <2>2, <2>4 DEF Living
      <3>2. PICK u \in Slots : (Making(u) \/ pc[u] = "free") /\ work[u] = d
        BY <2>2, <2>4, <3>1 DEF QueueInv
      <3> QED BY <2>1, <2>2, <3>1, <3>2 DEF Making
    <2> QED BY <2>3, <2>4 DEF QueueInv
  <1>11. ASSUME NEW t \in Slots, Exit(t) PROVE QueueInv'
    <2>1. Calm
      BY <1>I, <1>11, CalmStep
    <2>2. /\ ~Making(t) /\ pc[t] # "free"
          /\ UNCHANGED <<next, queued>> /\ \A u \in Slots \ {t} : UNCHANGED <<pc[u], work[u]>>
      BY <1>0, <1>11 DEF Exit, ExitCall, OrphanStep, OrphanDone, Die, WakeParent, Return, Leave, Fault,
                         Reschedule, At, Goto, Making
    <2> QED BY <2>1, <2>2, QueueFrame
  <1> QED BY <1>1, <1>2, <1>3, <1>4, <1>5, <1>6, <1>7, <1>8, <1>9, <1>10, <1>11
          DEF Next, Own, Spawn, Reap
(* What a task was told of the one it reaps stays true.                     *)
LEMMA StatusFrame ==
    ASSUME StatusInv, \A u \in Slots : Living(u)' => Living(u),
           UNCHANGED <<pid, exit_code, next_pid, fate, got>>,
           \A u \in Slots : Reaping(u)' => Reaping(u) /\ work'[u] = work[u]
    PROVE  StatusInv'
  BY DEF StatusInv, StatusDelivered

LEMMA StatusStep ==
    ASSUME TypeOK, StateInv, MakingInv, ReapInv, RunQueueIntact, StatusInv, [Next]_vars
    PROVE  StatusInv'
  <1>0. /\ state \in [Slots -> States] /\ pc \in [Slots -> Pcs] /\ work \in [Slots -> Ptr]
        /\ pid \in [Slots -> 0 .. MaxPid] /\ exit_code \in [Slots -> Codes]
        /\ next_pid \in 2 .. MaxPid + 2 /\ fate \in [0 .. MaxPid -> Codes]
        /\ got \in [Slots -> [pid : 0 .. MaxPid, code : Codes]] /\ MaxPid \in Nat
    BY PidAssumption DEF TypeOK
  <1> USE DEF sched, family, ident, locals, history
  <1>C. Calm => \A u \in Slots : Living(u)' => Living(u)
    BY DEF Calm, Living
  <1>Z. \A u \in Slots : Reaping(u) =>
          work[u] \in Slots /\ Living(work[u]) /\ work[u] # current_task
    BY DEF ReapInv, Reaped, Living
  <1>1. CASE UNCHANGED vars
    BY <1>1 DEF vars, StatusInv, StatusDelivered, Reaping, Living
  <1>2. CASE Tick
    <2>1. Calm
      BY <1>2, CalmStep, IdleAssumption
    <2> QED BY <1>2, <1>C, <2>1, StatusFrame DEF Tick, Reaping
  <1>3. ASSUME NEW t \in Slots, Yield(t) PROVE StatusInv'
    <2>1. Calm
      BY <1>3, CalmStep
    <2> QED BY <1>3, <1>C, <2>1, StatusFrame DEF Yield, Reaping
  <1>4. ASSUME NEW t \in Slots, NEW c \in Slots, NEW k \in Kinds, Create(t, c, k) PROVE StatusInv'
    <2>1. /\ ~Living(c) /\ next_pid <= MaxPid
          /\ \A u \in Slots \ {c} : UNCHANGED <<pid[u], exit_code[u]>> /\ (Living(u)' <=> Living(u))
          /\ pid'[c] = next_pid /\ exit_code'[c] = 0 /\ next_pid' = next_pid + 1
          /\ UNCHANGED <<fate, got>>
      BY <1>0, <1>4 DEF Create, Living
    <2>2. \A u \in Slots : Reaping(u)' => Reaping(u) /\ work'[u] = work[u]
      BY <1>0, <1>4 DEF Create, Reaping
    <2>3. StatusDelivered'
      BY <1>Z, <2>1, <2>2 DEF StatusInv, StatusDelivered
    <2>4. ASSUME NEW u \in Slots, Living(u)' PROVE pid'[u] < next_pid' /\ exit_code'[u] = fate'[pid'[u]]
      <3>1. CASE u = c
        <4>1. next_pid \in 0 .. MaxPid /\ fate[next_pid] = 0
          BY <1>0, <2>1 DEF StatusInv
        <4> QED BY <1>0, <2>1, <3>1, <4>1
      <3>2. CASE u # c
        <4>1. pid[u] < next_pid /\ exit_code[u] = fate[pid[u]] /\ pid[u] \in 0 .. MaxPid
          BY <1>0, <2>1, <2>4, <3>2 DEF StatusInv
        <4> QED BY <1>0, <2>1, <3>2, <4>1
      <3> QED BY <3>1, <3>2
    <2>5. \A u, v \in Slots : Living(u)' /\ Living(v)' /\ pid'[u] = pid'[v] => u = v
      <3>1. \A u \in Slots \ {c} : Living(u)' => pid'[u] # next_pid
        BY <1>0, <2>1 DEF StatusInv
      <3> QED BY <1>0, <2>1, <3>1 DEF StatusInv
    <2>6. \A p \in 0 .. MaxPid : p >= next_pid' => fate'[p] = 0
      BY <1>0, <2>1 DEF StatusInv
    <2> QED BY <2>3, <2>4, <2>5, <2>6 DEF StatusInv
  <1>5. ASSUME NEW t \in Slots, SetParent(t) \/ Add(t) PROVE StatusInv'
    <2>1. Calm
      BY <1>5, CalmStep
    <2> QED BY <1>0, <1>5, <1>C, <2>1, StatusFrame DEF SetParent, Add, Goto, Reaping
  <1>6. ASSUME NEW t \in Slots, Wait(t) PROVE StatusInv'
    <2>1. Calm
      BY <1>6, CalmStep
    <2>2. CASE ~ScanHit(t)
      <3>1. /\ UNCHANGED <<pid, exit_code, next_pid, fate, got>>
            /\ \A u \in Slots : Reaping(u)' => Reaping(u) /\ work'[u] = work[u]
        BY <1>0, <1>6, <2>2 DEF Wait, CallWait, WaitNoChild, WaitBegin, ScanNext, ScanEnd, Block, Sleep,
                                Retry, At, Goto, Reaping
      <3> QED BY <1>C, <2>1, <3>1, StatusFrame
    <2>3. CASE ScanHit(t)
      <3>1. /\ work[t] \in Slots /\ Living(work[t]) /\ UNCHANGED <<pid, exit_code, next_pid, fate, work, state>>
            /\ got'[t] = [pid |-> pid[work[t]], code |-> exit_code[work[t]]]
            /\ \A u \in Slots \ {t} : UNCHANGED <<got[u], pc[u]>>
        BY <1>0, <2>3 DEF ScanHit, Goto, Living
      <3>2. StatusDelivered'
        <4> SUFFICES ASSUME NEW u \in Slots, Reaping(u)'
                     PROVE  got'[u] = [pid |-> pid[work[u]], code |-> fate[pid[work[u]]]]
          BY <3>1 DEF StatusDelivered
        <4>1. CASE u = t
          BY <3>1, <4>1 DEF StatusInv
        <4>2. CASE u # t
          BY <3>1, <4>2 DEF StatusInv, StatusDelivered, Reaping
        <4> QED BY <4>1, <4>2
      <3> QED BY <3>1, <3>2 DEF StatusInv, Living
    <2> QED BY <2>2, <2>3
  <1>7. ASSUME NEW t \in Slots, Unchild(t) \/ FindPrevious(t) \/ Unlink(t) PROVE StatusInv'
    <2>1. Calm
      BY <1>7, CalmStep
    <2>2. /\ UNCHANGED <<pid, exit_code, next_pid, fate, got>>
          /\ \A u \in Slots : Reaping(u)' => Reaping(u) /\ work'[u] = work[u]
      BY <1>0, <1>7 DEF Unchild, FindPrevious, Unlink, At, Goto, Reaping
    <2> QED BY <1>C, <2>1, <2>2, StatusFrame
  <1>8. ASSUME NEW t \in Slots, Free(t) PROVE StatusInv'
    <2>1. /\ UNCHANGED <<pid, exit_code, next_pid, fate, got>>
          /\ \A u \in Slots : Reaping(u)' => Reaping(u) /\ work'[u] = work[u]
          /\ \A u \in Slots : Living(u)' => Living(u)
      BY <1>0, <1>8 DEF Free, At, Goto, Reaping, Living
    <2> QED BY <2>1, StatusFrame
  <1>9. ASSUME NEW t \in Slots, Exit(t) PROVE StatusInv'
    <2>1. Calm
      BY <1>9, CalmStep
    <2>2. CASE ~ExitCall(t)
      <3>1. /\ UNCHANGED <<pid, exit_code, next_pid, fate, got>>
            /\ \A u \in Slots : Reaping(u)' => Reaping(u) /\ work'[u] = work[u]
        BY <1>0, <1>9, <2>2 DEF Exit, OrphanStep, OrphanDone, Die, WakeParent, Return, Leave, Fault,
                                At, Goto, Reaping
      <3> QED BY <1>C, <2>1, <3>1, StatusFrame
    <2>3. CASE ExitCall(t)
      <3>1. PICK code \in Codes : /\ exit_code' = [exit_code EXCEPT ![t] = code]
                                  /\ fate' = [fate EXCEPT ![pid[t]] = code]
        BY <2>3 DEF ExitCall
      <3>2. /\ current_task = t /\ Living(t) /\ UNCHANGED <<pid, next_pid, got, state>>
            /\ \A u \in Slots : Reaping(u)' => Reaping(u) /\ work'[u] = work[u]
        BY <1>0, <2>3 DEF ExitCall, At, Goto, Reaping, StateInv, Placed, Living
      <3>3. \A u \in Slots \ {t} : Living(u) => pid[u] # pid[t]
        BY <3>2 DEF StatusInv
      <3>4. StatusDelivered'
        BY <1>0, <1>Z, <3>1, <3>2, <3>3 DEF StatusInv, StatusDelivered
      <3>5. \A u \in Slots : Living(u)' => pid'[u] < next_pid' /\ exit_code'[u] = fate'[pid'[u]]
        BY <1>0, <3>1, <3>2, <3>3 DEF StatusInv, Living
      <3>6. \A p \in 0 .. MaxPid : p >= next_pid' => fate'[p] = 0
        BY <1>0, <3>1, <3>2 DEF StatusInv
      <3> QED BY <3>2, <3>4, <3>5, <3>6 DEF StatusInv, Living
    <2> QED BY <2>2, <2>3
  <1> QED BY <1>1, <1>2, <1>3, <1>4, <1>5, <1>6, <1>7, <1>8, <1>9 DEF Next, Own, Spawn, Reap

-----------------------------------------------------------------------------
(* kmain finds a ring of itself and idle_task, and no children.             *)
LEMMA InvInit == Init => IInv
  <1> SUFFICES ASSUME Init PROVE IInv
    OBVIOUS
  <1>0. /\ state = [t \in Slots |-> CASE t = Boot -> "RUNNING" [] t = Idle -> "READY" [] OTHER -> "FREE"]
        /\ kind = [t \in Slots |-> CASE t = Boot -> "boot" [] t = Idle -> "idle" [] OTHER -> "none"]
        /\ next = [t \in Slots |-> CASE t = Boot -> Idle [] t = Idle -> Boot [] OTHER -> NULL]
        /\ parent = [t \in Slots |-> NULL] /\ first_child = [t \in Slots |-> NULL]
        /\ pc = [t \in Slots |-> "run"] /\ queued = {Boot, Idle} /\ current_task = Boot
        /\ Boot \in Slots /\ Idle \in Slots /\ Boot # Idle
    BY IdleAssumption, BootAssumption DEF Init
  <1>1. StateInv
    BY <1>0 DEF StateInv, Placed, OnCpu
  <1>2. KindInv
    BY <1>0, NullAssumption DEF KindInv, Kinded, Making, Reaping, Living
  <1>3. MakingInv /\ ReapInv
    BY <1>0 DEF MakingInv, Making, ReapInv, Reaping
  <1>4. ListInv
    <2> SUFFICES ASSUME NEW t \in Slots PROVE Linked(t) /\ Listed(t)
      BY DEF ListInv
    <2>1. \A c \in Slots : parent[c] # t /\ first_child[t] # c
      BY <1>0, NullAssumption
    <2>2. pc[t] \notin {"orphan", "scan", "unchild"}
      BY <1>0
    <2>3. Linked(t)
      BY <2>1 DEF Linked, Child
    <2>4. Listed(t)
      BY <2>1, <2>2 DEF Listed
    <2> QED BY <2>3, <2>4
  <1>5. Ring(next, queued)
    <2>1. next[Boot] = Idle /\ next[Idle] = Boot
      BY <1>0
    <2>0. queued = {Boot, Idle}
      BY <1>0
    <2>2. \A t \in queued : next[t] \in queued
      BY <2>0, <2>1
    <2>3. ASSUME NEW T \in SUBSET queued, T # {}, \A t \in T : next[t] \in T PROVE T = queued
      <3>1. Boot \in T \/ Idle \in T
        BY <2>0, <2>3
      <3>2. Boot \in T /\ Idle \in T
        BY <2>1, <2>3, <3>1
      <3> QED BY <2>0, <2>3, <3>2
    <2> QED BY <2>2, <2>3 DEF Ring
  <1>6. QueueInv
    BY <1>0, <1>5 DEF QueueInv, RunQueueIntact, Living
  <1>7. StatusInv
    <2>1. /\ pid = [t \in Slots |-> IF t = Idle THEN 1 ELSE 0] /\ next_pid = 2
          /\ exit_code = [t \in Slots |-> 0] /\ fate = [p \in 0 .. MaxPid |-> 0]
          /\ MaxPid \in Nat \ {0}
      BY PidAssumption DEF Init
    <2>2. \A t \in Slots : Living(t) => t \in {Boot, Idle}
      BY <1>0 DEF Living
    <2>3. StatusDelivered
      BY <1>0 DEF StatusDelivered, Reaping
    <2> QED BY <1>0, <2>1, <2>2, <2>3 DEF StatusInv
  <1> QED BY TypeInit, <1>1, <1>2, <1>3, <1>4, <1>6, <1>7 DEF IInv

(* With the clients there are, one task at most edits the queue: the only   *)
(* one that reaps is the only one that adds, or is not there while kmain    *)
(* adds it.                                                                 *)
LEMMA EditsExclusive == Orderly /\ IInv => QueueEditsExclusive
  <1> SUFFICES ASSUME Orderly, IInv, NEW t \in Slots, NEW u \in Slots,
                      pc[t] = "unlink", pc[u] \in {"add", "unlink"}
               PROVE  t = u
    BY DEF QueueEditsExclusive
  <1>1. /\ Kinded(t) /\ Kinded(u) /\ kind[t] \in Parents
        /\ pc[u] = "unlink" => kind[u] \in Parents
        /\ pc[u] = "add" => <<kind[u], kind[work[u]]>> \in Starts \cup Adopts
    BY DEF IInv, KindInv, Kinded, Reaping, Making
  <1>2. CASE TestClient
    <2>1. kind[u] \in Clients
      <3>1. <<kind[u], kind[work[u]]>>[1] = kind[u]
        OBVIOUS
      <3> QED BY <1>1, <3>1 DEF Clients, Parents
    <2> QED BY <1>1, <1>2, <2>1 DEF TestClient, Clients, Kinded
  <1>3. CASE ShellClient
    <2>1. Parents \subseteq {"shell"}
      <3>1. <<"shell", "user">>[1] = "shell"
        OBVIOUS
      <3> QED BY <1>3, <3>1 DEF ShellClient, Parents
    <2>2. kind[t] = "shell" /\ \A s \in Slots : kind[s] = "shell" => s = t
      BY <1>1, <2>1 DEF Kinded
    <2>3. CASE pc[u] = "unlink"
      BY <1>1, <2>1, <2>2, <2>3
    <2>4. CASE pc[u] = "add"
      <3>1. \/ kind[u] = "boot" /\ kind[work[u]] = "shell"
            \/ kind[u] = "shell" /\ kind[work[u]] = "user"
        BY <1>1, <1>3, <2>4 DEF ShellClient
      <3>2. work[u] \in Slots /\ pc[work[u]] = "run"
        BY <2>4 DEF IInv, MakingInv, Made, Making
      <3> QED BY <2>2, <3>1, <3>2
    <2> QED BY <2>3, <2>4
  <1> QED BY <1>2, <1>3 DEF Orderly

LEMMA BuildKept == [Next]_vars => UNCHANGED build
  <1> SUFFICES ASSUME Next PROVE UNCHANGED build
    BY DEF vars, history
  <1> USE DEF history
  <1>1. CASE Tick
    BY <1>1 DEF Tick
  <1>2. ASSUME NEW t \in Slots, Yield(t) \/ Spawn(t) PROVE UNCHANGED build
    BY <1>2 DEF Yield, Spawn, Create, SetParent, Add
  <1>3. ASSUME NEW t \in Slots, Wait(t) PROVE UNCHANGED build
    BY <1>3 DEF Wait, CallWait, WaitNoChild, WaitBegin, ScanNext, ScanHit, ScanEnd, Block, Sleep, Retry
  <1>4. ASSUME NEW t \in Slots, Reap(t) PROVE UNCHANGED build
    BY <1>4 DEF Reap, Unchild, FindPrevious, Unlink, Free
  <1>5. ASSUME NEW t \in Slots, Exit(t) PROVE UNCHANGED build
    BY <1>5 DEF Exit, ExitCall, OrphanStep, OrphanDone, Die, WakeParent, Return, Leave, Fault
  <1> QED BY <1>1, <1>2, <1>3, <1>4, <1>5 DEF Next, Own

LEMMA OrderlyKept == [Next]_vars => (Orderly' <=> Orderly)
  BY BuildKept DEF Orderly, ShellClient, TestClient, Clients, Parents, Starts, Adopts

LEMMA InvStep == Orderly /\ IInv /\ [Next]_vars => IInv'
  <1> SUFFICES ASSUME Orderly, IInv, [Next]_vars PROVE IInv'
    OBVIOUS
  <1>1. /\ TypeOK /\ StateInv /\ KindInv /\ MakingInv /\ ReapInv /\ ListInv /\ QueueInv
        /\ StatusInv /\ RunQueueIntact /\ QueueEditsExclusive
    BY EditsExclusive DEF IInv, QueueInv
  <1> QED BY <1>1, TypeStep, StateStep, KindStep, MakingStep, ReapStep, ListStep, QueueStep, StatusStep
          DEF IInv

(* The inductive invariant holds, with the clients there are.               *)
THEOREM OrderlyInvariant == Spec => []OrderlyInv
  <1>1. Init => OrderlyInv
    BY InvInit DEF OrderlyInv
  <1>2. OrderlyInv /\ [Next]_vars => OrderlyInv'
    BY InvStep, OrderlyKept DEF OrderlyInv
  <1> QED BY <1>1, <1>2, PTL DEF Spec

(* The run queue stays one ring of the live tasks, whatever is preempted    *)
(* between the steps of scheduler_add, remove_from_scheduler and task_exit. *)
THEOREM QueueStaysWhole == Spec => []OrderlyQueue
  <1>1. OrderlyInv => OrderlyQueue
    BY EditsExclusive DEF OrderlyInv, OrderlyQueue, IInv, QueueInv
  <1> QED BY <1>1, OrderlyInvariant, PTL

(* One task RUNS, the one scheduler_yield switched to, but for a task that  *)
(* has blocked or died and has not left the CPU.                            *)
THEOREM OneRuns == Spec => [](Orderly => CpuOwner)
  <1>1. OrderlyInv => (Orderly => CpuOwner)
    <2> SUFFICES ASSUME Orderly, OrderlyInv, NEW t \in Slots
                 PROVE  state[t] = "RUNNING" <=> current_task = t /\ pc[t] \notin {"sleep", "wake", "leave"}
      BY DEF CpuOwner
    <2>1. state[t] \in States /\ Placed(state[t], pc[t], t = current_task)
      BY DEF OrderlyInv, IInv, TypeOK, StateInv
    <2>2. CASE t = current_task
      BY <2>1, <2>2 DEF States, Placed, OnCpu
    <2>3. CASE t # current_task
      BY <2>1, <2>3 DEF Placed
    <2> QED BY <2>2, <2>3
  <1> QED BY <1>1, OrderlyInvariant, PTL

(* A dead task never runs again, and its block is not freed under it.       *)
THEOREM NoDeadRuns == Spec /\ Orderly => DeadStaysDead
  <1>1. Orderly /\ OrderlyInv /\ [Next]_vars =>
          [\A t \in Slots : Dead(t) =>
              /\ state'[t] \in {"ZOMBIE", "FREE"}
              /\ current_task' = t => current_task = t /\ Dead(t)']_vars
    <2> SUFFICES ASSUME IInv, [Next]_vars, NEW t \in Slots, Dead(t)
                 PROVE  /\ state'[t] \in {"ZOMBIE", "FREE"}
                        /\ current_task' = t => current_task = t /\ Dead(t)'
      BY DEF OrderlyInv
    <2>0. /\ TypeOK /\ StateInv /\ ReapInv /\ RunQueueIntact /\ state \in [Slots -> States]
      BY DEF IInv, QueueInv, TypeOK
    <2>1. CASE Calm
      BY <2>1 DEF Calm, Dead
    <2>2. CASE UNCHANGED vars
      BY <2>2 DEF vars, sched, Dead
    <2>3. ASSUME NEW u \in Slots, NEW c \in Slots, NEW k \in Kinds, Create(u, c, k)
          PROVE  state'[t] = "ZOMBIE" /\ current_task' = current_task
      BY <2>0, <2>3 DEF Create, Dead
    <2>4. ASSUME NEW u \in Slots, Free(u)
          PROVE  state'[t] \in {"ZOMBIE", "FREE"} /\ current_task' = current_task
                 /\ (t = current_task => state'[t] = "ZOMBIE")
      <3>1. work[u] # current_task
        BY <2>4 DEF Free, At, IInv, ReapInv, Reaped, Reaping
      <3> QED BY <2>0, <2>4, <3>1 DEF Free, Dead
    <2>5. \/ Calm \/ UNCHANGED vars
          \/ \E u \in Slots, c \in Slots, k \in Kinds : Create(u, c, k)
          \/ \E u \in Slots : Free(u)
      BY <2>0, CalmStep, IdleAssumption DEF Next, Own, Spawn, Reap
    <2> QED BY <2>1, <2>2, <2>3, <2>4, <2>5 DEF Dead
  <1>2. Orderly /\ [Next]_vars => Orderly'
    BY OrderlyKept
  <1> QED BY <1>1, <1>2, OrderlyInvariant, PTL DEF Spec, DeadStaysDead

(* task_wait returns the pid of the task it reaps, and its exit code.       *)
THEOREM StatusIsTold == Spec => [](Orderly => StatusDelivered)
  <1>1. OrderlyInv => (Orderly => StatusDelivered)
    BY DEF OrderlyInv, IInv, StatusInv
  <1> QED BY <1>1, OrderlyInvariant, PTL

(* The lifecycle makes only the transitions of the state of a task that     *)
(* scheduler.h and task.h promise.                                          *)
THEOREM StatesFollowed == Spec /\ Orderly => ImplementsTaskStates
  <1>1. Init => Tasks!Init
    BY DEF Init, Tasks!Init
  <1>2. Orderly /\ OrderlyInv /\ [Next]_vars => [Tasks!Next]_(Tasks!vars)
    <2> SUFFICES ASSUME IInv, [Next]_vars PROVE [Tasks!Next]_(Tasks!vars)
      BY DEF OrderlyInv
    <2>0. /\ TypeOK /\ StateInv /\ ReapInv /\ RunQueueIntact /\ state \in [Slots -> States]
          /\ current_task \in Slots /\ work \in [Slots -> Ptr]
          /\ Placed(state[current_task], pc[current_task], TRUE)
      BY DEF IInv, QueueInv, TypeOK, StateInv
    <2> USE DEF sched, family, ident, locals, history
    <2>1. CASE UNCHANGED <<state, current_task>>
      BY <2>1 DEF Tasks!vars
    <2>2. CASE Reschedule
      <3>1. PICK to \in Slots :
              /\ state[to] = "READY" \/ (state[to] = "RUNNING" /\ to = current_task)
              /\ current_task' = to
              /\ state' = [[state EXCEPT ![current_task] = IF @ = "RUNNING" THEN "READY" ELSE @]
                             EXCEPT ![to] = "RUNNING"]
        BY <2>0, <2>2, Switches
      <3>2. state[current_task] \in {"RUNNING", "BLOCKED", "ZOMBIE"}
        BY <2>0 DEF Placed, States
      <3> DEFINE left == IF state[current_task] = "RUNNING" THEN "READY" ELSE state[current_task]
      <3>3. left \in {"READY", "BLOCKED", "ZOMBIE"} /\ Tasks!Switch(left, to)
        BY <2>0, <3>1, <3>2 DEF Tasks!Switch
      <3> QED BY <3>3 DEF Tasks!Next
    <2>3. ASSUME NEW t \in Slots, Block(t) \/ Die(t) \/ Return(t) PROVE Tasks!Next
      <3>1. /\ current_task = t /\ pc[t] \in {"block", "die", "run"} /\ current_task' = current_task
            /\ \E s \in {"BLOCKED", "ZOMBIE"} : state' = [state EXCEPT ![t] = s]
        BY <2>3 DEF Block, Die, Return, At
      <3>2. state[t] = "RUNNING"
        BY <2>0, <3>1 DEF Placed, States, OnCpu
      <3> QED BY <3>1, <3>2 DEF Tasks!Stop, Tasks!Next
    <2>4. ASSUME NEW t \in Slots, WakeParent(t) PROVE [Tasks!Next]_(Tasks!vars)
      <3>1. /\ current_task = t /\ state[t] = "ZOMBIE" /\ current_task' = current_task
            /\ state' = [s \in Slots |-> IF s = parent[t] /\ state[s] = "BLOCKED"
                                         THEN "READY" ELSE state[s]]
        BY <2>0, <2>4 DEF WakeParent, At, StateInv, Placed, OnCpu, States
      <3>2. CASE parent[t] \in Slots /\ state[parent[t]] = "BLOCKED"
        <4>1. state' = [state EXCEPT ![parent[t]] = "READY"]
          BY <2>0, <3>1, <3>2
        <4>2. Tasks!Wake(parent[t])
          BY <3>1, <3>2, <4>1 DEF Tasks!Wake
        <4> QED BY <3>2, <4>2 DEF Tasks!Next
      <3>3. CASE ~(parent[t] \in Slots /\ state[parent[t]] = "BLOCKED")
        <4>1. state' = state
          BY <2>0, <3>1, <3>3
        <4> QED BY <3>1, <4>1 DEF Tasks!vars
      <3> QED BY <3>2, <3>3
    <2>5. ASSUME NEW t \in Slots, NEW c \in Slots, NEW k \in Kinds, Create(t, c, k) PROVE Tasks!Next
      <3>1. Tasks!Make(c)
        BY <2>5 DEF Create, Tasks!Make
      <3> QED BY <3>1 DEF Tasks!Next
    <2>6. ASSUME NEW t \in Slots, Free(t) PROVE Tasks!Next
      <3>1. work[t] \in Slots /\ state[work[t]] = "ZOMBIE" /\ work[t] # current_task
        BY <2>0, <2>6 DEF Free, At, ReapInv, Reaped, Reaping
      <3>2. Tasks!Release(work[t])
        BY <2>6, <3>1 DEF Free, Tasks!Release
      <3> QED BY <3>1, <3>2 DEF Tasks!Next
    <2>7. ASSUME NEW t \in Slots, Fault(t) PROVE Tasks!Next
      <3> DEFINE to == PickNext(next, Killed(t), current_task)
      <3>1. /\ current_task = t /\ pc[t] = "run"
            /\ state' = [Killed(t) EXCEPT ![to] = "RUNNING"] /\ current_task' = to
        BY <2>7 DEF Fault, At
      <3>2. state[t] = "RUNNING"
        BY <2>0, <3>1 DEF Placed, States, OnCpu
      <3>3. to \in queued /\ to \notin Skipped(Killed(t))
        BY <2>0, Chosen
      <3> HIDE DEF to
      <3>4. to \in Slots /\ state[to] # "FREE" /\ to # t /\ state[to] \notin {"ZOMBIE", "BLOCKED"}
        BY <2>0, <3>1, <3>2, <3>3 DEF TypeOK, RunQueueIntact, Living, Skipped, Killed, StateInv
      <3>5. state[to] = "READY"
        BY <2>0, <3>1, <3>4 DEF StateInv, Placed, States
      <3>6. Tasks!Switch("ZOMBIE", to)
        BY <2>0, <3>1, <3>2, <3>5 DEF Tasks!Switch, Killed
      <3> QED BY <3>4, <3>6 DEF Tasks!Next
    <2>8. Tick \/ (\E t \in Slots : Yield(t) \/ Sleep(t) \/ Leave(t)) =>
            UNCHANGED <<state, current_task>> \/ Reschedule
      BY DEF Tick, Yield, Sleep, Leave
    <2>9. \A t \in Slots : Wait(t) => UNCHANGED <<state, current_task>> \/ Sleep(t) \/ Block(t)
      BY DEF Wait, CallWait, WaitNoChild, WaitBegin, ScanNext, ScanHit, ScanEnd, Retry
    <2>10. \A t \in Slots : SetParent(t) \/ Add(t) \/ Unchild(t) \/ FindPrevious(t) \/ Unlink(t)
                              => UNCHANGED <<state, current_task>>
      BY DEF SetParent, Add, Unchild, FindPrevious, Unlink
    <2>11. \A t \in Slots : Exit(t) =>
             \/ UNCHANGED <<state, current_task>> \/ Leave(t) \/ Die(t) \/ Return(t)
             \/ WakeParent(t) \/ Fault(t)
      BY DEF Exit, ExitCall, OrphanStep, OrphanDone
    <2>12. CASE UNCHANGED vars
      BY <2>1, <2>12 DEF vars
    <2>13. CASE Tick
      BY <2>1, <2>2, <2>8, <2>13
    <2>14. ASSUME NEW t \in Slots, Own(t) PROVE [Tasks!Next]_(Tasks!vars)
      BY <2>1, <2>2, <2>3, <2>4, <2>5, <2>6, <2>7, <2>8, <2>9, <2>10, <2>11, <2>14 DEF Own, Spawn, Reap
    <2> QED BY <2>12, <2>13, <2>14 DEF Next
  <1>3. Orderly /\ [Next]_vars => Orderly'
    BY OrderlyKept
  <1> QED BY <1>1, <1>2, <1>3, OrderlyInvariant, PTL DEF Spec, ImplementsTaskStates, Tasks!Spec
-----------------------------------------------------------------------------
(* The lists of children hold all children.  With the clients there are no  *)
(* task that has children dies, so that only task_set_parent and task_reap  *)
(* change a list.                                                           *)

(* A loop along links that were prepended to, or from which one was taken.  *)
LEMMA WalkPrepended ==
    ASSUME NEW link \in Links, NEW other \in Links, NEW head \in Slots \cup {NULL}, NEW c \in Slots,
           c \notin Walk(link, head, Slots), other[c] = head,
           \A u \in Walk(link, head, Slots) : other[u] = link[u]
    PROVE  Walk(other, c, Slots) = {c} \cup Walk(link, head, Slots)
  <1> DEFINE W == Walk(link, head, Slots)
             V == Walk(other, c, Slots)
  <1>1. W \subseteq Slots /\ V \subseteq Slots
    BY DEF Walk
  <1>2. Closed(link, head, Slots, W)
    BY <1>1, WalkStart, WalkNext DEF Closed, Links
  <1>3. Walk(other, head, Slots) = W
    BY <1>2, WalkSame
  <1>4. Closed(other, c, Slots, {c} \cup W)
    BY <1>1, <1>2 DEF Closed
  <1>5. V \subseteq {c} \cup W
    BY <1>4, WalkWithin
  <1>6. c \in V
    BY WalkStart
  <1>7. Closed(other, head, Slots, V)
    <2>1. head \in V \cup {NULL}
      BY <1>6, WalkNext
    <2>2. \A u \in V : other[u] \in V \cup {NULL}
      BY <1>1, WalkNext DEF Links
    <2> QED BY <1>1, <2>1, <2>2 DEF Closed
  <1>8. W \subseteq V
    BY <1>3, <1>7, WalkWithin
  <1> QED BY <1>5, <1>6, <1>8

LEMMA WalkShortened ==
    ASSUME NEW link \in Links, NEW other \in Links, NEW head \in Slots \cup {NULL},
           NEW from \in Slots \cup {NULL}, NEW z \in Walk(link, head, Slots),
           \A u, v \in Walk(link, head, Slots) : link[u] = link[v] => u = v \/ link[u] = NULL,
           \A u \in Walk(link, head, Slots) : link[u] # head \/ head = NULL,
           from = IF head = z THEN link[z] ELSE head,
           \A u \in Walk(link, head, Slots) \ {z} : other[u] = IF link[u] = z THEN link[z] ELSE link[u]
    PROVE  Walk(other, from, Slots) = Walk(link, head, Slots) \ {z}
  <1> DEFINE W == Walk(link, head, Slots)
             R == W \ {z}
  <1>1. W \subseteq Slots /\ head # NULL
    <2>1. W \subseteq Slots
      BY DEF Walk
    <2>2. head = NULL => Closed(link, head, Slots, {})
      BY DEF Closed
    <2> QED BY <2>1, <2>2, WalkWithin
  <1>2. \A u \in W : link[u] \in W \cup {NULL}
    BY <1>1, WalkNext DEF Links
  <1>3. head \in W
    BY <1>1, WalkStart
  <1>4. z # head => \E b \in R : link[b] = z
    BY WalkPrevious
  <1> HIDE DEF W
  <1>5. link[z] # z
    BY <1>1, <1>4, NullAssumption DEF W
  <1>6. Closed(other, from, Slots, R)
    BY <1>1, <1>2, <1>3, <1>5 DEF Closed, W
  <1>7. ASSUME NEW S \in SUBSET Slots, Closed(other, from, Slots, S)
        PROVE  R \subseteq S
    <2>1. CASE z = head
      <3>1. Closed(link, head, Slots, {z} \cup (S \cap R))
        BY <1>1, <1>2, <1>5, <1>7, <2>1 DEF Closed, W
      <3> QED BY <3>1, WalkWithin DEF W
    <2>2. CASE z # head
      <3>1. PICK b \in R : link[b] = z
        BY <1>4, <2>2
      <3>2. \A u \in R : link[u] = z => u = b
        BY <1>1, <3>1, NullAssumption DEF W
      <3>3. b \in S
        <4> SUFFICES ASSUME b \notin S PROVE FALSE
          OBVIOUS
        <4>1. Closed(link, head, Slots, S \cap R)
          BY <1>1, <1>2, <1>3, <1>7, <2>2, <3>2 DEF Closed, W
        <4>2. b \in S
          BY <3>1, <4>1, WalkWithin DEF W
        <4> QED BY <4>2
      <3>4. link[z] \in S \cup {NULL}
        BY <1>1, <1>7, <3>1, <3>3 DEF Closed, W
      <3>5. Closed(link, head, Slots, {z} \cup (S \cap R))
        BY <1>1, <1>2, <1>3, <1>5, <1>7, <2>2, <3>4 DEF Closed, W
      <3> QED BY <3>5, WalkWithin DEF W
    <2> QED BY <2>1, <2>2
  <1>8. \A S \in SUBSET Slots : Closed(other, from, Slots, S) => R \subseteq S
    BY <1>7
  <1>9. Closed(other, from, Slots, Walk(other, from, Slots))
    <2>1. Walk(other, from, Slots) \in SUBSET Slots
      BY DEF Walk
    <2> QED BY <2>1, WalkStart, WalkNext DEF Closed, Links
  <1>10. Walk(other, from, Slots) \in SUBSET Slots
    BY <1>9 DEF Closed
  <1>11. R \subseteq Walk(other, from, Slots)
    BY <1>8, <1>9, <1>10
  <1>12. Walk(other, from, Slots) \subseteq R
    BY <1>6, WalkWithin
  <1> QED BY <1>11, <1>12 DEF W

(* What a list holds, whose it may be, and that its owner lives on.        *)
Mine(t) == {c \in Slots : Child(c, t)}
Settled(t) ==
    /\ Mine(t) # {} => kind[t] \in Parents
    /\ Living(t) /\ kind[t] \in Parents => 
         Children(t) = Mine(t) \ (IF Unlisted(t) THEN {work[t]} ELSE {})
Dying(t) == Dead(t) \/ pc[t] \in {"orphan", "die", "wake", "leave"}

FamilyInv == \A t \in Slots : Settled(t) /\ (Dying(t) => kind[t] \notin Parents)

LEMMA MortalsHaveNone ==
    ASSUME Orderly, NEW t \in Slots, Deaths(t) # {}
    PROVE  kind[t] \notin Parents
  <1>1. kind[t] \in {"user", "kernel", "job"}
    BY DEF Deaths
  <1>2. Parents \subseteq {"boot", "shell"}
    <2>1. <<"shell", "user">>[1] = "shell"
      OBVIOUS
    <2> QED BY <2>1 DEF Orderly, ShellClient, TestClient, Clients, Parents
  <1> QED BY <1>1, <1>2

LEMMA ParentsKept == UNCHANGED build => UNCHANGED <<Parents, Adopts>>
  BY DEF Parents, Adopts

LEMMA DyingStep ==
    ASSUME Orderly, IInv, FamilyInv, [Next]_vars, NEW u \in Slots, Dying(u)'
    PROVE  kind'[u] \notin Parents'
  <1>0. /\ state \in [Slots -> States] /\ pc \in [Slots -> Pcs] /\ current_task \in Slots
        /\ kind \in [Slots -> Kinds] /\ work \in [Slots -> Ptr]
    BY DEF IInv, TypeOK
  <1>1. Parents' = Parents
    BY BuildKept, ParentsKept
  <1>2. "none" \notin Parents
    BY KindsOfPairs DEF IInv
  <1>3. Dying(u) => kind[u] \notin Parents
    BY DEF FamilyInv
  <1> USE DEF sched, family, ident, locals, history
  <1>4. Reschedule => (state'[u] = "ZOMBIE" => state[u] = "ZOMBIE")
    BY <1>0, PicksTask DEF Reschedule
  <1>5. CASE UNCHANGED vars
    BY <1>1, <1>3, <1>5 DEF vars, Dying, Dead
  <1>6. CASE Tick
    BY <1>1, <1>3, <1>4, <1>6 DEF Tick, Dying, Dead
  <1>7. ASSUME NEW t \in Slots, Own(t) PROVE kind'[u] \notin Parents
    <2>1. CASE Yield(t)
      BY <1>3, <1>4, <2>1 DEF Yield, Dying, Dead
    <2>2. ASSUME NEW c \in Slots, NEW k \in Kinds, Create(t, c, k) PROVE kind'[u] \notin Parents
      <3>1. state'[u] = "ZOMBIE" \/ pc'[u] \in {"orphan", "die", "wake", "leave"} => u # c
        BY <1>0, <2>2 DEF Create, At
      <3>2. u # c => kind'[u] = kind[u] /\ state'[u] = state[u]
        BY <1>0, <2>2 DEF Create
      <3>3. u # c /\ u # t => pc'[u] = pc[u]
        BY <1>0, <2>2 DEF Create
      <3>4. pc'[t] \in {"adopt", "add", "run"}
        BY <1>0, <2>2 DEF Create
      <3> QED BY <1>3, <3>1, <3>2, <3>3, <3>4 DEF Dying, Dead
    <2>3. CASE SetParent(t) \/ Add(t)
      BY <1>0, <1>3, <2>3 DEF SetParent, Add, Goto, Dying, Dead
    <2>4. CASE Wait(t)
      BY <1>0, <1>3, <1>4, <2>4 DEF Wait, CallWait, WaitNoChild, WaitBegin, ScanNext, ScanHit, ScanEnd,
                                   Block, Sleep, Retry, Goto, Dying, Dead
    <2>5. CASE Unchild(t) \/ FindPrevious(t) \/ Unlink(t)
      BY <1>0, <1>3, <2>5 DEF Unchild, FindPrevious, Unlink, Goto, Dying, Dead
    <2>6. CASE Free(t)
      BY <1>0, <1>2, <1>3, <2>6 DEF Free, Goto, Dying, Dead
    <2>7. CASE ExitCall(t) \/ Return(t)
      <3>1. kind[t] \notin Parents
        BY <2>7, MortalsHaveNone DEF ExitCall, Return
      <3> QED BY <1>0, <1>3, <2>7, <3>1 DEF ExitCall, Return, Goto, Dying, Dead
    <2>8. CASE Fault(t)
      <3>1. kind[t] \notin Parents
        BY <2>8, MortalsHaveNone DEF Fault
      <3>2. u # t => (state'[u] = "ZOMBIE" => state[u] = "ZOMBIE") /\ pc'[u] = pc[u]
        BY <1>0, <2>8, PicksTask DEF Fault, Killed, Goto, At
      <3> QED BY <1>3, <2>8, <3>1, <3>2 DEF Fault, Dying, Dead
    <2>9. CASE OrphanStep(t) \/ OrphanDone(t) \/ Die(t) \/ WakeParent(t) \/ Leave(t)
      <3>1. pc[t] \in {"orphan", "die", "wake", "leave"} /\ UNCHANGED kind
        BY <2>9 DEF OrphanStep, OrphanDone, Die, WakeParent, Leave, At
      <3>2. kind[t] \notin Parents
        BY <3>1 DEF FamilyInv, Dying
      <3>3. u # t => (state'[u] = "ZOMBIE" => state[u] = "ZOMBIE") /\ pc'[u] = pc[u]
        BY <1>0, <1>4, <2>9 DEF OrphanStep, OrphanDone, Die, WakeParent, Leave, Goto
      <3> QED BY <1>3, <3>1, <3>2, <3>3 DEF Dying, Dead
    <2> QED BY <1>7, <2>1, <2>2, <2>3, <2>4, <2>5, <2>6, <2>7, <2>8, <2>9 DEF Own, Spawn, Reap, Exit
  <1> QED BY <1>1, <1>5, <1>6, <1>7 DEF Next

(* A list whose links, owner and exception stay is settled as it was.      *)
LEMMA SettledSame ==
    ASSUME TypeOK, ListInv, NEW u \in Slots, Settled(u), Dying(u) => kind[u] \notin Parents,
           UNCHANGED build, UNCHANGED <<first_child[u], kind[u]>>, Living(u)' => Living(u),
           \A d \in Slots : Child(d, u)' <=> Child(d, u),
           \A d \in Slots : Child(d, u) => next_sibling'[d] = next_sibling[d],
           Unlisted(u)' <=> Unlisted(u), Unlisted(u) => UNCHANGED work[u]
    PROVE  Settled(u)'
  <1>1. Parents' = Parents
    BY ParentsKept
  <1>2. Mine(u)' = Mine(u)
    BY DEF Mine
  <1>3. ASSUME Living(u), kind[u] \in Parents PROVE Children(u)' = Children(u)
    <2>1. Closed(next_sibling, first_child[u], Slots, Mine(u))
      BY <1>3 DEF TypeOK, Closed, ListInv, Linked, Listed, Heads, Mine, Dying
    <2>2. \A d \in Mine(u) : next_sibling'[d] = next_sibling[d]
      BY DEF Mine
    <2> QED BY <2>1, <2>2, WalkSame DEF Children
  <1> QED BY <1>1, <1>2, <1>3 DEF Settled

(* A task that leaves all links alone and is as far off the list as before. *)
LEMMA SettledAll ==
    ASSUME TypeOK, ListInv, FamilyInv, UNCHANGED <<build, kind, family>>,
           \A u \in Slots : Living(u)' <=> Living(u), NEW t \in Slots,
           \A u \in Slots \ {t} : UNCHANGED <<pc[u], work[u]>>,
           Unlisted(t)' <=> Unlisted(t), Unlisted(t) => UNCHANGED work[t],
           NEW u \in Slots
    PROVE  Settled(u)'
  <1>1. /\ \A d \in Slots : Child(d, u)' <=> Child(d, u)
        /\ \A d \in Slots : Child(d, u) => next_sibling'[d] = next_sibling[d]
        /\ UNCHANGED <<first_child[u], kind[u]>>
    BY DEF family, Child
  <1>2. (Unlisted(u)' <=> Unlisted(u)) /\ (Unlisted(u) => UNCHANGED work[u])
    BY DEF Unlisted
  <1> QED BY <1>1, <1>2, SettledSame DEF FamilyInv

(* The lists of the others.                                                *)
LEMMA SettledOthers ==
    ASSUME TypeOK, ListInv, FamilyInv, UNCHANGED build, NEW t \in Slots, OthersKept(t),
           NEW u \in Slots \ {t},
           UNCHANGED <<first_child[u], kind[u], pc[u], work[u]>>, Living(u)' => Living(u)
    PROVE  Settled(u)'
  <1>1. (Unlisted(u)' <=> Unlisted(u)) /\ (Unlisted(u) => UNCHANGED work[u])
    BY DEF Unlisted
  <1>2. /\ \A d \in Slots : Child(d, u)' <=> Child(d, u)
        /\ \A d \in Slots : Child(d, u) => next_sibling'[d] = next_sibling[d]
    BY DEF OthersKept
  <1> QED BY <1>1, <1>2, SettledSame DEF FamilyInv

LEMMA SettledCreate ==
    ASSUME IInv, FamilyInv, UNCHANGED build, NEW t \in Slots, NEW c \in Slots, NEW k \in Kinds,
           Create(t, c, k), OthersKept(t), NEW u \in Slots
    PROVE  Settled(u)'
  <1>0. /\ TypeOK /\ StateInv /\ KindInv /\ ListInv /\ state \in [Slots -> States]
        /\ pc \in [Slots -> Pcs] /\ work \in [Slots -> Ptr] /\ kind \in [Slots -> Kinds] 
        /\ parent \in [Slots -> Ptr] /\ first_child \in [Slots -> Ptr] /\ next_sibling \in [Slots -> Ptr]
    BY DEF IInv, TypeOK
  <1>1. state[c] = "FREE" /\ state'[c] = "READY" /\ c # t /\ kind[c] = "none"
    BY <1>0 DEF Create, At, StateInv, Placed, KindInv, Kinded
  <1>2. Mine(c) = {}
    BY <1>0, <1>1, KindsOfPairs DEF FamilyInv, Settled
  <1>3. parent'[c] = NULL /\ next_sibling'[c] = NULL /\ first_child'[c] = NULL /\ pc'[c] = "run"
    BY <1>0, <1>1 DEF Create
  <1>4. \A d \in Slots \ {c} : UNCHANGED <<parent[d], next_sibling[d], first_child[d], state[d], kind[d]>>
    BY <1>0 DEF Create
  <1>5. pc'[t] \in {"adopt", "add"} /\ pc[t] = "run"
    BY <1>0, <1>1 DEF Create, At
  <1>6. CASE u = c
    <2>1. Mine(c)' = {}
      BY <1>1, <1>2, <1>3, <1>4, NullAssumption DEF Mine, Child, Living
    <2>2. Children(c)' = {}
      <3>1. Closed(next_sibling', NULL, Slots, {})
        BY DEF Closed
      <3>2. Walk(next_sibling', NULL, Slots) \subseteq {}
        BY <3>1, WalkWithin
      <3> QED BY <1>3, <3>2 DEF Children
    <2> QED BY <1>6, <2>1, <2>2 DEF Settled
  <1>7. CASE u = t
    <2>1. \A d \in Slots : Child(d, t)' <=> Child(d, t)
      BY <1>1, <1>3, <1>4, NullAssumption DEF Child, Living
    <2>2. \A d \in Slots : Child(d, t) => next_sibling'[d] = next_sibling[d]
      BY <1>1, <1>4 DEF Child, Living
    <2>3. ~Unlisted(t) /\ ~Unlisted(t)' /\ (Living(t)' => Living(t)) /\ UNCHANGED <<first_child[t], kind[t]>>
      BY <1>1, <1>4, <1>5 DEF Unlisted, Living
    <2> QED BY <1>0, <1>7, <2>1, <2>2, <2>3, SettledSame DEF FamilyInv
  <1>8. CASE u \notin {c, t}
    <2>1. UNCHANGED <<first_child[u], kind[u], pc[u], work[u]>> /\ (Living(u)' => Living(u))
      BY <1>0, <1>4, <1>8 DEF Create, Living
    <2> QED BY <1>0, <1>8, <2>1, SettledOthers
  <1> QED BY <1>6, <1>7, <1>8

LEMMA SettledAdopt ==
    ASSUME IInv, FamilyInv, UNCHANGED build, NEW t \in Slots, SetParent(t), OthersKept(t), NEW u \in Slots
    PROVE  Settled(u)'
  <1> USE DEF sched, ident, history
  <1>0. /\ TypeOK /\ StateInv /\ KindInv /\ ListInv /\ MakingInv /\ state \in [Slots -> States]
        /\ pc \in [Slots -> Pcs] /\ work \in [Slots -> Ptr] /\ kind \in [Slots -> Kinds] 
        /\ parent \in [Slots -> Ptr] /\ first_child \in [Slots -> Ptr] /\ next_sibling \in [Slots -> Ptr]
    BY DEF IInv, TypeOK
  <1> DEFINE c == work[t]
  <1>1. /\ At(t, "adopt") /\ c \in Slots /\ parent[c] = NULL /\ state[c] = "READY" /\ UNCHANGED <<state, kind, work>>
        /\ Living(t) /\ c # t
    BY <1>0 DEF SetParent, At, MakingInv, Made, Making, StateInv, Placed, Living, OnCpu
  <1>2. kind[t] \in Parents
    BY <1>0, <1>1 DEF KindInv, Kinded, At
  <1>3. /\ parent' = [parent EXCEPT ![c] = t]
        /\ next_sibling' = [next_sibling EXCEPT ![c] = first_child[t]]
        /\ first_child' = [first_child EXCEPT ![t] = c]
        /\ pc' = [pc EXCEPT ![t] = "add"]
    BY DEF SetParent, Goto
  <1> HIDE DEF c
  <1>4. CASE u = t
    <2>1. ~Child(c, t) /\ Mine(t)' = {c} \cup Mine(t)
      BY <1>0, <1>1, <1>3, NullAssumption DEF Mine, Child, Living
    <2>2. Children(t) = Mine(t)
      BY <1>1, <1>2 DEF FamilyInv, Settled, Unlisted, At
    <2>3. /\ c \notin Walk(next_sibling, first_child[t], Slots)
          /\ \A v \in Walk(next_sibling, first_child[t], Slots) : next_sibling'[v] = next_sibling[v]
      BY <1>0, <1>1, <1>3, <2>1, <2>2 DEF Children, Mine
    <2>4. next_sibling \in Links /\ next_sibling' \in Links /\ first_child[t] \in Slots \cup {NULL} /\ next_sibling'[c] = first_child[t]
      BY <1>0, <1>1, <1>3 DEF Links, Ptr
    <2>5. Walk(next_sibling', c, Slots) = {c} \cup Walk(next_sibling, first_child[t], Slots)
      BY <1>1, <2>3, <2>4, WalkPrepended
    <2>6. Children(t)' = {c} \cup Mine(t)
      BY <1>0, <1>3, <2>2, <2>5 DEF Children
    <2>7. ~Unlisted(t)' /\ kind'[t] \in Parents'
      BY <1>0, <1>1, <1>2, <1>3, ParentsKept DEF Unlisted
    <2> QED BY <1>4, <2>1, <2>6, <2>7 DEF Settled
  <1>5. CASE u # t
    <2>1. UNCHANGED <<first_child[u], kind[u], pc[u], work[u]>> /\ (Living(u)' => Living(u))
      BY <1>0, <1>1, <1>3, <1>5 DEF Living
    <2> QED BY <1>0, <1>5, <2>1, SettledOthers
  <1> QED BY <1>4, <1>5

LEMMA SettledUnchild ==
    ASSUME IInv, FamilyInv, UNCHANGED build, NEW t \in Slots, Unchild(t), OthersKept(t), NEW u \in Slots
    PROVE  Settled(u)'
  <1> USE DEF sched, ident, history
  <1>0. /\ TypeOK /\ StateInv /\ KindInv /\ ListInv /\ ReapInv /\ state \in [Slots -> States]
        /\ pc \in [Slots -> Pcs] /\ work \in [Slots -> Ptr] /\ kind \in [Slots -> Kinds] 
        /\ parent \in [Slots -> Ptr] /\ first_child \in [Slots -> Ptr] /\ next_sibling \in [Slots -> Ptr]
    BY DEF IInv, TypeOK
  <1> DEFINE z == work[t]
  <1>1. /\ At(t, "unchild") /\ z \in Slots /\ UNCHANGED <<state, parent, kind, work>> /\ Living(t)
    BY <1>0 DEF Unchild, At, ReapInv, Reaped, Reaping, StateInv, Placed, Living, OnCpu
  <1>2. kind[t] \in Parents
    BY <1>0, <1>1 DEF KindInv, Kinded, At, Reaping
  <1>3. Children(t) = Mine(t) /\ z \in Children(t)
    BY <1>0, <1>1, <1>2 DEF FamilyInv, Settled, Unlisted, At, ListInv, Listed
  <1>4. /\ pc' = [pc EXCEPT ![t] = "find"]
        /\ next_sibling'[z] = NULL
        /\ first_child'[t] = IF first_child[t] = z THEN next_sibling[z] ELSE first_child[t]
        /\ \A v \in Slots \ {t} : first_child'[v] = first_child[v]
    BY <1>0, <1>1 DEF Unchild, Goto
  <1>5. CASE u = t
    <2> DEFINE W == Walk(next_sibling, first_child[t], Slots)
    <2>1. W = Mine(t)
      BY <1>3 DEF Children
    <2>2. \A a, b \in W : next_sibling[a] = next_sibling[b] => a = b \/ next_sibling[a] = NULL
      BY <1>0, <2>1 DEF Mine, ListInv, Linked
    <2>3. \A a \in W : next_sibling[a] # first_child[t] \/ first_child[t] = NULL
      BY <1>0, <1>1, <2>1 DEF Mine, ListInv, Listed, Heads, At, Ptr
    <2>4. /\ next_sibling \in Links /\ first_child[t] \in Slots \cup {NULL}
          /\ first_child'[t] \in Slots \cup {NULL}
      BY <1>0, <1>1, <1>4 DEF Links, Ptr
    <2>5. \A a \in W \ {z} : next_sibling'[a] = IF next_sibling[a] = z THEN next_sibling[z] ELSE next_sibling[a]
      <3>1. CASE first_child[t] = z
        <4>1. \A a \in W : next_sibling[a] # z
          BY <1>1, <2>3, <3>1, NullAssumption
        <4>2. \A a \in W \ {z} : next_sibling'[a] = next_sibling[a]
          BY <1>0, <2>1, <3>1 DEF Unchild, Mine
        <4> QED BY <4>1, <4>2
      <3>2. CASE first_child[t] # z
        BY <1>0, <1>3, <2>1, <3>2 DEF Unchild, Mine
      <3> QED BY <3>1, <3>2
    <2>6. next_sibling' \in Links
      BY <1>0, <1>1 DEF Unchild, Links, Ptr
    <2>7. z \in W
      BY <1>3 DEF Children
    <2>8. Walk(next_sibling', first_child'[t], Slots) = W \ {z}
      <3> HIDE DEF z
      <3> QED BY <1>4, <2>2, <2>3, <2>4, <2>5, <2>6, <2>7, WalkShortened
    <2>9. Mine(t)' = Mine(t) /\ Unlisted(t)' /\ work'[t] = z
      BY <1>0, <1>1, <1>4 DEF Mine, Child, Living, Unlisted
    <2>10. Children(t)' = Mine(t) \ {z}
      BY <2>1, <2>8 DEF Children
    <2>11. kind'[t] \in Parents'
      BY <1>1, <1>2, ParentsKept
    <2> QED BY <1>5, <2>9, <2>10, <2>11 DEF Settled
  <1>6. CASE u # t
    <2>1. UNCHANGED <<first_child[u], kind[u], pc[u], work[u]>> /\ (Living(u)' => Living(u))
      BY <1>0, <1>1, <1>4, <1>6 DEF Living
    <2> QED BY <1>0, <1>6, <2>1, SettledOthers
  <1> QED BY <1>5, <1>6

LEMMA SettledFree ==
    ASSUME IInv, FamilyInv, UNCHANGED build, NEW t \in Slots, Free(t), OthersKept(t), NEW u \in Slots
    PROVE  Settled(u)'
  <1> USE DEF family, history
  <1>0. /\ TypeOK /\ StateInv /\ KindInv /\ ListInv /\ ReapInv /\ state \in [Slots -> States]
        /\ pc \in [Slots -> Pcs] /\ work \in [Slots -> Ptr] /\ kind \in [Slots -> Kinds] 
        /\ parent \in [Slots -> Ptr] /\ first_child \in [Slots -> Ptr] /\ next_sibling \in [Slots -> Ptr]
    BY DEF IInv, TypeOK
  <1> DEFINE z == work[t]
  <1>1. /\ At(t, "free") /\ z \in Slots /\ state[z] = "ZOMBIE" /\ z # t /\ parent[z] = t
        /\ UNCHANGED <<family, work>> /\ Living(t)
    BY <1>0 DEF Free, At, ReapInv, Reaped, Reaping, StateInv, Placed, Living, OnCpu
  <1>2. kind[t] \in Parents
    BY <1>0, <1>1 DEF KindInv, Kinded, At, Reaping
  <1>3. /\ pc' = [pc EXCEPT ![t] = "run"] /\ state' = [state EXCEPT ![z] = "FREE"]
        /\ kind' = [kind EXCEPT ![z] = "none"]
    BY <1>1 DEF Free, Goto
  <1>4. Children(t) = Mine(t) \ {z}
    BY <1>1, <1>2 DEF FamilyInv, Settled, Unlisted, At
  <1>5. Mine(z) = {}
    BY <1>1 DEF FamilyInv, Settled, Dying, Dead
  <1> HIDE DEF z
  <1>6. CASE u = t
    <2>1. Mine(t)' = Mine(t) \ {z}
      BY <1>0, <1>1, <1>3 DEF Mine, Child, Living
    <2>2. Children(t)' = Children(t)
      BY <1>1 DEF Children
    <2>3. kind'[t] \in Parents' /\ ~Unlisted(t)'
      BY <1>0, <1>1, <1>2, <1>3, ParentsKept DEF Unlisted
    <2> QED BY <1>4, <1>6, <2>1, <2>2, <2>3 DEF Settled
  <1>7. CASE u = z
    <2>1. Mine(u)' = {}
      BY <1>0, <1>1, <1>3, <1>5, <1>7 DEF Mine, Child, Living
    <2>2. ~Living(u)'
      BY <1>0, <1>1, <1>3, <1>7 DEF Living
    <2> QED BY <2>1, <2>2 DEF Settled
  <1>8. CASE u \notin {t, z}
    <2>1. UNCHANGED <<first_child[u], kind[u], pc[u], work[u]>> /\ (Living(u)' => Living(u))
      BY <1>0, <1>1, <1>3, <1>8 DEF Living
    <2> QED BY <1>0, <1>8, <2>1, SettledOthers
  <1> QED BY <1>6, <1>7, <1>8

LEMMA SettledStep ==
    ASSUME IInv, FamilyInv, [Next]_vars, NEW u \in Slots
    PROVE  Settled(u)'
  <1>0. /\ TypeOK /\ StateInv /\ KindInv /\ MakingInv /\ ReapInv /\ ListInv /\ RunQueueIntact
        /\ pc \in [Slots -> Pcs] /\ work \in [Slots -> Ptr] /\ first_child \in [Slots -> Ptr]
    BY DEF IInv, QueueInv, TypeOK
  <1>1. UNCHANGED build
    BY BuildKept
  <1> USE DEF sched, ident, locals, history
  <1>2. CASE UNCHANGED vars
    <2>1. \A v \in Slots : Living(v)' <=> Living(v)
      BY <1>2 DEF vars, Living
    <2>2. UNCHANGED <<build, kind, family, pc, work>>
      BY <1>2 DEF vars
    <2>3. \A v \in Slots : Unlisted(v)' <=> Unlisted(v)
      BY <2>2 DEF Unlisted
    <2> QED BY <1>0, <2>1, <2>2, <2>3, SettledAll
  <1>3. CASE Tick
    <2>1. \A v \in Slots : Living(v)' <=> Living(v)
      BY <1>0, <1>3, CalmStep DEF Calm, Living
    <2>2. UNCHANGED <<build, kind, family, pc, work>>
      BY <1>3 DEF Tick
    <2>3. \A v \in Slots : Unlisted(v)' <=> Unlisted(v)
      BY <2>2 DEF Unlisted
    <2> QED BY <1>0, <2>1, <2>2, <2>3, SettledAll
  <1>4. ASSUME NEW t \in Slots, Own(t) PROVE Settled(u)'
    <2>1. OthersKept(t)
      BY <1>0, <1>4, FamilyStep
    <2>2. ASSUME \/ Yield(t) \/ Add(t) \/ Wait(t) \/ FindPrevious(t) \/ Unlink(t)
                 \/ (Exit(t) /\ ~OrphanStep(t))
          PROVE  Settled(u)'
      <3>1. \A v \in Slots : Living(v)' <=> Living(v)
        BY <1>0, <2>2, CalmStep DEF Calm, Living
      <3>2. first_child[t] = NULL \/ ~OrphanDone(t)
        <4>1. OrphanDone(t) => Dying(t) /\ Living(t)
          BY <1>0 DEF OrphanDone, At, Dying, StateInv, Placed, Living
        <4> QED BY <1>0, <4>1 DEF FamilyInv, KindInv, Kinded
      <3>3. UNCHANGED <<kind, family>>
        <4>1. OrphanDone(t) => UNCHANGED first_child
          BY <1>0, <3>2 DEF OrphanDone
        <4> QED BY <2>2, <4>1 
             DEF Yield, Add, FindPrevious, Unlink, Wait, CallWait, WaitNoChild, WaitBegin, ScanNext, ScanHit,
                 ScanEnd, Block, Sleep, Retry, Exit, ExitCall, OrphanDone, Die, WakeParent, Return, Leave, Fault, family
      <3>4. \A v \in Slots \ {t} : UNCHANGED <<pc[v], work[v]>>
        BY <1>0, <2>2
           DEF Goto, Yield, Add, FindPrevious, Unlink, Wait, CallWait, WaitNoChild, WaitBegin, ScanNext, ScanHit,
               ScanEnd, Block, Sleep, Retry, Exit, ExitCall, OrphanDone, Die, WakeParent, Return, Leave, Fault
      <3>5. (Unlisted(t)' <=> Unlisted(t)) /\ (Unlisted(t) => UNCHANGED work[t])
        BY <1>0, <2>2
           DEF Unlisted, At, Goto, Yield, Add, FindPrevious, Unlink, Wait, CallWait, WaitNoChild, WaitBegin, ScanNext,
               ScanHit, ScanEnd, Block, Sleep, Retry, Exit, ExitCall, OrphanDone, Die, WakeParent, Return, Leave, Fault
      <3> QED BY <1>0, <1>1, <3>1, <3>3, <3>4, <3>5, SettledAll
    <2>3. CASE OrphanStep(t)
      <3>1. Dying(t) /\ work[t] \in Mine(t)
        BY <1>0, <2>3 DEF OrphanStep, At, Dying, ListInv, Listed, Heads, Mine, Ptr
      <3> QED BY <3>1 DEF FamilyInv, Settled
    <2> QED BY <1>1, <1>4, <2>1, <2>2, <2>3, SettledCreate, SettledAdopt, SettledUnchild, SettledFree
            DEF Own, Spawn, Reap
  <1> QED BY <1>2, <1>3, <1>4 DEF Next

LEMMA FamilyInit == Init => FamilyInv
  <1> SUFFICES ASSUME Init, NEW t \in Slots PROVE Settled(t) /\ (Dying(t) => kind[t] \notin Parents)
    BY DEF FamilyInv
  <1>1. Mine(t) = {}
    BY NullAssumption DEF Init, Mine, Child
  <1>2. Children(t) = {}
    <2>1. Closed(next_sibling, NULL, Slots, {})
      BY DEF Closed
    <2>2. Walk(next_sibling, NULL, Slots) \subseteq {}
      BY <2>1, WalkWithin
    <2> QED BY <2>2 DEF Init, Children
  <1>3. ~Dying(t)
    BY DEF Init, Dying, Dead
  <1> QED BY <1>1, <1>2, <1>3 DEF Settled

LEMMA FamilyAlways == Spec => [](Orderly => FamilyInv)
  <1>1. OrderlyInv /\ (Orderly => FamilyInv) /\ [Next]_vars => (Orderly => FamilyInv)'
    <2> SUFFICES ASSUME Orderly, IInv, FamilyInv, [Next]_vars PROVE FamilyInv'
      BY OrderlyKept DEF OrderlyInv
    <2>1. \A u \in Slots : Settled(u)'
      BY SettledStep
    <2>2. \A u \in Slots : Dying(u)' => kind'[u] \notin Parents'
      BY DyingStep
    <2> QED BY <2>1, <2>2 DEF FamilyInv
  <1> QED BY <1>1, FamilyInit, OrderlyInvariant, PTL DEF Spec

(* The list task_set_parent, task_reap and task_exit keep of the children   *)
(* of a task is the set of them.                                            *)
THEOREM ListsAreWhole == Spec => [](Orderly => ChildrenList)
  <1>1. IInv /\ FamilyInv => ChildrenList
    <2> SUFFICES ASSUME IInv, FamilyInv, NEW t \in Slots, Living(t)
                 PROVE  IF pc[t] = "orphan" THEN Walk(next_sibling, work[t], Slots) = Mine(t)
                        ELSE Children(t) = Mine(t) \ (IF Unlisted(t) THEN {work[t]} ELSE {})
      BY DEF ChildrenList, Mine, Child
    <2>1. Walk(next_sibling, NULL, Slots) = {}
      <3>1. Closed(next_sibling, NULL, Slots, {})
        BY DEF Closed
      <3> QED BY <3>1, WalkWithin
    <2>2. CASE kind[t] \in Parents
      <3>1. pc[t] # "orphan"
        BY <2>2 DEF FamilyInv, Dying
      <3> QED BY <2>2, <3>1 DEF FamilyInv, Settled
    <2>3. CASE kind[t] \notin Parents
      <3>1. Mine(t) = {} /\ first_child[t] = NULL
        BY <2>3 DEF FamilyInv, Settled, IInv, KindInv, Kinded
      <3>2. pc[t] = "orphan" => work[t] = NULL
        BY <3>1 DEF IInv, TypeOK, ListInv, Listed, Heads, Mine, Ptr
      <3> QED BY <2>1, <3>1, <3>2 DEF Children
    <2> QED BY <2>2, <2>3
  <1>2. OrderlyInv /\ (Orderly => FamilyInv) => (Orderly => ChildrenList)
    BY <1>1 DEF OrderlyInv
  <1> QED BY <1>2, OrderlyInvariant, FamilyAlways, PTL

(* task_reap gives a task_t back when no list and no parent pointer of a    *)
(* task that lives leads to it any more.                                    *)
THEOREM NothingDangles == Spec => [](Orderly => NoDangling)
  <1>1. IInv /\ FamilyInv => NoDangling
    <2> SUFFICES ASSUME IInv, FamilyInv, NEW t \in Slots, Living(t),
                        NEW p \in {parent[t], first_child[t], next_sibling[t]} \ {NULL}
                 PROVE  Living(p) \/ (p = next_sibling[t] /\ parent[t] = NULL)
      BY DEF NoDangling
    <2>0. TypeOK /\ KindInv /\ ListInv /\ p \in Slots
      BY DEF IInv, TypeOK, Ptr
    <2>1. \A q \in Slots : parent[t] = q => kind[q] \in Parents /\ Living(q)
      <3> SUFFICES ASSUME NEW q \in Slots, parent[t] = q PROVE kind[q] \in Parents /\ Living(q)
        OBVIOUS
      <3>1. t \in Mine(q)
        BY DEF Mine, Child
      <3>2. kind[q] \in Parents
        BY <3>1 DEF FamilyInv, Settled
      <3> QED BY <2>0, <3>2, KindsOfPairs DEF KindInv, Kinded, Living
    <2>2. CASE p = first_child[t]
      <3>1. pc[t] # "orphan"
        BY <2>0, <2>2 DEF FamilyInv, Dying, KindInv, Kinded
      <3> QED BY <2>0, <2>2, <3>1 DEF ListInv, Listed, Heads, Child
    <2>3. CASE p = next_sibling[t] /\ parent[t] # NULL
      <3>1. parent[t] \in Slots
        BY <2>0, <2>3 DEF TypeOK, Ptr
      <3> QED BY <2>0, <2>3, <3>1 DEF ListInv, Linked, Child
    <2> QED BY <2>0, <2>1, <2>2, <2>3
  <1>2. OrderlyInv /\ (Orderly => FamilyInv) => (Orderly => NoDangling)
    BY <1>1 DEF OrderlyInv
  <1> QED BY <1>2, OrderlyInvariant, FamilyAlways, PTL
=============================================================================
