------------------------------- MODULE Spawn --------------------------------
(***************************************************************************)
(* The memory of tasks from creation to reaping: task_create,               *)
(* task_create_user, task_create_elf with elf_load_into, and task_reap of   *)
(* task.c, on the page tables of paging.c and the frames of pmm.c.  One     *)
(* task at a time creates and reaps (the shell, or the tests' bootstrap     *)
(* task); the others may die between any two pages of a load.               *)
(***************************************************************************)
EXTENDS PageTables, Functions, SequencesExt

CONSTANTS Slots,         \* task structs
          Frames,        \* the frames of the machine that are not reserved
          KernelHalf,    \* the upper half of the kernel's page tables: node -> frame
          Programs,      \* images, as the sequence of pages their segments fill
          Stack,         \* the pages of USER_ELF_STACK_TOP
          Code           \* USER_CODE_VADDR and USER_STACK_VADDR

(* The kernel's tables lie in its half and hold frames of the machine.      *)
ASSUME MachineAssumption ==
    /\ Frames \subseteq Nat /\ IsFiniteSet(Frames)
    /\ Range(KernelHalf) \subseteq Frames
    /\ \A n \in DOMAIN KernelHalf : n # <<>> /\ n[1] \notin UserHalf

(* Images lie in the user's half, put no two segments on one page and none  *)
(* on the stack's.                                                          *)
ASSUME ProgramAssumption ==
    /\ Programs \subseteq Seq(UserPages) /\ Stack \in Seq(UserPages) \ {<<>>} 
    /\ Code \in Seq(UserPages) /\ Len(Code) = 2
    /\ \A pages \in {p \o Stack : p \in Programs} \cup {Code} : IsInjective(pages)

VARIABLES free,          \* the clear bits of pmm_bitmap
          task,          \* [state, user, stack, as, pages]
          todo,          \* pages task_create_elf still has to map, its stack's last
          holds,         \* history: the page a frame in use was filled for, <<slot, page>>
          halted         \* "no", or what stopped the machine: "memory", "assert"

vars == <<free, task, todo, holds, halted>>

NoTask == [state |-> "free", user |-> FALSE, stack |-> 0, as |-> <<>>, pages |-> <<>>]
KernelFrames == Range(KernelHalf)
Loading == {s \in Slots : task[s].state = "loading"}

Init ==
    /\ free = Frames \ KernelFrames
    /\ task = [s \in Slots |-> NoTask]
    /\ todo = <<>> /\ holds = <<>> /\ halted = "no"

(* pmm_alloc_frame n times: the lowest clear bits; it panics when there are *)
(* not enough, so that the callers' tests for 0 never see one.              *)
Lowest(n) == [i \in 1 .. n |-> CHOOSE f \in free : Cardinality({g \in free : g < f}) = i - 1]
Short(n) == Cardinality(free) < n
Panic(why) == halted' = why /\ UNCHANGED <<free, task, todo, holds>>

Entry(s, pages) == [f \in {pages[i][2] : i \in DOMAIN pages} |-> <<s, (CHOOSE p \in Range(pages) : p[2] = f)[1]>>]
Labelled(new) == [f \in DOMAIN new \cup DOMAIN holds |-> IF f \in DOMAIN new THEN new[f] ELSE holds[f]]

(* task_create: a kernel task has a stack and runs in the kernel's space.   *)
Create(s) ==
    /\ task[s].state = "free" /\ Loading = {}
    /\ IF Short(1) THEN Panic("memory")
       ELSE /\ task' = [task EXCEPT ![s] = [state |-> "alive", user |-> FALSE, stack |-> Lowest(1)[1],
                                            as |-> <<>>, pages |-> <<>>]]
            /\ free' = free \ Range(Lowest(1))
            /\ UNCHANGED <<todo, holds, halted>>

(* task_create_user: stack, PML4, code page and stack page, then the tables *)
(* of both pages.                                                           *)
CreateUser(s) ==
    /\ task[s].state = "free" /\ Loading = {}
    /\ LET tables(as, page) == Len(MissingTables(as, page))
           frames(n) == SubSeq(Lowest(Cardinality(free)), n + 1, Cardinality(free))
           empty == NewSpace(IF Short(2) THEN 0 ELSE Lowest(2)[2], KernelHalf)
           first == tables(empty, Code[1])
           coded == MapPage(empty, Code[1], Lowest(3)[3], frames(4))
           need == 4 + first + tables(coded, Code[2])
           space == MapPage(coded, Code[2], Lowest(4)[4], frames(4 + first))
       IN  IF Short(4 + first) \/ Short(need) THEN Panic("memory")
           ELSE /\ task' = [task EXCEPT ![s] = [state |-> "alive", user |-> TRUE, stack |-> Lowest(1)[1],
                                                as |-> space, pages |-> Code]]
                /\ holds' = Labelled(Entry(s, <<<<Code[1], Lowest(3)[3]>>, <<Code[2], Lowest(4)[4]>>>>))
                /\ free' = free \ Range(Lowest(need))
                /\ UNCHANGED <<todo, halted>>

(* task_create_elf up to the second pass of elf_load_into.                  *)
CreateElf(s, program) ==
    /\ task[s].state = "free" /\ Loading = {}
    /\ IF Short(2) THEN Panic("memory")
       ELSE /\ task' = [task EXCEPT ![s] = [state |-> "loading", user |-> TRUE, stack |-> Lowest(2)[1],
                                            as |-> NewSpace(Lowest(2)[2], KernelHalf),
                                            pages |-> program \o Stack]]
            /\ todo' = program \o Stack
            /\ free' = free \ Range(Lowest(2))
            /\ UNCHANGED <<holds, halted>>

(* The first pass of elf_load_into refuses the image.                       *)
Refuse(s) ==
    /\ task[s].state = "loading" /\ todo = task[s].pages
    /\ task' = [task EXCEPT ![s] = NoTask]
    /\ todo' = <<>>
    /\ free' = free \cup {task[s].as[<<>>], task[s].stack}
    /\ UNCHANGED <<holds, halted>>

(* A slip: the frames of new tables keep their clear bit.                   *)
MapNext_TablesUnmarked(s) ==
    /\ task[s].state = "loading"
    /\ LET page == Head(todo)
           need == 1 + Len(MissingTables(task[s].as, page))
       IN  IF Short(need) THEN Panic("memory")
           ELSE /\ task' = [task EXCEPT ![s] =
                       [state |-> IF Tail(todo) = <<>> THEN "alive" ELSE "loading", user |-> TRUE,
                        stack |-> @.stack, as |-> MapPage(@.as, page, Lowest(1)[1], Tail(Lowest(need))),
                        pages |-> @.pages]]
                /\ holds' = Labelled(Entry(s, <<<<page, Lowest(1)[1]>>>>))
                /\ free' = free \ Range(Lowest(1))
                /\ todo' = Tail(todo)
                /\ UNCHANGED halted

(* The next page of the image, then of the stack: a frame for it, filled,   *)
(* and the tables paging_map_page_in misses; the last one completes the     *)
(* task.                                                                    *)
MapNext(s) ==
    /\ task[s].state = "loading"
    /\ LET page == Head(todo)
           need == 1 + Len(MissingTables(task[s].as, page))
       IN  IF Short(need) THEN Panic("memory")
           ELSE /\ task' = [task EXCEPT ![s] =
                       [state |-> IF Tail(todo) = <<>> THEN "alive" ELSE "loading", user |-> TRUE,
                        stack |-> @.stack, as |-> MapPage(@.as, page, Lowest(1)[1], Tail(Lowest(need))),
                        pages |-> @.pages]]
                /\ holds' = Labelled(Entry(s, <<<<page, Lowest(1)[1]>>>>))
                /\ free' = free \ Range(Lowest(need))
                /\ todo' = Tail(todo)
                /\ UNCHANGED halted

(* task_exit, as far as memory is concerned.                                *)
Die(s) ==
    /\ task[s].state = "alive"
    /\ task' = [task EXCEPT ![s].state = "zombie"]
    /\ UNCHANGED <<free, todo, holds, halted>>

(* What task_reap gives back: all that the user half reaches, the PML4 and  *)
(* the kernel stack.                                                        *)
Returned(s) ==
    (IF task[s].user THEN UserFrames(task[s].as) \cup {task[s].as[<<>>]} ELSE {}) \cup {task[s].stack}

(* The ASSERT of pmm_free_frame: a bit that is clear already.               *)
FreedTwice(s) ==
    \/ Returned(s) \cap free # {}
    \/ task[s].user /\ Cardinality(UserFrames(task[s].as)) # Cardinality(UserNodes(task[s].as))

(* task_reap, from task_wait or by the tests.                               *)
Reap(s) ==
    /\ task[s].state = "zombie" /\ Loading = {}
    /\ IF FreedTwice(s) THEN Panic("assert")
       ELSE /\ task' = [task EXCEPT ![s] = NoTask]
            /\ free' = free \cup Returned(s)
            /\ holds' = Restrict(holds, DOMAIN holds \ Returned(s))
            /\ UNCHANGED <<todo, halted>>

Next ==
    /\ halted = "no"
    /\ \E s \in Slots :
        \/ Create(s) \/ CreateUser(s) \/ (\E program \in Programs : CreateElf(s, program))
        \/ Refuse(s) \/ MapNext(s) \/ Die(s) \/ Reap(s)

Spec == Init /\ [][Next]_vars
-----------------------------------------------------------------------------
Tasks == {s \in Slots : task[s].state # "free"}
UserTasks == {s \in Tasks : task[s].user}

(* The frames of a task: its stack, its PML4 and its user half.             *)
Private(s) == IF task[s].user THEN {<<>>} \cup UserNodes(task[s].as) ELSE {}
Owned(s) == {task[s].stack} \cup {task[s].as[n] : n \in Private(s)}

(* No frame serves two purposes, in one task or in two, alive, dying or     *)
(* half loaded, and none that is in use is marked free.                     *)
Isolated ==
    /\ \A s \in Tasks : /\ Owned(s) \cap (free \cup KernelFrames) = {}
                        /\ Cardinality(Owned(s)) = 1 + Cardinality(Private(s))
    /\ \A s, t \in Tasks : s # t => Owned(s) \cap Owned(t) = {}

(* No frame is lost: whatever was created, refused and reaped, each is      *)
(* free, the kernel's or some task's.                                       *)
NoLeak == Frames = free \cup KernelFrames \cup UNION {Owned(s) : s \in Tasks}

(* "Double-free detection" (pmm.c:189) never stops the machine.             *)
NeverAsserts == halted # "assert"

(* Every frame has one owner, through every creation, refusal and reaping.  *)
OneOwner == Isolated /\ NoLeak /\ NeverAsserts

(* A task that runs finds each of its pages mapped to the frame that was    *)
(* filled for it, and for no other task since.                              *)
ImageKept ==
    \A s \in UserTasks : task[s].state = "alive" =>
        \A page \in Range(task[s].pages) :
            /\ Path(page) \in DOMAIN task[s].as
            /\ holds[LeafOf(task[s].as, page)] = <<s, page>>

(* Every address space has the kernel mapped as the kernel has it, and its  *)
(* tables outlive the tasks that share them.                                *)
KernelMapped ==
    /\ KernelFrames \cap free = {}
    /\ \A s \in UserTasks, n \in DOMAIN KernelHalf : task[s].as[n] = KernelHalf[n]

=============================================================================
