------------------------------ MODULE MCProcess ------------------------------
(***************************************************************************)
(* Small instances of the process lifecycle, one per client of it that the  *)
(* repository has, and one for the parts of task.c no client uses yet.      *)
(***************************************************************************)
EXTENDS ProcessProperties, TLC

(* The production kernel: kmain starts the shell (shell_init), the shell     *)
(* runs one user program at a time (cmd_run).                                *)
ShellBuild == [starts |-> {<<"boot", "shell">>}, adopts |-> {<<"shell", "user">>},
               exits |-> {"exit", "fault"}]

(* The regression tests: the bootstrap task spawns kernel tasks and waits    *)
(* for them, and adds user tasks it is not the parent of.                    *)
TestBuild == [starts |-> {<<"boot", "user">>}, adopts |-> {<<"boot", "kernel">>},
              exits |-> {"exit", "fault", "return"}]

(* A kernel task that has children and may itself exit or return: it goes    *)
(* through the orphan loop of task_exit or past it; nobody does that yet.    *)
JobBuild == [starts |-> {<<"boot", "job">>}, adopts |-> {<<"job", "user">>},
             exits |-> {"exit", "return"}]

AllBuilds == {ShellBuild, TestBuild, JobBuild}
(* A shell whose programs only ever exit.                                   *)
TheShell == {[ShellBuild EXCEPT !.exits = {"exit"}]}
OrderlyBuilds == {ShellBuild, TestBuild}

(* The blocks of the heap are interchangeable.                              *)
Blocks == Permutations(Slots \ {Boot, Idle})
=============================================================================
