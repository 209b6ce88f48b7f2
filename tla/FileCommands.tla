---------------------------- MODULE FileCommands ----------------------------
(***************************************************************************)
(* The two users of the file layer: cmd_cat of the shell and                *)
(* task_create_from_path, which loads a program.  Each opens a file, asks   *)
(* the heap for room, reads it and must give both back on every path.  The  *)
(* regression tests call the file layer themselves, in any order.           *)
(***************************************************************************)
EXTENDS Vfs

CONSTANT CAT_CAP       \* cat shows no more than this

ASSUME CapAssumption == CAT_CAP \in Nat

VARIABLES client,      \* the program of this kernel: "shell" or "tests"
          job,         \* the command in progress, NoJob
          buf,         \* bytes of the heap it holds
          result       \* [cmd, path, why, bytes] of the last command

cmdVars == <<vars, client, job, buf, result>>

NoJob == [cmd |-> "none"]
NoResult == [cmd |-> "none", why |-> "none"]

CmdInit == VfsInit /\ client \in {"shell", "tests"} /\ job = NoJob /\ buf = 0 /\ result = NoResult

Finish(why, bytes) ==
    /\ job' = NoJob /\ buf' = 0
    /\ result' = [cmd |-> job.cmd, path |-> job.path, why |-> why, bytes |-> bytes]

Start(cmd, path) ==
    /\ client = "shell" /\ job = NoJob /\ Mounted /\ vfs_open(path)
    /\ job' = [cmd |-> cmd, path |-> path, at |-> "open"]
    /\ result' = NoResult
    /\ UNCHANGED buf

(* Room for all that will be shown.                                        *)
Room == IF job.cmd = "cat" THEN Min({vfs_size(vfd), CAT_CAP}) ELSE vfs_size(vfd)

(* A slip: an empty file is left open.                                     *)
FileOpened_Leaks ==
    /\ job # NoJob /\ job.at = "open" /\ call = None
    /\ IF ~reply.ok THEN Finish("not found", <<>>) /\ UNCHANGED vars
       ELSE IF vfs_size(vfd) = 0 THEN Finish("empty", <<>>) /\ UNCHANGED vars
       ELSE \/ Finish("no memory", <<>>) /\ vfs_close(vfd)
            \/ /\ buf' = Room /\ vfs_read(vfd, Room)
               /\ job' = [job EXCEPT !.at = "read"]
               /\ UNCHANGED result

(* kmalloc grants the room or has no memory.                               *)
FileOpened ==
    /\ job # NoJob /\ job.at = "open" /\ call = None
    /\ IF ~reply.ok THEN Finish("not found", <<>>) /\ UNCHANGED vars
       ELSE IF vfs_size(vfd) = 0 THEN Finish("empty", <<>>) /\ vfs_close(vfd)
       ELSE \/ Finish("no memory", <<>>) /\ vfs_close(vfd)
            \/ /\ buf' = Room /\ vfs_read(vfd, Room)
               /\ job' = [job EXCEPT !.at = "read"]
               /\ UNCHANGED result

(* A slip: a short read is taken for the whole program.                    *)
Enough_Any == reply.ok

(* A program must be read whole; cat shows what it got.                    *)
Enough == reply.ok /\ (job.cmd = "cat" \/ Len(reply.bytes) = buf)

ReadBack ==
    /\ job # NoJob /\ job.at = "read" /\ call = None
    /\ IF Enough THEN Finish("done", reply.bytes) ELSE Finish("error", <<>>)
    /\ vfs_close(vfd)

Proceed == FileOpened \/ ReadBack \/ (Work /\ UNCHANGED <<job, buf, result>>)

(* What the tests call.                                                    *)
Call ==
    /\ client = "tests" /\ Mounted
    /\ \/ \E p \in Paths : vfs_open(p)
       \/ \E v \in Vfds : (\E n \in Counts : vfs_read(v, n))
                           \/ (\E o \in Offsets : vfs_seek(v, o)) \/ vfs_close(v)

Ls == job = NoJob /\ Mounted /\ List

CmdNext ==
    /\ \/ \E cmd \in {"cat", "load"}, p \in Paths : Start(cmd, p)
       \/ Proceed
       \/ (Mount \/ Call \/ Ls) /\ UNCHANGED <<job, buf, result>>
    /\ UNCHANGED client

(* The shell's task is scheduled again and again.                          *)
CmdSpec == CmdInit /\ [][CmdNext]_cmdVars /\ WF_cmdVars(Proceed /\ UNCHANGED client)
-----------------------------------------------------------------------------
(* No command leaves a descriptor of either table or a buffer behind,       *)
(* however it ends; and whoever calls, the descriptors of the two layers    *)
(* belong to each other one to one.                                        *)
NothingLeaked ==
    /\ Linked
    /\ client = "shell" /\ job = NoJob =>
         buf = 0 /\ (\A v \in Vfds : ~vfs_fds[v].in_use) /\ (\A fd \in Fds : ~open_files[fd].in_use)

File(p) == Volumes[disk][p]
Exists(p) == fs.mounted /\ p \in DOMAIN Volumes[disk]

(* A program is loaded whole or not at all, whatever the device does and    *)
(* even when its chain is shorter than its size.                            *)
WholeOrNothing ==
    result.cmd = "load" /\ result.why = "done" =>
        Exists(result.path) /\ result.bytes = File(result.path).bytes /\ Len(result.bytes) = File(result.path).size

(* cat shows the beginning of the file it was asked for; while the device   *)
(* works, all of it up to the cap, and a file is missing or empty only when *)
(* it is.                                                                   *)
CatShows ==
    result.cmd = "cat" =>
        LET p == result.path IN
        /\ result.why = "done" => /\ Exists(p)
                                  /\ Len(result.bytes) <= Len(File(p).bytes)
                                  /\ result.bytes = SubSeq(File(p).bytes, 1, Len(result.bytes))
        /\ faults = Faults =>
             /\ result.why = "not found" <=> ~Exists(p)
             /\ result.why = "empty" <=> Exists(p) /\ File(p).size = 0
             /\ result.why = "done" => Len(result.bytes) = Min({CAT_CAP, Len(File(p).bytes)})
             /\ result.why # "error"

(* What a command tells the user is true: all three hold.                   *)
ToldTheTruth == WholeOrNothing /\ CatShows /\ ListsAll

(* Every command ends.                                                     *)
Ends == job # NoJob ~> job = NoJob
=============================================================================
