--------------------------------- MODULE Vfs ---------------------------------
(***************************************************************************)
(* The descriptors of vfs.c over those of the FAT32 driver.  A call that    *)
(* reads the disk goes on in Work, a sector at a time.                      *)
(***************************************************************************)
EXTENDS Fat32

CONSTANTS VFS_MAX_FD, Paths, Counts, Offsets   \* and what its clients pass

ASSUME DescriptorsAssumption == VFS_MAX_FD \in Nat \ {0}

(* Both tables have 16 entries (vfs.h, fat32.h), and no read reaches past   *)
(* the greatest uint32_t.                                                   *)
ASSUME TablesAssumption == VFS_MAX_FD <= FAT_MAX_OPEN
ASSUME CallsAssumption ==
    /\ 2 ^ W \in Nat /\ Counts \subseteq 0 .. 2 ^ W - 1 /\ Offsets \subseteq Nat /\ Paths \subseteq STRING
    /\ \A n \in DOMAIN Disks : \A i \in DOMAIN Disks[n].slots : \A c \in Counts \cup {0} :
         Disks[n].slots[i].size + c < 2 ^ W

VARIABLES vfs_fds,       \* descriptor -> [in_use, fat_fd]
          vfd            \* the descriptor of the last call

vars == <<fatVars, vfs_fds, vfd>>

Vfds == 0 .. VFS_MAX_FD - 1
NoFd == [in_use |-> FALSE, fat_fd |-> -1]

VfsInit == FatInit /\ vfs_fds = [v \in Vfds |-> NoFd] /\ vfd = -1

VFree == {v \in Vfds : ~vfs_fds[v].in_use}
VValid(v) == v \in Vfds /\ vfs_fds[v].in_use

(* kmain mounts the disk once, before it starts the shell or the tests.     *)
Mount == fat_mount /\ UNCHANGED <<vfs_fds, vfd>>
Mounted == fs.mounted \/ reply # NoReply

(* A call that fails in this layer.                                        *)
Refuse(op, arg, v) ==
    /\ call = None
    /\ reply' = Reply(op, arg, FALSE, v, <<>>)
    /\ vfd' = v
    /\ UNCHANGED <<disk, fs, open_files, call, faults, vfs_fds>>

vfs_open(path) ==
    IF VFree = {} THEN Refuse("open", path, -1)
    ELSE StartOpen(path) /\ vfd' = Min(VFree) /\ UNCHANGED vfs_fds

vfs_read(v, n) ==
    IF ~VValid(v) THEN Refuse("read", n, v)
    ELSE StartRead(vfs_fds[v].fat_fd, n) /\ vfd' = v /\ UNCHANGED vfs_fds

vfs_seek(v, offset) ==
    IF ~VValid(v) THEN Refuse("seek", offset, v)
    ELSE StartSeek(vfs_fds[v].fat_fd, offset) /\ vfd' = v /\ UNCHANGED vfs_fds

vfs_close(v) ==
    IF ~VValid(v) THEN Refuse("close", 0, v)
    ELSE /\ fat_close(vfs_fds[v].fat_fd)
         /\ vfs_fds' = [vfs_fds EXCEPT ![v] = NoFd]
         /\ vfd' = v

vfs_size(v) == IF VValid(v) THEN fat_get_size(vfs_fds[v].fat_fd) ELSE 0

(* cmd_ls goes to the driver directly.                                     *)
List == StartList /\ vfd' = -1 /\ UNCHANGED vfs_fds

(* The driver's next step; vfs_open takes its descriptor when the driver    *)
(* has found the file.                                                     *)
Work ==
    /\ FatStep
    /\ vfs_fds' = IF reply'.op = "open" /\ (reply'.op = "open" => reply'.ok)
                    THEN [vfs_fds EXCEPT ![vfd] = [in_use |-> TRUE, fat_fd |-> reply'.fd]]
                    ELSE vfs_fds
    /\ UNCHANGED vfd
-----------------------------------------------------------------------------
Volumes == [n \in DOMAIN Disks |-> Catalogue(Disks[n])]

(* Every descriptor of this layer has a file of the driver's to itself, and *)
(* no file is open without one.                                            *)
Linked ==
    /\ \A v \in Vfds : vfs_fds[v].in_use => open_files[vfs_fds[v].fat_fd].in_use
    /\ \A fd \in Fds : open_files[fd].in_use =>
         \E v \in Vfds : vfs_fds[v].in_use /\ \A u \in Vfds : vfs_fds[u].fat_fd = fd <=> u = v

(* A listing names every file and directory of the root directory, in       *)
(* order, and nothing else, while the device works.                        *)
ListsAll ==
    reply.op = "list" /\ faults = Faults =>
        LET d == Disks[disk]
        IN  /\ reply.ok <=> fs.mounted
            /\ reply.ok => /\ Len(reply.bytes) = Cardinality(Listed(d))
                           /\ \A i \in Listed(d) : reply.bytes[Rank(Listed(d), i)] = d.slots[i].name

(* The record of the root directory a descriptor was opened for.            *)
SlotOf(fd) ==
    CHOOSE e \in {Disks[disk].slots[i] : i \in Listed(Disks[disk])} :
        FirstOf(e) = open_files[fd].first_cluster /\ e.size = open_files[fd].file_size

(* The two layers implement files found by name and read in order.  A call  *)
(* in progress has not moved the position yet.                             *)
Position(fd) ==
    IF call.op \in {"read", "seek"} /\ (call.op \in {"read", "seek"} => call.fd = fd)
      THEN call.from ELSE open_files[fd].position

Empty == [p \in {} |-> <<>>]
Promise == INSTANCE Files WITH
    Handles <- Vfds, Counts <- 0 .. 2 ^ W - 1,
    volume <- Volumes[disk],
    catalogue <- IF fs.mounted THEN Volumes[disk] ELSE Empty,
    handles <- [v \in Vfds |->
                  IF vfs_fds[v].in_use
                    THEN [open |-> TRUE, file |-> Volumes[disk][SlotOf(vfs_fds[v].fat_fd).name],
                          pos |-> Position(vfs_fds[v].fat_fd)]
                    ELSE [open |-> FALSE]],
    healthy <- faults = Faults,
    answer <- IF reply.op \in {"open", "read", "seek", "close"}
                THEN [op |-> reply.op, arg |-> reply.arg, ok |-> reply.ok, bytes |-> reply.bytes,
                      h |-> IF reply.op = "open" /\ ~reply.ok THEN -1 ELSE vfd]
                ELSE [op |-> "none"]
ImplementsFiles == Promise!Spec
=============================================================================
