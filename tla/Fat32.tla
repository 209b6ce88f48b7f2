-------------------------------- MODULE Fat32 -------------------------------
(***************************************************************************)
(* The FAT32 driver, fat32.c, one action per sector it reads: each of these *)
(* reads may fail.  One task at a time is in the driver (kmain and then the *)
(* shell's task are its only callers), so one call is in progress at most.  *)
(***************************************************************************)
EXTENDS Disk, FiniteSetsExt

CONSTANTS Disks,         \* name -> disk
          FAT_MAX_OPEN,
          W,             \* bits of a uint32_t
          Faults         \* how many reads of the device may fail

ASSUME FilesAssumption == FAT_MAX_OPEN \in Nat /\ Faults \in Nat
ASSUME DisksAssumption == \A n \in DOMAIN Disks : Formatted(Disks[n])

VARIABLES disk,
          fs,            \* what fat_mount keeps of the boot sector; NoFs when not mounted
          open_files,    \* descriptor -> fat_file_t
          call,          \* the call in progress, None
          reply,         \* what the last call returned, NoReply once the next has begun
          faults         \* reads that may still fail

fatVars == <<disk, fs, open_files, call, reply, faults>>

NoFs == [mounted |-> FALSE]
None == [op |-> "none"]
NoReply == [op |-> "none"]
Fds == 0 .. FAT_MAX_OPEN - 1
NotOpen == [in_use |-> FALSE, first_cluster |-> 0, file_size |-> 0,
            position |-> 0, current_cluster |-> 0, cluster_offset |-> 0]

Reply(op, arg, ok, fd, bytes) == [op |-> op, arg |-> arg, ok |-> ok, fd |-> fd, bytes |-> bytes]

FatInit ==
    /\ disk \in DOMAIN Disks
    /\ fs = NoFs
    /\ open_files = [fd \in Fds |-> NotOpen]
    /\ call = None /\ reply = NoReply
    /\ faults = Faults

(* The sectors of each disk.                                               *)
Image == [n \in DOMAIN Disks |-> [lba \in 0 .. LastSector(Disks[n]) |-> Sector(Disks[n], lba)]]

(* block_read of one sector: it succeeds, or it fails.                     *)
Outcomes(lba) ==
    {[ok |-> TRUE, sector |-> Image[disk][lba]]} \cup (IF faults > 0 THEN {[ok |-> FALSE]} ELSE {})
Tried(r) == faults' = IF r.ok THEN faults ELSE faults - 1

Begin(c) == call' = c /\ reply' = NoReply
Return(r) == call' = None /\ reply' = r

(* fat_mount, whose failure leaves fat_mounted at 0                         *)
fat_mount ==
    \E r \in Outcomes(0) :
        /\ fs = NoFs /\ call = None /\ reply = NoReply
        /\ Tried(r)
        /\ IF ~r.ok \/ r.sector.fatsz = 0
             THEN /\ reply' = Reply("mount", 0, FALSE, -1, <<>>)
                  /\ UNCHANGED fs
             ELSE /\ reply' = Reply("mount", 0, TRUE, -1, <<>>)
                  /\ fs' = [mounted |-> TRUE, bps |-> r.sector.bps, spc |-> r.sector.spc,
                            fat_start |-> r.sector.reserved,
                            data_start |-> r.sector.reserved + r.sector.fats * r.sector.fatsz,
                            root |-> r.sector.root[1]]
        /\ UNCHANGED <<disk, open_files, call>>

bytes_per_cluster == fs.bps * fs.spc
cluster_to_sector(c) == fs.data_start + (c - 2) * fs.spc

(* A slip: the reserved bits of an entry are kept.                         *)
Entry_AllBits(r, c) == IF r.ok THEN r.sector[(c * FAT_ENTRY) % fs.bps] ELSE EOC_MIN

(* A slip: the entry is not followed.                                      *)
Entry_Stays(r, c) == IF r.ok THEN c ELSE EOC_MIN

(* fat_get_entry: the sector to read, and what it answers: a sector that    *)
(* cannot be read ends the chain.                                          *)
EntrySector(c) == fs.fat_start + (c * FAT_ENTRY) \div fs.bps
Entry(r, c) == IF r.ok THEN r.sector[(c * FAT_ENTRY) % fs.bps] % MASK ELSE EOC_MIN
AtEnd(c) == c >= EOC_MIN
-----------------------------------------------------------------------------
(* fat_open and fat_list_root walk the root directory a sector at a time.   *)
Shown(e) == e.kind \notin {"end", "deleted", "lfn", "label"}
Names(e, path) == Shown(e) /\ e.name = path
EndIn(sector) == {k \in DOMAIN sector : sector[k].kind = "end"}
Before(sector, k) == \A e \in EndIn(sector) : k < e

Walk(op, path, fd) == [op |-> op, path |-> path, fd |-> fd, cluster |-> fs.root, s |-> 0, at |-> "dir", listed |-> <<>>]

Free == {fd \in Fds : ~open_files[fd].in_use}

StartOpen(path) ==
    /\ call = None
    /\ IF ~fs.mounted \/ Free = {} THEN Return(Reply("open", path, FALSE, -1, <<>>))
       ELSE Begin(Walk("open", path, Min(Free)))
    /\ UNCHANGED <<disk, fs, open_files, faults>>

StartList ==
    /\ call = None
    /\ IF ~fs.mounted THEN Return(Reply("list", 0, FALSE, -1, <<>>))
       ELSE Begin(Walk("list", "", -1))
    /\ UNCHANGED <<disk, fs, open_files, faults>>

(* The names in a sector that the callback is given, in order.              *)
ShownIn(sector) ==
    LET shown == {k \in DOMAIN sector : Shown(sector[k]) /\ Before(sector, k)}
    IN  [n \in 1 .. Cardinality(shown) |-> sector[CHOOSE k \in shown : Rank(shown, k) = n].name]

Opened(fd, e) ==
    [open_files EXCEPT ![fd] = [in_use |-> TRUE, first_cluster |-> FirstOf(e), file_size |-> e.size,
                                position |-> 0, current_cluster |-> FirstOf(e), cluster_offset |-> 0]]

(* Nothing more in this sector: the next one, or the next cluster.          *)
NextSector == IF call.s + 1 < fs.spc THEN [call EXCEPT !.s = @ + 1] ELSE [call EXCEPT !.at = "fat"]

WalkSector ==
    /\ call.op \in {"open", "list"} /\ call.at = "dir"
    /\ \E r \in Outcomes(cluster_to_sector(call.cluster) + call.s) :
        /\ Tried(r)
        /\ \/ /\ ~r.ok
              /\ Return(Reply(call.op, call.path, FALSE, -1, <<>>))
              /\ UNCHANGED open_files
           \/ /\ r.ok /\ call.op = "open"
              /\ LET hits == {k \in DOMAIN r.sector : Names(r.sector[k], call.path) /\ Before(r.sector, k)}
                 IN  IF hits # {}
                       THEN /\ open_files' = Opened(call.fd, r.sector[Min(hits)])
                            /\ Return(Reply("open", call.path, TRUE, call.fd, <<>>))
                     ELSE IF EndIn(r.sector) # {}
                       THEN /\ Return(Reply("open", call.path, FALSE, -1, <<>>))
                            /\ UNCHANGED open_files
                     ELSE /\ call' = NextSector
                          /\ UNCHANGED <<reply, open_files>>
           \/ /\ r.ok /\ call.op = "list"
              /\ LET seen == call.listed \o ShownIn(r.sector)
                 IN  IF EndIn(r.sector) # {} THEN Return(Reply("list", 0, TRUE, -1, seen))
                     ELSE /\ call' = [NextSector EXCEPT !.listed = seen]
                          /\ UNCHANGED reply
              /\ UNCHANGED open_files
        /\ UNCHANGED <<disk, fs>>

WalkCluster ==
    /\ call.op \in {"open", "list"} /\ call.at = "fat"
    /\ \E r \in Outcomes(EntrySector(call.cluster)) :
        LET next == Entry(r, call.cluster)
        IN  /\ Tried(r)
            /\ IF AtEnd(next)
                 THEN Return(Reply(call.op, call.path, call.op = "list", -1, call.listed))
                 ELSE /\ call' = [call EXCEPT !.cluster = next, !.s = 0, !.at = "dir"]
                      /\ UNCHANGED reply
            /\ UNCHANGED <<disk, fs, open_files>>
-----------------------------------------------------------------------------
Valid(fd) == fd \in Fds /\ open_files[fd].in_use

(* fat_read.  from is the position the call began at.                      *)
Limit(f, n) == IF (f.position + n) % 2 ^ W > f.file_size THEN f.file_size - f.position ELSE n

StartRead(fd, n) ==
    /\ call = None
    /\ IF ~Valid(fd) THEN Return(Reply("read", n, FALSE, fd, <<>>))
       ELSE IF n = 0 \/ Limit(open_files[fd], n) = 0 THEN Return(Reply("read", n, TRUE, fd, <<>>))
       ELSE Begin([op |-> "read", fd |-> fd, arg |-> n, n |-> Limit(open_files[fd], n), got |-> <<>>,
                   from |-> open_files[fd].position, at |-> "data"])
    /\ UNCHANGED <<disk, fs, open_files, faults>>

Done(got) == Return(Reply("read", call.arg, TRUE, call.fd, got))

(* How much of this sector is copied.                                      *)
ToCopy(f) == Min({call.n - Len(call.got), fs.bps - (f.cluster_offset % fs.bps)})

ReadSector ==
    /\ call.op = "read" /\ call.at = "data"
    /\ LET f == open_files[call.fd] IN
           IF AtEnd(f.current_cluster)
             THEN Done(call.got) /\ UNCHANGED <<open_files, faults>>
             ELSE \E r \in Outcomes(cluster_to_sector(f.current_cluster) + f.cluster_offset \div fs.bps) :
                    /\ Tried(r)
                    /\ IF ~r.ok
                         THEN /\ Return(Reply("read", call.arg, FALSE, call.fd, <<>>))
                              /\ UNCHANGED open_files
                         ELSE LET k == ToCopy(f)
                                  got == call.got \o [i \in 1 .. k |-> r.sector[(f.cluster_offset % fs.bps) + i - 1]]
                                  g == [f EXCEPT !.position = @ + k, !.cluster_offset = @ + k]
                              IN  /\ open_files' = [open_files EXCEPT ![call.fd] = g]
                                  /\ IF g.cluster_offset >= bytes_per_cluster
                                       THEN call' = [call EXCEPT !.got = got, !.at = "fat"] /\ UNCHANGED reply
                                     ELSE IF Len(got) = call.n THEN Done(got)
                                     ELSE call' = [call EXCEPT !.got = got] /\ UNCHANGED reply
    /\ UNCHANGED <<disk, fs>>

ReadCluster ==
    /\ call.op = "read" /\ call.at = "fat"
    /\ \E r \in Outcomes(EntrySector(open_files[call.fd].current_cluster)) :
        /\ Tried(r)
        /\ open_files' = [open_files EXCEPT ![call.fd].current_cluster = Entry(r, @), ![call.fd].cluster_offset = 0]
        /\ IF Len(call.got) = call.n THEN Done(call.got)
           ELSE call' = [call EXCEPT !.at = "data"] /\ UNCHANGED reply
        /\ UNCHANGED <<disk, fs>>
-----------------------------------------------------------------------------
(* fat_seek rewinds and then skips whole clusters; left is what remains.    *)
StartSeek(fd, offset) ==
    /\ call = None
    /\ IF ~Valid(fd)
         THEN Return(Reply("seek", offset, FALSE, fd, <<>>)) /\ UNCHANGED open_files
         ELSE /\ Begin([op |-> "seek", fd |-> fd, arg |-> offset, left |-> Min({offset, open_files[fd].file_size}),
                        from |-> open_files[fd].position])
              /\ open_files' = [open_files EXCEPT ![fd].position = 0, ![fd].cluster_offset = 0,
                                                  ![fd].current_cluster = open_files[fd].first_cluster]
    /\ UNCHANGED <<disk, fs, faults>>

Skips(f) == call.left >= bytes_per_cluster /\ ~AtEnd(f.current_cluster)

SeekCluster ==
    /\ call.op = "seek" /\ Skips(open_files[call.fd])
    /\ \E r \in Outcomes(EntrySector(open_files[call.fd].current_cluster)) :
        /\ Tried(r)
        /\ open_files' = [open_files EXCEPT ![call.fd].current_cluster = Entry(r, @), ![call.fd].position = @ + bytes_per_cluster]
        /\ call' = [call EXCEPT !.left = @ - bytes_per_cluster]
    /\ UNCHANGED <<disk, fs, reply>>

SeekEnd ==
    /\ call.op = "seek" /\ ~Skips(open_files[call.fd])
    /\ open_files' = [open_files EXCEPT ![call.fd].cluster_offset = call.left, ![call.fd].position = @ + call.left]
    /\ Return(Reply("seek", call.arg, TRUE, call.fd, <<>>))
    /\ UNCHANGED <<disk, fs, faults>>

fat_close(fd) ==
    /\ call = None
    /\ reply' = Reply("close", 0, Valid(fd), fd, <<>>)
    /\ open_files' = IF Valid(fd) THEN [open_files EXCEPT ![fd].in_use = FALSE] ELSE open_files
    /\ UNCHANGED <<disk, fs, call, faults>>

fat_get_size(fd) == IF Valid(fd) THEN open_files[fd].file_size ELSE 0

FatStep == WalkSector \/ WalkCluster \/ ReadSector \/ ReadCluster \/ SeekCluster \/ SeekEnd
=============================================================================
