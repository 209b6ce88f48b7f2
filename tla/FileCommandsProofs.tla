------------------------- MODULE FileCommandsProofs -------------------------
(***************************************************************************)
(* Whoever uses the file layer, and wherever the device fails: the          *)
(* descriptors of its two layers belong to each other and a command gives   *)
(* back all it took (LinkInv); the layers implement Files (DiskInv, with    *)
(* what a command waits for, JobInv); and what a command tells is true      *)
(* (TellInv, ListInv).  For every disk that mkfs.fat can write and every    *)
(* number of descriptors.                                                  *)
(***************************************************************************)
EXTENDS FileCommands, NumberLemmas

(* Why no descriptor is lost: the files that are open in the driver are     *)
(* those of the descriptors in use, one each; a call in progress, and what  *)
(* the last one replied, are where the client's command is.                 *)
InUse(v) == vfs_fds[v].in_use
NoneOpen == \A v \in Vfds : ~InUse(v)
OnlyOpen(u) == u \in Vfds /\ \A v \in Vfds : InUse(v) <=> v = u

Owners ==
    /\ vfs_fds \in [Vfds -> [in_use : BOOLEAN, fat_fd : Int]]
    /\ DOMAIN open_files = Fds
    /\ \A fd \in Fds : "in_use" \in DOMAIN open_files[fd] /\ open_files[fd].in_use \in BOOLEAN
    /\ \A v \in Vfds : IF InUse(v) THEN Valid(vfs_fds[v].fat_fd) ELSE vfs_fds[v].fat_fd = -1
    /\ \A u, v \in Vfds : InUse(u) /\ InUse(v) /\ vfs_fds[u].fat_fd = vfs_fds[v].fat_fd => u = v
    /\ \A fd \in Fds : open_files[fd].in_use => \E v \in Vfds : InUse(v) /\ vfs_fds[v].fat_fd = fd

Calling ==
    /\ call # None => reply = NoReply /\ call.op \in {"open", "list", "read", "seek"}
    /\ call.op \in {"open", "list"} => DOMAIN call = {"op", "path", "fd", "cluster", "s", "at", "listed"}
    /\ call.op = "read" => DOMAIN call = {"op", "fd", "arg", "n", "got", "from", "at"}
    /\ call.op = "seek" => DOMAIN call = {"op", "fd", "arg", "left", "from"}
    /\ call.op = "open" => /\ call.fd \in Fds /\ ~open_files[call.fd].in_use
                           /\ vfd \in Vfds /\ ~InUse(vfd)

(* Where a command of the shell is.                                        *)
Opening ==
    \/ call.op = "open" /\ NoneOpen
    \/ call = None /\ reply.op = "open" /\ reply.ok = TRUE /\ OnlyOpen(vfd)
    \/ call = None /\ reply.op = "open" /\ reply.ok = FALSE /\ NoneOpen
Reading == OnlyOpen(vfd) /\ (call.op = "read" \/ (call = None /\ reply.op = "read"))

Commanding ==
    /\ job = NoJob \/ DOMAIN job = {"cmd", "path", "at"}
    /\ job = NoJob => buf = 0
    /\ client \in {"shell", "tests"}
    /\ client = "tests" => job = NoJob
    /\ client = "shell" /\ job = NoJob => call.op \in {"none", "list"} /\ NoneOpen
    /\ client = "shell" /\ job # NoJob =>
         (job.at = "open" /\ Opening) \/ (job.at = "read" /\ Reading)

LinkInv == Owners /\ Calling /\ Commanding
-----------------------------------------------------------------------------
(* The descriptors.                                                        *)
SameFiles ==
    /\ DOMAIN open_files' = Fds
    /\ \A fd \in Fds : "in_use" \in DOMAIN open_files'[fd] /\ open_files'[fd].in_use = open_files[fd].in_use

LEMMA OwnersKept == ASSUME Owners, UNCHANGED vfs_fds, SameFiles PROVE Owners'
  BY DEF Owners, SameFiles, InUse, Valid

LEMMA OwnersOpen ==
    ASSUME Owners, NEW fd \in Fds, ~open_files[fd].in_use, NEW v \in Vfds, ~InUse(v), NEW e,
           open_files' = Opened(fd, e),
           vfs_fds' = [vfs_fds EXCEPT ![v] = [in_use |-> TRUE, fat_fd |-> fd]]
    PROVE  Owners' /\ \A u \in Vfds : InUse(u)' <=> InUse(u) \/ u = v
  <1>1. /\ DOMAIN open_files' = Fds
        /\ \A g \in Fds : "in_use" \in DOMAIN open_files'[g] /\ open_files'[g].in_use \in BOOLEAN
        /\ open_files'[fd].in_use /\ \A g \in Fds \ {fd} : open_files'[g] = open_files[g]
    BY DEF Owners, Opened
  <1>2. /\ vfs_fds' \in [Vfds -> [in_use : BOOLEAN, fat_fd : Int]]
        /\ vfs_fds'[v].in_use /\ vfs_fds'[v].fat_fd = fd
        /\ \A u \in Vfds \ {v} : vfs_fds'[u] = vfs_fds[u]
    BY DEF Owners, Fds
  <1>3. \A u \in Vfds : InUse(u)' <=> InUse(u) \/ u = v
    BY <1>2 DEF InUse
  <1>4. \A u \in Vfds : IF InUse(u)' THEN Valid(vfs_fds[u].fat_fd)' ELSE vfs_fds'[u].fat_fd = -1
    BY <1>1, <1>2, <1>3 DEF Owners, Valid, InUse
  <1>5. \A u, w \in Vfds : InUse(u)' /\ InUse(w)' /\ vfs_fds'[u].fat_fd = vfs_fds'[w].fat_fd => u = w
    BY <1>2, <1>3 DEF Owners, Valid
  <1>6. \A g \in Fds : open_files'[g].in_use => \E u \in Vfds : InUse(u)' /\ vfs_fds'[u].fat_fd = g
    <2> SUFFICES ASSUME NEW g \in Fds, open_files'[g].in_use
                 PROVE  \E u \in Vfds : InUse(u)' /\ vfs_fds'[u].fat_fd = g
      OBVIOUS
    <2>1. CASE g = fd
      BY <2>1, <1>2, <1>3
    <2>2. CASE g # fd
      <3>1. PICK u \in Vfds : InUse(u) /\ vfs_fds[u].fat_fd = g
        BY <2>2, <1>1 DEF Owners
      <3>2. u # v
        BY <3>1
      <3> QED BY <3>1, <3>2, <1>2, <1>3
    <2> QED BY <2>1, <2>2
  <1> QED BY <1>1, <1>2, <1>3, <1>4, <1>5, <1>6 DEF Owners

(* A descriptor in use is closed in both layers.                           *)
LEMMA OwnersClose ==
    ASSUME Owners, NEW v \in Vfds, InUse(v), vfs_close(v)
    PROVE  Owners' /\ \A u \in Vfds : InUse(u)' <=> InUse(u) /\ u # v
  <1> DEFINE fd == vfs_fds[v].fat_fd
  <1>1. Valid(fd) /\ fd \in Fds
    BY DEF Owners, Valid
  <1>2. /\ open_files' = [open_files EXCEPT ![fd].in_use = FALSE]
        /\ vfs_fds' = [vfs_fds EXCEPT ![v] = NoFd]
    BY <1>1 DEF vfs_close, VValid, InUse, fat_close
  <1>3. /\ DOMAIN open_files' = Fds
        /\ \A g \in Fds : "in_use" \in DOMAIN open_files'[g] /\ open_files'[g].in_use \in BOOLEAN
        /\ ~open_files'[fd].in_use /\ \A g \in Fds \ {fd} : open_files'[g] = open_files[g]
    BY <1>1, <1>2 DEF Owners
  <1>4. /\ vfs_fds' \in [Vfds -> [in_use : BOOLEAN, fat_fd : Int]]
        /\ ~vfs_fds'[v].in_use /\ vfs_fds'[v].fat_fd = -1
        /\ \A u \in Vfds \ {v} : vfs_fds'[u] = vfs_fds[u]
    BY <1>2 DEF Owners, NoFd
  <1>5. \A u \in Vfds : InUse(u)' <=> InUse(u) /\ u # v
    BY <1>4 DEF InUse
  <1>6. \A u \in Vfds : u # v /\ InUse(u) => vfs_fds[u].fat_fd # fd
    BY DEF Owners
  <1> HIDE DEF fd
  <1>7. \A u \in Vfds : IF InUse(u)' THEN Valid(vfs_fds[u].fat_fd)' ELSE vfs_fds'[u].fat_fd = -1
    BY <1>3, <1>4, <1>5, <1>6 DEF Owners, Valid, InUse
  <1>8. \A u, w \in Vfds : InUse(u)' /\ InUse(w)' /\ vfs_fds'[u].fat_fd = vfs_fds'[w].fat_fd => u = w
    BY <1>4, <1>5 DEF Owners
  <1>9. \A g \in Fds : open_files'[g].in_use => \E u \in Vfds : InUse(u)' /\ vfs_fds'[u].fat_fd = g
    <2> SUFFICES ASSUME NEW g \in Fds, open_files'[g].in_use
                 PROVE  \E u \in Vfds : InUse(u)' /\ vfs_fds'[u].fat_fd = g
      OBVIOUS
    <2>1. g # fd
      BY <1>3
    <2>2. PICK u \in Vfds : InUse(u) /\ vfs_fds[u].fat_fd = g
      BY <2>1, <1>3 DEF Owners
    <2>3. u # v
      BY <2>1, <2>2 DEF fd
    <2> QED BY <2>2, <2>3, <1>4, <1>5
  <1> QED BY <1>3, <1>4, <1>5, <1>7, <1>8, <1>9 DEF Owners
-----------------------------------------------------------------------------
(* The calls of the clients, as they begin.                                *)
LEMMA NoCall == None.op = "none" /\ (call' = None => Calling')
  BY DEF None, Calling

LEMMA FreeIs ==
    /\ Free # {} => Min(Free) \in Free
    /\ VFree # {} => Min(VFree) \in VFree
    /\ Fds \subseteq Nat /\ Vfds \subseteq Nat
  <1>1. Fds \subseteq Nat /\ Vfds \subseteq Nat
    BY FilesAssumption, DescriptorsAssumption DEF Fds, Vfds
  <1>2. Free \in SUBSET Nat /\ VFree \in SUBSET Nat
    BY <1>1 DEF Free, VFree
  <1> HIDE DEF Free, VFree
  <1> QED BY <1>1, <1>2, MinIsLeast

LEMMA FilesStay == Owners /\ open_files' = open_files => SameFiles
  BY DEF Owners, SameFiles

LEMMA OpenStarts ==
    ASSUME Owners, NEW p, vfs_open(p)
    PROVE  /\ Owners' /\ Calling' /\ UNCHANGED vfs_fds /\ call = None
           /\ \/ call'.op = "open"
              \/ call' = None /\ reply'.op = "open" /\ reply'.ok = FALSE
  <1>1. CASE VFree = {}
    <2>1. call' = None /\ call = None /\ reply' = Reply("open", p, FALSE, -1, <<>>) /\ UNCHANGED <<vfs_fds, open_files>>
      BY <1>1 DEF vfs_open, Refuse
    <2>2. reply'.op = "open" /\ reply'.ok = FALSE
      BY <2>1 DEF Reply
    <2> QED BY <2>1, <2>2, NoCall, FilesStay, OwnersKept
  <1>2. CASE VFree # {} /\ (~fs.mounted \/ Free = {})
    <2>1. call' = None /\ call = None /\ reply' = Reply("open", p, FALSE, -1, <<>>) /\ UNCHANGED <<vfs_fds, open_files>>
      BY <1>2 DEF vfs_open, StartOpen, Return
    <2>2. reply'.op = "open" /\ reply'.ok = FALSE
      BY <2>1 DEF Reply
    <2> QED BY <2>1, <2>2, NoCall, FilesStay, OwnersKept
  <1>3. CASE VFree # {} /\ ~(~fs.mounted \/ Free = {})
    <2> DEFINE g == Min(Free)
               v == Min(VFree)
    <2>1. /\ call' = Walk("open", p, g) /\ reply' = NoReply /\ vfd' = v /\ call = None
          /\ UNCHANGED <<vfs_fds, open_files>>
      BY <1>3 DEF vfs_open, StartOpen, Begin
    <2>2. g \in Fds /\ ~open_files[g].in_use /\ v \in Vfds /\ ~InUse(v)
      BY <1>3, FreeIs DEF Free, VFree, InUse
    <2> HIDE DEF g, v
    <2>3. /\ call'.op = "open" /\ call'.fd = g
          /\ DOMAIN call' = {"op", "path", "fd", "cluster", "s", "at", "listed"}
      BY <2>1 DEF Walk
    <2>4. Calling'
      BY <2>1, <2>2, <2>3 DEF Calling, InUse
    <2> QED BY <2>1, <2>3, <2>4, FilesStay, OwnersKept
  <1> QED BY <1>1, <1>2, <1>3

LEMMA ReadStarts ==
    ASSUME Owners, NEW v, NEW n, vfs_read(v, n)
    PROVE  /\ Owners' /\ Calling' /\ UNCHANGED vfs_fds /\ vfd' = v /\ call = None
           /\ call'.op = "read" \/ (call' = None /\ reply'.op = "read")
  <1>1. /\ UNCHANGED <<vfs_fds, open_files>> /\ vfd' = v /\ call = None
        /\ \/ call' = None /\ \E ok, fd : reply' = Reply("read", n, ok, fd, <<>>)
           \/ \E fd, m, from : /\ reply' = NoReply
                               /\ call' = [op |-> "read", fd |-> fd, arg |-> n, n |-> m, got |-> <<>>,
                                           from |-> from, at |-> "data"]
    BY DEF vfs_read, Refuse, StartRead, Return, Begin
  <1>2. Owners'
    BY <1>1, FilesStay, OwnersKept
  <1>3. CASE call' = None /\ \E ok, fd : reply' = Reply("read", n, ok, fd, <<>>)
    <2>1. reply'.op = "read"
      BY <1>3 DEF Reply
    <2> QED BY <1>1, <1>2, <1>3, <2>1, NoCall
  <1>4. CASE \E fd, m, from : /\ reply' = NoReply
                              /\ call' = [op |-> "read", fd |-> fd, arg |-> n, n |-> m, got |-> <<>>,
                                          from |-> from, at |-> "data"]
    <2>1. /\ reply' = NoReply /\ call'.op = "read"
          /\ DOMAIN call' = {"op", "fd", "arg", "n", "got", "from", "at"}
      BY <1>1, <1>4
    <2>2. Calling'
      BY <2>1 DEF Calling
    <2> QED BY <1>1, <1>2, <2>1, <2>2
  <1> QED BY <1>1, <1>3, <1>4

LEMMA SeekStarts ==
    ASSUME Owners, NEW v, NEW o, vfs_seek(v, o)
    PROVE  Owners' /\ Calling' /\ UNCHANGED vfs_fds /\ call = None
  <1>1. UNCHANGED vfs_fds /\ call = None
    BY DEF vfs_seek, Refuse, StartSeek
  <1>2. CASE ~VValid(v) \/ ~Valid(vfs_fds[v].fat_fd)
    <2>1. call' = None /\ open_files' = open_files
      BY <1>2 DEF vfs_seek, Refuse, StartSeek, Return
    <2> QED BY <1>1, <2>1, NoCall, FilesStay, OwnersKept
  <1>3. CASE VValid(v) /\ Valid(vfs_fds[v].fat_fd)
    <2> DEFINE fd == vfs_fds[v].fat_fd
    <2>1. /\ \E a, b : call' = [op |-> "seek", fd |-> fd, arg |-> o, left |-> a, from |-> b]
          /\ reply' = NoReply
          /\ open_files' = [open_files EXCEPT ![fd].position = 0, ![fd].cluster_offset = 0,
                                              ![fd].current_cluster = open_files[fd].first_cluster]
      BY <1>3 DEF vfs_seek, StartSeek, Begin
    <2> HIDE DEF fd
    <2>2. call'.op = "seek" /\ DOMAIN call' = {"op", "fd", "arg", "left", "from"}
      BY <2>1
    <2>3. Calling'
      BY <2>1, <2>2 DEF Calling
    <2>4. SameFiles
      BY <2>1 DEF SameFiles, Owners
    <2> QED BY <1>1, <2>3, <2>4, OwnersKept
  <1> QED BY <1>2, <1>3

LEMMA ListStarts ==
    ASSUME Owners, List
    PROVE  Owners' /\ Calling' /\ UNCHANGED vfs_fds /\ call'.op \in {"none", "list"}
  <1>1. UNCHANGED <<vfs_fds, open_files>>
    BY DEF List, StartList
  <1>2. Owners'
    BY <1>1, FilesStay, OwnersKept
  <1>3. CASE call' = None
    BY <1>1, <1>2, <1>3, NoCall
  <1>4. CASE call' # None
    <2>1. call' = Walk("list", "", -1) /\ reply' = NoReply
      BY <1>4 DEF List, StartList, Begin, Return
    <2>2. /\ call'.op = "list" /\ DOMAIN call' = {"op", "path", "fd", "cluster", "s", "at", "listed"}
      BY <2>1 DEF Walk
    <2> QED BY <1>1, <1>2, <2>1, <2>2 DEF Calling
  <1> QED BY <1>3, <1>4

LEMMA CloseEnds ==
    ASSUME Owners, NEW v, vfs_close(v)
    PROVE  /\ Owners' /\ Calling' /\ call = None /\ call' = None
           /\ \A u \in Vfds : InUse(u)' <=> InUse(u) /\ u # v
  <1>1. CASE ~VValid(v)
    <2>1. call' = None /\ call = None /\ UNCHANGED <<vfs_fds, open_files>>
      BY <1>1 DEF vfs_close, Refuse
    <2> QED BY <1>1, <2>1, NoCall, FilesStay, OwnersKept DEF InUse, VValid
  <1>2. CASE VValid(v)
    <2>1. call' = None /\ call = None
      BY <1>2 DEF vfs_close, fat_close
    <2>2. v \in Vfds /\ InUse(v)
      BY <1>2 DEF VValid, InUse
    <2> QED BY <2>1, <2>2, NoCall, OwnersClose
  <1> QED BY <1>1, <1>2

LEMMA Mounts ==
    ASSUME Owners, Mount
    PROVE  /\ Owners' /\ Calling' /\ UNCHANGED <<vfs_fds, vfd>>
           /\ call = None /\ call' = None /\ reply = NoReply
  <1>1. UNCHANGED <<vfs_fds, vfd, open_files, call>> /\ call = None /\ reply = NoReply
    BY DEF Mount, fat_mount
  <1> QED BY <1>1, NoCall, FilesStay, OwnersKept
-----------------------------------------------------------------------------
(* A step of the driver: it opens the file that was asked for, or changes   *)
(* no descriptor; the call goes on, or is replied to.                      *)
Hit == /\ call.op = "open" /\ call' = None
       /\ reply' = Reply("open", call.path, TRUE, call.fd, <<>>)
       /\ \E e : open_files' = Opened(call.fd, e)
Missed == /\ SameFiles
          /\ call' = None
          /\ reply'.op = call.op
          /\ call.op = "open" => reply'.ok = FALSE
GoesOn == /\ SameFiles
          /\ reply' = reply
          /\ call'.op = call.op
          /\ DOMAIN call' = DOMAIN call
          /\ call.op = "open" => call'.fd = call.fd

LEMMA Replied ==
    ASSUME NEW op, NEW arg, NEW ok, NEW fd, NEW bytes, reply' = Reply(op, arg, ok, fd, bytes)
    PROVE  reply'.op = op /\ reply'.ok = ok /\ reply'.fd = fd
  BY DEF Reply

(* A field of a file other than in_use is written.                         *)
LEMMA FileWritten ==
    ASSUME Owners, NEW fd, NEW g, DOMAIN g = DOMAIN open_files[fd], g.in_use = open_files[fd].in_use,
           open_files' = [open_files EXCEPT ![fd] = g]
    PROVE  SameFiles
  BY DEF Owners, SameFiles

LEMMA WalkSectorIs == ASSUME Owners, Calling, WalkSector PROVE Hit \/ Missed \/ GoesOn
  <1>1. call.op \in {"open", "list"} /\ DOMAIN call = {"op", "path", "fd", "cluster", "s", "at", "listed"}
    BY DEF WalkSector, Calling
  <1>2. open_files' = open_files => SameFiles
    BY FilesStay
  <1>3. ASSUME NEW c, c = NextSector
        PROVE  c.op = call.op /\ c.fd = call.fd /\ DOMAIN c = DOMAIN call
    BY <1>1, <1>3 DEF NextSector
  <1>4. PICK r \in Outcomes(cluster_to_sector(call.cluster) + call.s) :
        \/ /\ Return(Reply(call.op, call.path, FALSE, -1, <<>>))
           /\ UNCHANGED open_files
        \/ /\ call.op = "open"
           /\ LET hits == {k \in DOMAIN r.sector : Names(r.sector[k], call.path) /\ Before(r.sector, k)}
              IN  IF hits # {}
                    THEN /\ open_files' = Opened(call.fd, r.sector[Min(hits)])
                         /\ Return(Reply("open", call.path, TRUE, call.fd, <<>>))
                  ELSE IF EndIn(r.sector) # {}
                    THEN /\ Return(Reply("open", call.path, FALSE, -1, <<>>))
                         /\ UNCHANGED open_files
                  ELSE /\ call' = NextSector
                       /\ UNCHANGED <<reply, open_files>>
        \/ /\ call.op = "list"
           /\ LET seen == call.listed \o ShownIn(r.sector)
              IN  IF EndIn(r.sector) # {} THEN Return(Reply("list", 0, TRUE, -1, seen))
                  ELSE /\ call' = [NextSector EXCEPT !.listed = seen]
                       /\ UNCHANGED reply
           /\ UNCHANGED open_files
    BY DEF WalkSector
  <1>5. CASE Return(Reply(call.op, call.path, FALSE, -1, <<>>)) /\ UNCHANGED open_files
    BY <1>2, <1>5, Replied DEF Return, Missed
  <1>6. CASE /\ call.op = "open"
             /\ LET hits == {k \in DOMAIN r.sector : Names(r.sector[k], call.path) /\ Before(r.sector, k)}
                IN  IF hits # {}
                      THEN /\ open_files' = Opened(call.fd, r.sector[Min(hits)])
                           /\ Return(Reply("open", call.path, TRUE, call.fd, <<>>))
                    ELSE IF EndIn(r.sector) # {}
                      THEN /\ Return(Reply("open", call.path, FALSE, -1, <<>>))
                           /\ UNCHANGED open_files
                    ELSE /\ call' = NextSector
                         /\ UNCHANGED <<reply, open_files>>
    <2>1. \/ (\E e : open_files' = Opened(call.fd, e)) /\ Return(Reply("open", call.path, TRUE, call.fd, <<>>))
          \/ Return(Reply("open", call.path, FALSE, -1, <<>>)) /\ UNCHANGED open_files
          \/ call' = NextSector /\ UNCHANGED <<reply, open_files>>
      BY <1>6, Zenon
    <2>2. CASE (\E e : open_files' = Opened(call.fd, e)) /\ Return(Reply("open", call.path, TRUE, call.fd, <<>>))
      BY <1>6, <2>2 DEF Return, Hit
    <2>3. CASE Return(Reply("open", call.path, FALSE, -1, <<>>)) /\ UNCHANGED open_files
      BY <1>2, <1>6, <2>3, Replied DEF Return, Missed
    <2>4. CASE call' = NextSector /\ UNCHANGED <<reply, open_files>>
      BY <1>2, <1>3, <2>4 DEF GoesOn
    <2> QED BY <2>1, <2>2, <2>3, <2>4
  <1>7. CASE /\ call.op = "list"
             /\ LET seen == call.listed \o ShownIn(r.sector)
                IN  IF EndIn(r.sector) # {} THEN Return(Reply("list", 0, TRUE, -1, seen))
                    ELSE /\ call' = [NextSector EXCEPT !.listed = seen]
                         /\ UNCHANGED reply
             /\ UNCHANGED open_files
    <2> DEFINE seen == call.listed \o ShownIn(r.sector)
    <2>1. \/ Return(Reply("list", 0, TRUE, -1, seen))
          \/ call' = [NextSector EXCEPT !.listed = seen] /\ UNCHANGED reply
      BY <1>7, Zenon
    <2> HIDE DEF seen
    <2>2. CASE Return(Reply("list", 0, TRUE, -1, seen))
      BY <1>2, <1>7, <2>2, Replied DEF Return, Missed
    <2>3. CASE call' = [NextSector EXCEPT !.listed = seen] /\ UNCHANGED reply
      <3> DEFINE c == NextSector
      <3>1. c.op = call.op /\ DOMAIN c = DOMAIN call
        BY <1>3
      <3> HIDE DEF c
      <3>2. call' = [c EXCEPT !.listed = seen]
        BY <2>3 DEF c
      <3>3. call'.op = call.op /\ DOMAIN call' = DOMAIN call
        BY <1>1, <3>1, <3>2
      <3> QED BY <1>2, <1>7, <2>3, <3>3 DEF GoesOn
    <2> QED BY <2>1, <2>2, <2>3
  <1> QED BY <1>4, <1>5, <1>6, <1>7

LEMMA WalkClusterIs == ASSUME Owners, Calling, WalkCluster PROVE Missed \/ GoesOn
  <1>1. call.op \in {"open", "list"} /\ DOMAIN call = {"op", "path", "fd", "cluster", "s", "at", "listed"}
    BY DEF WalkCluster, Calling
  <1>2. SameFiles
    BY FilesStay DEF WalkCluster
  <1>3. \/ Return(Reply(call.op, call.path, call.op = "list", -1, call.listed))
        \/ \E next : call' = [call EXCEPT !.cluster = next, !.s = 0, !.at = "dir"] /\ UNCHANGED reply
    BY DEF WalkCluster
  <1>4. CASE Return(Reply(call.op, call.path, call.op = "list", -1, call.listed))
    <2> DEFINE ok == call.op = "list"
    <2>1. call' = None /\ reply' = Reply(call.op, call.path, ok, -1, call.listed)
      BY <1>4 DEF Return
    <2>2. call.op = "open" => ok = FALSE
      OBVIOUS
    <2> HIDE DEF ok
    <2>3. reply'.op = call.op /\ reply'.ok = ok
      BY <2>1, Replied
    <2> QED BY <1>2, <2>1, <2>2, <2>3 DEF Missed
  <1>5. CASE \E next : call' = [call EXCEPT !.cluster = next, !.s = 0, !.at = "dir"] /\ UNCHANGED reply
    BY <1>1, <1>2, <1>5 DEF GoesOn
  <1> QED BY <1>3, <1>4, <1>5

LEMMA ReadSectorIs == ASSUME Owners, Calling, ReadSector PROVE Missed \/ GoesOn
  <1> DEFINE f == open_files[call.fd]
  <1>1. call.op = "read" /\ DOMAIN call = {"op", "fd", "arg", "n", "got", "from", "at"}
    BY DEF ReadSector, Calling
  <1>2. ASSUME NEW got, Done(got) PROVE call' = None /\ reply'.op = call.op
    BY <1>1, <1>2, Replied DEF Done, Return
  <1>3. CASE AtEnd(f.current_cluster)
    <2>1. Done(call.got) /\ open_files' = open_files
      BY <1>3 DEF ReadSector
    <2> QED BY <1>1, <1>2, <2>1, FilesStay DEF Missed
  <1>4. CASE ~AtEnd(f.current_cluster)
    <2>1. PICK r \in Outcomes(cluster_to_sector(f.current_cluster) + f.cluster_offset \div fs.bps) :
              IF ~r.ok
                 THEN /\ Return(Reply("read", call.arg, FALSE, call.fd, <<>>))
                      /\ UNCHANGED open_files
                 ELSE LET k == ToCopy(f)
                          got == call.got \o [i \in 1 .. k |-> r.sector[(f.cluster_offset % fs.bps) + i - 1]]
                          g == [f EXCEPT !.position = @ + k, !.cluster_offset = @ + k]
                      IN  /\ open_files' = [open_files EXCEPT ![call.fd] = g]
                          /\ IF g.cluster_offset >= bytes_per_cluster
                               THEN call' = [call EXCEPT !.got = got, !.at = "fat"] /\ UNCHANGED reply
                             ELSE IF Len(got) = call.n THEN Done(got)
                             ELSE call' = [call EXCEPT !.got = got] /\ UNCHANGED reply
      BY <1>4 DEF ReadSector
    <2>2. CASE ~r.ok
      <3>1. Return(Reply("read", call.arg, FALSE, call.fd, <<>>)) /\ UNCHANGED open_files
        BY <2>1, <2>2
      <3> QED BY <1>1, <3>1, FilesStay, Replied DEF Return, Missed
    <2>3. CASE r.ok
      <3> DEFINE k == ToCopy(f)
                 got == call.got \o [i \in 1 .. k |-> r.sector[(f.cluster_offset % fs.bps) + i - 1]]
                 g == [f EXCEPT !.position = @ + k, !.cluster_offset = @ + k]
      <3>1. /\ open_files' = [open_files EXCEPT ![call.fd] = g]
            /\ \/ call' = [call EXCEPT !.got = got, !.at = "fat"] /\ UNCHANGED reply
               \/ Done(got)
               \/ call' = [call EXCEPT !.got = got] /\ UNCHANGED reply
        BY <2>1, <2>3, Zenon
      <3> HIDE DEF k, got
      <3>2. DOMAIN g = DOMAIN f /\ g.in_use = f.in_use
        <4>1. CASE call.fd \in Fds
          BY <4>1 DEF Owners
        <4>2. CASE call.fd \notin Fds
          BY <4>2
        <4> QED BY <4>1, <4>2
      <3> HIDE DEF g
      <3>3. SameFiles
        BY <3>1, <3>2, FileWritten
      <3>4. CASE Done(got)
        BY <1>1, <1>2, <3>3, <3>4 DEF Missed
      <3>5. CASE \/ call' = [call EXCEPT !.got = got, !.at = "fat"] /\ UNCHANGED reply
                 \/ call' = [call EXCEPT !.got = got] /\ UNCHANGED reply
        BY <1>1, <3>3, <3>5 DEF GoesOn
      <3> QED BY <3>1, <3>4, <3>5
    <2> QED BY <2>2, <2>3
  <1> QED BY <1>3, <1>4

LEMMA ReadClusterIs == ASSUME Owners, Calling, ReadCluster PROVE Missed \/ GoesOn
  <1>1. call.op = "read" /\ DOMAIN call = {"op", "fd", "arg", "n", "got", "from", "at"}
    BY DEF ReadCluster, Calling
  <1>2. PICK r \in Outcomes(EntrySector(open_files[call.fd].current_cluster)) :
        /\ open_files' = [open_files EXCEPT ![call.fd].current_cluster = Entry(r, @), ![call.fd].cluster_offset = 0]
        /\ IF Len(call.got) = call.n THEN Done(call.got)
           ELSE call' = [call EXCEPT !.at = "data"] /\ UNCHANGED reply
    BY DEF ReadCluster
  <1>3. SameFiles
    BY <1>2 DEF Owners, SameFiles
  <1>4. CASE Done(call.got)
    BY <1>1, <1>3, <1>4, Replied DEF Done, Return, Missed
  <1>5. CASE call' = [call EXCEPT !.at = "data"] /\ UNCHANGED reply
    BY <1>1, <1>3, <1>5 DEF GoesOn
  <1> QED BY <1>2, <1>4, <1>5

LEMMA SeekClusterIs == ASSUME Owners, Calling, SeekCluster PROVE GoesOn
  <1>1. call.op = "seek" /\ DOMAIN call = {"op", "fd", "arg", "left", "from"}
    BY DEF SeekCluster, Calling
  <1>2. PICK r \in Outcomes(EntrySector(open_files[call.fd].current_cluster)) :
        /\ open_files' = [open_files EXCEPT ![call.fd].current_cluster = Entry(r, @),
                                            ![call.fd].position = @ + bytes_per_cluster]
        /\ call' = [call EXCEPT !.left = @ - bytes_per_cluster]
    BY DEF SeekCluster
  <1>3. SameFiles
    BY <1>2 DEF Owners, SameFiles
  <1> QED BY <1>1, <1>2, <1>3 DEF GoesOn, SeekCluster

LEMMA SeekEndIs == ASSUME Owners, Calling, SeekEnd PROVE Missed
  <1>1. call.op = "seek" /\ call' = None /\ reply'.op = "seek"
    BY Replied DEF SeekEnd, Return
  <1>2. open_files' = [open_files EXCEPT ![call.fd].cluster_offset = call.left, ![call.fd].position = @ + call.left]
    BY DEF SeekEnd
  <1>3. SameFiles
    BY <1>2 DEF Owners, SameFiles
  <1> QED BY <1>1, <1>3 DEF Missed

LEMMA FatStepIs ==
    ASSUME Owners, Calling, FatStep
    PROVE  call # None /\ (Hit \/ Missed \/ GoesOn)
  <1>1. call # None
    <2>1. WalkSector \/ WalkCluster => call.op \in {"open", "list"}
      BY DEF WalkSector, WalkCluster
    <2>2. ReadSector \/ ReadCluster => call.op = "read"
      BY DEF ReadSector, ReadCluster
    <2>3. SeekCluster \/ SeekEnd => call.op = "seek"
      BY DEF SeekCluster, SeekEnd
    <2> QED BY <2>1, <2>2, <2>3 DEF FatStep, None
  <1>2. Hit \/ Missed \/ GoesOn
    BY WalkSectorIs, WalkClusterIs, ReadSectorIs, ReadClusterIs, SeekClusterIs, SeekEndIs DEF FatStep
  <1> QED BY <1>1, <1>2

(* And of this layer: the descriptor of a file that was found.             *)
LEMMA WorkIs ==
    ASSUME Owners, Calling, Work
    PROVE  /\ Owners' /\ Calling' /\ call # None /\ vfd' = vfd
           /\ \/ /\ call.op = "open" /\ call' = None /\ vfd \in Vfds /\ ~InUse(vfd)
                 /\ reply'.op = "open" /\ reply'.ok = TRUE
                 /\ \A u \in Vfds : InUse(u)' <=> InUse(u) \/ u = vfd
              \/ /\ call' = None /\ UNCHANGED vfs_fds
                 /\ reply'.op = call.op /\ (call.op = "open" => reply'.ok = FALSE)
              \/ /\ call'.op = call.op /\ UNCHANGED vfs_fds
  <1>1. /\ call # None /\ (Hit \/ Missed \/ GoesOn) /\ vfd' = vfd
        /\ reply = NoReply /\ call.op \in {"open", "list", "read", "seek"}
    BY FatStepIs DEF Work, Calling
  <1>2. vfs_fds' = IF reply'.op = "open" /\ (reply'.op = "open" => reply'.ok)
                    THEN [vfs_fds EXCEPT ![vfd] = [in_use |-> TRUE, fat_fd |-> reply'.fd]]
                    ELSE vfs_fds
    BY DEF Work
  <1>3. CASE Hit
    <2>1. reply'.op = "open" /\ reply'.ok = TRUE /\ reply'.fd = call.fd /\ call' = None /\ call.op = "open"
      BY <1>3, Replied DEF Hit
    <2>2. call.fd \in Fds /\ ~open_files[call.fd].in_use /\ vfd \in Vfds /\ ~InUse(vfd)
      BY <2>1 DEF Calling
    <2>3. PICK e : open_files' = Opened(call.fd, e)
      BY <1>3 DEF Hit
    <2>4. vfs_fds' = [vfs_fds EXCEPT ![vfd] = [in_use |-> TRUE, fat_fd |-> call.fd]]
      BY <1>2, <2>1
    <2>5. Owners' /\ \A u \in Vfds : InUse(u)' <=> InUse(u) \/ u = vfd
      BY <2>2, <2>3, <2>4, OwnersOpen
    <2> QED BY <1>1, <2>1, <2>2, <2>5, NoCall
  <1>4. CASE Missed
    <2>1. call' = None /\ reply'.op = call.op /\ (call.op = "open" => reply'.ok = FALSE) /\ SameFiles
      BY <1>4 DEF Missed
    <2>2. vfs_fds' = vfs_fds
      BY <1>2, <2>1
    <2> QED BY <1>1, <2>1, <2>2, NoCall, OwnersKept
  <1>5. CASE GoesOn
    <2>1. /\ SameFiles /\ reply' = NoReply /\ call'.op = call.op /\ DOMAIN call' = DOMAIN call
          /\ call.op = "open" => call'.fd = call.fd
      BY <1>1, <1>5 DEF GoesOn
    <2>2. vfs_fds' = vfs_fds
      BY <1>2, <2>1 DEF NoReply
    <2>3. Calling'
      BY <1>1, <2>1, <2>2 DEF Calling, SameFiles, InUse
    <2> QED BY <1>1, <2>1, <2>2, <2>3, OwnersKept
  <1> QED BY <1>1, <1>3, <1>4, <1>5
-----------------------------------------------------------------------------
(* The commands.                                                           *)
LEMMA LinkInit == CmdInit => LinkInv
  <1> SUFFICES ASSUME CmdInit PROVE LinkInv
    OBVIOUS
  <1> USE DEF CmdInit, VfsInit, FatInit
  <1>1. \A v \in Vfds : ~InUse(v) /\ vfs_fds[v].fat_fd = -1
    BY DEF InUse, NoFd
  <1>2. \A fd \in Fds : "in_use" \in DOMAIN open_files[fd] /\ open_files[fd].in_use = FALSE
    BY DEF NotOpen
  <1>3. vfs_fds \in [Vfds -> [in_use : BOOLEAN, fat_fd : Int]] /\ DOMAIN open_files = Fds
    BY DEF NoFd
  <1>4. Owners
    BY <1>1, <1>2, <1>3 DEF Owners
  <1>5. Calling
    BY DEF Calling, None
  <1>6. Commanding
    BY <1>1 DEF Commanding, NoneOpen, None
  <1> QED BY <1>4, <1>5, <1>6 DEF LinkInv

(* What a client has not changed.                                          *)
LEMMA StillCommanding ==
    ASSUME Commanding, UNCHANGED <<job, buf, client, vfs_fds, vfd>>,
           call' = call /\ reply' = reply
    PROVE  Commanding'
  BY DEF Commanding, Opening, Reading, OnlyOpen, NoneOpen, InUse

(* A command that is over, and holds nothing.                              *)
LEMMA Finished ==
    ASSUME Owners', Calling', client \in {"shell", "tests"}, client' = client,
           job' = NoJob, buf' = 0, call' = None, NoneOpen'
    PROVE  LinkInv'
  BY NoCall DEF LinkInv, Commanding

LEMMA FinishIs ==
    ASSUME NEW why, NEW bytes, Finish(why, bytes)
    PROVE  job' = NoJob /\ buf' = 0
  BY DEF Finish

LEMMA StartStep ==
    ASSUME LinkInv, NEW cmd \in {"cat", "load"}, NEW p, Start(cmd, p), client' = client
    PROVE  LinkInv'
  <1>1. /\ client = "shell" /\ job = NoJob /\ vfs_open(p) /\ buf' = buf
        /\ job' = [cmd |-> cmd, path |-> p, at |-> "open"]
    BY DEF Start
  <1>2. job'.at = "open" /\ DOMAIN job' = {"cmd", "path", "at"} /\ job' # NoJob
    <2>1. job'.cmd = cmd /\ NoJob.cmd = "none"
      BY <1>1 DEF NoJob
    <2> QED BY <1>1, <2>1
  <1>3. /\ Owners' /\ Calling' /\ UNCHANGED vfs_fds
        /\ \/ call'.op = "open"
           \/ call' = None /\ reply'.op = "open" /\ reply'.ok = FALSE
    BY <1>1, OpenStarts DEF LinkInv
  <1>4. NoneOpen'
    BY <1>1, <1>3 DEF LinkInv, Commanding, NoneOpen, InUse
  <1>5. Opening'
    BY <1>3, <1>4 DEF Opening
  <1> QED BY <1>1, <1>2, <1>3, <1>5 DEF LinkInv, Commanding

LEMMA OpenedStep == ASSUME LinkInv, FileOpened, client' = client PROVE LinkInv'
  <1>1. /\ job # NoJob /\ job.at = "open" /\ call = None /\ client = "shell"
        /\ DOMAIN job = {"cmd", "path", "at"} /\ client \in {"shell", "tests"}
        /\ Owners /\ Calling
    BY DEF FileOpened, LinkInv, Commanding
  <1>2. \/ reply.ok = TRUE /\ OnlyOpen(vfd)
        \/ reply.ok = FALSE /\ NoneOpen
    <2>1. Opening
      BY <1>1 DEF LinkInv, Commanding
    <2> QED BY <1>1, <2>1 DEF Opening, None
  <1>3. CASE reply.ok = FALSE /\ NoneOpen
    <2>1. Finish("not found", <<>>) /\ UNCHANGED vars
      BY <1>3 DEF FileOpened
    <2>2. job' = NoJob /\ buf' = 0
      BY <2>1, FinishIs
    <2>3. call' = None /\ UNCHANGED <<vfs_fds, open_files>>
      BY <1>1, <2>1 DEF vars, fatVars
    <2>4. NoneOpen' /\ Owners' /\ Calling'
      BY <1>1, <1>3, <2>3, NoCall, FilesStay, OwnersKept DEF NoneOpen, InUse
    <2> QED BY <1>1, <2>2, <2>3, <2>4, Finished
  <1>4. CASE reply.ok = TRUE /\ OnlyOpen(vfd)
    <2>1. \/ (\E why : Finish(why, <<>>)) /\ vfs_close(vfd)
          \/ vfs_read(vfd, Room) /\ job' = [job EXCEPT !.at = "read"]
      BY <1>4 DEF FileOpened
    <2>2. CASE (\E why : Finish(why, <<>>)) /\ vfs_close(vfd)
      <3>1. job' = NoJob /\ buf' = 0
        BY <2>2, FinishIs
      <3>2. Owners' /\ Calling' /\ call' = None /\ \A u \in Vfds : InUse(u)' <=> InUse(u) /\ u # vfd
        BY <1>1, <2>2, CloseEnds
      <3>3. NoneOpen'
        BY <1>4, <3>2 DEF NoneOpen, OnlyOpen, Vfds
      <3> QED BY <1>1, <3>1, <3>2, <3>3, Finished
    <2>3. CASE vfs_read(vfd, Room) /\ job' = [job EXCEPT !.at = "read"]
      <3>1. job'.at = "read" /\ DOMAIN job' = {"cmd", "path", "at"} /\ job' # NoJob
        <4>1. job'.at = "read" /\ DOMAIN job' = {"cmd", "path", "at"}
          BY <1>1, <2>3
        <4>2. DOMAIN NoJob = {"cmd"}
          BY DEF NoJob
        <4> QED BY <4>1, <4>2
      <3>2. /\ Owners' /\ Calling' /\ UNCHANGED vfs_fds /\ vfd' = vfd
            /\ call'.op = "read" \/ (call' = None /\ reply'.op = "read")
        BY <1>1, <2>3, ReadStarts
      <3>3. OnlyOpen(vfd)'
        BY <1>4, <3>2 DEF OnlyOpen, InUse, Vfds
      <3>4. Reading'
        BY <3>2, <3>3 DEF Reading
      <3> QED BY <1>1, <3>1, <3>2, <3>4 DEF LinkInv, Commanding
    <2> QED BY <2>1, <2>2, <2>3
  <1> QED BY <1>2, <1>3, <1>4

LEMMA ReadBackStep == ASSUME LinkInv, ReadBack, client' = client PROVE LinkInv'
  <1>1. /\ job # NoJob /\ job.at = "read" /\ client \in {"shell", "tests"} /\ client = "shell" /\ Owners
        /\ vfs_close(vfd)
    BY DEF ReadBack, LinkInv, Commanding
  <1>2. OnlyOpen(vfd)
    BY <1>1 DEF LinkInv, Commanding, Reading
  <1>3. job' = NoJob /\ buf' = 0
    BY FinishIs DEF ReadBack
  <1>4. Owners' /\ Calling' /\ call' = None /\ \A u \in Vfds : InUse(u)' <=> InUse(u) /\ u # vfd
    BY <1>1, CloseEnds
  <1>5. NoneOpen'
    BY <1>2, <1>4 DEF NoneOpen, OnlyOpen, Vfds
  <1> QED BY <1>1, <1>3, <1>4, <1>5, Finished

LEMMA WorkStep ==
    ASSUME LinkInv, Work, UNCHANGED <<job, buf, client>>
    PROVE  LinkInv'
  <1>1. /\ Owners' /\ Calling' /\ call # None /\ vfd' = vfd
        /\ \/ /\ call.op = "open" /\ call' = None /\ vfd \in Vfds /\ ~InUse(vfd)
              /\ reply'.op = "open" /\ reply'.ok = TRUE
              /\ \A u \in Vfds : InUse(u)' <=> InUse(u) \/ u = vfd
           \/ /\ call' = None /\ UNCHANGED vfs_fds
              /\ reply'.op = call.op /\ (call.op = "open" => reply'.ok = FALSE)
           \/ /\ call'.op = call.op /\ UNCHANGED vfs_fds
    BY WorkIs DEF LinkInv
  <1>2. CASE client = "shell" /\ job # NoJob
    <2>1. (job.at = "open" /\ call.op = "open" /\ NoneOpen) \/ (job.at = "read" /\ OnlyOpen(vfd) /\ call.op = "read")
      BY <1>1, <1>2 DEF LinkInv, Commanding, Opening, Reading
    <2>2. CASE job.at = "open" /\ call.op = "open" /\ NoneOpen
      <3>1. Opening'
        BY <1>1, <2>2 DEF Opening, NoneOpen, OnlyOpen, InUse, Vfds
      <3> QED BY <1>1, <1>2, <2>2, <3>1 DEF LinkInv, Commanding
    <2>3. CASE job.at = "read" /\ OnlyOpen(vfd) /\ call.op = "read"
      <3>1. Reading'
        BY <1>1, <2>3 DEF Reading, OnlyOpen, InUse, Vfds
      <3> QED BY <1>1, <1>2, <2>3, <3>1 DEF LinkInv, Commanding
    <2> QED BY <2>1, <2>2, <2>3
  <1>3. CASE client = "shell" /\ job = NoJob
    <2>1. call.op = "list" /\ NoneOpen
      <3>1. call.op \in {"none", "list"} /\ NoneOpen
        BY <1>3 DEF LinkInv, Commanding
      <3>2. call.op \in {"open", "list", "read", "seek"}
        BY <1>1 DEF LinkInv, Calling
      <3> QED BY <3>1, <3>2
    <2>2. call'.op \in {"none", "list"} /\ NoneOpen'
      BY <1>1, <2>1, NoCall DEF NoneOpen, InUse
    <2> QED BY <1>1, <1>3, <2>2 DEF LinkInv, Commanding
  <1>4. CASE client # "shell"
    BY <1>1, <1>4 DEF LinkInv, Commanding
  <1> QED BY <1>2, <1>3, <1>4

(* What the tests call, with no command in progress.                       *)
LEMMA CallStep ==
    ASSUME LinkInv, Call, UNCHANGED <<job, buf, client>>
    PROVE  LinkInv'
  <1>1. client = "tests" /\ Owners /\ client # "shell"
    BY DEF Call, LinkInv
  <1>2. Owners' /\ Calling'
    <2>1. ASSUME NEW p, vfs_open(p) PROVE Owners' /\ Calling'
      BY <1>1, <2>1, OpenStarts
    <2>2. ASSUME NEW v, NEW n, vfs_read(v, n) PROVE Owners' /\ Calling'
      BY <1>1, <2>2, ReadStarts
    <2>3. ASSUME NEW v, NEW o, vfs_seek(v, o) PROVE Owners' /\ Calling'
      BY <1>1, <2>3, SeekStarts
    <2>4. ASSUME NEW v, vfs_close(v) PROVE Owners' /\ Calling'
      BY <1>1, <2>4, CloseEnds
    <2> QED BY <2>1, <2>2, <2>3, <2>4 DEF Call
  <1> QED BY <1>1, <1>2 DEF LinkInv, Commanding

LEMMA LsStep ==
    ASSUME LinkInv, Ls, UNCHANGED <<job, buf, client>>
    PROVE  LinkInv'
  <1>1. Owners' /\ Calling' /\ UNCHANGED vfs_fds /\ call'.op \in {"none", "list"} /\ job = NoJob
    BY ListStarts DEF Ls, LinkInv
  <1> QED BY <1>1 DEF LinkInv, Commanding, NoneOpen, InUse

LEMMA MountStep ==
    ASSUME LinkInv, Mount, UNCHANGED <<job, buf, client>>
    PROVE  LinkInv'
  <1>1. /\ Owners' /\ Calling' /\ UNCHANGED <<vfs_fds, vfd>>
        /\ call = None /\ call' = None /\ reply.op = "none"
    BY Mounts DEF LinkInv, NoReply
  <1>2. client = "shell" => job = NoJob
    BY <1>1, NoCall DEF LinkInv, Commanding, Opening, Reading
  <1> QED BY <1>1, <1>2, NoCall DEF LinkInv, Commanding, NoneOpen, InUse

LEMMA LinkNext == LinkInv /\ [CmdNext]_cmdVars => LinkInv'
  <1> SUFFICES ASSUME LinkInv, [CmdNext]_cmdVars PROVE LinkInv'
    OBVIOUS
  <1>1. CASE UNCHANGED cmdVars
    <2>1. UNCHANGED <<job, buf, client, vfs_fds, vfd, call, reply, open_files>>
      BY <1>1 DEF cmdVars, vars, fatVars
    <2>2. Owners' /\ Commanding'
      BY <2>1, FilesStay, OwnersKept, StillCommanding DEF LinkInv
    <2>3. Calling'
      BY <2>1 DEF LinkInv, Calling, InUse
    <2> QED BY <2>2, <2>3 DEF LinkInv
  <1>2. CASE CmdNext
    <2>1. client' = client
      BY <1>2 DEF CmdNext
    <2> QED BY <1>2, <2>1, StartStep, OpenedStep, ReadBackStep, WorkStep, CallStep, LsStep, MountStep
         DEF CmdNext, Proceed
  <1> QED BY <1>1, <1>2

LEMMA LinkIsTight == LinkInv => NothingLeaked
  <1> SUFFICES ASSUME LinkInv PROVE NothingLeaked
    OBVIOUS
  <1>1. Owners /\ Commanding /\ -1 \notin Fds
    BY DEF LinkInv, Fds
  <1>2. \A v \in Vfds : InUse(v) => open_files[vfs_fds[v].fat_fd].in_use
    BY <1>1 DEF Owners, Valid
  <1>3. ASSUME NEW fd \in Fds, open_files[fd].in_use
        PROVE  \E v \in Vfds : InUse(v) /\ \A u \in Vfds : vfs_fds[u].fat_fd = fd <=> u = v
    <2>1. PICK v \in Vfds : InUse(v) /\ vfs_fds[v].fat_fd = fd
      BY <1>1, <1>3 DEF Owners
    <2>2. \A u \in Vfds : vfs_fds[u].fat_fd = fd => u = v
      BY <1>1, <2>1 DEF Owners
    <2> QED BY <2>1, <2>2
  <1>4. Linked
    BY <1>2, <1>3 DEF Linked, InUse
  <1>5. client = "shell" /\ job = NoJob =>
            buf = 0 /\ (\A v \in Vfds : ~vfs_fds[v].in_use) /\ (\A fd \in Fds : ~open_files[fd].in_use)
    BY <1>1, <1>3 DEF Commanding, NoneOpen, InUse
  <1> QED BY <1>4, <1>5 DEF NothingLeaked

(* Between two commands of the shell nothing is open and no buffer is kept,  *)
(* and whoever calls, every descriptor of vfs.c has a file of fat32.c to    *)
(* itself and no file is open without one (vfs_open, vfs_close, cmd_cat,    *)
(* task_create_from_path), however many reads fail.                        *)
THEOREM CommandsGiveBack == CmdSpec => []NothingLeaked
  <1>1. CmdSpec => []LinkInv
    BY LinkInit, LinkNext, PTL DEF CmdSpec
  <1> QED BY <1>1, LinkIsTight, PTL
-----------------------------------------------------------------------------
(* The disks.  What each sector holds, at the places the driver asks for.   *)
PerSector(d) == d.bps \div DIRENT

LEMMA DiskSizes ==
    ASSUME NEW n \in DOMAIN Disks
    PROVE  /\ Formatted(Disks[n])
           /\ {Disks[n].bps, Disks[n].spc, Disks[n].reserved, Disks[n].fats} \subseteq Nat \ {0}
           /\ Disks[n].fatsz \in Nat
  BY DisksAssumption DEF Formatted

LEMMA ChainsTyped ==
    ASSUME NEW d, Formatted(d), d.fatsz # 0, NEW i \in 0 .. Len(d.slots)
    PROVE  ChainOf(d, i) \in Seq(Clusters(d)) /\ Len(d.slots) \in Nat /\ DOMAIN d.slots = 1 .. Len(d.slots)
  <1>1. d.root \in Seq(Clusters(d)) /\ d.slots \in Seq(Entries(d))
    BY DEF Formatted
  <1> HIDE DEF Clusters
  <1>2. CASE i = 0
    BY <1>1, <1>2 DEF ChainOf
  <1>3. CASE i # 0
    <2>1. i \in 1 .. Len(d.slots) /\ d.slots[i] \in Entries(d)
      BY <1>1, <1>3
    <2> QED BY <1>1, <1>3, <2>1 DEF ChainOf, Entries
  <1> QED BY <1>2, <1>3

(* A cluster number has its entry in the table and its sectors on the disk. *)
LEMMA ClusterIs ==
    ASSUME NEW d, NEW c \in Clusters(d)
    PROVE  c \in Nat /\ 2 <= c /\ c < EOC_MIN /\ c * FAT_ENTRY < d.fatsz * d.bps
  BY EntryAssumption DEF Clusters

LEMMA InChains ==
    ASSUME NEW d, Formatted(d), d.fatsz # 0, NEW ch
    PROVE  ch \in Chains(d) <=> \E i \in 0 .. Len(d.slots) : ch = ChainOf(d, i)
  <1>0. Len(d.slots) \in Nat /\ DOMAIN d.slots = 1 .. Len(d.slots)
    BY ChainsTyped
  <1>1. ASSUME NEW i \in DOMAIN d.slots PROVE i # 0 /\ i \in 0 .. Len(d.slots) /\ ChainOf(d, i) = d.slots[i].chain
    BY <1>0 DEF ChainOf
  <1>2. 0 \in 0 .. Len(d.slots) /\ ChainOf(d, 0) = d.root
    BY <1>0 DEF ChainOf
  <1>3. \A i \in 0 .. Len(d.slots) : i = 0 \/ i \in DOMAIN d.slots
    BY <1>0
  <1>4. ch \in Chains(d) <=> ch = d.root \/ \E i \in DOMAIN d.slots : ch = d.slots[i].chain
    BY DEF Chains
  <1> QED BY <1>1, <1>2, <1>3, <1>4

(* The entry of a cluster names the next one of its chain, or the end.      *)
LEMMA RawIs ==
    ASSUME NEW d, Formatted(d), d.fatsz # 0, NEW j \in 0 .. Len(d.slots), NEW k \in DOMAIN ChainOf(d, j)
    PROVE  Raw(d, ChainOf(d, j)[k]) = IF k < Len(ChainOf(d, j)) THEN MASK + ChainOf(d, j)[k + 1] ELSE EOC_MIN + 1
  <1> DEFINE ch == ChainOf(d, j)
             c == ch[k]
             Next1(n) == \E b \in Chains(d) : \E i \in 1 .. Len(b) - 1 : b[i] = c /\ b[i + 1] = n
  <1>1. ch \in Chains(d)
    BY InChains
  <1>2. ch \in Seq(Clusters(d)) /\ k \in 1 .. Len(ch)
    BY ChainsTyped
  <1>3. ASSUME NEW b \in Chains(d), NEW i \in DOMAIN b, b[i] = c
        PROVE  b = ch /\ i = k
    <2>1. PICK l \in 0 .. Len(d.slots) : b = ChainOf(d, l)
      BY InChains
    <2>2. Unshared(d)
      BY DEF Formatted
    <2>3. ChainOf(d, l)[i] = ChainOf(d, j)[k] /\ i \in DOMAIN ChainOf(d, l)
      BY <1>3, <2>1
    <2> QED BY <2>1, <2>2, <2>3 DEF Unshared
  <1>4. \A b \in Chains(d) : b \in Seq(Clusters(d))
    BY InChains, ChainsTyped
  <1>5. \A b \in Chains(d) : \A i \in 1 .. Len(b) - 1 : i \in DOMAIN b
    BY <1>4
  <1>6. CASE k < Len(ch)
    <2> DEFINE m == ch[k + 1]
    <2>1. k \in 1 .. Len(ch) - 1 /\ k + 1 \in 1 .. Len(ch) /\ m \in Clusters(d)
      BY <1>2, <1>6
    <2>2. m \in 0 .. EOC_MIN
      BY <2>1, ClusterIs, EntryAssumption
    <2>3. Next1(m)
      BY <1>1, <2>1
    <2>4. \A n : Next1(n) => n = m
      BY <1>3, <1>5
    <2>5. (CHOOSE n \in 0 .. EOC_MIN : Next1(n)) = m
      BY <2>2, <2>3, <2>4
    <2>6. \E b \in Chains(d) : \E i \in 1 .. Len(b) - 1 : b[i] = c
      BY <1>1, <2>1
    <2>7. Raw(d, c) = MASK + (CHOOSE n \in 0 .. EOC_MIN : Next1(n))
      BY <2>6, Zenon DEF Raw
    <2> QED BY <1>6, <2>5, <2>7
  <1>7. CASE ~(k < Len(ch))
    <2>1. ~ \E b \in Chains(d) : \E i \in 1 .. Len(b) - 1 : b[i] = c
      BY <1>2, <1>3, <1>5, <1>7
    <2>2. \E b \in Chains(d) : \E i \in DOMAIN b : b[i] = c
      BY <1>1, <1>2
    <2> QED BY <1>7, <2>1, <2>2 DEF Raw
  <1> QED BY <1>6, <1>7
-----------------------------------------------------------------------------
(* Where the entry of a cluster and its sectors are.                        *)
LEMMA Multiple ==
    ASSUME NEW f \in Nat \ {0}, NEW k \in Int, f * k >= 0
    PROVE  (f * k) % f = 0 /\ (f * k) \div f = k
  <1>1. k >= 0
    <2> SUFFICES ASSUME k < 0 PROVE FALSE
      OBVIOUS
    <2>1. f * k + f <= f * 0
      BY ProductGrows
    <2> QED BY <2>1
  <1> DEFINE a == f * k
  <1>2. a = f * k + 0 /\ a \in Nat /\ k \in Nat /\ 0 \in 0 .. f - 1
    BY <1>1
  <1> HIDE DEF a
  <1>3. a % f = 0 /\ a \div f = k
    BY <1>2, QuotientUnique
  <1> QED BY <1>3 DEF a

LEMMA Scaled ==
    ASSUME NEW f \in Nat \ {0}, NEW m \in Nat \ {0}, NEW c \in Nat
    PROVE  /\ (f * c) \div (f * m) = c \div m /\ (f * c) % (f * m) = f * (c % m)
           /\ (c \div m) * (f * m) + f * (c % m) = f * c
  <1> DEFINE k == c \div m
             r == c % m
             a == f * c
             b == f * m
             o == f * r
  <1>1. c = m * k + r /\ k \in Nat /\ r \in 0 .. m - 1
    BY Digit
  <1> HIDE DEF k, r
  <1>2. a \in Nat /\ b \in Nat /\ o \in Nat
    BY <1>1
  <1>3. b # 0 /\ o < b
    <2>1. f * r + f <= f * m
      BY <1>1, ProductGrows
    <2> QED BY <1>1, <1>2, <2>1
  <1>4. b * k = f * (m * k)
    BY <1>1, ProductLaws
  <1>5. f * (m * k + r) = f * (m * k) + f * r
    <2> DEFINE p == m * k
    <2>1. p \in Int
      BY <1>1
    <2> HIDE DEF p
    <2>2. f * (p + r) = f * p + f * r
      BY <1>1, <2>1, ProductLaws
    <2> QED BY <2>2 DEF p
  <1>6. a = b * k + o
    BY <1>1, <1>4, <1>5
  <1>7. a \div b = k /\ a % b = o /\ k * b + o = a
    <2> HIDE DEF a, b, o
    <2>1. a \div b = k /\ a % b = o
      <3>1. b \in Nat \ {0} /\ o \in 0 .. b - 1
        BY <1>2, <1>3
      <3> QED BY <1>1, <1>2, <1>6, <3>1, QuotientUnique
    <2>2. b * k = k * b
      BY <1>1, <1>2
    <2> QED BY <1>6, <2>1, <2>2
  <1> QED BY <1>7 DEF k, r

(* What is below a product, divided.                                       *)
LEMMA BelowProduct ==
    ASSUME NEW m \in Nat \ {0}, NEW z \in Nat, NEW c \in Nat, c < z * m
    PROVE  c \div m \in 0 .. z - 1
  <1> DEFINE k == c \div m
  <1>1. c = m * k + (c % m) /\ k \in Nat /\ c % m \in 0 .. m - 1
    BY Digit
  <1> HIDE DEF k
  <1>2. k < z
    <2> SUFFICES ASSUME z <= k PROVE FALSE
      BY <1>1
    <2>1. m * z <= m * k /\ m * z = z * m /\ m * k \in Int
      BY <1>1, ProductGrows, z = k \/ z < k
    <2> QED BY <1>1, <2>1
  <1> QED BY <1>1, <1>2 DEF k

LEMMA BelowScaled ==
    ASSUME NEW f \in Nat \ {0}, NEW m \in Nat, NEW z \in Nat, NEW c \in Nat, c * f < z * (f * m)
    PROVE  c < z * m
  <1> DEFINE t == z * m
  <1>1. t \in Nat /\ f * t = z * (f * m)
    <2>1. f * (z * m) = (f * z) * m /\ z * (f * m) = (z * f) * m /\ f * z = z * f
      BY ProductLaws
    <2> QED BY <2>1
  <1> HIDE DEF t
  <1>2. c < t
    <2> SUFFICES ASSUME t <= c PROVE FALSE
      BY <1>1
    <2>1. f * t <= f * c /\ f * c = c * f /\ f * t \in Int
      BY <1>1, ProductGrows, t = c \/ t < c
    <2> QED BY <1>1, <2>1
  <1> QED BY <1>2 DEF t

LEMMA ClusterPlace ==
    ASSUME NEW t \in Nat, NEW c \in Nat, c < t, 2 <= c, NEW w \in Nat \ {0}, NEW s \in 0 .. w - 1
    PROVE  /\ ((c - 2) * w + s) \div w = c - 2 /\ ((c - 2) * w + s) % w = s
           /\ (c - 2) * w + s \in Nat /\ (c - 2) * w + s <= t * w
  <1> DEFINE n == c - 2
             a == n * w + s
  <1>1. n \in Nat /\ n < t
    OBVIOUS
  <1> HIDE DEF n
  <1>2. a \in Nat /\ a = w * n + s
    BY <1>1
  <1>3. a \div w = n /\ a % w = s
    <2> HIDE DEF a
    <2> QED BY <1>1, <1>2, QuotientUnique
  <1>4. w * n + w <= w * t /\ w * t = t * w /\ w * t \in Int
    BY <1>1, ProductGrows
  <1> QED BY <1>2, <1>3, <1>4 DEF n
-----------------------------------------------------------------------------
(* What the driver keeps of a mounted disk.                                 *)
D == Disks[disk]
MountedAs(d) ==
    [mounted |-> TRUE, bps |-> d.bps, spc |-> d.spc, fat_start |-> d.reserved,
     data_start |-> d.reserved + d.fats * d.fatsz, root |-> d.root[1]]
OnDisk == disk \in DOMAIN Disks /\ D.fatsz # 0 /\ fs = MountedAs(D)

LEMMA FsIs ==
    ASSUME OnDisk
    PROVE  /\ fs.mounted /\ fs.bps = D.bps /\ fs.spc = D.spc /\ fs.fat_start = D.reserved
           /\ fs.data_start = DataStart(D) /\ fs.root = D.root[1]
           /\ Formatted(D) /\ {D.bps, D.spc, D.reserved, D.fats, D.fatsz} \subseteq Nat \ {0}
           /\ D.bps % FAT_ENTRY = 0 /\ FAT_ENTRY \in Nat \ {0}
           /\ DataStart(D) \in Nat /\ D.reserved + D.fatsz <= DataStart(D)
  <1>1. /\ fs.mounted /\ fs.bps = D.bps /\ fs.spc = D.spc /\ fs.fat_start = D.reserved
        /\ fs.data_start = D.reserved + D.fats * D.fatsz /\ fs.root = D.root[1]
    BY DEF OnDisk, MountedAs
  <1>2. Formatted(D) /\ {D.bps, D.spc, D.reserved, D.fats, D.fatsz} \subseteq Nat \ {0} /\ D.bps % FAT_ENTRY = 0
    BY DiskSizes DEF OnDisk, D, Formatted
  <1>3. D.fats * D.fatsz \in Nat /\ D.fatsz <= D.fats * D.fatsz
    <2> DEFINE x == D.fats
               y == D.fatsz
    <2>1. x \in Nat \ {0} /\ y \in Nat \ {0}
      BY <1>2
    <2> HIDE DEF x, y
    <2>2. x * y = y * x /\ x * y \in Nat /\ (1 = x \/ y * 1 + y <= y * x)
      BY <2>1, ProductGrows
    <2> QED BY <2>1, <2>2 DEF x, y
  <1> QED BY <1>1, <1>2, <1>3, EntryAssumption DEF DataStart

(* A read of the device that succeeds gives the sector.                     *)
LEMMA OutcomeIs ==
    ASSUME NEW lba, NEW r \in Outcomes(lba)
    PROVE  /\ r.ok => r.sector = Image[disk][lba]
           /\ Tried(r) => (r.ok /\ faults' = faults) \/ (~r.ok /\ faults > 0 /\ faults' = faults - 1)
  BY DEF Outcomes, Tried

(* The clusters of a disk, counted by its table.                            *)
LEMMA TableIs ==
    ASSUME OnDisk
    PROVE  \E m \in Nat \ {0} : /\ D.bps = FAT_ENTRY * m /\ D.bps \div FAT_ENTRY = m
                                /\ \A c \in Clusters(D) : c < D.fatsz * m
                                /\ LastSector(D) = DataStart(D) + (m * D.fatsz) * D.spc
                                /\ m * D.fatsz \in Nat /\ (m * D.fatsz) * D.spc \in Nat /\ D.fatsz * m = m * D.fatsz
  <1> DEFINE b == D.bps
             z == D.fatsz
             m == b \div FAT_ENTRY
  <1>1. b \in Nat \ {0} /\ z \in Nat \ {0} /\ FAT_ENTRY \in Nat \ {0} /\ b % FAT_ENTRY = 0 /\ D.spc \in Nat
    BY FsIs
  <1>2. \A c \in Clusters(D) : c \in Nat /\ c * FAT_ENTRY < z * b
    BY ClusterIs
  <1>3. LastSector(D) = DataStart(D) + (m * z) * D.spc
    BY DEF LastSector
  <1> HIDE DEF b, z
  <1>4. b = FAT_ENTRY * m /\ m \in Nat
    <2>1. b = FAT_ENTRY * (b \div FAT_ENTRY) + (b % FAT_ENTRY) /\ b \div FAT_ENTRY \in Nat
      BY <1>1, Digit
    <2> QED BY <1>1, <2>1
  <1> HIDE DEF m
  <1>5. m # 0
    BY <1>1, <1>4
  <1>6. ASSUME NEW c \in Clusters(D) PROVE c < z * m
    BY <1>1, <1>2, <1>4, BelowScaled
  <1>7. m * z \in Nat /\ z * m = m * z
    BY <1>1, <1>4
  <1>8. (m * z) * D.spc \in Nat
    BY <1>1, <1>7
  <1> QED BY <1>3, <1>4, <1>5, <1>6, <1>7, <1>8 DEF b, z, m

LEMMA DataRead ==
    ASSUME OnDisk, NEW c \in Clusters(D), NEW s \in 0 .. fs.spc - 1
    PROVE  Image[disk][cluster_to_sector(c) + s] = DataSector(D, c, s)
  <1> DEFINE x == (c - 2) * D.spc + s
             lba == DataStart(D) + x
  <1>0. c \in Nat /\ 2 <= c
    BY ClusterIs
  <1>1. PICK m \in Nat \ {0} :
             /\ c < D.fatsz * m /\ LastSector(D) = DataStart(D) + (m * D.fatsz) * D.spc
             /\ m * D.fatsz \in Nat /\ (m * D.fatsz) * D.spc \in Nat /\ D.fatsz * m = m * D.fatsz
    BY TableIs
  <1>2. x \div D.spc = c - 2 /\ x % D.spc = s /\ x \in Nat /\ x <= (m * D.fatsz) * D.spc
    <2> DEFINE t == m * D.fatsz
               w == D.spc
    <2>1. t \in Nat /\ c < t /\ w \in Nat \ {0} /\ s \in 0 .. w - 1
      BY <1>1, FsIs
    <2> HIDE DEF t, w
    <2>2. /\ ((c - 2) * w + s) \div w = c - 2 /\ ((c - 2) * w + s) % w = s
          /\ (c - 2) * w + s \in Nat /\ (c - 2) * w + s <= t * w
      BY <1>0, <2>1, ClusterPlace
    <2> QED BY <2>2 DEF t, w
  <1>3. cluster_to_sector(c) + s = lba
    <2>1. (c - 2) * D.spc \in Int
      BY <1>0, FsIs
    <2> QED BY <2>1, FsIs DEF cluster_to_sector
  <1> HIDE DEF x
  <1>4. lba \in 0 .. LastSector(D) /\ ~(lba < DataStart(D)) /\ ~(lba < D.reserved) /\ lba - DataStart(D) = x
    <2> DEFINE y == (m * D.fatsz) * D.spc
    <2>1. y \in Nat /\ LastSector(D) = DataStart(D) + y /\ x \in Nat /\ x <= y
      BY <1>1, <1>2
    <2> HIDE DEF y
    <2> QED BY <2>1, FsIs
  <1> HIDE DEF lba
  <1>5. Image[disk][lba] = Sector(D, lba)
    BY <1>4 DEF Image, OnDisk, D
  <1>6. Sector(D, lba) = DataSector(D, (c - 2) + 2, s)
    BY <1>2, <1>4 DEF Sector
  <1>7. (c - 2) + 2 = c
    BY <1>0
  <1> QED BY <1>3, <1>5, <1>6, <1>7

LEMMA FatRead ==
    ASSUME OnDisk, NEW c \in Clusters(D)
    PROVE  Image[disk][EntrySector(c)][(c * FAT_ENTRY) % fs.bps] = Raw(D, c)
  <1> DEFINE f == FAT_ENTRY
             z == D.fatsz
             b == D.bps
             q == (c * f) \div b
             o == (c * f) % b
             lba == D.reserved + q
  <1>0. c \in Nat /\ f \in Nat \ {0} /\ z \in Nat \ {0} /\ b \in Nat \ {0}
    BY ClusterIs, FsIs
  <1>1. PICK m \in Nat \ {0} :
             /\ b = f * m /\ c < z * m /\ LastSector(D) = DataStart(D) + (m * D.fatsz) * D.spc
             /\ (m * D.fatsz) * D.spc \in Nat
    BY TableIs
  <1>2. EntrySector(c) = lba /\ (c * FAT_ENTRY) % fs.bps = o
    BY FsIs DEF EntrySector
  <1>3. FatSector(D, q % z) = [p \in {p \in 0 .. b - 1 : p % f = 0} |-> Raw(D, ((q % z) * b + p) \div f)]
    BY DEF FatSector
  <1>4. q \in 0 .. z - 1 /\ o \in 0 .. b - 1 /\ q * b + o = f * c /\ o = f * (c % m) /\ c % m \in Nat
    <2> HIDE DEF f, z, b
    <2>1. c * f = f * c
      BY <1>0
    <2>2. q = c \div m /\ o = f * (c % m) /\ (c \div m) * b + f * (c % m) = f * c
      <3>1. /\ (f * c) \div (f * m) = c \div m /\ (f * c) % (f * m) = f * (c % m)
            /\ (c \div m) * (f * m) + f * (c % m) = f * c
        BY <1>0, Scaled
      <3>2. b = f * m
        BY <1>1
      <3> QED BY <2>1, <3>1, <3>2, Zenon
    <2>3. c \div m \in 0 .. z - 1
      BY <1>0, <1>1, BelowProduct
    <2>4. c % m \in Nat
      BY <1>0
    <2>5. o \in 0 .. b - 1
      <3>1. c * f \in Nat
        BY <1>0
      <3> DEFINE a == c * f
      <3> HIDE DEF a
      <3>2. a % b \in 0 .. b - 1
        BY <1>0, <3>1, Digit DEF a
      <3> QED BY <3>2 DEF a
    <2> HIDE DEF q, o
    <2>6. q * b + o = f * c
      BY <2>2
    <2> QED BY <2>2, <2>3, <2>4, <2>5, <2>6
  <1> HIDE DEF q, o, f, z, b
  <1>5. o % f = 0 /\ (q * b + o) \div f = c
    <2> DEFINE r == c % m
    <2> HIDE DEF r
    <2>1. o = f * r /\ r \in Nat /\ o >= 0 /\ q * b + o = f * c
      BY <1>4 DEF r
    <2>2. (f * r) % f = 0
      BY <1>0, <2>1, Multiple
    <2>3. (f * c) \div f = c
      <3>1. f * c >= 0
        BY <1>0
      <3> QED BY <1>0, <3>1, Multiple
    <2> QED BY <2>1, <2>2, <2>3
  <1>6. q % z = q
    <2>1. q \in 0 .. z - 1
      BY <1>4
    <2>2. q \in Nat /\ q = z * 0 + q
      BY <1>0, <2>1
    <2> QED BY <1>0, <2>1, <2>2, QuotientUnique
  <1>7. lba \in 0 .. LastSector(D) /\ ~(lba < D.reserved) /\ lba < DataStart(D) /\ lba - D.reserved = q
    <2> DEFINE y == (m * D.fatsz) * D.spc
    <2>1. y \in Nat /\ LastSector(D) = DataStart(D) + y
      BY <1>1
    <2> HIDE DEF y
    <2>2. q < D.fatsz /\ q \in Nat
      BY <1>0, <1>4 DEF z
    <2> QED BY <2>1, <2>2, FsIs
  <1> HIDE DEF lba
  <1>8. Image[disk][lba] = Sector(D, lba)
    BY <1>7 DEF Image, OnDisk, D
  <1>9. Sector(D, lba) = FatSector(D, q % z)
    BY <1>7 DEF Sector, z
  <1>10. FatSector(D, q % z)[o] = Raw(D, (q * b + o) \div f)
    BY <1>3, <1>4, <1>5, <1>6
  <1> QED BY <1>2, <1>5, <1>8, <1>9, <1>10

(* The next cluster of a chain, as fat_get_entry answers.                   *)
LEMMA EntryIs ==
    ASSUME OnDisk, NEW j \in 0 .. Len(D.slots), NEW k \in DOMAIN ChainOf(D, j),
           NEW r \in Outcomes(EntrySector(ChainOf(D, j)[k]))
    PROVE  Entry(r, ChainOf(D, j)[k]) =
             IF ~r.ok THEN EOC_MIN
             ELSE IF k < Len(ChainOf(D, j)) THEN ChainOf(D, j)[k + 1] ELSE EOC_MIN + 1
  <1> DEFINE ch == ChainOf(D, j)
             c == ch[k]
  <1>1. ch \in Seq(Clusters(D)) /\ D.fatsz # 0 /\ Formatted(D)
    BY FsIs, ChainsTyped DEF OnDisk
  <1>2. k \in 1 .. Len(ch) /\ c \in Clusters(D) /\ (k < Len(ch) => k + 1 \in 1 .. Len(ch) /\ ch[k + 1] \in Clusters(D))
    BY <1>1
  <1>3. ASSUME r.ok PROVE r.sector[(c * FAT_ENTRY) % fs.bps] = Raw(D, c)
    BY <1>2, <1>3, FatRead, OutcomeIs
  <1>4. Raw(D, c) = IF k < Len(ch) THEN MASK + ch[k + 1] ELSE EOC_MIN + 1
    BY <1>1, RawIs
  <1>5. ASSUME k < Len(ch) PROVE (MASK + ch[k + 1]) % MASK = ch[k + 1]
    <2> DEFINE m == ch[k + 1]
    <2>1. m \in Nat /\ m < EOC_MIN
      BY <1>2, <1>5, ClusterIs
    <2> HIDE DEF m
    <2>2. MASK + m \in Nat /\ m \in 0 .. MASK - 1 /\ MASK + m = MASK * 1 + m /\ MASK \in Nat \ {0}
      BY <2>1, EntryAssumption
    <2>3. (MASK + m) % MASK = m
      BY <2>2, QuotientUnique
    <2> QED BY <2>3 DEF m
  <1>6. (EOC_MIN + 1) % MASK = EOC_MIN + 1
    <2>1. EOC_MIN + 1 = MASK * 0 + (EOC_MIN + 1) /\ EOC_MIN + 1 \in 0 .. MASK - 1 /\ MASK \in Nat \ {0} /\ EOC_MIN + 1 \in Nat
      BY EntryAssumption
    <2> QED BY <2>1, QuotientUnique
  <1>7. k < Len(ch) \/ ~(k < Len(ch))
    OBVIOUS
  <1> HIDE DEF c, ch
  <1> QED BY <1>3, <1>4, <1>5, <1>6, <1>7 DEF Entry, c, ch
-----------------------------------------------------------------------------
(* The sectors of the root directory, and those of a file.                  *)
LEMMA ChainPlaces ==
    ASSUME OnDisk
    PROVE  /\ Formatted(D) /\ D.fatsz # 0 /\ Unshared(D)
           /\ D.root \in Seq(Clusters(D)) /\ DOMAIN D.root = 1 .. Len(D.root) /\ Len(D.root) \in Nat \ {0}
           /\ ChainOf(D, 0) = D.root /\ 0 \in 0 .. Len(D.slots)
           /\ DOMAIN D.slots = 1 .. Len(D.slots) /\ Len(D.slots) \in Nat
           /\ \A j \in DOMAIN D.slots : /\ j \in 0 .. Len(D.slots) /\ j # 0 /\ ChainOf(D, j) = D.slots[j].chain
                                        /\ D.slots[j] \in Entries(D)
  <1>1. Formatted(D) /\ D.fatsz # 0
    BY FsIs DEF OnDisk
  <1>2. Unshared(D) /\ D.root \in Seq(Clusters(D)) \ {<<>>} /\ D.slots \in Seq(Entries(D))
    BY <1>1 DEF Formatted
  <1> QED BY <1>1, <1>2 DEF ChainOf

LEMMA DirIs ==
    ASSUME OnDisk, NEW i \in DOMAIN D.root, NEW s \in 0 .. fs.spc - 1,
           NEW r \in Outcomes(cluster_to_sector(D.root[i]) + s), r.ok
    PROVE  r.sector = DirSector(D, (i - 1) * D.spc + s)
  <1> DEFINE c == D.root[i]
  <1>1. c \in Clusters(D)
    BY ChainPlaces
  <1>2. r.sector = DataSector(D, c, s)
    BY <1>1, DataRead, OutcomeIs
  <1>3. \A l \in DOMAIN D.root : D.root[l] = c => l = i
    BY ChainPlaces DEF Unshared
  <1>4. (CHOOSE l \in DOMAIN D.root : D.root[l] = c) = i
    BY <1>3
  <1>5. \E l \in DOMAIN D.root : D.root[l] = c
    OBVIOUS
  <1>6. DataSector(D, c, s) = DirSector(D, ((CHOOSE l \in DOMAIN D.root : D.root[l] = c) - 1) * D.spc + s)
    BY <1>5, Zenon DEF DataSector
  <1> QED BY <1>2, <1>4, <1>6

LEMMA FileIs ==
    ASSUME OnDisk, NEW j \in DOMAIN D.slots, NEW k \in DOMAIN D.slots[j].chain, NEW s \in 0 .. fs.spc - 1,
           NEW r \in Outcomes(cluster_to_sector(D.slots[j].chain[k]) + s), r.ok
    PROVE  r.sector = FileSector(D, D.slots[j], (k - 1) * D.spc + s)
  <1> DEFINE c == D.slots[j].chain[k]
             Has(l) == \E i \in DOMAIN D.slots[l].chain : D.slots[l].chain[i] = c
  <1>1. c \in Clusters(D)
    BY ChainPlaces DEF Entries
  <1>2. r.sector = DataSector(D, c, s)
    BY <1>1, DataRead, OutcomeIs
  <1>3. ~ \E l \in DOMAIN D.root : D.root[l] = c
    BY ChainPlaces DEF Unshared
  <1>4. ASSUME NEW l \in DOMAIN D.slots, NEW i \in DOMAIN D.slots[l].chain, D.slots[l].chain[i] = c
        PROVE  l = j /\ i = k
    BY <1>4, ChainPlaces DEF Unshared
  <1>5. (CHOOSE l \in DOMAIN D.slots : Has(l)) = j
    <2>1. Has(j) /\ \A l \in DOMAIN D.slots : Has(l) => l = j
      BY <1>4
    <2> HIDE DEF Has
    <2> QED BY <2>1
  <1>6. (CHOOSE i \in DOMAIN D.slots[j].chain : D.slots[j].chain[i] = c) = k
    BY <1>4
  <1>7. DataSector(D, c, s) =
          LET l == CHOOSE l \in DOMAIN D.slots : Has(l)
              i == CHOOSE i \in DOMAIN D.slots[l].chain : D.slots[l].chain[i] = c
          IN  FileSector(D, D.slots[l], (i - 1) * D.spc + s)
    <2>1. \E l \in DOMAIN D.slots : Has(l)
      OBVIOUS
    <2> QED BY <1>3, <2>1, Zenon DEF DataSector
  <1>8. DataSector(D, c, s) =
          LET i == CHOOSE i \in DOMAIN D.slots[j].chain : D.slots[j].chain[i] = c
          IN  FileSector(D, D.slots[j], (i - 1) * D.spc + s)
    BY <1>5, <1>7, Zenon
  <1> QED BY <1>2, <1>6, <1>8

(* What a sector of the directory shows of a name.                          *)
Unnamed(d, n, path) == \A k \in 1 .. n : d.slots[k].kind # "end" /\ ~Names(d.slots[k], path)

LEMMA ListedIs ==
    ASSUME OnDisk
    PROVE  \A i : i \in Listed(D) <=> /\ i \in DOMAIN D.slots /\ D.slots[i].kind \in {"file", "dir"}
                                      /\ \A j \in DOMAIN D.slots : D.slots[j].kind = "end" => i < j
  BY DEF Listed

LEMMA DirEntries ==
    ASSUME OnDisk, NEW n \in Nat, NEW N, N = n * PerSector(D)
    PROVE  /\ PerSector(D) \in Nat \ {0} /\ N \in Nat /\ N + PerSector(D) = (n + 1) * PerSector(D)
           /\ DOMAIN DirSector(D, n) = 1 .. PerSector(D)
           /\ \A k \in 1 .. PerSector(D) :
                DirSector(D, n)[k] = IF N + k \in DOMAIN D.slots THEN D.slots[N + k] ELSE End
  <1> DEFINE p == PerSector(D)
             b == D.bps
  <1>1. b \in Nat \ {0} /\ DIRENT \in Nat \ {0} /\ b >= DIRENT
    BY ChainPlaces, FsIs, EntryAssumption DEF Formatted
  <1>2. p = b \div DIRENT
    BY DEF PerSector
  <1>3. p \in Nat \ {0}
    <2> HIDE DEF b, p
    <2>1. b = DIRENT * p + (b % DIRENT) /\ p \in Nat /\ b % DIRENT \in 0 .. DIRENT - 1
      BY <1>1, <1>2, Digit
    <2> QED BY <1>1, <2>1
  <1>4. DirSector(D, n) = [k \in 1 .. p |-> IF n * p + k \in DOMAIN D.slots THEN D.slots[n * p + k] ELSE End]
    BY DEF DirSector, PerSector
  <1> HIDE DEF p
  <1>5. n * p \in Nat /\ n * p + p = (n + 1) * p
    BY <1>3
  <1> QED BY <1>3, <1>4, <1>5 DEF p

Hits(sector, path) == {k \in DOMAIN sector : Names(sector[k], path) /\ Before(sector, k)}
HitsTell(d, sector, N, path) ==
    /\ Hits(sector, path) # {} =>
         \E i \in Listed(d) : d.slots[i] = sector[Min(Hits(sector, path))] /\ d.slots[i].name = path
    /\ Hits(sector, path) = {} /\ EndIn(sector) = {} =>
         N + PerSector(d) <= Len(d.slots) /\ Unnamed(d, N + PerSector(d), path)
    /\ Hits(sector, path) = {} /\ EndIn(sector) # {} => \A i \in Listed(d) : d.slots[i].name # path

LEMMA DirHit ==
    ASSUME OnDisk, NEW n \in Nat, NEW N, N = n * PerSector(D), NEW path,
           N <= Len(D.slots), Unnamed(D, N, path), NEW sector, sector = DirSector(D, n)
    PROVE  HitsTell(D, sector, N, path)
  <1>h. PICK hits : hits = Hits(sector, path)
    OBVIOUS
  <1>g. hits = {k \in DOMAIN sector : Names(sector[k], path) /\ Before(sector, k)}
    BY <1>h DEF Hits
  <1> DEFINE p == PerSector(D)
  <1>1. /\ p \in Nat \ {0} /\ N \in Nat
        /\ DOMAIN sector = 1 .. p
        /\ \A k \in 1 .. p : sector[k] = IF N + k \in DOMAIN D.slots THEN D.slots[N + k] ELSE End
    BY DirEntries
  <1>2. DOMAIN D.slots = 1 .. Len(D.slots) /\ Len(D.slots) \in Nat
    BY ChainPlaces
  <1>3. End.kind = "end"
    BY DEF End
  <1>4. ASSUME NEW k \in 1 .. p, sector[k].kind # "end" PROVE N + k \in DOMAIN D.slots /\ sector[k] = D.slots[N + k]
    BY <1>1, <1>3, <1>4
  <1>5. ASSUME NEW j \in DOMAIN D.slots, D.slots[j].kind = "end"
        PROVE  N < j /\ (j <= N + p => j - N \in EndIn(sector))
    <2>1. N < j
      BY <1>1, <1>2, <1>5 DEF Unnamed
    <2>2. ASSUME j <= N + p PROVE j - N \in EndIn(sector)
      <3>1. j - N \in 1 .. p /\ N + (j - N) = j
        BY <1>1, <1>2, <2>1, <2>2
      <3> QED BY <1>1, <1>5, <3>1 DEF EndIn
    <2> QED BY <2>1, <2>2
  <1>6. ASSUME hits # {}
        PROVE  \E i \in Listed(D) : D.slots[i] = sector[Min(hits)] /\ D.slots[i].name = path
    <2> DEFINE k == Min(hits)
               i == N + k
    <2>1. k \in hits
      <3>1. hits \in SUBSET Nat
        BY <1>1, <1>g
      <3> QED BY <1>6, <3>1, MinIsLeast
    <2> HIDE DEF k
    <2>2. k \in 1 .. p /\ Names(sector[k], path) /\ Before(sector, k)
      BY <1>1, <1>g, <2>1
    <2>3. i \in DOMAIN D.slots /\ sector[k] = D.slots[i]
      BY <1>4, <2>2 DEF Names, Shown
    <2>4. D.slots[i].kind \in {"file", "dir"} /\ D.slots[i].name = path
      <3>1. D.slots[i] \in Entries(D)
        BY <2>3, ChainPlaces
      <3> QED BY <2>2, <2>3, <3>1 DEF Names, Shown, Entries
    <2>5. ASSUME NEW j \in DOMAIN D.slots, D.slots[j].kind = "end" PROVE i < j
      <3>1. CASE j <= N + p
        <4>1. k < j - N
          BY <1>5, <2>2, <2>5, <3>1 DEF Before
        <4> QED BY <1>1, <1>2, <2>2, <4>1
      <3>2. CASE ~(j <= N + p)
        BY <1>1, <1>2, <2>2, <3>2
      <3> QED BY <3>1, <3>2
    <2>6. i \in Listed(D)
      BY <2>3, <2>4, <2>5, ListedIs
    <2> QED BY <2>3, <2>4, <2>6 DEF k
  <1>7. ASSUME hits = {}, EndIn(sector) = {}
        PROVE  N + p <= Len(D.slots) /\ Unnamed(D, N + p, path)
    <2>1. ASSUME NEW k \in 1 .. p
          PROVE  N + k \in DOMAIN D.slots /\ D.slots[N + k].kind # "end" /\ ~Names(D.slots[N + k], path)
      <3>1. sector[k].kind # "end"
        BY <1>1, <1>7 DEF EndIn
      <3>2. Before(sector, k)
        BY <1>7 DEF Before
      <3> QED BY <1>g, <1>1, <1>4, <1>7, <3>1, <3>2
    <2>2. N + p <= Len(D.slots)
      BY <1>1, <1>2, <2>1
    <2>3. ASSUME NEW j \in 1 .. N + p PROVE D.slots[j].kind # "end" /\ ~Names(D.slots[j], path)
      <3>1. CASE j <= N
        BY <1>1, <2>3, <3>1 DEF Unnamed
      <3>2. CASE ~(j <= N)
        <4>1. j - N \in 1 .. p /\ N + (j - N) = j
          BY <1>1, <2>3, <3>2
        <4> QED BY <2>1, <4>1
      <3> QED BY <3>1, <3>2
    <2> QED BY <2>2, <2>3 DEF Unnamed
  <1>8. ASSUME hits = {}, EndIn(sector) # {}, NEW i \in Listed(D), D.slots[i].name = path
        PROVE  FALSE
    <2>1. PICK e \in 1 .. p : sector[e].kind = "end"
      BY <1>1, <1>8 DEF EndIn
    <2>2. i \in 1 .. Len(D.slots) /\ Names(D.slots[i], path)
      BY <1>2, <1>8, ListedIs DEF Names, Shown
    <2>3. N < i
      BY <1>1, <1>2, <2>2 DEF Unnamed
    <2>4. i < N + e
      <3>1. CASE N + e \in DOMAIN D.slots
        <4>1. D.slots[N + e].kind = "end"
          BY <1>1, <2>1, <3>1
        <4> QED BY <1>8, <3>1, <4>1, ListedIs
      <3>2. CASE N + e \notin DOMAIN D.slots
        BY <1>1, <1>2, <2>1, <2>2, <3>2
      <3> QED BY <3>1, <3>2
    <2> DEFINE k == i - N
    <2>5. k \in 1 .. p /\ N + k = i
      <3>1. N \in Nat /\ p \in Nat /\ i \in Int /\ e \in 1 .. p /\ N < i /\ i < N + e
        BY <1>1, <1>2, <2>1, <2>2, <2>3, <2>4
      <3> HIDE DEF p
      <3> QED BY <3>1
    <2>6. sector[k] = D.slots[i]
      BY <1>1, <1>2, <2>2, <2>5
    <2>7. Before(sector, k)
      <3> SUFFICES ASSUME NEW x \in EndIn(sector) PROVE k < x
        BY DEF Before
      <3>1. x \in 1 .. p /\ sector[x].kind = "end"
        BY <1>1 DEF EndIn
      <3>2. i < N + x
        <4>1. CASE N + x \in DOMAIN D.slots
          <5>1. D.slots[N + x].kind = "end"
            BY <1>1, <3>1, <4>1
          <5> QED BY <1>8, <4>1, <5>1, ListedIs
        <4>2. CASE N + x \notin DOMAIN D.slots
          BY <1>1, <1>2, <3>1, <2>2, <4>2
        <4> QED BY <4>1, <4>2
      <3> QED BY <1>1, <1>2, <2>2, <3>1, <3>2
    <2>8. k \in hits
      BY <1>g, <1>1, <2>2, <2>5, <2>6, <2>7
    <2> QED BY <1>8, <2>8
  <1> QED BY <1>h, <1>6, <1>7, <1>8 DEF HitsTell
-----------------------------------------------------------------------------
(* What is in a file, and where.                                           *)
FileOf(d, e) == [bytes |-> Content(d, e), size |-> e.size]
RoomOf(d, e) == Len(e.chain) * d.spc * d.bps
Bpc(d) == d.bps * d.spc

LEMMA EntryTyped ==
    ASSUME OnDisk, NEW i \in Listed(D)
    PROVE  /\ i \in DOMAIN D.slots /\ D.slots[i] \in Entries(D)
           /\ D.slots[i].size \in Nat /\ D.slots[i].chain \in Seq(Clusters(D))
           /\ DOMAIN D.slots[i].chain = 1 .. Len(D.slots[i].chain) /\ Len(D.slots[i].chain) \in Nat
           /\ D.slots[i].name \in STRING
           /\ D.slots[i].chain = <<>> => D.slots[i].size = 0
           /\ FirstOf(D.slots[i]) \in Nat
  <1>1. i \in DOMAIN D.slots /\ D.slots[i] \in Entries(D)
    BY ListedIs, ChainPlaces
  <1>2. D.slots[i].size \in Nat /\ D.slots[i].chain \in Seq(Clusters(D)) /\ D.slots[i].name \in STRING
    BY <1>1 DEF Entries
  <1>3. D.slots[i].chain = <<>> => D.slots[i].size = 0
    BY ChainPlaces DEF Formatted
  <1>4. FirstOf(D.slots[i]) \in Nat
    <2>1. D.slots[i].chain # <<>> => D.slots[i].chain[1] \in Clusters(D)
      BY <1>2
    <2> QED BY <2>1, ClusterIs DEF FirstOf
  <1> HIDE DEF Clusters
  <1>5. DOMAIN D.slots[i].chain = 1 .. Len(D.slots[i].chain) /\ Len(D.slots[i].chain) \in Nat
    BY <1>2
  <1> QED BY <1>1, <1>2, <1>3, <1>4, <1>5

LEMMA CatalogueIs ==
    ASSUME OnDisk
    PROVE  /\ DOMAIN Volumes[disk] = {D.slots[i].name : i \in Listed(D)}
           /\ \A i \in Listed(D) : Volumes[disk][D.slots[i].name] = FileOf(D, D.slots[i])
  <1> DEFINE Es == {D.slots[i] : i \in Listed(D)}
             Names1 == {D.slots[i].name : i \in Listed(D)}
  <1>1. Volumes[disk] = Catalogue(D) /\ D.fatsz # 0
    BY DEF Volumes, OnDisk, D
  <1>2. Catalogue(D) = [n \in Names1 |-> LET e == CHOOSE e \in Es : e.name = n
                                         IN  [bytes |-> Content(D, e), size |-> e.size]]
    BY <1>1 DEF Catalogue
  <1>3. ASSUME NEW i \in Listed(D) PROVE (CHOOSE e \in Es : e.name = D.slots[i].name) = D.slots[i]
    <2>1. \A e \in Es : e.name = D.slots[i].name => e = D.slots[i]
      BY ChainPlaces DEF Formatted
    <2>2. D.slots[i] \in Es
      OBVIOUS
    <2> HIDE DEF Es
    <2> QED BY <2>1, <2>2
  <1> HIDE DEF Es
  <1>4. DOMAIN Catalogue(D) = Names1
    BY <1>2
  <1>5. ASSUME NEW i \in Listed(D) PROVE Catalogue(D)[D.slots[i].name] = FileOf(D, D.slots[i])
    <2>1. D.slots[i].name \in Names1
      OBVIOUS
    <2> HIDE DEF Names1
    <2>2. Catalogue(D)[D.slots[i].name] =
            LET e == CHOOSE e \in Es : e.name = D.slots[i].name IN [bytes |-> Content(D, e), size |-> e.size]
      BY <1>2, <2>1
    <2> QED BY <1>3, <2>2 DEF FileOf
  <1> QED BY <1>1, <1>4, <1>5

SlotFor(d, first, size) ==
    CHOOSE e \in {d.slots[i] : i \in Listed(d)} : FirstOf(e) = first /\ e.size = size

(* Two entries that begin with the same cluster and are as long are of the  *)
(* same file, or of two that are empty.                                     *)
LEMMA SlotIs ==
    ASSUME OnDisk, NEW f, NEW i \in Listed(D), f.first_cluster = FirstOf(D.slots[i]),
           f.file_size = D.slots[i].size
    PROVE  Volumes[disk][SlotFor(D, f.first_cluster, f.file_size).name] = FileOf(D, D.slots[i])
  <1> DEFINE Es == {D.slots[l] : l \in Listed(D)}
             Is(e) == FirstOf(e) = f.first_cluster /\ e.size = f.file_size
  <1>1. SlotFor(D, f.first_cluster, f.file_size) = CHOOSE e \in Es : Is(e)
    BY DEF SlotFor
  <1>2. D.slots[i] \in Es /\ Is(D.slots[i])
    OBVIOUS
  <1>3. SlotFor(D, f.first_cluster, f.file_size) \in Es /\ Is(SlotFor(D, f.first_cluster, f.file_size))
    <2> HIDE DEF Es, Is
    <2> QED BY <1>1, <1>2
  <1>4. PICK l \in Listed(D) : SlotFor(D, f.first_cluster, f.file_size) = D.slots[l]
    BY <1>3
  <1> DEFINE a == D.slots[i]
             b == D.slots[l]
  <1>5. FirstOf(a) = FirstOf(b) /\ a.size = b.size
    BY <1>3, <1>4
  <1>6. a.chain # <<>> /\ b.chain # <<>> => i = l
    <2> SUFFICES ASSUME a.chain # <<>>, b.chain # <<>> PROVE i = l
      OBVIOUS
    <2>1. 1 \in DOMAIN a.chain /\ 1 \in DOMAIN b.chain /\ a.chain[1] = b.chain[1]
      BY <1>5, EntryTyped DEF FirstOf
    <2>2. a.chain = ChainOf(D, i) /\ b.chain = ChainOf(D, l) /\ i \in 0 .. Len(D.slots) /\ l \in 0 .. Len(D.slots)
      BY EntryTyped, ChainPlaces
    <2> QED BY <2>1, <2>2, ChainPlaces DEF Unshared
  <1>7. ASSUME NEW x \in Listed(D), D.slots[x].chain # <<>> PROVE FirstOf(D.slots[x]) # 0
    <2>1. D.slots[x].chain[1] \in Clusters(D)
      BY <1>7, EntryTyped
    <2> QED BY <1>7, <2>1, ClusterIs DEF FirstOf
  <1>8. CASE a.chain = <<>>
    <2>1. b.chain = <<>>
      BY <1>5, <1>7, <1>8 DEF FirstOf
    <2>2. a.size = 0 /\ b.size = 0
      BY <1>5, <1>8, EntryTyped
    <2>3. ASSUME NEW e, e.chain = <<>>, e.size = 0 PROVE Content(D, e) = <<>>
      <3>1. D.spc \in Nat /\ D.bps \in Nat
        BY FsIs
      <3>2. Len(e.chain) = 0
        BY <2>3
      <3>3. Len(e.chain) * D.spc * D.bps = 0
        BY <3>1, <3>2
      <3>4. Content(D, e) = [n \in 1 .. 0 |-> <<e.name, n - 1>>]
        BY <2>3, <3>3 DEF Content
      <3>5. [n \in 1 .. 0 |-> <<e.name, n - 1>>] = <<>>
        OBVIOUS
      <3> QED BY <3>4, <3>5
    <2>4. FileOf(D, a) = FileOf(D, b)
      BY <1>8, <2>1, <2>2, <2>3 DEF FileOf
    <2> QED BY <1>4, <2>4, CatalogueIs
  <1>9. CASE a.chain # <<>>
    <2>1. b.chain # <<>>
      BY <1>5, <1>7, <1>9 DEF FirstOf
    <2> QED BY <1>4, <1>6, <1>9, <2>1, CatalogueIs
  <1> QED BY <1>8, <1>9

LEMMA BytesAre ==
    ASSUME OnDisk, NEW i \in Listed(D), NEW e, e = D.slots[i]
    PROVE  /\ RoomOf(D, e) \in Nat /\ RoomOf(D, e) = Len(e.chain) * Bpc(D) /\ Bpc(D) \in Nat \ {0}
           /\ LET z == IF e.size < RoomOf(D, e) THEN e.size ELSE RoomOf(D, e)
              IN  /\ z \in Nat /\ FileOf(D, e).bytes = [n \in 1 .. z |-> <<e.name, n - 1>>]
                  /\ Len(FileOf(D, e).bytes) = z /\ FileOf(D, e).size = e.size
           /\ \A k \in DOMAIN e.chain : /\ (k - 1) * Bpc(D) \in Nat
                                        /\ (k - 1) * Bpc(D) + Bpc(D) <= RoomOf(D, e)
                                        /\ (k - 1) * Bpc(D) + Bpc(D) = k * Bpc(D)
  <1> DEFINE b == D.bps
             w == D.spc
             n == Len(e.chain)
             p == Bpc(D)
  <1>1. b \in Nat \ {0} /\ w \in Nat \ {0} /\ n \in Nat /\ e.size \in Nat /\ DOMAIN e.chain = 1 .. n
    BY FsIs, EntryTyped
  <1>2. p = b * w /\ RoomOf(D, e) = n * w * b
    BY FsIs DEF Bpc, RoomOf
  <1>3. FileOf(D, e).bytes = Content(D, e) /\ FileOf(D, e).size = e.size
    BY DEF FileOf
  <1>4. LET z == IF e.size < RoomOf(D, e) THEN e.size ELSE RoomOf(D, e)
        IN  Content(D, e) = [j \in 1 .. z |-> <<e.name, j - 1>>]
    BY DEF Content, RoomOf
  <1> HIDE DEF b, w, n, p
  <1>5. p \in Nat /\ p # 0
    BY <1>1, <1>2
  <1>6. n * w * b = n * p /\ n * p \in Nat
    <2>1. n * (w * b) = (n * w) * b /\ w * b = b * w
      BY <1>1, ProductLaws
    <2>2. n * p \in Nat
      BY <1>1, <1>5
    <2> QED BY <1>2, <2>1, <2>2
  <1> DEFINE z == IF e.size < RoomOf(D, e) THEN e.size ELSE RoomOf(D, e)
  <1>7. z \in Nat
    BY <1>1, <1>2, <1>6
  <1>8. Len(FileOf(D, e).bytes) = z
    <2> HIDE DEF z
    <2>1. FileOf(D, e).bytes = [j \in 1 .. z |-> <<e.name, j - 1>>]
      BY <1>3, <1>4 DEF z
    <2> DEFINE h(j) == <<e.name, j - 1>>
               S == {h(j) : j \in 1 .. z}
               g == [j \in 1 .. z |-> h(j)]
    <2>2. \A j \in 1 .. z : h(j) \in S
      OBVIOUS
    <2>3. FileOf(D, e).bytes = g
      BY <2>1
    <2> HIDE DEF h, S
    <2>4. g \in Seq(S) /\ DOMAIN g = 1 .. z
      BY <1>7, <2>2
    <2> HIDE DEF g
    <2>5. Len(g) = z
      BY <1>7, <2>4
    <2> QED BY <2>3, <2>5
  <1>9. ASSUME NEW k \in 1 .. n
        PROVE  (k - 1) * p \in Nat /\ (k - 1) * p + p <= n * p /\ (k - 1) * p + p = k * p
    <2>1. (k - 1) * p \in Nat /\ (k - 1) * p + p = k * p
      BY <1>1, <1>5
    <2>2. k * p <= n * p
      <3>1. p * k <= p * n
        BY <1>1, <1>5, ProductGrows, k = n \/ k < n
      <3>2. p * k = k * p /\ p * n = n * p
        BY <1>1, <1>5
      <3> QED BY <3>1, <3>2
    <2> QED BY <2>1, <2>2
  <1> QED BY <1>1, <1>2, <1>3, <1>4, <1>5, <1>6, <1>7, <1>8, <1>9 DEF n, p
-----------------------------------------------------------------------------
(* Where a file is read next: its chain has ended, or was cut by the device; *)
(* or in one of its clusters.                                               *)
FileByte == STRING \X Nat
FileRecord ==
    [in_use : BOOLEAN, first_cluster : Nat, file_size : Nat, position : Nat, current_cluster : Nat, cluster_offset : Nat]
ReadCall ==
    [op : {"read"}, fd : Fds, arg : 0 .. 2 ^ W - 1, n : Nat, got : Seq(FileByte), from : Nat, at : {"data", "fat"}]
SeekCall == [op : {"seek"}, fd : Fds, arg : Offsets, left : Nat, from : Nat]
Lesser(a, b) == IF a < b THEN a ELSE b

(* d is the disk, e the entry of the file, h whether the device has worked. *)
Stopped(d, e, f, h) == EOC_MIN <= f.current_cluster /\ (h => RoomOf(d, e) <= f.position)
InCluster(d, e, f, k) == f.current_cluster = e.chain[k] /\ f.position = (k - 1) * Bpc(d) + f.cluster_offset
Placed(d, e, f, h) ==
    \/ e.chain = <<>> \/ Stopped(d, e, f, h)
    \/ \E k \in DOMAIN e.chain : InCluster(d, e, f, k) /\ f.cluster_offset < Bpc(d)
Ended(d, e, f) == \E k \in DOMAIN e.chain : InCluster(d, e, f, k) /\ f.cluster_offset = Bpc(d)
Skipping(d, e, f, h) ==
    /\ f.cluster_offset = 0
    /\ e.chain = <<>> \/ Stopped(d, e, f, h) \/ \E k \in DOMAIN e.chain : InCluster(d, e, f, k)

(* A read in progress: what it got are the bytes from where it began.       *)
Got(d, e, f, c) ==
    /\ c.from <= e.size /\ f.position = c.from + Len(c.got) /\ f.position <= Lesser(c.from + c.arg, e.size)
    /\ c.got # <<>> => f.position <= RoomOf(d, e)
    /\ \A i \in 1 .. Len(c.got) : c.got[i] = <<e.name, c.from + i - 1>>
ReadingOf(d, e, f, c, h) ==
    /\ c \in ReadCall /\ c.n = Lesser(c.from + c.arg, e.size) - c.from
    /\ Got(d, e, f, c)
    /\ \/ c.at = "data" /\ Len(c.got) < c.n /\ Placed(d, e, f, h)
       \/ c.at = "fat" /\ Ended(d, e, f) /\ c.got # <<>>
SeekingOf(d, e, f, c, h) ==
    /\ c \in SeekCall
    /\ c.from <= e.size /\ f.position + c.left = Lesser(c.arg, e.size)
    /\ Skipping(d, e, f, h)

IsOpen(e, f) == f \in FileRecord /\ f.first_cluster = FirstOf(e) /\ f.file_size = e.size
Busy(c, fd) == c.op \in {"read", "seek"} /\ c.fd = fd
FileAt(d, e, f, c, fd, h) ==
    /\ IsOpen(e, f)
    /\ ~Busy(c, fd) => f.position <= e.size /\ Placed(d, e, f, h)
    /\ Busy(c, fd) /\ c.op = "read" => ReadingOf(d, e, f, c, h)
    /\ Busy(c, fd) /\ c.op = "seek" => SeekingOf(d, e, f, c, h)

Healthy == faults = Faults
EachFile ==
    \A fd \in Fds : open_files[fd].in_use =>
        OnDisk /\ \E i \in Listed(D) : FileAt(D, D.slots[i], open_files[fd], call, fd, Healthy)
CallOwned == call.op \in {"read", "seek"} => VValid(vfd) /\ vfs_fds[vfd].fat_fd = call.fd
FilesInv == EachFile /\ CallOwned

(* A walk of the directory: what was passed is not what is looked for.      *)
Passed(d, c, i) == ((i - 1) * d.spc + c.s + (IF c.at = "fat" THEN 1 ELSE 0)) * PerSector(d)
Walking(d, c) ==
    /\ c.at \in {"dir", "fat"} /\ c.s \in 0 .. d.spc - 1
    /\ c.at = "fat" => c.s = d.spc - 1
    /\ c.op = "open" => c.listed = <<>>
    /\ \E i \in DOMAIN d.root :
         /\ c.cluster = d.root[i]
         /\ c.op = "open" =>
              c.path \in Paths /\ Passed(d, c, i) <= Len(d.slots) /\ Unnamed(d, Passed(d, c, i), c.path)
WalkInv == call.op \in {"open", "list"} => OnDisk /\ Walking(D, call)

MountInv ==
    /\ disk \in DOMAIN Disks /\ faults \in 0 .. Faults
    /\ fs = NoFs \/ OnDisk
    /\ fs = NoFs => call = None

DiskInv == MountInv /\ FilesInv /\ WalkInv
-----------------------------------------------------------------------------
(* One sector of a file is copied.                                          *)
LEMMA SectorPlace ==
    ASSUME NEW b \in Nat \ {0}, NEW w \in Nat \ {0}, NEW x \in Nat, x < b * w
    PROVE  /\ x = b * (x \div b) + (x % b) /\ x \div b \in 0 .. w - 1 /\ x % b \in 0 .. b - 1
           /\ x + (b - (x % b)) <= b * w
  <1> DEFINE q == x \div b
             o == x % b
  <1>1. x = b * q + o /\ q \in Nat /\ o \in 0 .. b - 1
    BY Digit
  <1>2. w * b = b * w
    OBVIOUS
  <1>3. q \in 0 .. w - 1
    BY <1>2, BelowProduct
  <1> HIDE DEF q, o
  <1>4. x + (b - o) <= b * w
    <2>1. b * q + b <= b * w
      BY <1>1, <1>3, ProductGrows
    <2>2. b * q \in Int /\ b * w \in Int
      BY <1>1
    <2> QED BY <1>1, <2>1, <2>2
  <1> QED BY <1>1, <1>3, <1>4 DEF q, o

Copied(e, k, x, m, pos, sector) ==
    /\ \A i \in 1 .. m : sector[(x % fs.bps) + i - 1] = <<e.name, pos + i - 1>>
    /\ pos \in Nat /\ pos + m <= RoomOf(D, e) /\ x + m <= Bpc(D)

LEMMA CopyIs ==
    ASSUME OnDisk, NEW j \in Listed(D), NEW e, e = D.slots[j], NEW k \in DOMAIN e.chain,
           NEW x \in Nat, x < Bpc(D), NEW m \in Nat, m <= fs.bps - (x % fs.bps),
           NEW pos, pos = (k - 1) * Bpc(D) + x, pos + m <= e.size,
           NEW r \in Outcomes(cluster_to_sector(e.chain[k]) + x \div fs.bps), r.ok
    PROVE  Copied(e, k, x, m, pos, r.sector)
  <1> DEFINE b == D.bps
             w == D.spc
             q == x \div b
             o == x % b
             l == k - 1
  <1>1. b \in Nat \ {0} /\ w \in Nat \ {0} /\ fs.bps = b /\ fs.spc = w /\ Bpc(D) = b * w
    BY FsIs DEF Bpc
  <1>2. k \in Nat \ {0} /\ j \in DOMAIN D.slots
    BY EntryTyped
  <1>3. /\ q \in 0 .. w - 1 /\ o \in 0 .. b - 1
        /\ (l * w + q) * b + o = l * (b * w) + x
        /\ x + (b - o) <= b * w
    <2> HIDE DEF b, w
    <2>1. x < b * w /\ b \in Nat \ {0} /\ w \in Nat \ {0} /\ l \in Nat
      BY <1>1, <1>2
    <2>2. /\ x = b * q + o /\ q \in 0 .. w - 1 /\ o \in 0 .. b - 1
          /\ x + (b - o) <= b * w
      BY <2>1, SectorPlace
    <2> HIDE DEF q, o, l
    <2>3. (l * w + q) * b + o = l * (b * w) + (b * q + o)
      BY <2>1, <2>2
    <2> QED BY <2>2, <2>3
  <1>4. pos \in Nat /\ l * Bpc(D) + Bpc(D) <= RoomOf(D, e) /\ RoomOf(D, e) \in Nat
        /\ l * Bpc(D) \in Nat /\ Bpc(D) \in Nat
    <2>1. /\ (k - 1) * Bpc(D) \in Nat /\ RoomOf(D, e) \in Nat /\ Bpc(D) \in Nat
          /\ (k - 1) * Bpc(D) + Bpc(D) <= RoomOf(D, e)
      BY BytesAre
    <2> DEFINE y == (k - 1) * Bpc(D)
    <2>2. y \in Nat /\ pos = y + x
      BY <2>1
    <2>3. pos \in Nat
      <3> HIDE DEF y
      <3> QED BY <2>2
    <2> QED BY <2>1, <2>3
  <1>5. r.sector = FileSector(D, e, l * w + q)
    <2> HIDE DEF q
    <2>1. r \in Outcomes(cluster_to_sector(e.chain[k]) + q)
      BY <1>1 DEF q
    <2> QED BY <1>1, <1>2, <1>3, <2>1, FileIs
  <1>6. r.sector = [p \in 0 .. b - 1 |-> IF (l * w + q) * b + p < e.size THEN <<e.name, (l * w + q) * b + p>> ELSE Slack]
    BY <1>5 DEF FileSector
  <1> DEFINE base == (l * w + q) * b
  <1>7. base + o = pos
    BY <1>1, <1>3
  <1>8. base \in Int
    <2> HIDE DEF b, w, q, l, o
    <2>1. l \in Int /\ q \in Int
      BY <1>2, <1>3 DEF l
    <2>2. l * w \in Int
      BY <1>1, <2>1
    <2> DEFINE y == l * w + q
    <2>3. y \in Int
      BY <2>1, <2>2
    <2> HIDE DEF y
    <2>4. y * b \in Int
      BY <1>1, <2>3
    <2> QED BY <2>4 DEF y
  <1> HIDE DEF base, q, l
  <1>9. ASSUME NEW i \in 1 .. m PROVE r.sector[o + i - 1] = <<e.name, pos + i - 1>>
    <2> HIDE DEF o, b
    <2> DEFINE p == o + i - 1
    <2>1. p \in 0 .. b - 1 /\ base + p = pos + i - 1 /\ pos + i - 1 < e.size
      <3>1. e.size \in Nat /\ m <= b - o
        BY <1>1, EntryTyped DEF o
      <3> QED BY <1>1, <1>3, <1>4, <1>7, <1>8, <3>1
    <2> HIDE DEF p
    <2>2. r.sector[p] = <<e.name, pos + i - 1>>
      BY <1>6, <2>1 DEF base
    <2> QED BY <2>2 DEF p
  <1>10. pos + m <= RoomOf(D, e) /\ x + m <= Bpc(D)
    <2>1. m <= b - o
      BY <1>1
    <2>2. pos = l * Bpc(D) + x
      BY DEF l
    <2>3. x + (b - o) <= Bpc(D)
      BY <1>1, <1>3
    <2> HIDE DEF o, b
    <2> DEFINE y == l * Bpc(D)
    <2>4. y \in Nat /\ pos = y + x /\ y + Bpc(D) <= RoomOf(D, e)
      BY <1>4, <2>2
    <2> HIDE DEF y
    <2> QED BY <1>1, <1>3, <1>4, <2>1, <2>3, <2>4
  <1> QED BY <1>1, <1>4, <1>9, <1>10 DEF Copied
-----------------------------------------------------------------------------
(* What the promise sees of the two layers.                                 *)
Vol == Volumes[disk]
Cat == IF fs.mounted THEN Vol ELSE Empty
OpenAt(file, pos) == [open |-> TRUE, file |-> file, pos |-> pos]
NotOpenYet == [open |-> FALSE]
HandleOf(v) ==
    IF vfs_fds[v].in_use
      THEN OpenAt(Volumes[disk][SlotOf(vfs_fds[v].fat_fd).name], Position(vfs_fds[v].fat_fd))
      ELSE NotOpenYet
Han == [v \in Vfds |-> HandleOf(v)]
Answered(op, arg, ok, h, bytes) == [op |-> op, arg |-> arg, ok |-> ok, bytes |-> bytes, h |-> h]
Ans ==
    IF reply.op \in {"open", "read", "seek", "close"}
      THEN Answered(reply.op, reply.arg, reply.ok, IF reply.op = "open" /\ ~reply.ok THEN -1 ELSE vfd, reply.bytes)
      ELSE [op |-> "none"]

LEMMA SeenIs == Promise!vars = <<Vol, Cat, Han, Healthy, Ans>>
  BY DEF Promise!vars, Vol, Cat, Han, HandleOf, OpenAt, NotOpenYet, Healthy, Ans, Answered

(* The disk stays, and the device may fail.                                 *)
SameDisk == Vol' = Vol /\ Cat' = Cat /\ (Healthy' => Healthy)

LEMMA StillIs == SameDisk => Promise!Still
  <1>1. Healthy' \in BOOLEAN /\ Healthy \in BOOLEAN
    BY DEF Healthy
  <1>2. SameDisk => Healthy' \in {Healthy, FALSE}
    BY <1>1, Zenon DEF SameDisk
  <1> QED BY <1>2 DEF SameDisk, Promise!Still, Vol, Cat, Healthy

LEMMA AskIs == SameDisk /\ Healthy' = Healthy /\ Han' = Han /\ Ans' = [op |-> "none"] => Promise!Ask
  BY DEF SameDisk, Promise!Ask, Promise!NoAnswer, Vol, Cat, Healthy, Han, HandleOf, OpenAt, NotOpenYet, Ans, Answered

LEMMA QuietIs == SameDisk /\ Han' = Han /\ Ans' = Ans => Promise!Fault \/ UNCHANGED Promise!vars
  <1> SUFFICES ASSUME SameDisk, Han' = Han, Ans' = Ans PROVE Promise!Fault \/ UNCHANGED Promise!vars
    OBVIOUS
  <1>1. Healthy' \in BOOLEAN /\ Healthy \in BOOLEAN
    BY DEF Healthy
  <1>2. CASE Healthy'
    <2>1. Healthy' = Healthy
      BY <1>1, <1>2 DEF SameDisk
    <2> QED BY <2>1 DEF SameDisk, Promise!vars, Vol, Cat, Healthy, Han, HandleOf, OpenAt, NotOpenYet, Ans, Answered
  <1>3. CASE ~Healthy'
    <2>1. Healthy' = FALSE
      BY <1>1, <1>3
    <2> QED BY <2>1 DEF SameDisk, Promise!Fault, Vol, Cat, Healthy, Han, HandleOf, OpenAt, NotOpenYet, Ans, Answered
  <1> QED BY <1>2, <1>3

LEMMA HansAre ==
    ASSUME NEW v \in Vfds
    PROVE  Han[v] = HandleOf(v) /\ (Han[v] = NotOpenYet <=> ~InUse(v))
  BY DEF Han, HandleOf, InUse, OpenAt, NotOpenYet

LEMMA MountIs ==
    ASSUME Cat' = Vol, Vol' = Vol, Han' = Han, Healthy' = Healthy, Ans' = Ans
    PROVE  Promise!Mount
  BY DEF Promise!Mount, Vol, Cat, Healthy, Han, HandleOf, OpenAt, NotOpenYet, Ans, Answered

LEMMA OpensIs ==
    ASSUME SameDisk, NEW p, NEW v \in Vfds, ~InUse(v), p \in DOMAIN Cat,
           Ans' = Answered("open", p, TRUE, v, <<>>), Han' = [Han EXCEPT ![v] = OpenAt(Cat[p], 0)]
    PROVE  Promise!Open(p)
  <1>1. Han[v] = NotOpenYet
    BY HansAre
  <1>2. Ans'.op = "open"
    BY DEF Answered
  <1> QED BY <1>1, <1>2, StillIs
       DEF Promise!Open, Promise!Answer, Promise!Closed, Promise!At, Vol, Cat, Healthy, Han, HandleOf, OpenAt, NotOpenYet, Ans, Answered

LEMMA OpenFailsIs ==
    ASSUME SameDisk, NEW p, p \notin DOMAIN Cat \/ (\A v \in Vfds : InUse(v)) \/ ~Healthy',
           Ans' = Answered("open", p, FALSE, -1, <<>>), Han' = Han
    PROVE  Promise!Open(p)
  <1>1. (\A v \in Vfds : InUse(v)) => \A v \in Vfds : Han[v] # NotOpenYet
    BY HansAre
  <1>2. Ans'.op = "open"
    BY DEF Answered
  <1> QED BY <1>1, <1>2, StillIs
       DEF Promise!Open, Promise!Answer, Promise!Closed, Promise!At, Vol, Cat, Healthy, Han, HandleOf, OpenAt, NotOpenYet, Ans, Answered

LEMMA InvalidIs ==
    ASSUME SameDisk, NEW op, NEW arg, NEW v \in Vfds, ~InUse(v),
           Ans' = Answered(op, arg, FALSE, v, <<>>), Han' = Han
    PROVE  Promise!Invalid(op, v, arg)
  <1>1. Han[v] = NotOpenYet
    BY HansAre
  <1>2. Ans'.op = op /\ Ans'.ok = FALSE /\ Ans'.bytes = <<>>
    BY DEF Answered
  <1> QED BY <1>1, <1>2, StillIs
       DEF Promise!Invalid, Promise!Answers, Promise!Answer, Promise!Closed, Vol, Cat, Healthy, Han, HandleOf, OpenAt, NotOpenYet, Ans, Answered

LEMMA SeekIs ==
    ASSUME SameDisk, NEW o, NEW v \in Vfds, InUse(v), NEW pos, pos = Lesser(o, Han[v].file.size),
           Ans' = Answered("seek", o, TRUE, v, <<>>), Han' = [Han EXCEPT ![v].pos = pos]
    PROVE  Promise!Seek(v, o)
  <1>1. Han[v] # NotOpenYet
    BY HansAre
  <1> QED BY <1>1, StillIs
       DEF Promise!Seek, Promise!Answer, Promise!Closed, Promise!Least, Lesser, Vol, Cat, Healthy, Han, HandleOf, OpenAt, NotOpenYet, Ans, Answered

LEMMA CloseIs ==
    ASSUME SameDisk, NEW v \in Vfds, InUse(v),
           Ans' = Answered("close", 0, TRUE, v, <<>>), Han' = [Han EXCEPT ![v] = NotOpenYet]
    PROVE  Promise!Close(v)
  <1>1. Han[v] # NotOpenYet
    BY HansAre
  <1> QED BY <1>1, StillIs
       DEF Promise!Close, Promise!Answer, Promise!Closed, Vol, Cat, Healthy, Han, HandleOf, OpenAt, NotOpenYet, Ans, Answered

(* A read from from, of arg bytes of a file, that ended at k.               *)
ReadsWell(file, from, arg, k, bytes, h) ==
    LET last == Lesser(from + arg, Len(file.bytes))
    IN  IF last < from THEN k = from /\ bytes = <<>>
        ELSE k \in from .. last /\ (h => k = last) /\ bytes = SubSeq(file.bytes, from + 1, k)
ReadsBadly(file, from, arg, k, bytes, h) ==
    ~h /\ k \in from .. Lesser(from + arg, Len(file.bytes)) /\ bytes = <<>>

LEMMA ReadIs ==
    ASSUME SameDisk, NEW n, NEW v \in Vfds, InUse(v), NEW k, NEW ok \in BOOLEAN, NEW bytes,
           IF ok THEN ReadsWell(Han[v].file, Han[v].pos, n, k, bytes, Healthy')
                 ELSE ReadsBadly(Han[v].file, Han[v].pos, n, k, bytes, Healthy'),
           Ans' = Answered("read", n, ok, v, bytes), Han' = [Han EXCEPT ![v].pos = k]
    PROVE  Promise!Read(v, n)
  <1>1. Han[v] # NotOpenYet
    BY HansAre
  <1>2. Ans'.op = "read" /\ Ans'.ok = ok /\ Ans'.bytes = bytes
    BY DEF Answered
  <1>3. Han'[v].pos = k
    BY <1>1, HansAre DEF Han, HandleOf, OpenAt, InUse
  <1> QED BY <1>1, <1>2, <1>3, StillIs
       DEF Promise!Read, Promise!Answers, Promise!Answer, Promise!Closed, Promise!Least, Lesser, ReadsWell, ReadsBadly,
           Vol, Cat, Healthy, Han, HandleOf, OpenAt, NotOpenYet, Ans, Answered
-----------------------------------------------------------------------------
(* What a read that ends has got is what was promised of it.                *)
LEMMA Shorter ==
    ASSUME NEW S, NEW s \in Seq(S), NEW a \in Nat, NEW b \in Nat, a <= b, b <= Len(s), NEW t \in Seq(S), Len(t) = b - a,
           \A i \in 1 .. b - a : t[i] = s[a + i]
    PROVE  t = SubSeq(s, a + 1, b)
  <1> DEFINE u == SubSeq(s, a + 1, b)
  <1>1. Len(s) \in Nat /\ DOMAIN s = 1 .. Len(s)
    OBVIOUS
  <1>2. u \in Seq(S) /\ Len(u) = b - a /\ \A i \in 1 .. b - a : u[i] = s[a + i]
    BY <1>1
  <1> HIDE DEF u
  <1>3. u = t
    BY <1>2
  <1> QED BY <1>3 DEF u

LEMMA FileLength ==
    ASSUME OnDisk, NEW j \in Listed(D), NEW e, e = D.slots[j]
    PROVE  /\ e.size \in Nat /\ RoomOf(D, e) \in Nat
           /\ Len(FileOf(D, e).bytes) = IF e.size < RoomOf(D, e) THEN e.size ELSE RoomOf(D, e)
  BY BytesAre, EntryTyped

LEMMA FileBytes ==
    ASSUME OnDisk, NEW j \in Listed(D), NEW e, e = D.slots[j]
    PROVE  FileOf(D, e).bytes = [i \in 1 .. Len(FileOf(D, e).bytes) |-> <<e.name, i - 1>>]
  <1> DEFINE z == IF e.size < RoomOf(D, e) THEN e.size ELSE RoomOf(D, e)
  <1>1. FileOf(D, e).bytes = [i \in 1 .. z |-> <<e.name, i - 1>>]
    BY BytesAre
  <1>2. Len(FileOf(D, e).bytes) = z
    BY FileLength
  <1> HIDE DEF z
  <1> QED BY <1>1, <1>2, Zenon

LEMMA ReadAnswered ==
    ASSUME OnDisk, NEW j \in Listed(D), NEW e, e = D.slots[j], NEW f, NEW c,
           Got(D, e, f, c), c.got \in Seq(FileByte), c.from \in Nat, c.arg \in Nat, NEW h,
           h => f.position = Lesser(c.from + c.arg, e.size) \/ RoomOf(D, e) <= f.position
    PROVE  ReadsWell(FileOf(D, e), c.from, c.arg, f.position, c.got, h)
  <1> DEFINE bytes == FileOf(D, e).bytes
             z == Len(bytes)
             from == c.from
             n == c.arg
             got == c.got
             len == Len(got)
             pos == f.position
             last == Lesser(from + n, z)
             room == RoomOf(D, e)
             size == e.size
  <1>1. /\ size \in Nat /\ room \in Nat
        /\ z = IF size < room THEN size ELSE room
    BY FileLength
  <1>2. bytes = [i \in 1 .. z |-> <<e.name, i - 1>>] /\ e.name \in STRING
    <2>1. bytes = [i \in 1 .. z |-> <<e.name, i - 1>>]
      BY FileBytes
    <2> QED BY <2>1, EntryTyped
  <1>3. from \in Nat /\ n \in Nat /\ len \in Nat /\ pos = from + len /\ from <= size
        /\ pos <= Lesser(from + n, size) /\ (got # <<>> => pos <= room)
    BY DEF Got
  <1>4. \A i \in 1 .. len : got[i] = <<e.name, from + i - 1>>
    BY DEF Got
  <1>5. got \in Seq(FileByte) /\ (got = <<>> <=> len = 0)
    OBVIOUS
  <1>6. h => pos = Lesser(from + n, size) \/ room <= pos
    OBVIOUS
  <1> HIDE DEF from, n, got, len, pos, room, size, bytes, z
  <1>7. CASE last < from
    <2>1. len = 0
      BY <1>1, <1>3, <1>5, <1>7 DEF Lesser
    <2>2. pos = from /\ got = <<>>
      BY <1>3, <1>5, <2>1
    <2> QED BY <1>7, <2>2 DEF ReadsWell, got, pos, from, n, z, bytes
  <1>8. CASE ~(last < from)
    <2>1. pos \in from .. last
      <3>1. CASE len = 0
        BY <1>1, <1>3, <1>8, <3>1 DEF Lesser
      <3>2. CASE len # 0
        BY <1>1, <1>3, <1>5, <3>2 DEF Lesser
      <3> QED BY <3>1, <3>2
    <2>2. h => pos = last
      BY <1>1, <1>3, <1>6, <2>1 DEF Lesser
    <2>3. got = SubSeq(bytes, from + 1, pos)
      <3>1. pos <= z /\ pos \in Nat /\ pos - from = len /\ z \in Nat
        BY <1>1, <1>3, <2>1 DEF Lesser
      <3>2. bytes \in Seq(FileByte) /\ Len(bytes) = z
        <4> DEFINE T == FileByte
                   b(i) == <<e.name, i - 1>>
                   g == [i \in 1 .. z |-> b(i)]
        <4>1. \A i \in 1 .. z : b(i) \in T
          BY <1>2, <3>1 DEF FileByte
        <4>2. bytes = g
          BY <1>2
        <4> HIDE DEF b, T
        <4>3. g \in Seq(T)
          BY <3>1, <4>1
        <4> QED BY <4>2, <4>3 DEF z, T
      <3>3. ASSUME NEW i \in 1 .. pos - from PROVE got[i] = bytes[from + i]
        <4> DEFINE m == from + i
        <4>1. m \in 1 .. z /\ m - 1 = from + i - 1 /\ i \in 1 .. len
          BY <1>3, <3>1
        <4> HIDE DEF m
        <4>2. bytes[m] = <<e.name, m - 1>>
          BY <1>2, <4>1
        <4> QED BY <1>4, <4>1, <4>2 DEF m
      <3>4. Len(got) = pos - from
        BY <3>1 DEF len
      <3> QED BY <1>3, <1>5, <3>1, <3>2, <3>3, <3>4, Shorter
    <2> HIDE DEF last
    <2>4. pos \in from .. last /\ (h => pos = last) /\ got = SubSeq(bytes, from + 1, pos) /\ ~(last < from)
      BY <1>8, <2>1, <2>2, <2>3
    <2> QED BY <2>4 DEF ReadsWell, got, pos, from, n, z, last, bytes
  <1> QED BY <1>7, <1>8

LEMMA ReadFailed ==
    ASSUME OnDisk, NEW j \in Listed(D), NEW e, e = D.slots[j], NEW f, NEW c,
           Got(D, e, f, c), c.got \in Seq(FileByte), c.from \in Nat, c.arg \in Nat, NEW h, ~h,
           f.position <= RoomOf(D, e)
    PROVE  ReadsBadly(FileOf(D, e), c.from, c.arg, f.position, <<>>, h)
  <1>1. /\ e.size \in Nat /\ RoomOf(D, e) \in Nat
        /\ Len(FileOf(D, e).bytes) = IF e.size < RoomOf(D, e) THEN e.size ELSE RoomOf(D, e)
    BY FileLength
  <1> QED BY <1>1 DEF Got, ReadsBadly, Lesser
-----------------------------------------------------------------------------
(* A file as it is read and sought in.                                      *)
LEMMA FileChain ==
    ASSUME OnDisk, NEW j \in Listed(D), NEW e, e = D.slots[j]
    PROVE  /\ Len(e.chain) \in Nat /\ DOMAIN e.chain = 1 .. Len(e.chain) /\ EOC_MIN \in Nat
           /\ \A k \in DOMAIN e.chain : e.chain[k] \in Nat /\ e.chain[k] < EOC_MIN
           /\ e.chain = <<>> <=> Len(e.chain) = 0
           /\ e.chain = <<>> => e.size = 0
           /\ FirstOf(e) = IF e.chain = <<>> THEN 0 ELSE e.chain[1]
  <1>1. e.chain \in Seq(Clusters(D)) /\ (e.chain = <<>> => e.size = 0)
    BY EntryTyped
  <1>2. \A c \in Clusters(D) : c \in Nat /\ c < EOC_MIN
    BY ClusterIs
  <1> HIDE DEF Clusters
  <1> QED BY <1>1, <1>2, EntryAssumption DEF FirstOf

(* The cluster after one that is used up.                                   *)
LEMMA NextPlace ==
    ASSUME OnDisk, NEW j \in Listed(D), NEW e, e = D.slots[j], NEW k \in DOMAIN e.chain,
           NEW r \in Outcomes(EntrySector(e.chain[k])), NEW g, g.current_cluster = Entry(r, e.chain[k]),
           g.cluster_offset = 0, g.position = (k - 1) * Bpc(D) + Bpc(D), NEW h, ~r.ok => ~h
    PROVE  /\ Stopped(D, e, g, h) \/ \E l \in DOMAIN e.chain : InCluster(D, e, g, l)
           /\ g.current_cluster \in Nat
  <1>1. /\ ChainOf(D, j) = e.chain /\ j \in 0 .. Len(D.slots)
    BY ChainPlaces, ListedIs
  <1>2. g.current_cluster = IF ~r.ok THEN EOC_MIN ELSE IF k < Len(e.chain) THEN e.chain[k + 1] ELSE EOC_MIN + 1
    BY <1>1, EntryIs
  <1>3. /\ Len(e.chain) \in Nat /\ DOMAIN e.chain = 1 .. Len(e.chain) /\ EOC_MIN \in Nat
        /\ \A l \in DOMAIN e.chain : e.chain[l] \in Nat
    BY FileChain
  <1>4. g.position = k * Bpc(D) /\ RoomOf(D, e) = Len(e.chain) * Bpc(D) /\ Bpc(D) \in Nat /\ RoomOf(D, e) \in Nat
    <2>1. (k - 1) * Bpc(D) + Bpc(D) = k * Bpc(D)
      BY BytesAre
    <2>2. RoomOf(D, e) = Len(e.chain) * Bpc(D) /\ Bpc(D) \in Nat /\ RoomOf(D, e) \in Nat
      BY BytesAre
    <2> QED BY <2>1, <2>2
  <1>5. CASE ~r.ok
    BY <1>2, <1>3, <1>5 DEF Stopped
  <1>6. CASE r.ok /\ k < Len(e.chain)
    <2> DEFINE l == k + 1
    <2>1. l \in DOMAIN e.chain /\ l - 1 = k
      BY <1>3, <1>6
    <2>2. g.current_cluster = e.chain[l]
      BY <1>2, <1>6
    <2> HIDE DEF l
    <2>3. g.position = (l - 1) * Bpc(D)
      BY <1>4, <2>1
    <2>4. (l - 1) * Bpc(D) \in Nat
      BY <2>1, BytesAre
    <2> DEFINE y == (l - 1) * Bpc(D)
    <2>5. y + 0 = y
      BY <2>4
    <2>6. g.position = y + g.cluster_offset
      BY <2>3, <2>5
    <2>7. InCluster(D, e, g, l)
      BY <2>2, <2>6 DEF InCluster
    <2> QED BY <1>3, <2>1, <2>2, <2>7
  <1>7. CASE r.ok /\ ~(k < Len(e.chain))
    <2>1. k = Len(e.chain)
      BY <1>3, <1>7
    <2>2. g.position = RoomOf(D, e)
      BY <1>4, <2>1
    <2>3. g.current_cluster = EOC_MIN + 1
      BY <1>2, <1>7
    <2> QED BY <1>3, <1>4, <2>2, <2>3 DEF Stopped
  <1> QED BY <1>5, <1>6, <1>7

(* Where a read that has not reached its end reads.                         *)
ReadsOn(d, e, f, c, h) ==
    /\ c.n - Len(c.got) \in Nat \ {0} /\ f.position + (c.n - Len(c.got)) = Lesser(c.from + c.arg, e.size)
    /\ AtEnd(f.current_cluster) => (h => RoomOf(d, e) <= f.position)
    /\ ~AtEnd(f.current_cluster) =>
          \E k \in DOMAIN e.chain :
             InCluster(d, e, f, k) /\ f.cluster_offset < Bpc(d) /\ f.position <= RoomOf(d, e)
    /\ Placed(d, e, f, h)

LEMMA ReadsIn ==
    ASSUME OnDisk, NEW j \in Listed(D), NEW e, e = D.slots[j], NEW f \in FileRecord, NEW c, NEW h,
           ReadingOf(D, e, f, c, h), c.at = "data"
    PROVE  ReadsOn(D, e, f, c, h)
  <1>1. /\ c \in ReadCall /\ c.n = Lesser(c.from + c.arg, e.size) - c.from
        /\ c.from <= e.size /\ f.position = c.from + Len(c.got)
        /\ Len(c.got) < c.n /\ Placed(D, e, f, h)
    BY DEF ReadingOf, Got
  <1>2. c.n \in Nat /\ Len(c.got) \in Nat /\ c.from \in Nat /\ c.arg \in Nat /\ e.size \in Nat
    BY <1>1, EntryTyped DEF ReadCall
  <1>3. c.n - Len(c.got) \in Nat \ {0} /\ f.position + (c.n - Len(c.got)) = Lesser(c.from + c.arg, e.size)
    BY <1>1, <1>2 DEF Lesser
  <1>4. e.chain # <<>>
    <2> SUFFICES ASSUME e.chain = <<>> PROVE FALSE
      OBVIOUS
    <2>1. e.size = 0
      BY FileChain
    <2> QED BY <1>1, <1>2, <2>1 DEF Lesser
  <1>5. ASSUME NEW k \in DOMAIN e.chain, InCluster(D, e, f, k) PROVE ~AtEnd(f.current_cluster)
    <2>1. e.chain[k] \in Nat /\ e.chain[k] < EOC_MIN /\ EOC_MIN \in Nat
      BY FileChain
    <2>2. f.current_cluster = e.chain[k]
      BY <1>5 DEF InCluster
    <2> QED BY <2>1, <2>2 DEF AtEnd
  <1>6. AtEnd(f.current_cluster) => (h => RoomOf(D, e) <= f.position)
    BY <1>1, <1>4, <1>5 DEF Placed, Stopped
  <1>7. ASSUME ~AtEnd(f.current_cluster)
        PROVE  \E k \in DOMAIN e.chain :
                    InCluster(D, e, f, k) /\ f.cluster_offset < Bpc(D) /\ f.position <= RoomOf(D, e)
    <2>1. ~Stopped(D, e, f, h)
      BY <1>7, EntryAssumption DEF Stopped, AtEnd, FileRecord
    <2>2. PICK k \in DOMAIN e.chain : InCluster(D, e, f, k) /\ f.cluster_offset < Bpc(D)
      BY <1>1, <1>4, <2>1 DEF Placed
    <2>3. (k - 1) * Bpc(D) \in Nat /\ (k - 1) * Bpc(D) + Bpc(D) <= RoomOf(D, e) /\ RoomOf(D, e) \in Nat /\ Bpc(D) \in Nat
      BY BytesAre
    <2>4. f.position <= RoomOf(D, e)
      <3> DEFINE y == (k - 1) * Bpc(D)
      <3>1. f.position = y + f.cluster_offset /\ y \in Nat /\ y + Bpc(D) <= RoomOf(D, e) /\ f.cluster_offset \in Nat
        BY <2>2, <2>3 DEF InCluster, FileRecord
      <3> HIDE DEF y
      <3> QED BY <2>2, <2>3, <3>1
    <2> QED BY <2>2, <2>4
  <1> QED BY <1>1, <1>3, <1>6, <1>7 DEF ReadsOn
-----------------------------------------------------------------------------
LEMMA LesserOf ==
    ASSUME NEW a \in Nat, NEW b \in Nat
    PROVE  Min({a, b}) = Lesser(a, b) /\ Lesser(a, b) \in Nat /\ Lesser(a, b) <= a /\ Lesser(a, b) <= b
  <1> DEFINE S == {a, b}
  <1>1. S \in SUBSET Nat /\ S # {}
    OBVIOUS
  <1>2. Min(S) \in S /\ \A y \in S : Min(S) <= y
    BY <1>1, MinIsLeast
  <1> DEFINE m == Min(S)
  <1>3. (m = a \/ m = b) /\ m <= a /\ m <= b
    BY <1>2
  <1> HIDE DEF m
  <1> QED BY <1>3 DEF Lesser, m

LEMMA Joined ==
    ASSUME NEW T, NEW s \in Seq(T), NEW t \in Seq(T), NEW u, u = s \o t
    PROVE  /\ u \in Seq(T) /\ Len(u) = Len(s) + Len(t) /\ Len(s) \in Nat /\ Len(t) \in Nat
           /\ \A i \in 1 .. Len(s) + Len(t) : u[i] = IF i <= Len(s) THEN s[i] ELSE t[i - Len(s)]
  OBVIOUS

(* More bytes are got.                                                      *)
BytesFrom(e, pos, t) == \A i \in 1 .. Len(t) : t[i] = <<e.name, pos + i - 1>>

LEMMA GotMore ==
    ASSUME NEW d, NEW e, NEW f, NEW c, Got(d, e, f, c), e.name \in STRING, e.size \in Nat,
           c.got \in Seq(FileByte), c.from \in Nat, c.arg \in Nat,
           NEW add \in Seq(FileByte), add # <<>>,
           BytesFrom(e, f.position, add),
           NEW g, g.position = f.position + Len(add),
           g.position <= Lesser(c.from + c.arg, e.size), g.position <= RoomOf(d, e),
           NEW b, b.got = c.got \o add, b.from = c.from, b.arg = c.arg
    PROVE  Got(d, e, g, b)
  <1> DEFINE old == c.got
             len == Len(old)
             m == Len(add)
             T == FileByte
             pos == f.position
             from == c.from
             got == b.got
  <1>1. old \in Seq(T) /\ add \in Seq(T) /\ got = old \o add /\ len \in Nat /\ m \in Nat \ {0}
    OBVIOUS
  <1>2. from <= e.size /\ pos = from + len /\ \A i \in 1 .. len : old[i] = <<e.name, from + i - 1>>
    BY DEF Got
  <1>3. from \in Nat /\ b.from = from
    OBVIOUS
  <1> HIDE DEF T, got
  <1>4. got \in Seq(T) /\ Len(got) = len + m /\ \A i \in 1 .. len + m : got[i] = IF i <= len THEN old[i] ELSE add[i - len]
    BY <1>1, Joined
  <1> HIDE DEF old, len, m, pos, from
  <1>5. got # <<>>
    BY <1>1, <1>4
  <1>6. g.position = from + Len(got)
    BY <1>1, <1>2, <1>3, <1>4 DEF pos, m
  <1>7. ASSUME NEW i \in 1 .. Len(got) PROVE got[i] = <<e.name, from + i - 1>>
    <2>1. i \in 1 .. len + m
      BY <1>4
    <2>2. CASE i <= len
      <3>1. got[i] = old[i] /\ i \in 1 .. len
        BY <1>1, <1>4, <2>1, <2>2
      <3> QED BY <1>2, <3>1
    <2>3. CASE ~(i <= len)
      <3> DEFINE l == i - len
      <3>1. l \in 1 .. m /\ pos + l - 1 = from + i - 1
        BY <1>1, <1>2, <1>3, <2>1, <2>3
      <3>2. got[i] = add[l]
        BY <1>4, <2>1, <2>3
      <3> HIDE DEF l
      <3>3. add[l] = <<e.name, pos + l - 1>>
        BY <3>1 DEF pos, m, BytesFrom
      <3> QED BY <3>1, <3>2, <3>3
    <2> QED BY <2>2, <2>3
  <1>9. Got(d, e, g, b)
    <2>1. b.got # <<>> => g.position <= RoomOf(d, e)
      OBVIOUS
    <2>2. b.from <= e.size /\ g.position = b.from + Len(b.got) /\ g.position <= Lesser(b.from + b.arg, e.size)
      BY <1>2, <1>3, <1>6 DEF got, from
    <2>3. \A i \in 1 .. Len(b.got) : b.got[i] = <<e.name, b.from + i - 1>>
      BY <1>3, <1>7 DEF got
    <2> QED BY <2>1, <2>2, <2>3 DEF Got
  <1> QED BY <1>9

CopyLength(f, c) == Min({c.n - Len(c.got), fs.bps - (f.cluster_offset % fs.bps)})
SectorAt(f) == cluster_to_sector(f.current_cluster) + f.cluster_offset \div fs.bps
CopiedBytes(f, r, m) == [i \in 1 .. m |-> r.sector[(f.cluster_offset % fs.bps) + i - 1]]
GotWith(c, f, r, m) == c.got \o CopiedBytes(f, r, m)

(* What is copied of one sector is what the file holds there.               *)
CopyGives(d, e, g, b, k, m, n) ==
    /\ m \in Nat /\ b.got \in Seq(FileByte) /\ Len(b.got) \in 1 .. n /\ b.got # <<>>
    /\ Got(d, e, g, b) /\ InCluster(d, e, g, k)
    /\ g.cluster_offset \in Nat /\ g.cluster_offset <= Bpc(d) /\ g.position \in Nat

LEMMA CopyStep ==
    ASSUME OnDisk, NEW j \in Listed(D), NEW e, e = D.slots[j], NEW f \in FileRecord, NEW c, NEW h,
           ReadingOf(D, e, f, c, h), c.at = "data",
           NEW k \in DOMAIN e.chain, InCluster(D, e, f, k), f.cluster_offset < Bpc(D),
           NEW r \in Outcomes(SectorAt(f)), r.ok,
           NEW m, m = CopyLength(f, c),
           NEW g, g.position = f.position + m, g.cluster_offset = f.cluster_offset + m,
           g.current_cluster = f.current_cluster,
           NEW b, b.got = GotWith(c, f, r, m), b.from = c.from, b.arg = c.arg
    PROVE  CopyGives(D, e, g, b, k, m, c.n)
  <1> DEFINE x == f.cluster_offset
             o == x % fs.bps
             left == c.n - Len(c.got)
             rest == fs.bps - o
             pos == f.position
             old == c.got
             size == e.size
             room == RoomOf(D, e)
  <1>1. /\ left \in Nat \ {0} /\ pos + left = Lesser(c.from + c.arg, size)
    <2>1. ReadsOn(D, e, f, c, h)
      BY ReadsIn, Zenon
    <2> QED BY <2>1 DEF ReadsOn
  <1>2. c \in ReadCall /\ Got(D, e, f, c)
    BY DEF ReadingOf
  <1>3. /\ c.n \in Nat /\ old \in Seq(FileByte) /\ c.from \in Nat /\ c.arg \in Nat
        /\ x \in Nat /\ pos \in Nat /\ size \in Nat
    BY <1>2, EntryTyped DEF ReadCall, FileRecord
  <1>4. fs.bps \in Nat \ {0} /\ o \in 0 .. fs.bps - 1
    <2>1. fs.bps \in Nat \ {0}
      BY FsIs
    <2> QED BY <1>3, <2>1, Digit
  <1>5. rest \in Nat \ {0}
    <2> HIDE DEF o
    <2> QED BY <1>4
  <1>6. m = Lesser(left, rest) /\ m \in Nat \ {0} /\ m <= left /\ m <= rest
    <2> HIDE DEF left, rest
    <2>1. Min({left, rest}) = Lesser(left, rest) /\ Lesser(left, rest) <= left /\ Lesser(left, rest) <= rest
      BY <1>1, <1>5, LesserOf
    <2>2. m = Min({left, rest})
      BY DEF left, rest, CopyLength
    <2> QED BY <1>1, <1>5, <2>1, <2>2 DEF Lesser
  <1>7. pos = (k - 1) * Bpc(D) + x
    BY DEF InCluster
  <1>8. pos + m <= size
    <2> HIDE DEF left, rest, pos, size
    <2> QED BY <1>1, <1>3, <1>6 DEF Lesser
  <1>9. /\ \A i \in 1 .. m : r.sector[o + i - 1] = <<e.name, pos + i - 1>>
        /\ pos + m <= room /\ x + m <= Bpc(D)
    <2>1. f.current_cluster = e.chain[k]
      BY DEF InCluster
    <2>2. r \in Outcomes(cluster_to_sector(e.chain[k]) + x \div fs.bps)
      BY <2>1 DEF SectorAt
    <2>3. m \in Nat /\ m <= fs.bps - (x % fs.bps) /\ x < Bpc(D) /\ pos + m <= e.size
      BY <1>6, <1>8
    <2>4. Copied(e, k, x, m, pos, r.sector)
      BY <1>3, <1>7, <2>2, <2>3, CopyIs
    <2> QED BY <2>4 DEF Copied
  <1> DEFINE add == [i \in 1 .. m |-> r.sector[o + i - 1]]
  <1>10. add \in Seq(FileByte) /\ Len(add) = m /\ \A i \in 1 .. m : add[i] = <<e.name, pos + i - 1>>
    <2> DEFINE T == FileByte
               q(i) == <<e.name, pos + i - 1>>
               s(i) == r.sector[o + i - 1]
    <2>1. \A i \in 1 .. m : q(i) \in T
      <3>1. e.name \in STRING
        BY EntryTyped
      <3> HIDE DEF pos
      <3> QED BY <1>3, <1>6, <3>1 DEF FileByte
    <2>2. \A i \in 1 .. m : s(i) = q(i)
      BY <1>9
    <2> HIDE DEF T, q, s
    <2> DEFINE a == [i \in 1 .. m |-> s(i)]
    <2>3. a \in Seq(T) /\ Len(a) = m /\ \A i \in 1 .. m : a[i] = q(i)
      <3>1. ASSUME NEW n \in Nat PROVE LET w == [i \in 1 .. n |-> s(i)] IN
                 (\A i \in 1 .. n : s(i) \in T) => w \in Seq(T) /\ Len(w) = n /\ \A i \in 1 .. n : w[i] = s(i)
        OBVIOUS
      <3>2. m \in Nat
        BY <1>6
      <3> QED BY <2>1, <2>2, <3>1, <3>2
    <2>4. a = add
      BY DEF s
    <2> HIDE DEF a, add
    <2> QED BY <2>3, <2>4 DEF T, q
  <1>11. b.got = old \o add
    BY DEF CopiedBytes, GotWith
  <1> HIDE DEF add
  <1>12. Got(D, e, g, b) /\ b.got \in Seq(FileByte) /\ Len(b.got) = Len(old) + m /\ b.got # <<>> /\ Len(old) \in Nat
    <2>1. g.position <= Lesser(c.from + c.arg, size) /\ g.position <= room
      <3> HIDE DEF left, rest, size, room
      <3> QED BY <1>1, <1>3, <1>6, <1>9
    <2>2. e.name \in STRING
      BY EntryTyped
    <2>3. add # <<>>
      BY <1>6, <1>10
    <2>4. g.position = pos + Len(add) /\ BytesFrom(e, pos, add)
      BY <1>10 DEF BytesFrom
    <2> HIDE DEF rest, left, x, o
    <2>5. Got(D, e, g, b)
      <3>1. Got(D, e, f, c) /\ old \in Seq(FileByte) /\ c.from \in Nat /\ c.arg \in Nat /\ size \in Nat
        BY <1>2, <1>3
      <3>2. add \in Seq(FileByte)
        BY <1>10
      <3> QED BY <1>11, <2>1, <2>2, <2>3, <2>4, <3>1, <3>2, GotMore
    <2>6. b.got \in Seq(FileByte) /\ Len(b.got) = Len(old) + Len(add) /\ Len(old) \in Nat
      <3>1. add \in Seq(FileByte) /\ old \in Seq(FileByte)
        BY <1>3, <1>10
      <3> HIDE DEF old
      <3> QED BY <1>11, <3>1, Joined
    <2>7. Len(b.got) = Len(old) + m /\ m # 0
      BY <1>6, <1>10, <2>6
    <2>8. b.got # <<>>
      <3> HIDE DEF old
      <3> QED BY <1>6, <2>6, <2>7
    <2> QED BY <2>5, <2>6, <2>7, <2>8
  <1> DEFINE len == Len(old)
  <1>13. left = c.n - len /\ len \in Nat
    BY <1>12
  <1>14. Len(b.got) = len + m
    BY <1>12
  <1> HIDE DEF left, len, rest, o, old
  <1>15. Len(b.got) \in 1 .. c.n
    <2>1. c.n \in Nat /\ left \in Nat /\ m \in Nat \ {0} /\ m <= left
      BY <1>1, <1>3, <1>6
    <2>2. len + m <= c.n
      BY <1>13, <2>1
    <2> QED BY <1>13, <1>14, <2>1, <2>2
  <1>16. g.cluster_offset = x + m /\ g.position = pos + m
    OBVIOUS
  <1>17. InCluster(D, e, g, k)
    <2> DEFINE y == (k - 1) * Bpc(D)
    <2>1. y \in Nat
      BY BytesAre
    <2>2. pos = y + x
      BY <1>7
    <2> HIDE DEF y
    <2>3. g.position = y + g.cluster_offset
      BY <1>3, <1>6, <1>16, <2>1, <2>2
    <2> QED BY <2>3 DEF InCluster, y
  <1>18. g.cluster_offset \in Nat /\ g.position \in Nat
    <2> HIDE DEF x, pos
    <2> QED BY <1>3, <1>6, <1>16
  <1>19. g.cluster_offset <= Bpc(D)
    BY <1>9, <1>16
  <1> QED BY <1>6, <1>12, <1>15, <1>17, <1>18, <1>19 DEF CopyGives
-----------------------------------------------------------------------------
(* A file that no call is busy with stays as it is.                         *)
LEMMA PlacedStays ==
    ASSUME NEW d, NEW e, NEW f, NEW h, NEW g, g => h, Placed(d, e, f, h)
    PROVE  Placed(d, e, f, g)
  BY DEF Placed, Stopped

LEMMA FileAtStays ==
    ASSUME NEW d, NEW e, NEW f, NEW c, NEW fd, NEW h, NEW b, NEW g, FileAt(d, e, f, c, fd, h), ~Busy(c, fd), ~Busy(b, fd), g => h
    PROVE  FileAt(d, e, f, b, fd, g)
  BY PlacedStays DEF FileAt

SameFs == disk' = disk /\ fs' = fs /\ (Healthy' => Healthy)

LEMMA SameDisks == SameFs => D' = D /\ OnDisk' = OnDisk /\ Listed(D)' = Listed(D) /\ SameDisk
  BY DEF SameFs, SameDisk, D, OnDisk, MountedAs, Vol, Cat, Volumes, Empty

(* The files in S were worked on; the others stay.                          *)
LEMMA EachFileStays ==
    ASSUME EachFile, SameFs, NEW S,
           \A x \in Fds \ S : /\ open_files'[x].in_use => open_files'[x] = open_files[x]
                              /\ ~Busy(call, x) /\ ~Busy(call', x),
           \A x \in Fds \cap S : open_files'[x].in_use =>
               OnDisk /\ \E i \in Listed(D) : FileAt(D, D.slots[i], open_files'[x], call', x, Healthy')
    PROVE  EachFile'
  <1>1. D' = D /\ (OnDisk' <=> OnDisk) /\ Listed(D)' = Listed(D) /\ (Healthy' => Healthy)
    BY SameDisks DEF SameFs
  <1> SUFFICES ASSUME NEW x \in Fds, open_files'[x].in_use
               PROVE  OnDisk' /\ \E i \in Listed(D)' : FileAt(D', D'.slots[i], open_files'[x], call', x, Healthy')
    BY DEF EachFile
  <1>2. CASE x \in S
    BY <1>1, <1>2
  <1>3. CASE x \notin S
    <2>1. open_files'[x] = open_files[x] /\ open_files[x].in_use /\ ~Busy(call, x) /\ ~Busy(call', x)
      BY <1>3
    <2>2. OnDisk
      BY <2>1 DEF EachFile
    <2>3. PICK i \in Listed(D) : FileAt(D, D.slots[i], open_files[x], call, x, Healthy)
      BY <2>1 DEF EachFile
    <2>4. FileAt(D, D.slots[i], open_files[x], call', x, Healthy')
      BY <1>1, <2>1, <2>3, FileAtStays
    <2> QED BY <1>1, <2>1, <2>2, <2>4
  <1> QED BY <1>2, <1>3
-----------------------------------------------------------------------------
(* The handles, as the promise sees them.                                   *)
FileIn(d, volume, f) == volume[SlotFor(d, f.first_cluster, f.file_size).name]
PositionIn(c, fd, f) == IF Busy(c, fd) THEN c.from ELSE f.position
HandleIn(d, volume, files, c, link) ==
    IF link.in_use THEN OpenAt(FileIn(d, volume, files[link.fat_fd]), PositionIn(c, link.fat_fd, files[link.fat_fd]))
    ELSE NotOpenYet

LEMMA HandleIs == \A v : /\ HandleOf(v) = HandleIn(D, Vol, open_files, call, vfs_fds[v])
                         /\ HandleOf(v)' = HandleIn(D', Vol', open_files', call', vfs_fds'[v])
  <1>1. \A x : Position(x) = PositionIn(call, x, open_files[x])
    BY DEF Position, PositionIn, Busy
  <1>2. \A x : Position(x)' = PositionIn(call', x, open_files'[x])
    BY DEF Position, PositionIn, Busy
  <1>3. \A x : Volumes[disk][SlotOf(x).name] = FileIn(D, Vol, open_files[x])
    BY DEF SlotOf, FileIn, SlotFor, Vol, D
  <1>4. \A x : Volumes[disk'][SlotOf(x)'.name] = FileIn(D', Vol', open_files'[x])
    BY DEF SlotOf, FileIn, SlotFor, Vol, D, Volumes
  <1> QED BY <1>1, <1>2, <1>3, <1>4 DEF HandleOf, HandleIn

(* The same file is open in both states.                                    *)
SameFile(x) ==
    open_files'[x].first_cluster = open_files[x].first_cluster /\ open_files'[x].file_size = open_files[x].file_size
Stands(x) == PositionIn(call', x, open_files'[x]) = PositionIn(call, x, open_files[x])

LEMMA HandleStays ==
    ASSUME Owners, SameFs, NEW v \in Vfds, vfs_fds'[v] = vfs_fds[v],
           InUse(v) => SameFile(vfs_fds[v].fat_fd) /\ Stands(vfs_fds[v].fat_fd)
    PROVE  HandleOf(v)' = HandleOf(v)
  <1>1. D' = D /\ Vol' = Vol
    BY SameDisks DEF SameDisk
  <1>2. CASE InUse(v)
    <2> DEFINE x == vfs_fds[v].fat_fd
    <2>1. FileIn(D', Vol', open_files'[x]) = FileIn(D, Vol, open_files[x])
      BY <1>1, <1>2 DEF FileIn, SameFile
    <2>2. vfs_fds'[v].fat_fd = x /\ vfs_fds[v].in_use /\ vfs_fds'[v].in_use
      BY <1>2 DEF InUse
    <2> HIDE DEF x
    <2>3. PositionIn(call', x, open_files'[x]) = PositionIn(call, x, open_files[x])
      BY <1>2 DEF Stands, x
    <2>4. HandleOf(v) = OpenAt(FileIn(D, Vol, open_files[x]), PositionIn(call, x, open_files[x]))
      BY <2>2, HandleIs DEF HandleIn, x
    <2>5. HandleOf(v)' = OpenAt(FileIn(D', Vol', open_files'[x]), PositionIn(call', x, open_files'[x]))
      BY <2>2, HandleIs DEF HandleIn
    <2> QED BY <2>1, <2>3, <2>4, <2>5
  <1>3. CASE ~InUse(v)
    BY <1>3, HandleIs DEF HandleIn, InUse
  <1> QED BY <1>2, <1>3

LEMMA HansStay ==
    ASSUME Owners, SameFs, UNCHANGED vfs_fds, \A x \in Fds : open_files[x].in_use => SameFile(x) /\ Stands(x)
    PROVE  Han' = Han
  <1>1. ASSUME NEW v \in Vfds PROVE HandleOf(v)' = HandleOf(v)
    <2>1. InUse(v) => vfs_fds[v].fat_fd \in Fds /\ open_files[vfs_fds[v].fat_fd].in_use
      BY DEF Owners, Valid
    <2> QED BY <2>1, HandleStays
  <1> QED BY <1>1 DEF Han, Vfds

LEMMA OpenMoves ==
    ASSUME NEW file, NEW pos, NEW k, NEW r, r = OpenAt(file, pos)
    PROVE  [r EXCEPT !.pos = k] = OpenAt(file, k)
  <1> DEFINE R == [open : BOOLEAN, file : {file}, pos : {pos, k}]
             t == OpenAt(file, k)
             u == [r EXCEPT !.pos = k]
  <1>1. r \in R /\ t \in R /\ u \in R
    BY DEF OpenAt
  <1>2. u.open = t.open /\ u.file = t.file /\ u.pos = t.pos
    BY DEF OpenAt
  <1> HIDE DEF t, u
  <1>3. u = t
    BY <1>1, <1>2
  <1> QED BY <1>3 DEF t, u

(* The position of one file moves.                                          *)
LEMMA HansMove ==
    ASSUME Owners, SameFs, UNCHANGED vfs_fds, NEW v \in Vfds, InUse(v), NEW fd, fd = vfs_fds[v].fat_fd, SameFile(fd),
           \A x \in Fds \ {fd} : open_files[x].in_use => SameFile(x) /\ Stands(x),
           NEW k, k = PositionIn(call', fd, open_files'[fd])
    PROVE  Han' = [Han EXCEPT ![v].pos = k]
  <1>1. ASSUME NEW u \in Vfds, u # v PROVE HandleOf(u)' = HandleOf(u)
    <2>1. InUse(u) => vfs_fds[u].fat_fd \in Fds \ {fd} /\ open_files[vfs_fds[u].fat_fd].in_use
      BY <1>1 DEF Owners, Valid
    <2> QED BY <2>1, HandleStays
  <1>2. D' = D /\ Vol' = Vol
    BY SameDisks DEF SameDisk
  <1>3. vfs_fds'[v].fat_fd = fd /\ vfs_fds[v].in_use /\ vfs_fds'[v].in_use
    BY DEF InUse
  <1>4. HandleOf(v) = OpenAt(FileIn(D, Vol, open_files[fd]), PositionIn(call, fd, open_files[fd]))
    BY <1>3, HandleIs DEF HandleIn
  <1>5. HandleOf(v)' = OpenAt(FileIn(D', Vol', open_files'[fd]), k)
    BY <1>3, HandleIs DEF HandleIn
  <1>6. FileIn(D', Vol', open_files'[fd]) = FileIn(D, Vol, open_files[fd])
    BY <1>2 DEF FileIn, SameFile
  <1>7. HandleOf(v)' = [HandleOf(v) EXCEPT !.pos = k]
    <2> DEFINE F == FileIn(D, Vol, open_files[fd])
    <2> HIDE DEF F
    <2>1. HandleOf(v)' = OpenAt(F, k) /\ \E p : HandleOf(v) = OpenAt(F, p)
      BY <1>4, <1>5, <1>6 DEF F
    <2>2. [HandleOf(v) EXCEPT !.pos = k] = OpenAt(F, k)
      BY <2>1, OpenMoves
    <2> QED BY <2>1, <2>2
  <1> QED BY <1>1, <1>7 DEF Han, Vfds
-----------------------------------------------------------------------------
(* The file of the call in progress.                                        *)
LEMMA AtFile ==
    ASSUME Owners, FilesInv, call.op \in {"read", "seek"}
    PROVE  /\ call.fd \in Fds /\ open_files[call.fd].in_use
           /\ vfd \in Vfds /\ InUse(vfd) /\ vfs_fds[vfd].fat_fd = call.fd
           /\ OnDisk /\ Busy(call, call.fd) /\ \A x \in Fds : Busy(call, x) => x = call.fd
           /\ \E j \in Listed(D) : FileAt(D, D.slots[j], open_files[call.fd], call, call.fd, Healthy)
  <1>1. vfd \in Vfds /\ InUse(vfd) /\ vfs_fds[vfd].fat_fd = call.fd
    BY DEF FilesInv, CallOwned, VValid, InUse
  <1>2. call.fd \in Fds /\ open_files[call.fd].in_use
    BY <1>1 DEF Owners, Valid
  <1>3. Busy(call, call.fd) /\ \A x \in Fds : Busy(call, x) => x = call.fd
    BY DEF Busy
  <1> QED BY <1>1, <1>2, <1>3 DEF FilesInv, EachFile

LEMMA NoneIsIdle == ~Busy(None, 0) /\ (\A x : ~Busy(None, x)) /\ None.op = "none"
  BY DEF Busy, None

LEMMA OneFileWorked ==
    ASSUME DiskInv, Owners, call.op \in {"read", "seek"}, NEW j \in Listed(D), NEW g,
           \A x \in Fds : open_files'[x] = IF x = call.fd THEN g ELSE open_files[x],
           FileAt(D, D.slots[j], g, call', call.fd, Healthy'),
           SameFs, faults' \in 0 .. Faults, UNCHANGED <<vfs_fds, vfd>>,
           call' = None \/ (call'.op = call.op /\ call'.fd = call.fd)
    PROVE  DiskInv'
  <1>1. /\ call.fd \in Fds /\ OnDisk /\ \A x \in Fds : Busy(call, x) => x = call.fd
        /\ vfd \in Vfds /\ InUse(vfd) /\ vfs_fds[vfd].fat_fd = call.fd
    BY AtFile DEF DiskInv
  <1>2. \A x \in Fds : Busy(call', x) => x = call.fd
    BY NoneIsIdle DEF Busy
  <1>3. EachFile'
    <2> DEFINE S == {call.fd}
    <2>1. \A x \in Fds \ S : open_files'[x] = open_files[x] /\ ~Busy(call, x) /\ ~Busy(call', x)
      BY <1>1, <1>2
    <2>2. \A x \in Fds \cap S : FileAt(D, D.slots[j], open_files'[x], call', x, Healthy')
      <3>1. open_files'[call.fd] = g
        BY <1>1
      <3> QED BY <3>1
    <2> HIDE DEF S
    <2> QED BY <1>1, <2>1, <2>2, EachFileStays DEF DiskInv, FilesInv
  <1>4. CallOwned'
    BY <1>1, NoneIsIdle DEF CallOwned, VValid, InUse
  <1>5. WalkInv'
    BY NoneIsIdle DEF WalkInv
  <1>6. fs # NoFs
    BY <1>1, FsIs DEF NoFs
  <1>7. MountInv'
    BY <1>1, <1>6, SameDisks DEF MountInv, SameFs, DiskInv
  <1> QED BY <1>3, <1>4, <1>5, <1>7 DEF DiskInv, FilesInv

LEMMA FileInIs ==
    ASSUME OnDisk, NEW f, NEW i \in Listed(D), IsOpen(D.slots[i], f)
    PROVE  FileIn(D, Vol, f) = FileOf(D, D.slots[i])
  BY SlotIs DEF IsOpen, FileIn, Vol

(* What the promise sees of it.                                            *)
LEMMA HanOfCall ==
    ASSUME Owners, DiskInv, call.op \in {"read", "seek"},
           NEW j \in Listed(D), FileAt(D, D.slots[j], open_files[call.fd], call, call.fd, Healthy)
    PROVE  Han[vfd] = OpenAt(FileOf(D, D.slots[j]), call.from)
  <1>1. /\ vfd \in Vfds /\ InUse(vfd) /\ vfs_fds[vfd].fat_fd = call.fd
        /\ OnDisk /\ Busy(call, call.fd)
    BY AtFile DEF DiskInv
  <1>2. FileIn(D, Vol, open_files[call.fd]) = FileOf(D, D.slots[j])
    BY <1>1, FileInIs DEF FileAt
  <1> QED BY <1>1, <1>2, HandleIs DEF Han, HandleIn, PositionIn, InUse

Quiet == SameDisk /\ Han' = Han /\ Ans' = Ans

LEMMA CallGoesOn ==
    ASSUME Owners, DiskInv, call.op \in {"read", "seek"}, NEW g,
           \A x \in Fds : open_files'[x] = IF x = call.fd THEN g ELSE open_files[x],
           g.first_cluster = open_files[call.fd].first_cluster, g.file_size = open_files[call.fd].file_size,
           SameFs, UNCHANGED <<vfs_fds, vfd, reply>>, call'.op = call.op, call'.fd = call.fd, call'.from = call.from
    PROVE  Quiet
  <1>1. Busy(call, call.fd) /\ Busy(call', call.fd) /\ \A x \in Fds : x # call.fd => ~Busy(call, x) /\ ~Busy(call', x)
    BY DEF Busy
  <1>2. \A x \in Fds : SameFile(x) /\ Stands(x)
    BY <1>1 DEF SameFile, Stands, PositionIn
  <1>3. Han' = Han
    BY <1>2, HansStay
  <1>4. Ans' = Ans
    BY DEF Ans
  <1> QED BY <1>3, <1>4, SameDisks DEF Quiet

(* The end of a read, as the promise sees it.                               *)
ReadEnds(v, n) ==
    /\ SameDisk /\ v \in Vfds /\ InUse(v)
    /\ \E k, bytes :
         /\ Han' = [Han EXCEPT ![v].pos = k]
         /\ \/ /\ Ans' = Answered("read", n, TRUE, v, bytes)
               /\ ReadsWell(Han[v].file, Han[v].pos, n, k, bytes, Healthy')
            \/ /\ Ans' = Answered("read", n, FALSE, v, bytes)
               /\ ReadsBadly(Han[v].file, Han[v].pos, n, k, bytes, Healthy')

LEMMA ReadEndsIs == ASSUME NEW v, NEW n, ReadEnds(v, n) PROVE Promise!Read(v, n)
  <1>1. SameDisk /\ v \in Vfds /\ InUse(v)
    BY DEF ReadEnds
  <1>2. PICK k, bytes :
         /\ Han' = [Han EXCEPT ![v].pos = k]
         /\ \/ /\ Ans' = Answered("read", n, TRUE, v, bytes)
               /\ ReadsWell(Han[v].file, Han[v].pos, n, k, bytes, Healthy')
            \/ /\ Ans' = Answered("read", n, FALSE, v, bytes)
               /\ ReadsBadly(Han[v].file, Han[v].pos, n, k, bytes, Healthy')
    BY DEF ReadEnds
  <1> QED BY <1>1, <1>2, ReadIs

LEMMA CallMoves ==
    ASSUME Owners, DiskInv, call.op \in {"read", "seek"}, NEW j \in Listed(D),
           FileAt(D, D.slots[j], open_files[call.fd], call, call.fd, Healthy), NEW g,
           \A x \in Fds : open_files'[x] = IF x = call.fd THEN g ELSE open_files[x],
           g.first_cluster = open_files[call.fd].first_cluster, g.file_size = open_files[call.fd].file_size,
           SameFs, UNCHANGED <<vfs_fds, vfd>>, call' = None
    PROVE  /\ Han' = [Han EXCEPT ![vfd].pos = g.position] /\ Han[vfd] = OpenAt(FileOf(D, D.slots[j]), call.from)
           /\ vfd \in Vfds /\ InUse(vfd) /\ SameDisk
  <1>1. /\ vfd \in Vfds /\ InUse(vfd) /\ vfs_fds[vfd].fat_fd = call.fd /\ call.fd \in Fds
        /\ OnDisk /\ \A x \in Fds : Busy(call, x) => x = call.fd
    BY AtFile DEF DiskInv
  <1>2. \A x \in Fds \ {call.fd} : SameFile(x) /\ Stands(x)
    BY <1>1, NoneIsIdle DEF SameFile, Stands, PositionIn
  <1>3. SameFile(call.fd) /\ g.position = PositionIn(call', call.fd, open_files'[call.fd])
    BY <1>1, NoneIsIdle DEF SameFile, PositionIn
  <1>4. Han' = [Han EXCEPT ![vfd].pos = g.position]
    BY <1>1, <1>2, <1>3, HansMove
  <1>5. Han[vfd] = OpenAt(FileOf(D, D.slots[j]), call.from)
    BY HanOfCall
  <1> QED BY <1>1, <1>4, <1>5, SameDisks

LEMMA ReadReplied ==
    ASSUME Owners, DiskInv, call.op = "read", NEW j \in Listed(D),
           FileAt(D, D.slots[j], open_files[call.fd], call, call.fd, Healthy), NEW g,
           \A x \in Fds : open_files'[x] = IF x = call.fd THEN g ELSE open_files[x],
           g.first_cluster = open_files[call.fd].first_cluster, g.file_size = open_files[call.fd].file_size,
           SameFs, UNCHANGED <<vfs_fds, vfd>>, call' = None, NEW bytes, NEW v, v = vfd, NEW n, n = call.arg,
           reply' = Reply("read", n, TRUE, call.fd, bytes),
           ReadsWell(FileOf(D, D.slots[j]), call.from, n, g.position, bytes, Healthy')
    PROVE  ReadEnds(v, n)
  <1>1. Han' = [Han EXCEPT ![v].pos = g.position] /\ Han[v] = OpenAt(FileOf(D, D.slots[j]), call.from)
        /\ v \in Vfds /\ InUse(v) /\ SameDisk
    BY CallMoves
  <1>2. Han[v].file = FileOf(D, D.slots[j]) /\ Han[v].pos = call.from
    BY <1>1 DEF OpenAt
  <1>3. Ans' = Answered("read", n, TRUE, v, bytes)
    BY DEF Ans, Reply, Answered
  <1>4. ReadsWell(Han[v].file, Han[v].pos, n, g.position, bytes, Healthy')
    BY <1>2
  <1> QED BY <1>1, <1>3, <1>4 DEF ReadEnds

LEMMA ReadBroken ==
    ASSUME Owners, DiskInv, call.op = "read", NEW j \in Listed(D),
           FileAt(D, D.slots[j], open_files[call.fd], call, call.fd, Healthy), NEW g,
           \A x \in Fds : open_files'[x] = IF x = call.fd THEN g ELSE open_files[x],
           g.first_cluster = open_files[call.fd].first_cluster, g.file_size = open_files[call.fd].file_size,
           SameFs, UNCHANGED <<vfs_fds, vfd>>, call' = None, NEW bytes, NEW v, v = vfd, NEW n, n = call.arg,
           reply' = Reply("read", n, FALSE, call.fd, bytes),
           ReadsBadly(FileOf(D, D.slots[j]), call.from, n, g.position, bytes, Healthy')
    PROVE  ReadEnds(v, n)
  <1>1. Han' = [Han EXCEPT ![v].pos = g.position] /\ Han[v] = OpenAt(FileOf(D, D.slots[j]), call.from)
        /\ v \in Vfds /\ InUse(v) /\ SameDisk
    BY CallMoves
  <1>2. Han[v].file = FileOf(D, D.slots[j]) /\ Han[v].pos = call.from
    BY <1>1 DEF OpenAt
  <1>3. Ans' = Answered("read", n, FALSE, v, bytes)
    BY DEF Ans, Reply, Answered
  <1>4. ReadsBadly(Han[v].file, Han[v].pos, n, g.position, bytes, Healthy')
    BY <1>2
  <1> QED BY <1>1, <1>3, <1>4 DEF ReadEnds
-----------------------------------------------------------------------------
(* One step of a read: what the file's record becomes, the call goes on or  *)
(* is answered.                                                             *)
ReadStepped(v, n) ==
    /\ DiskInv'
    /\ \/ call' = None /\ ReadEnds(v, n)
       \/ Quiet /\ call'.op = "read" /\ call'.arg = n

LEMMA ReadGoesOn ==
    ASSUME Owners, DiskInv, call.op = "read", NEW j \in Listed(D), NEW g,
           \A x \in Fds : open_files'[x] = IF x = call.fd THEN g ELSE open_files[x],
           g.first_cluster = open_files[call.fd].first_cluster, g.file_size = open_files[call.fd].file_size,
           IsOpen(D.slots[j], g),
           SameFs, UNCHANGED <<vfs_fds, vfd, reply>>, faults' \in 0 .. Faults,
           NEW b, b = call', ReadingOf(D, D.slots[j], g, b, Healthy'),
           b.op = "read", b.fd = call.fd, b.from = call.from, b.arg = call.arg
    PROVE  DiskInv' /\ Quiet
  <1>1. Busy(call', call.fd) /\ FileAt(D, D.slots[j], g, call', call.fd, Healthy')
    BY DEF Busy, FileAt
  <1>2. DiskInv'
    BY <1>1, OneFileWorked
  <1> QED BY <1>2, CallGoesOn

LEMMA FaultsAre ==
    ASSUME DiskInv, disk' = disk, fs' = fs, NEW lba, NEW r \in Outcomes(lba), Tried(r)
    PROVE  SameFs /\ faults' \in 0 .. Faults /\ (~r.ok => ~Healthy')
  <1>1. (r.ok /\ faults' = faults) \/ (~r.ok /\ faults > 0 /\ faults' = faults - 1)
    BY OutcomeIs
  <1>2. faults \in 0 .. Faults /\ Faults \in Nat
    BY FilesAssumption DEF DiskInv, MountInv
  <1> QED BY <1>1, <1>2 DEF SameFs, Healthy

(* The read has reached the end of the chain.                               *)
LEMMA ReadSectorAtEnd ==
    ASSUME Owners, Calling, DiskInv, ReadSector, UNCHANGED <<vfs_fds, vfd>>,
           AtEnd(open_files[call.fd].current_cluster), NEW v, v = vfd, NEW n, n = call.arg
    PROVE  ReadStepped(v, n)
  <1> DEFINE f == open_files[call.fd]
  <1>1. /\ call.op = "read" /\ call.at = "data" /\ Done(call.got) /\ UNCHANGED <<open_files, faults, disk, fs>>
    BY DEF ReadSector
  <1>2. call.fd \in Fds /\ OnDisk /\ Busy(call, call.fd)
    BY <1>1, AtFile DEF DiskInv
  <1>3. PICK j \in Listed(D) : FileAt(D, D.slots[j], f, call, call.fd, Healthy)
    BY <1>1, AtFile DEF DiskInv
  <1> DEFINE e == D.slots[j]
  <1>4. f \in FileRecord /\ ReadingOf(D, e, f, call, Healthy) /\ IsOpen(e, f)
    BY <1>1, <1>2, <1>3 DEF FileAt, IsOpen
  <1>5. /\ Got(D, e, f, call) /\ call.got \in Seq(FileByte) /\ call.from \in Nat /\ call.arg \in Nat
    BY <1>4 DEF ReadingOf, ReadCall
  <1>6. (Healthy => RoomOf(D, e) <= f.position) /\ Placed(D, e, f, Healthy)
    <2>1. call.at = "data"
      BY <1>1
    <2>2. ReadsOn(D, e, f, call, Healthy)
      BY <1>2, <1>4, <2>1, ReadsIn, Zenon
    <2> QED BY <1>1, <2>2 DEF ReadsOn
  <1>7. f.position <= e.size /\ e.size \in Nat
    BY <1>2, <1>5, EntryTyped, FileLength DEF Got, Lesser
  <1>8. SameFs /\ faults' \in 0 .. Faults /\ Healthy' = Healthy
    BY <1>1 DEF SameFs, Healthy, DiskInv, MountInv
  <1>9. FileAt(D, e, f, None, call.fd, Healthy')
    BY <1>4, <1>6, <1>7, <1>8, NoneIsIdle DEF FileAt
  <1>10. call' = None /\ reply' = Reply("read", n, TRUE, call.fd, call.got)
    BY <1>1 DEF Done, Return
  <1>11. DiskInv'
    <2>1. \A x \in Fds : open_files'[x] = IF x = call.fd THEN f ELSE open_files[x]
      BY <1>1
    <2> HIDE DEF f
    <2> QED BY <1>1, <1>8, <1>9, <1>10, <2>1, OneFileWorked
  <1>12. ReadsWell(FileOf(D, e), call.from, n, f.position, call.got, Healthy')
    BY <1>2, <1>5, <1>6, <1>8, ReadAnswered
  <1>13. ReadEnds(v, n)
    <2>1. \A x \in Fds : open_files'[x] = IF x = call.fd THEN f ELSE open_files[x]
      BY <1>1
    <2>2. f.first_cluster = open_files[call.fd].first_cluster /\ f.file_size = open_files[call.fd].file_size
      OBVIOUS
    <2>3. FileAt(D, D.slots[j], open_files[call.fd], call, call.fd, Healthy)
      BY <1>3
    <2> HIDE DEF f
    <2> QED BY <1>1, <1>8, <1>10, <1>12, <2>1, <2>2, <2>3, ReadReplied
  <1> QED BY <1>10, <1>11, <1>13 DEF ReadStepped

(* The device failed.                                                      *)
LEMMA ReadSectorFails ==
    ASSUME Owners, Calling, DiskInv, call.op = "read", call.at = "data", ~AtEnd(open_files[call.fd].current_cluster),
           NEW r \in Outcomes(SectorAt(open_files[call.fd])), ~r.ok, Tried(r), disk' = disk, fs' = fs, open_files' = open_files,
           NEW v, v = vfd, NEW n, n = call.arg, UNCHANGED <<vfs_fds, vfd>>,
           Return(Reply("read", n, FALSE, call.fd, <<>>))
    PROVE  ReadStepped(v, n)
  <1> DEFINE f == open_files[call.fd]
  <1>2. call.fd \in Fds /\ OnDisk /\ Busy(call, call.fd)
    BY AtFile DEF DiskInv
  <1>3. PICK j \in Listed(D) : FileAt(D, D.slots[j], f, call, call.fd, Healthy)
    BY AtFile DEF DiskInv
  <1> DEFINE e == D.slots[j]
  <1>4. f \in FileRecord /\ ReadingOf(D, e, f, call, Healthy) /\ IsOpen(e, f)
    BY <1>2, <1>3 DEF FileAt, IsOpen
  <1>5. /\ Got(D, e, f, call) /\ call.got \in Seq(FileByte) /\ call.from \in Nat /\ call.arg \in Nat
    BY <1>4 DEF ReadingOf, ReadCall
  <1>6. f.position <= RoomOf(D, e) /\ Placed(D, e, f, Healthy)
    <2>1. ReadsOn(D, e, f, call, Healthy)
      BY <1>2, <1>4, ReadsIn, Zenon
    <2> QED BY <1>2, <2>1 DEF ReadsOn
  <1>7. f.position <= e.size /\ e.size \in Nat
    BY <1>2, <1>5, EntryTyped, FileLength DEF Got, Lesser
  <1>8. SameFs /\ faults' \in 0 .. Faults /\ ~Healthy'
    BY FaultsAre
  <1>9. FileAt(D, e, f, None, call.fd, Healthy')
    <2>1. Placed(D, e, f, Healthy')
      BY <1>6, <1>8, PlacedStays
    <2> QED BY <1>4, <1>7, <2>1, NoneIsIdle DEF FileAt
  <1>10. call' = None /\ reply' = Reply("read", n, FALSE, call.fd, <<>>)
    BY DEF Return
  <1>11. DiskInv'
    <2>1. \A x \in Fds : open_files'[x] = IF x = call.fd THEN f ELSE open_files[x]
      OBVIOUS
    <2> HIDE DEF f
    <2> QED BY <1>8, <1>9, <1>10, <2>1, OneFileWorked
  <1>12. ReadsBadly(FileOf(D, e), call.from, n, f.position, <<>>, Healthy')
    BY <1>2, <1>5, <1>6, <1>8, ReadFailed
  <1>13. ReadEnds(v, n)
    <2>1. \A x \in Fds : open_files'[x] = IF x = call.fd THEN f ELSE open_files[x]
      OBVIOUS
    <2>2. f.first_cluster = open_files[call.fd].first_cluster /\ f.file_size = open_files[call.fd].file_size
      OBVIOUS
    <2>3. FileAt(D, D.slots[j], open_files[call.fd], call, call.fd, Healthy)
      BY <1>3
    <2> HIDE DEF f
    <2> QED BY <1>8, <1>10, <1>12, <2>1, <2>2, <2>3, ReadBroken
  <1> QED BY <1>10, <1>11, <1>13 DEF ReadStepped
-----------------------------------------------------------------------------
(* A sector was copied.                                                    *)
Advance(f, m) == [f EXCEPT !.position = @ + m, !.cluster_offset = @ + m]
AfterCopy(g, got) ==
    /\ open_files' = [open_files EXCEPT ![call.fd] = g]
    /\ IF g.cluster_offset >= bytes_per_cluster
         THEN call' = [call EXCEPT !.got = got, !.at = "fat"] /\ UNCHANGED reply
       ELSE IF Len(got) = call.n THEN Done(got)
       ELSE call' = [call EXCEPT !.got = got] /\ UNCHANGED reply

LEMMA ReadSectorCopies ==
    ASSUME Owners, Calling, DiskInv, call.op = "read", call.at = "data", ~AtEnd(open_files[call.fd].current_cluster),
           NEW r \in Outcomes(SectorAt(open_files[call.fd])), r.ok, Tried(r), disk' = disk, fs' = fs,
           NEW m, m = CopyLength(open_files[call.fd], call),
           NEW got, got = GotWith(call, open_files[call.fd], r, m),
           NEW g, g = Advance(open_files[call.fd], m), AfterCopy(g, got),
           NEW v, v = vfd, NEW n, n = call.arg, UNCHANGED <<vfs_fds, vfd>>
    PROVE  ReadStepped(v, n)
  <1>0. PICK f : f = open_files[call.fd]
    OBVIOUS
  <1>2. call.fd \in Fds /\ OnDisk /\ Busy(call, call.fd)
    BY AtFile DEF DiskInv
  <1>3. PICK j \in Listed(D) : FileAt(D, D.slots[j], f, call, call.fd, Healthy)
    BY <1>0, AtFile DEF DiskInv
  <1>e. PICK e : e = D.slots[j]
    OBVIOUS
  <1>4. f \in FileRecord /\ ReadingOf(D, e, f, call, Healthy) /\ IsOpen(e, f)
    BY <1>2, <1>3, <1>e DEF FileAt, IsOpen
  <1>5. PICK k \in DOMAIN e.chain : InCluster(D, e, f, k) /\ f.cluster_offset < Bpc(D)
    <2>1. ReadsOn(D, e, f, call, Healthy)
      BY <1>e, <1>2, <1>4, ReadsIn, Zenon
    <2> QED BY <1>0, <1>2, <2>1 DEF ReadsOn
  <1>6. /\ g.position = f.position + m /\ g.cluster_offset = f.cluster_offset + m
        /\ g.current_cluster = f.current_cluster /\ g.first_cluster = f.first_cluster
        /\ g.file_size = f.file_size /\ g.in_use = f.in_use /\ DOMAIN g = DOMAIN f
    BY <1>0, <1>4 DEF FileRecord, Advance
  <1>7. call \in ReadCall /\ call.n = Lesser(call.from + call.arg, e.size) - call.from
    BY <1>4 DEF ReadingOf
  <1>8. PICK b : b = [call EXCEPT !.got = got]
    OBVIOUS
  <1>9. b.got = got /\ b.from = call.from /\ b.arg = call.arg /\ b.n = call.n /\ b.op = "read" /\ b.fd = call.fd /\ b.at = "data"
    BY <1>7, <1>8 DEF ReadCall
  <1>10. /\ m \in Nat /\ got \in Seq(FileByte) /\ Len(got) \in 1 .. call.n /\ got # <<>>
         /\ Got(D, e, g, b) /\ InCluster(D, e, g, k)
         /\ g.cluster_offset \in Nat /\ g.cluster_offset <= Bpc(D) /\ g.position \in Nat
    <2>1. PICK c : c = call
      OBVIOUS
    <2>2. ReadingOf(D, e, f, c, Healthy) /\ c.at = "data" /\ m = CopyLength(f, c) /\ r \in Outcomes(SectorAt(f))
      BY <1>0, <1>4, <2>1
    <2>3. b.got = GotWith(c, f, r, m) /\ b.from = c.from /\ b.arg = c.arg
      BY <1>0, <1>9, <2>1
    <2>4. /\ m \in Nat /\ b.got \in Seq(FileByte) /\ Len(b.got) \in 1 .. c.n /\ b.got # <<>>
          /\ Got(D, e, g, b) /\ InCluster(D, e, g, k)
          /\ g.cluster_offset \in Nat /\ g.cluster_offset <= Bpc(D) /\ g.position \in Nat
      <3>1. CopyGives(D, e, g, b, k, m, c.n)
        BY <1>e, <1>2, <1>4, <1>5, <1>6, <2>2, <2>3, CopyStep
      <3> QED BY <3>1 DEF CopyGives
    <2> QED BY <1>9, <2>1, <2>4
  <1>11. g \in FileRecord /\ IsOpen(e, g)
    <2>1. g \in FileRecord
      BY <1>0, <1>4, <1>10 DEF FileRecord, Advance
    <2> QED BY <1>4, <1>6, <2>1 DEF IsOpen
  <1>12. SameFs /\ faults' \in 0 .. Faults /\ (r.ok => Healthy' = Healthy)
    <2>1. r.ok => faults' = faults
      BY OutcomeIs
    <2> QED BY <2>1, FaultsAre DEF Healthy
  <1>13. bytes_per_cluster = Bpc(D) /\ Bpc(D) \in Nat \ {0}
    <2>1. fs.bps = D.bps /\ fs.spc = D.spc
      BY <1>2, FsIs
    <2> QED BY <1>2, <2>1, BytesAre DEF bytes_per_cluster, Bpc
  <1>14. \A x \in Fds : open_files'[x] = IF x = call.fd THEN g ELSE open_files[x]
    BY DEF Owners, AfterCopy
  <1>15. g.position <= e.size /\ g.position = call.from + Len(got) /\ Len(got) \in Nat /\ call.from \in Nat /\ call.arg \in Nat
         /\ e.size \in Nat /\ call.n \in Nat /\ g.position <= Lesser(call.from + call.arg, e.size)
    <2>1. call.from \in Nat /\ call.arg \in Nat /\ e.size \in Nat /\ call.n \in Nat
      BY <1>2, <1>e, <1>7, EntryTyped DEF ReadCall
    <2> QED BY <1>9, <1>10, <2>1 DEF Got, Lesser
  <1>20. CASE g.cluster_offset >= bytes_per_cluster
    <2>1. UNCHANGED reply
      BY <1>20 DEF AfterCopy
    <2>2. PICK c : c = call'
      OBVIOUS
    <2>3. c = [call EXCEPT !.got = got, !.at = "fat"]
      BY <1>20, <2>2 DEF AfterCopy
    <2>4. /\ c.got = got /\ c.at = "fat" /\ c.from = call.from /\ c.arg = call.arg /\ c.n = call.n
          /\ c.op = "read" /\ c.fd = call.fd /\ c \in ReadCall
      BY <1>7, <1>10, <2>3 DEF ReadCall
    <2>5. Got(D, e, g, c)
      BY <1>9, <1>10, <2>4 DEF Got
    <2>6. Ended(D, e, g)
      BY <1>10, <1>13, <1>20 DEF Ended
    <2>7. ReadingOf(D, e, g, c, Healthy')
      BY <1>7, <1>10, <2>4, <2>5, <2>6 DEF ReadingOf
    <2>8. DiskInv' /\ Quiet
      BY <1>0, <1>e, <1>6, <1>11, <1>12, <1>14, <2>1, <2>2, <2>4, <2>7, ReadGoesOn
    <2> QED BY <2>2, <2>4, <2>8 DEF ReadStepped
  <1>21. CASE ~(g.cluster_offset >= bytes_per_cluster) /\ Len(got) # call.n
    <2>1. UNCHANGED reply /\ call' = b
      BY <1>8, <1>21 DEF AfterCopy
    <2>4. b \in ReadCall
      BY <1>7, <1>8, <1>10 DEF ReadCall
    <2>6. Placed(D, e, g, Healthy')
      BY <1>10, <1>13, <1>21 DEF Placed
    <2>7. ReadingOf(D, e, g, b, Healthy')
      BY <1>7, <1>9, <1>10, <1>15, <1>21, <2>4, <2>6 DEF ReadingOf
    <2>8. DiskInv' /\ Quiet
      BY <1>0, <1>e, <1>6, <1>9, <1>11, <1>12, <1>14, <2>1, <2>7, ReadGoesOn
    <2> QED BY <1>9, <2>1, <2>8 DEF ReadStepped
  <1>22. CASE ~(g.cluster_offset >= bytes_per_cluster) /\ Len(got) = call.n
    <2>1. call' = None /\ reply' = Reply("read", n, TRUE, call.fd, got)
      BY <1>22 DEF AfterCopy, Done, Return
    <2>2. Placed(D, e, g, Healthy')
      BY <1>10, <1>13, <1>22 DEF Placed
    <2>3. FileAt(D, e, g, None, call.fd, Healthy')
      BY <1>11, <1>15, <2>2, NoneIsIdle DEF FileAt
    <2>4. DiskInv'
      BY <1>e, <1>12, <1>14, <2>1, <2>3, OneFileWorked
    <2>5. g.position = Lesser(call.from + call.arg, e.size)
      BY <1>7, <1>15, <1>22 DEF Lesser
    <2>6. ReadsWell(FileOf(D, e), b.from, b.arg, g.position, b.got, Healthy')
      <3>1. b.got \in Seq(FileByte) /\ b.from \in Nat /\ b.arg \in Nat /\ Got(D, e, g, b)
        BY <1>9, <1>10, <1>15
      <3>2. g.position = Lesser(b.from + b.arg, e.size)
        BY <1>9, <2>5
      <3> QED BY <1>e, <1>2, <3>1, <3>2, ReadAnswered
    <2>7. ReadsWell(FileOf(D, e), call.from, n, g.position, got, Healthy')
      BY <1>9, <2>6
    <2>8. ReadEnds(v, n)
      BY <1>0, <1>e, <1>3, <1>6, <1>12, <1>14, <2>1, <2>7, ReadReplied
    <2> QED BY <2>1, <2>4, <2>8 DEF ReadStepped
  <1> QED BY <1>20, <1>21, <1>22

LEMMA ReadSectorStep ==
    ASSUME Owners, Calling, DiskInv, ReadSector, UNCHANGED <<vfs_fds, vfd>>, NEW v, v = vfd, NEW n, n = call.arg
    PROVE  ReadStepped(v, n)
  <1> DEFINE f == open_files[call.fd]
  <1>1. CASE AtEnd(f.current_cluster)
    BY <1>1, ReadSectorAtEnd
  <1>2. CASE ~AtEnd(f.current_cluster)
    <2>1. call.op = "read" /\ call.at = "data" /\ disk' = disk /\ fs' = fs
      BY DEF ReadSector
    <2>2. PICK r \in Outcomes(cluster_to_sector(f.current_cluster) + f.cluster_offset \div fs.bps) :
             /\ Tried(r)
             /\ IF ~r.ok
                  THEN /\ Return(Reply("read", call.arg, FALSE, call.fd, <<>>))
                       /\ UNCHANGED open_files
                  ELSE LET k == ToCopy(f)
                           got == call.got \o [i \in 1 .. k |-> r.sector[(f.cluster_offset % fs.bps) + i - 1]]
                           g == [f EXCEPT !.position = @ + k, !.cluster_offset = @ + k]
                       IN  /\ open_files' = [open_files EXCEPT ![call.fd] = g]
                           /\ IF g.cluster_offset >= bytes_per_cluster
                                THEN call' = [call EXCEPT !.got = got, !.at = "fat"] /\ UNCHANGED reply
                              ELSE IF Len(got) = call.n THEN Done(got)
                              ELSE call' = [call EXCEPT !.got = got] /\ UNCHANGED reply
      BY <1>2, Zenon DEF ReadSector
    <2>3. r \in Outcomes(SectorAt(f))
      BY <2>2 DEF SectorAt
    <2>4. CASE ~r.ok
      <3>1. Return(Reply("read", n, FALSE, call.fd, <<>>)) /\ UNCHANGED open_files
        BY <2>2, <2>4
      <3> QED BY <1>2, <2>1, <2>2, <2>3, <2>4, <3>1, ReadSectorFails
    <2>5. CASE r.ok
      <3>1. PICK k : k = ToCopy(f)
        OBVIOUS
      <3>2. PICK got : got = call.got \o [i \in 1 .. k |-> r.sector[(f.cluster_offset % fs.bps) + i - 1]]
        OBVIOUS
      <3>3. PICK g : g = [f EXCEPT !.position = @ + k, !.cluster_offset = @ + k]
        OBVIOUS
      <3>4. /\ open_files' = [open_files EXCEPT ![call.fd] = g]
            /\ IF g.cluster_offset >= bytes_per_cluster
                 THEN call' = [call EXCEPT !.got = got, !.at = "fat"] /\ UNCHANGED reply
               ELSE IF Len(got) = call.n THEN Done(got)
               ELSE call' = [call EXCEPT !.got = got] /\ UNCHANGED reply
        BY <2>2, <2>5, <3>1, <3>2, <3>3, Zenon
      <3>5. k = CopyLength(f, call) /\ got = GotWith(call, f, r, k)
        BY <3>1, <3>2 DEF CopyLength, ToCopy, GotWith, CopiedBytes
      <3>6. g = Advance(f, k) /\ AfterCopy(g, got)
        BY <3>3, <3>4 DEF Advance, AfterCopy
      <3> QED BY <1>2, <2>1, <2>2, <2>3, <2>5, <3>5, <3>6, ReadSectorCopies
    <2> QED BY <2>4, <2>5
  <1> QED BY <1>1, <1>2
-----------------------------------------------------------------------------
(* The chain is followed after a cluster that was read to its end.          *)
InNext(f, next) == [f EXCEPT !.current_cluster = next, !.cluster_offset = 0]
AfterEntry(g) ==
    /\ \A x \in Fds : open_files'[x] = IF x = call.fd THEN g ELSE open_files[x]
    /\ IF Len(call.got) = call.n THEN Done(call.got)
       ELSE call' = [call EXCEPT !.at = "data"] /\ UNCHANGED reply

LEMMA ReadClusterFollows ==
    ASSUME Owners, Calling, DiskInv, call.op = "read", call.at = "fat",
           NEW r \in Outcomes(EntrySector(open_files[call.fd].current_cluster)), Tried(r), disk' = disk, fs' = fs,
           NEW g, g = InNext(open_files[call.fd], Entry(r, open_files[call.fd].current_cluster)), AfterEntry(g),
           NEW v, v = vfd, NEW n, n = call.arg, UNCHANGED <<vfs_fds, vfd>>
    PROVE  ReadStepped(v, n)
  <1>0. PICK f : f = open_files[call.fd]
    OBVIOUS
  <1>2. call.fd \in Fds /\ OnDisk /\ Busy(call, call.fd)
    BY AtFile DEF DiskInv
  <1>3. PICK j \in Listed(D) : FileAt(D, D.slots[j], f, call, call.fd, Healthy)
    BY <1>0, AtFile DEF DiskInv
  <1>e. PICK e : e = D.slots[j]
    OBVIOUS
  <1>4. f \in FileRecord /\ ReadingOf(D, e, f, call, Healthy) /\ IsOpen(e, f)
    BY <1>2, <1>3, <1>e DEF FileAt, IsOpen
  <1>5. PICK k \in DOMAIN e.chain : InCluster(D, e, f, k) /\ f.cluster_offset = Bpc(D)
    BY <1>4 DEF ReadingOf, Ended
  <1>6. /\ Got(D, e, f, call) /\ call.got \in Seq(FileByte) /\ call.got # <<>> /\ call.from \in Nat /\ call.arg \in Nat
        /\ call.n \in Nat /\ Len(call.got) \in Nat /\ call.n = Lesser(call.from + call.arg, e.size) - call.from
        /\ call \in ReadCall
    BY <1>4 DEF ReadingOf, ReadCall
  <1>7. /\ g.position = f.position /\ g.cluster_offset = 0
        /\ g.current_cluster = Entry(r, f.current_cluster) /\ g.first_cluster = f.first_cluster
        /\ g.file_size = f.file_size /\ g.in_use = f.in_use
    BY <1>0, <1>4 DEF FileRecord, InNext
  <1>8. SameFs /\ faults' \in 0 .. Faults /\ (~r.ok => ~Healthy')
    BY FaultsAre
  <1>9. f.current_cluster = e.chain[k] /\ f.position = (k - 1) * Bpc(D) + Bpc(D)
    BY <1>5 DEF InCluster
  <1>10. /\ Stopped(D, e, g, Healthy') \/ \E l \in DOMAIN e.chain : InCluster(D, e, g, l)
         /\ g.current_cluster \in Nat
    <2>1. /\ OnDisk /\ j \in Listed(D) /\ k \in DOMAIN e.chain /\ r \in Outcomes(EntrySector(e.chain[k]))
          /\ g.current_cluster = Entry(r, e.chain[k]) /\ g.cluster_offset = 0
          /\ g.position = (k - 1) * Bpc(D) + Bpc(D) /\ (~r.ok => ~Healthy')
      BY <1>0, <1>2, <1>7, <1>8, <1>9
    <2> QED BY <1>e, <2>1, NextPlace, Zenon
  <1>11. Placed(D, e, g, Healthy')
    <2>1. Bpc(D) \in Nat \ {0}
      BY <1>2, BytesAre
    <2> QED BY <1>7, <1>10, <2>1 DEF Placed
  <1>12. g \in FileRecord /\ IsOpen(e, g)
    <2>1. g \in FileRecord
      BY <1>0, <1>4, <1>7, <1>10 DEF FileRecord, InNext
    <2> QED BY <1>4, <1>7, <2>1 DEF IsOpen
  <1>13. /\ g.position <= e.size /\ e.size \in Nat /\ g.position = call.from + Len(call.got)
         /\ g.position <= Lesser(call.from + call.arg, e.size)
    <2>1. e.size \in Nat
      BY <1>2, <1>e, EntryTyped
    <2> QED BY <1>6, <1>7, <2>1 DEF Got, Lesser
  <1>14. Got(D, e, g, call)
    BY <1>6, <1>7 DEF Got
  <1>15. \A x \in Fds : open_files'[x] = IF x = call.fd THEN g ELSE open_files[x]
    BY DEF AfterEntry
  <1>20. CASE Len(call.got) = call.n
    <2>1. call' = None /\ reply' = Reply("read", n, TRUE, call.fd, call.got)
      BY <1>20 DEF AfterEntry, Done, Return
    <2>3. FileAt(D, e, g, None, call.fd, Healthy')
      BY <1>11, <1>12, <1>13, NoneIsIdle DEF FileAt
    <2>4. DiskInv'
      BY <1>e, <1>8, <1>15, <2>1, <2>3, OneFileWorked
    <2>5. g.position = Lesser(call.from + call.arg, e.size)
      BY <1>6, <1>13, <1>20 DEF Lesser
    <2>6. PICK c : c = call
      OBVIOUS
    <2>7. ReadsWell(FileOf(D, e), c.from, c.arg, g.position, c.got, Healthy')
      <3>1. c.got \in Seq(FileByte) /\ c.from \in Nat /\ c.arg \in Nat /\ Got(D, e, g, c)
        BY <1>6, <1>14, <2>6
      <3>2. g.position = Lesser(c.from + c.arg, e.size)
        BY <2>5, <2>6
      <3> QED BY <1>e, <1>2, <3>1, <3>2, ReadAnswered
    <2>8. ReadEnds(v, n)
      BY <1>0, <1>e, <1>3, <1>7, <1>8, <1>15, <2>1, <2>6, <2>7, ReadReplied
    <2> QED BY <2>1, <2>4, <2>8 DEF ReadStepped
  <1>21. CASE Len(call.got) # call.n
    <2>1. PICK b : b = call'
      OBVIOUS
    <2>2. b = [call EXCEPT !.at = "data"] /\ UNCHANGED reply
      BY <1>21, <2>1 DEF AfterEntry
    <2>3. /\ b.got = call.got /\ b.at = "data" /\ b.from = call.from /\ b.arg = call.arg /\ b.n = call.n
          /\ b.op = "read" /\ b.fd = call.fd /\ b \in ReadCall
      BY <1>6, <2>2 DEF ReadCall
    <2>4. Got(D, e, g, b)
      BY <1>14, <2>3 DEF Got
    <2>5. Len(b.got) < b.n
      BY <1>6, <1>13, <1>21, <2>3 DEF Lesser
    <2>7. ReadingOf(D, e, g, b, Healthy')
      BY <1>6, <1>11, <2>3, <2>4, <2>5 DEF ReadingOf
    <2>8. DiskInv' /\ Quiet
      BY <1>0, <1>e, <1>7, <1>8, <1>12, <1>15, <2>1, <2>2, <2>3, <2>7, ReadGoesOn
    <2> QED BY <2>1, <2>3, <2>8 DEF ReadStepped
  <1> QED BY <1>20, <1>21

LEMMA ReadClusterStep ==
    ASSUME Owners, Calling, DiskInv, ReadCluster, UNCHANGED <<vfs_fds, vfd>>, NEW v, v = vfd, NEW n, n = call.arg
    PROVE  ReadStepped(v, n)
  <1>1. call.op = "read" /\ call.at = "fat" /\ disk' = disk /\ fs' = fs
    BY DEF ReadCluster
  <1>2. PICK r \in Outcomes(EntrySector(open_files[call.fd].current_cluster)) :
            /\ Tried(r)
            /\ open_files' = [open_files EXCEPT ![call.fd].current_cluster = Entry(r, @), ![call.fd].cluster_offset = 0]
            /\ IF Len(call.got) = call.n THEN Done(call.got)
               ELSE call' = [call EXCEPT !.at = "data"] /\ UNCHANGED reply
    BY DEF ReadCluster
  <1>3. PICK g : g = InNext(open_files[call.fd], Entry(r, open_files[call.fd].current_cluster))
    OBVIOUS
  <1>4. \A x \in Fds : open_files'[x] = IF x = call.fd THEN g ELSE open_files[x]
    <2>1. call.fd \in Fds
      BY <1>1, AtFile DEF DiskInv
    <2> QED BY <1>2, <1>3, <2>1 DEF InNext, Owners
  <1>5. AfterEntry(g)
    BY <1>2, <1>4 DEF AfterEntry
  <1> QED BY <1>1, <1>2, <1>3, <1>5, ReadClusterFollows
-----------------------------------------------------------------------------
(* A read or a seek begins.                                                *)
Begins == SameDisk /\ Healthy' = Healthy /\ Han' = Han /\ Ans' = [op |-> "none"]

LEMMA NoReplyIs == reply' = NoReply => Ans' = [op |-> "none"]
  BY DEF NoReply, Ans

LEMMA FileBegins ==
    ASSUME Owners, DiskInv, call = None, NEW v \in Vfds, InUse(v), NEW fd, fd = vfs_fds[v].fat_fd,
           NEW j \in Listed(D), NEW g,
           \A x \in Fds : open_files'[x] = IF x = fd THEN g ELSE open_files[x],
           g.first_cluster = open_files[fd].first_cluster, g.file_size = open_files[fd].file_size,
           NEW b, b = call', FileAt(D, D.slots[j], g, b, fd, Healthy'),
           b.op \in {"read", "seek"}, b.fd = fd, b.from = open_files[fd].position,
           UNCHANGED <<disk, fs, faults, vfs_fds>>, vfd' = v, reply' = NoReply
    PROVE  DiskInv' /\ Begins
  <1>1. fd \in Fds /\ open_files[fd].in_use /\ OnDisk
    BY DEF Owners, Valid, DiskInv, FilesInv, EachFile
  <1>2. SameFs /\ Healthy' = Healthy /\ faults' \in 0 .. Faults
    BY DEF SameFs, Healthy, DiskInv, MountInv
  <1>3. \A x \in Fds : ~Busy(call, x) /\ (Busy(call', x) <=> x = fd)
    BY NoneIsIdle DEF Busy
  <1>4. EachFile'
    <2> DEFINE S == {fd}
    <2>1. \A x \in Fds \ S : open_files'[x] = open_files[x] /\ ~Busy(call, x) /\ ~Busy(call', x)
      BY <1>3
    <2>2. \A x \in Fds \cap S : FileAt(D, D.slots[j], open_files'[x], call', x, Healthy')
      <3>1. open_files'[fd] = g
        BY <1>1
      <3> QED BY <3>1
    <2> HIDE DEF S
    <2> QED BY <1>1, <1>2, <2>1, <2>2, EachFileStays DEF DiskInv, FilesInv
  <1>5. CallOwned'
    BY DEF CallOwned, VValid, InUse
  <1>6. WalkInv'
    BY DEF WalkInv
  <1>7. MountInv'
    <2>1. fs # NoFs
      BY <1>1, FsIs DEF NoFs
    <2> QED BY <1>1, <1>2, <2>1, SameDisks DEF MountInv, SameFs, DiskInv
  <1>8. \A x \in Fds : SameFile(x) /\ Stands(x)
    BY <1>3 DEF SameFile, Stands, PositionIn
  <1>9. Han' = Han
    BY <1>2, <1>8, HansStay
  <1> QED BY <1>2, <1>4, <1>5, <1>6, <1>7, <1>9, SameDisks, NoReplyIs DEF DiskInv, FilesInv, Begins

(* The file a client's descriptor stands for.                               *)
LEMMA ClientFile ==
    ASSUME Owners, DiskInv, call = None, NEW v \in Vfds, InUse(v), NEW fd, fd = vfs_fds[v].fat_fd
    PROVE  /\ fd \in Fds /\ open_files[fd].in_use /\ Valid(fd) /\ OnDisk
           /\ \E j \in Listed(D) : /\ FileAt(D, D.slots[j], open_files[fd], call, fd, Healthy)
                                   /\ IsOpen(D.slots[j], open_files[fd])
                                   /\ open_files[fd].position <= D.slots[j].size
                                   /\ Placed(D, D.slots[j], open_files[fd], Healthy)
                                   /\ Han[v] = OpenAt(FileOf(D, D.slots[j]), open_files[fd].position)
  <1>1. fd \in Fds /\ open_files[fd].in_use /\ Valid(fd) /\ OnDisk
    BY DEF Owners, Valid, DiskInv, FilesInv, EachFile
  <1>2. PICK j \in Listed(D) : FileAt(D, D.slots[j], open_files[fd], call, fd, Healthy)
    BY <1>1 DEF DiskInv, FilesInv, EachFile
  <1>3. ~Busy(call, fd)
    BY NoneIsIdle
  <1>4. /\ IsOpen(D.slots[j], open_files[fd]) /\ open_files[fd].position <= D.slots[j].size
        /\ Placed(D, D.slots[j], open_files[fd], Healthy)
    BY <1>2, <1>3 DEF FileAt
  <1>5. FileIn(D, Vol, open_files[fd]) = FileOf(D, D.slots[j])
    BY <1>1, <1>4, FileInIs
  <1>6. Han[v] = OpenAt(FileOf(D, D.slots[j]), open_files[fd].position)
    BY <1>3, <1>5, HandleIs DEF Han, HandleIn, PositionIn, InUse
  <1> QED BY <1>1, <1>2, <1>4, <1>6
-----------------------------------------------------------------------------
Rewound(f) == [f EXCEPT !.position = 0, !.cluster_offset = 0, !.current_cluster = f.first_cluster]

LEMMA StartSeekStep ==
    ASSUME Owners, DiskInv, NEW v \in Vfds, InUse(v), NEW o \in Offsets, vfs_seek(v, o)
    PROVE  DiskInv' /\ Begins
  <1> DEFINE fd == vfs_fds[v].fat_fd
  <1>1. call = None /\ VValid(v)
    BY DEF vfs_seek, VValid, InUse, StartSeek
  <1>2. /\ fd \in Fds /\ Valid(fd) /\ OnDisk
    BY <1>1, ClientFile
  <1>3. PICK j \in Listed(D) : /\ FileAt(D, D.slots[j], open_files[fd], call, fd, Healthy)
                               /\ IsOpen(D.slots[j], open_files[fd])
                               /\ open_files[fd].position <= D.slots[j].size
    BY <1>1, ClientFile
  <1>e. PICK e, f : e = D.slots[j] /\ f = open_files[fd]
    OBVIOUS
  <1>4. PICK b : b = [op |-> "seek", fd |-> fd, arg |-> o, left |-> Min({o, f.file_size}), from |-> f.position]
    OBVIOUS
  <1>5. PICK g : g = Rewound(f)
    OBVIOUS
  <1>6. /\ call' = b /\ reply' = NoReply /\ UNCHANGED <<disk, fs, faults, vfs_fds>> /\ vfd' = v
        /\ open_files' = [open_files EXCEPT ![fd].position = 0, ![fd].cluster_offset = 0,
                                            ![fd].current_cluster = open_files[fd].first_cluster]
    BY <1>1, <1>2, <1>4, <1>e DEF vfs_seek, StartSeek, Begin
  <1>7. \A x \in Fds : open_files'[x] = IF x = fd THEN g ELSE open_files[x]
    BY <1>2, <1>5, <1>6, <1>e DEF Rewound, Owners
  <1>8. f \in FileRecord /\ f.first_cluster = FirstOf(e) /\ f.file_size = e.size /\ f.position <= e.size /\ e.size \in Nat
    BY <1>2, <1>3, <1>e, EntryTyped DEF IsOpen
  <1>9. /\ g \in FileRecord /\ g.position = 0 /\ g.cluster_offset = 0 /\ g.current_cluster = FirstOf(e)
        /\ g.first_cluster = f.first_cluster /\ g.file_size = f.file_size /\ IsOpen(e, g)
    BY <1>5, <1>8 DEF FileRecord, Rewound, IsOpen
  <1>10. /\ b.op = "seek" /\ b.fd = fd /\ b.from = f.position /\ b.left = Lesser(o, e.size) /\ b.arg = o /\ b \in SeekCall
    <2>1. o \in Nat
      BY CallsAssumption
    <2>2. Min({o, f.file_size}) = Lesser(o, e.size) /\ Lesser(o, e.size) \in Nat
      BY <1>8, <2>1, LesserOf
    <2>3. f.position \in Nat
      BY <1>8 DEF FileRecord
    <2> QED BY <1>2, <1>4, <2>2, <2>3 DEF SeekCall
  <1>11. Skipping(D, e, g, Healthy')
    <2>1. CASE e.chain = <<>>
      BY <1>9, <2>1 DEF Skipping
    <2>2. CASE e.chain # <<>>
      <3>1. 1 \in DOMAIN e.chain /\ FirstOf(e) = e.chain[1]
        BY <1>2, <1>e, <2>2, FileChain
      <3>2. (1 - 1) * Bpc(D) = 0
        <4>1. Bpc(D) \in Nat
          BY <1>2, BytesAre
        <4> QED BY <4>1
      <3>3. InCluster(D, e, g, 1)
        BY <1>9, <3>1, <3>2 DEF InCluster
      <3> QED BY <1>9, <3>1, <3>3 DEF Skipping
    <2> QED BY <2>1, <2>2
  <1>12. SeekingOf(D, e, g, b, Healthy')
    <2>1. g.position + b.left = Lesser(b.arg, e.size)
      BY <1>9, <1>10 DEF SeekCall
    <2> QED BY <1>8, <1>10, <1>11, <2>1 DEF SeekingOf
  <1>13. FileAt(D, e, g, b, fd, Healthy')
    BY <1>9, <1>10, <1>12 DEF FileAt, Busy
  <1> HIDE DEF fd
  <1> QED BY <1>1, <1>6, <1>7, <1>9, <1>10, <1>13, <1>e, FileBegins DEF fd
-----------------------------------------------------------------------------
(* A seek goes on, and ends.                                               *)
LEMMA SeekGoesOn ==
    ASSUME Owners, DiskInv, call.op = "seek", NEW j \in Listed(D), NEW g,
           \A x \in Fds : open_files'[x] = IF x = call.fd THEN g ELSE open_files[x],
           g.first_cluster = open_files[call.fd].first_cluster, g.file_size = open_files[call.fd].file_size,
           IsOpen(D.slots[j], g),
           SameFs, UNCHANGED <<vfs_fds, vfd, reply>>, faults' \in 0 .. Faults,
           NEW b, b = call', SeekingOf(D, D.slots[j], g, b, Healthy'),
           b.op = "seek", b.fd = call.fd, b.from = call.from
    PROVE  DiskInv' /\ Quiet
  <1>1. Busy(call', call.fd) /\ FileAt(D, D.slots[j], g, call', call.fd, Healthy')
    BY DEF Busy, FileAt
  <1>2. DiskInv'
    BY <1>1, OneFileWorked
  <1> QED BY <1>2, CallGoesOn

(* Where a seek is.                                                        *)
LEMMA SeeksIn ==
    ASSUME Owners, Calling, DiskInv, call.op = "seek", NEW f, f = open_files[call.fd]
    PROVE  \E j \in Listed(D) :
              /\ f \in FileRecord /\ IsOpen(D.slots[j], f) /\ SeekingOf(D, D.slots[j], f, call, Healthy)
              /\ FileAt(D, D.slots[j], f, call, call.fd, Healthy)
              /\ call.from \in Nat /\ call.arg \in Nat /\ call.left \in Nat /\ D.slots[j].size \in Nat
              /\ f.position \in Nat /\ f.position + call.left = Lesser(call.arg, D.slots[j].size)
              /\ bytes_per_cluster = Bpc(D) /\ Bpc(D) \in Nat \ {0}
  <1>1. call.fd \in Fds /\ OnDisk /\ Busy(call, call.fd)
    BY AtFile DEF DiskInv
  <1>2. PICK j \in Listed(D) : FileAt(D, D.slots[j], f, call, call.fd, Healthy)
    BY AtFile DEF DiskInv
  <1>3. f \in FileRecord /\ IsOpen(D.slots[j], f) /\ SeekingOf(D, D.slots[j], f, call, Healthy)
    BY <1>1, <1>2 DEF FileAt, IsOpen
  <1>4. /\ call.from \in Nat /\ call.arg \in Nat /\ call.left \in Nat /\ f.position \in Nat
        /\ f.position + call.left = Lesser(call.arg, D.slots[j].size)
    BY <1>3, CallsAssumption DEF SeekingOf, SeekCall, FileRecord
  <1>5. D.slots[j].size \in Nat
    BY <1>1, EntryTyped
  <1>6. bytes_per_cluster = Bpc(D) /\ Bpc(D) \in Nat \ {0}
    <2>1. fs.bps = D.bps /\ fs.spc = D.spc
      BY <1>1, FsIs
    <2> QED BY <1>1, <2>1, BytesAre DEF bytes_per_cluster, Bpc
  <1> QED BY <1>2, <1>3, <1>4, <1>5, <1>6

SkippedTo(f, next) == [f EXCEPT !.current_cluster = next, !.position = @ + bytes_per_cluster]

LEMMA SeekClusterStep ==
    ASSUME Owners, Calling, DiskInv, SeekCluster, UNCHANGED <<vfs_fds, vfd>>
    PROVE  DiskInv' /\ Quiet /\ call'.op = "seek"
  <1>0. PICK f : f = open_files[call.fd]
    OBVIOUS
  <1>1. call.op = "seek" /\ Skips(f) /\ UNCHANGED <<disk, fs, reply>>
    BY <1>0 DEF SeekCluster
  <1>2. PICK r \in Outcomes(EntrySector(f.current_cluster)) :
        /\ Tried(r)
        /\ open_files' = [open_files EXCEPT ![call.fd].current_cluster = Entry(r, @), ![call.fd].position = @ + bytes_per_cluster]
        /\ call' = [call EXCEPT !.left = @ - bytes_per_cluster]
    BY <1>0 DEF SeekCluster
  <1>3. PICK j \in Listed(D) :
              /\ f \in FileRecord /\ IsOpen(D.slots[j], f) /\ SeekingOf(D, D.slots[j], f, call, Healthy)
              /\ call.from \in Nat /\ call.arg \in Nat /\ call.left \in Nat /\ D.slots[j].size \in Nat
              /\ f.position \in Nat /\ f.position + call.left = Lesser(call.arg, D.slots[j].size)
              /\ bytes_per_cluster = Bpc(D) /\ Bpc(D) \in Nat \ {0}
    BY <1>0, <1>1, SeeksIn
  <1>e. PICK e : e = D.slots[j]
    OBVIOUS
  <1>4. OnDisk /\ call.fd \in Fds
    BY <1>1, AtFile DEF DiskInv
  <1>5. PICK g : g = SkippedTo(f, Entry(r, f.current_cluster))
    OBVIOUS
  <1>6. /\ g.current_cluster = Entry(r, f.current_cluster) /\ g.position = f.position + Bpc(D)
        /\ g.cluster_offset = f.cluster_offset /\ g.first_cluster = f.first_cluster /\ g.file_size = f.file_size
    BY <1>3, <1>5 DEF FileRecord, SkippedTo
  <1>7. \A x \in Fds : open_files'[x] = IF x = call.fd THEN g ELSE open_files[x]
    BY <1>0, <1>2, <1>4, <1>5 DEF SkippedTo, Owners
  <1>8. call.left >= Bpc(D) /\ ~AtEnd(f.current_cluster)
    BY <1>1, <1>3 DEF Skips
  <1>9. PICK k \in DOMAIN e.chain : InCluster(D, e, f, k) /\ f.cluster_offset = 0
    <2>1. e.chain # <<>>
      <3> SUFFICES ASSUME e.chain = <<>> PROVE FALSE
        OBVIOUS
      <3>1. e.size = 0
        BY <1>4, <1>e, FileChain
      <3> QED BY <1>3, <1>8, <1>e, <3>1 DEF Lesser
    <2>2. ~Stopped(D, e, f, Healthy)
      BY <1>3, <1>8, EntryAssumption DEF Stopped, AtEnd, FileRecord
    <2> QED BY <1>3, <1>e, <2>1, <2>2 DEF SeekingOf, Skipping
  <1>10. SameFs /\ faults' \in 0 .. Faults /\ (~r.ok => ~Healthy')
    BY <1>1, <1>2, FaultsAre
  <1>11. f.current_cluster = e.chain[k] /\ g.position = (k - 1) * Bpc(D) + Bpc(D) /\ g.cluster_offset = 0
    <2>1. (k - 1) * Bpc(D) \in Nat
      BY <1>4, <1>e, BytesAre
    <2>2. f.position = (k - 1) * Bpc(D) + 0 /\ f.current_cluster = e.chain[k]
      BY <1>9 DEF InCluster
    <2>3. f.position = (k - 1) * Bpc(D)
      BY <2>1, <2>2
    <2> QED BY <1>6, <1>9, <2>2, <2>3
  <1>12. /\ Stopped(D, e, g, Healthy') \/ \E l \in DOMAIN e.chain : InCluster(D, e, g, l)
         /\ g.current_cluster \in Nat
    <2>1. r \in Outcomes(EntrySector(e.chain[k])) /\ g.current_cluster = Entry(r, e.chain[k])
      BY <1>6, <1>11
    <2> QED BY <1>4, <1>e, <1>10, <1>11, <2>1, NextPlace
  <1>13. g \in FileRecord /\ IsOpen(e, g)
    <2>1. g \in FileRecord
      <3>1. g.position \in Nat
        BY <1>3, <1>6
      <3> QED BY <1>3, <1>5, <1>12, <3>1 DEF FileRecord, SkippedTo
    <2> QED BY <1>3, <1>6, <1>e, <2>1 DEF IsOpen
  <1>14. PICK b : b = call'
    OBVIOUS
  <1>15. /\ b.op = "seek" /\ b.fd = call.fd /\ b.arg = call.arg /\ b.from = call.from /\ b.left = call.left - Bpc(D)
         /\ b \in SeekCall
    <2>1. call \in SeekCall
      BY <1>3 DEF SeekingOf
    <2>2. call.left - bytes_per_cluster \in Nat
      BY <1>3, <1>8
    <2>3. b = [call EXCEPT !.left = @ - bytes_per_cluster]
      BY <1>2, <1>14
    <2> QED BY <1>3, <2>1, <2>2, <2>3 DEF SeekCall
  <1>16. SeekingOf(D, e, g, b, Healthy')
    <2>1. g.position + b.left = Lesser(b.arg, e.size)
      <3>1. g.position + b.left = f.position + call.left
        BY <1>3, <1>6, <1>15
      <3> QED BY <1>3, <1>15, <1>e, <3>1
    <2>2. b.from <= e.size
      BY <1>3, <1>15, <1>e DEF SeekingOf
    <2>3. Skipping(D, e, g, Healthy')
      BY <1>11, <1>12 DEF Skipping
    <2> QED BY <1>15, <2>1, <2>2, <2>3 DEF SeekingOf
  <1>17. DiskInv' /\ Quiet
    BY <1>0, <1>1, <1>6, <1>7, <1>10, <1>13, <1>14, <1>15, <1>16, <1>e, SeekGoesOn
  <1> QED BY <1>14, <1>15, <1>17

SoughtTo(f, left) == [f EXCEPT !.cluster_offset = left, !.position = @ + left]
SeekEnds(v, o) ==
    /\ SameDisk /\ v \in Vfds /\ InUse(v) /\ Ans' = Answered("seek", o, TRUE, v, <<>>)
    /\ Han' = [Han EXCEPT ![v].pos = Lesser(o, Han[v].file.size)]

LEMMA SeekEndsIs == ASSUME NEW v, NEW o, SeekEnds(v, o) PROVE Promise!Seek(v, o)
  <1>1. PICK k : k = Lesser(o, Han[v].file.size)
    OBVIOUS
  <1>2. /\ SameDisk /\ v \in Vfds /\ InUse(v) /\ Ans' = Answered("seek", o, TRUE, v, <<>>)
        /\ Han' = [Han EXCEPT ![v].pos = k]
    BY <1>1 DEF SeekEnds
  <1> QED BY <1>1, <1>2, SeekIs

LEMMA SeekEndStep ==
    ASSUME Owners, Calling, DiskInv, SeekEnd, UNCHANGED <<vfs_fds, vfd>>, NEW v, v = vfd, NEW o, o = call.arg
    PROVE  DiskInv' /\ call' = None /\ SeekEnds(v, o) /\ o \in Offsets
  <1>0. PICK f : f = open_files[call.fd]
    OBVIOUS
  <1>1. /\ call.op = "seek" /\ ~Skips(f) /\ UNCHANGED <<disk, fs, faults>>
        /\ call' = None /\ reply' = Reply("seek", o, TRUE, call.fd, <<>>)
        /\ open_files' = [open_files EXCEPT ![call.fd].cluster_offset = call.left, ![call.fd].position = @ + call.left]
    BY <1>0 DEF SeekEnd, Return
  <1>3. PICK j \in Listed(D) :
              /\ f \in FileRecord /\ IsOpen(D.slots[j], f) /\ SeekingOf(D, D.slots[j], f, call, Healthy)
              /\ FileAt(D, D.slots[j], f, call, call.fd, Healthy)
              /\ call.from \in Nat /\ call.arg \in Nat /\ call.left \in Nat /\ D.slots[j].size \in Nat
              /\ f.position \in Nat /\ f.position + call.left = Lesser(call.arg, D.slots[j].size)
              /\ bytes_per_cluster = Bpc(D) /\ Bpc(D) \in Nat \ {0}
    BY <1>0, <1>1, SeeksIn
  <1>e. PICK e, left : e = D.slots[j] /\ left = call.left
    OBVIOUS
  <1>4. OnDisk /\ call.fd \in Fds
    BY <1>1, AtFile DEF DiskInv
  <1>5. PICK g : g = SoughtTo(f, left)
    OBVIOUS
  <1>6. /\ g.current_cluster = f.current_cluster /\ g.position = f.position + left
        /\ g.cluster_offset = left /\ g.first_cluster = f.first_cluster /\ g.file_size = f.file_size
    BY <1>3, <1>5 DEF FileRecord, SoughtTo
  <1>7. \A x \in Fds : open_files'[x] = IF x = call.fd THEN g ELSE open_files[x]
    BY <1>0, <1>1, <1>4, <1>5, <1>e DEF SoughtTo, Owners
  <1>8. left >= Bpc(D) => AtEnd(f.current_cluster)
    BY <1>1, <1>3, <1>e DEF Skips
  <1>9. g.position = Lesser(o, e.size) /\ g.position \in Nat /\ g.position <= e.size
    BY <1>3, <1>6, <1>e DEF Lesser
  <1>10. SameFs /\ faults' \in 0 .. Faults /\ Healthy' = Healthy
    BY <1>1 DEF SameFs, Healthy, DiskInv, MountInv
  <1>11. Placed(D, e, g, Healthy')
    <2>1. Skipping(D, e, f, Healthy)
      BY <1>3, <1>e DEF SeekingOf
    <2>2. CASE e.chain = <<>>
      BY <2>2 DEF Placed
    <2>3. CASE Stopped(D, e, f, Healthy)
      <3>1. RoomOf(D, e) \in Nat
        BY <1>4, <1>e, BytesAre
      <3>2. Stopped(D, e, g, Healthy')
        BY <1>3, <1>6, <1>10, <1>e, <2>3, <3>1 DEF Stopped
      <3> QED BY <3>2 DEF Placed
    <2>4. CASE \E k \in DOMAIN e.chain : InCluster(D, e, f, k)
      <3>1. PICK k \in DOMAIN e.chain : InCluster(D, e, f, k)
        BY <2>4
      <3>2. e.chain[k] \in Nat /\ e.chain[k] < EOC_MIN /\ EOC_MIN \in Nat /\ (k - 1) * Bpc(D) \in Nat
        BY <1>4, <1>e, FileChain, BytesAre
      <3>3. f.current_cluster = e.chain[k] /\ f.position = (k - 1) * Bpc(D) + 0
        BY <2>1, <3>1 DEF InCluster, Skipping
      <3>4. left < Bpc(D)
        BY <1>3, <1>8, <1>e, <3>2, <3>3 DEF AtEnd
      <3>5. InCluster(D, e, g, k)
        <4>1. f.position = (k - 1) * Bpc(D)
          BY <3>2, <3>3
        <4> QED BY <1>6, <3>3, <4>1 DEF InCluster
      <3> QED BY <1>6, <3>4, <3>5 DEF Placed
    <2> QED BY <2>1, <2>2, <2>3, <2>4 DEF Skipping
  <1>12. g \in FileRecord /\ IsOpen(e, g)
    <2>1. g \in FileRecord
      BY <1>3, <1>5, <1>9, <1>6, <1>e DEF FileRecord, SoughtTo
    <2> QED BY <1>3, <1>6, <1>e, <2>1 DEF IsOpen
  <1>13. FileAt(D, e, g, None, call.fd, Healthy')
    BY <1>9, <1>11, <1>12, NoneIsIdle DEF FileAt
  <1>14. DiskInv'
    BY <1>1, <1>7, <1>10, <1>13, <1>e, OneFileWorked
  <1>15. /\ Han' = [Han EXCEPT ![v].pos = g.position] /\ Han[v] = OpenAt(FileOf(D, D.slots[j]), call.from)
         /\ v \in Vfds /\ InUse(v) /\ SameDisk
    BY <1>0, <1>1, <1>3, <1>6, <1>7, <1>10, CallMoves
  <1>16. Han[v].file.size = e.size
    BY <1>15, <1>e DEF OpenAt, FileOf
  <1>17. Ans' = Answered("seek", o, TRUE, v, <<>>)
    BY <1>1 DEF Ans, Reply, Answered
  <1>18. SeekEnds(v, o)
    BY <1>9, <1>15, <1>16, <1>17 DEF SeekEnds
  <1>19. o \in Offsets
    BY <1>3 DEF SeekingOf, SeekCall
  <1> QED BY <1>1, <1>14, <1>18, <1>19
-----------------------------------------------------------------------------
(* No file and no call is touched.                                         *)
LEMMA IdleStays ==
    ASSUME DiskInv, call = None, call' = None, UNCHANGED <<disk, fs, open_files, faults>>
    PROVE  DiskInv' /\ SameFs /\ Healthy' = Healthy
  <1>1. SameFs /\ Healthy' = Healthy /\ faults' \in 0 .. Faults
    BY DEF SameFs, Healthy, DiskInv, MountInv
  <1>2. EachFile'
    <2> DEFINE S == {}
    <2>1. \A x \in Fds \ S : open_files'[x] = open_files[x] /\ ~Busy(call, x) /\ ~Busy(call', x)
      BY NoneIsIdle
    <2> HIDE DEF S
    <2>2. \A x \in Fds \cap S : FALSE
      BY DEF S
    <2> QED BY <1>1, <2>1, <2>2, EachFileStays DEF DiskInv, FilesInv
  <1>3. CallOwned' /\ WalkInv'
    BY NoneIsIdle DEF CallOwned, WalkInv
  <1>4. MountInv'
    BY <1>1, SameDisks DEF MountInv, SameFs, DiskInv
  <1> QED BY <1>1, <1>2, <1>3, <1>4 DEF DiskInv, FilesInv

LEMMA SmallWraps ==
    ASSUME NEW m \in Nat, NEW a \in Nat, a < m
    PROVE  a % m = a
  OBVIOUS

LEMMA LimitIs ==
    ASSUME NEW f, NEW n \in Nat, NEW size \in Nat, f.position \in Nat, f.position <= size, f.file_size = size,
           f.position + n < 2 ^ W
    PROVE  Limit(f, n) = Lesser(f.position + n, size) - f.position /\ Limit(f, n) \in Nat
  <1>1. PICK m : m = 2 ^ W
    OBVIOUS
  <1>2. PICK pos : pos = f.position
    OBVIOUS
  <1>3. m \in Nat
    BY <1>1, CallsAssumption
  <1>4. (pos + n) % m = pos + n
    BY <1>1, <1>2, <1>3, SmallWraps
  <1>5. Limit(f, n) = IF (pos + n) % m > size THEN size - pos ELSE n
    BY <1>1, <1>2 DEF Limit
  <1>6. Limit(f, n) = IF pos + n > size THEN size - pos ELSE n
    BY <1>4, <1>5
  <1> QED BY <1>2, <1>6 DEF Lesser

(* A read begins, or has nothing to read.                                   *)
NewRead(fd, n, m, from) ==
    [op |-> "read", fd |-> fd, arg |-> n, n |-> m, got |-> <<>>, from |-> from, at |-> "data"]

LEMMA NewReadIs ==
    ASSUME NEW fd \in Fds, NEW n \in 0 .. 2 ^ W - 1, NEW m \in Nat, NEW from \in Nat, NEW b, b = NewRead(fd, n, m, from)
    PROVE  b \in ReadCall /\ b.op = "read" /\ b.fd = fd /\ b.arg = n /\ b.n = m /\ b.got = <<>> /\ b.from = from /\ b.at = "data"
  BY DEF NewRead, ReadCall

LEMMA StartReadStep ==
    ASSUME Owners, DiskInv, NEW v \in Vfds, InUse(v), NEW n \in 0 .. 2 ^ W - 1, Han[v].pos + n < 2 ^ W, vfs_read(v, n)
    PROVE  DiskInv' /\ \/ Begins /\ call'.op = "read" /\ call'.arg = n
                       \/ call' = None /\ ReadEnds(v, n)
  <1>f. PICK fd, f : fd = vfs_fds[v].fat_fd /\ f = open_files[fd]
    OBVIOUS
  <1>1. call = None /\ VValid(v) /\ StartRead(fd, n) /\ vfd' = v /\ UNCHANGED vfs_fds
    BY <1>f DEF vfs_read, VValid, InUse, StartRead
  <1>2. /\ fd \in Fds /\ Valid(fd) /\ OnDisk
    BY <1>1, <1>f, ClientFile
  <1>3. PICK j \in Listed(D) : /\ FileAt(D, D.slots[j], f, call, fd, Healthy)
                               /\ IsOpen(D.slots[j], f)
                               /\ f.position <= D.slots[j].size
                               /\ Placed(D, D.slots[j], f, Healthy)
                               /\ Han[v] = OpenAt(FileOf(D, D.slots[j]), f.position)
    BY <1>1, <1>f, ClientFile
  <1>e. PICK e, m, b : e = D.slots[j] /\ m = Limit(f, n) /\ b = NewRead(fd, n, m, f.position)
    OBVIOUS
  <1>4. f \in FileRecord /\ f.position \in Nat /\ e.size \in Nat /\ f.file_size = e.size /\ f.position <= e.size /\ n \in Nat
    BY <1>2, <1>3, <1>e, EntryTyped DEF IsOpen, FileRecord
  <1>5. m = Lesser(f.position + n, e.size) - f.position /\ m \in Nat
    <2>1. f.position + n < 2 ^ W
      BY <1>3 DEF OpenAt
    <2> QED BY <1>4, <1>e, <2>1, LimitIs
  <1>6. b \in ReadCall /\ b.op = "read" /\ b.fd = fd /\ b.arg = n /\ b.n = m /\ b.got = <<>> /\ b.from = f.position /\ b.at = "data"
    BY <1>2, <1>4, <1>5, <1>e, NewReadIs
  <1>7. UNCHANGED <<disk, fs, open_files, faults>>
    BY <1>1 DEF StartRead
  <1>8. SameFs /\ Healthy' = Healthy
    BY <1>7 DEF SameFs, Healthy
  <1>9. Got(D, e, f, b)
    <2>1. Len(b.got) = 0
      BY <1>6
    <2>2. f.position <= Lesser(b.from + b.arg, e.size)
      BY <1>4, <1>5, <1>6 DEF Lesser
    <2> QED BY <1>4, <1>6, <2>1, <2>2 DEF Got
  <1>10. CASE n = 0 \/ m = 0
    <2>1. call' = None /\ reply' = Reply("read", n, TRUE, fd, <<>>)
      BY <1>1, <1>2, <1>10, <1>f, <1>e DEF StartRead, Return
    <2>2. DiskInv'
      BY <1>1, <1>7, <2>1, IdleStays
    <2>3. f.position = Lesser(b.from + b.arg, e.size)
      BY <1>4, <1>5, <1>6, <1>10 DEF Lesser
    <2>4. ReadsWell(FileOf(D, e), b.from, b.arg, f.position, b.got, Healthy')
      <3>1. b.got \in Seq(FileByte) /\ b.from \in Nat /\ b.arg \in Nat
        BY <1>4, <1>6
      <3> QED BY <1>2, <1>9, <1>e, <2>3, <3>1, ReadAnswered
    <2>5. ReadsWell(Han[v].file, Han[v].pos, n, f.position, <<>>, Healthy')
      <3>1. Han[v].file = FileOf(D, e) /\ Han[v].pos = f.position
        BY <1>3, <1>e DEF OpenAt
      <3> QED BY <1>6, <2>4, <3>1
    <2>6. Han' = [Han EXCEPT ![v].pos = f.position]
      <3>1. \A x \in Fds : SameFile(x) /\ Stands(x)
        BY <1>1, <1>7, <2>1 DEF SameFile, Stands
      <3>2. f.position = PositionIn(call', fd, open_files'[fd])
        BY <1>7, <1>f, <2>1, NoneIsIdle DEF PositionIn
      <3> QED BY <1>1, <1>2, <1>8, <1>f, <3>1, <3>2, HansMove
    <2>7. Ans' = Answered("read", n, TRUE, v, <<>>)
      BY <1>1, <2>1 DEF Ans, Reply, Answered
    <2>8. ReadEnds(v, n)
      BY <1>8, <2>5, <2>6, <2>7, SameDisks DEF ReadEnds
    <2> QED BY <2>1, <2>2, <2>8
  <1>11. CASE ~(n = 0 \/ m = 0)
    <2>1. call' = b /\ reply' = NoReply
      BY <1>1, <1>2, <1>11, <1>f, <1>e DEF StartRead, Begin, NewRead
    <2>2. ReadingOf(D, e, f, b, Healthy')
      <3>1. Len(b.got) < b.n
        <4>1. Len(b.got) = 0
          BY <1>6
        <4> QED BY <1>5, <1>6, <1>11, <4>1
      <3>2. b.n = Lesser(b.from + b.arg, e.size) - b.from
        BY <1>5, <1>6
      <3>3. Placed(D, e, f, Healthy')
        BY <1>3, <1>8, <1>e
      <3> QED BY <1>6, <1>9, <3>1, <3>2, <3>3 DEF ReadingOf
    <2>3. FileAt(D, e, f, b, fd, Healthy')
      BY <1>3, <1>6, <1>e, <2>2 DEF FileAt, Busy
    <2>4. \A x \in Fds : open_files'[x] = IF x = fd THEN f ELSE open_files[x]
      BY <1>7, <1>f
    <2>5. DiskInv' /\ Begins
      BY <1>1, <1>6, <1>7, <1>e, <1>f, <2>1, <2>3, <2>4, FileBegins
    <2> QED BY <1>6, <2>1, <2>5
  <1> QED BY <1>10, <1>11
-----------------------------------------------------------------------------
(* Walks of the root directory: no file is touched until one is found.      *)
LEMMA NoFileTouched ==
    ASSUME Owners, DiskInv, SameFs, faults' \in 0 .. Faults, UNCHANGED <<open_files, vfs_fds>>,
           call.op \notin {"read", "seek"}, call'.op \notin {"read", "seek"}, WalkInv', fs = NoFs => call' = None
    PROVE  DiskInv' /\ Han' = Han
  <1>1. \A x : ~Busy(call, x) /\ ~Busy(call', x)
    BY DEF Busy
  <1>2. EachFile'
    <2> DEFINE S == {}
    <2>1. \A x \in Fds \ S : open_files'[x] = open_files[x] /\ ~Busy(call, x) /\ ~Busy(call', x)
      BY <1>1
    <2> HIDE DEF S
    <2>2. \A x \in Fds \cap S : FALSE
      BY DEF S
    <2> QED BY <2>1, <2>2, EachFileStays DEF DiskInv, FilesInv
  <1>3. CallOwned'
    BY DEF CallOwned
  <1>4. MountInv'
    BY SameDisks DEF MountInv, SameFs, DiskInv
  <1>5. \A x \in Fds : SameFile(x) /\ Stands(x)
    BY <1>1 DEF SameFile, Stands, PositionIn
  <1>6. Han' = Han
    BY <1>5, HansStay
  <1> QED BY <1>2, <1>3, <1>4, <1>6 DEF DiskInv, FilesInv

OpenFails(p) ==
    /\ SameDisk
    /\ p \notin DOMAIN Cat \/ (\A v \in Vfds : InUse(v)) \/ ~Healthy'
    /\ Ans' = Answered("open", p, FALSE, -1, <<>>) /\ Han' = Han
Opens(p, v) ==
    /\ SameDisk /\ v \in Vfds /\ ~InUse(v) /\ p \in DOMAIN Cat
    /\ Ans' = Answered("open", p, TRUE, v, <<>>) /\ Han' = [Han EXCEPT ![v] = OpenAt(Cat[p], 0)]

LEMMA OpenEndsIs ==
    ASSUME NEW p
    PROVE  (OpenFails(p) => Promise!Open(p)) /\ \A v : Opens(p, v) => Promise!Open(p)
  <1>1. OpenFails(p) => Promise!Open(p)
    BY OpenFailsIs DEF OpenFails
  <1>2. ASSUME NEW v, Opens(p, v) PROVE Promise!Open(p)
    BY <1>2, OpensIs DEF Opens
  <1> QED BY <1>1, <1>2

(* A driver descriptor is free for every free descriptor of the upper layer. *)
LEMMA EnoughFree == ASSUME Owners, VFree # {} PROVE Free # {}
  <1> SUFFICES ASSUME Free = {} PROVE FALSE
    OBVIOUS
  <1>1. PICK u \in Vfds : ~InUse(u)
    BY DEF VFree, InUse
  <1>2. \A x \in Fds : \E v \in Vfds \ {u} : InUse(v) /\ vfs_fds[v].fat_fd = x
    BY <1>1 DEF Free, Owners
  <1>3. VFS_MAX_FD \in Nat /\ FAT_MAX_OPEN \in Nat /\ VFS_MAX_FD <= FAT_MAX_OPEN /\ u \in 0 .. VFS_MAX_FD - 1
    BY DescriptorsAssumption, FilesAssumption, TablesAssumption DEF Vfds
  <1> DEFINE V == Vfds \ {u}
             g == [x \in Fds |-> CHOOSE v \in V : vfs_fds[v].fat_fd = x]
  <1>4. g \in [Fds -> V] /\ \A x \in Fds : vfs_fds[g[x]].fat_fd = x
    BY <1>2
  <1>5. IsInjective(g)
    BY <1>4 DEF IsInjective
  <1>6. IsFiniteSet(Vfds) /\ Cardinality(Vfds) = VFS_MAX_FD /\ IsFiniteSet(Fds) /\ Cardinality(Fds) = FAT_MAX_OPEN
    BY <1>3, FS_Interval DEF Vfds, Fds
  <1>7. IsFiniteSet(V) /\ Cardinality(V) = VFS_MAX_FD - 1
    BY <1>1, <1>6, FS_RemoveElement
  <1>8. Cardinality(Fds) <= Cardinality(V)
    <2>1. g \in Injection(Fds, V)
      BY <1>4, <1>5 DEF Injection, IsInjective
    <2> HIDE DEF g, V
    <2> QED BY <1>6, <1>7, <2>1, FS_Injection
  <1> QED BY <1>3, <1>6, <1>7, <1>8
-----------------------------------------------------------------------------
LEMMA CatIs ==
    /\ ~fs.mounted => \A p : p \notin DOMAIN Cat
    /\ OnDisk => Cat = Vol /\ fs # NoFs
  BY FsIs DEF Cat, Empty, NoFs

LEMMA ReplyNone ==
    ASSUME NEW p, reply' = Reply("open", p, FALSE, -1, <<>>)
    PROVE  Ans' = Answered("open", p, FALSE, -1, <<>>)
  BY DEF Reply, Ans, Answered

LEMMA MountedIs == ASSUME DiskInv, fs.mounted PROVE OnDisk
  BY DEF DiskInv, MountInv, NoFs

(* A walk begins at the first entry of the directory.                       *)
LEMMA WalkBegins ==
    ASSUME OnDisk, NEW b, b = Walk(b.op, b.path, b.fd), b.op \in {"open", "list"}, b.op = "open" => b.path \in Paths
    PROVE  Walking(D, b)
  <1>1. b.at = "dir" /\ b.s = 0 /\ b.cluster = fs.root /\ b.listed = <<>>
    BY DEF Walk
  <1>2. fs.root = D.root[1] /\ 1 \in DOMAIN D.root /\ D.spc \in Nat \ {0}
    BY ChainPlaces, FsIs
  <1>3. Passed(D, b, 1) = 0
    <2>1. PerSector(D) \in Nat
      <3>1. 0 = 0 * PerSector(D)
        BY DirEntries DEF PerSector
      <3> QED BY <3>1, DirEntries
    <2>2. ((1 - 1) * D.spc + b.s + (IF b.at = "fat" THEN 1 ELSE 0)) = 0
      BY <1>1, <1>2
    <2> QED BY <2>1, <2>2 DEF Passed
  <1>4. 0 <= Len(D.slots)
    BY ChainPlaces
  <1>5. \A path : Unnamed(D, Passed(D, b, 1), path)
    BY <1>3 DEF Unnamed
  <1> QED BY <1>1, <1>2, <1>3, <1>4, <1>5 DEF Walking

LEMMA StartOpenStep ==
    ASSUME Owners, DiskInv, NEW p \in Paths, vfs_open(p)
    PROVE  DiskInv' /\ \/ Begins /\ call'.op = "open" /\ call'.path = p
                       \/ call' = None /\ OpenFails(p)
  <1>1. call = None /\ UNCHANGED <<disk, fs, open_files, faults, vfs_fds>>
    BY DEF vfs_open, Refuse, StartOpen
  <1>2. SameFs /\ Healthy' = Healthy /\ faults' \in 0 .. Faults /\ SameDisk
    BY <1>1, SameDisks DEF SameFs, Healthy, DiskInv, MountInv
  <1>3. CASE VFree = {} \/ ~fs.mounted
    <2>1. call' = None /\ reply' = Reply("open", p, FALSE, -1, <<>>)
      BY <1>3 DEF vfs_open, Refuse, StartOpen, Return
    <2>2. p \notin DOMAIN Cat \/ \A v \in Vfds : InUse(v)
      BY <1>3, CatIs DEF VFree, InUse
    <2>3. DiskInv' /\ Han' = Han
      BY <1>1, <1>2, <2>1, NoneIsIdle, NoFileTouched DEF WalkInv
    <2> QED BY <1>2, <2>1, <2>2, <2>3, ReplyNone DEF OpenFails
  <1>4. CASE ~(VFree = {} \/ ~fs.mounted)
    <2>1. call' = Walk("open", p, Min(Free)) /\ reply' = NoReply
      BY <1>4, EnoughFree DEF vfs_open, StartOpen, Begin
    <2>2. PICK b : b = call'
      OBVIOUS
    <2>3. b.op = "open" /\ b.path = p /\ b.fd = Min(Free) /\ b = Walk(b.op, b.path, b.fd)
      BY <2>1, <2>2 DEF Walk
    <2>4. OnDisk /\ fs # NoFs
      BY <1>4, MountedIs, CatIs
    <2>5. Walking(D, b)
      BY <2>3, <2>4, WalkBegins
    <2>6. WalkInv'
      BY <1>2, <2>2, <2>4, <2>5, SameDisks DEF WalkInv
    <2>7. DiskInv' /\ Han' = Han
      BY <1>1, <1>2, <2>2, <2>3, <2>4, <2>6, NoneIsIdle, NoFileTouched
    <2> QED BY <1>2, <2>1, <2>2, <2>3, <2>7, NoReplyIs DEF Begins
  <1> QED BY <1>3, <1>4

LEMMA StartListStep ==
    ASSUME Owners, DiskInv, List
    PROVE  DiskInv' /\ Begins
  <1>1. call = None /\ UNCHANGED <<disk, fs, open_files, faults, vfs_fds>>
    BY DEF List, StartList
  <1>2. SameFs /\ Healthy' = Healthy /\ faults' \in 0 .. Faults /\ SameDisk
    BY <1>1, SameDisks DEF SameFs, Healthy, DiskInv, MountInv
  <1>3. CASE ~fs.mounted
    <2>1. call' = None /\ reply' = Reply("list", 0, FALSE, -1, <<>>)
      BY <1>3 DEF List, StartList, Return
    <2>3. DiskInv' /\ Han' = Han
      BY <1>1, <1>2, <2>1, NoneIsIdle, NoFileTouched DEF WalkInv
    <2>4. Ans' = [op |-> "none"]
      BY <2>1 DEF Ans, Reply
    <2> QED BY <1>2, <2>3, <2>4 DEF Begins
  <1>4. CASE fs.mounted
    <2>1. call' = Walk("list", "", -1) /\ reply' = NoReply
      BY <1>4 DEF List, StartList, Begin
    <2>2. PICK b : b = call'
      OBVIOUS
    <2>3. b.op = "list" /\ b = Walk(b.op, b.path, b.fd)
      BY <2>1, <2>2 DEF Walk
    <2>4. OnDisk /\ fs # NoFs
      BY <1>4, MountedIs, CatIs
    <2>5. Walking(D, b)
      BY <2>3, <2>4, WalkBegins
    <2>6. WalkInv'
      BY <1>2, <2>2, <2>4, <2>5, SameDisks DEF WalkInv
    <2>7. DiskInv' /\ Han' = Han
      BY <1>1, <1>2, <2>2, <2>3, <2>4, <2>6, NoneIsIdle, NoFileTouched
    <2> QED BY <1>2, <2>1, <2>7, NoReplyIs DEF Begins
  <1> QED BY <1>3, <1>4
-----------------------------------------------------------------------------
(* A file that is opened is read from its first byte.                       *)
NewFile(e) ==
    [in_use |-> TRUE, first_cluster |-> FirstOf(e), file_size |-> e.size,
     position |-> 0, current_cluster |-> FirstOf(e), cluster_offset |-> 0]

LEMMA NewFileIs ==
    ASSUME OnDisk, NEW i \in Listed(D), NEW e, e = D.slots[i], NEW g, g = NewFile(e), NEW h, NEW c, NEW fd, ~Busy(c, fd)
    PROVE  FileAt(D, e, g, c, fd, h) /\ IsOpen(e, g) /\ g.position = 0 /\ g.in_use
  <1>1. e.size \in Nat /\ FirstOf(e) \in Nat
    BY EntryTyped
  <1>2. g \in FileRecord /\ IsOpen(e, g) /\ g.position = 0 /\ g.in_use /\ g.cluster_offset = 0 /\ g.current_cluster = FirstOf(e)
    BY <1>1 DEF NewFile, FileRecord, IsOpen
  <1>3. Placed(D, e, g, h)
    <2>1. CASE e.chain = <<>>
      BY <2>1 DEF Placed
    <2>2. CASE e.chain # <<>>
      <3>1. 1 \in DOMAIN e.chain /\ FirstOf(e) = e.chain[1]
        BY <2>2, FileChain
      <3>2. Bpc(D) \in Nat \ {0}
        BY BytesAre
      <3>3. (1 - 1) * Bpc(D) + 0 = 0
        BY <3>2
      <3>4. InCluster(D, e, g, 1)
        BY <1>2, <3>1, <3>3 DEF InCluster
      <3> QED BY <1>2, <3>1, <3>2, <3>4 DEF Placed
    <2> QED BY <2>1, <2>2
  <1> QED BY <1>1, <1>2, <1>3 DEF FileAt

LEMMA FileFound ==
    ASSUME Owners, Calling, DiskInv, OnDisk, call.op = "open", NEW p, p = call.path, NEW v, v = vfd,
           NEW i \in Listed(D), NEW e, e = D.slots[i], e.name = p,
           open_files' = Opened(call.fd, e), vfs_fds' = [vfs_fds EXCEPT ![v] = [in_use |-> TRUE, fat_fd |-> call.fd]],
           SameFs, faults' \in 0 .. Faults, call' = None, reply' = Reply("open", p, TRUE, call.fd, <<>>), vfd' = vfd
    PROVE  DiskInv' /\ Opens(p, v)
  <1>f. PICK fd, g : fd = call.fd /\ g = NewFile(e)
    OBVIOUS
  <1>1. fd \in Fds /\ ~open_files[fd].in_use /\ v \in Vfds /\ ~InUse(v)
    BY <1>f DEF Calling
  <1>2. \A x : ~Busy(call, x) /\ ~Busy(call', x)
    BY NoneIsIdle DEF Busy
  <1>3. \A x \in Fds : open_files'[x] = IF x = fd THEN g ELSE open_files[x]
    BY <1>f DEF Opened, NewFile, Owners
  <1>4. FileAt(D, e, g, call', fd, Healthy') /\ IsOpen(e, g) /\ g.position = 0 /\ g.in_use
    BY <1>2, <1>f, NewFileIs
  <1>5. EachFile'
    <2> DEFINE S == {fd}
    <2>1. \A x \in Fds \ S : open_files'[x] = open_files[x] /\ ~Busy(call, x) /\ ~Busy(call', x)
      BY <1>2, <1>3
    <2>2. \A x \in Fds \cap S : FileAt(D, D.slots[i], open_files'[x], call', x, Healthy')
      <3>1. open_files'[fd] = g
        BY <1>1, <1>3
      <3> QED BY <1>4, <3>1
    <2> HIDE DEF S
    <2> QED BY <2>1, <2>2, EachFileStays DEF DiskInv, FilesInv
  <1>6. CallOwned' /\ WalkInv'
    BY NoneIsIdle DEF CallOwned, WalkInv
  <1>7. MountInv'
    BY SameDisks DEF MountInv, SameFs, DiskInv
  <1>8. /\ vfs_fds'[v].in_use /\ vfs_fds'[v].fat_fd = fd
        /\ \A u \in Vfds \ {v} : vfs_fds'[u] = vfs_fds[u]
    BY <1>1, <1>f DEF Owners
  <1>9. \A u \in Vfds \ {v} : HandleOf(u)' = HandleOf(u)
    <2> SUFFICES ASSUME NEW u \in Vfds \ {v} PROVE HandleOf(u)' = HandleOf(u)
      OBVIOUS
    <2>1. PICK x : x = vfs_fds[u].fat_fd
      OBVIOUS
    <2>2. InUse(u) => x \in Fds /\ x # fd
      BY <1>1, <2>1 DEF Owners, Valid
    <2>3. InUse(u) => SameFile(x) /\ Stands(x)
      BY <1>2, <1>3, <2>2 DEF SameFile, Stands, PositionIn
    <2> QED BY <1>8, <2>1, <2>3, HandleStays
  <1>10. D' = D /\ Vol' = Vol /\ SameDisk /\ Cat = Vol
    BY SameDisks, CatIs DEF SameDisk
  <1>11. p \in DOMAIN Cat /\ Cat[p] = FileOf(D, e)
    BY <1>10, CatalogueIs DEF Vol
  <1>12. HandleOf(v)' = OpenAt(Cat[p], 0)
    <2>1. FileIn(D, Vol, g) = FileOf(D, e)
      BY <1>4, FileInIs
    <2>2. HandleOf(v)' = HandleIn(D, Vol, open_files', call', vfs_fds'[v])
      BY <1>10, HandleIs
    <2>3. HandleOf(v)' = OpenAt(FileIn(D, Vol, open_files'[fd]), PositionIn(call', fd, open_files'[fd]))
      BY <1>8, <2>2 DEF HandleIn
    <2>4. open_files'[fd] = g
      BY <1>1, <1>3
    <2>5. PositionIn(call', fd, g) = 0
      BY <1>2, <1>4 DEF PositionIn
    <2> QED BY <1>11, <2>1, <2>3, <2>4, <2>5
  <1>13. Han' = [Han EXCEPT ![v] = OpenAt(Cat[p], 0)]
    <2>1. PICK k : k = OpenAt(Cat[p], 0)
      OBVIOUS
    <2>2. \A u \in Vfds : HandleOf(u)' = IF u = v THEN k ELSE HandleOf(u)
      BY <1>9, <1>12, <2>1
    <2>3. Han' = [u \in Vfds |-> HandleOf(u)']
      BY DEF Han, Vfds
    <2>4. Han = [u \in Vfds |-> HandleOf(u)]
      BY DEF Han
    <2>5. Han' = [Han EXCEPT ![v] = k]
      BY <1>1, <2>2, <2>3, <2>4
    <2> QED BY <2>1, <2>5
  <1>14. Ans' = Answered("open", p, TRUE, v, <<>>)
    BY DEF Reply, Ans, Answered
  <1> QED BY <1>1, <1>5, <1>6, <1>7, <1>10, <1>11, <1>13, <1>14 DEF DiskInv, FilesInv, Opens
-----------------------------------------------------------------------------
WalkStepped(v, p) ==
    /\ DiskInv'
    /\ \/ Quiet /\ call'.op = call.op /\ (call.op = "open" => call'.path = p)
       \/ call' = None /\ call.op = "list" /\ Quiet
       \/ call' = None /\ call.op = "open" /\ (Opens(p, v) \/ OpenFails(p))
Linking ==
    vfs_fds' = IF reply'.op = "open" /\ (reply'.op = "open" => reply'.ok)
                 THEN [vfs_fds EXCEPT ![vfd] = [in_use |-> TRUE, fat_fd |-> reply'.fd]]
                 ELSE vfs_fds

LEMMA WalkGoesOn ==
    ASSUME Owners, Calling, DiskInv, call.op \in {"open", "list"}, SameFs, faults' \in 0 .. Faults,
           UNCHANGED <<open_files, reply>>, Linking, vfd' = vfd,
           NEW b, b = call', b.op = call.op, Walking(D, b)
    PROVE  DiskInv' /\ Quiet
  <1>1. reply = NoReply /\ OnDisk /\ fs # NoFs
    BY CatIs, NoneIsIdle DEF Calling, DiskInv, WalkInv
  <1>2. vfs_fds' = vfs_fds
    BY <1>1 DEF Linking, NoReply
  <1>3. WalkInv'
    BY <1>1, SameDisks DEF WalkInv
  <1>4. DiskInv' /\ Han' = Han
    BY <1>1, <1>2, <1>3, NoFileTouched
  <1>5. Ans' = Ans
    BY DEF Ans
  <1> QED BY <1>4, <1>5, SameDisks DEF Quiet

(* Nothing was found.                                                      *)
LEMMA WalkEnds ==
    ASSUME Owners, Calling, DiskInv, call.op \in {"open", "list"}, SameFs, faults' \in 0 .. Faults,
           UNCHANGED <<open_files>>, Linking, vfd' = vfd, NEW p, call.op = "open" => p = call.path, NEW v,
           NEW ok, NEW arg, NEW bytes, call' = None, reply' = Reply(call.op, arg, ok, -1, bytes),
           call.op = "open" => /\ ok = FALSE /\ arg = p /\ bytes = <<>>
                               /\ ~Healthy' \/ \A i \in Listed(D) : D.slots[i].name # p
    PROVE  WalkStepped(v, p)
  <1>1. reply = NoReply /\ OnDisk /\ fs # NoFs
    BY CatIs, NoneIsIdle DEF Calling, DiskInv, WalkInv
  <1>2. vfs_fds' = vfs_fds
    BY DEF Linking, Reply
  <1>3. WalkInv'
    BY NoneIsIdle DEF WalkInv
  <1>4. DiskInv' /\ Han' = Han
    BY <1>1, <1>2, <1>3, NoneIsIdle, NoFileTouched
  <1>5. CASE call.op = "list"
    <2>1. Ans' = Ans
      BY <1>1, <1>5 DEF Ans, NoReply, Reply
    <2> QED BY <1>4, <1>5, <2>1, SameDisks DEF Quiet, WalkStepped
  <1>6. CASE call.op = "open"
    <2>1. Ans' = Answered("open", p, FALSE, -1, <<>>)
      BY <1>6, ReplyNone
    <2>2. ~Healthy' \/ p \notin DOMAIN Cat
      BY <1>1, <1>6, CatIs, CatalogueIs DEF Vol
    <2> QED BY <1>4, <1>6, <2>1, <2>2, SameDisks DEF OpenFails, WalkStepped
  <1> QED BY <1>5, <1>6

(* Where a walk is.                                                        *)
LEMMA WalksIn ==
    ASSUME DiskInv, call.op \in {"open", "list"}
    PROVE  /\ OnDisk /\ D.spc \in Nat \ {0} /\ fs.spc = D.spc /\ PerSector(D) \in Nat \ {0}
           /\ call.s \in 0 .. D.spc - 1 /\ (call.at = "fat" => call.s = D.spc - 1)
           /\ call.op = "open" => call.listed = <<>>
           /\ \E i \in DOMAIN D.root :
                /\ i \in Nat \ {0} /\ i <= Len(D.root) /\ Len(D.root) \in Nat
                /\ call.cluster = D.root[i]
                /\ call.op = "open" =>
                     call.path \in Paths /\ Passed(D, call, i) <= Len(D.slots) /\ Unnamed(D, Passed(D, call, i), call.path)
  <1>1. OnDisk /\ Walking(D, call)
    BY DEF DiskInv, WalkInv
  <1>2. D.spc \in Nat \ {0} /\ fs.spc = D.spc /\ DOMAIN D.root = 1 .. Len(D.root) /\ Len(D.root) \in Nat
    BY <1>1, FsIs, ChainPlaces
  <1>3. PerSector(D) \in Nat \ {0}
    <2>1. PICK N : N = 0 * PerSector(D)
      OBVIOUS
    <2> QED BY <1>1, <2>1, DirEntries
  <1> QED BY <1>1, <1>2, <1>3 DEF Walking

NextOf(c, spc) == IF c.s + 1 < spc THEN [c EXCEPT !.s = @ + 1] ELSE [c EXCEPT !.at = "fat"]

LEMMA NextOfIs ==
    ASSUME NEW c, DOMAIN c = {"op", "path", "fd", "cluster", "s", "at", "listed"}, NEW w \in Nat \ {0}, c.s \in 0 .. w - 1,
           c.at = "dir", NEW b, b = NextOf(c, w)
    PROVE  /\ b.op = c.op /\ b.path = c.path /\ b.cluster = c.cluster /\ b.fd = c.fd /\ b.listed = c.listed
           /\ b.at \in {"dir", "fat"} /\ b.s \in 0 .. w - 1 /\ (b.at = "fat" => b.s = w - 1)
           /\ b.s + (IF b.at = "fat" THEN 1 ELSE 0) = c.s + 1
           /\ DOMAIN b = DOMAIN c
  <1>1. CASE c.s + 1 < w
    <2>1. b = [c EXCEPT !.s = @ + 1]
      BY <1>1 DEF NextOf
    <2>2. b.op = c.op /\ b.path = c.path /\ b.cluster = c.cluster /\ b.fd = c.fd /\ b.listed = c.listed /\ b.at = "dir" /\ b.s = c.s + 1 /\ DOMAIN b = DOMAIN c
      BY <2>1
    <2> QED BY <1>1, <2>2
  <1>2. CASE ~(c.s + 1 < w)
    <2>1. b = [c EXCEPT !.at = "fat"]
      BY <1>2 DEF NextOf
    <2>2. b.op = c.op /\ b.path = c.path /\ b.cluster = c.cluster /\ b.fd = c.fd /\ b.listed = c.listed /\ b.at = "fat" /\ b.s = c.s /\ DOMAIN b = DOMAIN c
      BY <2>1
    <2> QED BY <1>2, <2>2
  <1> QED BY <1>1, <1>2

(* What a walk passes with one sector.                                      *)
SectorsOf(b) == b.s + (IF b.at = "fat" THEN 1 ELSE 0)
PassesOne(d, c, b, i, n) ==
    n \in Nat /\ Passed(d, c, i) = n * PerSector(d) /\ Passed(d, b, i) = n * PerSector(d) + PerSector(d)

LEMMA PassedOne ==
    ASSUME OnDisk, D.spc \in Nat \ {0}, PerSector(D) \in Nat \ {0}, NEW i \in Nat \ {0}, NEW c, c.s \in 0 .. D.spc - 1, c.at = "dir",
           NEW b, b.s \in 0 .. D.spc - 1, SectorsOf(b) = c.s + 1,
           NEW n, n = (i - 1) * D.spc + c.s
    PROVE  PassesOne(D, c, b, i, n)
  <1>1. PICK y, w, m : y = (i - 1) * D.spc /\ w = D.spc /\ m = PerSector(D)
    OBVIOUS
  <1>2. y \in Nat
    BY <1>1
  <1>3. n = y + c.s /\ n \in Nat
    BY <1>1, <1>2
  <1>4. Passed(D, c, i) = (y + c.s + 0) * m
    BY <1>1 DEF Passed
  <1>5. PICK x : x = IF b.at = "fat" THEN 1 ELSE 0
    OBVIOUS
  <1>6. Passed(D, b, i) = (y + b.s + x) * m /\ x \in Nat
    BY <1>1, <1>5 DEF Passed
  <1>7. y + b.s + x = n + 1 /\ y + c.s + 0 = n
    BY <1>2, <1>3, <1>5, <1>6 DEF SectorsOf
  <1>8. (n + 1) * m = n * m + m
    <2>1. m \in Nat
      BY <1>1
    <2> QED BY <1>3, <2>1
  <1> QED BY <1>1, <1>3, <1>4, <1>6, <1>7, <1>8 DEF PassesOne
-----------------------------------------------------------------------------
(* A sector of the directory was read.                                      *)
AfterOpenSector(sector) ==
    IF Hits(sector, call.path) # {}
      THEN /\ open_files' = Opened(call.fd, sector[Min(Hits(sector, call.path))])
           /\ Return(Reply("open", call.path, TRUE, call.fd, <<>>))
    ELSE IF EndIn(sector) # {}
      THEN /\ Return(Reply("open", call.path, FALSE, -1, <<>>))
           /\ UNCHANGED open_files
    ELSE /\ call' = NextSector
         /\ UNCHANGED <<reply, open_files>>
AfterListSector(sector) ==
    /\ \/ \E seen : Return(Reply("list", 0, TRUE, -1, seen))
       \/ \E seen : call' = [NextSector EXCEPT !.listed = seen] /\ UNCHANGED reply
    /\ UNCHANGED open_files

LEMMA SectorWalked ==
    ASSUME WalkSector
    PROVE  /\ call.op \in {"open", "list"} /\ call.at = "dir" /\ disk' = disk /\ fs' = fs
           /\ \E r \in Outcomes(cluster_to_sector(call.cluster) + call.s) :
                /\ Tried(r)
                /\ \/ ~r.ok /\ Return(Reply(call.op, call.path, FALSE, -1, <<>>)) /\ UNCHANGED open_files
                   \/ r.ok /\ call.op = "open" /\ AfterOpenSector(r.sector)
                   \/ r.ok /\ call.op = "list" /\ AfterListSector(r.sector)
  <1>1. call.op \in {"open", "list"} /\ call.at = "dir"
    BY DEF WalkSector
  <1>2. PICK r \in Outcomes(cluster_to_sector(call.cluster) + call.s) :
        /\ Tried(r) /\ UNCHANGED <<disk, fs>>
        /\ \/ /\ ~r.ok
              /\ Return(Reply(call.op, call.path, FALSE, -1, <<>>))
              /\ UNCHANGED open_files
           \/ /\ r.ok /\ call.op = "open"
              /\ LET hits == {k \in DOMAIN r.sector : Names(r.sector[k], call.path) /\ Before(r.sector, k)}
                 IN  IF hits # {}
                       THEN /\ open_files' = Opened(call.fd, r.sector[Min(hits)])
                            /\ Return(Reply("open", call.path, TRUE, call.fd, <<>>))
                     ELSE IF EndIn(r.sector) # {}
                       THEN /\ Return(Reply("open", call.path, FALSE, -1, <<>>))
                            /\ UNCHANGED open_files
                     ELSE /\ call' = NextSector
                          /\ UNCHANGED <<reply, open_files>>
           \/ /\ r.ok /\ call.op = "list"
              /\ LET seen == call.listed \o ShownIn(r.sector)
                 IN  IF EndIn(r.sector) # {} THEN Return(Reply("list", 0, TRUE, -1, seen))
                     ELSE /\ call' = [NextSector EXCEPT !.listed = seen]
                          /\ UNCHANGED reply
              /\ UNCHANGED open_files
    BY Zenon DEF WalkSector
  <1>3. \/ ~r.ok /\ Return(Reply(call.op, call.path, FALSE, -1, <<>>)) /\ UNCHANGED open_files
        \/ r.ok /\ call.op = "open" /\ AfterOpenSector(r.sector)
        \/ r.ok /\ call.op = "list" /\ AfterListSector(r.sector)
    BY <1>2, Zenon DEF AfterOpenSector, AfterListSector, Hits
  <1> QED BY <1>1, <1>2, <1>3

LEMMA WalkSectorStep ==
    ASSUME Owners, Calling, DiskInv, WalkSector, Linking, vfd' = vfd, NEW v, v = vfd, NEW p, call.op = "open" => p = call.path
    PROVE  WalkStepped(v, p)
  <1>1. call.op \in {"open", "list"} /\ call.at = "dir" /\ disk' = disk /\ fs' = fs
    BY SectorWalked
  <1>2. PICK r \in Outcomes(cluster_to_sector(call.cluster) + call.s) :
                /\ Tried(r)
                /\ \/ ~r.ok /\ Return(Reply(call.op, call.path, FALSE, -1, <<>>)) /\ UNCHANGED open_files
                   \/ r.ok /\ call.op = "open" /\ AfterOpenSector(r.sector)
                   \/ r.ok /\ call.op = "list" /\ AfterListSector(r.sector)
    BY SectorWalked
  <1>3. /\ OnDisk /\ D.spc \in Nat \ {0} /\ fs.spc = D.spc /\ PerSector(D) \in Nat \ {0}
        /\ call.s \in 0 .. D.spc - 1 /\ (call.op = "open" => call.listed = <<>>)
    BY <1>1, WalksIn
  <1>4. PICK i \in DOMAIN D.root :
                /\ i \in Nat \ {0} /\ i <= Len(D.root) /\ Len(D.root) \in Nat
                /\ call.cluster = D.root[i]
                /\ call.op = "open" =>
                     call.path \in Paths /\ Passed(D, call, i) <= Len(D.slots) /\ Unnamed(D, Passed(D, call, i), call.path)
    BY <1>1, WalksIn
  <1>5. SameFs /\ faults' \in 0 .. Faults /\ (~r.ok => ~Healthy')
    BY <1>1, <1>2, FaultsAre
  <1>6. DOMAIN call = {"op", "path", "fd", "cluster", "s", "at", "listed"}
    BY <1>1 DEF Calling
  <1>7. PICK n : n = (i - 1) * D.spc + call.s
    OBVIOUS
  <1>8. PICK N, b, sector : N = n * PerSector(D) /\ b = NextOf(call, fs.spc) /\ sector = r.sector
    OBVIOUS
  <1>9. /\ b.op = call.op /\ b.path = call.path /\ b.cluster = call.cluster /\ b.listed = call.listed
        /\ b.at \in {"dir", "fat"} /\ b.s \in 0 .. D.spc - 1 /\ (b.at = "fat" => b.s = D.spc - 1)
        /\ b.s + (IF b.at = "fat" THEN 1 ELSE 0) = call.s + 1 /\ DOMAIN b = DOMAIN call
    BY <1>1, <1>3, <1>6, <1>8, NextOfIs
  <1>10. n \in Nat /\ Passed(D, call, i) = N /\ Passed(D, b, i) = N + PerSector(D)
    <2>1. PICK c : c = call
      OBVIOUS
    <2>2. c.s \in 0 .. D.spc - 1 /\ c.at = "dir" /\ n = (i - 1) * D.spc + c.s /\ SectorsOf(b) = c.s + 1
      BY <1>1, <1>3, <1>7, <1>9, <2>1 DEF SectorsOf
    <2>3. PassesOne(D, c, b, i, n)
      BY <1>3, <1>4, <1>7, <1>9, <2>2, PassedOne
    <2> QED BY <1>8, <2>1, <2>3 DEF PassesOne
  <1>11. NextSector = b
    BY <1>8 DEF NextSector, NextOf
  <1>12. r.ok => sector = DirSector(D, n)
    <2>1. PICK s : s = call.s
      OBVIOUS
    <2>2. OnDisk /\ s \in 0 .. fs.spc - 1 /\ r \in Outcomes(cluster_to_sector(D.root[i]) + s)
      BY <1>2, <1>3, <1>4, <2>1
    <2>3. r.ok => r.sector = DirSector(D, (i - 1) * D.spc + s)
      BY <2>2, DirIs, Zenon
    <2> QED BY <1>7, <1>8, <2>1, <2>3
  <1>13. ASSUME ~r.ok, Return(Reply(call.op, call.path, FALSE, -1, <<>>)), UNCHANGED open_files PROVE WalkStepped(v, p)
    <2>1. call' = None /\ reply' = Reply(call.op, call.path, FALSE, -1, <<>>)
      BY <1>13 DEF Return
    <2>2. call.op = "open" => p = call.path /\ call.path = p
      OBVIOUS
    <2> QED BY <1>1, <1>5, <1>13, <2>1, <2>2, WalkEnds
  <1>14. ASSUME r.ok, call.op = "list", AfterListSector(sector) PROVE WalkStepped(v, p)
    <2>1. UNCHANGED open_files
      BY <1>14 DEF AfterListSector
    <2>2. ASSUME NEW seen, Return(Reply("list", 0, TRUE, -1, seen)) PROVE WalkStepped(v, p)
      <3>1. call' = None /\ reply' = Reply(call.op, 0, TRUE, -1, seen) /\ call.op # "open"
        BY <1>14, <2>2 DEF Return
      <3> QED BY <1>1, <1>5, <2>1, <3>1, WalkEnds
    <2>3. ASSUME NEW seen, call' = [NextSector EXCEPT !.listed = seen], UNCHANGED reply PROVE WalkStepped(v, p)
      <3>1. PICK c : c = call'
        OBVIOUS
      <3>2. c = [b EXCEPT !.listed = seen]
        BY <1>11, <2>3, <3>1
      <3>3. c.op = b.op /\ c.at = b.at /\ c.s = b.s /\ c.cluster = b.cluster
        BY <1>6, <1>9, <3>2
      <3>4. Walking(D, c)
        BY <1>4, <1>9, <1>14, <3>3 DEF Walking
      <3>5. DiskInv' /\ Quiet
        BY <1>1, <1>5, <1>9, <2>1, <2>3, <3>1, <3>3, <3>4, WalkGoesOn
      <3> QED BY <1>9, <1>14, <3>1, <3>3, <3>5 DEF WalkStepped
    <2> QED BY <1>14, <2>2, <2>3 DEF AfterListSector
  <1>15. ASSUME r.ok, call.op = "open", AfterOpenSector(sector) PROVE WalkStepped(v, p)
    <2>1. PICK hits : hits = Hits(sector, p)
      OBVIOUS
    <2>2. N <= Len(D.slots) /\ Unnamed(D, N, p) /\ p \in Paths /\ p = call.path
      BY <1>4, <1>10, <1>15
    <2>3. HitsTell(D, sector, N, p)
      BY <1>3, <1>8, <1>10, <1>12, <1>15, <2>2, DirHit
    <2>4. /\ hits # {} => \E l \in Listed(D) : D.slots[l] = sector[Min(hits)] /\ D.slots[l].name = p
          /\ hits = {} /\ EndIn(sector) = {} =>
                N + PerSector(D) <= Len(D.slots) /\ Unnamed(D, N + PerSector(D), p)
          /\ hits = {} /\ EndIn(sector) # {} => \A l \in Listed(D) : D.slots[l].name # p
      BY <2>1, <2>3 DEF HitsTell
    <2>5. CASE hits # {}
      <3>1. open_files' = Opened(call.fd, sector[Min(hits)]) /\ Return(Reply("open", p, TRUE, call.fd, <<>>))
        BY <1>15, <2>1, <2>2, <2>5 DEF AfterOpenSector
      <3>2. PICK l \in Listed(D) : D.slots[l] = sector[Min(hits)] /\ D.slots[l].name = p
        BY <2>4, <2>5
      <3>3. PICK e : e = D.slots[l]
        OBVIOUS
      <3>4. call' = None /\ reply' = Reply("open", p, TRUE, call.fd, <<>>) /\ open_files' = Opened(call.fd, e)
        BY <3>1, <3>2, <3>3 DEF Return
      <3>5. reply'.op = "open" /\ reply'.ok = TRUE /\ reply'.fd = call.fd
        BY <3>4 DEF Reply
      <3>6. vfs_fds' = [vfs_fds EXCEPT ![v] = [in_use |-> TRUE, fat_fd |-> call.fd]]
        BY <3>5 DEF Linking
      <3>7. DiskInv' /\ Opens(p, v)
        BY <1>3, <1>5, <1>15, <2>2, <3>2, <3>3, <3>4, <3>6, FileFound
      <3> QED BY <1>15, <3>4, <3>7 DEF WalkStepped
    <2>6. CASE hits = {} /\ EndIn(sector) # {}
      <3>1. call' = None /\ reply' = Reply(call.op, p, FALSE, -1, <<>>) /\ UNCHANGED open_files
        BY <1>15, <2>1, <2>2, <2>6 DEF AfterOpenSector, Return
      <3> QED BY <1>1, <1>5, <1>15, <2>2, <2>4, <2>6, <3>1, WalkEnds
    <2>7. CASE hits = {} /\ EndIn(sector) = {}
      <3>1. call' = b /\ UNCHANGED <<reply, open_files>>
        BY <1>11, <1>15, <2>1, <2>2, <2>7 DEF AfterOpenSector
      <3>2. Passed(D, b, i) <= Len(D.slots) /\ Unnamed(D, Passed(D, b, i), b.path) /\ b.path \in Paths
        BY <1>9, <1>10, <2>2, <2>4, <2>7
      <3>3. Walking(D, b)
        BY <1>3, <1>4, <1>9, <3>2 DEF Walking
      <3>4. DiskInv' /\ Quiet
        BY <1>1, <1>5, <1>9, <3>1, <3>3, WalkGoesOn
      <3> QED BY <1>9, <1>15, <2>2, <3>1, <3>4 DEF WalkStepped
    <2> QED BY <2>5, <2>6, <2>7
  <1> QED BY <1>2, <1>8, <1>13, <1>14, <1>15
-----------------------------------------------------------------------------
(* A cluster of the directory is passed.                                    *)
LEMMA PassedAll ==
    ASSUME OnDisk, D.spc \in Nat \ {0}, PerSector(D) \in Nat \ {0}, NEW i \in Nat \ {0}, NEW c, c.s = D.spc - 1, c.at = "fat"
    PROVE  /\ Passed(D, c, i) = (i * D.spc) * PerSector(D)
           /\ \A b : b.s = 0 /\ b.at = "dir" => Passed(D, b, i + 1) = (i * D.spc) * PerSector(D)
  <1>1. PICK w, y, x : w = D.spc /\ y = i * w /\ x = (i - 1) * w
    OBVIOUS
  <1>2. x + w = y /\ x \in Nat /\ w \in Nat \ {0}
    <2>1. (i - 1) * w + w = i * w
      BY <1>1
    <2> QED BY <1>1, <2>1
  <1>3. x + c.s + 1 = y
    BY <1>1, <1>2
  <1>4. Passed(D, c, i) = y * PerSector(D)
    BY <1>1, <1>3 DEF Passed
  <1>5. ASSUME NEW b, b.s = 0, b.at = "dir" PROVE Passed(D, b, i + 1) = y * PerSector(D)
    <2>1. Passed(D, b, i + 1) = ((i + 1 - 1) * w + 0 + 0) * PerSector(D)
      BY <1>1, <1>5 DEF Passed
    <2>2. (i + 1 - 1) * w + 0 + 0 = y
      <3>1. i + 1 - 1 = i
        OBVIOUS
      <3>2. y \in Nat
        BY <1>1, <1>2
      <3> QED BY <1>1, <3>1, <3>2
    <2> QED BY <2>1, <2>2
  <1> QED BY <1>1, <1>4, <1>5

LEMMA WalkClusterStep ==
    ASSUME Owners, Calling, DiskInv, WalkCluster, Linking, vfd' = vfd, NEW v, v = vfd, NEW p, call.op = "open" => p = call.path
    PROVE  WalkStepped(v, p)
  <1>1. call.op \in {"open", "list"} /\ call.at = "fat"
    BY DEF WalkCluster
  <1>2. PICK r \in Outcomes(EntrySector(call.cluster)) :
            /\ Tried(r)
            /\ IF AtEnd(Entry(r, call.cluster))
                 THEN Return(Reply(call.op, call.path, call.op = "list", -1, call.listed))
                 ELSE /\ call' = [call EXCEPT !.cluster = Entry(r, call.cluster), !.s = 0, !.at = "dir"]
                      /\ UNCHANGED reply
            /\ UNCHANGED <<disk, fs, open_files>>
    BY Zenon DEF WalkCluster
  <1>3. /\ OnDisk /\ D.spc \in Nat \ {0} /\ fs.spc = D.spc /\ PerSector(D) \in Nat \ {0}
        /\ call.s = D.spc - 1 /\ (call.op = "open" => call.listed = <<>>)
    BY <1>1, WalksIn
  <1>4. PICK i \in DOMAIN D.root :
                /\ i \in Nat \ {0} /\ i <= Len(D.root) /\ Len(D.root) \in Nat
                /\ call.cluster = D.root[i]
                /\ call.op = "open" =>
                     call.path \in Paths /\ Passed(D, call, i) <= Len(D.slots) /\ Unnamed(D, Passed(D, call, i), call.path)
    BY <1>1, WalksIn
  <1>5. SameFs /\ faults' \in 0 .. Faults /\ (~r.ok => ~Healthy')
    BY <1>2, FaultsAre
  <1>6. DOMAIN call = {"op", "path", "fd", "cluster", "s", "at", "listed"}
    BY <1>1 DEF Calling
  <1>7. PICK c, next, N : c = call /\ next = Entry(r, call.cluster) /\ N = (i * D.spc) * PerSector(D)
    OBVIOUS
  <1>8. Passed(D, c, i) = N /\ \A b : b.s = 0 /\ b.at = "dir" => Passed(D, b, i + 1) = N
    <2>1. c.s = D.spc - 1 /\ c.at = "fat"
      BY <1>1, <1>3, <1>7
    <2> QED BY <1>3, <1>4, <1>7, <2>1, PassedAll
  <1>9. /\ DOMAIN D.root = 1 .. Len(D.root) /\ ChainOf(D, 0) = D.root /\ 0 \in 0 .. Len(D.slots)
        /\ DOMAIN D.slots = 1 .. Len(D.slots) /\ Len(D.slots) \in Nat
        /\ \A l \in DOMAIN D.root : D.root[l] \in Clusters(D)
        /\ Len(D.slots) <= (Len(D.root) * D.spc) * PerSector(D)
    <2>1. Len(D.slots) <= (Len(D.root) * D.spc) * PerSector(D)
      BY <1>3, FsIs DEF OnDisk, Formatted, PerSector
    <2>2. /\ D.root \in Seq(Clusters(D)) /\ DOMAIN D.root = 1 .. Len(D.root) /\ ChainOf(D, 0) = D.root
          /\ 0 \in 0 .. Len(D.slots) /\ DOMAIN D.slots = 1 .. Len(D.slots) /\ Len(D.slots) \in Nat
      BY <1>3, ChainPlaces
    <2> QED BY <2>1, <2>2
  <1>10. next = IF ~r.ok THEN EOC_MIN ELSE IF i < Len(D.root) THEN D.root[i + 1] ELSE EOC_MIN + 1
    BY <1>3, <1>4, <1>7, <1>9, EntryIs
  <1>11. EOC_MIN \in Nat
    BY EntryAssumption
  <1>12. CASE AtEnd(next)
    <2>1. PICK ok, arg, bytes : ok = (call.op = "list") /\ arg = call.path /\ bytes = call.listed
      OBVIOUS
    <2>2. call' = None /\ reply' = Reply(call.op, arg, ok, -1, bytes) /\ UNCHANGED open_files
      BY <1>2, <1>7, <1>12, <2>1 DEF Return
    <2>3. ~r.ok \/ i = Len(D.root)
      <3> SUFFICES ASSUME r.ok, i < Len(D.root) PROVE FALSE
        BY <1>4
      <3>1. i + 1 \in DOMAIN D.root
        BY <1>4, <1>9
      <3>2. D.root[i + 1] \in Clusters(D)
        BY <1>9, <3>1
      <3>3. D.root[i + 1] \in Nat /\ D.root[i + 1] < EOC_MIN
        BY <3>2, ClusterIs
      <3> QED BY <1>10, <1>11, <1>12, <3>3 DEF AtEnd
    <2>4. call.op = "open" => /\ ok = FALSE /\ arg = p /\ bytes = <<>>
                              /\ ~Healthy' \/ \A l \in Listed(D) : D.slots[l].name # p
      <3> SUFFICES ASSUME call.op = "open"
                   PROVE  /\ ok = FALSE /\ arg = p /\ bytes = <<>>
                          /\ ~Healthy' \/ \A l \in Listed(D) : D.slots[l].name # p
        OBVIOUS
      <3>1. ok = FALSE /\ arg = p /\ bytes = <<>>
        BY <1>3, <2>1
      <3>2. CASE ~r.ok
        BY <1>5, <3>1, <3>2
      <3>3. CASE i = Len(D.root)
        <4>1. N <= Len(D.slots) /\ Unnamed(D, N, p) /\ Len(D.slots) <= N
          BY <1>4, <1>7, <1>8, <1>9, <3>3
        <4>2. N = Len(D.slots)
          <5>1. N \in Nat
            BY <1>3, <1>4, <1>7
          <5> QED BY <1>9, <4>1, <5>1
        <4>3. ASSUME NEW l \in Listed(D) PROVE D.slots[l].name # p
          <5>1. l \in DOMAIN D.slots /\ D.slots[l].kind \in {"file", "dir"}
            BY <1>3, ListedIs
          <5>2. ~Names(D.slots[l], p)
            BY <1>9, <4>1, <4>2, <5>1 DEF Unnamed
          <5> QED BY <5>1, <5>2 DEF Names, Shown
        <4> QED BY <3>1, <4>3
      <3> QED BY <2>3, <3>2, <3>3
    <2> QED BY <1>1, <1>5, <2>2, <2>4, WalkEnds
  <1>13. CASE ~AtEnd(next)
    <2>1. call' = [call EXCEPT !.cluster = next, !.s = 0, !.at = "dir"] /\ UNCHANGED <<reply, open_files>>
      BY <1>2, <1>7, <1>13
    <2>2. PICK b : b = call'
      OBVIOUS
    <2>3. /\ b.op = call.op /\ b.path = call.path /\ b.listed = call.listed
          /\ b.cluster = next /\ b.s = 0 /\ b.at = "dir"
      BY <1>6, <2>1, <2>2
    <2>4. r.ok /\ i < Len(D.root) /\ next = D.root[i + 1]
      BY <1>10, <1>11, <1>13 DEF AtEnd
    <2>5. i + 1 \in DOMAIN D.root
      BY <1>4, <1>9, <2>4
    <2>6. Passed(D, b, i + 1) = N
      BY <1>8, <2>3
    <2>7. Walking(D, b)
      BY <1>3, <1>4, <1>7, <1>8, <2>3, <2>4, <2>5, <2>6 DEF Walking
    <2>8. DiskInv' /\ Quiet
      BY <1>1, <1>5, <2>1, <2>2, <2>3, <2>7, WalkGoesOn
    <2> QED BY <2>2, <2>3, <2>8 DEF WalkStepped
  <1> QED BY <1>12, <1>13
-----------------------------------------------------------------------------
(* A descriptor that is not open is refused, and one that is is closed.     *)
Refuses(op, v, arg) == SameDisk /\ ~InUse(v) /\ Ans' = Answered(op, arg, FALSE, v, <<>>) /\ Han' = Han
Closes(v) ==
    /\ SameDisk /\ v \in Vfds /\ InUse(v) /\ Ans' = Answered("close", 0, TRUE, v, <<>>)
    /\ Han' = [Han EXCEPT ![v] = NotOpenYet]

LEMMA RefuseStep ==
    ASSUME Owners, DiskInv, NEW op \in {"read", "seek", "close"}, NEW arg, NEW v \in Vfds, ~InUse(v), Refuse(op, arg, v)
    PROVE  DiskInv' /\ call' = None /\ Refuses(op, v, arg)
  <1>1. /\ call = None /\ call' = None /\ reply' = Reply(op, arg, FALSE, v, <<>>) /\ vfd' = v
        /\ UNCHANGED <<disk, fs, open_files, faults, vfs_fds>>
    BY DEF Refuse
  <1>2. SameFs /\ faults' \in 0 .. Faults /\ WalkInv'
    BY <1>1, NoneIsIdle DEF SameFs, Healthy, DiskInv, MountInv, WalkInv
  <1>3. DiskInv' /\ Han' = Han
    BY <1>1, <1>2, NoneIsIdle, NoFileTouched
  <1>4. Ans' = Answered(op, arg, FALSE, v, <<>>)
    BY <1>1 DEF Ans, Reply, Answered
  <1> QED BY <1>1, <1>2, <1>3, <1>4, SameDisks DEF Refuses

LEMMA CloseStep ==
    ASSUME Owners, DiskInv, NEW v \in Vfds, InUse(v), vfs_close(v)
    PROVE  DiskInv' /\ call' = None /\ Closes(v)
  <1>f. PICK fd : fd = vfs_fds[v].fat_fd
    OBVIOUS
  <1>1. call = None /\ fat_close(fd) /\ vfs_fds' = [vfs_fds EXCEPT ![v] = NoFd] /\ vfd' = v
    BY <1>f DEF vfs_close, VValid, InUse, fat_close
  <1>2. fd \in Fds /\ Valid(fd) /\ OnDisk
    BY <1>1, <1>f, ClientFile
  <1>3. /\ call' = None /\ reply' = Reply("close", 0, TRUE, fd, <<>>) /\ UNCHANGED <<disk, fs, faults>>
        /\ open_files' = [open_files EXCEPT ![fd].in_use = FALSE]
    BY <1>1, <1>2 DEF fat_close
  <1>4. \A x \in Fds : IF x = fd THEN open_files'[x].in_use = FALSE ELSE open_files'[x] = open_files[x]
    BY <1>2, <1>3 DEF Owners
  <1>5. SameFs /\ faults' \in 0 .. Faults
    BY <1>3 DEF SameFs, Healthy, DiskInv, MountInv
  <1>6. \A x : ~Busy(call, x) /\ ~Busy(call', x)
    BY <1>1, <1>3, NoneIsIdle
  <1>7. EachFile'
    <2> DEFINE S == {}
    <2>1. \A x \in Fds \ S : /\ open_files'[x].in_use => open_files'[x] = open_files[x]
                             /\ ~Busy(call, x) /\ ~Busy(call', x)
      BY <1>4, <1>6
    <2> HIDE DEF S
    <2>2. \A x \in Fds \cap S : FALSE
      BY DEF S
    <2> QED BY <1>5, <2>1, <2>2, EachFileStays DEF DiskInv, FilesInv
  <1>8. CallOwned' /\ WalkInv'
    BY <1>3, NoneIsIdle DEF CallOwned, WalkInv
  <1>9. MountInv'
    BY <1>3, <1>5, SameDisks DEF MountInv, SameFs, DiskInv
  <1>10. ~vfs_fds'[v].in_use /\ \A u \in Vfds \ {v} : vfs_fds'[u] = vfs_fds[u]
    BY <1>1 DEF Owners, NoFd
  <1>11. \A u \in Vfds \ {v} : HandleOf(u)' = HandleOf(u)
    <2> SUFFICES ASSUME NEW u \in Vfds \ {v} PROVE HandleOf(u)' = HandleOf(u)
      OBVIOUS
    <2>1. PICK x : x = vfs_fds[u].fat_fd
      OBVIOUS
    <2>2. InUse(u) => x \in Fds /\ x # fd
      BY <1>f, <2>1 DEF Owners, Valid
    <2>3. InUse(u) => SameFile(x) /\ Stands(x)
      BY <1>4, <1>6, <2>2 DEF SameFile, Stands, PositionIn
    <2> QED BY <1>5, <1>10, <2>1, <2>3, HandleStays
  <1>12. HandleOf(v)' = NotOpenYet
    BY <1>10, HandleIs DEF HandleIn
  <1>13. Han' = [Han EXCEPT ![v] = NotOpenYet]
    <2>1. PICK k : k = NotOpenYet
      OBVIOUS
    <2>2. \A u \in Vfds : HandleOf(u)' = IF u = v THEN k ELSE HandleOf(u)
      BY <1>11, <1>12, <2>1
    <2>3. Han' = [u \in Vfds |-> HandleOf(u)']
      BY DEF Han, Vfds
    <2>4. Han = [u \in Vfds |-> HandleOf(u)]
      BY DEF Han
    <2>5. Han' = [Han EXCEPT ![v] = k]
      BY <2>2, <2>3, <2>4
    <2> QED BY <2>1, <2>5
  <1>14. Ans' = Answered("close", 0, TRUE, v, <<>>)
    BY <1>1, <1>3 DEF Ans, Reply, Answered
  <1> QED BY <1>3, <1>5, <1>7, <1>8, <1>9, <1>13, <1>14, SameDisks DEF DiskInv, FilesInv, Closes
-----------------------------------------------------------------------------
(* The mount.                                                              *)
MountsOnce == Cat' = Vol /\ Vol' = Vol /\ Han' = Han /\ Healthy' = Healthy /\ Ans' = Ans

LEMMA BootSector == ASSUME disk \in DOMAIN Disks, NEW r \in Outcomes(0), r.ok PROVE r.sector = D
  <1>1. /\ Formatted(D) /\ {D.bps, D.spc, D.reserved, D.fats} \subseteq Nat \ {0} /\ D.fatsz \in Nat
    BY DiskSizes DEF D
  <1>2. D.bps \div FAT_ENTRY \in Nat
    BY <1>1, EntryAssumption, QuotientNat
  <1>3. D.fats * D.fatsz \in Nat
    BY <1>1
  <1>4. DataStart(D) \in Nat
    BY <1>1, <1>3 DEF DataStart
  <1>5. PICK q, f, s : q = D.bps \div FAT_ENTRY /\ f = D.fatsz /\ s = D.spc
    OBVIOUS
  <1>6. q * f \in Nat
    BY <1>1, <1>2, <1>5
  <1>7. (q * f) * s \in Nat
    BY <1>1, <1>5, <1>6
  <1>8. LastSector(D) \in Nat
    BY <1>4, <1>5, <1>7 DEF LastSector
  <1>9. Sector(D, 0) = D
    BY <1>1 DEF Sector
  <1>10. Image[disk][0] = Sector(D, 0)
    BY <1>8 DEF Image, D
  <1> QED BY <1>9, <1>10, OutcomeIs

LEMMA MountsStep ==
    ASSUME Owners, DiskInv, Mount
    PROVE  DiskInv' /\ call' = None /\ (Quiet \/ MountsOnce)
  <1>1. PICK r \in Outcomes(0) :
        /\ fs = NoFs /\ call = None /\ reply = NoReply
        /\ Tried(r)
        /\ IF ~r.ok \/ r.sector.fatsz = 0
             THEN /\ reply' = Reply("mount", 0, FALSE, -1, <<>>)
                  /\ UNCHANGED fs
             ELSE /\ reply' = Reply("mount", 0, TRUE, -1, <<>>)
                  /\ fs' = [mounted |-> TRUE, bps |-> r.sector.bps, spc |-> r.sector.spc,
                            fat_start |-> r.sector.reserved,
                            data_start |-> r.sector.reserved + r.sector.fats * r.sector.fatsz,
                            root |-> r.sector.root[1]]
        /\ UNCHANGED <<disk, open_files, call, vfs_fds, vfd>>
    BY DEF Mount, fat_mount
  <1>2. disk \in DOMAIN Disks /\ call' = None
    BY <1>1 DEF DiskInv, MountInv
  <1>3. (r.ok /\ faults' = faults) \/ (~r.ok /\ faults > 0 /\ faults' = faults - 1)
    BY <1>1, OutcomeIs
  <1>4. ~OnDisk /\ ~fs.mounted
    <2>1. ~NoFs.mounted
      BY DEF NoFs
    <2> QED BY <1>1, <2>1, FsIs
  <1>5. \A x \in Fds : ~open_files[x].in_use
    BY <1>4 DEF DiskInv, FilesInv, EachFile
  <1>6. \A v \in Vfds : ~InUse(v)
    BY <1>5 DEF Owners, Valid
  <1>7. Han' = Han
    <2>1. \A v \in Vfds : HandleOf(v) = NotOpenYet /\ HandleOf(v)' = NotOpenYet
      BY <1>1, <1>6 DEF HandleOf, InUse
    <2> QED BY <2>1 DEF Han, Vfds
  <1>8. Ans' = Ans
    BY <1>1 DEF Ans, Reply, NoReply
  <1>9. FilesInv' /\ WalkInv'
    BY <1>1, <1>2, <1>5, NoneIsIdle DEF FilesInv, EachFile, CallOwned, WalkInv
  <1>10. faults' \in 0 .. Faults
    <2>1. faults \in 0 .. Faults /\ Faults \in Nat
      BY FilesAssumption DEF DiskInv, MountInv
    <2> QED BY <1>3, <2>1
  <1>11. CASE ~r.ok \/ r.sector.fatsz = 0
    <2>1. fs' = fs
      BY <1>1, <1>11
    <2>2. SameFs
      <3>1. faults \in 0 .. Faults /\ Faults \in Nat
        BY FilesAssumption DEF DiskInv, MountInv
      <3> QED BY <1>1, <1>3, <2>1, <3>1 DEF SameFs, Healthy
    <2>3. MountInv'
      BY <1>1, <1>2, <1>10, <2>1 DEF MountInv
    <2> QED BY <1>2, <1>7, <1>8, <1>9, <2>2, <2>3, SameDisks DEF Quiet, DiskInv
  <1>12. CASE r.ok /\ r.sector.fatsz # 0
    <2>1. r.sector = D
      BY <1>2, <1>12, BootSector
    <2>2. fs' = MountedAs(D) /\ D.fatsz # 0
      BY <1>1, <1>12, <2>1 DEF MountedAs
    <2>3. D' = D /\ Vol' = Vol /\ Healthy' = Healthy
      BY <1>1, <1>3, <1>12 DEF D, Vol, Volumes, Healthy
    <2>4. OnDisk'
      BY <1>1, <1>2, <2>2, <2>3 DEF OnDisk
    <2>5. MountInv'
      BY <1>1, <1>2, <1>10, <2>4 DEF MountInv
    <2>6. Cat' = Vol
      <3>1. fs'.mounted
        BY <2>2 DEF MountedAs
      <3> QED BY <2>3, <3>1 DEF Cat
    <2> QED BY <1>2, <1>7, <1>8, <1>9, <2>3, <2>5, <2>6 DEF MountsOnce, DiskInv
  <1> QED BY <1>11, <1>12
-----------------------------------------------------------------------------
(* The commands.  What a command of the shell was told of its file.         *)
Wanted(cmd, size) == IF cmd = "cat" THEN Lesser(size, CAT_CAP) ELSE size
WasOpened ==
    /\ call.op = "open" => call.path = job.path
    /\ call = None /\ reply.ok = TRUE => job.path \in DOMAIN Cat /\ Han[vfd] = OpenAt(Cat[job.path], 0)
    /\ call = None /\ reply.ok = FALSE => ~Healthy \/ job.path \notin DOMAIN Cat
Told(file, bytes) == \E k : ReadsWell(file, 0, buf, k, bytes, Healthy)
WasRead ==
    /\ job.path \in DOMAIN Cat /\ Cat[job.path].size # 0
    /\ buf = Wanted(job.cmd, Cat[job.path].size)
    /\ call.op = "read" => call.arg = buf /\ Han[vfd] = OpenAt(Cat[job.path], 0)
    /\ call = None /\ reply.ok = TRUE => Told(Cat[job.path], reply.bytes)
    /\ call = None /\ reply.ok = FALSE => ~Healthy
    /\ call = None => reply.ok \in BOOLEAN
JobInv ==
    client = "shell" /\ job # NoJob =>
        /\ job.cmd \in {"cat", "load"} /\ job.path \in Paths
        /\ job.at = "open" => WasOpened
        /\ job.at = "read" => WasRead

FilesSeen == Promise!Next \/ UNCHANGED Promise!vars

LEMMA AnsTells ==
    ASSUME NEW op \in {"open", "read", "seek", "close"}, NEW arg, NEW ok, NEW h, NEW bytes, Ans' = Answered(op, arg, ok, h, bytes)
    PROVE  reply'.op = op /\ reply'.ok = ok /\ reply'.bytes = bytes
  <1>1. reply'.op \in {"open", "read", "seek", "close"}
    <2> SUFFICES ASSUME reply'.op \notin {"open", "read", "seek", "close"} PROVE FALSE
      OBVIOUS
    <2>1. Ans' = [op |-> "none"]
      BY DEF Ans
    <2>2. Ans'.op = "none"
      BY <2>1
    <2>3. Ans'.op = op
      BY DEF Answered
    <2> QED BY <2>2, <2>3
  <1>2. Ans' = Answered(reply'.op, reply'.arg, reply'.ok, IF reply'.op = "open" /\ ~reply'.ok THEN -1 ELSE vfd', reply'.bytes)
    BY <1>1 DEF Ans
  <1>3. Ans'.op = reply'.op /\ Ans'.ok = reply'.ok /\ Ans'.bytes = reply'.bytes
    BY <1>2 DEF Answered
  <1>4. Ans'.op = op /\ Ans'.ok = ok /\ Ans'.bytes = bytes
    BY DEF Answered
  <1> QED BY <1>3, <1>4

(* Each of these is a step of the promise.                                  *)
LEMMA SeenBegins == Begins => FilesSeen
  BY AskIs DEF Begins, FilesSeen, Promise!Next

LEMMA SeenQuiet == Quiet => FilesSeen
  BY QuietIs DEF Quiet, FilesSeen, Promise!Next

LEMMA SeenMounts == MountsOnce => FilesSeen
  BY MountIs DEF MountsOnce, FilesSeen, Promise!Next

LEMMA SeenOpens == ASSUME NEW p \in Paths, OpenFails(p) \/ \E v : Opens(p, v) PROVE FilesSeen
  <1>1. Promise!Open(p)
    BY OpenEndsIs
  <1> QED BY <1>1 DEF FilesSeen, Promise!Next

LEMMA SeenReads == ASSUME NEW v \in Vfds, NEW n \in 0 .. 2 ^ W - 1, ReadEnds(v, n) PROVE FilesSeen
  <1>1. Promise!Read(v, n)
    BY ReadEndsIs
  <1> QED BY <1>1 DEF FilesSeen, Promise!Next

LEMMA SeenSeeks == ASSUME NEW v \in Vfds, NEW o \in Offsets, SeekEnds(v, o) PROVE FilesSeen
  <1>1. Promise!Seek(v, o)
    BY SeekEndsIs
  <1> QED BY <1>1 DEF FilesSeen, Promise!Next

LEMMA SeenCloses == ASSUME NEW v \in Vfds, Closes(v) PROVE FilesSeen
  <1>1. Promise!Close(v)
    BY CloseIs DEF Closes
  <1> QED BY <1>1 DEF FilesSeen, Promise!Next

LEMMA SeenRefuses ==
    ASSUME NEW v \in Vfds, NEW op, NEW arg, Refuses(op, v, arg),
           \/ op = "read" /\ arg \in 0 .. 2 ^ W - 1
           \/ op = "seek" /\ arg \in Offsets
           \/ op = "close" /\ arg = 0
    PROVE  FilesSeen
  <1>1. Promise!Invalid(op, v, arg)
    BY InvalidIs DEF Refuses
  <1> QED BY <1>1 DEF FilesSeen, Promise!Next
-----------------------------------------------------------------------------
(* The actions of the clients and the driver, as the promise sees them.     *)
FullInv == LinkInv /\ DiskInv /\ JobInv
Kept == DiskInv' /\ JobInv' /\ FilesSeen

LEMMA FullInit == CmdInit => FullInv /\ Promise!Init
  <1> SUFFICES ASSUME CmdInit PROVE FullInv /\ Promise!Init
    OBVIOUS
  <1>1. /\ disk \in DOMAIN Disks /\ fs = NoFs /\ open_files = [fd \in Fds |-> NotOpen] /\ call = None
        /\ reply = NoReply /\ faults = Faults /\ vfs_fds = [v \in Vfds |-> NoFd] /\ job = NoJob
    BY DEF CmdInit, VfsInit, FatInit
  <1>2. MountInv
    BY <1>1, FilesAssumption DEF MountInv
  <1>3. EachFile
    BY <1>1 DEF EachFile, NotOpen
  <1>4. CallOwned /\ WalkInv
    BY <1>1, NoneIsIdle DEF CallOwned, WalkInv
  <1>5. DiskInv
    BY <1>2, <1>3, <1>4 DEF DiskInv, FilesInv
  <1>6. ~fs.mounted
    BY <1>1 DEF NoFs
  <1>7. Han = [v \in Vfds |-> NotOpenYet]
    BY <1>1 DEF Han, HandleOf, NoFd
  <1>8. Ans = [op |-> "none"]
    BY <1>1 DEF Ans, NoReply
  <1>9. Cat = [p \in {} |-> [bytes |-> <<>>, size |-> 0]]
    BY <1>6 DEF Cat, Empty
  <1>10. Promise!Init
    BY <1>1, <1>7, <1>8, <1>9
    DEF Promise!Init, Promise!NoFile, Promise!Closed, Promise!NoAnswer, Cat, Vol, Han, HandleOf, OpenAt, NotOpenYet, Ans, Answered
  <1> QED BY <1>1, <1>5, <1>10, LinkInit DEF FullInv, JobInv

LEMMA JobIdle == (client' # "shell" \/ job' = NoJob) => JobInv'
  BY DEF JobInv

(* The size and the position of an open file.                              *)
LEMMA SizeIs ==
    ASSUME Owners, DiskInv, call = None, NEW v \in Vfds, InUse(v)
    PROVE  /\ vfs_size(v) \in Nat /\ Han[v].file.size = vfs_size(v)
           /\ 2 ^ W \in Nat /\ \A c \in Counts \cup {0} : Han[v].pos + c < 2 ^ W /\ vfs_size(v) + c < 2 ^ W
  <1>1. PICK fd : fd = vfs_fds[v].fat_fd
    OBVIOUS
  <1>2. /\ fd \in Fds /\ open_files[fd].in_use /\ Valid(fd) /\ OnDisk
        /\ \E j \in Listed(D) : /\ IsOpen(D.slots[j], open_files[fd])
                                /\ open_files[fd].position <= D.slots[j].size
                                /\ Han[v] = OpenAt(FileOf(D, D.slots[j]), open_files[fd].position)
    BY <1>1, ClientFile
  <1>3. PICK j \in Listed(D) : /\ IsOpen(D.slots[j], open_files[fd])
                               /\ open_files[fd].position <= D.slots[j].size
                               /\ Han[v] = OpenAt(FileOf(D, D.slots[j]), open_files[fd].position)
    BY <1>2
  <1>4. PICK e, pos : e = D.slots[j] /\ pos = open_files[fd].position
    OBVIOUS
  <1>5. e.size \in Nat /\ j \in DOMAIN D.slots
    BY <1>2, <1>4, EntryTyped
  <1>6. vfs_size(v) = e.size
    BY <1>1, <1>2, <1>3, <1>4 DEF vfs_size, VValid, InUse, fat_get_size, IsOpen
  <1>7. pos \in Nat /\ pos <= e.size
    BY <1>3, <1>4 DEF IsOpen, FileRecord
  <1>8. Han[v].file.size = e.size /\ Han[v].pos = pos
    BY <1>3, <1>4 DEF OpenAt, FileOf
  <1>9. disk \in DOMAIN Disks
    BY <1>2 DEF OnDisk
  <1>10. 2 ^ W \in Nat /\ Counts \subseteq Nat /\ \A c \in Counts \cup {0} : e.size + c < 2 ^ W
    BY <1>4, <1>5, <1>9, CallsAssumption DEF D
  <1>11. PICK m : m = 2 ^ W
    OBVIOUS
  <1>12. \A c \in Counts \cup {0} : pos + c < m
    BY <1>5, <1>7, <1>10, <1>11
  <1> QED BY <1>5, <1>6, <1>8, <1>10, <1>11, <1>12

LEMMA StartSeen ==
    ASSUME FullInv, NEW cmd \in {"cat", "load"}, NEW p \in Paths, Start(cmd, p), client' = client
    PROVE  Kept
  <1>1. /\ client = "shell" /\ job = NoJob /\ vfs_open(p)
        /\ job' = [cmd |-> cmd, path |-> p, at |-> "open"]
    BY DEF Start
  <1>2. Owners /\ DiskInv /\ NoneOpen
    BY <1>1 DEF FullInv, LinkInv, Commanding
  <1>3. DiskInv' /\ \/ Begins /\ call'.op = "open" /\ call'.path = p
                    \/ call' = None /\ OpenFails(p)
    BY <1>1, <1>2, StartOpenStep
  <1>4. call'.op = "open" \/ (call' = None /\ reply'.op = "open" /\ reply'.ok = FALSE)
    BY <1>1, <1>2, OpenStarts
  <1>5. job'.cmd = cmd /\ job'.path = p /\ job'.at = "open"
    BY <1>1
  <1>6. CASE Begins /\ call'.op = "open" /\ call'.path = p
    <2>1. WasOpened'
      BY <1>5, <1>6, NoneIsIdle DEF WasOpened
    <2> QED BY <1>3, <1>5, <1>6, <2>1, SeenBegins DEF Kept, JobInv
  <1>7. CASE call' = None /\ OpenFails(p)
    <2>1. reply'.ok = FALSE
      BY <1>4, <1>7, NoneIsIdle
    <2>2. 0 \in Vfds
      BY DescriptorsAssumption DEF Vfds
    <2>3. Cat' = Cat /\ (p \notin DOMAIN Cat \/ ~Healthy')
      BY <1>2, <1>7, <2>2 DEF NoneOpen, OpenFails, SameDisk
    <2>4. WasOpened'
      BY <1>5, <1>7, <2>1, <2>3, NoneIsIdle DEF WasOpened
    <2> QED BY <1>3, <1>5, <1>7, <2>4, SeenOpens DEF Kept, JobInv
  <1> QED BY <1>3, <1>6, <1>7
-----------------------------------------------------------------------------
LEMMA NothingSeen == ASSUME DiskInv, UNCHANGED vars PROVE DiskInv' /\ Quiet
  <1>1. /\ UNCHANGED <<disk, fs, open_files, call, reply, faults, vfs_fds, vfd>>
    BY DEF vars, fatVars
  <1>2. DiskInv'
    BY <1>1 DEF DiskInv, MountInv, FilesInv, EachFile, CallOwned, WalkInv, OnDisk, D, Healthy, VValid
  <1>3. Vol' = Vol /\ Cat' = Cat /\ Healthy' = Healthy
    BY <1>1 DEF Vol, Cat, Healthy
  <1>4. Han' = Han
    BY <1>1 DEF Han, HandleOf, SlotOf, Position, D
  <1>5. Ans' = Ans
    BY <1>1 DEF Ans
  <1> QED BY <1>2, <1>3, <1>4, <1>5 DEF Quiet, SameDisk

(* The read of a command has ended.                                        *)
LEMMA ReadTold ==
    ASSUME NEW v, NEW n, ReadEnds(v, n), call' = None, NEW p, job'.path = p, buf' = n, Han[v] = OpenAt(Cat[p], 0),
           p \in DOMAIN Cat, Cat[p].size # 0, n = Wanted(job'.cmd, Cat[p].size)
    PROVE  WasRead'
  <1>1. Cat' = Cat
    BY DEF ReadEnds, SameDisk
  <1>2. PICK file : file = Cat[p]
    OBVIOUS
  <1>3. Han[v].file = file /\ Han[v].pos = 0
    BY <1>2 DEF OpenAt
  <1>4. PICK k, bytes :
         \/ /\ Ans' = Answered("read", n, TRUE, v, bytes)
            /\ ReadsWell(file, 0, n, k, bytes, Healthy')
         \/ /\ Ans' = Answered("read", n, FALSE, v, bytes)
            /\ ReadsBadly(file, 0, n, k, bytes, Healthy')
    BY <1>3 DEF ReadEnds
  <1>5. CASE Ans' = Answered("read", n, TRUE, v, bytes) /\ ReadsWell(file, 0, n, k, bytes, Healthy')
    <2>1. reply'.ok = TRUE /\ reply'.bytes = bytes
      BY <1>5, AnsTells
    <2>2. Told(file, bytes)'
      BY <1>5 DEF Told
    <2>3. Told(Cat[job.path], reply.bytes)'
      <3>1. Cat'[job'.path] = file
        BY <1>1, <1>2
      <3> QED BY <1>5, <2>1, <3>1 DEF Told
    <2> QED BY <1>1, <2>1, <2>3, NoneIsIdle DEF WasRead
  <1>6. CASE Ans' = Answered("read", n, FALSE, v, bytes) /\ ReadsBadly(file, 0, n, k, bytes, Healthy')
    <2>1. reply'.ok = FALSE
      BY <1>6, AnsTells
    <2>2. ~Healthy'
      BY <1>6 DEF ReadsBadly
    <2> QED BY <1>1, <2>1, <2>2, NoneIsIdle DEF WasRead
  <1> QED BY <1>4, <1>5, <1>6

LEMMA OpenedSeen == ASSUME FullInv, FileOpened, client' = client PROVE Kept
  <1>1. /\ job # NoJob /\ job.at = "open" /\ call = None /\ client = "shell" /\ Owners /\ DiskInv
        /\ DOMAIN job = {"cmd", "path", "at"}
    BY DEF FileOpened, FullInv, LinkInv, Commanding
  <1>2. job.cmd \in {"cat", "load"} /\ job.path \in Paths /\ WasOpened
    BY <1>1 DEF FullInv, JobInv
  <1>3. (reply.ok = TRUE /\ OnlyOpen(vfd)) \/ reply.ok = FALSE
    <2>1. Opening
      BY <1>1 DEF FullInv, LinkInv, Commanding
    <2> QED BY <1>1, <2>1, NoneIsIdle DEF Opening
  <1>4. CASE reply.ok = FALSE
    <2>1. job' = NoJob /\ UNCHANGED vars
      BY <1>4, FinishIs DEF FileOpened
    <2> QED BY <1>1, <2>1, NothingSeen, SeenQuiet, JobIdle DEF Kept
  <1>5. CASE reply.ok = TRUE /\ OnlyOpen(vfd)
    <2>1. vfd \in Vfds /\ InUse(vfd)
      BY <1>5 DEF OnlyOpen
    <2>2. \/ (\E why : Finish(why, <<>>)) /\ vfs_close(vfd)
          \/ /\ vfs_size(vfd) # 0 /\ buf' = Room /\ vfs_read(vfd, Room) /\ job' = [job EXCEPT !.at = "read"]
      BY <1>5 DEF FileOpened
    <2>3. CASE (\E why : Finish(why, <<>>)) /\ vfs_close(vfd)
      <3>1. DiskInv' /\ Closes(vfd)
        BY <1>1, <2>1, <2>3, CloseStep
      <3>2. FilesSeen
        BY <2>1, <3>1, SeenCloses
      <3>3. job' = NoJob
        BY <2>3, FinishIs
      <3> QED BY <3>1, <3>2, <3>3, JobIdle DEF Kept
    <2>4. CASE vfs_size(vfd) # 0 /\ buf' = Room /\ vfs_read(vfd, Room) /\ job' = [job EXCEPT !.at = "read"]
      <3>1. PICK n, v, p, cmd, size : n = Room /\ v = vfd /\ p = job.path /\ cmd = job.cmd /\ size = vfs_size(vfd)
        OBVIOUS
      <3>2. /\ size \in Nat /\ Han[v].file.size = size /\ 2 ^ W \in Nat /\ size < 2 ^ W /\ size # 0
            /\ Han[v] = OpenAt(Cat[p], 0) /\ p \in DOMAIN Cat
        <4>1. size \in Nat /\ Han[v].file.size = size /\ 2 ^ W \in Nat /\ size + 0 < 2 ^ W
          BY <1>1, <2>1, <3>1, SizeIs
        <4>2. size + 0 = size
          BY <4>1
        <4> QED BY <1>1, <1>2, <1>5, <2>4, <3>1, <4>1, <4>2 DEF WasOpened
      <3>3. Han[v].pos = 0 /\ Cat[p].size = size
        BY <3>2 DEF OpenAt
      <3>4. n = Wanted(cmd, size) /\ n \in Nat /\ n <= size
        <4>1. Min({size, CAT_CAP}) = Lesser(size, CAT_CAP) /\ Lesser(size, CAT_CAP) \in Nat /\ Lesser(size, CAT_CAP) <= size
          BY <3>2, CapAssumption, LesserOf
        <4>2. n = IF cmd = "cat" THEN Min({size, CAT_CAP}) ELSE size
          BY <3>1 DEF Room
        <4> QED BY <3>2, <4>1, <4>2 DEF Wanted
      <3>5. n \in 0 .. 2 ^ W - 1 /\ Han[v].pos + n < 2 ^ W
        <4>1. PICK m : m = 2 ^ W
          OBVIOUS
        <4>2. n \in 0 .. m - 1 /\ 0 + n < m
          BY <3>2, <3>4, <4>1
        <4> QED BY <3>3, <4>1, <4>2
      <3>6. DiskInv' /\ \/ Begins /\ call'.op = "read" /\ call'.arg = n
                        \/ call' = None /\ ReadEnds(v, n)
        BY <1>1, <2>1, <2>4, <3>1, <3>5, StartReadStep
      <3>7. vfd' = v
        BY <1>1, <2>4, <3>1, ReadStarts
      <3>8. job'.path = p /\ job'.cmd = cmd /\ job'.at = "read" /\ buf' = n
        BY <1>1, <2>4, <3>1
      <3>9. CASE Begins /\ call'.op = "read" /\ call'.arg = n
        <4>1. Cat' = Cat /\ Han' = Han
          BY <3>9 DEF Begins, SameDisk
        <4>2. WasRead'
          BY <3>2, <3>3, <3>4, <3>7, <3>8, <3>9, <4>1, NoneIsIdle DEF WasRead
        <4> QED BY <1>2, <3>1, <3>6, <3>8, <3>9, <4>2, SeenBegins DEF Kept, JobInv
      <3>10. CASE call' = None /\ ReadEnds(v, n)
        <4>1. WasRead'
          BY <3>2, <3>3, <3>4, <3>8, <3>10, ReadTold
        <4>2. FilesSeen
          BY <2>1, <3>1, <3>5, <3>10, SeenReads
        <4> QED BY <1>2, <3>1, <3>6, <3>8, <4>1, <4>2 DEF Kept, JobInv
      <3> QED BY <3>6, <3>9, <3>10
    <2> QED BY <2>2, <2>3, <2>4
  <1> QED BY <1>3, <1>4, <1>5

LEMMA BackSeen == ASSUME FullInv, ReadBack, client' = client PROVE Kept
  <1>1. /\ job # NoJob /\ job.at = "read" /\ client = "shell" /\ Owners /\ DiskInv /\ vfs_close(vfd)
    BY DEF ReadBack, FullInv, LinkInv, Commanding
  <1>2. vfd \in Vfds /\ InUse(vfd)
    BY <1>1 DEF FullInv, LinkInv, Commanding, Reading, OnlyOpen
  <1>3. DiskInv' /\ Closes(vfd)
    BY <1>1, <1>2, CloseStep
  <1>4. FilesSeen
    BY <1>2, <1>3, SeenCloses
  <1>5. job' = NoJob
    BY FinishIs DEF ReadBack
  <1> QED BY <1>3, <1>4, <1>5, JobIdle DEF Kept
-----------------------------------------------------------------------------
(* Which command waits for the call in progress.                            *)
LEMMA WaitsFor ==
    ASSUME FullInv, call # None, client = "shell", job # NoJob
    PROVE  /\ job.cmd \in {"cat", "load"} /\ job.path \in Paths
           /\ \/ job.at = "open" /\ call.op = "open" /\ WasOpened
              \/ job.at = "read" /\ call.op = "read" /\ WasRead
  <1>1. (job.at = "open" /\ Opening) \/ (job.at = "read" /\ Reading)
    BY DEF FullInv, LinkInv, Commanding
  <1>2. (job.at = "open" /\ call.op = "open") \/ (job.at = "read" /\ call.op = "read")
    BY <1>1 DEF Opening, Reading
  <1> QED BY <1>2 DEF FullInv, JobInv

LEMMA WalkSeen ==
    ASSUME FullInv, call # None, call.op \in {"open", "list"}, UNCHANGED <<job, buf, client>>, vfd' = vfd,
           NEW v, v = vfd, NEW p, call.op = "open" => p = call.path, WalkStepped(v, p)
    PROVE  Kept
  <1>1. DiskInv' /\ DiskInv /\ Calling
    BY DEF FullInv, LinkInv, WalkStepped
  <1>2. call.op = "open" => p \in Paths /\ v \in Vfds /\ ~InUse(v)
    BY <1>1, WalksIn DEF Calling
  <1>3. FilesSeen
    <2>1. Quiet \/ (call.op = "open" /\ (Opens(p, v) \/ OpenFails(p)))
      BY DEF WalkStepped
    <2> QED BY <1>2, <2>1, SeenQuiet, SeenOpens
  <1>4. JobInv'
    <2>1. CASE client = "shell" /\ job # NoJob
      <3>1. job.cmd \in {"cat", "load"} /\ job.path \in Paths /\ job.at = "open" /\ call.op = "open" /\ p = job.path
        BY <2>1, WaitsFor DEF WasOpened
      <3>2. \/ Quiet /\ call'.op = "open" /\ call'.path = p
            \/ call' = None /\ (Opens(p, v) \/ OpenFails(p))
        BY <3>1 DEF WalkStepped
      <3>3. CASE Quiet /\ call'.op = "open" /\ call'.path = p
        <4>1. WasOpened'
          BY <3>1, <3>3, NoneIsIdle DEF WasOpened
        <4> QED BY <3>1, <4>1 DEF JobInv
      <3>4. CASE call' = None /\ Opens(p, v)
        <4>1. reply'.ok = TRUE
          BY <3>4, AnsTells DEF Opens
        <4>2. Cat' = Cat /\ p \in DOMAIN Cat /\ Han' = [Han EXCEPT ![v] = OpenAt(Cat[p], 0)] /\ v \in Vfds
          BY <3>4 DEF Opens, SameDisk
        <4>3. Han'[v] = OpenAt(Cat[p], 0)
          <5>1. DOMAIN Han = Vfds
            BY DEF Han
          <5> QED BY <4>2, <5>1
        <4>4. WasOpened'
          BY <3>1, <3>4, <4>1, <4>2, <4>3, NoneIsIdle DEF WasOpened
        <4> QED BY <3>1, <4>4 DEF JobInv
      <3>5. CASE call' = None /\ OpenFails(p)
        <4>1. reply'.ok = FALSE
          BY <3>5, AnsTells DEF OpenFails
        <4>2. Cat' = Cat /\ (p \notin DOMAIN Cat \/ ~Healthy')
          BY <1>2, <3>1, <3>5 DEF OpenFails, SameDisk
        <4>3. WasOpened'
          BY <3>1, <3>5, <4>1, <4>2, NoneIsIdle DEF WasOpened
        <4> QED BY <3>1, <4>3 DEF JobInv
      <3> QED BY <3>2, <3>3, <3>4, <3>5
    <2>2. CASE ~(client = "shell" /\ job # NoJob)
      BY <2>2, JobIdle
    <2> QED BY <2>1, <2>2
  <1> QED BY <1>1, <1>3, <1>4 DEF Kept

LEMMA ReadSeen ==
    ASSUME FullInv, call.op = "read", call # None, UNCHANGED <<job, buf, client>>, vfd' = vfd,
           NEW v, v = vfd, NEW n, n = call.arg, ReadStepped(v, n)
    PROVE  Kept
  <1>1. DiskInv' /\ ((call' = None /\ ReadEnds(v, n)) \/ (Quiet /\ call'.op = "read" /\ call'.arg = n))
    BY DEF ReadStepped
  <1>2. v \in Vfds /\ n \in 0 .. 2 ^ W - 1
    <2>1. /\ vfd \in Vfds /\ Busy(call, call.fd)
          /\ \E j \in Listed(D) : FileAt(D, D.slots[j], open_files[call.fd], call, call.fd, Healthy)
      BY AtFile DEF FullInv, LinkInv, DiskInv
    <2>2. call \in ReadCall
      BY <2>1 DEF FileAt, ReadingOf
    <2> QED BY <2>1, <2>2 DEF ReadCall
  <1>3. FilesSeen
    BY <1>1, <1>2, SeenReads, SeenQuiet
  <1>4. JobInv'
    <2>1. CASE client = "shell" /\ job # NoJob
      <3>1. PICK p : p = job.path
        OBVIOUS
      <3>2. job.cmd \in {"cat", "load"} /\ p \in Paths /\ job.at = "read" /\ WasRead
        BY <2>1, <3>1, WaitsFor
      <3>3. /\ p \in DOMAIN Cat /\ Cat[p].size # 0 /\ n = buf /\ n = Wanted(job.cmd, Cat[p].size)
            /\ Han[v] = OpenAt(Cat[p], 0)
        BY <3>1, <3>2 DEF WasRead
      <3>4. CASE call' = None /\ ReadEnds(v, n)
        <4>1. WasRead'
          BY <3>1, <3>3, <3>4, ReadTold
        <4> QED BY <3>1, <3>2, <4>1 DEF JobInv
      <3>5. CASE Quiet /\ call'.op = "read" /\ call'.arg = n
        <4>1. Cat' = Cat /\ Han' = Han
          BY <3>5 DEF Quiet, SameDisk
        <4>2. WasRead'
          BY <3>1, <3>3, <3>5, <4>1, NoneIsIdle DEF WasRead
        <4> QED BY <3>1, <3>2, <4>2 DEF JobInv
      <3> QED BY <1>1, <3>4, <3>5
    <2>2. CASE ~(client = "shell" /\ job # NoJob)
      BY <2>2, JobIdle
    <2> QED BY <2>1, <2>2
  <1> QED BY <1>1, <1>3, <1>4 DEF Kept

LEMMA WorkSeen == ASSUME FullInv, Work, UNCHANGED <<job, buf, client>> PROVE Kept
  <1>1. /\ Owners /\ Calling /\ DiskInv /\ FatStep /\ Linking /\ vfd' = vfd /\ call # None
        /\ call.op # "open" => UNCHANGED vfs_fds
    BY WorkIs DEF FullInv, LinkInv, Work, Linking
  <1>2. PICK v, p, n : v = vfd /\ p = call.path /\ n = call.arg
    OBVIOUS
  <1>3. CASE WalkSector \/ WalkCluster
    <2>1. call.op \in {"open", "list"}
      BY <1>3 DEF WalkSector, WalkCluster
    <2>2. WalkStepped(v, p)
      BY <1>1, <1>2, <1>3, WalkSectorStep, WalkClusterStep
    <2> QED BY <1>1, <1>2, <2>1, <2>2, WalkSeen
  <1>4. CASE ReadSector \/ ReadCluster
    <2>1. call.op = "read"
      BY <1>4 DEF ReadSector, ReadCluster
    <2>2. ReadStepped(v, n)
      BY <1>1, <1>2, <1>4, <2>1, ReadSectorStep, ReadClusterStep
    <2> QED BY <1>1, <1>2, <2>1, <2>2, ReadSeen
  <1>5. CASE SeekCluster \/ SeekEnd
    <2>1. call.op = "seek"
      BY <1>5 DEF SeekCluster, SeekEnd
    <2>2. UNCHANGED <<vfs_fds, vfd>>
      BY <1>1, <2>1
    <2>3. JobInv'
      <3>1. ~(client = "shell" /\ job # NoJob)
        BY <1>1, <2>1, WaitsFor
      <3> QED BY <3>1, JobIdle
    <2>4. CASE SeekCluster
      BY <1>1, <2>2, <2>3, <2>4, SeekClusterStep, SeenQuiet DEF Kept
    <2>5. CASE SeekEnd
      <3>1. DiskInv' /\ SeekEnds(v, n) /\ n \in Offsets
        BY <1>1, <1>2, <2>2, <2>5, SeekEndStep
      <3>2. v \in Vfds
        BY <3>1 DEF SeekEnds
      <3> QED BY <2>3, <3>1, <3>2, SeenSeeks DEF Kept
    <2> QED BY <1>5, <2>4, <2>5
  <1> QED BY <1>1, <1>3, <1>4, <1>5 DEF FatStep

LEMMA MountSeen == ASSUME FullInv, Mount, UNCHANGED <<job, buf, client>> PROVE Kept
  <1>1. Owners /\ DiskInv /\ Commanding
    BY DEF FullInv, LinkInv
  <1>2. DiskInv' /\ FilesSeen
    BY <1>1, MountsStep, SeenQuiet, SeenMounts
  <1>3. call = None /\ reply.op = "none"
    BY <1>1, Mounts DEF NoReply
  <1>4. client = "shell" => job = NoJob
    BY <1>1, <1>3, NoneIsIdle DEF Commanding, Opening, Reading
  <1> QED BY <1>2, <1>4, JobIdle DEF Kept

LEMMA LsSeen == ASSUME FullInv, Ls, UNCHANGED <<job, buf, client>> PROVE Kept
  <1>1. Owners /\ DiskInv /\ List /\ job = NoJob
    BY DEF FullInv, LinkInv, Ls
  <1> QED BY <1>1, StartListStep, SeenBegins, JobIdle DEF Kept

LEMMA CallSeen == ASSUME FullInv, Call, UNCHANGED <<job, buf, client>> PROVE Kept
  <1>1. Owners /\ DiskInv /\ client' # "shell"
    BY DEF FullInv, LinkInv, Call
  <1>2. JobInv'
    BY <1>1, JobIdle
  <1>3. ASSUME NEW p \in Paths, vfs_open(p) PROVE DiskInv' /\ FilesSeen
    BY <1>1, <1>3, StartOpenStep, SeenBegins, SeenOpens
  <1>4. ASSUME NEW v \in Vfds, NEW n \in Counts, vfs_read(v, n) PROVE DiskInv' /\ FilesSeen
    <2>1. n \in 0 .. 2 ^ W - 1
      BY CallsAssumption
    <2>2. CASE InUse(v)
      <3>1. call = None
        BY <1>1, <1>4, ReadStarts
      <3>2. Han[v].pos + n < 2 ^ W
        BY <1>1, <2>2, <3>1, SizeIs
      <3> QED BY <1>1, <1>4, <2>1, <2>2, <3>2, StartReadStep, SeenBegins, SeenReads
    <2>3. CASE ~InUse(v)
      <3>1. Refuse("read", n, v)
        BY <1>4, <2>3 DEF vfs_read, VValid, InUse
      <3>2. DiskInv' /\ Refuses("read", v, n)
        BY <1>1, <2>3, <3>1, RefuseStep
      <3> QED BY <2>1, <3>2, SeenRefuses
    <2> QED BY <2>2, <2>3
  <1>5. ASSUME NEW v \in Vfds, NEW o \in Offsets, vfs_seek(v, o) PROVE DiskInv' /\ FilesSeen
    <2>1. CASE InUse(v)
      BY <1>1, <1>5, <2>1, StartSeekStep, SeenBegins
    <2>2. CASE ~InUse(v)
      <3>1. Refuse("seek", o, v)
        BY <1>5, <2>2 DEF vfs_seek, VValid, InUse
      <3>2. DiskInv' /\ Refuses("seek", v, o)
        BY <1>1, <2>2, <3>1, RefuseStep
      <3> QED BY <3>2, SeenRefuses
    <2> QED BY <2>1, <2>2
  <1>6. ASSUME NEW v \in Vfds, vfs_close(v) PROVE DiskInv' /\ FilesSeen
    <2>1. CASE InUse(v)
      BY <1>1, <1>6, <2>1, CloseStep, SeenCloses
    <2>2. CASE ~InUse(v)
      <3>1. Refuse("close", 0, v)
        BY <1>6, <2>2 DEF vfs_close, VValid, InUse
      <3>2. DiskInv' /\ Refuses("close", v, 0)
        BY <1>1, <2>2, <3>1, RefuseStep
      <3> QED BY <3>2, SeenRefuses
    <2> QED BY <2>1, <2>2
  <1>7. DiskInv' /\ FilesSeen
    BY <1>3, <1>4, <1>5, <1>6 DEF Call
  <1> QED BY <1>2, <1>7 DEF Kept

LEMMA FullNext == FullInv /\ [CmdNext]_cmdVars => FullInv' /\ FilesSeen
  <1> SUFFICES ASSUME FullInv, [CmdNext]_cmdVars PROVE FullInv' /\ FilesSeen
    OBVIOUS
  <1>1. LinkInv'
    BY LinkNext DEF FullInv
  <1>2. Kept
    <2>1. CASE UNCHANGED cmdVars
      <3>1. UNCHANGED vars /\ UNCHANGED <<job, buf, client, call, reply, vfd>>
        BY <2>1 DEF cmdVars, vars, fatVars
      <3>2. DiskInv' /\ Quiet
        BY <3>1, NothingSeen DEF FullInv
      <3>3. Cat' = Cat /\ Han' = Han /\ Healthy' = Healthy
        BY <3>1, <3>2 DEF Quiet, SameDisk, Healthy, vars, fatVars
      <3>4. WasOpened' <=> WasOpened
        BY <3>1, <3>3 DEF WasOpened
      <3>5. Told(Cat[job.path], reply.bytes)' <=> Told(Cat[job.path], reply.bytes)
        BY <3>1, <3>3 DEF Told
      <3>6. WasRead' <=> WasRead
        BY <3>1, <3>3, <3>5 DEF WasRead
      <3>7. JobInv'
        BY <3>1, <3>4, <3>6 DEF FullInv, JobInv
      <3> QED BY <3>2, <3>7, SeenQuiet DEF Kept
    <2>2. CASE CmdNext
      <3>1. client' = client
        BY <2>2 DEF CmdNext
      <3> QED BY <2>2, <3>1, StartSeen, OpenedSeen, BackSeen, WorkSeen, CallSeen, LsSeen, MountSeen
           DEF CmdNext, Proceed
    <2> QED BY <2>1, <2>2
  <1> QED BY <1>1, <1>2 DEF Kept, FullInv

(* Through both layers, over every disk mkfs.fat can have written and       *)
(* wherever the device fails, vfs_open, vfs_read, vfs_seek and vfs_close    *)
(* answer as Files promises: a file is found by its name, read in order     *)
(* from the position of its descriptor, and no byte is another file's.      *)
THEOREM FilesAreRead == CmdSpec => ImplementsFiles
  <1>1. CmdInit => FullInv /\ Promise!Init
    BY FullInit
  <1>2. FullInv /\ [CmdNext]_cmdVars => FullInv' /\ [Promise!Next]_(Promise!vars)
    BY FullNext DEF FilesSeen
  <1> QED BY <1>1, <1>2, PTL DEF CmdSpec, ImplementsFiles, Promise!Spec
-----------------------------------------------------------------------------
(* What a command told stays true: a catalogue changes once, at the mount,  *)
(* and no command has ended before it.                                      *)
Truth == WholeOrNothing /\ CatShows
TellInv ==
    /\ Truth
    /\ client = "tests" => result = NoResult
    /\ fs = NoFs /\ reply = NoReply => result = NoResult

LEMMA ExistsIs ==
    /\ \A p : Exists(p) <=> p \in DOMAIN Cat
    /\ \A p : Exists(p)' <=> p \in DOMAIN Cat'
    /\ \A p : p \in DOMAIN Cat => File(p) = Cat[p]
  <1>1. DOMAIN Empty = {} /\ Empty' = Empty
    BY DEF Empty
  <1> QED BY <1>1 DEF Exists, File, Cat, Vol

(* The promise itself says what no step does.                              *)
LEMMA SeenKeeps ==
    ASSUME FilesSeen
    PROVE  Vol' = Vol /\ (Healthy' => Healthy)
  <1>1. CASE UNCHANGED Promise!vars
    BY <1>1, SeenIs DEF Vol, Healthy, Promise!vars
  <1>2. CASE Promise!Next
    <2>1. Promise!Mount \/ Promise!Ask \/ Promise!Fault => Vol' = Vol /\ (Healthy' => Healthy)
      <3>1. Promise!Mount => Vol' = Vol /\ (Healthy' => Healthy)
        BY DEF Promise!Mount, Vol, Healthy
      <3>2. Promise!Ask => Vol' = Vol /\ (Healthy' => Healthy)
        BY DEF Promise!Ask, Vol, Healthy
      <3>3. Promise!Fault => Vol' = Vol /\ (Healthy' => Healthy)
        BY DEF Promise!Fault, Vol, Healthy
      <3> QED BY <3>1, <3>2, <3>3
    <2>2. Promise!Still => Vol' = Vol /\ (Healthy' => Healthy)
      BY DEF Promise!Still, Vol, Healthy
    <2>3. \A p : Promise!Open(p) => Promise!Still
      BY DEF Promise!Open
    <2>4. \A v, x : Promise!Read(v, x) \/ Promise!Seek(v, x) => Promise!Still
      BY DEF Promise!Read, Promise!Seek
    <2>5. \A v : Promise!Close(v) => Promise!Still
      BY DEF Promise!Close
    <2>6. \A o, v, x : Promise!Invalid(o, v, x) => Promise!Still
      BY DEF Promise!Invalid
    <2> QED BY <1>2, <2>1, <2>2, <2>3, <2>4, <2>5, <2>6 DEF Promise!Next
  <1> QED BY <1>1, <1>2 DEF FilesSeen

LEMMA TruthStays ==
    ASSUME Truth, result' = result, Vol' = Vol, Cat' = Cat, Healthy' => Healthy
    PROVE  Truth'
  <1>1. \A p : (Exists(p)' <=> Exists(p)) /\ File(p)' = File(p)
    <2>1. \A p : Exists(p)' <=> p \in DOMAIN Cat'
      BY ExistsIs
    <2> QED BY <2>1, ExistsIs DEF File, Vol
  <1>2. WholeOrNothing'
    BY <1>1 DEF Truth, WholeOrNothing
  <1>3. CatShows'
    BY <1>1 DEF Truth, CatShows, Healthy
  <1> QED BY <1>2, <1>3 DEF Truth

LEMMA NothingTold == result' = NoResult => Truth'
  BY DEF Truth, WholeOrNothing, CatShows, NoResult
-----------------------------------------------------------------------------
LEMMA FileTyped ==
    ASSUME DiskInv, NEW p \in DOMAIN Cat
    PROVE  /\ Cat[p].size \in Nat /\ Cat[p].bytes \in Seq(FileByte)
           /\ Len(Cat[p].bytes) \in Nat /\ Len(Cat[p].bytes) <= Cat[p].size
  <1>1. fs.mounted /\ OnDisk /\ Cat = Vol
    BY CatIs, MountedIs
  <1>2. DOMAIN Vol = {D.slots[i].name : i \in Listed(D)} /\ \A i \in Listed(D) : Vol[D.slots[i].name] = FileOf(D, D.slots[i])
    BY <1>1, CatalogueIs DEF Vol
  <1>3. PICK i \in Listed(D) : p = D.slots[i].name
    BY <1>1, <1>2
  <1>4. PICK e, z : e = D.slots[i] /\ z = Len(FileOf(D, e).bytes)
    OBVIOUS
  <1>5. Cat[p] = FileOf(D, e)
    BY <1>1, <1>2, <1>3, <1>4
  <1>6. e.size \in Nat /\ z \in Nat /\ z <= e.size
    BY <1>1, <1>4, FileLength
  <1>7. FileOf(D, e).bytes = [n \in 1 .. z |-> <<e.name, n - 1>>] /\ e.name \in STRING
    BY <1>1, <1>4, FileBytes, EntryTyped
  <1>8. FileOf(D, e).bytes \in Seq(FileByte)
    <2>1. \A n \in 1 .. z : <<e.name, n - 1>> \in FileByte
      BY <1>6, <1>7 DEF FileByte
    <2> QED BY <1>6, <1>7, <2>1
  <1>9. FileOf(D, e).size = e.size
    BY DEF FileOf
  <1> QED BY <1>4, <1>5, <1>6, <1>8, <1>9

(* What a command shows, or loads, of a file.                              *)
Shows(cmd, file, bytes) ==
    /\ Len(bytes) <= Len(file.bytes) /\ bytes = SubSeq(file.bytes, 1, Len(bytes))
    /\ cmd = "cat" => (Healthy => Len(bytes) = Min({CAT_CAP, Len(file.bytes)}))
    /\ cmd = "load" => bytes = file.bytes /\ Len(bytes) = file.size
Ending(cmd, p, why, bytes) ==
    \/ why = "not found" /\ (~Healthy \/ p \notin DOMAIN Cat)
    \/ why = "empty" /\ p \in DOMAIN Cat /\ Cat[p].size = 0
    \/ why = "no memory" /\ p \in DOMAIN Cat /\ Cat[p].size # 0
    \/ why = "error" /\ p \in DOMAIN Cat /\ Cat[p].size # 0 /\ (cmd = "cat" => ~Healthy)
    \/ why = "done" /\ p \in DOMAIN Cat /\ Cat[p].size # 0 /\ Shows(cmd, Cat[p], bytes)

LEMMA Prefix ==
    ASSUME NEW T, NEW s \in Seq(T), NEW k \in Nat, k <= Len(s), NEW t, t = SubSeq(s, 1, k)
    PROVE  Len(t) = k /\ (k = Len(s) => t = s)
  OBVIOUS

LEMMA ToldShows ==
    ASSUME NEW file, file.size \in Nat, file.bytes \in Seq(FileByte), Len(file.bytes) <= file.size, NEW bytes,
           Told(file, bytes), NEW cmd \in {"cat", "load"}, buf = Wanted(cmd, file.size),
           cmd = "cat" \/ Len(bytes) = buf
    PROVE  Shows(cmd, file, bytes)
  <1>1. PICK n, s, size : n = Len(file.bytes) /\ s = file.bytes /\ size = file.size
    OBVIOUS
  <1>2. n \in Nat /\ n <= size /\ size \in Nat /\ s \in Seq(FileByte) /\ n = Len(s)
    BY <1>1
  <1>3. PICK k : ReadsWell(file, 0, buf, k, bytes, Healthy)
    BY DEF Told
  <1>4. buf \in Nat /\ buf <= size /\ (cmd = "load" => buf = size) /\ (cmd = "cat" => buf = Lesser(size, CAT_CAP))
    BY <1>1, <1>2, CapAssumption DEF Wanted, Lesser
  <1>5. Lesser(0 + buf, n) \in Nat /\ Lesser(0 + buf, n) <= n /\ Lesser(0 + buf, n) <= buf
    BY <1>2, <1>4 DEF Lesser
  <1>6. k \in 0 .. Lesser(0 + buf, n) /\ (Healthy => k = Lesser(0 + buf, n)) /\ bytes = SubSeq(s, 0 + 1, k)
    BY <1>1, <1>3, <1>5 DEF ReadsWell
  <1>7. bytes = SubSeq(s, 1, k) /\ k \in Nat /\ k <= n
    BY <1>2, <1>5, <1>6
  <1>8. Len(bytes) = k /\ (k = n => bytes = s)
    BY <1>2, <1>7, Prefix
  <1>9. cmd = "load" => k = n /\ k = size
    BY <1>2, <1>4, <1>5, <1>6, <1>8
  <1>10. cmd = "cat" /\ Healthy => k = Lesser(CAT_CAP, n)
    BY <1>2, <1>4, <1>6, CapAssumption DEF Lesser
  <1>11. Min({CAT_CAP, n}) = Lesser(CAT_CAP, n)
    BY <1>2, CapAssumption, LesserOf
  <1> QED BY <1>1, <1>7, <1>8, <1>9, <1>10, <1>11 DEF Shows

LEMMA FinishTells ==
    ASSUME NEW why, NEW bytes, Finish(why, bytes), NEW cmd \in {"cat", "load"}, cmd = job.cmd, NEW p, p = job.path,
           Ending(cmd, p, why, bytes), Vol' = Vol, Cat' = Cat, Healthy' => Healthy
    PROVE  Truth'
  <1>1. result'.cmd = cmd /\ result'.path = p /\ result'.why = why /\ result'.bytes = bytes
    BY DEF Finish
  <1>2. (Exists(p)' <=> p \in DOMAIN Cat) /\ (p \in DOMAIN Cat => File(p)' = Cat[p])
    <2>1. Exists(p)' <=> p \in DOMAIN Cat'
      BY ExistsIs
    <2>2. File(p)' = File(p)
      BY DEF File, Vol
    <2> QED BY <2>1, <2>2, ExistsIs
  <1>3. CASE why = "done"
    <2>1. p \in DOMAIN Cat /\ Cat[p].size # 0 /\ Shows(cmd, Cat[p], bytes)
      BY <1>3 DEF Ending
    <2>2. WholeOrNothing'
      BY <1>1, <1>2, <2>1 DEF WholeOrNothing, Shows
    <2>3. CatShows'
      BY <1>1, <1>2, <1>3, <2>1 DEF CatShows, Shows, Healthy
    <2> QED BY <2>2, <2>3 DEF Truth
  <1>4. CASE why # "done"
    <2>1. WholeOrNothing'
      BY <1>1, <1>4 DEF WholeOrNothing
    <2>2. CatShows'
      BY <1>1, <1>2, <1>4 DEF CatShows, Ending, Healthy
    <2> QED BY <2>1, <2>2 DEF Truth
  <1> QED BY <1>3, <1>4
-----------------------------------------------------------------------------
LEMMA SameFsCat == fs' = fs /\ Vol' = Vol => Cat' = Cat
  BY DEF Cat, Empty

LEMMA StillTold ==
    ASSUME TellInv, result' = result, client' = client, fs' = fs, Vol' = Vol, Healthy' => Healthy,
           fs' = NoFs /\ reply' = NoReply => result = NoResult
    PROVE  TellInv'
  <1>1. Truth'
    BY SameFsCat, TruthStays DEF TellInv
  <1> QED BY <1>1 DEF TellInv

LEMMA EndTold ==
    ASSUME NEW why, NEW bytes, Finish(why, bytes), NEW cmd \in {"cat", "load"}, cmd = job.cmd, NEW p, p = job.path,
           Ending(cmd, p, why, bytes), fs' = fs, Vol' = Vol, Healthy' => Healthy, client' = "shell",
           reply'.op \in {"open", "close"}
    PROVE  TellInv'
  <1>1. Truth'
    BY SameFsCat, FinishTells
  <1>2. reply' # NoReply
    BY DEF NoReply
  <1> QED BY <1>1, <1>2 DEF TellInv

LEMMA ClosedReply ==
    ASSUME NEW v \in Vfds, InUse(v), vfs_close(v)
    PROVE  reply'.op = "close" /\ fs' = fs
  <1>1. fat_close(vfs_fds[v].fat_fd)
    BY DEF vfs_close, VValid, InUse
  <1> QED BY <1>1 DEF fat_close, Reply

LEMMA OpenedTells ==
    ASSUME FullInv, FullInv', TellInv, Vol' = Vol, Healthy' => Healthy, FileOpened, client' = client
    PROVE  TellInv'
  <1>1. /\ job # NoJob /\ job.at = "open" /\ call = None /\ client = "shell" /\ Owners /\ DiskInv
        /\ job.cmd \in {"cat", "load"} /\ WasOpened
    BY DEF FileOpened, FullInv, LinkInv, Commanding, JobInv
  <1>2. (reply.ok = TRUE /\ OnlyOpen(vfd)) \/ (reply.ok = FALSE /\ reply.op = "open")
    <2>1. Opening
      BY <1>1 DEF FullInv, LinkInv, Commanding
    <2> QED BY <1>1, <2>1, NoneIsIdle DEF Opening
  <1>3. PICK cmd, p : cmd = job.cmd /\ p = job.path
    OBVIOUS
  <1>4. CASE reply.ok = FALSE /\ reply.op = "open"
    <2>1. Finish("not found", <<>>) /\ UNCHANGED vars
      BY <1>4 DEF FileOpened
    <2>2. Ending(cmd, p, "not found", <<>>)
      BY <1>1, <1>3, <1>4 DEF WasOpened, Ending
    <2>3. fs' = fs /\ reply' = reply
      BY <2>1 DEF vars, fatVars
    <2> QED BY <1>1, <1>3, <1>4, <2>1, <2>2, <2>3, EndTold
  <1>5. CASE reply.ok = TRUE /\ OnlyOpen(vfd)
    <2>1. vfd \in Vfds /\ InUse(vfd)
      BY <1>5 DEF OnlyOpen
    <2>2. p \in DOMAIN Cat /\ Cat[p].size = vfs_size(vfd)
      <3>1. p \in DOMAIN Cat /\ Han[vfd] = OpenAt(Cat[p], 0)
        BY <1>1, <1>3, <1>5 DEF WasOpened
      <3>2. Han[vfd].file.size = vfs_size(vfd)
        BY <1>1, <2>1, SizeIs
      <3> QED BY <3>1, <3>2 DEF OpenAt
    <2>3. \/ vfs_size(vfd) = 0 /\ Finish("empty", <<>>) /\ vfs_close(vfd)
          \/ vfs_size(vfd) # 0 /\ Finish("no memory", <<>>) /\ vfs_close(vfd)
          \/ vfs_read(vfd, Room) /\ result' = result
      BY <1>5 DEF FileOpened
    <2>4. CASE vfs_size(vfd) = 0 /\ Finish("empty", <<>>) /\ vfs_close(vfd)
      <3>1. Ending(cmd, p, "empty", <<>>)
        BY <2>2, <2>4 DEF Ending
      <3> QED BY <1>1, <1>3, <2>1, <2>4, <3>1, ClosedReply, EndTold
    <2>5. CASE vfs_size(vfd) # 0 /\ Finish("no memory", <<>>) /\ vfs_close(vfd)
      <3>1. Ending(cmd, p, "no memory", <<>>)
        BY <2>2, <2>5 DEF Ending
      <3> QED BY <1>1, <1>3, <2>1, <2>5, <3>1, ClosedReply, EndTold
    <2>6. CASE vfs_read(vfd, Room) /\ result' = result
      <3>1. fs' = fs
        BY <2>6 DEF vfs_read, Refuse, StartRead
      <3>2. call'.op = "read" \/ (call' = None /\ reply'.op = "read")
        BY <1>1, <2>6, ReadStarts
      <3>3. fs' = NoFs => call' = None
        BY DEF FullInv, DiskInv, MountInv
      <3>4. ~(fs' = NoFs /\ reply' = NoReply)
        BY <3>2, <3>3, NoneIsIdle DEF NoReply
      <3> QED BY <2>6, <3>1, <3>4, StillTold
    <2> QED BY <2>3, <2>4, <2>5, <2>6
  <1> QED BY <1>2, <1>4, <1>5

LEMMA BackTells ==
    ASSUME FullInv, TellInv, Vol' = Vol, Healthy' => Healthy, ReadBack, client' = client
    PROVE  TellInv'
  <1>1. /\ job # NoJob /\ job.at = "read" /\ call = None /\ client = "shell" /\ DiskInv /\ vfs_close(vfd)
        /\ job.cmd \in {"cat", "load"} /\ WasRead
    BY DEF ReadBack, FullInv, LinkInv, Commanding, JobInv
  <1>2. vfd \in Vfds /\ InUse(vfd)
    BY <1>1 DEF FullInv, LinkInv, Commanding, Reading, OnlyOpen
  <1>3. reply'.op = "close" /\ fs' = fs
    BY <1>1, <1>2, ClosedReply
  <1>4. PICK cmd, p, file : cmd = job.cmd /\ p = job.path /\ file = Cat[p]
    OBVIOUS
  <1>5. /\ p \in DOMAIN Cat /\ file.size # 0 /\ buf = Wanted(cmd, file.size)
        /\ reply.ok = TRUE => Told(file, reply.bytes)
        /\ reply.ok = FALSE => ~Healthy
        /\ reply.ok \in BOOLEAN
    BY <1>1, <1>4 DEF WasRead
  <1>6. CASE Enough
    <2>1. Finish("done", reply.bytes)
      BY <1>6 DEF ReadBack
    <2>2. Told(file, reply.bytes) /\ (cmd = "cat" \/ Len(reply.bytes) = buf)
      BY <1>4, <1>5, <1>6 DEF Enough
    <2>3. file.size \in Nat /\ file.bytes \in Seq(FileByte) /\ Len(file.bytes) <= file.size
      BY <1>1, <1>4, <1>5, FileTyped
    <2>4. Shows(cmd, file, reply.bytes)
      BY <1>1, <1>4, <1>5, <2>2, <2>3, ToldShows
    <2>5. Ending(cmd, p, "done", reply.bytes)
      BY <1>4, <1>5, <2>4 DEF Ending
    <2> QED BY <1>1, <1>3, <1>4, <2>1, <2>5, EndTold
  <1>7. CASE ~Enough
    <2>1. Finish("error", <<>>)
      BY <1>7 DEF ReadBack
    <2>2. cmd = "cat" => ~Healthy
      BY <1>4, <1>5, <1>7 DEF Enough
    <2>3. Ending(cmd, p, "error", <<>>)
      BY <1>4, <1>5, <2>2 DEF Ending
    <2> QED BY <1>1, <1>3, <1>4, <2>1, <2>3, EndTold
  <1> QED BY <1>6, <1>7

LEMMA TellInit == CmdInit => TellInv
  <1>1. CmdInit => result = NoResult
    BY DEF CmdInit
  <1>2. result = NoResult => Truth
    BY DEF Truth, WholeOrNothing, CatShows, NoResult
  <1> QED BY <1>1, <1>2 DEF TellInv

LEMMA TellNext ==
    ASSUME FullInv, FullInv', FilesSeen, TellInv, [CmdNext]_cmdVars
    PROVE  TellInv'
  <1>1. Vol' = Vol /\ (Healthy' => Healthy)
    BY SeenKeeps
  <1>2. CASE UNCHANGED cmdVars
    <2>1. UNCHANGED <<result, client, fs, reply>>
      BY <1>2 DEF cmdVars, vars, fatVars
    <2> QED BY <1>1, <2>1, StillTold DEF TellInv
  <1>3. ASSUME NEW cmd, NEW p, Start(cmd, p), client' = client PROVE TellInv'
    <2>1. result' = NoResult
      BY <1>3 DEF Start
    <2> QED BY <2>1, NothingTold DEF TellInv
  <1>4. ASSUME Work, UNCHANGED <<result, client>> PROVE TellInv'
    <2>1. call # None
      BY <1>4, WorkIs DEF FullInv, LinkInv
    <2>2. fs # NoFs
      BY <2>1 DEF FullInv, DiskInv, MountInv
    <2>3. fs' = fs
      BY <1>4 DEF Work, FatStep, WalkSector, WalkCluster, ReadSector, ReadCluster, SeekCluster, SeekEnd
    <2> QED BY <1>1, <1>4, <2>2, <2>3, StillTold
  <1>5. ASSUME Mount, UNCHANGED <<result, client>> PROVE TellInv'
    <2>1. fs = NoFs /\ reply = NoReply
      BY <1>5 DEF Mount, fat_mount
    <2>2. result' = NoResult
      BY <1>5, <2>1 DEF TellInv
    <2> QED BY <2>2, NothingTold DEF TellInv
  <1>6. ASSUME Call, UNCHANGED <<result, client>> PROVE TellInv'
    <2>1. result' = NoResult
      BY <1>6 DEF TellInv, Call
    <2> QED BY <2>1, NothingTold DEF TellInv
  <1>7. ASSUME Ls, UNCHANGED <<result, client>> PROVE TellInv'
    <2>1. fs' = fs
      BY <1>7 DEF Ls, List, StartList
    <2>2. CASE fs = NoFs
      <3>1. ~fs.mounted
        BY <2>2 DEF NoFs
      <3>2. reply' = Reply("list", 0, FALSE, -1, <<>>)
        BY <1>7, <3>1 DEF Ls, List, StartList, Return
      <3>3. reply' # NoReply
        <4>1. reply'.op = "list" /\ NoReply.op = "none"
          BY <3>2 DEF Reply, NoReply
        <4> QED BY <4>1
      <3> QED BY <1>1, <1>7, <2>1, <3>3, StillTold
    <2>3. CASE fs # NoFs
      BY <1>1, <1>7, <2>1, <2>3, StillTold
    <2> QED BY <2>2, <2>3
  <1>8. CASE CmdNext
    <2>1. client' = client
      BY <1>8 DEF CmdNext
    <2> QED BY <1>1, <1>3, <1>4, <1>5, <1>6, <1>7, <1>8, <2>1, OpenedTells, BackTells DEF CmdNext, Proceed
  <1> QED BY <1>2, <1>8
-----------------------------------------------------------------------------
(* The places of the members of a set of numbers.                           *)
LEMMA RankIs ==
    ASSUME NEW S, IsFiniteSet(S), S \subseteq Nat, NEW i \in S
    PROVE  /\ Rank(S, i) \in 1 .. Cardinality(S)
           /\ \A j \in S : Rank(S, j) = Rank(S, i) => i = j
  <1> DEFINE Below(k) == {j \in S : j <= k}
  <1>1. ASSUME NEW k \in S
        PROVE  IsFiniteSet(Below(k)) /\ Rank(S, k) \in Nat /\ Rank(S, k) <= Cardinality(S) /\ Rank(S, k) # 0
    <2>1. IsFiniteSet(Below(k)) /\ Cardinality(Below(k)) <= Cardinality(S)
      BY FS_Subset
    <2>2. Cardinality(Below(k)) \in Nat
      BY <2>1, FS_CardinalityType
    <2>3. k \in Below(k)
      OBVIOUS
    <2>4. Cardinality(Below(k)) # 0
      BY <2>1, <2>3, FS_EmptySet
    <2> QED BY <2>1, <2>2, <2>4 DEF Rank
  <1>2. ASSUME NEW k \in S, NEW l \in S, k < l, Rank(S, k) = Rank(S, l) PROVE FALSE
    <2>1. Below(k) \in SUBSET Below(l) /\ l \in Below(l) /\ l \notin Below(k)
      <3>1. k \in Nat /\ l \in Nat /\ l <= l /\ ~(l <= k)
        BY <1>2
      <3>2. \A j \in S : j <= k => j <= l
        BY <1>2, <3>1
      <3> QED BY <1>2, <3>1, <3>2
    <2>2. Cardinality(Below(k)) = Cardinality(Below(l))
      BY <1>2 DEF Rank
    <2>3. IsFiniteSet(Below(l))
      BY <1>1
    <2> HIDE DEF Below
    <2> QED BY <2>1, <2>2, <2>3, FS_Subset
  <1>3. Cardinality(S) \in Nat
    BY FS_CardinalityType
  <1>4. ASSUME NEW j \in S, Rank(S, j) = Rank(S, i) PROVE i = j
    <2>1. ~(i < j) /\ ~(j < i)
      BY <1>2, <1>4
    <2> QED BY <2>1
  <1>5. Rank(S, i) \in 1 .. Cardinality(S)
    <2> HIDE DEF Below
    <2> QED BY <1>1, <1>3
  <1> QED BY <1>4, <1>5

(* Numbers that follow others, counted.                                    *)
Within(A, n) == A \subseteq 1 .. n
Shifted(n, V) == {n + l : l \in V}

SizesAdd(U, A, V) ==
    /\ Cardinality(U) = Cardinality(A) + Cardinality(V)
    /\ Cardinality(A) \in Nat /\ Cardinality(V) \in Nat /\ IsFiniteSet(A) /\ IsFiniteSet(V)

LEMMA ShiftedUnion ==
    ASSUME NEW n \in Nat, NEW m \in Nat, NEW A, Within(A, n), NEW V, Within(V, m),
           NEW U, U = A \cup Shifted(n, V)
    PROVE  SizesAdd(U, A, V)
  <1>0. A \subseteq 1 .. n /\ V \subseteq 1 .. m
    BY DEF Within
  <1>1. IsFiniteSet(A) /\ IsFiniteSet(V)
    <2>1. IsFiniteSet(1 .. n) /\ IsFiniteSet(1 .. m)
      BY FS_Interval
    <2> QED BY <1>0, <2>1, FS_Subset
  <1> DEFINE T == Shifted(n, V)
             f == [l \in V |-> n + l]
  <1>2. f \in Bijection(V, T)
    <2>1. f \in [V -> T] /\ \A t \in T : \E l \in V : f[l] = t
      BY DEF Shifted
    <2>2. \A k, l \in V : f[k] = f[l] => k = l
      BY <1>0
    <2> HIDE DEF f, T
    <2> QED BY <2>1, <2>2 DEF Bijection, Injection, IsInjective, Surjection
  <1>3. IsFiniteSet(T) /\ Cardinality(T) = Cardinality(V)
    BY <1>1, <1>2, FS_Bijection DEF ExistsBijection
  <1>4. A \cap T = {}
    BY <1>0 DEF Shifted
  <1>5. Cardinality(A) \in Nat /\ Cardinality(V) \in Nat
    BY <1>1, FS_CardinalityType
  <1> HIDE DEF T
  <1>6. Cardinality(A \cup T) = Cardinality(A) + Cardinality(T) - Cardinality(A \cap T)
    BY <1>1, <1>3, FS_Union
  <1>7. Cardinality(A \cap T) = 0
    BY <1>4, FS_EmptySet
  <1>8. Cardinality(U) = Cardinality(A) + Cardinality(V)
    <2>1. U = A \cup T
      BY DEF T
    <2> QED BY <1>3, <1>5, <1>6, <1>7, <2>1
  <1> QED BY <1>1, <1>5, <1>8 DEF SizesAdd

(* The names of a sector, in their places.                                  *)
NamesOf(sector, V) == [n \in 1 .. Cardinality(V) |-> sector[CHOOSE k \in V : Rank(V, k) = n].name]

LEMMA NamesAre ==
    ASSUME NEW m \in Nat, NEW V, Within(V, m), NEW sector, NEW s, s = NamesOf(sector, V)
    PROVE  /\ \E T : s \in Seq(T)
           /\ Len(s) = Cardinality(V) /\ Cardinality(V) \in Nat
           /\ \A k \in V : Rank(V, k) \in 1 .. Len(s) /\ s[Rank(V, k)] = sector[k].name
  <1>1. IsFiniteSet(V) /\ Cardinality(V) \in Nat
    <2>1. IsFiniteSet(1 .. m) /\ V \in SUBSET (1 .. m)
      BY FS_Interval DEF Within
    <2> QED BY <2>1, FS_Subset, FS_CardinalityType
  <1>2. V \subseteq Nat
    BY DEF Within
  <1> DEFINE c == Cardinality(V)
             h(n) == sector[CHOOSE k \in V : Rank(V, k) = n].name
             S == {h(n) : n \in 1 .. c}
  <1>3. s = [n \in 1 .. c |-> h(n)]
    BY DEF NamesOf
  <1>4. \A n \in 1 .. c : h(n) \in S
    OBVIOUS
  <1>5. ASSUME NEW k \in V PROVE Rank(V, k) \in 1 .. c /\ h(Rank(V, k)) = sector[k].name
    <2>1. Rank(V, k) \in 1 .. c /\ \A l \in V : Rank(V, l) = Rank(V, k) => k = l
      BY <1>1, <1>2, RankIs
    <2>2. (CHOOSE l \in V : Rank(V, l) = Rank(V, k)) = k
      BY <2>1
    <2> QED BY <2>1, <2>2
  <1>6. c \in Nat
    BY <1>1
  <1> HIDE DEF h, S, c
  <1>7. s \in Seq(S) /\ Len(s) = c
    <2>1. s \in [1 .. c -> S]
      BY <1>3, <1>4
    <2>2. s \in Seq(S)
      BY <1>6, <2>1
    <2>3. DOMAIN s = 1 .. c
      BY <2>1
    <2> QED BY <1>6, <2>2, <2>3
  <1> QED BY <1>1, <1>3, <1>5, <1>7 DEF c
-----------------------------------------------------------------------------
(* The names that were listed of the first n entries.                       *)
NoEnd(d, n) == \A k \in 1 .. n : d.slots[k].kind # "end"
UpTo(d, n) == {i \in Listed(d) : i <= n}
NamesTo(d, S, names) ==
    /\ \E T : names \in Seq(T)
    /\ Len(names) = Cardinality(S)
    /\ \A i \in S : names[Rank(Listed(d), i)] = d.slots[i].name
ListTells(d, sector, N, seen) ==
    /\ NamesTo(d, UpTo(d, N + PerSector(d)), seen)
    /\ EndIn(sector) = {} => N + PerSector(d) <= Len(d.slots) /\ NoEnd(d, N + PerSector(d))
    /\ EndIn(sector) # {} => UpTo(d, N + PerSector(d)) = Listed(d)
ShownAt(sector) == {k \in DOMAIN sector : Shown(sector[k]) /\ Before(sector, k)}

LEMMA ShownNames == ASSUME NEW sector PROVE ShownIn(sector) = NamesOf(sector, ShownAt(sector))
  BY DEF ShownIn, NamesOf, ShownAt

(* What the callback is given of a sector is what is listed there.          *)
LEMMA ShownListed ==
    ASSUME OnDisk, NEW n \in Nat, NEW N, N = n * PerSector(D),
           N <= Len(D.slots), NoEnd(D, N), NEW sector, sector = DirSector(D, n)
    PROVE  /\ N \in Nat /\ PerSector(D) \in Nat /\ DOMAIN sector = 1 .. PerSector(D)
           /\ \A k \in 1 .. PerSector(D) : k \in ShownAt(sector) <=> N + k \in Listed(D)
           /\ \A k \in ShownAt(sector) : sector[k] = D.slots[N + k]
           /\ EndIn(sector) = {} => N + PerSector(D) <= Len(D.slots) /\ NoEnd(D, N + PerSector(D))
           /\ EndIn(sector) # {} => \A i \in Listed(D) : i <= N + PerSector(D)
  <1>p. PICK p : p = PerSector(D)
    OBVIOUS
  <1>1. /\ p \in Nat \ {0} /\ N \in Nat
        /\ DOMAIN sector = 1 .. p
        /\ \A k \in 1 .. p : sector[k] = IF N + k \in DOMAIN D.slots THEN D.slots[N + k] ELSE End
    BY <1>p, DirEntries
  <1>2. DOMAIN D.slots = 1 .. Len(D.slots) /\ Len(D.slots) \in Nat
    BY ChainPlaces
  <1>3. End.kind = "end"
    BY DEF End
  <1>4. ASSUME NEW k \in 1 .. p, sector[k].kind # "end" PROVE N + k \in DOMAIN D.slots /\ sector[k] = D.slots[N + k]
    BY <1>1, <1>3, <1>4
  <1>5. ASSUME NEW i \in Listed(D), NEW e \in EndIn(sector) PROVE i < N + e
    <2>1. e \in 1 .. p /\ sector[e].kind = "end"
      BY <1>1 DEF EndIn
    <2>2. i \in 1 .. Len(D.slots)
      BY <1>2, ListedIs
    <2>3. CASE N + e \in DOMAIN D.slots
      <3>1. D.slots[N + e].kind = "end"
        BY <1>1, <2>1, <2>3
      <3> QED BY <2>3, <3>1, ListedIs
    <2>4. CASE N + e \notin DOMAIN D.slots
      BY <1>1, <1>2, <2>1, <2>2, <2>4
    <2> QED BY <2>3, <2>4
  <1>6. ASSUME NEW k \in ShownAt(sector) PROVE k \in 1 .. p /\ N + k \in Listed(D) /\ sector[k] = D.slots[N + k]
    <2>1. k \in 1 .. p /\ Shown(sector[k]) /\ Before(sector, k)
      BY <1>1 DEF ShownAt
    <2>2. N + k \in DOMAIN D.slots /\ sector[k] = D.slots[N + k]
      BY <1>4, <2>1 DEF Shown
    <2>3. D.slots[N + k].kind \in {"file", "dir"}
      <3>1. D.slots[N + k] \in Entries(D)
        BY <2>2, ChainPlaces
      <3> QED BY <2>1, <2>2, <3>1 DEF Shown, Entries
    <2>4. ASSUME NEW j \in DOMAIN D.slots, D.slots[j].kind = "end" PROVE N + k < j
      <3>1. N < j
        BY <1>1, <1>2, <2>4 DEF NoEnd
      <3>2. CASE j <= N + p
        <4>1. PICK e : e = j - N
          OBVIOUS
        <4>2. e \in 1 .. p /\ N + e = j
          BY <1>1, <1>2, <3>1, <3>2, <4>1
        <4>3. e \in EndIn(sector)
          BY <1>1, <2>4, <4>2 DEF EndIn
        <4> QED BY <1>1, <2>1, <4>2, <4>3 DEF Before
      <3>3. CASE ~(j <= N + p)
        BY <1>1, <1>2, <2>1, <3>3
      <3> QED BY <3>2, <3>3
    <2> QED BY <2>1, <2>2, <2>3, <2>4, ListedIs
  <1>7. ASSUME NEW k \in 1 .. p, N + k \in Listed(D) PROVE k \in ShownAt(sector)
    <2>1. N + k \in DOMAIN D.slots /\ D.slots[N + k].kind \in {"file", "dir"}
      BY <1>7, ListedIs
    <2>2. Shown(sector[k])
      BY <1>1, <2>1 DEF Shown
    <2>3. Before(sector, k)
      <3> SUFFICES ASSUME NEW e \in EndIn(sector) PROVE k < e
        BY DEF Before
      <3>1. N + k < N + e /\ e \in 1 .. p
        BY <1>1, <1>5, <1>7 DEF EndIn
      <3> QED BY <1>1, <3>1
    <2> QED BY <1>1, <2>2, <2>3 DEF ShownAt
  <1>8. ASSUME EndIn(sector) = {} PROVE N + p <= Len(D.slots) /\ NoEnd(D, N + p)
    <2>1. ASSUME NEW k \in 1 .. p PROVE N + k \in DOMAIN D.slots /\ D.slots[N + k].kind # "end"
      <3>1. sector[k].kind # "end"
        BY <1>1, <1>8 DEF EndIn
      <3> QED BY <1>4, <3>1
    <2>2. N + p <= Len(D.slots)
      BY <1>1, <1>2, <2>1
    <2>3. ASSUME NEW j \in 1 .. N + p PROVE D.slots[j].kind # "end"
      <3>1. CASE j <= N
        BY <1>1, <2>3, <3>1 DEF NoEnd
      <3>2. CASE ~(j <= N)
        <4>1. j - N \in 1 .. p /\ N + (j - N) = j
          BY <1>1, <2>3, <3>2
        <4> QED BY <2>1, <4>1
      <3> QED BY <3>1, <3>2
    <2> QED BY <2>2, <2>3 DEF NoEnd
  <1>9. ASSUME EndIn(sector) # {}, NEW i \in Listed(D) PROVE i <= N + p
    <2>1. PICK e \in EndIn(sector) : TRUE
      BY <1>9
    <2>2. i < N + e /\ e \in 1 .. p /\ i \in 1 .. Len(D.slots)
      BY <1>1, <1>2, <1>5, <2>1, ListedIs DEF EndIn
    <2> QED BY <1>1, <1>2, <2>2
  <1> QED BY <1>p, <1>1, <1>6, <1>7, <1>8, <1>9
-----------------------------------------------------------------------------
(* Places among the listed, before a sector and in it.                      *)
Positive(L) == L \subseteq Nat \ {0}
Marks(V, L, n, m) == \A k \in 1 .. m : k \in V <=> n + k \in L
Until(L, n) == {i \in L : i <= n}

LEMMA PlaceBefore ==
    ASSUME NEW L, Positive(L), NEW N \in Nat, NEW A, A = Until(L, N), NEW i \in A
    PROVE  Rank(L, i) = Rank(A, i) /\ Rank(A, i) \in 1 .. Cardinality(A)
  <1>0. \A j \in L : j \in Nat \ {0}
    BY DEF Positive
  <1>1. i \in L /\ i \in Nat /\ i <= N /\ A \subseteq L
    BY <1>0 DEF Until
  <1>2. ASSUME NEW j \in L, j <= i PROVE j \in A
    BY <1>0, <1>1, <1>2 DEF Until
  <1>3. {j \in L : j <= i} = {j \in A : j <= i}
    BY <1>1, <1>2
  <1>4. IsFiniteSet(A)
    <2>1. 1 \in Int /\ N \in Int
      OBVIOUS
    <2>2. IsFiniteSet(1 .. N) /\ A \in SUBSET (1 .. N)
      BY <1>0, <2>1, FS_Interval DEF Until
    <2> QED BY <2>2, FS_Subset
  <1>5. A \subseteq Nat
    BY <1>0, <1>1
  <1> QED BY <1>3, <1>4, <1>5, RankIs DEF Rank

LEMMA PlaceIn ==
    ASSUME NEW L, Positive(L), NEW N \in Nat, NEW m \in Nat, NEW A, A = Until(L, N),
           NEW V, Within(V, m), Marks(V, L, N, m), NEW k \in V
    PROVE  Rank(L, N + k) = Cardinality(A) + Rank(V, k)
  <1>0. \A j \in L : j \in Nat \ {0}
    BY DEF Positive
  <1>1. PICK B : B = {l \in V : l <= k}
    OBVIOUS
  <1>2. k \in 1 .. m /\ N + k \in L
    BY DEF Within, Marks
  <1>3. {j \in L : j <= N + k} = A \cup Shifted(N, B)
    <2>1. ASSUME NEW j \in L, j <= N + k PROVE j \in A \cup Shifted(N, B)
      <3>1. CASE j <= N
        BY <3>1 DEF Until
      <3>2. CASE ~(j <= N)
        <4>1. PICK l : l = j - N
          OBVIOUS
        <4>2. l \in 1 .. m /\ N + l = j /\ l <= k
          BY <1>0, <1>2, <2>1, <3>2, <4>1
        <4>3. l \in B
          BY <1>1, <4>2 DEF Marks
        <4> QED BY <4>2, <4>3 DEF Shifted
      <3> QED BY <3>1, <3>2
    <2>2. ASSUME NEW j \in A PROVE j \in L /\ j <= N + k
      <3>1. j \in L /\ j <= N
        BY DEF Until
      <3> QED BY <1>0, <1>2, <3>1
    <2>3. ASSUME NEW j \in Shifted(N, B) PROVE j \in L /\ j <= N + k
      <3>1. PICK l \in B : j = N + l
        BY DEF Shifted
      <3>2. l \in V /\ l <= k /\ l \in 1 .. m
        BY <1>1 DEF Within
      <3> QED BY <1>2, <3>1, <3>2 DEF Marks
    <2> QED BY <2>1, <2>2, <2>3
  <1>4. Within(A, N)
    <2>1. ASSUME NEW j \in A PROVE j \in 1 .. N
      <3>1. j \in L /\ j <= N
        BY DEF Until
      <3> QED BY <1>0, <3>1
    <2> QED BY <2>1 DEF Within
  <1>5. Within(B, m)
    BY <1>1 DEF Within
  <1>6. PICK U : U = A \cup Shifted(N, B)
    OBVIOUS
  <1>7. Cardinality(U) = Cardinality(A) + Cardinality(B)
    <2>1. N \in Nat /\ m \in Nat
      BY <1>0
    <2>2. SizesAdd(U, A, B)
      BY <1>4, <1>5, <1>6, <2>1, ShiftedUnion, Zenon
    <2> QED BY <2>2 DEF SizesAdd
  <1> QED BY <1>1, <1>3, <1>6, <1>7 DEF Rank

LEMMA DirList ==
    ASSUME OnDisk, NEW n \in Nat, NEW N, N = n * PerSector(D),
           N <= Len(D.slots), NoEnd(D, N), NEW sector, sector = DirSector(D, n),
           NEW names, NamesTo(D, UpTo(D, N), names), NEW seen, seen = names \o ShownIn(sector)
    PROVE  ListTells(D, sector, N, seen)
  <1>1. PICK L, p, V, A, B : /\ L = Listed(D) /\ p = PerSector(D) /\ V = ShownAt(sector)
                             /\ A = UpTo(D, N) /\ B = UpTo(D, N + p)
    OBVIOUS
  <1>2. /\ N \in Nat /\ p \in Nat /\ Within(V, p)
        /\ Marks(V, L, N, p)
        /\ \A k \in V : sector[k] = D.slots[N + k]
        /\ EndIn(sector) = {} => N + p <= Len(D.slots) /\ NoEnd(D, N + p)
        /\ EndIn(sector) # {} => \A i \in L : i <= N + p
    <2>1. V \subseteq DOMAIN sector
      BY <1>1 DEF ShownAt
    <2>2. /\ N \in Nat /\ p \in Nat /\ DOMAIN sector = 1 .. p
          /\ \A k \in 1 .. p : k \in V <=> N + k \in L
          /\ \A k \in V : sector[k] = D.slots[N + k]
          /\ EndIn(sector) = {} => N + p <= Len(D.slots) /\ NoEnd(D, N + p)
          /\ EndIn(sector) # {} => \A i \in L : i <= N + p
      BY <1>1, ShownListed
    <2> QED BY <2>1, <2>2 DEF Within, Marks
  <1>3. Positive(L) /\ \A i \in L : i \in Nat \ {0}
    BY <1>1, ListedIs, ChainPlaces DEF Positive
  <1>4. A = Until(L, N) /\ B = Until(L, N + p)
    BY <1>1 DEF UpTo, Until
  <1>5. Within(A, N)
    BY <1>2, <1>3, <1>4 DEF Within, Until
  <1>6. B = A \cup Shifted(N, V)
    <2>1. ASSUME NEW j \in B PROVE j \in A \cup Shifted(N, V)
      <3>0. j \in L /\ j <= N + p /\ j \in Nat
        BY <1>3, <1>4 DEF Until
      <3>1. CASE j <= N
        BY <1>4, <3>0, <3>1 DEF Until
      <3>2. CASE ~(j <= N)
        <4>1. PICK l : l = j - N
          OBVIOUS
        <4>2. l \in 1 .. p /\ N + l = j
          BY <1>2, <3>0, <3>2, <4>1
        <4> QED BY <1>2, <3>0, <4>2 DEF Shifted, Marks
      <3> QED BY <3>1, <3>2
    <2>2. ASSUME NEW j \in A PROVE j \in B
      <3>1. j \in L /\ j <= N /\ j \in Nat
        BY <1>3, <1>4 DEF Until
      <3> QED BY <1>2, <1>4, <3>1 DEF Until
    <2>3. ASSUME NEW j \in Shifted(N, V) PROVE j \in B
      <3>1. PICK k \in V : j = N + k
        BY DEF Shifted
      <3>2. k \in 1 .. p
        BY <1>2 DEF Within
      <3> QED BY <1>2, <1>4, <3>1, <3>2 DEF Marks, Until
    <2> QED BY <2>1, <2>2, <2>3
  <1>7. Cardinality(B) = Cardinality(A) + Cardinality(V) /\ Cardinality(A) \in Nat /\ Cardinality(V) \in Nat
    <2>1. N \in Nat /\ p \in Nat /\ Within(V, p)
      BY <1>2
    <2>2. SizesAdd(B, A, V)
      BY <1>5, <1>6, <2>1, ShiftedUnion, Zenon
    <2> QED BY <2>2 DEF SizesAdd
  <1>8. PICK more : more = ShownIn(sector)
    OBVIOUS
  <1>9. /\ \E T : more \in Seq(T)
        /\ Len(more) = Cardinality(V)
        /\ \A k \in V : Rank(V, k) \in 1 .. Len(more) /\ more[Rank(V, k)] = sector[k].name
    <2>1. more = NamesOf(sector, V)
      BY <1>1, <1>8, ShownNames
    <2> QED BY <1>2, <2>1, NamesAre
  <1>10. /\ \E T : names \in Seq(T)
         /\ Len(names) = Cardinality(A)
         /\ \A i \in A : names[Rank(L, i)] = D.slots[i].name
    BY <1>1 DEF NamesTo
  <1>11. /\ \E T : seen \in Seq(T)
         /\ Len(seen) = Len(names) + Len(more)
         /\ \A i \in 1 .. Len(names) + Len(more) : seen[i] = IF i <= Len(names) THEN names[i] ELSE more[i - Len(names)]
    <2>1. PICK S, T : names \in Seq(S) /\ more \in Seq(T)
      BY <1>9, <1>10
    <2>2. PICK U : U = S \cup T
      OBVIOUS
    <2>3. names \in Seq(U) /\ more \in Seq(U)
      BY <2>1, <2>2
    <2>4. seen = names \o more
      BY <1>8
    <2> QED BY <2>3, <2>4, Joined
  <1>12. ASSUME NEW i \in B PROVE seen[Rank(L, i)] = D.slots[i].name
    <2>1. CASE i \in A
      <3>1. Rank(L, i) = Rank(A, i) /\ Rank(A, i) \in 1 .. Cardinality(A)
        BY <1>2, <1>3, <1>4, <2>1, PlaceBefore
      <3>2. seen[Rank(L, i)] = names[Rank(L, i)]
        BY <1>7, <1>9, <1>10, <1>11, <3>1
      <3> QED BY <1>10, <2>1, <3>2
    <2>2. CASE i \notin A
      <3>1. PICK k \in V : i = N + k
        BY <1>6, <2>2 DEF Shifted
      <3>2. Rank(L, N + k) = Cardinality(A) + Rank(V, k)
        BY <1>2, <1>3, <1>4, PlaceIn
      <3>3. Rank(V, k) \in 1 .. Len(more) /\ more[Rank(V, k)] = sector[k].name
        BY <1>9
      <3>4. PICK x : x = Rank(V, k)
        OBVIOUS
      <3>5. seen[Cardinality(A) + x] = more[x]
        BY <1>7, <1>9, <1>10, <1>11, <3>3, <3>4
      <3> QED BY <1>2, <3>1, <3>2, <3>3, <3>4, <3>5
    <2> QED BY <2>1, <2>2
  <1>13. NamesTo(D, B, seen)
    BY <1>1, <1>7, <1>9, <1>10, <1>11, <1>12 DEF NamesTo
  <1>14. EndIn(sector) # {} => B = L
    BY <1>2, <1>4 DEF Until
  <1> QED BY <1>1, <1>2, <1>13, <1>14 DEF ListTells
-----------------------------------------------------------------------------
(* What a listing in progress has shown, and what one that ended did.       *)
ListedSoFar(d, n, names) == n <= Len(d.slots) /\ NoEnd(d, n) /\ NamesTo(d, UpTo(d, n), names)
Listing(d, c) == \E i \in DOMAIN d.root : c.cluster = d.root[i] /\ ListedSoFar(d, Passed(d, c, i), c.listed)
ListInv == (call.op = "list" => Listing(D, call)) /\ ListsAll

ListAnswer(d, r, mounted) == (r.ok <=> mounted) /\ (r.ok => NamesTo(d, Listed(d), r.bytes))
SomeNames(r) == \E T : r.bytes \in Seq(T)

LEMMA ListsIs ==
    ASSUME reply'.op = "list" /\ Healthy' => ListAnswer(D', reply', fs'.mounted)
    PROVE  ListsAll'
  BY DEF ListsAll, ListAnswer, NamesTo, D, Healthy

LEMMA ListsStay ==
    ASSUME ListsAll, UNCHANGED <<disk, fs, reply>>, Healthy' => Healthy
    PROVE  ListsAll'
  BY DEF ListsAll, Healthy

LEMMA NothingListed ==
    ASSUME call'.op # "list", reply'.op # "list"
    PROVE  ListInv'
  BY DEF ListInv, ListsAll

LEMMA NoNames == NoReply.op # "list" /\ None.op # "list"
  BY DEF NoReply, None

(* A listing that ends.                                                    *)
LEMMA ListEnds ==
    ASSUME SameFs, NEW arg, NEW ok \in BOOLEAN, NEW bytes, call' = None, reply' = Reply("list", arg, ok, -1, bytes),
           Healthy' => (ok = fs.mounted) /\ (ok => NamesTo(D, Listed(D), bytes)), fs.mounted \in BOOLEAN
    PROVE  ListInv'
  <1>1. D' = D /\ fs' = fs
    BY SameDisks DEF SameFs
  <1>2. reply'.op = "list" /\ reply'.ok = ok /\ reply'.bytes = bytes
    BY DEF Reply
  <1>3. ASSUME Healthy' PROVE ListAnswer(D', reply', fs'.mounted)
    BY <1>1, <1>2, <1>3 DEF ListAnswer
  <1>4. ListsAll'
    BY <1>3, ListsIs
  <1> QED BY <1>4, NoNames DEF ListInv

LEMMA ListGoesOn ==
    ASSUME SameFs, ListInv, reply' = reply, NEW b, b = call', Listing(D, b)
    PROVE  ListInv'
  <1>1. D' = D /\ UNCHANGED <<disk, fs>> /\ (Healthy' => Healthy)
    BY SameDisks DEF SameFs
  <1>2. ListsAll'
    BY <1>1, ListsStay DEF ListInv
  <1>3. Listing(D, call)'
    BY <1>1 DEF Listing
  <1> QED BY <1>2, <1>3 DEF ListInv

LEMMA NoneListed ==
    ASSUME OnDisk, NEW n, n = 0
    PROVE  ListedSoFar(D, n, <<>>)
  <1>1. UpTo(D, 0) = {}
    BY ListedIs, ChainPlaces DEF UpTo
  <1>2. Len(<<>>) = Cardinality({}) /\ <<>> \in Seq({})
    BY FS_EmptySet
  <1>3. NamesTo(D, UpTo(D, 0), <<>>)
    BY <1>1, <1>2 DEF NamesTo
  <1> QED BY <1>3, ChainPlaces DEF ListedSoFar, NoEnd

LEMMA ListBegins ==
    ASSUME Owners, DiskInv, ListInv, List
    PROVE  ListInv'
  <1>1. call = None /\ UNCHANGED <<disk, fs, open_files, faults>>
    BY DEF List, StartList
  <1>2. SameFs /\ D' = D
    BY <1>1, SameDisks DEF SameFs, Healthy
  <1>3. CASE ~fs.mounted
    <2>1. call' = None /\ reply' = Reply("list", 0, FALSE, -1, <<>>)
      BY <1>3 DEF List, StartList, Return
    <2>2. fs.mounted = FALSE
      <3>1. fs = NoFs \/ OnDisk
        BY DEF DiskInv, MountInv
      <3> QED BY <1>3, <3>1, FsIs DEF NoFs
    <2> QED BY <1>2, <2>1, <2>2, ListEnds
  <1>4. CASE fs.mounted
    <2>1. call' = Walk("list", "", -1) /\ reply' = NoReply
      BY <1>4 DEF List, StartList, Begin
    <2>2. PICK b : b = call'
      OBVIOUS
    <2>3. b.at = "dir" /\ b.s = 0 /\ b.cluster = fs.root /\ b.listed = <<>>
      BY <2>1, <2>2 DEF Walk
    <2>4. OnDisk
      BY <1>4, MountedIs
    <2>5. fs.root = D.root[1] /\ 1 \in DOMAIN D.root /\ D.spc \in Nat \ {0}
      BY <2>4, ChainPlaces, FsIs
    <2>6. Passed(D, b, 1) = 0
      <3>1. PICK p : p = PerSector(D)
        OBVIOUS
      <3>2. p \in Nat
        <4>1. PICK N : N = 0 * PerSector(D)
          OBVIOUS
        <4> QED BY <2>4, <3>1, <4>1, DirEntries
      <3>3. ((1 - 1) * D.spc + b.s + (IF b.at = "fat" THEN 1 ELSE 0)) = 0
        BY <2>3, <2>5
      <3> QED BY <3>1, <3>2, <3>3 DEF Passed
    <2>7. Listing(D, b)
      BY <2>3, <2>4, <2>5, <2>6, NoneListed DEF Listing
    <2>8. ListsAll'
      BY <2>1, NoNames DEF ListsAll
    <2> QED BY <1>2, <2>2, <2>7, <2>8 DEF ListInv, Listing
  <1> QED BY <1>3, <1>4
-----------------------------------------------------------------------------
(* A listing walks on.                                                     *)
AfterListing(sector) ==
    \E seen : /\ seen = call.listed \o ShownIn(sector)
              /\ IF EndIn(sector) # {} THEN Return(Reply("list", 0, TRUE, -1, seen))
                 ELSE /\ call' = [NextSector EXCEPT !.listed = seen]
                      /\ UNCHANGED reply

LEMMA ListSectorIs ==
    ASSUME WalkSector, call.op = "list"
    PROVE  /\ call.at = "dir" /\ disk' = disk /\ fs' = fs
           /\ \E r \in Outcomes(cluster_to_sector(call.cluster) + call.s) :
                /\ Tried(r)
                /\ \/ ~r.ok /\ Return(Reply("list", call.path, FALSE, -1, <<>>))
                   \/ r.ok /\ AfterListing(r.sector)
  <1>1. call.at = "dir"
    BY DEF WalkSector
  <1>2. PICK r \in Outcomes(cluster_to_sector(call.cluster) + call.s) :
        /\ Tried(r) /\ UNCHANGED <<disk, fs>>
        /\ \/ /\ ~r.ok
              /\ Return(Reply(call.op, call.path, FALSE, -1, <<>>))
              /\ UNCHANGED open_files
           \/ r.ok /\ call.op = "open"
           \/ /\ r.ok /\ call.op = "list"
              /\ LET seen == call.listed \o ShownIn(r.sector)
                 IN  IF EndIn(r.sector) # {} THEN Return(Reply("list", 0, TRUE, -1, seen))
                     ELSE /\ call' = [NextSector EXCEPT !.listed = seen]
                          /\ UNCHANGED reply
              /\ UNCHANGED open_files
    BY Zenon DEF WalkSector
  <1>3. call.op # "open"
    OBVIOUS
  <1>4. \/ ~r.ok /\ Return(Reply("list", call.path, FALSE, -1, <<>>))
        \/ r.ok /\ AfterListing(r.sector)
    BY <1>2, <1>3, Zenon DEF AfterListing
  <1> QED BY <1>1, <1>2, <1>4

LEMMA ListSectorStep ==
    ASSUME Calling, DiskInv, ListInv, WalkSector, call.op = "list"
    PROVE  ListInv'
  <1>1. call.at = "dir" /\ disk' = disk /\ fs' = fs
    BY ListSectorIs
  <1>2. PICK r \in Outcomes(cluster_to_sector(call.cluster) + call.s) :
                /\ Tried(r)
                /\ \/ ~r.ok /\ Return(Reply("list", call.path, FALSE, -1, <<>>))
                   \/ r.ok /\ AfterListing(r.sector)
    BY ListSectorIs
  <1>3. /\ OnDisk /\ D.spc \in Nat \ {0} /\ fs.spc = D.spc /\ PerSector(D) \in Nat \ {0}
        /\ call.s \in 0 .. D.spc - 1 /\ fs.mounted = TRUE
    BY WalksIn, FsIs DEF OnDisk, MountedAs
  <1>4. PICK i \in DOMAIN D.root : call.cluster = D.root[i] /\ ListedSoFar(D, Passed(D, call, i), call.listed)
    BY DEF ListInv, Listing
  <1>5. SameFs /\ (~r.ok => ~Healthy')
    BY <1>1, <1>2, FaultsAre
  <1>6. DOMAIN call = {"op", "path", "fd", "cluster", "s", "at", "listed"} /\ i \in Nat \ {0}
    BY <1>3, ChainPlaces DEF Calling
  <1>7. PICK n : n = (i - 1) * D.spc + call.s
    OBVIOUS
  <1>8. PICK N, b, sector, names, seen : /\ N = n * PerSector(D) /\ b = NextOf(call, fs.spc) /\ sector = r.sector
                                         /\ names = call.listed /\ seen = names \o ShownIn(sector)
    OBVIOUS
  <1>9. /\ b.op = call.op /\ b.path = call.path /\ b.cluster = call.cluster /\ b.listed = call.listed
        /\ b.at \in {"dir", "fat"} /\ b.s \in 0 .. D.spc - 1 /\ (b.at = "fat" => b.s = D.spc - 1)
        /\ b.s + (IF b.at = "fat" THEN 1 ELSE 0) = call.s + 1 /\ DOMAIN b = DOMAIN call
    BY <1>1, <1>3, <1>6, <1>8, NextOfIs
  <1>10. n \in Nat /\ Passed(D, call, i) = N /\ Passed(D, b, i) = N + PerSector(D)
    <2>1. PICK c : c = call
      OBVIOUS
    <2>2. c.s \in 0 .. D.spc - 1 /\ c.at = "dir" /\ n = (i - 1) * D.spc + c.s /\ SectorsOf(b) = c.s + 1
      BY <1>1, <1>3, <1>7, <1>9, <2>1 DEF SectorsOf
    <2>3. PassesOne(D, c, b, i, n)
      BY <1>3, <1>6, <1>7, <1>9, <2>2, PassedOne
    <2> QED BY <1>8, <2>1, <2>3 DEF PassesOne
  <1>11. NextSector = b
    BY <1>8 DEF NextSector, NextOf
  <1>12. CASE ~r.ok
    <2>1. call' = None /\ reply' = Reply("list", call.path, FALSE, -1, <<>>)
      BY <1>2, <1>12 DEF Return
    <2> QED BY <1>3, <1>5, <1>12, <2>1, ListEnds
  <1>13. CASE r.ok
    <2>1. sector = DirSector(D, n)
      BY <1>3, <1>4, <1>7, <1>8, <1>13, DirIs
    <2>2. N <= Len(D.slots) /\ NoEnd(D, N) /\ NamesTo(D, UpTo(D, N), names)
      BY <1>4, <1>8, <1>10 DEF ListedSoFar
    <2>3. ListTells(D, sector, N, seen)
      BY <1>3, <1>8, <1>10, <2>1, <2>2, DirList
    <2>4. PICK m : m = N + PerSector(D)
      OBVIOUS
    <2>5. /\ NamesTo(D, UpTo(D, m), seen)
          /\ EndIn(sector) = {} => m <= Len(D.slots) /\ NoEnd(D, m)
          /\ EndIn(sector) # {} => UpTo(D, m) = Listed(D)
      BY <2>3, <2>4 DEF ListTells
    <2>6. IF EndIn(sector) # {} THEN Return(Reply("list", 0, TRUE, -1, seen))
          ELSE /\ call' = [b EXCEPT !.listed = seen]
               /\ UNCHANGED reply
      <3>1. AfterListing(sector)
        BY <1>2, <1>8, <1>13
      <3> QED BY <1>8, <1>11, <3>1, Zenon DEF AfterListing
    <2>7. CASE EndIn(sector) # {}
      <3>1. call' = None /\ reply' = Reply("list", 0, TRUE, -1, seen)
        BY <2>6, <2>7 DEF Return
      <3>2. NamesTo(D, Listed(D), seen)
        BY <2>5, <2>7
      <3> QED BY <1>3, <1>5, <3>1, <3>2, ListEnds
    <2>8. CASE EndIn(sector) = {}
      <3>1. PICK c : c = [b EXCEPT !.listed = seen]
        OBVIOUS
      <3>2. c = call' /\ reply' = reply
        BY <2>6, <2>8, <3>1
      <3>3. c.at = b.at /\ c.s = b.s /\ c.cluster = D.root[i] /\ c.listed = seen
        BY <1>4, <1>6, <1>9, <3>1
      <3>4. Passed(D, c, i) = m
        BY <1>10, <2>4, <3>3 DEF Passed
      <3>5. ListedSoFar(D, m, c.listed)
        BY <2>5, <2>8, <3>3 DEF ListedSoFar
      <3>6. Listing(D, c)
        BY <3>3, <3>4, <3>5 DEF Listing
      <3> QED BY <1>5, <3>2, <3>6, ListGoesOn
    <2> QED BY <2>7, <2>8
  <1> QED BY <1>12, <1>13

LEMMA ListClusterStep ==
    ASSUME Calling, DiskInv, ListInv, WalkCluster, call.op = "list"
    PROVE  ListInv'
  <1>1. call.at = "fat"
    BY DEF WalkCluster
  <1>2. PICK r \in Outcomes(EntrySector(call.cluster)) :
            /\ Tried(r)
            /\ IF AtEnd(Entry(r, call.cluster))
                 THEN Return(Reply(call.op, call.path, call.op = "list", -1, call.listed))
                 ELSE /\ call' = [call EXCEPT !.cluster = Entry(r, call.cluster), !.s = 0, !.at = "dir"]
                      /\ UNCHANGED reply
            /\ UNCHANGED <<disk, fs, open_files>>
    BY Zenon DEF WalkCluster
  <1>3. /\ OnDisk /\ D.spc \in Nat \ {0} /\ fs.spc = D.spc /\ PerSector(D) \in Nat \ {0}
        /\ call.s = D.spc - 1 /\ fs.mounted = TRUE
    BY <1>1, WalksIn, FsIs DEF OnDisk, MountedAs
  <1>4. PICK i \in DOMAIN D.root : call.cluster = D.root[i] /\ ListedSoFar(D, Passed(D, call, i), call.listed)
    BY DEF ListInv, Listing
  <1>5. SameFs /\ (~r.ok => ~Healthy')
    BY <1>2, FaultsAre
  <1>6. DOMAIN call = {"op", "path", "fd", "cluster", "s", "at", "listed"}
    BY DEF Calling
  <1>9. /\ DOMAIN D.root = 1 .. Len(D.root) /\ ChainOf(D, 0) = D.root /\ 0 \in 0 .. Len(D.slots)
        /\ DOMAIN D.slots = 1 .. Len(D.slots) /\ Len(D.slots) \in Nat /\ Len(D.root) \in Nat
        /\ \A l \in DOMAIN D.root : D.root[l] \in Clusters(D)
        /\ Len(D.slots) <= (Len(D.root) * D.spc) * PerSector(D)
    <2>1. Len(D.slots) <= (Len(D.root) * D.spc) * PerSector(D)
      BY <1>3, FsIs DEF OnDisk, Formatted, PerSector
    <2>2. /\ D.root \in Seq(Clusters(D)) /\ DOMAIN D.root = 1 .. Len(D.root) /\ ChainOf(D, 0) = D.root
          /\ 0 \in 0 .. Len(D.slots) /\ DOMAIN D.slots = 1 .. Len(D.slots) /\ Len(D.slots) \in Nat
          /\ Len(D.root) \in Nat
      BY <1>3, ChainPlaces
    <2> QED BY <2>1, <2>2
  <1>i. i \in Nat \ {0} /\ i <= Len(D.root)
    BY <1>9
  <1>7. PICK c, next, N : c = call /\ next = Entry(r, call.cluster) /\ N = (i * D.spc) * PerSector(D)
    OBVIOUS
  <1>8. Passed(D, c, i) = N /\ \A b : b.s = 0 /\ b.at = "dir" => Passed(D, b, i + 1) = N
    <2>1. c.s = D.spc - 1 /\ c.at = "fat"
      BY <1>1, <1>3, <1>7
    <2> QED BY <1>3, <1>i, <1>7, <2>1, PassedAll
  <1>10. next = IF ~r.ok THEN EOC_MIN ELSE IF i < Len(D.root) THEN D.root[i + 1] ELSE EOC_MIN + 1
    BY <1>3, <1>4, <1>7, <1>9, EntryIs
  <1>11. EOC_MIN \in Nat
    BY EntryAssumption
  <1>14. ListedSoFar(D, N, call.listed)
    BY <1>4, <1>7, <1>8
  <1>12. CASE AtEnd(next)
    <2>1. PICK bytes : bytes = call.listed
      OBVIOUS
    <2>2. call' = None /\ reply' = Reply("list", call.path, TRUE, -1, bytes)
      BY <1>2, <1>7, <1>12, <2>1 DEF Return
    <2>3. ~r.ok \/ i = Len(D.root)
      <3> SUFFICES ASSUME r.ok, i < Len(D.root) PROVE FALSE
        BY <1>i, <1>9
      <3>1. i + 1 \in DOMAIN D.root
        BY <1>i, <1>9
      <3>2. D.root[i + 1] \in Clusters(D)
        BY <1>9, <3>1
      <3>3. D.root[i + 1] \in Nat /\ D.root[i + 1] < EOC_MIN
        BY <3>2, ClusterIs
      <3> QED BY <1>10, <1>11, <1>12, <3>3 DEF AtEnd
    <2>4. Healthy' => NamesTo(D, Listed(D), bytes)
      <3>1. CASE ~r.ok
        BY <1>5, <3>1
      <3>2. CASE i = Len(D.root)
        <4>1. Len(D.slots) <= N /\ N <= Len(D.slots)
          BY <1>7, <1>9, <1>14, <3>2 DEF ListedSoFar
        <4>2. UpTo(D, N) = Listed(D)
          <5>1. N \in Int
            <6>1. i * D.spc \in Nat
              BY <1>i, <1>3
            <6> QED BY <1>3, <1>7, <6>1
          <5>2. ASSUME NEW k \in Listed(D) PROVE k <= N
            <6>1. k \in 1 .. Len(D.slots)
              BY <1>3, <1>9, ListedIs
            <6> QED BY <1>9, <4>1, <5>1, <6>1
          <5> QED BY <5>2 DEF UpTo
        <4> QED BY <1>14, <2>1, <4>2 DEF ListedSoFar
      <3> QED BY <2>3, <3>1, <3>2
    <2> QED BY <1>3, <1>5, <2>2, <2>4, ListEnds
  <1>13. CASE ~AtEnd(next)
    <2>1. call' = [call EXCEPT !.cluster = next, !.s = 0, !.at = "dir"] /\ UNCHANGED reply
      BY <1>2, <1>7, <1>13
    <2>2. PICK b : b = call'
      OBVIOUS
    <2>3. b.listed = call.listed /\ b.cluster = next /\ b.s = 0 /\ b.at = "dir"
      BY <1>6, <2>1, <2>2
    <2>4. r.ok /\ i < Len(D.root) /\ next = D.root[i + 1]
      BY <1>10, <1>11, <1>13 DEF AtEnd
    <2>5. i + 1 \in DOMAIN D.root
      BY <1>i, <1>9, <2>4
    <2>6. Passed(D, b, i + 1) = N
      BY <1>8, <2>3
    <2>7. Listing(D, b)
      BY <1>14, <2>3, <2>4, <2>5, <2>6 DEF Listing
    <2> QED BY <1>5, <2>1, <2>2, <2>7, ListGoesOn
  <1> QED BY <1>12, <1>13
-----------------------------------------------------------------------------
(* No other call lists.                                                    *)
LEMMA OthersStart ==
    ASSUME Owners, \/ \E p : vfs_open(p)
                   \/ \E v, n : vfs_read(v, n) \/ vfs_seek(v, n)
                   \/ \E v : vfs_close(v)
    PROVE  ListInv'
  <1>1. ASSUME NEW p, vfs_open(p) PROVE call'.op # "list" /\ reply'.op # "list"
    <2>1. Calling' /\ (call'.op = "open" \/ (call' = None /\ reply'.op = "open"))
      BY <1>1, OpenStarts
    <2>2. call'.op = "open" => reply' = NoReply
      BY <2>1, NoneIsIdle DEF Calling
    <2> QED BY <2>1, <2>2, NoNames
  <1>2. ASSUME NEW v, NEW n, vfs_read(v, n) PROVE call'.op # "list" /\ reply'.op # "list"
    <2>1. Calling' /\ (call'.op = "read" \/ (call' = None /\ reply'.op = "read"))
      BY <1>2, ReadStarts
    <2>2. call'.op = "read" => reply' = NoReply
      BY <2>1, NoneIsIdle DEF Calling
    <2> QED BY <2>1, <2>2, NoNames
  <1>3. ASSUME NEW v, NEW n, vfs_seek(v, n) PROVE call'.op # "list" /\ reply'.op # "list"
    <2>1. Calling'
      BY <1>3, SeekStarts
    <2>2. \/ call' = None /\ reply'.op = "seek"
          \/ call'.op = "seek" /\ reply' = NoReply
      <3>1. CASE ~VValid(v)
        BY <1>3, <3>1 DEF vfs_seek, Refuse, Reply
      <3>2. CASE VValid(v)
        <4>1. StartSeek(vfs_fds[v].fat_fd, n)
          BY <1>3, <3>2 DEF vfs_seek
        <4>2. \/ call' = None /\ \E fd : reply' = Reply("seek", n, FALSE, fd, <<>>)
              \/ reply' = NoReply /\ \E fd, left, from : call' = [op |-> "seek", fd |-> fd, arg |-> n, left |-> left, from |-> from]
          BY <4>1, Zenon DEF StartSeek, Return, Begin
        <4> QED BY <4>2 DEF Reply
      <3> QED BY <3>1, <3>2
    <2> QED BY <2>2, NoNames
  <1>4. ASSUME NEW v, vfs_close(v) PROVE call'.op # "list" /\ reply'.op # "list"
    <2>1. call' = None /\ reply'.op = "close"
      BY <1>4 DEF vfs_close, Refuse, fat_close, Reply
    <2> QED BY <2>1, NoNames
  <1> QED BY <1>1, <1>2, <1>3, <1>4, NothingListed

LEMMA WorkLists == ASSUME FullInv, ListInv, Work PROVE ListInv'
  <1>1. Owners /\ Calling /\ DiskInv /\ FatStep
    BY DEF FullInv, LinkInv, Work
  <1>2. CASE call.op = "list"
    <2>1. WalkSector \/ WalkCluster
      BY <1>1, <1>2 DEF FatStep, ReadSector, ReadCluster, SeekCluster, SeekEnd
    <2> QED BY <1>1, <1>2, <2>1, ListSectorStep, ListClusterStep
  <1>3. CASE call.op # "list"
    <2>1. call # None /\ (Hit \/ Missed \/ GoesOn)
      BY <1>1, FatStepIs
    <2>2. reply = NoReply
      BY <1>1, <2>1 DEF Calling
    <2>3. CASE Hit
      <3>1. call' = None /\ reply'.op = "open"
        BY <2>3 DEF Hit, Reply
      <3> QED BY <3>1, NoNames, NothingListed
    <2>4. CASE Missed
      BY <1>3, <2>4, NoNames, NothingListed DEF Missed
    <2>5. CASE GoesOn
      BY <1>3, <2>2, <2>5, NoNames, NothingListed DEF GoesOn
    <2> QED BY <2>1, <2>3, <2>4, <2>5
  <1> QED BY <1>2, <1>3

LEMMA ListsSame ==
    ASSUME ListInv, UNCHANGED <<disk, fs, call, reply>>, Healthy' => Healthy
    PROVE  ListInv'
  <1>1. ListsAll'
    BY ListsStay DEF ListInv
  <1>2. D' = D
    BY DEF D
  <1> QED BY <1>1, <1>2 DEF ListInv, Listing

LEMMA ListInit == CmdInit => ListInv
  BY DEF CmdInit, VfsInit, FatInit, ListInv, ListsAll, None, NoReply

LEMMA ListNext == ASSUME FullInv, ListInv, [CmdNext]_cmdVars PROVE ListInv'
  <1>1. Owners /\ DiskInv /\ Commanding
    BY DEF FullInv, LinkInv
  <1>2. CASE UNCHANGED vars
    BY <1>2, ListsSame DEF vars, fatVars, Healthy
  <1>3. ASSUME NEW cmd, NEW p, Start(cmd, p) PROVE ListInv'
    BY <1>1, <1>3, OthersStart DEF Start
  <1>4. ASSUME FileOpened PROVE ListInv'
    <2>1. UNCHANGED vars \/ vfs_close(vfd) \/ vfs_read(vfd, Room)
      BY <1>4 DEF FileOpened
    <2> QED BY <1>1, <1>2, <2>1, OthersStart
  <1>5. ASSUME ReadBack PROVE ListInv'
    BY <1>1, <1>5, OthersStart DEF ReadBack
  <1>6. ASSUME Mount PROVE ListInv'
    <2>1. call' = None /\ reply'.op = "mount"
      BY <1>6 DEF Mount, fat_mount, Reply
    <2> QED BY <2>1, NoNames, NothingListed
  <1>7. ASSUME Call PROVE ListInv'
    BY <1>1, <1>7, OthersStart DEF Call
  <1>8. ASSUME Ls PROVE ListInv'
    BY <1>1, <1>8, ListBegins DEF Ls
  <1>9. CASE UNCHANGED cmdVars
    BY <1>2, <1>9 DEF cmdVars
  <1> QED BY <1>3, <1>4, <1>5, <1>6, <1>7, <1>8, <1>9, WorkLists DEF CmdNext, Proceed

(* A listing names every file and directory of the root directory, in its    *)
(* order, and nothing else, while the device works; with what cat and the   *)
(* loader tell, all that a command tells is true (fat_list_root, cmd_cat,   *)
(* task_create_from_path).                                                 *)
THEOREM CommandsTellTruth == CmdSpec => []ToldTheTruth
  <1>1. CmdInit => FullInv /\ TellInv /\ ListInv
    BY FullInit, TellInit, ListInit
  <1>2. FullInv /\ TellInv /\ ListInv /\ [CmdNext]_cmdVars => FullInv' /\ TellInv' /\ ListInv'
    BY FullNext, TellNext, ListNext
  <1>3. TellInv /\ ListInv => ToldTheTruth
    BY DEF TellInv, Truth, ListInv, ToldTheTruth
  <1> QED BY <1>1, <1>2, <1>3, PTL DEF CmdSpec
=============================================================================
