-------------------------------- MODULE Elf ---------------------------------
(***************************************************************************)
(* The ELF loader, elf.c, as operators on images.  An image is its header   *)
(* and the sequence of its program headers; the contents of its file are    *)
(* the offsets themselves.  Addresses are far below 2^64 and do not wrap.   *)
(***************************************************************************)
EXTENDS Integers, Sequences, FiniteSets, FiniteSetsExt

CONSTANTS PG,               \* bytes of a page
          USER_ADDR_MIN,    \* the range segments may lie in
          USER_ADDR_MAX,
          EHDR              \* sizeof(Elf64_Ehdr)

Zero == -1                  \* a byte no file data was copied to

SegEnd(s) == s.vaddr + s.memsz

(* elf_validate_header; "ident" stands for magic, class, encoding, type and *)
(* machine.                                                                 *)
elf_validate_header(im) ==
    /\ im.ident
    /\ im.phoff # 0
    /\ Len(im.segments) # 0
    /\ im.phoff + Len(im.segments) * im.phentsize <= im.size

elf_validate_segment(s) ==
    /\ s.memsz >= s.filesz
    /\ s.vaddr >= USER_ADDR_MIN
    /\ SegEnd(s) <= USER_ADDR_MAX

(* The program headers both passes look at, by their index.                 *)
Loads(im) == {i \in DOMAIN im.segments : im.segments[i].type = "load" /\ im.segments[i].memsz # 0}
LoadableSet(im) == {im.segments[i] : i \in Loads(im)}

InFile(im, s) == s.offset + s.filesz <= im.size

LoadBase(segs) == Min({s.vaddr : s \in segs})
LoadEnd(segs) == Max({SegEnd(s) : s \in segs})

(* The first pass of elf_load and elf_load_into.                           *)
Accepted(im) ==
    /\ im.size >= EHDR
    /\ elf_validate_header(im)
    /\ LoadableSet(im) # {}
    /\ \A s \in LoadableSet(im) : elf_validate_segment(s) /\ InFile(im, s)
    /\ im.entry >= LoadBase(LoadableSet(im))
    /\ im.entry < LoadEnd(LoadableSet(im))

(* A slip: the data is copied to the start of the page.                    *)
PageBytes_NoPageOffset(s, page) ==
    [i \in 0 .. PG - 1 |->
        LET a == Max({page * PG, s.vaddr}) + i
        IN  IF a < s.vaddr + s.filesz /\ a < (page + 1) * PG
              THEN s.offset + (a - s.vaddr) ELSE Zero]

(* What the second pass leaves in the frame of a page: zeros, and the file  *)
(* bytes that fall in it.                                                   *)
PageBytes(s, page) ==
    [i \in 0 .. PG - 1 |->
        LET a == page * PG + i
        IN  IF s.vaddr <= a /\ a < s.vaddr + s.filesz
              THEN s.offset + (a - s.vaddr) ELSE Zero]

FirstPage(s) == s.vaddr \div PG
PageEnd(s) == (SegEnd(s) + PG - 1) \div PG
SegPages(s) == FirstPage(s) .. PageEnd(s) - 1

(* The address space after the second pass over the segments whose turn      *)
(* came: in file order, each page over what was mapped there before.         *)
Mapped(mem, segs, turns) ==
    LET Over(p) == {i \in turns : p \in SegPages(segs[i])}
    IN  [p \in DOMAIN mem \cup UNION {SegPages(segs[i]) : i \in turns} |->
            IF Over(p) = {} THEN mem[p] ELSE PageBytes(segs[Max(Over(p))], p)]

(* elf_load_at: the image moved so that its lowest segment starts at addr;  *)
(* it checks less than elf_load, and a segment's range only when its turn   *)
(* to be mapped comes.                                                      *)
Moved(s, by) == [s EXCEPT !.vaddr = @ + by]

AcceptedAt(im) ==
    /\ im.size >= EHDR
    /\ elf_validate_header(im)
    /\ LoadableSet(im) # {}
    /\ \A s \in LoadableSet(im) : InFile(im, s)

OffsetAt(im, addr) == addr - LoadBase(LoadableSet(im))
SegmentsAt(im, addr) == [i \in Loads(im) |-> Moved(im.segments[i], OffsetAt(im, addr))]
Outside(s) == s.vaddr < USER_ADDR_MIN \/ SegEnd(s) > USER_ADDR_MAX
Stops(im, addr) == {i \in Loads(im) : Outside(SegmentsAt(im, addr)[i])}
TurnsAt(im, addr) == {i \in Loads(im) : \A j \in Stops(im, addr) : i < j}
=============================================================================
