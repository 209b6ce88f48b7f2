------------------------------- MODULE ElfLoad ------------------------------
(***************************************************************************)
(* The two entry points of the loader that work on the current address      *)
(* space, elf_load and elf_load_at, called one after the other on it.       *)
(* elf_load_into, the one task_create_elf uses, is stepped in Spawn.        *)
(***************************************************************************)
EXTENDS Elf

CONSTANTS Images, LoadAddrs, MaxCalls

VARIABLES mem,       \* the user pages mapped, each with its bytes
          call,      \* the last call: its image, its segments where it puts them, its result
          calls      \* how many calls were made

vars == <<mem, call, calls>>

None == [fn |-> "none", ret |-> -1, segs |-> {}, entry |-> 0]

Init == mem = <<>> /\ call = None /\ calls = 0

elf_load(im) ==
    /\ call' = [fn |-> "elf_load", ret |-> IF Accepted(im) THEN 0 ELSE -1,
                segs |-> LoadableSet(im), entry |-> im.entry]
    /\ mem' = IF Accepted(im) THEN Mapped(mem, im.segments, Loads(im)) ELSE mem

elf_load_at(im, addr) ==
    IF AcceptedAt(im)
      THEN /\ call' = [fn |-> "elf_load_at", ret |-> IF Stops(im, addr) = {} THEN 0 ELSE -1,
                       segs |-> {SegmentsAt(im, addr)[i] : i \in Loads(im)}, entry |-> im.entry + OffsetAt(im, addr)]
           /\ mem' = Mapped(mem, SegmentsAt(im, addr), TurnsAt(im, addr))
      ELSE call' = [None EXCEPT !.fn = "elf_load_at"] /\ UNCHANGED mem

Next ==
    /\ calls < MaxCalls
    /\ calls' = calls + 1
    /\ \E im \in Images : elf_load(im) \/ \E addr \in LoadAddrs : elf_load_at(im, addr)

Spec == Init /\ [][Next]_vars
-----------------------------------------------------------------------------
Bytes == {Zero} \cup 0 .. Max({im.size : im \in Images})
TypeOK ==
    /\ \A p \in DOMAIN mem : mem[p] \in [0 .. PG - 1 -> Bytes]
    /\ call.ret \in {0, -1}
    /\ calls \in 0 .. MaxCalls

(* The reference: the byte the image gives to an address.                  *)
ByteAt(segs, a) ==
    LET s == {q \in segs : q.vaddr <= a /\ a < SegEnd(q)}
    IN  IF s = {} THEN Zero
        ELSE LET q == CHOOSE x \in s : TRUE
             IN  IF a < q.vaddr + q.filesz THEN q.offset + (a - q.vaddr) ELSE Zero

(* After a call that returned 0 every address of every segment holds its    *)
(* byte of the file, or zero past the file data, whatever was loaded in the *)
(* same address space before ("Returns 0 on success", elf.h:90).            *)
ImageLoaded ==
    call.ret = 0 =>
        \A s \in call.segs : \A a \in s.vaddr .. SegEnd(s) - 1 :
            /\ a \div PG \in DOMAIN mem
            /\ mem[a \div PG][a % PG] = ByteAt(call.segs, a)

(* The same, for the images and load addresses that put no two segments on  *)
(* one page.                                                                *)
SegmentsApart ==
    \A s, t \in call.segs : s # t => SegPages(s) \cap SegPages(t) = {}
ApartImageLoaded == SegmentsApart => ImageLoaded

(* No call, accepted or refused half way, maps a page outside the user      *)
(* range.                                                                   *)
UserRangeOnly == \A p \in DOMAIN mem : p * PG >= USER_ADDR_MIN /\ (p + 1) * PG <= USER_ADDR_MAX + 1
=============================================================================
