------------------------------ MODULE FrameMap ------------------------------
(***************************************************************************)
(* The arithmetic of pmm.c: what pmm_init derives from the memory map of    *)
(* the boot loader, and the two linear searches of the frame bitmap.  A map *)
(* is a sequence of regions in bytes; the bitmap is the set of its 1 bits.  *)
(***************************************************************************)
EXTENDS Naturals, Sequences, FiniteSets, FiniteSetsExt

CONSTANT PAGE_SIZE        \* bytes of a frame

ASSUME PageAssumption == PAGE_SIZE \in Nat \ {0}

Regions(m) == {m[i] : i \in DOMAIN m}

(* The frames of a region, and those an area of bytes touches.             *)
FramesOf(r) == (r.base \div PAGE_SIZE) .. ((r.base + r.length) \div PAGE_SIZE) - 1
Touched(base, bytes) == 
    (base \div PAGE_SIZE) .. ((base + bytes + PAGE_SIZE - 1) \div PAGE_SIZE) - 1

(* Step 1: the end of the highest region that can hold memory.             *)
MaxPhysAddr(m) ==
    Max({0} \cup {r.base + r.length : 
                    r \in {q \in Regions(m) : q.type \in {"usable", "reclaimable", "kernel"}}})

(* Step 2: one bit per frame.                                              *)
FrameCount(m) == MaxPhysAddr(m) \div PAGE_SIZE
BitmapSize(m) == (FrameCount(m) + 7) \div 8

(* Step 3: the bitmap lies at the start of the first usable region that can *)
(* hold it; 0 when there is none (the ASSERT of pmm_init).                  *)
BitmapPhys(m) ==
    LET fits == {i \in DOMAIN m : m[i].type = "usable" /\ m[i].length >= BitmapSize(m)}
    IN  IF fits = {} THEN 0 ELSE m[Min(fits)].base

Usable(m) == UNION {FramesOf(r) : r \in {q \in Regions(m) : q.type = "usable"}}

BitmapFrames(m) == Touched(BitmapPhys(m), BitmapSize(m))

(* Step 7: the frames of the region that starts where the kernel does.     *)
KernelFrames(m, kernel) ==
    UNION {Touched(r.base, r.length) : 
             r \in {q \in Regions(m) : q.type = "kernel" /\ q.base = kernel}}

(* Steps 4 to 7: everything used, the usable frames freed, the bitmap and   *)
(* the kernel used again.  Bits past the last frame stay set.               *)
InitialBitmap(m, kernel) ==
    LET all == 0 .. FrameCount(m) - 1
    IN  (all \ Usable(m)) \cup BitmapFrames(m) \cup (KernelFrames(m, kernel) \cap all)

(* The counter of the same steps: it grows once per frame of every usable   *)
(* region, and shrinks for a bitmap or kernel frame whose bit was clear.    *)
Freed(m) == UNION {{i} \X FramesOf(m[i]) : i \in {j \in DOMAIN m : m[j].type = "usable"}}
InitialCount(m, kernel) ==
    Cardinality(Freed(m)) - Cardinality(Usable(m) \cap (BitmapFrames(m) \cup KernelFrames(m, kernel)))

(* pmm_alloc_frame and pmm_alloc_frames_contiguous scan upwards: the first  *)
(* clear bit, and the run of n clear bits that ends first.                  *)
Free(used, count) == (0 .. count - 1) \ used
Run(first, n) == first .. first + n - 1

(* A slip in the run search: a used frame does not reset run_length, the    *)
(* run then holds frames that are taken.                                    *)
Runs_NotReset(used, count, n) ==
    {f \in 0 .. count - n : f \notin used /\ Cardinality(Free(used, count)) >= n}

Runs(used, count, n) == {f \in 0 .. count - n : Run(f, n) \cap used = {}}
FirstRun(used, count, n) == Run(Min(Runs(used, count, n)), n)
=============================================================================
