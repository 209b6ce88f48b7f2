------------------------------- MODULE Frames -------------------------------
(***************************************************************************)
(* The physical memory manager, pmm.c, with its clients: whoever is given a *)
(* frame may give it back, once.  In every build of the kernel one task at  *)
(* a time allocates (kmain, then the shell; or the bootstrap task of the    *)
(* tests), so a call is one step.                                           *)
(***************************************************************************)
EXTENDS FrameMap

CONSTANTS MemoryMaps,     \* the maps a boot loader may report, with the kernel's base
          Counts          \* the sizes clients ask for, a set of naturals

(* What the boot loader guarantees of a map: page aligned, disjoint, never  *)
(* address 0, room for the bitmap.                                          *)
ASSUME MapAssumption ==
    \A b \in MemoryMaps :
        /\ b.map \in Seq([type : STRING, base : Nat, length : Nat])
        /\ b.kernel \in Nat
        /\ \A r \in Regions(b.map) : r.base % PAGE_SIZE = 0 /\ r.length % PAGE_SIZE = 0
        /\ \A i, j \in DOMAIN b.map : i # j => FramesOf(b.map[i]) \cap FramesOf(b.map[j]) = {}
        /\ 0 \notin Usable(b.map)
        /\ BitmapPhys(b.map) # 0

ASSUME CountAssumption == Counts \subseteq Nat

VARIABLES boot,           \* the map of this machine (limine_memmap, limine_exec_addr)
          used,           \* the set bits of pmm_bitmap
          pmm_free_frames,
          held,           \* the frames the clients have
          reply,          \* what the last allocation returned, {} for 0
          halted          \* panic or a failed ASSERT stopped the machine

vars == <<boot, used, pmm_free_frames, held, reply, halted>>

pmm_frame_count == FrameCount(boot.map)

(* pmm_init *)
Init ==
    /\ boot \in MemoryMaps
    /\ used = InitialBitmap(boot.map, boot.kernel)
    /\ pmm_free_frames = InitialCount(boot.map, boot.kernel)
    /\ held = {} /\ reply = {} /\ halted = FALSE

Take(S) ==
    /\ used' = used \cup S
    /\ pmm_free_frames' = pmm_free_frames - Cardinality(S)
    /\ held' = held \cup S
    /\ reply' = S
    /\ UNCHANGED <<boot, halted>>

(* pmm_alloc_frame: panics when no bit is clear, never returns 0.           *)
AllocFrame ==
    IF Free(used, pmm_frame_count) # {}
      THEN Take({Min(Free(used, pmm_frame_count))})
      ELSE /\ halted' = TRUE
           /\ reply' = {}
           /\ UNCHANGED <<boot, used, pmm_free_frames, held>>

(* pmm_alloc_frames_contiguous: 0 for no frames, and for no such run.       *)
AllocContiguous(n) ==
    CASE n = 0 -> reply' = {} /\ UNCHANGED <<boot, used, pmm_free_frames, held, halted>>
      [] n = 1 -> AllocFrame
      [] OTHER -> IF Runs(used, pmm_frame_count, n) # {}
                    THEN Take(FirstRun(used, pmm_frame_count, n))
                    ELSE /\ reply' = {}
                         /\ UNCHANGED <<boot, used, pmm_free_frames, held, halted>>

(* A slip: the bit of a returned frame stays set.                         *)
FreeFrame_NotCleared(f) ==
    /\ held' = held \ {f}
    /\ pmm_free_frames' = pmm_free_frames + 1
    /\ UNCHANGED <<boot, used, reply, halted>>

(* pmm_free_frame: the ASSERTs stop the machine at a frame that is not set. *)
FreeFrame(f) ==
    /\ held' = held \ {f}
    /\ IF f < pmm_frame_count /\ f \in used
         THEN /\ used' = used \ {f}
              /\ pmm_free_frames' = pmm_free_frames + 1
              /\ UNCHANGED halted
         ELSE halted' = TRUE /\ UNCHANGED <<used, pmm_free_frames>>
    /\ UNCHANGED <<boot, reply>>

Next ==
    /\ ~halted
    /\ \/ \E n \in Counts : AllocContiguous(n)
       \/ \E f \in held : FreeFrame(f)

Spec == Init /\ [][Next]_vars
-----------------------------------------------------------------------------
(* The count pmm_get_free_frames reports is the number of clear bits.       *)
FreeCountExact == pmm_free_frames = Cardinality(Free(used, pmm_frame_count))

(* No client is ever given a frame of the bitmap itself, of the kernel      *)
(* image, of memory that is not usable, or frame 0, whose address callers   *)
(* take for a failure.                                                      *)
ReservedStays ==
    /\ held \subseteq Usable(boot.map) \ {0}
    /\ held \cap (BitmapFrames(boot.map) \cup KernelFrames(boot.map, boot.kernel)) = {}

(* The bitmap is what the clients hold and what pmm_init reserved.          *)
NothingLost == used = held \cup InitialBitmap(boot.map, boot.kernel)

(* After any sequence of grants and returns, on every map, the bitmap and   *)
(* the count say what is free, no more and no less (pmm_alloc_frame,        *)
(* pmm_alloc_frames_contiguous, pmm_free_frame).                            *)
FramesAccounted == FreeCountExact /\ ReservedStays /\ NothingLost

(* The allocator implements the abstract owner table.                       *)
Managed == (0 .. pmm_frame_count - 1) \ InitialBitmap(boot.map, boot.kernel)
Owners == INSTANCE FrameOwners WITH
              Sizes <- Counts \cup {1}, managed <- Managed, owned <- held, answer <- reply
ImplementsFrameOwners == Owners!Spec
=============================================================================
