----------------------------- MODULE PageTables -----------------------------
(***************************************************************************)
(* The page tables of paging.c.  An address space is a function from the    *)
(* nodes of its radix tree to physical frames: <<>> is the PML4, <<i>> the  *)
(* PDPT entry i of it points to, and so on down to the leaf page            *)
(* <<i4, i3, i2, i1>>.  The lower half of the PML4 is the user's.           *)
(***************************************************************************)
EXTENDS Naturals, Sequences, FiniteSets, FiniteSetsExt

CONSTANT ENTRIES          \* entries of a table (512)

ASSUME EntriesAssumption == ENTRIES \in Nat \ {0, 1}

(* PML4_INDEX, PDPT_INDEX, PD_INDEX and PT_INDEX of a page number: what is  *)
(* shifted out, and what is kept.                                           *)
Shift(page) == page \div ENTRIES
Index(page) == page % ENTRIES

(* A slip: the lowest index is lost.                                        *)
Path_NoPtIndex(page) == 
    <<Index(Shift(Shift(Shift(page)))), Index(Shift(Shift(page))), Index(Shift(page)), 0>>

Path(page) == 
    <<Index(Shift(Shift(Shift(page)))), Index(Shift(Shift(page))), Index(Shift(page)), Index(page)>>

UserHalf == 0 .. (ENTRIES \div 2) - 1

(* The pages a user's segments and stacks may lie on.                      *)
UserPages == {page \in Nat : Shift(Shift(Shift(page))) \in UserHalf}

(* The tables paging_map_page_in has to allocate: all below the first one   *)
(* that is not there, in the order it does.                                 *)
MissingTables(as, page) ==
    LET first == Min({n \in 1 .. 4 : n = 4 \/ SubSeq(Path(page), 1, n) \notin DOMAIN as})
    IN  [i \in 1 .. 4 - first |-> SubSeq(Path(page), 1, first + i - 1)]

(* paging_map_page_in with the frames its allocations return; a leaf that   *)
(* was mapped is replaced.                                                  *)
MapPage(as, page, leaf, frames) ==
    LET new == MissingTables(as, page)
    IN  [n \in DOMAIN as \cup {Path(page)} \cup {new[i] : i \in DOMAIN new} |->
            IF n = Path(page) THEN leaf
            ELSE IF n \in DOMAIN as THEN as[n]
            ELSE frames[CHOOSE i \in DOMAIN new : new[i] = n]]

(* paging_clone_kernel_mappings into a zeroed PML4.                        *)
NewSpace(pml4, kernel) ==
    [n \in {<<>>} \cup DOMAIN kernel |-> IF n = <<>> THEN pml4 ELSE kernel[n]]

(* A slip: the walk covers all of the PML4.                                *)
UserNodes_AllEntries(as) == DOMAIN as \ {<<>>}

(* What paging_free_user_pages visits: everything under the user half but   *)
(* the PML4 itself.                                                         *)
UserNodes(as) == {n \in DOMAIN as : n # <<>> /\ n[1] \in UserHalf}
UserFrames(as) == {as[n] : n \in UserNodes(as)}

LeafOf(as, page) == as[Path(page)]
=============================================================================
