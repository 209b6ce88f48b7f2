-------------------------------- MODULE Heap --------------------------------
(***************************************************************************)
(* The kernel heap, heap.c, over the frames of pmm.c: arenas of contiguous  *)
(* frames, each tiled by a doubly linked list of blocks; first fit, a split *)
(* on allocation, merging with both neighbours on release.  Addresses are   *)
(* physical ones, 0 is NULL.  The clients keep what they got and free it    *)
(* once; between their calls others take and return frames.                 *)
(***************************************************************************)
EXTENDS Frames, Functions

CONSTANTS HEAP_ALIGN, BLOCK,   \* sizeof(block_t), a multiple of HEAP_ALIGN
          ARENA,               \* sizeof(arena_t)
          Asks                 \* the sizes clients ask for

ASSUME HeapAssumption ==
    /\ {HEAP_ALIGN, BLOCK, ARENA} \subseteq Nat \ {0} /\ Asks \subseteq Nat
    /\ BLOCK % HEAP_ALIGN = 0 /\ PAGE_SIZE % HEAP_ALIGN = 0

VARIABLES arenas,              \* arena_list, a sequence of [first, size, base]
          blocks,              \* header address -> [free, size, next, prev]
          live,                \* the pointers the clients hold
          pointer              \* what the last kmalloc returned

heapVars == <<vars, arenas, blocks, live, pointer>>

ALIGN_UP(x) == ((x + HEAP_ALIGN - 1) \div HEAP_ALIGN) * HEAP_ALIGN
Header == ALIGN_UP(ARENA)

PagesNeeded(size) == (Header + BLOCK + size + PAGE_SIZE - 1) \div PAGE_SIZE

(* The allocator's clients (Counts) include the heap itself.                *)
ASSUME HeapIsClient == 
    {PagesNeeded(PAGE_SIZE)} \cup {PagesNeeded(ALIGN_UP(n)) : n \in Asks} \subseteq Counts

NewArena(S) ==
    [base |-> Min(S) * PAGE_SIZE, size |-> Cardinality(S) * PAGE_SIZE, first |-> Min(S) * PAGE_SIZE + Header]
WholeBlock(a) == [free |-> TRUE, size |-> a.size - Header - BLOCK, next |-> 0, prev |-> 0]

HeapInit == Init /\ arenas = <<>> /\ blocks = [b \in {} |-> 0] /\ live = {} /\ pointer = 0

(* heap_init: an arena that could hold a page, or the machine stops.        *)
heap_init ==
    /\ arenas = <<>>
    /\ AllocContiguous(PagesNeeded(PAGE_SIZE))
    /\ IF reply' = {} THEN UNCHANGED <<arenas, blocks>>
       ELSE LET a == NewArena(reply')
            IN  arenas' = <<a>> /\ blocks' = [b \in {a.first} |-> WholeBlock(a)]
    /\ UNCHANGED <<live, pointer>>

(* Where a search along the next pointers comes to that starts at from and  *)
(* goes on while it is on a block of over.                                  *)
Walk(bs, from, over) ==
    {b \in DOMAIN bs : \A S \in SUBSET DOMAIN bs :
        from \in S /\ (\A u \in S \cap over : bs[u].next \in S \cup {0}) => b \in S}

(* First fit: the first block that fits in the first arena that has one.   *)
Fitting(bs, size) == {b \in DOMAIN bs : bs[b].free /\ bs[b].size >= size}
Hit(bs, a, size) ==
    LET found == Walk(bs, a.first, DOMAIN bs \ Fitting(bs, size)) \cap Fitting(bs, size)
    IN  IF found = {} THEN 0 ELSE CHOOSE b \in found : TRUE
Hits(as, bs, size) == {i \in DOMAIN as : Hit(bs, as[i], size) # 0}
FirstFit(as, bs, size) == Hit(bs, as[Min(Hits(as, bs, size))], size)

(* A slip: the remainder forgets that it starts with a header.             *)
Split_NoHeader(bs, b, size) ==
    LET new == b + BLOCK + size
        rest == [free |-> TRUE, size |-> bs[b].size - size, next |-> bs[b].next, prev |-> b]
    IN  IF bs[b].size - size < BLOCK + HEAP_ALIGN THEN bs
        ELSE [x \in DOMAIN bs \cup {new} |->
                CASE x = new -> rest
                  [] x = b -> [bs[b] EXCEPT !.next = new, !.size = size]
                  [] x = bs[b].next -> [bs[x] EXCEPT !.prev = new]
                  [] OTHER -> bs[x]]

(* A slip: the block after the split one keeps pointing back to it.        *)
Split_NoBackLink(bs, b, size) ==
    LET new == b + BLOCK + size
        rest == [free |-> TRUE, size |-> bs[b].size - size - BLOCK, next |-> bs[b].next, prev |-> b]
    IN  IF bs[b].size - size < BLOCK + HEAP_ALIGN THEN bs
        ELSE [x \in DOMAIN bs \cup {new} |->
                CASE x = new -> rest
                  [] x = b -> [bs[b] EXCEPT !.next = new, !.size = size]
                  [] OTHER -> bs[x]]

(* The split of a block that leaves room for a header and a unit.          *)
Split(bs, b, size) ==
    LET new == b + BLOCK + size
        rest == [free |-> TRUE, size |-> bs[b].size - size - BLOCK, next |-> bs[b].next, prev |-> b]
    IN  IF bs[b].size - size < BLOCK + HEAP_ALIGN THEN bs
        ELSE [x \in DOMAIN bs \cup {new} |->
                CASE x = new -> rest
                  [] x = b -> [bs[b] EXCEPT !.next = new, !.size = size]
                  [] x = bs[b].next -> [bs[x] EXCEPT !.prev = new]
                  [] OTHER -> bs[x]]

Give(as, bs, size) ==
    LET b == FirstFit(as, bs, size)
    IN  /\ blocks' = [Split(bs, b, size) EXCEPT ![b].free = FALSE]
        /\ live' = live \cup {b + BLOCK}
        /\ pointer' = b + BLOCK
        /\ arenas' = as

(* heap_expand_size and a second search, which finds what it brought; the   *)
(* frame allocator may refuse, or stop the machine.                         *)
Expand(size) ==
    /\ AllocContiguous(PagesNeeded(size))
    /\ IF reply' = {} THEN pointer' = 0 /\ UNCHANGED <<arenas, blocks, live>>
       ELSE LET a == NewArena(reply')
            IN  Give(Append(arenas, a),
                     [x \in DOMAIN blocks \cup {a.first} |-> IF x = a.first THEN WholeBlock(a) ELSE blocks[x]],
                     size)

(* kmalloc: nothing for nothing, a block that fits, or a new arena at the   *)
(* end of the list.                                                        *)
kmalloc(ask) ==
    LET size == ALIGN_UP(ask)
    IN  /\ arenas # <<>>
        /\ IF ask = 0 THEN pointer' = 0 /\ UNCHANGED <<vars, arenas, blocks, live>>
           ELSE IF Hits(arenas, blocks, size) # {} THEN Give(arenas, blocks, size) /\ UNCHANGED vars
           ELSE Expand(size)

(* A block and the one after it become one.                                *)
Merge(bs, b) ==
    LET n == bs[b].next
    IN  [x \in DOMAIN bs \ {n} |->
            CASE x = b -> [bs[b] EXCEPT !.size = @ + BLOCK + bs[n].size, !.next = bs[n].next]
              [] x = bs[n].next -> [bs[x] EXCEPT !.prev = b]
              [] OTHER -> bs[x]]

(* kfree: free, merged with the next block, then with the previous one.    *)
Released(bs, b) ==
    LET f == [bs EXCEPT ![b].free = TRUE]
        g == IF f[b].next # 0 /\ (f[b].next # 0 => f[f[b].next].free) THEN Merge(f, b) ELSE f
    IN  IF g[b].prev # 0 /\ (g[b].prev # 0 => g[g[b].prev].free) THEN Merge(g, g[b].prev) ELSE g

(* The ASSERTs: a header where the pointer says, and not free.             *)
kfree(p) ==
    /\ live' = live \ {p}
    /\ IF p - BLOCK \in DOMAIN blocks /\ (p - BLOCK \in DOMAIN blocks => ~blocks[p - BLOCK].free)
         THEN blocks' = Released(blocks, p - BLOCK) /\ UNCHANGED halted
         ELSE halted' = TRUE /\ UNCHANGED blocks
    /\ UNCHANGED <<boot, used, pmm_free_frames, held, reply, arenas, pointer>>

(* The rest of the kernel takes frames and returns its own.                *)
ArenaFrames(a) == a.base \div PAGE_SIZE .. (a.base + a.size) \div PAGE_SIZE - 1
Arenas == UNION {ArenaFrames(arenas[i]) : i \in DOMAIN arenas}

OtherCall ==
    /\ \/ \E n \in Counts : AllocContiguous(n)
       \/ \E f \in held \ Arenas : FreeFrame(f)
    /\ UNCHANGED <<arenas, blocks, live, pointer>>

HeapNext ==
    /\ ~halted
    /\ heap_init \/ (\E n \in Asks : kmalloc(n)) \/ (\E p \in live : kfree(p)) \/ OtherCall

HeapSpec == HeapInit /\ [][HeapNext]_heapVars
-----------------------------------------------------------------------------
(* The blocks of an arena, followed from the first.                        *)
Chain(a) == Walk(blocks, a.first, DOMAIN blocks)
End(b) == b + BLOCK + blocks[b].size

(* Every arena is made of frames the allocator has granted and nobody else  *)
(* returns, and is tiled by its list: each block ends where the next header  *)
(* is, the last one at the end of the arena, and the links back mirror the  *)
(* links forward; no header lies outside an arena.                          *)
Tiled ==
    /\ \A i \in DOMAIN arenas : 
        /\ arenas[i].first \in DOMAIN blocks /\ blocks[arenas[i].first].prev = 0
        /\ ArenaFrames(arenas[i]) \subseteq held
        /\ \A b \in Chain(arenas[i]) :
            IF blocks[b].next = 0 THEN End(b) = arenas[i].base + arenas[i].size
            ELSE blocks[b].next = End(b) /\ blocks[End(b)].prev = b
    /\ DOMAIN blocks = UNION {Chain(arenas[i]) : i \in DOMAIN arenas}

(* No two free blocks lie side by side, so an arena whose blocks were all   *)
(* released is one block again, in whatever order they were.                *)
Coalesced == \A b \in DOMAIN blocks : blocks[b].free /\ blocks[b].next # 0 => ~blocks[blocks[b].next].free

(* What the clients of the heap hold are the blocks in use: neither a leaked block nor  *)
(* a failed ASSERT of kfree comes from their calls.                         *)
BlocksAccounted == {b + BLOCK : b \in {x \in DOMAIN blocks : ~blocks[x].free}} = live

(* The lists, the merges and the pointers handed out agree, whatever order  *)
(* the blocks were taken and released in (kmalloc, kfree, heap_expand_size).*)
HeapIntact == Tiled /\ Coalesced /\ BlocksAccounted

(* The heap implements the abstract table of disjoint, aligned ranges.     *)
Ranges == INSTANCE HeapOwners WITH
              Align <- HEAP_ALIGN, ranges <- [p \in live |-> blocks[p - BLOCK].size], answer <- pointer
ImplementsHeapOwners == Ranges!Spec
=============================================================================
