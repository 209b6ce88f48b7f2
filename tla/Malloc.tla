------------------------------- MODULE Malloc -------------------------------
(***************************************************************************)
(* The allocator of user programs, malloc.c: a pointer that only goes up    *)
(* through a static array.  Addresses and sizes are W bits wide.            *)
(***************************************************************************)
EXTENDS Integers, FiniteSets

CONSTANTS W, ALIGN, HEAP_SIZE,
          Heap,          \* address of the array
          Sizes, Counts, \* what programs ask malloc and realloc, calloc for
          Blocks         \* bound on the blocks handed out

VARIABLES heap_ptr, heap_initialized,
          blocks,        \* history: what was handed out, [at, size]
          last           \* history: what was asked for last, and whether it was given

vars == <<heap_ptr, heap_initialized, blocks, last>>

Word(n) == n % (2 ^ W)
NULL == 0

Init ==
    /\ heap_ptr = NULL /\ heap_initialized = FALSE
    /\ blocks = {} /\ last = [size |-> 0, given |-> TRUE]

(* Lazy initialisation.                                                     *)
Here == IF heap_initialized THEN heap_ptr ELSE Heap

(* A slip: sizes are rounded down.                                          *)
Aligned_Down(size) == (size \div ALIGN) * ALIGN

Aligned(size) == (Word(size + ALIGN - 1) \div ALIGN) * ALIGN

Fits(size) == Word(Here + Aligned(size)) <= Heap + HEAP_SIZE

malloc(size, asked) ==
    /\ heap_initialized' = TRUE
    /\ last' = [size |-> asked, given |-> Fits(size)]
    /\ IF Fits(size)
         THEN /\ heap_ptr' = Word(Here + Aligned(size))
              /\ blocks' = blocks \cup {[at |-> Here, size |-> asked]}
         ELSE heap_ptr' = Here /\ UNCHANGED blocks

(* malloc, and realloc, which takes a new block every time; free does       *)
(* nothing.                                                                *)
Malloc == \E size \in Sizes : malloc(size, size)

calloc == \E n \in Counts, size \in Sizes : malloc(Word(n * size), n * size)

Next == Cardinality(blocks) < Blocks /\ (Malloc \/ calloc)

Spec == Init /\ [][Next]_vars
-----------------------------------------------------------------------------
(* Properties.                                                             *)

(* Disjoint: blocks lie in the array, on aligned addresses, and no byte is  *)
(* in two of them.                                                         *)
Bytes(b) == b.at .. b.at + b.size - 1
Disjoint ==
    /\ \A b \in blocks : Bytes(b) \subseteq Heap .. Heap + HEAP_SIZE - 1 /\ b.at % ALIGN = 0
    /\ \A b, c \in blocks : b # c => Bytes(b) \cap Bytes(c) = {}

(* UsedUp: an allocation is refused only if the rest of the array is too    *)
(* small for it, so that every byte of it can be had.                       *)
UsedUp == ~last.given => last.size > Heap + HEAP_SIZE - heap_ptr
=============================================================================
