------------------------------- MODULE MCHeap -------------------------------
(* Pages of six units; a block's header and the alignment take two.         *)
EXTENDS Heap, TLC

R(t, b, n) == [type |-> t, base |-> 6 * b, length |-> 6 * n]

(* A bitmap in the first usable region and a kernel in the middle; a bitmap *)
(* of two frames in the second one, because the first is too small; a       *)
(* kernel below, and memory in two pieces.                                  *)
Maps == {
    [map |-> <<R("reserved", 0, 1), R("usable", 1, 4), R("kernel", 5, 1), R("usable", 6, 2), R("reclaimable", 8, 2)>>, kernel |-> 30],
    [map |-> <<R("usable", 1, 1), R("reserved", 2, 41), R("usable", 43, 5), R("reclaimable", 48, 1), R("kernel", 49, 1)>>, kernel |-> 294],
    [map |-> <<R("kernel", 2, 1), R("usable", 3, 3), R("reserved", 6, 1), R("usable", 7, 2), R("kernel", 10, 1)>>, kernel |-> 12]}
=============================================================================
