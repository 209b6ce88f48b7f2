----------------------------- MODULE HeapOwners -----------------------------
(***************************************************************************)
(* What the kernel heap promises: the ranges its clients hold never         *)
(* overlap, a grant is at least as long as was asked for and aligned, and   *)
(* only its client gives a range back.                                      *)
(***************************************************************************)
EXTENDS Integers, FiniteSets

CONSTANTS Asks, Align      \* the sizes of the requests, the alignment of a grant

VARIABLES ranges,          \* pointer -> length, of what the clients hold
          answer           \* the last pointer returned, 0 for NULL

vars == <<ranges, answer>>

Span(p, n) == p .. p + n - 1

Init == ranges = [p \in {} |-> 0] /\ answer = 0

Grant(n) ==
    /\ answer' \notin DOMAIN ranges \cup {0}
    /\ answer' % Align = 0
    /\ DOMAIN ranges' = DOMAIN ranges \cup {answer'}
    /\ \A p \in DOMAIN ranges : 
         /\ ranges'[p] = ranges[p] 
         /\ Span(p, ranges[p]) \cap Span(answer', ranges'[answer']) = {}
    /\ ranges'[answer'] >= n

Refuse == answer' = 0 /\ UNCHANGED ranges

Release(p) ==
    /\ ranges' = [q \in DOMAIN ranges \ {p} |-> ranges[q]]
    /\ UNCHANGED answer

Next ==
    \/ \E n \in Asks : Grant(n)
    \/ Refuse
    \/ \E p \in DOMAIN ranges : Release(p)

Spec == Init /\ [][Next]_vars
=============================================================================
