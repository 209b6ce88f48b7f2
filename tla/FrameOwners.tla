---------------------------- MODULE FrameOwners -----------------------------
(***************************************************************************)
(* What the frame allocator promises: a frame has at most one owner, a      *)
(* grant is a run of frames nobody owns, and a request is refused only when *)
(* it asks for none or no such run exists.                                                      *)
(***************************************************************************)
EXTENDS Naturals, FiniteSets

CONSTANT Sizes       \* the sizes of the requests

VARIABLES managed,   \* the frames that may be handed out
          owned,     \* those that are
          answer     \* the frames the last request got, {} for a refusal

vars == <<managed, owned, answer>>

Consecutive(S, n) == \E f \in S : S = f .. f + n - 1

Available(n) == {f .. f + n - 1 : f \in managed} \cap SUBSET (managed \ owned)

Init == owned = {} /\ answer = {}

Grant(n, S) ==
    /\ S \subseteq managed \ owned
    /\ Consecutive(S, n)
    /\ owned' = owned \cup S
    /\ answer' = S
    /\ UNCHANGED managed

Refuse(n) ==
    /\ n = 0 \/ Available(n) = {}
    /\ answer' = {}
    /\ UNCHANGED <<managed, owned>>

Return(f) ==
    /\ f \in owned
    /\ owned' = owned \ {f}
    /\ UNCHANGED <<managed, answer>>

Next ==
    \/ \E n \in Sizes, f \in managed : Grant(n, f .. f + n - 1)
    \/ \E n \in Sizes : Refuse(n)
    \/ \E f \in owned : Return(f)

Spec == Init /\ [][Next]_vars
=============================================================================
