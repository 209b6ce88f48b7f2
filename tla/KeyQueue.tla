------------------------------ MODULE KeyQueue ------------------------------
(***************************************************************************)
(* What the keyboard promises: the characters a source means are delivered  *)
(* in its order, none twice and none but those; one is lost only when Room  *)
(* of them already wait.                                                    *)
(***************************************************************************)
EXTENDS Naturals, Sequences

CONSTANTS Sources, Chars, Room

VARIABLES typed,       \* Sources -> what it means and is not decoded yet
          waiting,     \* decoded, not yet read
          read         \* the last character read

vars == <<typed, waiting, read>>

Init == typed = [s \in Sources |-> <<>>] /\ waiting = <<>> /\ read = <<"none", FALSE>>

Type(s, c) == typed' = [typed EXCEPT ![s] = Append(@, c)] /\ UNCHANGED <<waiting, read>>

Accept(s) ==
    /\ typed[s] # <<>>
    /\ typed' = [typed EXCEPT ![s] = Tail(@)]
    /\ waiting' = IF Len(waiting) < Room THEN Append(waiting, Head(typed[s])) ELSE waiting
    /\ UNCHANGED read

Read ==
    /\ waiting # <<>>
    /\ read' = Head(waiting)
    /\ waiting' = Tail(waiting)
    /\ UNCHANGED typed

(* A reset of the driver throws away what waits.                           *)
Discard == waiting' = <<>> /\ UNCHANGED <<typed, read>>

Next == \/ \E s \in Sources : Accept(s) \/ \E c \in Chars : Type(s, c)
        \/ Read \/ Discard

Spec == Init /\ [][Next]_vars
=============================================================================
