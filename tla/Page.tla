-------------------------------- MODULE Page --------------------------------
(***************************************************************************)
(* What the console promises: a page of unlimited length that text is       *)
(* written on; the screen is a window on its end.                           *)
(***************************************************************************)
EXTENDS Naturals, Sequences

CONSTANTS Glyphs, Blank

VARIABLES page,       \* its rows, of equal width; the last one is written on
          column      \* where in it

vars == <<page, column>>

Width == Len(page[1])
Empty == [i \in 1 .. Width |-> Blank]
Init == Len(page) = 1 /\ page = <<Empty>> /\ column = 0

Row == Len(page)
Draw(c) == [page EXCEPT ![Row][column + 1] = c]
MoveTo(pg, col) == IF col < Width THEN page' = pg /\ column' = col
                   ELSE page' = Append(pg, Empty) /\ column' = 0

Write(c) == MoveTo(Draw(c), column + 1)
Newline == MoveTo(page, Width)
Return == MoveTo(page, 0)
Tab == MoveTo(page, (column \div 4 + 1) * 4)
Back == column > 0 /\ MoveTo(page, column - 1)
Erase == column > 0 /\ page' = [page EXCEPT ![Row][column] = Blank] /\ column' = column - 1
Clear == page' = <<Empty>> /\ column' = 0

Next == (\E c \in Glyphs : Write(c)) \/ Newline \/ Return \/ Tab \/ Back \/ Erase \/ Clear
Spec == Init /\ [][Next]_vars
=============================================================================
