------------------------------ MODULE MCConsole -----------------------------
(* A screen of two rows of five characters, each two pixels by two, with a  *)
(* row of pixels left over and padding between the hardware's rows.         *)
EXTENDS Console, TLC

SmallModes == {[width |-> 10, height |-> 5, pitch |-> 12]}
SmallFont == "a" :> {<<0, 0>>} @@ ">" :> {<<1, 1>>} @@ " " :> {}
SmallRects == {[x |-> 0, y |-> 1, w |-> 3, h |-> 2], [x |-> 8, y |-> 3, w |-> 9, h |-> 5], [x |-> 10, y |-> 0, w |-> 1, h |-> 1]}
ThePrompt == <<">">>
Texts == {<<>>, <<"a", "TAB", "TAB", "a", "CR", ">", "NL">>, <<"a", "BS", ">", "a">>}
=============================================================================
