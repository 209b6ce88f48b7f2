--------------------------- MODULE MCFileCommands ---------------------------
(* Disks with whole and with damaged files, for the commands.                *)
EXTENDS FileCommands, TLC

Ent(kind, name, chain, size) == [kind |-> kind, name |-> name, chain |-> chain, size |-> size]

(* A program of three clusters, a text of two, a directory, an empty file.  *)
Full == [bps |-> 4, spc |-> 2, reserved |-> 2, fats |-> 2, fatsz |-> 5, root |-> <<2, 6>>,
         slots |-> <<Ent("deleted", "a", <<>>, 5), Ent("lfn", "a", <<>>, 0), Ent("file", "a", <<5, 3, 8>>, 19), Ent("label", "b", <<>>, 0),
                     Ent("file", "b", <<4, 9>>, 16), Ent("dir", "d", <<7>>, 0), Ent("file", "e", <<>>, 0)>>]
(* Damaged chains, and a directory that fills its cluster.                  *)
Short == [bps |-> 4, spc |-> 1, reserved |-> 1, fats |-> 1, fatsz |-> 3, root |-> <<2>>,
          slots |-> <<Ent("file", "a", <<3>>, 6), Ent("file", "b", <<4>>, 3)>>]
Fat16 == [Short EXCEPT !.fatsz = 0]

TestDisks == "full" :> Full @@ "short" :> Short @@ "fat16" :> Fat16
=============================================================================
