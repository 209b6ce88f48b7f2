----------------------------- MODULE MCPrograms -----------------------------
EXTENDS Algorithms

(* Commands of which one begins like another, names of two characters and   *)
(* one of extension, lines of up to six characters with two arguments.      *)
MCLetters == [a |-> "A", b |-> "B"]
MCCommands == <<[name |-> <<"a">>, handler |-> "cat"], [name |-> <<"a", "b">>, handler |-> "ls"],
                [name |-> <<"b">>, handler |-> "run"]>>
MCDirectories == {<<<<"A", " ", " ">>, <<"A", "B", " ">>, <<"A", " ", "B">>>>,
                  <<<<"B", "A", "A">>, <<"B", " ", "A">>>>, <<>>}

(* Images of two program headers over eight user pages of four bytes, their *)
(* segments on pages of their own, as a page-aligned linker script makes.   *)
Seg(v, m, f, o) == [type |-> "load", vaddr |-> v, memsz |-> m, filesz |-> f, offset |-> o]
Note == [type |-> "note", vaddr |-> 0, memsz |-> 9, filesz |-> 9, offset |-> 0]
Image(entry, segs) ==
    [ident |-> TRUE, size |-> 20, phoff |-> 4, phentsize |-> 2, entry |-> entry, segments |-> segs]
Texts == {Seg(v, m, f, 8) : v \in {8, 10}, m \in {3, 6}, f \in {3, 6}}
Datas == {Seg(v, m, f, 14) : v \in {16, 18, 23}, m \in {0, 5, 8, 9}, f \in {0, 5}}
Broken == {[Image(8, <<Seg(8, 4, 4, 8)>>) EXCEPT !.ident = FALSE],
           [Image(8, <<Seg(8, 4, 4, 8)>>) EXCEPT !.phoff = 19],
           Image(8, <<Seg(8, 4, 4, 18)>>), Image(4, <<Seg(2, 4, 4, 8)>>), Image(8, <<Note>>)}
AlignedImages ==
    {Image(9, <<t, d>>) : t \in Texts, d \in Datas}
      \cup {Image(17, <<Note, d, Seg(8, 6, 3, 8)>>) : d \in Datas} \cup Broken

(* Formats of up to four characters, with two arguments at most.            *)
MCStrings == {<<>>, <<"a", "b">>}
MCInts == {0, 7, -106}
MCFormats == {f \in BoundedSeq({"a", "%", "s", "d", "p", "c", "q"}, 4) :
                Cardinality({i \in DOMAIN f : f[i] = "%"}) <= 2}
=============================================================================
