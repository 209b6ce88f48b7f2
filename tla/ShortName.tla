------------------------------ MODULE ShortName -----------------------------
(***************************************************************************)
(* 8.3 names: what fat_open matches a path against, what ls shows, and the  *)
(* upper case the shell's run takes (fat32.c, shell.c).  A record's name is *)
(* the NAME + EXT characters the disk has, padded with spaces.              *)
(***************************************************************************)
EXTENDS Integers, Sequences, SequencesExt, FiniteSetsExt, FiniteSets

CONSTANTS NAME, EXT,     \* 8 and 3
          Letters,       \* lower case letter -> upper case letter
          Signs          \* characters without case

SPACE == " "
DOT == "."

Upper(c) == IF c \in DOMAIN Letters THEN Letters[c] ELSE c
UpperCase(s) == [i \in DOMAIN s |-> Upper(s[i])]

(* Where, from i on, the first character of C is; past the end if none.     *)
First(s, i, C) == Min({j \in i .. Len(s) : s[j] \in C} \cup {Len(s) + 1})

(* The first n characters in upper case, padded.                            *)
Field(s, n) == [j \in 1 .. n |-> IF j \in DOMAIN s THEN Upper(s[j]) ELSE SPACE]

(* The name a path stands for: all behind the first dot is extension.       *)
Target(path) ==
    LET dot == First(path, 1, {DOT})
    IN  Field(SubSeq(path, 1, dot - 1), NAME) \o Field(SubSeq(path, dot + 1, Len(path)), EXT)

fat_name_match(name, path) == name = Target(path)

(* The name ls shows: both parts up to their first space.                   *)
Listed(name) ==
    LET base == SubSeq(name, 1, NAME)
        ext == SubSeq(name, NAME + 1, NAME + EXT)
        Stripped(s) == SubSeq(s, 1, First(s, 1, {SPACE}) - 1)
    IN  Stripped(base) \o (IF ext[1] = SPACE THEN <<>> ELSE <<DOT>> \o Stripped(ext))
=============================================================================
