------------------------------- MODULE Printf -------------------------------
(***************************************************************************)
(* printf of the C library, stdio.c: the output is built in one buffer and  *)
(* written once.  An argument has a string, for %s, and an int.             *)
(***************************************************************************)
EXTENDS Integers, Sequences, SequencesExt, FiniteSetsExt

(* Numbers as text: console_print_dec and console_print_hex of the kernel,  *)
(* uint_to_str and int_to_str of the C library.  A digit is its value.      *)
CONSTANT W               \* bits of an int

(* The loop: digits of a number that is not 0, last one first.              *)
Backwards(val, base) ==
    LET f[v \in 0 .. val] == IF v = 0 THEN <<>> ELSE <<v % base>> \o f[v \div base]
    IN  f[val]

uint_to_str(val, base) == IF val = 0 THEN <<0>> ELSE Reverse(Backwards(val, base))

MINUS == "-"
int_to_str(val) ==
    IF val < 0 THEN <<MINUS>> \o uint_to_str(-val, 10) ELSE uint_to_str(val, 10)

(* The same bits as an int and as an unsigned.                              *)
Unsigned(val) == val % (2 ^ W)
-----------------------------------------------------------------------------
CONSTANTS PRINTF_BUF_SIZE,
          Formats,       \* sequences of characters
          ArgCount,      \* how many arguments are passed
          Strings, Ints  \* what they are taken from

VARIABLES fmt, args,
          at, arg,       \* positions in them
          buf, done

vars == <<fmt, args, at, arg, buf, done>>

PERCENT == "%"
Room == Len(buf) < PRINTF_BUF_SIZE - 1
Numbers == {"d", "i", "u", "x", "X", "p"}
Chars == {"c"}

(* What a specifier stands for.                                             *)
Expansion(spec, a) ==
    CASE spec = "s" -> a.s
      [] spec \in {"d", "i"} -> int_to_str(a.n)
      [] spec = "u" -> uint_to_str(Unsigned(a.n), 10)
      [] spec \in {"x", "X"} -> uint_to_str(Unsigned(a.n), 16)
      [] spec = "p" -> <<"0", "x">> \o uint_to_str(Unsigned(a.n), 16)
      [] spec \in Chars -> <<a.n>>
      [] spec = PERCENT -> <<PERCENT>>
      [] OTHER -> <<PERCENT, spec>>
Takes(spec) == spec \in Numbers \cup Chars \cup {"s"}

Init ==
    /\ fmt \in Formats /\ args \in [1 .. ArgCount -> [s : Strings, n : Ints]]
    /\ at = 1 /\ arg = 1 /\ buf = <<>> /\ done = FALSE

(* A slip: the copy stops one character too late.                           *)
Fitted_Late(s) == SubSeq(s, 1, Min({Len(s), PRINTF_BUF_SIZE - Len(buf)}))

(* As much of it as the buffer has room for.                                *)
Fitted(s) == SubSeq(s, 1, Min({Len(s), PRINTF_BUF_SIZE - 1 - Len(buf)}))

Plain ==
    /\ ~done /\ at <= Len(fmt) /\ Room
    /\ fmt[at] # PERCENT
    /\ buf' = Append(buf, fmt[at])
    /\ at' = at + 1
    /\ UNCHANGED <<fmt, args, arg, done>>

Specifier ==
    /\ ~done /\ at < Len(fmt) /\ Room
    /\ fmt[at] = PERCENT
    /\ buf' = buf \o Fitted(Expansion(fmt[at + 1], args[arg]))
    /\ at' = at + 2
    /\ arg' = IF Takes(fmt[at + 1]) THEN arg + 1 ELSE arg
    /\ UNCHANGED <<fmt, args, done>>

(* The end of the format, a format that ends in a percent sign, or of the   *)
(* buffer.                                                                  *)
Finish ==
    /\ ~done
    /\ at > Len(fmt) \/ ~Room \/ (at = Len(fmt) /\ fmt[at] = PERCENT)
    /\ done' = TRUE
    /\ UNCHANGED <<fmt, args, at, arg, buf>>

Next == Plain \/ Specifier \/ Finish
Spec == Init /\ [][Next]_vars
-----------------------------------------------------------------------------
(* What is written is the text the format stands for, cut where the buffer  *)
(* is full.                                                                 *)
Full ==
    LET f[i \in 1 .. Len(fmt) + 2] ==
            [a \in Nat |->
                IF i > Len(fmt) \/ (i = Len(fmt) /\ fmt[i] = PERCENT) THEN <<>>
                ELSE IF fmt[i] # PERCENT THEN <<fmt[i]>> \o f[i + 1][a]
                ELSE Expansion(fmt[i + 1], args[a]) \o f[i + 2][IF Takes(fmt[i + 1]) THEN a + 1 ELSE a]]
    IN  f[1][1]
Cut == done => buf = SubSeq(Full, 1, Min({Len(Full), PRINTF_BUF_SIZE - 1}))

(* The digits read back as the number, and no number starts with a 0.       *)
Value(s, base) ==
    LET f[i \in 0 .. Len(s)] == IF i = 0 THEN 0 ELSE f[i - 1] * base + s[i]
    IN  f[Len(s)]
ReadsBack ==
    \A i \in DOMAIN args, base \in {10, 16} :
        LET s == uint_to_str(Unsigned(args[i].n), base)
        IN  Value(s, base) = Unsigned(args[i].n) /\ (s[1] = 0 => Len(s) = 1)
=============================================================================
