----------------------------- MODULE CommandLine ----------------------------
(***************************************************************************)
(* The shell's side of a line of input, shell.c: the line kbd_readline has  *)
(* put in the buffer is cut in place into at most SHELL_MAX_ARGS arguments, *)
(* the command is looked up, and cat and run look for the file they name.   *)
(***************************************************************************)
EXTENDS ShortName

CONSTANTS SHELL_MAX_LINE, SHELL_MAX_ARGS,
          Commands,      \* the table: <<name, handler>>
          Directories    \* the root directories: sequences of records

VARIABLES dir, pc,
          typed,         \* history: the line as it was typed
          line,          \* the buffer
          p, argv,       \* the cursor of shell_parse, the arguments found so far
          result         \* what shell_dispatch returned, and the file it opened

vars == <<dir, pc, typed, line, p, argv, result>>

NUL == "NUL"
Keys == {SPACE, DOT} \cup DOMAIN Letters \cup {Letters[c] : c \in DOMAIN Letters} \cup Signs
NoFile == <<>>
NoResult == [status |-> "none"]

Init ==
    /\ dir \in Directories
    /\ pc = "typing" /\ typed = <<>> /\ line = <<>> /\ p = 1 /\ argv = <<>>
    /\ result = NoResult

(* kbd_readline leaves room for the NUL and returns at Enter; an empty line *)
(* is not parsed.                                                          *)
Type ==
    /\ pc = "typing" /\ Len(typed) < SHELL_MAX_LINE - 1
    /\ \E c \in Keys : typed' = Append(typed, c)
    /\ UNCHANGED <<dir, pc, line, p, argv, result>>

Enter ==
    /\ pc = "typing" /\ typed # <<>>
    /\ line' = Append(typed, NUL)
    /\ pc' = "parse" /\ p' = 1 /\ argv' = <<>>
    /\ UNCHANGED <<dir, typed, result>>
-----------------------------------------------------------------------------
(* The C string at position i of the buffer.                                *)
String(i) == SubSeq(line, i, First(line, i, {NUL}) - 1)

(* A slip: the space that ends a token is skipped but not overwritten.      *)
Cut_Kept(end) == line

(* A token is ended by a NUL in place of the space behind it.               *)
Cut(end) == IF line[end] = SPACE THEN [line EXCEPT ![end] = NUL] ELSE line

(* shell_parse: one round of its loop, or its end.                          *)
MoreTokens == line[p] # NUL /\ Len(argv) < SHELL_MAX_ARGS
TokenStart == First(line, p, (Keys \ {SPACE}) \cup {NUL})

Token ==
    /\ pc = "parse" /\ MoreTokens
    /\ LET end == First(line, TokenStart, {SPACE, NUL}) IN
       IF line[TokenStart] = NUL
         THEN p' = TokenStart /\ UNCHANGED <<line, argv>>
         ELSE /\ argv' = Append(argv, TokenStart)
              /\ line' = Cut(end)
              /\ p' = IF line[end] = SPACE THEN end + 1 ELSE end
    /\ UNCHANGED <<dir, pc, typed, result>>

Parsed ==
    /\ pc = "parse" /\ ~MoreTokens
    /\ pc' = "dispatch"
    /\ UNCHANGED <<dir, typed, line, p, argv, result>>
-----------------------------------------------------------------------------
(* shell_strcmp goes on while both have a character and it is the same, and *)
(* compares what it finds next.                                            *)
shell_strcmp(a, b) ==
    LET at(s, i) == IF i \in DOMAIN s THEN s[i] ELSE NUL
        stop == Min({i \in 1 .. Len(a) + 1 : at(a, i) = NUL \/ at(b, i) # at(a, i)})
    IN  at(a, stop) = at(b, stop)

(* The first row of the table with that name, the sentinel if there is none.*)
Row(name) == Min({i \in DOMAIN Commands : shell_strcmp(name, Commands[i].name)}
                     \cup {Len(Commands) + 1})

(* fat_open takes the first record that matches.                            *)
Lookup(path) ==
    LET hits == {i \in DOMAIN dir : fat_name_match(dir[i], path)}
    IN  IF hits = {} THEN NoFile ELSE dir[Min(hits)]

(* cmd_run hands on the name in upper case, cmd_cat as it is.               *)
Path(handler) ==
    IF handler = "run" THEN UpperCase(String(argv[2])) ELSE String(argv[2])

Answer(status, file) == result' = [status |-> status, file |-> file]

(* The handlers, as far as the line matters to them.                        *)
Handle(handler) ==
    IF handler \notin {"cat", "run"} THEN Answer("OK", NoFile)
    ELSE IF Len(argv) < 2 THEN Answer("ARGS", NoFile)
    ELSE Answer(IF Lookup(Path(handler)) = NoFile THEN "FILE" ELSE "OK", Lookup(Path(handler)))

shell_dispatch ==
    /\ pc = "dispatch"
    /\ pc' = "done"
    /\ IF argv = <<>> THEN Answer("EMPTY", NoFile)
       ELSE IF Row(String(argv[1])) \notin DOMAIN Commands THEN Answer("UNKNOWN", NoFile)
       ELSE Handle(Commands[Row(String(argv[1]))].handler)
    /\ UNCHANGED <<dir, typed, line, p, argv>>

(* shell_main reads the next line.                                          *)
Prompt ==
    /\ pc = "done"
    /\ pc' = "typing" /\ typed' = <<>> /\ line' = <<>> /\ p' = 1 /\ argv' = <<>>
    /\ result' = NoResult
    /\ UNCHANGED dir

Next == Type \/ Enter \/ Token \/ Parsed \/ shell_dispatch \/ Prompt

Spec == Init /\ [][Next]_vars
-----------------------------------------------------------------------------
(* Properties.                                                              *)

(* The words of the line: its longest runs without a space, by where they   *)
(* begin.                                                                  *)
Begins == {i \in DOMAIN typed : typed[i] # SPACE /\ (i = 1 \/ typed[i-1] = SPACE)}
WordAt(i) == SubSeq(typed, i, First(typed, i, {SPACE}) - 1)
Nth(n) == CHOOSE i \in Begins : Cardinality({j \in Begins : j <= i}) = n
Word(n) == WordAt(Nth(n))

(* Words: when the line is parsed, argv holds its words in order, as many   *)
(* as there is room for, and each is still the whole word in the buffer.    *)
Words ==
    pc \in {"dispatch", "done"} =>
        /\ Len(argv) = Min({SHELL_MAX_ARGS, Cardinality(Begins)})
        /\ \A n \in DOMAIN argv : String(argv[n]) = Word(n)

(* Dispatched: a line is an empty one, an unknown command, or the command   *)
(* whose name is its first word.                                           *)
Named(w) == {i \in DOMAIN Commands : Commands[i].name = w}
Dispatched ==
    pc = "done" =>
        /\ result.status = "EMPTY" <=> Begins = {}
        /\ result.status = "UNKNOWN" <=> Begins # {} /\ Named(Word(1)) = {}
        /\ result.status = "ARGS" =>
               /\ Cardinality(Begins) = 1
               /\ \E i \in Named(Word(1)) : Commands[i].handler \in {"cat", "run"}

(* OpensListed: cat and run, given in any case the name ls shows for a file,*)
(* open that file; and given a proper name that ls does not show, none.     *)
Proper(s) ==
    LET dot == First(s, 1, {DOT}) IN
    /\ dot - 1 \in 1 .. NAME
    /\ dot <= Len(s) => Len(s) - dot \in 1 .. EXT /\ First(s, dot + 1, {DOT}) > Len(s)
OpensListed ==
    (pc = "done" /\ result.status \in {"OK", "FILE"} /\ Cardinality(Begins) >= 2) =>
        \A i \in Named(Word(1)) :
            (Commands[i].handler \in {"cat", "run"} /\ Proper(Word(2))) =>
                \A d \in Range(dir) :
                    result.file = d <=> Listed(d) = UpperCase(Word(2))
=============================================================================
