----------------------------- MODULE Algorithms -----------------------------
(***************************************************************************)
(* The four sequential algorithms between a line of input and a running     *)
(* program, none of which shares state with another: the shell's parser,    *)
(* the loader on one address space, printf and malloc.  A behaviour runs    *)
(* one of them; the other variables keep their first value.                 *)
(***************************************************************************)
EXTENDS Integers, Sequences, SequencesExt, FiniteSets

CONSTANTS NAME, EXT, Letters, Signs, SHELL_MAX_LINE, SHELL_MAX_ARGS, Commands, Directories,
          PG, USER_ADDR_MIN, USER_ADDR_MAX, EHDR, Images, LoadAddrs, MaxCalls,
          PRINTF_BUF_SIZE, Formats, ArgCount, Strings, Ints,
          W, ALIGN, HEAP_SIZE, Heap, Sizes, Counts, Blocks

(* The array of malloc is aligned and a multiple of the alignment; no        *)
(* request, rounded up and added to the end of the array, wraps: malloc.c:25 *)
(* and 27 test neither.                                                      *)
ASSUME ArenaAssumption ==
    /\ {W, Heap, HEAP_SIZE, 2 ^ W} \subseteq Nat /\ ALIGN \in Nat \ {0}
    /\ Heap % ALIGN = 0 /\ HEAP_SIZE % ALIGN = 0
    /\ Sizes \subseteq Nat /\ Counts \subseteq Nat
    /\ \A size \in Sizes, n \in Counts \cup {1} : Heap + HEAP_SIZE + n * size + ALIGN < 2 ^ W

(* Images are finitely many, their numbers naturals that do not wrap when     *)
(* added; the range of user addresses begins with the first byte of a page    *)
(* and USER_ADDR_MAX is the last byte of one (elf.c:12).                       *)
ASSUME LoaderAssumption ==
    /\ PG \in Nat \ {0} /\ {USER_ADDR_MIN, USER_ADDR_MAX, MaxCalls} \subseteq Nat
    /\ USER_ADDR_MIN % PG = 0 /\ (USER_ADDR_MAX + 1) % PG = 0
    /\ IsFiniteSet(Images) /\ LoadAddrs \subseteq Nat
    /\ \A im \in Images :
           /\ im.size \in Nat /\ im.segments \in Seq([type : STRING, vaddr : Nat, memsz : Nat, filesz : Nat, offset : Nat])

VARIABLES part,
          dir, pc, typed, line, cursor, argv, result,
          mem, call, calls,
          fmt, args, at, arg, buf, done,
          heap_ptr, heap_initialized, blocks, last

shellVars == <<dir, pc, typed, line, cursor, argv, result>>
loadVars == <<mem, call, calls>>
printVars == <<fmt, args, at, arg, buf, done>>
mallocVars == <<heap_ptr, heap_initialized, blocks, last>>
algorithmVars == <<part, shellVars, loadVars, printVars, mallocVars>>

Shell == INSTANCE CommandLine WITH p <- cursor
Loader == INSTANCE ElfLoad
Output == INSTANCE Printf
Arena == INSTANCE Malloc

(* No character of a line is the NUL; the upper case of a letter has no other *)
(* case, a space and a dot have one only.  The names of the commands are      *)
(* different, and the names of a directory are those of 8.3: both parts        *)
(* padded behind, without a dot.                                              *)
Padded(s) ==
    /\ \A i \in DOMAIN s : s[i] # Shell!DOT
    /\ \A i, j \in DOMAIN s : i <= j /\ s[i] = Shell!SPACE => s[j] = Shell!SPACE
ASSUME ShellAssumption ==
    /\ NAME \in Nat \ {0} /\ EXT \in Nat \ {0} /\ SHELL_MAX_ARGS \in Nat \ {0, 1}
    /\ Shell!NUL \notin Shell!Keys
    /\ \A c \in DOMAIN Letters : {c, Letters[c]} \cap {Shell!SPACE, Shell!DOT} = {} /\ Letters[c] \notin DOMAIN Letters
    /\ Commands \in Seq([name : Seq(Shell!Keys), handler : STRING])
    /\ \A i, j \in DOMAIN Commands : Commands[i].name = Commands[j].name => i = j
    /\ \A names \in Directories :
           /\ names \in Seq(Seq(STRING))
           /\ \A i \in DOMAIN names :
                  /\ Len(names[i]) = NAME + EXT
                  /\ Padded(SubSeq(names[i], 1, NAME)) /\ Padded(SubSeq(names[i], NAME + 1, NAME + EXT))

(* The buffer of printf has a byte; a format takes no more arguments than are  *)
(* passed.                                                                    *)
ASSUME PrintfAssumption ==
    /\ PRINTF_BUF_SIZE \in Nat \ {0} /\ ArgCount \in Nat /\ 2 ^ W \in Nat \ {0}
    /\ Strings \subseteq Seq(STRING) /\ Ints \subseteq Int
    /\ \A f \in Formats :
           /\ f \in Seq(STRING)
           /\ Cardinality({i \in 1 .. Len(f) - 1 : f[i] = Output!PERCENT /\ Output!Takes(f[i + 1])}) <= ArgCount

AlgorithmInit ==
    /\ part \in {"shell", "loader", "printf", "malloc"}
    /\ IF part = "shell" THEN TRUE ELSE dir = CHOOSE d \in Directories : TRUE
    /\ IF part = "printf" THEN TRUE
       ELSE fmt = <<>> /\ args = CHOOSE a \in [1 .. ArgCount -> [s : Strings, n : Ints]] : TRUE
    /\ Shell!Init /\ Loader!Init /\ Output!Init /\ Arena!Init

AlgorithmNext ==
    \/ part = "shell" /\ Shell!Next /\ UNCHANGED <<part, loadVars, printVars, mallocVars>>
    \/ part = "loader" /\ Loader!Next /\ UNCHANGED <<part, shellVars, printVars, mallocVars>>
    \/ part = "printf" /\ Output!Next /\ UNCHANGED <<part, shellVars, loadVars, mallocVars>>
    \/ part = "malloc" /\ Arena!Next /\ UNCHANGED <<part, shellVars, loadVars, printVars>>

AlgorithmSpec == AlgorithmInit /\ [][AlgorithmNext]_algorithmVars
-----------------------------------------------------------------------------
(* When a line is parsed, argv holds its words in order, as many as there   *)
(* is room for, each whole in the buffer (shell_parse); the line is empty,  *)
(* an unknown command, or the command whose name is its first word          *)
(* (shell_dispatch); cat and run, given in any case the name ls shows for a *)
(* file, open that file, and none for a proper name ls does not show        *)
(* (fat_name_match).                                                        *)
LineUnderstood == part = "shell" => Shell!Words /\ Shell!Dispatched /\ Shell!OpensListed

(* After a call that returned 0 the addresses of the image hold its bytes,  *)
(* whatever was loaded there before (elf_load, elf_load_at); no call,       *)
(* accepted or refused half way, maps a page outside the user range; and a  *)
(* page's bytes come from the image.                                        *)
ImageFaithful ==
    part = "loader" => Loader!TypeOK /\ Loader!ApartImageLoaded /\ Loader!UserRangeOnly

(* printf writes the text the format stands for, cut where the buffer ends, *)
(* and the digits of a number read back as the number.                      *)
TextPrinted == part = "printf" => Output!Cut /\ Output!ReadsBack

(* Blocks of malloc lie in the array, aligned, and share no byte; malloc    *)
(* refuses only what the rest of the array is too small for.                *)
BlocksDisjoint == part = "malloc" => Arena!Disjoint /\ Arena!UsedUp
=============================================================================
