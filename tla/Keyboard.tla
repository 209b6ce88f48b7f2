------------------------------ MODULE Keyboard ------------------------------
(***************************************************************************)
(* The PS/2 keyboard driver, kbd.c: the interrupt handler decodes scancodes *)
(* into a ring, one task reads characters and edits a line; in the build of *)
(* the tests a task may also inject keys.  A character is a pair: its key   *)
(* and whether it is the upper one of that key.                             *)
(***************************************************************************)
EXTENDS Integers, Sequences, SequencesExt, FiniteSets

CONSTANTS Letters, Signs,    \* keys caps lock applies to, printable keys it does not
          UserKeys,          \* keys the user has
          Injected,          \* keys a test injects
          KBD_BUFFER_SIZE,
          MaxLine,           \* the max argument of kbd_readline
          MaxKeys,           \* bound: keys pressed, repeated or injected
          Port               \* bound: bytes that wait in the controller

VARIABLES tested,   \* the kernel is the build of the tests, which run unattended
          shift_left, shift_right, caps_lock, ctrl_held, extended_scancode,
          kbd_buffer, kbd_head, kbd_tail,
          port,     \* bytes on their way: [code, press, means], means for the user's intent
          down,     \* keys the user holds
          lock,     \* whether the user has switched caps lock on
          keys,     \* how many keys came so far
          pc,       \* the reader: "away", "getc", "halted", "woken", "check"
          taken,    \* characters this call of kbd_readline took from the ring
          line,     \* dst[0 .. pos)
          last,     \* the last character taken
          inject    \* a kbd_inject_string between its test and its store

decoder == <<shift_left, shift_right, caps_lock, ctrl_held, extended_scancode>>
ring == <<kbd_buffer, kbd_head, kbd_tail>>
user == <<tested, down, lock, keys>>
reader == <<pc, taken, line, last>>
vars == <<decoder, ring, user, port, reader, inject>>

None == <<"none", FALSE>>
Enter == <<"enter", FALSE>>
Backspace == <<"backspace", FALSE>>
Control == {"enter", "backspace", "esc"}
Modifiers == {"lshift", "rshift", "caps", "ctrl"}
CharKeys == Letters \cup Signs \cup Control
Chars == (CharKeys \X BOOLEAN)
Printable(c) == c[1] \in Letters \cup Signs

ASSUME KeyAssumption ==
    /\ KBD_BUFFER_SIZE \in Nat \ {0}
    /\ (Letters \cup Signs) \cap (Control \cup Modifiers \cup {"E0", "none"}) = {}
    /\ UserKeys \subseteq CharKeys \cup Modifiers /\ Injected \subseteq CharKeys

(* Keys of the E0 block share the codes of others: the grey Enter, and the  *)
(* shift a keyboard fakes around the arrows.                                *)
Extended == {"enter", "lshift"}

NoInject == [c |-> None, next |-> 0]

(* kbd_init *)
Init ==
    /\ tested \in BOOLEAN
    /\ shift_left = FALSE /\ shift_right = FALSE /\ caps_lock = FALSE /\ ctrl_held = FALSE
    /\ extended_scancode = FALSE
    /\ kbd_buffer = [i \in 0 .. KBD_BUFFER_SIZE - 1 |-> None] /\ kbd_head = 0 /\ kbd_tail = 0
    /\ port = <<>> /\ down = {} /\ lock = FALSE /\ keys = 0
    /\ pc = "away" /\ taken = <<>> /\ line = <<>> /\ last = None
    /\ inject = NoInject

(* The two tables, and caps lock on letters.                               *)
Upper(key, shift, caps) == 
    CASE key \in Letters -> shift # caps
      [] key \in Signs -> shift
      [] OTHER -> FALSE

(* A slip: caps lock overrides shift instead of inverting it.              *)
kbd_translate_CapsWins(key) == <<key, (shift_left \/ shift_right \/ caps_lock) /\ key \notin Control>>

kbd_translate(key) == <<key, Upper(key, shift_left \/ shift_right, caps_lock)>>
-----------------------------------------------------------------------------
(* The user and the controller, from the interrupts the code handles: the   *)
(* order of presses and releases is the order of the bytes; a held key      *)
(* repeats.  means is the character a press stands for.                     *)
Byte(code, press, means) == [code |-> code, press |-> press, means |-> means]
Send(bytes) == Len(port) + Len(bytes) <= Port /\ port' = port \o bytes

Means(k) ==
    IF k \in CharKeys THEN <<k, Upper(k, down \cap {"lshift", "rshift"} # {}, lock)>> ELSE None

Press(k) ==
    /\ keys < MaxKeys /\ keys' = keys + 1
    /\ k \in Modifiers => k \notin down
    /\ Send(<<Byte(k, TRUE, Means(k))>>)
    /\ down' = down \cup {k}
    /\ lock' = IF k = "caps" THEN ~lock ELSE lock

Release(k) ==
    /\ k \in down
    /\ Send(<<Byte(k, FALSE, None)>>)
    /\ down' = down \ {k}
    /\ UNCHANGED <<lock, keys>>

PressExtended(k, press) ==
    /\ keys < MaxKeys /\ keys' = keys + 1
    /\ Send(<<Byte("E0", TRUE, None), Byte(k, press, None)>>)
    /\ UNCHANGED <<down, lock>>

User ==
    /\ ~tested
    /\ \/ \E k \in UserKeys : Press(k) \/ Release(k)
       \/ \E k \in Extended, press \in BOOLEAN : PressExtended(k, press)
    /\ UNCHANGED <<tested, decoder, ring, reader, inject>>
-----------------------------------------------------------------------------
After(i) == (i + 1) % KBD_BUFFER_SIZE

Push(c) ==
    IF After(kbd_head) # kbd_tail
      THEN /\ kbd_buffer' = [kbd_buffer EXCEPT ![kbd_head] = c]
           /\ kbd_head' = After(kbd_head)
           /\ UNCHANGED kbd_tail
      ELSE UNCHANGED ring

(* kbd_process_scancode *)
Process(key, pressed) ==
    /\ shift_left' = IF key = "lshift" THEN pressed ELSE shift_left
    /\ shift_right' = IF key = "rshift" THEN pressed ELSE shift_right
    /\ ctrl_held' = IF key = "ctrl" THEN pressed ELSE ctrl_held
    /\ caps_lock' = IF key = "caps" /\ pressed THEN ~caps_lock ELSE caps_lock
    /\ IF key \in CharKeys /\ pressed THEN Push(kbd_translate(key)) ELSE UNCHANGED ring

(* A slip: the flag outlives the code it announced.                        *)
kbd_handle_irq_FlagStays(b) ==
    IF b.code = "E0" 
      THEN extended_scancode' = TRUE /\ UNCHANGED <<shift_left, shift_right, caps_lock, ctrl_held, ring>>
    ELSE IF extended_scancode
      THEN UNCHANGED <<decoder, ring>>
    ELSE Process(b.code, b.press) /\ UNCHANGED extended_scancode

kbd_handle_irq(b) ==
    IF b.code = "E0" 
      THEN extended_scancode' = TRUE /\ UNCHANGED <<shift_left, shift_right, caps_lock, ctrl_held, ring>>
    ELSE IF extended_scancode
      THEN extended_scancode' = FALSE /\ UNCHANGED <<shift_left, shift_right, caps_lock, ctrl_held, ring>>
    ELSE Process(b.code, b.press) /\ UNCHANGED extended_scancode

(* Interrupts are on but between the cli and the sti of a getc; one ends    *)
(* the hlt it arrives in.                                                   *)
IF_ == pc # "check"
Woken == IF pc = "halted" THEN "woken" ELSE pc

Irq1 ==
    /\ IF_ /\ port # <<>>
    /\ kbd_handle_irq(Head(port))
    /\ port' = Tail(port)
    /\ pc' = Woken
    /\ UNCHANGED <<user, taken, line, last, inject>>

(* A slip: the timer is masked while the reader sleeps.                    *)
Irq0_Masked == FALSE /\ UNCHANGED vars

(* The timer only matters to a halted reader.                              *)
Irq0 ==
    /\ pc = "halted"
    /\ pc' = "woken"
    /\ UNCHANGED <<decoder, ring, user, port, taken, line, last, inject>>
-----------------------------------------------------------------------------
(* kbd_getc_blocking: in its first round interrupts are on before the sti   *)
(* and may be taken before the hlt; in later rounds sti delays them to it.  *)
Readline ==
    /\ pc = "away" /\ inject = NoInject
    /\ pc' = "getc" /\ taken' = <<>> /\ line' = <<>>
    /\ UNCHANGED <<decoder, ring, user, port, last, inject>>

Halt ==
    /\ pc = "getc"
    /\ pc' = "halted"
    /\ UNCHANGED <<decoder, ring, user, port, taken, line, last, inject>>

Cli ==
    /\ pc = "woken"
    /\ pc' = "check"
    /\ UNCHANGED <<decoder, ring, user, port, taken, line, last, inject>>

(* What kbd_readline does with a character that does not end the line.     *)
Edit(l, c) ==
    IF c = Backspace THEN (IF l # <<>> THEN Front(l) ELSE l)
    ELSE IF Printable(c) THEN Append(l, c) ELSE l

Check ==
    /\ pc = "check"
    /\ IF kbd_head = kbd_tail
         THEN pc' = "halted" /\ UNCHANGED <<ring, taken, line, last>>
         ELSE LET c == kbd_buffer[kbd_tail]
              IN  /\ kbd_tail' = After(kbd_tail)
                  /\ last' = c
                  /\ taken' = Append(taken, c)
                  /\ line' = Edit(line, c)
                  /\ pc' = IF c = Enter \/ Len(Edit(line, c)) = MaxLine - 1 THEN "away" ELSE "getc"
                  /\ UNCHANGED <<kbd_buffer, kbd_head>>
    /\ UNCHANGED <<decoder, user, port, inject>>

(* kbd_getc_nonblock, between its cli and its sti.                          *)
GetcNonblock ==
    /\ pc = "away" /\ inject = NoInject
    /\ kbd_head # kbd_tail
    /\ last' = kbd_buffer[kbd_tail]
    /\ kbd_tail' = After(kbd_tail)
    /\ UNCHANGED <<decoder, user, port, pc, taken, line, kbd_buffer, kbd_head, inject>>

(* kbd_inject_string calls kbd_process_scancode as a task: next_head is     *)
(* computed and compared, and the ring written, with interrupts on.         *)
InjectTest(k) ==
    /\ pc = "away" /\ inject = NoInject
    /\ keys < MaxKeys /\ keys' = keys + 1
    /\ inject' = IF After(kbd_head) # kbd_tail THEN [c |-> kbd_translate(k), next |-> After(kbd_head)]
                 ELSE NoInject
    /\ UNCHANGED <<decoder, ring, port, reader, tested, down, lock>>

InjectStore ==
    /\ inject # NoInject
    /\ kbd_buffer' = [kbd_buffer EXCEPT ![kbd_head] = inject.c]
    /\ kbd_head' = inject.next
    /\ inject' = NoInject
    /\ UNCHANGED <<decoder, user, port, reader, kbd_tail>>

(* kbd_reset_state, under cli.                                             *)
Reset ==
    /\ pc = "away" /\ inject = NoInject
    /\ shift_left' = FALSE /\ shift_right' = FALSE /\ caps_lock' = FALSE /\ ctrl_held' = FALSE
    /\ extended_scancode' = FALSE /\ kbd_head' = 0 /\ kbd_tail' = 0
    /\ UNCHANGED <<user, port, reader, inject, kbd_buffer>>

Driver == Irq1 \/ Irq0 \/ Readline \/ Halt \/ Cli \/ Check
Tests ==
    /\ tested
    /\ GetcNonblock \/ (\E k \in Injected : InjectTest(k)) \/ InjectStore \/ Reset
Next == User \/ Driver \/ Tests

Spec == Init /\ [][Next]_vars

(* The processor runs the reader, interrupts are delivered, the timer ticks *)
(* without end; the user need not type and the shell need not read.         *)
FairSpec == Spec /\ WF_vars(Halt \/ Cli \/ Check) /\ WF_vars(Irq0) /\ WF_vars(Irq1)
-----------------------------------------------------------------------------
Waiting == [i \in 1 .. (kbd_head - kbd_tail) % KBD_BUFFER_SIZE |-> kbd_buffer[(kbd_tail + i - 1) % KBD_BUFFER_SIZE]]

(* What is meant by the bytes that stand for a character, in their order.  *)
Meant == {i \in DOMAIN port : port[i].means # None}
Typed == [n \in 1 .. Cardinality(Meant) |->
            port[CHOOSE i \in Meant : Cardinality({j \in Meant : j < i}) = n - 1].means]

(* Whatever the user types, with any shift, caps lock or extended key in    *)
(* between, the reader gets the characters meant, in order, and loses one   *)
(* only when the ring holds all but one of its size.                        *)
Queue == INSTANCE KeyQueue WITH
            Sources <- {"user", "test"}, Room <- KBD_BUFFER_SIZE - 1,
            typed <- [user |-> Typed, test |-> IF inject = NoInject THEN <<>> ELSE <<inject.c>>],
            waiting <- Waiting, read <- last
ImplementsKeyQueue == Queue!Spec

(* Once all bytes are handled the driver's idea of the modifiers is the     *)
(* state of the keys, and no prefix is pending.                             *)
ModifiersFollow ==
    port = <<>> =>
        /\ shift_left = ("lshift" \in down) /\ shift_right = ("rshift" \in down)
        /\ ctrl_held = ("ctrl" \in down) /\ caps_lock = lock /\ ~extended_scancode

(* A reader that waits while characters wait gets one: no order of key      *)
(* interrupt, sti and hlt leaves it asleep.                                  *)
ReaderServed == (pc \in {"getc", "halted", "woken"} /\ kbd_head # kbd_tail) ~> pc = "away" \/ kbd_head = kbd_tail
=============================================================================
