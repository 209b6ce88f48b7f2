------------------------------- MODULE Console ------------------------------
(***************************************************************************)
(* The text console, console.c, drawing on the buffers of framebuffer.c,    *)
(* and its client the shell: a prompt, a line edited by kbd_readline, the   *)
(* output of a command.  Before the first console_clear the tests may have  *)
(* drawn on the screen.                                                     *)
(***************************************************************************)
EXTENDS Framebuffer, Sequences, SequencesExt

CONSTANTS FONT_WIDTH, FONT_HEIGHT,
          Glyphs, Blank,  \* the characters with a picture, and the space
          Font,           \* character -> the lit positions of its cell
          Rects,          \* [x, y, w, h] the tests fill
          Outputs,        \* what commands print, sequences of characters
          MaxLine,        \* SHELL_MAX_LINE
          MaxRows,        \* bound: rows written since the last clear
          Prompt

(* What console_putc tells apart.                                          *)
Chars == Glyphs \cup {"NL", "CR", "TAB", "BS"}
Cell == (0 .. FONT_WIDTH - 1) \X (0 .. FONT_HEIGHT - 1)

(* font.c: every character the console prints has its own picture, the      *)
(* space an empty one; the cells are eight pixels wide, and a screen has    *)
(* room for one at least.  The only rectangles filled are those of the      *)
(* tests (kernel_tests.c:177), whose sides do not wrap.                     *)
ASSUME ConsoleAssumption ==
    /\ {FONT_WIDTH, FONT_HEIGHT} \subseteq Nat \ {0} /\ FONT_WIDTH % 2 = 0
    /\ \A m \in Modes : FONT_WIDTH <= m.width /\ FONT_HEIGHT <= m.height
    /\ DOMAIN Font = Glyphs \cup {Blank} /\ Font[Blank] = {}
    /\ \A c \in DOMAIN Font : Font[c] \subseteq Cell
    /\ \A c, d \in DOMAIN Font : Font[c] = Font[d] => c = d
    /\ \E c \in Colors : c # Black
    /\ Glyphs \cap {"NL", "CR", "TAB", "BS"} = {}
    /\ Prompt \in Seq(Chars) /\ Outputs \subseteq Seq(Chars)
    /\ \A r \in Rects : {r.x, r.y, r.w, r.h} \subseteq Nat /\ r.x + r.w < 2 ^ W /\ r.y + r.h < 2 ^ W

VARIABLES cursor_x, cursor_y,
          gone,           \* the rows that scrolled off the top
          text,           \* what the shell is printing
          line,           \* the line kbd_readline has
          phase           \* "tests", then of the shell: "print", "read", "echo", "run"

cursor == <<cursor_x, cursor_y>>
consoleVars == <<frame, cursor, gone, text, line, phase>>

White == CHOOSE c \in Colors : c # Black
COLS == mode.width \div FONT_WIDTH
ROWS == mode.height \div FONT_HEIGHT

(* console_init, which runs when fb_init succeeded.                         *)
ConsoleInit ==
    /\ FbInit
    /\ cursor_x = 0 /\ cursor_y = 0
    /\ gone = <<>> /\ text = <<>> /\ line = <<>> /\ phase = "tests"

(* What a buffer shows: the character of a cell, "?" for no character, and  *)
(* the rows of the grid.                                                    *)
Char(buf, pitch, x, y) ==
    LET lit == {p \in Cell : buf[(y * FONT_HEIGHT + p[2]) * pitch + x * FONT_WIDTH + p[1]] # Black}
    IN  IF \E c \in DOMAIN Font : Font[c] = lit THEN CHOOSE c \in DOMAIN Font : Font[c] = lit ELSE "?"
Row(buf, pitch, y) == [i \in 1 .. COLS |-> Char(buf, pitch, i - 1, y)]
Grid(buf, pitch) == [r \in 1 .. ROWS |-> Row(buf, pitch, r - 1)]

(* console_draw_char: the picture of a character, in its cell.              *)
Picture(x, y, ch) ==
    [a \in {(y * FONT_HEIGHT + p[2]) * Pitch + x * FONT_WIDTH + p[1] : p \in Cell} |->
        IF <<(a % Pitch) - x * FONT_WIDTH, (a \div Pitch) - y * FONT_HEIGHT>> \in Font[ch] THEN White ELSE Black]
Drawn(x, ch) == Over(Picture(x, cursor_y, ch), Target)

(* A slip: the row that comes in at the bottom is not cleared.             *)
Scrolled_NotCleared(buf) ==
    Over([a \in 0 .. (ROWS - 1) * FONT_HEIGHT * Pitch - 1 |-> buf[a + FONT_HEIGHT * Pitch]], buf)

(* console_scroll: the memmove takes the padding along.                     *)
Scrolled(buf) ==
    Over(Box(0 .. Paired - 1, (ROWS - 1) * FONT_HEIGHT .. ROWS * FONT_HEIGHT - 1, Black),
         Over([a \in 0 .. (ROWS - 1) * FONT_HEIGHT * Pitch - 1 |-> buf[a + FONT_HEIGHT * Pitch]], buf))

(* Column x of row cursor_y, or the start of the next row, over the drawing *)
(* buf; the last row makes room.                                            *)
Advance(buf, x) ==
    IF x < COLS THEN cursor_x' = x /\ UNCHANGED <<cursor_y, gone>> /\ Draws(buf)
    ELSE /\ cursor_x' = 0
         /\ IF cursor_y + 1 < ROWS
              THEN cursor_y' = cursor_y + 1 /\ UNCHANGED gone /\ Draws(buf)
              ELSE UNCHANGED cursor_y /\ gone' = Append(gone, Row(buf, Pitch, 0)) /\ Draws(Scrolled(buf))

console_putc(ch) ==
    CASE ch = "NL" -> Advance(Target, COLS)
      [] ch = "CR" -> Advance(Target, 0)
      [] ch = "TAB" -> Advance(Target, ((cursor_x + 4) \div 4) * 4)
      [] ch = "BS" -> (IF cursor_x > 0 THEN cursor_x' = cursor_x - 1 ELSE UNCHANGED cursor_x)
                      /\ UNCHANGED <<frame, cursor_y, gone>>
      [] OTHER -> Advance(Drawn(cursor_x, ch), cursor_x + 1)

(* Nothing happens at the start of a row.                                  *)
console_erase_char ==
    IF cursor_x = 0 THEN UNCHANGED <<frame, cursor, gone>>
    ELSE Shows(Drawn(cursor_x - 1, Blank)) /\ cursor_x' = cursor_x - 1 /\ UNCHANGED <<cursor_y, gone>>

console_clear ==
    /\ Shows(Cleared(Black))
    /\ cursor_x' = 0 /\ cursor_y' = 0 /\ gone' = <<>>
-----------------------------------------------------------------------------
(* The framebuffer suite of the tests, before the console has printed.      *)
TestDraws ==
    /\ phase = "tests"
    /\ \/ fb_present
       \/ \E c \in Colors : \/ fb_clear(c)
                            \/ \E r \in Rects : fb_fill_rect(r.x, r.y, r.w, r.h, c)
    /\ UNCHANGED <<cursor, gone, text, line, phase>>

(* print_kernel_info starts with a clear screen.                            *)
Banner ==
    /\ phase = "tests"
    /\ console_clear
    /\ phase' = "print" /\ text' = Prompt
    /\ UNCHANGED line

Room == Len(gone) + ROWS < MaxRows

(* console_puts, one character after the other.                             *)
Puts ==
    /\ phase = "print" /\ text # <<>> /\ Room
    /\ console_putc(Head(text))
    /\ text' = Tail(text)
    /\ UNCHANGED <<line, phase>>

(* A slip: the prompt stays in the back buffer while the shell waits.      *)
Printed_NoPresent ==
    /\ phase = "print" /\ text = <<>>
    /\ phase' = "read" /\ line' = <<>>
    /\ UNCHANGED <<frame, cursor, gone, text>>

(* The fb_present that ends console_puts, and the shell's own.              *)
Printed ==
    /\ phase = "print" /\ text = <<>>
    /\ fb_present
    /\ phase' = "read" /\ line' = <<>>
    /\ UNCHANGED <<cursor, gone, text>>

(* The body of kbd_readline for one character, its echo first drawn, then   *)
(* presented.                                                               *)
Type(ch) ==
    /\ phase = "read" /\ Room
    /\ text' = <<>>
    /\ CASE ch = "NL" -> console_putc(ch) /\ phase' = "run" /\ UNCHANGED line
         [] ch = "BS" -> /\ IF line # <<>> THEN console_erase_char ELSE UNCHANGED <<frame, cursor, gone>>
                         /\ line' = IF line # <<>> THEN Front(line) ELSE line
                         /\ UNCHANGED phase
         [] OTHER -> /\ console_putc(ch)
                     /\ line' = Append(line, ch)
                     /\ phase' = IF Len(line) + 1 < MaxLine - 1 THEN "echo" ELSE "run"

(* The fb_present after the echo of a character.                           *)
Echoed ==
    /\ phase = "echo"
    /\ fb_present /\ phase' = "read"
    /\ UNCHANGED <<cursor, gone, text, line>>

(* A command: output followed by the next prompt, or clear; an empty line   *)
(* prints the prompt again.                                                 *)
Run ==
    /\ phase = "run"
    /\ \E out \in IF line = <<>> THEN {<<>>} ELSE Outputs : text' = out \o Prompt
    /\ fb_present /\ phase' = "print"
    /\ UNCHANGED <<cursor, gone, line>>
Clear ==
    /\ phase = "run" /\ line # <<>>
    /\ console_clear
    /\ text' = Prompt /\ phase' = "print"
    /\ UNCHANGED line

ConsoleNext ==
    \/ TestDraws \/ Banner
    \/ Puts \/ Printed \/ Echoed \/ Run \/ Clear
    \/ \E ch \in Glyphs \cup {"NL", "BS"} : Type(ch)
ConsoleSpec == ConsoleInit /\ [][ConsoleNext]_consoleVars
-----------------------------------------------------------------------------
cells == Grid(Target, Pitch)
shown == Grid(front, mode.pitch)
EmptyRow == [i \in 1 .. COLS |-> Blank]

(* Whatever is printed, tabs, wraps and scrolls included, and whatever the  *)
(* tests left on the screen, the pixels show the end of the page a terminal *)
(* without end would show.                                                  *)
Written == IF phase = "tests" THEN <<EmptyRow>> ELSE gone \o SubSeq(cells, 1, cursor_y + 1)
Pages == INSTANCE Page WITH column <- cursor_x, page <- Written
ImplementsPage == Pages!Spec

(* The characters before the cursor, as far as its row reaches, are the end *)
(* of the line as edited ("updates console visually", prototype12.md:145).  *)
EchoMatchesLine ==
    \A i \in 1 .. Len(line) : i <= cursor_x => cells[cursor_y + 1][cursor_x + 1 - i] = line[Len(line) + 1 - i]

(* While the shell waits for a key the user sees all that was drawn, and    *)
(* what is drawn ends in the line that Enter would run.                     *)
Presented == phase = "read" => shown = cells /\ EchoMatchesLine
=============================================================================
