----------------------------- MODULE Framebuffer ----------------------------
(***************************************************************************)
(* The drawing primitives of framebuffer.c on linear memory: the hardware's *)
(* rows are pitch pixels apart, the back buffer's are tight, and without a  *)
(* back buffer the primitives draw on the hardware.  uint32_t wraps at 2^W. *)
(* A store outside a buffer shows as an address the buffer did not have.    *)
(***************************************************************************)
EXTENDS Integers

CONSTANTS Modes,        \* [width, height, pitch] in pixels, what the boot loader may set
          Colors, Black, W

VARIABLES mode, back, front    \* address -> color; back = NoBuffer when kmalloc failed

(* The rows of a mode are at least as long as the pixels it shows.         *)
ASSUME ModesAssumption ==
    /\ \A m \in Modes : {m.width, m.height} \subseteq Nat \ {0} /\ m.pitch \in Nat /\ m.width <= m.pitch
    /\ Black \in Colors
    /\ 2 ^ W \in Nat

frame == <<mode, back, front>>

NoBuffer == [a \in {} |-> Black]
Wrap(n) == n % 2 ^ W

(* fb_init: both buffers black, the padding of the hardware rows too.      *)
FbInit ==
    /\ mode \in Modes
    /\ front = [a \in 0 .. mode.pitch * mode.height - 1 |-> Black]
    /\ back \in {NoBuffer, [a \in 0 .. mode.width * mode.height - 1 |-> Black]}

Double == back # NoBuffer
Pitch == IF Double THEN mode.width ELSE mode.pitch
Target == IF Double THEN back ELSE front
Draws(buf) ==
    /\ IF Double THEN back' = buf /\ UNCHANGED front ELSE front' = buf /\ UNCHANGED back
    /\ UNCHANGED mode

(* The columns a loop over 64-bit pairs of pixels reaches.                  *)
Paired == 2 * (mode.width \div 2)

(* What a buffer holds once a drawing is stored in it.                     *)
Over(drawing, buf) ==
    [a \in DOMAIN drawing \cup DOMAIN buf |-> IF a \in DOMAIN drawing THEN drawing[a] ELSE buf[a]]

Box(xs, ys, c) == [a \in {y * Pitch + x : x \in xs, y \in ys} |-> c]

Cleared(c) == Over(Box(0 .. Paired - 1, 0 .. mode.height - 1, c), Target)
fb_clear(c) == Draws(Cleared(c))

(* A slip: the height is not clipped.                                      *)
Clip_WidthOnly(x, y, w, h) == <<IF Wrap(x + w) > mode.width THEN mode.width - x ELSE w, h>>

(* The sides after clipping.                                               *)
Clip(x, y, w, h) ==
    <<IF Wrap(x + w) > mode.width THEN mode.width - x ELSE w,
      IF Wrap(y + h) > mode.height THEN mode.height - y ELSE h>>

fb_fill_rect(x, y, w, h, c) ==
    LET side == Clip(x, y, w, h)
    IN  IF x >= mode.width \/ y >= mode.height THEN UNCHANGED frame
        ELSE Draws(Over(Box(x .. x + side[1] - 1, y .. y + side[2] - 1, c), Target))

(* The hardware's buffer once buf is presented.                            *)
Copy(buf) ==
    IF ~Double THEN buf
    ELSE [a \in DOMAIN front |->
            IF a % mode.pitch < Paired THEN buf[(a \div mode.pitch) * mode.width + (a % mode.pitch)]
            ELSE front[a]]

fb_present == front' = Copy(Target) /\ UNCHANGED <<mode, back>>

(* Drawn and presented in one call.                                        *)
Shows(buf) ==
    /\ back' = IF Double THEN buf ELSE back
    /\ front' = Copy(buf)
    /\ UNCHANGED mode
-----------------------------------------------------------------------------
(* "Writes outside render buffer bounds must be ignored"                    *)
(* (DONE/prototype10.md:137): the buffers keep their addresses, and nothing *)
(* is written in the padding between the hardware's rows.                   *)
InBounds ==
    /\ Double => DOMAIN back = 0 .. mode.width * mode.height - 1
    /\ DOMAIN front = 0 .. mode.pitch * mode.height - 1
    /\ \A a \in DOMAIN front : a % mode.pitch >= mode.width => front[a] = Black
=============================================================================
