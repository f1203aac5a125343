------------------------------- MODULE Console -------------------------------
(***************************************************************************)
(* The framebuffer console, kernel/src/arch/x86_64/console/framebuffer.rs. *)
(*                                                                         *)
(* The writer is a record: the position of the next glyph, panic_mode, and *)
(* ink, the upper left corners of the glyphs drawn since the screen was    *)
(* last filled.  Colours and the bits of a glyph are left out; the text is *)
(* made of the characters "glyph" and "newline", since no message of the   *)
(* kernel has a carriage return of its own.                                *)
(***************************************************************************)
EXTENDS Integers

CONSTANTS
    Width, Height,        \* FrameBufferInfo, in pixels
    CHAR_RASTER_WIDTH,
    CHAR_RASTER_HEIGHT

LINE_SPACING == 2
LETTER_SPACING == 0
BORDER_PADDING == 1

\* The screen has room for one glyph inside its border.
ASSUME ScreenAssumption ==
    /\ CHAR_RASTER_WIDTH \in Nat \ {0} /\ CHAR_RASTER_HEIGHT \in Nat \ {0}
    /\ Width \in Nat /\ Width > CHAR_RASTER_WIDTH + BORDER_PADDING
    /\ Height \in Nat /\ Height > CHAR_RASTER_HEIGHT + 2 * BORDER_PADDING

Char == {"glyph", "newline"}

Writer == [x : Nat, y : Nat, panic_mode : BOOLEAN, ink : SUBSET (Nat \X Nat)]

\* A newline that goes down by less than a raster.
NewlineShort(fb) ==
    [fb EXCEPT !.x = BORDER_PADDING, !.y = @ + CHAR_RASTER_HEIGHT - 1]

newline(fb) ==
    [fb EXCEPT !.x = BORDER_PADDING,
               !.y = @ + CHAR_RASTER_HEIGHT + LINE_SPACING]

clear(fb) ==
    [fb EXCEPT !.x = BORDER_PADDING, !.y = BORDER_PADDING, !.ink = {}]

\* FrameBufferWriter::new.
new_writer == clear([x |-> 0, y |-> 0, panic_mode |-> FALSE, ink |-> {}])

write_rendered_char(fb) ==
    [fb EXCEPT !.ink = @ \cup {<<fb.x, fb.y>>},
               !.x = @ + CHAR_RASTER_WIDTH + LETTER_SPACING]

\* The two tests of write_char before it draws.
wrap(fb) == IF fb.x + CHAR_RASTER_WIDTH >= Width THEN newline(fb) ELSE fb

scroll(fb) ==
    IF fb.y + CHAR_RASTER_HEIGHT + BORDER_PADDING >= Height
    THEN clear(fb) ELSE fb

write_char(fb, c) ==
    IF c = "newline" THEN newline(fb)
    ELSE write_rendered_char(scroll(wrap(fb)))

panic_screen(fb) ==
    [x |-> BORDER_PADDING, y |-> BORDER_PADDING,
     panic_mode |-> TRUE, ink |-> {}]

(***************************************************************************)
(* What the reader of the screen relies on.                                *)
(***************************************************************************)
\* The glyph at p is inside the screen: every index write_pixel computes
\* from it is inside the buffer and on the row it is meant for.
Inside(p) == /\ p[1] + CHAR_RASTER_WIDTH <= Width
             /\ p[2] + CHAR_RASTER_HEIGHT <= Height

\* The glyphs at p and q have no pixel in common.
Apart(p, q) == \/ p[1] + CHAR_RASTER_WIDTH <= q[1]
               \/ q[1] + CHAR_RASTER_WIDTH <= p[1]
               \/ p[2] + CHAR_RASTER_HEIGHT <= q[2]
               \/ q[2] + CHAR_RASTER_HEIGHT <= p[2]

Legible(fb) == /\ \A p \in fb.ink : Inside(p)
               /\ \A p, q \in fb.ink : p # q => Apart(p, q)

\* Why: a glyph is above the line being written, or on it and to the left of
\* the position.
WriterInv(fb) ==
    /\ fb \in Writer
    /\ fb.x >= BORDER_PADDING /\ fb.y >= BORDER_PADDING
    /\ Legible(fb)
    /\ \A p \in fb.ink :
          \/ p[2] + CHAR_RASTER_HEIGHT <= fb.y
          \/ p[2] = fb.y /\ p[1] + CHAR_RASTER_WIDTH <= fb.x
=============================================================================
