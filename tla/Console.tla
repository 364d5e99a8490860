------------------------------- MODULE Console -------------------------------
(***************************************************************************)
(* The text console of core/kernel.c on the graphics screen, between the   *)
(* interrupts that print and the timer's, which paints the screen: what    *)
(* becomes of a character. Positions are in cells of 8 by 8 pixels; colours *)
(* and the text cursor's two rows of pixels are left out.                  *)
(***************************************************************************)
EXTENDS Integers

CONSTANTS
  Letter,      \* the characters that are drawn, none of them below
  Columns,     \* SCREEN_WIDTH / 8
  Rows,        \* the lines above SCREEN_HEIGHT - 8, from where output starts
  MaxPrinted   \* bound: characters printed

NewLine == "newline"
Backspace == "backspace"

(* x, y is the cursor. block is vga_gfx.c's back buffer, screen what is    *)
(* shown of it: in each cell the letters whose pixels stand there. due, a   *)
(* history variable, is the block as it was when the last frame began.     *)
VARIABLE console

Blank == [r \in 0 .. Rows - 1 |-> [x \in 0 .. Columns - 1 |-> {}]]

ConsoleInit ==
  console = [x |-> 0, y |-> 0, block |-> Blank, screen |-> Blank, due |-> Blank,
             printed |-> 0]

(* vga_draw_char sets pixels and clears none; vga_draw_rect clears.        *)
Drawn(c, ch) == [c EXCEPT !.block[c.y][c.x] = @ \union {ch}, !.x = @ + 1]
Wiped(c, x) == [c EXCEPT !.block[c.y][x] = {}, !.x = x]
NextLine(c) == [c EXCEPT !.x = 0, !.y = @ + 1]

Put(c, ch) ==
  CASE ch = NewLine -> NextLine(c)
    [] ch = Backspace -> Wiped(c, IF c.x >= 1 THEN c.x - 1 ELSE c.x)
    [] OTHER -> Drawn(c, ch)

Broken(c) == IF c.x >= Columns THEN NextLine(c) ELSE c

(* scroll: the pointer kernel.c finds under the name of the block is       *)
(* globals.c's, which stays NULL, so what moves is memory at 0xA0000.      *)
Scrolled(c) == IF c.y >= Rows THEN [c EXCEPT !.y = @ - 1] ELSE c

putchar(ch) ==
  /\ console.printed < MaxPrinted
  /\ console' = [Scrolled(Broken(Put(console, ch))) EXCEPT !.printed = @ + 1]

(* timer_handler paints wallpaper, bars, windows and mouse over the whole  *)
(* block, then shows it with vga_present.                                  *)
Painted(c) == [c EXCEPT !.due = c.block, !.block = Blank]
Presented(c) == [c EXCEPT !.screen = c.block]
Tick == console' = Presented(Painted(console))

ConsoleNext == Tick \/ \E ch \in Letter \union {NewLine, Backspace} : putchar(ch)

ConsoleSpec == ConsoleInit /\ [][ConsoleNext]_console
-----------------------------------------------------------------------------
(* What is drawn in the block of memory is put on the screen by the next   *)
(* frame: "all drawings are first made in a block of RAM in the background, *)
(* then put on the screen in one operation" (README.md; putchar,           *)
(* timer_handler, vga_present).                                            *)
DrawingsAreShown ==
  \A r \in 0 .. Rows - 1, x \in 0 .. Columns - 1 :
    console.due[r][x] \subseteq console.screen[r][x]
=============================================================================
