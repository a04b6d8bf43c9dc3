------------------------------ MODULE Console ------------------------------
(***************************************************************************)
(* The text screen of kernel/fb.c: its cells and the position fb_putc()    *)
(* writes at.  The hardware cursor that fb_move_cursor() sets is not the   *)
(* same thing and is never read back.  Colours are left out, and so are    *)
(* the backspace and tab of fb_putc(), which the shell never prints.       *)
(***************************************************************************)
EXTENDS Integers, Sequences

CONSTANTS
  FB_WIDTH, FB_HEIGHT,  \* 80 and 25 in the code
  Glyph,                \* printable characters
  BLANK, NEWLINE        \* ' ' and '\n'

ASSUME ConsoleAssumption ==
  /\ FB_WIDTH \in Nat \ {0}
  /\ FB_HEIGHT \in Nat \ {0}
  /\ BLANK \in Glyph
  /\ NEWLINE \notin Glyph

Size == FB_WIDTH * FB_HEIGHT
Position == 0 .. Size - 1
Screen == [cells : [Position -> Glyph], pos : Position]

Cleared == [cells |-> [i \in Position |-> BLANK], pos |-> 0]

(* fb_scroll(): one row up, writing goes on at the start of the last row.  *)
Scrolled(cells) ==
  [cells |-> [i \in Position |-> IF i < Size - FB_WIDTH THEN cells[i + FB_WIDTH] ELSE BLANK],
   pos   |-> Size - FB_WIDTH]

(* fb_putc(): a character or a new line, and a scroll when it passes the   *)
(* last cell.                                                              *)
Putc(screen, c) ==
  LET cells == IF c = NEWLINE THEN screen.cells ELSE [screen.cells EXCEPT ![screen.pos] = c]
      next  == IF c = NEWLINE THEN (screen.pos \div FB_WIDTH + 1) * FB_WIDTH ELSE screen.pos + 1
  IN  IF next >= Size THEN Scrolled(cells) ELSE [cells |-> cells, pos |-> next]

(* fb_puts(): the characters of the text one after the other.              *)
Puts(screen, text) ==
  LET after[n \in 0 .. Len(text)] == IF n = 0 THEN screen ELSE Putc(after[n - 1], text[n])
  IN  after[Len(text)]
=============================================================================
