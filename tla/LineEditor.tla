---------------------------- MODULE LineEditor ----------------------------
(***************************************************************************)
(* The line editor of lib/lineedit.c as the shell's loop uses it           *)
(* (shell_update() in servers/shell.c): keys edit the line after the       *)
(* prompt, Enter hands the buffer to the shell, which prints what it       *)
(* prints, then the prompt, and starts the next line.                      *)
(*                                                                         *)
(* The buffer is the string in it, up to its first NUL; le_len is kept     *)
(* apart, because lineedit_init() resets it and leaves the string.  What   *)
(* the shell prints while it executes a line is any of a few texts.        *)
(***************************************************************************)
EXTENDS Console, SequencesExt

CONSTANTS
  BUF_SIZE,      \* 256 in the code, with the NUL
  HISTORY_SIZE,  \* LINEEDIT_HISTORY_SIZE, 20 in the code
  Char,          \* what can be typed
  Prompt,        \* user@host:path$
  Reply          \* what the execution of a line can print

(* The keys that lineedit_update() looks at, Enter apart.                    *)
EditCode == {"backspace", "del", "left", "right", "home", "end", "up", "down"}

(* Keys and characters differ, and a prompt fits above the last row.       *)
ASSUME LineEditorAssumption ==
  /\ BUF_SIZE \in Nat \ {0}
  /\ HISTORY_SIZE \in Nat \ {0}
  /\ Char \subseteq Glyph /\ Char \cap EditCode = {}
  /\ Prompt \in Seq(Glyph) /\ Len(Prompt) <= Size - FB_WIDTH
  /\ Reply \subseteq Seq(Glyph \cup {NEWLINE})

VARIABLES
  screen,
  buf,                       \* line_buf
  le_line_start, le_len, le_cursor,
  le_hist_count, le_hist_idx, le_save,
  hist_buf                   \* lines of the history

lineVars == <<screen, buf, le_line_start, le_len, le_cursor, le_hist_count, le_hist_idx, le_save, hist_buf>>

EditKey == EditCode \cup Char

(* Before shell_init(). *)
LineInit ==
  /\ screen = Cleared
  /\ buf = << >> /\ le_len = 0 /\ le_cursor = 0 /\ le_line_start = 0
  /\ le_hist_count = 0 /\ le_hist_idx = 0 /\ le_save = << >>
  /\ hist_buf = [i \in 1 .. HISTORY_SIZE |-> << >>]

(***************************************************************************)
(* Editing.  A result is the part of the state that keys change.           *)
(***************************************************************************)
Line == SubSeq(buf, 1, le_len)
Here == [buf |-> buf, len |-> le_len, cursor |-> le_cursor, idx |-> le_hist_idx, save |-> le_save]
With(text, cursor) == [Here EXCEPT !.buf = text, !.len = Len(text), !.cursor = cursor]

(* The entry idx places back from the newest.                              *)
Recalled(idx) == hist_buf[le_hist_count - idx]

Older ==
  LET idx == IF le_hist_idx + 1 < le_hist_count THEN le_hist_idx + 1 ELSE le_hist_count - 1
  IN  [With(Recalled(idx), Len(Recalled(idx))) EXCEPT
         !.idx = idx, !.save = IF le_hist_idx < 0 THEN buf ELSE le_save]

Newer ==
  LET text == IF le_hist_idx = 0 THEN le_save ELSE Recalled(le_hist_idx - 1)
  IN  [With(text, Len(text)) EXCEPT !.idx = le_hist_idx - 1]

Typed(ch) == With(InsertAt(Line, le_cursor + 1, ch), le_cursor + 1)

(* lineedit_update() for every event but Enter; one that does not apply    *)
(* leaves the line as it is.                                               *)
Edited(ev) ==
  CASE ev \in Char /\ le_len < BUF_SIZE - 1       -> Typed(ev)
    [] ev = "backspace" /\ le_cursor > 0          -> With(RemoveAt(Line, le_cursor), le_cursor - 1)
    [] ev = "del" /\ le_cursor < le_len           -> With(RemoveAt(Line, le_cursor + 1), le_cursor)
    [] ev = "left" /\ le_cursor > 0               -> [Here EXCEPT !.cursor = @ - 1]
    [] ev = "right" /\ le_cursor < le_len         -> [Here EXCEPT !.cursor = @ + 1]
    [] ev = "home"                                -> [Here EXCEPT !.cursor = 0]
    [] ev = "end"                                 -> [Here EXCEPT !.cursor = le_len]
    [] ev = "up" /\ le_hist_count > 0             -> Older
    [] ev = "down" /\ le_hist_idx >= 0            -> Newer
    [] OTHER                                      -> Here

(* Mutant: the line is drawn to the end of its first row. *)
MutRedraw(cells, text) ==
  [i \in Position |->
     IF i < le_line_start THEN cells[i]
     ELSE IF i - le_line_start < Len(text) /\ i \div FB_WIDTH = le_line_start \div FB_WIDTH
          THEN text[i - le_line_start + 1]
     ELSE BLANK]

(* le_redraw(): the line from where the prompt ended, as far as there is   *)
(* screen, then blanks.                                                    *)
Redraw(cells, text) ==
  [i \in Position |->
     IF i < le_line_start THEN cells[i]
     ELSE IF i - le_line_start < Len(text) THEN text[i - le_line_start + 1]
     ELSE BLANK]

(* One edit key.  Home and End redraw even a line that stays as it is.     *)
Press(ev) ==
  LET r == Edited(ev)
  IN  /\ r # Here \/ ev \in {"home", "end"}
      /\ screen' = [screen EXCEPT !.cells = Redraw(@, SubSeq(r.buf, 1, r.len))]
      /\ buf' = r.buf /\ le_len' = r.len /\ le_cursor' = r.cursor
      /\ le_hist_idx' = r.idx /\ le_save' = r.save
      /\ UNCHANGED <<le_line_start, le_hist_count, hist_buf>>

(***************************************************************************)
(* Enter.                                                                  *)
(***************************************************************************)
(* lineedit_history_add(): an empty line and a repetition of the newest    *)
(* entry are not added; a full history loses its oldest entry.             *)
HistoryAdd(line) ==
  LET full  == le_hist_count >= HISTORY_SIZE
      place == IF full THEN HISTORY_SIZE ELSE le_hist_count + 1
      kept  == IF full THEN [i \in 1 .. HISTORY_SIZE |-> hist_buf[IF i < HISTORY_SIZE THEN i + 1 ELSE i]]
               ELSE hist_buf
  IN  IF line = << >> \/ (le_hist_count > 0 /\ hist_buf[le_hist_count] = line)
      THEN hist_buf
      ELSE [kept EXCEPT ![place] = line]

(* Mutant: the start of the line is taken before the prompt is printed. *)
MutStartLine(printed) ==
  /\ screen' = Puts(printed, Prompt)
  /\ le_line_start' = printed.pos
  /\ le_len' = 0 /\ le_cursor' = 0
  /\ le_hist_count' = 0 /\ le_hist_idx' = -1 /\ le_save' = << >>
  /\ UNCHANGED buf

(* draw_prompt() and lineedit_init(); the buffer keeps its string.         *)
StartLine(printed) ==
  /\ screen' = Puts(printed, Prompt)
  /\ le_line_start' = screen'.pos
  /\ le_len' = 0 /\ le_cursor' = 0
  /\ le_hist_count' = 0 /\ le_hist_idx' = -1 /\ le_save' = << >>
  /\ UNCHANGED buf

(* Enter in shell_update(): a new line, the history, what the execution of *)
(* the line prints, and the next line.  The string is executed whatever    *)
(* le_len says; an empty one prints nothing.                               *)
Enter(reply) ==
  /\ buf = << >> => reply = << >>
  /\ hist_buf' = HistoryAdd(buf)
  /\ StartLine(Puts(Putc(screen, NEWLINE), reply))

(* The same for `clear'.                                                   *)
EnterClear ==
  /\ buf # << >>
  /\ hist_buf' = HistoryAdd(buf)
  /\ StartLine(Cleared)

(* shell_init(): the banner and the first prompt.                          *)
ShellInit(banner) ==
  /\ StartLine(Puts(Cleared, banner))
  /\ UNCHANGED hist_buf

-----------------------------------------------------------------------------
LineTypeOK ==
  /\ screen \in Screen
  /\ buf \in Seq(Char) /\ Len(buf) < BUF_SIZE
  /\ le_line_start \in Position
  /\ le_len \in 0 .. Len(buf) /\ le_cursor \in 0 .. le_len
  /\ le_hist_count \in 0 .. HISTORY_SIZE /\ le_hist_idx \in -1 .. HISTORY_SIZE - 1
  /\ hist_buf \in [1 .. HISTORY_SIZE -> Seq(Char)]

(* The line starts right behind its prompt, wherever output and scrolling  *)
(* have moved it.                                                          *)
PromptBeforeLine ==
  \A i \in 1 .. Len(Prompt) : screen.cells[le_line_start - i] = Prompt[Len(Prompt) + 1 - i]

(* What was typed is what is seen, as far as the screen reaches, and what  *)
(* Enter would execute; on a line not typed in, Enter executes nothing or  *)
(* the newest line of the history once more.                               *)
LineOnScreen ==
  /\ le_len > 0 =>
       \A i \in le_line_start .. Size - 1 :
         screen.cells[i] = IF i - le_line_start < le_len THEN buf[i - le_line_start + 1] ELSE BLANK
  /\ le_len = Len(buf) \/ (le_len = 0 /\ buf = hist_buf[1])

(* The editor, the console and the shell's buffer agree on the line        *)
(* (lineedit.c:28, 45; shell.c:1466).                                      *)
LineOK == LineTypeOK /\ PromptBeforeLine /\ LineOnScreen
=============================================================================
