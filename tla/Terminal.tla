------------------------------- MODULE Terminal -------------------------------
(* A terminal of the desktop: src/servers/terminal.c, with what              *)
(* terminal_handle_key() and term_execute_command() of src/servers/wm.cpp do  *)
(* with it.  A key is handled in one go by the loop of the desktop, so each   *)
(* key is one action, the command that ENTER runs included.  A byte written   *)
(* is its class for the escape parser; of the grid the model keeps the size   *)
(* and the cursor.                                                           *)
EXTENDS Integers, Sequences

CONSTANTS
  TERM_MAX_LINE,     \* bytes of the input line, its terminator included
  TERM_MAX_HISTORY,  \* lines kept in the ring
  Chars, NUL,        \* characters that can be typed, and the terminator
  Sizes,             \* sizes of the surface, <<columns, rows>>
  Outputs,           \* what the commands write, sequences of bytes
  MaxEntered         \* bound on the lines entered

ASSUME TermLineAssumption == TERM_MAX_LINE \in Nat /\ TERM_MAX_LINE >= 2
ASSUME TermHistoryAssumption == TERM_MAX_HISTORY \in Nat \ {0}
ASSUME TermCharsAssumption == NUL \notin Chars
ASSUME TermSizesAssumption == Sizes \subseteq (1..60) \X (1..18)

VARIABLES
  size,                   \* cols and rows
  cursor, ansi_escaped,   \* cursor on the grid; inside an escape sequence
  line_buf, line_len, line_cursor,
  history, history_count, history_idx,
  surface,                \* size of the window's surface, in characters
  needs_surface_clear,    \* the window was maximised since the last key
  entered                 \* the lines entered since the terminal started

screen == <<size, cursor, ansi_escaped>>
line == <<line_buf, line_len, line_cursor>>
recall == <<history, history_count, history_idx>>
term_vars == <<screen, line, recall, surface, needs_surface_clear, entered>>

Bytes == {"esc", "bracket", "char", "newline", "return", "tab", "backspace"}
ASSUME TermOutputsAssumption == Outputs \subseteq Seq(Bytes)
Prompt == <<"esc", "bracket">> \o [i \in 1..7 |-> "char"] \o <<"esc", "bracket", "char", "char">>

-----------------------------------------------------------------------------
(* The grid: t holds col, row, esc and the size.                             *)

term_newline(t) == [t EXCEPT !.col = 0, !.row = IF @ + 1 >= t.rows THEN t.rows - 1 ELSE @ + 1]
term_advance(t) == IF t.col + 1 >= t.cols THEN term_newline(t) ELSE [t EXCEPT !.col = @ + 1]

\* term_parse_byte().  '[' leaves ansi_len at 0, so the byte after it ends the
\* escape sequence, whatever it is, and the rest of the sequence is text.
term_parse_byte(t, byte) ==
  CASE t.esc -> IF byte = "bracket" THEN t ELSE [t EXCEPT !.esc = FALSE]
    [] byte = "esc" /\ ~t.esc -> [t EXCEPT !.esc = TRUE]
    [] byte \in {"newline", "return"} /\ ~t.esc -> term_newline(t)
    [] byte = "tab" /\ ~t.esc ->
         LET after[n \in 0..8] == IF n = 0 THEN t ELSE term_advance(after[n - 1])
         IN  after[8 - (t.col % 8)]
    [] byte = "backspace" /\ ~t.esc -> [t EXCEPT !.col = IF @ > 0 THEN @ - 1 ELSE @]
    [] OTHER -> term_advance(t)

terminal_write(t, bytes) ==
  LET after[n \in 0..Len(bytes)] ==
        IF n = 0 THEN t ELSE term_parse_byte(after[n - 1], bytes[n])
  IN  after[Len(bytes)]

OnScreen == [cols |-> size[1], rows |-> size[2], col |-> cursor[1], row |-> cursor[2],
             esc |-> ansi_escaped]
Show(t) == /\ size' = <<t.cols, t.rows>>
           /\ cursor' = <<t.col, t.row>>
           /\ ansi_escaped' = t.esc
Blank(s) == [cols |-> s[1], rows |-> s[2], col |-> 0, row |-> 0, esc |-> FALSE]
Text(n) == [i \in 1..n |-> "char"]

\* The line drawn again: a return (which goes to the next row), "> " and the line.
Redrawn(t, n) == terminal_write(t, <<"return">> \o Text(n + 2))

-----------------------------------------------------------------------------
(* The input line, a buffer with a terminator.                               *)

Index == 0..(TERM_MAX_LINE - 1)
CString(buf) ==
  LET ends == {i \in Index : buf[i] = NUL}
      n == IF ends = {} THEN TERM_MAX_LINE ELSE CHOOSE i \in ends : \A j \in ends : i <= j
  IN  [i \in 1..n |-> buf[i - 1]]
LineText(n) == [i \in 1..n |-> line_buf[i - 1]]
Copied(s) ==
  [i \in Index |-> IF i < Len(s) THEN s[i + 1] ELSE IF i = Len(s) THEN NUL ELSE line_buf[i]]

Inserted(ch) ==
  [i \in Index |-> CASE i < line_cursor -> line_buf[i]
                     [] i = line_cursor -> ch
                     [] i > line_cursor /\ i <= line_len -> line_buf[i - 1]
                     [] i = line_len + 1 -> NUL
                     [] OTHER -> line_buf[i]]
\* Mutant: the line is not terminated where it now ends.
MutRemovedOpen(at) ==
  [i \in Index |-> IF i >= at /\ i < line_len - 1 THEN line_buf[i + 1] ELSE line_buf[i]]
Removed(at) ==
  [i \in Index |-> CASE i < at -> line_buf[i]
                     [] i >= at /\ i < line_len - 1 -> line_buf[i + 1]
                     [] i = line_len - 1 -> NUL
                     [] OTHER -> line_buf[i]]

-----------------------------------------------------------------------------
(* terminal_init(): the line is emptied by its length alone.                 *)
TermInit ==
  /\ size \in Sizes /\ surface = size
  /\ LET t == terminal_write(Blank(size), <<"esc", "bracket">> \o Text(4) \o
                                           <<"esc", "bracket">> \o Text(2))
     IN  cursor = <<t.col, t.row>> /\ ansi_escaped = t.esc
  /\ line_buf = [i \in Index |-> NUL] /\ line_len = 0 /\ line_cursor = 0
  /\ history = [h \in 0..(TERM_MAX_HISTORY - 1) |-> <<>>]
  /\ history_count = 0 /\ history_idx = -1
  /\ needs_surface_clear = FALSE /\ entered = <<>>

\* The window gets another surface; wm_maximize() also asks for a fresh start.
SurfaceChanges(maximised) ==
  /\ surface' \in Sizes
  /\ needs_surface_clear' = (needs_surface_clear \/ maximised)
  /\ UNCHANGED <<screen, line, recall, entered>>

\* The first key after that starts the terminal again, and is then handled as
\* any other: alone, this step is the handling of TAB, which does nothing more.
Restart ==
  /\ needs_surface_clear
  /\ Show(terminal_write(Blank(surface), Prompt))
  /\ line_len' = 0 /\ line_cursor' = 0 /\ UNCHANGED line_buf
  /\ history_count' = 0 /\ history_idx' = -1 /\ UNCHANGED history
  /\ needs_surface_clear' = FALSE /\ entered' = <<>>
  /\ UNCHANGED surface

Ready == ~needs_surface_clear /\ UNCHANGED <<surface, needs_surface_clear>>
Ring(n) == n % TERM_MAX_HISTORY

\* Mutant: the newest line is looked for one place too far.
MutRecalledNext(hist, idx) == hist[Ring(history_count - idx)]
Recalled(hist, idx) == hist[Ring(history_count - 1 - idx)]

\* The line being edited is put where the next one will be stored.
Saved == IF history_idx < 0
         THEN [history EXCEPT ![Ring(history_count)] = LineText(line_len)] ELSE history

TakeLine(s) ==
  /\ line_buf' = Copied(s) /\ line_len' = Len(s) /\ line_cursor' = Len(s)
  /\ Show(Redrawn(OnScreen, Len(s)))

KeyUp ==
  /\ Ready /\ history_count > 0
  /\ history' = Saved
  /\ IF history_idx < history_count - 1
     THEN history_idx' = history_idx + 1 /\ TakeLine(Recalled(Saved, history_idx + 1))
     ELSE UNCHANGED <<screen, line, history_idx>>
  /\ UNCHANGED <<history_count, entered>>

KeyDown ==
  /\ Ready /\ history_idx >= 0
  /\ history_idx' = history_idx - 1
  /\ TakeLine(IF history_idx = 0 THEN <<>> ELSE Recalled(history, history_idx - 1))
  /\ UNCHANGED <<history, history_count, entered>>

\* LEFT, RIGHT, HOME and END.
KeyMove ==
  /\ Ready
  /\ line_cursor' \in {0, line_len} \cup ({line_cursor - 1, line_cursor + 1} \cap (0..line_len))
  /\ UNCHANGED <<screen, line_buf, line_len, recall, entered>>

KeyDelete ==
  /\ Ready /\ line_cursor < line_len
  /\ line_buf' = Removed(line_cursor) /\ line_len' = line_len - 1
  /\ Show(Redrawn(OnScreen, line_len - 1))
  /\ UNCHANGED <<line_cursor, recall, entered>>

KeyBackspace ==
  /\ Ready /\ line_len > 0 /\ line_cursor > 0
  /\ line_buf' = Removed(line_cursor - 1)
  /\ line_len' = line_len - 1 /\ line_cursor' = line_cursor - 1
  /\ Show([OnScreen EXCEPT !.col = IF @ > 0 THEN @ - 1 ELSE @])
  /\ UNCHANGED <<recall, entered>>

HasRoom == line_len < TERM_MAX_LINE - 1

KeyChar(ch) ==
  /\ Ready /\ HasRoom
  /\ line_buf' = Inserted(ch)
  /\ line_len' = line_len + 1 /\ line_cursor' = line_cursor + 1
  /\ Show(term_advance(OnScreen))
  /\ UNCHANGED <<recall, entered>>

\* What the window writes for the command in the buffer, and the prompt.  (The
\* two commands that stop the machine do not return.)
term_execute_command(t, out) ==
  terminal_write(t, (IF line_buf[0] = NUL THEN <<>> ELSE out) \o Prompt)

\* ENTER stores the line, then the window runs the buffer as a command and
\* shows the prompt.  The line keeps its length: what is typed next is added.
KeyEnter ==
  /\ Ready /\ Len(entered) < MaxEntered
  /\ IF line_len > 0
     THEN /\ history' = [history EXCEPT ![Ring(history_count)] = LineText(line_len)]
          /\ history_count' = IF history_count < TERM_MAX_HISTORY THEN history_count + 1
                              ELSE history_count
          /\ entered' = Append(entered, LineText(line_len))
     ELSE UNCHANGED <<history, history_count, entered>>
  /\ history_idx' = -1
  /\ \E out \in Outputs : Show(term_execute_command(term_newline(OnScreen), out))
  /\ UNCHANGED line

TermNext ==
  \/ \E maximised \in BOOLEAN : SurfaceChanges(maximised)
  \/ Restart
  \/ KeyUp
  \/ KeyDown
  \/ KeyMove
  \/ KeyDelete
  \/ KeyBackspace
  \/ \E ch \in Chars : KeyChar(ch)
  \/ KeyEnter

TermSpec == TermInit /\ [][TermNext]_term_vars

-----------------------------------------------------------------------------
(* Properties.                                                               *)

\* The types of the variables: the cursor is on the grid, whatever was written
\* and however the surface changed under it, the cursor of the line is within
\* the line, and the line leaves room for its terminator.
TermTypeOK ==
  /\ size \in Sizes /\ surface \in Sizes /\ needs_surface_clear \in BOOLEAN
  /\ cursor[1] \in 0..(size[1] - 1) /\ cursor[2] \in 0..(size[2] - 1)
  /\ line_buf \in [Index -> Chars \cup {NUL}]
  /\ line_len \in Index /\ line_cursor \in 0..line_len
  /\ history_count \in 0..TERM_MAX_HISTORY
  /\ history_idx \in -1..(history_count - 1)

\* The cursors stay on the grid and in the line, with room for its terminator;
\* what ENTER would run is the line as it is edited, no less and no more, and no
\* escape sequence is left open that would swallow what is typed next.  (With an
\* empty line the buffer may still hold a line from before a restart.)
LineIsCommand ==
  /\ TermTypeOK
  /\ line_len > 0 => CString(line_buf) = LineText(line_len)
  /\ \E i \in Index : line_buf[i] = NUL
  /\ ~ansi_escaped

\* As long as the ring has not come round, the n-th UP in a row brings back the
\* n-th newest line, whatever was typed, recalled or edited in between.
RecallsNewest ==
  [][history_idx' > history_idx /\ history_idx >= -1 /\ entered' = entered
       /\ Len(entered) < TERM_MAX_HISTORY =>
       LineText(line_len)' = entered[Len(entered) - history_idx']]_term_vars

=============================================================================
