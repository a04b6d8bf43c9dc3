---------------------------- MODULE TextSession ----------------------------
(***************************************************************************)
(* The program on the text screen, from the boot menu of kernel/kmain.c:   *)
(* the menu with its timeout, the shell's line editor on the console, and  *)
(* the game that the command `play' runs.  One of them reads the keyboard  *)
(* at a time.                                                              *)
(***************************************************************************)
EXTENDS LineEditor, Snake

CONSTANTS
  PlayLine,      \* the line `play'
  Banner,        \* what shell_init() prints
  MENU_TICKS     \* timer ticks that the menu waits, 300 in the code

ASSUME TextSessionAssumption ==
  /\ PlayLine \in Seq(Char) \ {<< >>}
  /\ Banner \in Seq(Glyph \cup {NEWLINE})
  /\ MENU_TICKS \in Nat

VARIABLES
  mode,          \* which loop of the program runs
  waited         \* ticks since wait_for_choice() began

vars == <<mode, waited, lineVars, snakeVars>>

Init ==
  /\ LineInit
  /\ SnakeInit
  /\ mode = "menu"
  /\ waited = 0

MenuTick ==
  /\ mode = "menu" /\ waited < MENU_TICKS
  /\ waited' = waited + 1
  /\ UNCHANGED <<mode, lineVars, snakeVars>>

(* The rest of kmain() up to a main loop.  The desktop does not return.    *)
Boot(m) ==
  /\ mode' = m
  /\ waited' = 0
  /\ ShellInit(Banner)
  /\ UNCHANGED snakeVars

(* Mutant: only a key ends the menu. *)
MutChooseDesktop(key, framebuffer) ==
  /\ mode = "menu"
  /\ key = "1"
  /\ Boot(IF framebuffer THEN "desktop" ELSE "shell")

(* A pass of wait_for_choice() that ends it: 1, or the time is over;       *)
(* without a framebuffer the desktop's choice falls back to the shell.     *)
ChooseDesktop(key, framebuffer) ==
  /\ mode = "menu"
  /\ key = "1" \/ waited >= MENU_TICKS
  /\ Boot(IF framebuffer THEN "desktop" ELSE "shell")

ChooseShell ==
  /\ mode = "menu"
  /\ Boot("shell")

EditLine(ev) ==
  /\ mode = "shell"
  /\ Press(ev)
  /\ UNCHANGED <<mode, waited, snakeVars>>

EnterLine(reply) ==
  /\ mode = "shell" /\ buf # PlayLine
  /\ Enter(reply) \/ (reply = << >> /\ EnterClear)
  /\ UNCHANGED <<mode, waited, snakeVars>>

(* builtin_play(), up to the game's wait for its first key.  What the game *)
(* draws on the screen it has cleared is left to Snake: nothing of it is   *)
(* there when the shell has the screen again.                              *)
Play ==
  /\ mode = "shell" /\ buf = PlayLine
  /\ hist_buf' = HistoryAdd(buf)
  /\ le_hist_count' = 1
  /\ screen' = Cleared
  /\ mode' = "game"
  /\ NewGame
  /\ UNCHANGED <<waited, buf, le_line_start, le_len, le_cursor, le_hist_idx, le_save>>

(* The rest of builtin_play() after snake_game(), and of shell_update():   *)
(* fb_clear(), and the prompt at the top of the screen.                    *)
Return ==
  /\ mode' = "shell"
  /\ StartLine(Cleared)
  /\ UNCHANGED hist_buf

InGame ==
  /\ mode = "game"
  /\ SnakeNext
  /\ IF phase' = "off" THEN Return ELSE UNCHANGED <<mode, lineVars>>
  /\ UNCHANGED waited

Next ==
  \/ MenuTick
  \/ \E key \in {"1", "other"}, framebuffer \in BOOLEAN : ChooseDesktop(key, framebuffer)
  \/ ChooseShell
  \/ \E ev \in EditKey : EditLine(ev)
  \/ \E reply \in Reply : EnterLine(reply)
  \/ Play
  \/ InGame

Spec == Init /\ [][Next]_vars

(* The menu is a busy loop that the timer interrupts; no key need come.    *)
FairSpec ==
  /\ Spec
  /\ WF_vars(MenuTick)
  /\ WF_vars(\E framebuffer \in BOOLEAN : ChooseDesktop("other", framebuffer))

-----------------------------------------------------------------------------
(* The screen, the buffer and the prompt agree whenever the shell reads a  *)
(* key: after output that scrolled, after a long line, after a game.       *)
LineInv == mode = "shell" => LineOK

(* A line enters the history only as it was shown on the screen, character *)
(* by character (lineedit.c:194, shell.c:1484).                            *)
HistoryWasShown ==
  [][ hist_buf' # hist_buf =>
        \A i \in 1 .. Len(hist_buf'[1]) :
          le_line_start + i <= Size => screen.cells[le_line_start + i - 1] = hist_buf'[1][i] ]_vars

(* The menu waits for nobody: whatever keys come, a mode is entered        *)
(* (kmain.c:109-126, 197-207).                                             *)
MenuEnds == mode = "menu" ~> mode \in {"shell", "desktop"}
=============================================================================
