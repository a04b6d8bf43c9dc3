---------------------------- MODULE WindowManager ----------------------------
(* The desktop of src/servers/wm.cpp: the table of windows, stacking and     *)
(* focus, the buttons of a window, moving and resizing, the taskbar, the     *)
(* start menu, the icons and the keys.  One iteration of the loop of         *)
(* srv_wm_main() is Poll, one action for what the button does, and the keys;  *)
(* an iteration of the loop that moves a window is a step of its own.         *)
(* Pixels are not modelled; what they show is: the variable `stale' says      *)
(* that something shown has changed since the last compose().                 *)
EXTENDS Integers, Sequences, FiniteSets, SequencesExt

CONSTANTS
  WM_MAX_WINDOWS,  \* slots of the window table
  Spots,           \* positions the mouse is polled at, <<x, y>>
  Scrolls,         \* wheel movements read by a poll
  MaxZ             \* bound on top_z: the number of windows raised

ASSUME WindowsAssumption == WM_MAX_WINDOWS \in Nat /\ WM_MAX_WINDOWS >= 3
ASSUME SpotsAssumption == Spots \subseteq (0..1023) \X (0..767)
ASSUME MaxZAssumption == MaxZ \in Nat /\ MaxZ >= 3
ASSUME ScrollsAssumption == Scrolls \subseteq Int /\ 0 \in Scrolls

screen_w == 1024
screen_h == 768
WM_TITLEBAR_H == 30
WM_TASKBAR_H == 36
WM_BTN_SIZE == 16
WM_RESIZE_ZONE == 6
tb_y == screen_h - WM_TASKBAR_H

VARIABLES
  win,               \* the window in each slot
  next_id, top_z,    \* the next identifier and the next place in the stack
  focused_id,        \* the window the keys go to
  start_menu_open,
  fm_scroll,         \* scroll position, shared by every file manager
  mouse, btn,        \* pointer and left button as last polled
  prev_mouse,        \* pointer of the poll before; a move of a window skips it
  changed,           \* need_redraw
  grab,              \* the resize or the move in progress
  pc,                \* where the loop is
  stale              \* the screen does not show the state

stack == <<win, next_id, top_z, focused_id>>
input == <<mouse, btn, prev_mouse>>
vars == <<stack, start_menu_open, fm_scroll, input, changed, grab, pc, stale>>

Slots == 1..WM_MAX_WINDOWS
Apps == {"file_manager", "terminal", "about"}
NoWindow == [id |-> 0, flags |-> {}]
NoGrab == [kind |-> "none"]

Live(s) == win[s].flags # {}
Shown(s) == "VISIBLE" \in win[s].flags /\ "MINIMIZED" \notin win[s].flags
Inside(p, x, y, w, h) == p[1] >= x /\ p[1] < x + w /\ p[2] >= y /\ p[2] < y + h
Over(s, p) == Inside(p, win[s].x, win[s].y, win[s].w, win[s].h)
AtLeast(a, b) == IF a < b THEN b ELSE a
AtMost(a, b) == IF a > b THEN b ELSE a

-----------------------------------------------------------------------------
(* Helpers of the window table: each takes the table and returns one.        *)

\* find_window() and find_window_idx(): 0 when no live window has that id.
find_window(id) ==
  LET at == {s \in Slots : win[s].id = id /\ Live(s)}
  IN  IF at = {} THEN 0 ELSE CHOOSE s \in at : \A t \in at : s <= t

\* hit_test(): the topmost shown window under p, the first one among equals.
hit_test(p) ==
  LET at == {s \in Slots : Shown(s) /\ Over(s, p)}
  IN  IF at = {} THEN 0
      ELSE CHOOSE s \in at : \A t \in at \ {s} :
             win[t].z < win[s].z \/ (win[t].z = win[s].z /\ s < t)

\* The sides of window s within the resize zone at p; a corner is two sides.
get_resize_dir(s, p) ==
  LET w == win[s]
      left == p[1] >= w.x /\ p[1] < w.x + WM_RESIZE_ZONE
      right == p[1] >= w.x + w.w - WM_RESIZE_ZONE /\ p[1] < w.x + w.w
      top == p[2] >= w.y /\ p[2] < w.y + WM_RESIZE_ZONE
      bottom == p[2] >= w.y + w.h - WM_RESIZE_ZONE /\ p[2] < w.y + w.h
  IN  IF "MAXIMIZED" \in w.flags THEN {}
      ELSE (IF left THEN {"left"} ELSE IF right THEN {"right"} ELSE {})
           \cup (IF top THEN {"top"} ELSE IF bottom THEN {"bottom"} ELSE {})

\* focus_top(): the topmost shown window of table ws gets the focus; with
\* none shown, flags and focused_id stay what they were.
TopOf(ws) ==
  LET shown == {s \in Slots : "VISIBLE" \in ws[s].flags /\ "MINIMIZED" \notin ws[s].flags}
  IN  IF shown = {} THEN 0
      ELSE CHOOSE s \in shown : \A t \in shown \ {s} :
             ws[t].z < ws[s].z \/ (ws[t].z = ws[s].z /\ s < t)
focus_top(ws) ==
  LET best == TopOf(ws)
  IN  IF best = 0 THEN win' = ws /\ UNCHANGED focused_id
      ELSE /\ win' = [s \in Slots |-> IF ws[s].flags = {} THEN ws[s]
                                      ELSE [ws[s] EXCEPT !.focused = (s = best)]]
           /\ focused_id' = ws[best].id

\* wm_update_surface_size(): the content area, at most WM_MAX_SURFACE_W by
\* WM_MAX_SURFACE_H; below zero it wraps round to an unsigned number above both.
UnsignedAtMost(n, limit) == IF n \in 0..limit THEN n ELSE limit
wm_update_surface_size(w) ==
  [w EXCEPT !.surface_w = UnsignedAtMost(w.w - 2, 480),
            !.surface_h = UnsignedAtMost(w.h - WM_TITLEBAR_H - 2, 300)]

\* init_filemanager_surface(), init_about_surface(), init_terminal_window():
\* draw the content of a window from nothing.
InitSurface(w) == wm_update_surface_size([w EXCEPT !.needs_surface_clear = FALSE])

-----------------------------------------------------------------------------
(* What the screen shows, for `stale`.                                       *)
View == <<win, start_menu_open, fm_scroll, mouse>>
Compose == stale' = FALSE
\* compose(), flush and continue; need_redraw is local to an iteration.
NextIteration == Compose /\ pc' = "poll" /\ changed' = FALSE
NotComposed == stale' = (stale \/ View' # View)

NewWindow(app, x, y, w, h, id, z) ==
  InitSurface([id |-> id, x |-> x, y |-> y, w |-> w, h |-> h,
               prev |-> [x |-> x, y |-> y, w |-> w, h |-> h],
               flags |-> {"VISIBLE", "DECORATED"}, z |-> z, focused |-> FALSE,
               app_type |-> app, surface_w |-> 0, surface_h |-> 0,
               needs_surface_clear |-> TRUE])

\* wm_create() in the first free slot, and the content of the new window; with
\* every slot taken nothing happens.
wm_create(app, x, y) ==
  LET free == {s \in Slots : ~Live(s)}
      about == app = "about"
  IN  IF free = {} THEN UNCHANGED <<stack, fm_scroll>>
      ELSE LET s == CHOOSE s \in free : \A t \in free : s <= t
           IN  /\ focus_top([win EXCEPT ![s] =
                     NewWindow(app, x, y, IF about THEN 320 ELSE 400,
                               IF about THEN 280 ELSE 300, next_id, top_z)])
               /\ next_id' = next_id + 1 /\ top_z' = top_z + 1
               /\ fm_scroll' = IF app = "file_manager" THEN 0 ELSE fm_scroll

\* z_order = top_z++ and focus_top().
Raise(ws, s) ==
  /\ focus_top([ws EXCEPT ![s].z = top_z])
  /\ top_z' = top_z + 1 /\ UNCHANGED next_id

\* Mutant: the focus stays on the window that goes away.
MutMinimizeKeepsFocus(s) ==
  /\ win' = [win EXCEPT ![s].flags = @ \cup {"MINIMIZED"}]
  /\ UNCHANGED <<next_id, top_z, focused_id>>
wm_minimize(s) ==
  LET ws == [win EXCEPT ![s].flags = @ \cup {"MINIMIZED"}]
  IN  /\ IF win[s].focused THEN focus_top(ws) ELSE win' = ws /\ UNCHANGED focused_id
      /\ UNCHANGED <<next_id, top_z>>

wm_destroy(s) ==
  LET ws == [win EXCEPT ![s] = NoWindow]
  IN  /\ IF focused_id = win[s].id THEN focus_top(ws) ELSE win' = ws /\ UNCHANGED focused_id
      /\ UNCHANGED <<next_id, top_z>>

Place(w, g) == [w EXCEPT !.x = g.x, !.y = g.y, !.w = g.w, !.h = g.h]
Frame(w) == [x |-> w.x, y |-> w.y, w |-> w.w, h |-> w.h]

\* Mutant: the content keeps the size it had.
MutMaximizeKeepsSurface(s) ==
  /\ win' = [win EXCEPT ![s] =
       IF "MAXIMIZED" \in @.flags
       THEN [Place(@, @.prev) EXCEPT !.flags = @ \ {"MAXIMIZED"}]
       ELSE [Place(@, [x |-> 0, y |-> 0, w |-> screen_w, h |-> tb_y])
             EXCEPT !.flags = @ \cup {"MAXIMIZED"}, !.prev = Frame(win[s])]]
  /\ UNCHANGED <<next_id, top_z, focused_id>>
wm_maximize(s) ==
  LET w == win[s]
      to == IF "MAXIMIZED" \in w.flags
            THEN [Place(w, w.prev) EXCEPT !.flags = @ \ {"MAXIMIZED"}]
            ELSE [Place(w, [x |-> 0, y |-> 0, w |-> screen_w, h |-> tb_y])
                  EXCEPT !.flags = @ \cup {"MAXIMIZED"}, !.prev = Frame(w)]
  IN  /\ win' = [win EXCEPT ![s] = wm_update_surface_size(
                                    [to EXCEPT !.needs_surface_clear = TRUE])]
      /\ UNCHANGED <<next_id, top_z, focused_id>>

\* The width of a taskbar button, by the length of the title.
ButtonWidth(app) == CASE app = "file_manager" -> 120
                      [] app = "terminal" -> 88
                      [] app = "about" -> 64

\* taskbar_hit_test(): the window whose button is at p; 0 for none.  Buttons
\* stand side by side in the order of the slots, while there is room.
ButtonLeft(s) ==
  FoldLeft(LAMBDA at, t : IF Live(t) THEN at + ButtonWidth(win[t].app_type) + 4 ELSE at,
           84, [t \in 1..(s - 1) |-> t])
taskbar_hit_test(p) ==
  LET at == {s \in Slots :
               /\ Live(s)
               /\ p[1] >= ButtonLeft(s)
               /\ p[1] < ButtonLeft(s) + ButtonWidth(win[s].app_type)
               /\ ButtonLeft(s) + ButtonWidth(win[s].app_type) <= screen_w - 120}
  IN  IF at = {} THEN 0 ELSE CHOOSE s \in at : TRUE

\* start_menu_hit_test(): the entry of the menu at p.
start_menu_hit_test(p) ==
  LET entry(n, gap) == tb_y - 200 + 32 + n * 26 + gap
      at(n, gap) == p[1] >= 2 /\ p[1] < 182
                    /\ p[2] >= entry(n, gap) /\ p[2] < entry(n, gap) + 24
  IN  CASE at(0, 0) -> "file_manager" [] at(1, 0) -> "terminal" [] at(2, 0) -> "about"
        [] at(3, 10) -> "shutdown" [] at(4, 10) -> "reboot" [] OTHER -> "none"

\* desktop_icon_hit_test(): the application of the icon at p.
desktop_icon_hit_test(p) ==
  LET at(n) == Inside(p, 32, 32 + 72 * n, 48, 48)
  IN  CASE at(0) -> "file_manager" [] at(1) -> "terminal" [] at(2) -> "about"
        [] OTHER -> "none"

AppNumber(app) == CASE app = "file_manager" -> 0 [] app = "terminal" -> 1 [] app = "about" -> 2

-----------------------------------------------------------------------------
Init ==
  LET fm == NewWindow("file_manager", 60, 50, 380, 320, 1, 0)
      terminal == NewWindow("terminal", 180, 100, 420, 300, 2, 1)
      about == NewWindow("about", 340, 160, 320, 280, 3, 2)
  IN  /\ win = [s \in Slots |-> CASE s = 1 -> fm [] s = 2 -> terminal
                                 [] s = 3 -> [about EXCEPT !.focused = TRUE]
                                 [] OTHER -> NoWindow]
      /\ next_id = 4 /\ top_z = 3 /\ focused_id = 3
      /\ start_menu_open = FALSE /\ fm_scroll = 0
      /\ mouse = <<512, 384>> /\ prev_mouse = <<512, 384>>
      /\ btn = FALSE
      /\ changed = FALSE /\ grab = NoGrab /\ pc = "poll" /\ stale = TRUE

\* The top of an iteration: pointer, button and wheel.  The wheel scrolls the
\* file manager that has the focus; need_redraw is then set from the pointer
\* and the button alone.
FmContentHeight == 4 + 20 + 21 * 18 + 4
Scroll(delta) ==
  LET f == find_window(focused_id)
  IN  IF delta # 0 /\ f # 0 /\ win[f].app_type = "file_manager"
         /\ FmContentHeight > win[f].surface_h
      THEN /\ fm_scroll' = AtMost(AtLeast(fm_scroll - delta * 6, 0),
                                 FmContentHeight - win[f].surface_h)
           /\ win' = [win EXCEPT ![f] = InitSurface(@)]
      ELSE UNCHANGED <<fm_scroll, win>>

Poll ==
  /\ pc = "poll"
  /\ \E p \in Spots, b \in BOOLEAN, delta \in Scrolls :
       /\ b /\ ~btn => top_z < MaxZ
       /\ mouse' = p /\ btn' = b /\ prev_mouse' = p
       /\ changed' = (p # prev_mouse \/ b # btn)
       /\ Scroll(delta)
       /\ pc' = IF b /\ ~btn THEN "click" ELSE "act"
  /\ UNCHANGED <<next_id, top_z, focused_id, start_menu_open, grab>>
  /\ NotComposed

\* A side of a window moved by d from where it was grabbed.  The near side
\* (left, top) keeps the far one in place, the far side stops at `limit`.
\* Mutant: at its minimum the near side still follows the pointer.
MutMoveNearLoose(pos, len, d, least) == <<AtLeast(pos + d, 0), AtLeast(len - d, least)>>
MoveNear(pos, len, d, least) ==
  LET l == AtLeast(len - d, least)
      at == pos + len - l
  IN  IF at < 0 THEN <<0, l + at>> ELSE <<at, l>>
MoveFar(pos, len, d, least, limit) == AtMost(AtLeast(len + d, least), limit - pos)

Resized(w) ==
  LET dx == mouse[1] - grab.x
      dy == mouse[2] - grab.y
      o == grab.orig
      left == MoveNear(o.x, o.w, dx, 120)
      top == MoveNear(o.y, o.h, dy, 80)
  IN  [w EXCEPT !.x = IF "left" \in grab.dir THEN left[1] ELSE @,
                !.w = IF "left" \in grab.dir THEN left[2]
                      ELSE IF "right" \in grab.dir THEN MoveFar(w.x, o.w, dx, 120, screen_w)
                      ELSE @,
                !.y = IF "top" \in grab.dir THEN top[1] ELSE @,
                !.h = IF "top" \in grab.dir THEN top[2]
                      ELSE IF "bottom" \in grab.dir THEN MoveFar(w.y, o.h, dy, 80, tb_y)
                      ELSE @]

ResizeStep ==
  /\ pc = "act" /\ grab.kind = "resize" /\ btn
  /\ win' = [win EXCEPT ![grab.slot] = wm_update_surface_size(Resized(@))]
  /\ NextIteration
  /\ UNCHANGED <<next_id, top_z, focused_id, start_menu_open, fm_scroll, input, grab>>

ResizeEnd ==
  /\ pc = "act" /\ grab.kind = "resize" /\ ~btn
  /\ grab' = NoGrab
  /\ NextIteration
  /\ UNCHANGED <<stack, start_menu_open, fm_scroll, input>>

-----------------------------------------------------------------------------
(* The button has just gone down.  The open menu takes the click, then the   *)
(* taskbar, then the topmost window, then the icons.                         *)
Click == pc = "click"
OnDesktop == ~start_menu_open /\ mouse[2] < tb_y

MenuClick ==
  LET entry == start_menu_hit_test(mouse)
  IN  /\ Click /\ start_menu_open
      /\ start_menu_open' = FALSE
      /\ IF entry \in Apps
         THEN wm_create(entry, 100 + AppNumber(entry) * 60, 60 + AppNumber(entry) * 40)
         ELSE UNCHANGED <<stack, fm_scroll>>
      /\ UNCHANGED <<input, grab>>
      /\ IF entry \in {"shutdown", "reboot"} THEN pc' = "off" /\ NotComposed /\ UNCHANGED changed
         ELSE NextIteration

TaskbarClick ==
  LET s == taskbar_hit_test(mouse)
  IN  /\ Click /\ ~start_menu_open /\ mouse[2] >= tb_y
      /\ start_menu_open' = (mouse[1] < 80)
      /\ CASE mouse[1] < 80 \/ s = 0 -> UNCHANGED stack
           [] OTHER -> IF "MINIMIZED" \in win[s].flags
                       THEN Raise([win EXCEPT ![s].flags = @ \ {"MINIMIZED"}], s)
                       ELSE IF win[s].focused THEN wm_minimize(s)
                       ELSE Raise(win, s)
      /\ NextIteration
      /\ UNCHANGED <<fm_scroll, input, grab>>

\* The button of window s at p: close, then to its left maximise and minimise.
ButtonAt(s, p) ==
  LET x == win[s].x + win[s].w - WM_BTN_SIZE - 4
      at(left) == Inside(p, left, win[s].y + 2, WM_BTN_SIZE, WM_BTN_SIZE)
  IN  CASE at(x) -> "close"
        [] at(x - WM_BTN_SIZE - 2) -> "maximize"
        [] at(x - 2 * (WM_BTN_SIZE + 2)) -> "minimize"
        [] OTHER -> "none"

ButtonClick ==
  LET s == hit_test(mouse)
      button == ButtonAt(s, mouse)
  IN  /\ Click /\ OnDesktop /\ s # 0 /\ button # "none"
      /\ CASE button = "close" -> wm_destroy(s)
           [] button = "maximize" -> wm_maximize(s)
           [] button = "minimize" -> wm_minimize(s)
      /\ NextIteration
      /\ UNCHANGED <<start_menu_open, fm_scroll, input, grab>>

\* Elsewhere on a window: it comes to the top; at its edge a resize starts, in
\* its title the loop that moves it.
WindowClick ==
  LET s == hit_test(mouse)
      dir == get_resize_dir(s, mouse)
      w == win[s]
  IN  /\ Click /\ OnDesktop /\ s # 0 /\ ButtonAt(s, mouse) = "none"
      /\ Raise(win, s)
      /\ UNCHANGED <<start_menu_open, fm_scroll, input>>
      /\ CASE dir # {} ->
              /\ grab' = [kind |-> "resize", slot |-> s, dir |-> dir,
                          x |-> mouse[1], y |-> mouse[2], orig |-> Frame(w)]
              /\ NextIteration
           [] dir = {} /\ mouse[2] < w.y + WM_TITLEBAR_H ->
              /\ grab' = [kind |-> "move", slot |-> s,
                          off_x |-> mouse[1] - w.x, off_y |-> mouse[2] - w.y]
              /\ pc' = "drag" /\ NotComposed /\ UNCHANGED changed
           [] OTHER -> pc' = "keys" /\ NotComposed /\ UNCHANGED <<changed, grab>>

IconClick ==
  LET app == desktop_icon_hit_test(mouse)
  IN  /\ Click /\ OnDesktop /\ hit_test(mouse) = 0 /\ app # "none"
      /\ wm_create(app, 80 + AppNumber(app) * 70, 60 + AppNumber(app) * 50)
      /\ NextIteration
      /\ UNCHANGED <<start_menu_open, input, grab>>

ClickNothing ==
  /\ \/ pc = "act" /\ grab.kind = "none"
     \/ Click /\ OnDesktop /\ hit_test(mouse) = 0 /\ desktop_icon_hit_test(mouse) = "none"
  /\ UNCHANGED <<stack, start_menu_open, fm_scroll, input, changed, grab>>
  /\ pc' = "keys" /\ NotComposed

\* One iteration of the loop that moves a window.  A maximised window takes its
\* old size back and hangs by the middle of its title from the next iteration.
DragMoved(w, p) ==
  [w EXCEPT !.x = p[1] - grab.off_x, !.y = AtLeast(p[2] - grab.off_y, 0)]
\* Mutant: a window that has just got its old size is held where it was grabbed.
MutHungWhereGrabbed(g, w) == g
HungByTitle(g, w) == [g EXCEPT !.off_x = w.w \div 2, !.off_y = 10]
DragStep ==
  /\ pc = "drag"
  /\ \E p \in Spots, b \in BOOLEAN :
       LET w == DragMoved(win[grab.slot], p)
           whole == "MAXIMIZED" \in w.flags
           normal == wm_update_surface_size([w EXCEPT !.flags = @ \ {"MAXIMIZED"},
                                                      !.w = w.prev.w, !.h = w.prev.h])
       IN  /\ mouse' = p /\ btn' = b
           /\ win' = [win EXCEPT ![grab.slot] = IF whole THEN normal ELSE w]
           /\ grab' = CASE ~b -> NoGrab
                        [] b /\ whole -> HungByTitle(grab, normal)
                        [] OTHER -> grab
           /\ pc' = IF b THEN "drag" ELSE "keys"
  /\ Compose
  /\ UNCHANGED <<next_id, top_z, focused_id, start_menu_open, fm_scroll, prev_mouse, changed>>

-----------------------------------------------------------------------------
(* The keys of an iteration go to the terminal that has the focus.  The      *)
(* first one after its size changed starts the terminal again.               *)
TerminalKey ==
  LET f == find_window(focused_id)
  IN  /\ pc = "keys" /\ f # 0 /\ win[f].app_type = "terminal"
      /\ win' = [win EXCEPT ![f] = IF @.needs_surface_clear THEN InitSurface(@) ELSE @]
      /\ UNCHANGED <<next_id, top_z, focused_id, start_menu_open, fm_scroll, input, grab, pc>>
      /\ changed' = TRUE /\ NotComposed

TabKey ==
  LET f == find_window(focused_id)
  IN  /\ pc = "keys" /\ top_z < MaxZ
      /\ IF f = 0 THEN focus_top(win) /\ UNCHANGED <<next_id, top_z>>
         ELSE win[f].app_type # "terminal" /\ Raise(win, f)
      /\ UNCHANGED <<start_menu_open, fm_scroll, input, grab, pc>>
      /\ changed' = TRUE /\ NotComposed

\* A key nobody takes.
IgnoredKey ==
  LET f == find_window(focused_id)
  IN  /\ pc = "keys" /\ (f # 0 => win[f].app_type # "terminal")
      /\ changed' = TRUE
      /\ UNCHANGED <<stack, start_menu_open, fm_scroll, input, grab, pc, stale>>

\* Mutant: the clock asks for no redraw.
MutKeysDoneNoClock(due) ==
  /\ pc = "keys"
  /\ pc' = "poll" /\ changed' = FALSE
  /\ UNCHANGED <<stack, start_menu_open, fm_scroll, input, grab>>
  /\ IF changed THEN Compose ELSE NotComposed

\* The queue is empty; the clock is due every 100 ticks.
KeysDone(due) ==
  /\ pc = "keys"
  /\ UNCHANGED <<stack, start_menu_open, fm_scroll, input, grab>>
  /\ IF changed \/ due THEN Compose ELSE NotComposed
  /\ pc' = "poll" /\ changed' = FALSE

Act == \/ ResizeStep \/ ResizeEnd \/ MenuClick \/ TaskbarClick \/ ButtonClick
       \/ WindowClick \/ IconClick \/ ClickNothing
Next == \/ Poll
        \/ Act
        \/ DragStep
        \/ TerminalKey \/ TabKey \/ IgnoredKey
        \/ \E due \in BOOLEAN : KeysDone(due)

Spec == Init /\ [][Next]_vars

\* The loop never blocks, the queue of keys runs empty, and the clock is due
\* again and again.  (Poll and DragStep are the steps that read the mouse.)
Fairness ==
  /\ WF_vars(pc \in {"poll", "drag"} /\ Next) /\ WF_vars(Act)
  /\ WF_vars(\E due \in BOOLEAN : KeysDone(due)) /\ SF_vars(KeysDone(TRUE))
FairSpec == Spec /\ Fairness

-----------------------------------------------------------------------------
(* Properties.                                                               *)

Window ==
  [id : Nat \ {0}, x : Int, y : Nat, w : Nat \ {0}, h : Nat \ {0},
   prev : [x : Int, y : Nat, w : Nat, h : Nat],
   flags : SUBSET {"VISIBLE", "DECORATED", "MINIMIZED", "MAXIMIZED"},
   z : Nat, focused : BOOLEAN, app_type : Apps,
   surface_w : 0..480, surface_h : 0..300, needs_surface_clear : BOOLEAN]

\* The types of the variables; a window has a size, no window is placed above
\* the screen and no content is larger than its buffer.
TypeOK ==
  /\ \A s \in Slots : win[s] = NoWindow \/ win[s] \in Window
  /\ next_id \in Nat /\ top_z \in 0..MaxZ /\ focused_id \in Nat
  /\ start_menu_open \in BOOLEAN /\ changed \in BOOLEAN /\ stale \in BOOLEAN
  /\ fm_scroll \in Nat
  /\ btn \in BOOLEAN
  /\ pc \in {"poll", "act", "click", "drag", "keys", "off"}
  /\ grab.kind \in {"none", "resize", "move"}
  /\ pc = "drag" => grab.kind = "move" /\ btn

\* compose() paints the shown windows by rising z_order, those of one height in
\* an order that its sort leaves open: the windows it may paint last over p.
PaintedLast(p) ==
  LET at == {s \in Slots : Shown(s) /\ Over(s, p)}
  IN  {s \in at : \A t \in at : win[t].z <= win[s].z}

\* While any window is shown the one on top, and no other, has the focus: the
\* keys go where the title bar says.
TopHasFocus ==
  LET top == TopOf(win)
  IN  top # 0 => /\ focused_id = win[top].id
                 /\ \A s \in Slots : Live(s) => (win[s].focused <=> s = top)

\* The variables have their types; in every order of painting the window seen at
\* a point is the one a click there goes to, and the one on top has the focus.
StackInOrder == TypeOK /\ TopHasFocus /\ \A p \in Spots : PaintedLast(p) = {hit_test(p)} \ {0}

\* The buffer of every window has the size its frame gives it, whatever way the
\* frame got its size, and what is marked maximised fills the desktop: neither a
\* move nor a resize may leave the mark on a window of another size.
FramesInStep ==
  \A s \in Slots : Live(s) =>
    /\ wm_update_surface_size(win[s]) = win[s]
    /\ "MAXIMIZED" \in win[s].flags =>
         Frame(win[s]) = [x |-> 0, y |-> 0, w |-> screen_w, h |-> tb_y]

InWorkArea(g) ==
  g.x >= 0 /\ g.y >= 0 /\ g.x + g.w <= screen_w /\ g.y + g.h <= tb_y /\ g.w >= 120 /\ g.h >= 80

\* A resize of a window that stands inside the work area leaves it there, no
\* smaller than the minimum, with the sides that were not grabbed in place.
ResizeKeepsWindow ==
  [][grab.kind = "resize" /\ pc = "act" /\ btn /\ InWorkArea(grab.orig) =>
       LET g == Frame(win'[grab.slot])
           o == grab.orig
       IN  /\ InWorkArea(g)
           /\ "left" \notin grab.dir => g.x = o.x
           /\ "right" \notin grab.dir => g.x + g.w = o.x + o.w
           /\ "top" \notin grab.dir => g.y = o.y
           /\ "bottom" \notin grab.dir => g.y + g.h = o.y + o.h]_vars

\* A window that is moved stays under the pointer: from the second iteration on
\* even one that was maximised, whose size has changed under the hand.
MoveHoldsTitle ==
  [][pc = "drag" /\ "MAXIMIZED" \notin win[grab.slot].flags =>
       LET w == win'[grab.slot]
       IN  Inside(mouse', w.x, w.y, w.w, WM_TITLEBAR_H)]_vars

\* What changed without a compose() is shown later, at the next change that
\* asks for one or when the clock is due.
ScreenCatchesUp == stale ~> (~stale \/ pc = "off")

=============================================================================
