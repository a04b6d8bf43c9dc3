--------------------------- MODULE DesktopProofs ---------------------------
(***************************************************************************)
(* The desktop, for any number of windows and any positions of the         *)
(* pointer: what a resize and a move do to a window, who has the focus,    *)
(* that frames and buffers agree.  Then a terminal in its window, for any  *)
(* length of its line and of its history.                                  *)
(*                                                                         *)
(* First resizes and moves: the window stays in the work area, and under   *)
(* the pointer.  Both rest on what a grab remembers of its window: while   *)
(* the button is down no other step moves the window that is held.         *)
(***************************************************************************)
EXTENDS WindowManager, Terminal, TLAPS, WellFoundedInduction

LEMMA Least ==
  ASSUME NEW S, S \subseteq Nat, S # {}
  PROVE  \E x \in S : \A y \in S : x <= y
<1> DEFINE R == OpToRel(<, Nat)
<1>1. PICK x \in S : \A y \in S : ~(<<y, x>> \in R)
  <2> HIDE DEF R
  <2>1. IsWellFoundedOn(R, Nat)
    BY NatLessThanWellFounded DEF R
  <2> QED
    BY <2>1, WFMin
<1>2. \A y \in S : ~(y < x)
  BY <1>1 DEF OpToRel
<1> QED
  BY <1>2

-----------------------------------------------------------------------------
(* A live window, as far as moves and resizes depend on it.                *)
Flags == {f \in SUBSET {"VISIBLE", "DECORATED", "MINIMIZED", "MAXIMIZED"} : "VISIBLE" \in f}
Old == [x : Int, y : Int, w : Nat \ {0}, h : Int]
Win == [id : Nat, x : Int, y : Int, w : Int, h : Int, prev : Old, flags : Flags, z : Nat,
        focused : BOOLEAN, app_type : Apps, surface_w : Int, surface_h : Int,
        needs_surface_clear : BOOLEAN]

(* Two windows with the same place, flags and old place.                   *)
Alike(v, w) ==
  /\ v \in Win /\ w \in Win
  /\ v.x = w.x /\ v.y = w.y /\ v.w = w.w /\ v.h = w.h
  /\ v.prev = w.prev /\ v.flags = w.flags /\ v.z = w.z

Tables == [Slots -> Win \cup {NoWindow}]

LEMMA NoWindowDead == NoWindow \notin Win
  BY DEF NoWindow, Win, Flags

LEMMA LiveIsWin ==
  ASSUME NEW t \in Tables, NEW s \in Slots
  PROVE  t[s].flags # {} <=> t[s] \in Win
<1>1. t[s] \in Win \/ t[s] = NoWindow
  BY DEF Tables
<1>2. NoWindow.flags = {} /\ NoWindow \notin Win
  BY NoWindowDead DEF NoWindow
<1>3. ASSUME t[s] \in Win PROVE t[s].flags # {}
  BY <1>3 DEF Win, Flags
<1> QED
  BY <1>1, <1>2, <1>3

LEMMA SurfaceAlike ==
  ASSUME NEW w \in Win
  PROVE  /\ Alike(wm_update_surface_size(w), w)
         /\ wm_update_surface_size(w).id = w.id
         /\ wm_update_surface_size(w).app_type = w.app_type
         /\ wm_update_surface_size(w).focused = w.focused
<1>1. \A n, limit \in Int : UnsignedAtMost(n, limit) \in Int
  BY DEF UnsignedAtMost
<1> DEFINE a == UnsignedAtMost(w.w - 2, 480)
           b == UnsignedAtMost(w.h - WM_TITLEBAR_H - 2, 300)
<1>2. a \in Int /\ b \in Int
  <2>1. w.w \in Int /\ w.h \in Int
    BY DEF Win
  <2>2. w.w - 2 \in Int /\ w.h - WM_TITLEBAR_H - 2 \in Int /\ 480 \in Int /\ 300 \in Int
    BY <2>1 DEF WM_TITLEBAR_H
  <2> QED
    BY ZenonT(30), <1>1, <2>2
<1>3. wm_update_surface_size(w) = [w EXCEPT !.surface_w = a, !.surface_h = b]
  BY DEF wm_update_surface_size
<1> HIDE DEF a, b
<1> QED
  BY <1>2, <1>3 DEF Alike, Win

LEMMA InitSurfaceAlike ==
  ASSUME NEW w \in Win
  PROVE  Alike(InitSurface(w), w) /\ InitSurface(w).id = w.id /\ InitSurface(w).focused = w.focused
<1> DEFINE v == [w EXCEPT !.needs_surface_clear = FALSE]
<1>1. Alike(v, w) /\ v.id = w.id /\ v.focused = w.focused
  BY DEF Alike, Win
<1> HIDE DEF v
<1>2. v \in Win
  BY <1>1 DEF Alike
<1>3. InitSurface(w) = wm_update_surface_size(v)
  BY DEF InitSurface, v
<1> QED
  BY <1>1, <1>2, <1>3, SurfaceAlike DEF Alike

(* focus_top() changes nothing of a window but its title.                  *)
LEMMA FocusAlike ==
  ASSUME NEW ws \in Tables, focus_top(ws)
  PROVE  /\ win' \in Tables
         /\ \A s \in Slots : \/ win'[s] = ws[s]
                             \/ Alike(win'[s], ws[s]) /\ win'[s].id = ws[s].id
<1> DEFINE best == TopOf(ws)
<1>1. CASE best = 0
  BY <1>1 DEF focus_top
<1>2. CASE best # 0
  <2>1. win' = [s \in Slots |-> IF ws[s].flags = {} THEN ws[s]
                                ELSE [ws[s] EXCEPT !.focused = (s = best)]]
    BY <1>2 DEF focus_top
  <2> HIDE DEF best
  <2>2. ASSUME NEW s \in Slots, ws[s].flags # {}
        PROVE  Alike(win'[s], ws[s]) /\ win'[s].id = ws[s].id
    <3>1. ws[s] \in Win /\ (s = best) \in BOOLEAN
      BY <2>2, LiveIsWin
    <3>2. win'[s] = [ws[s] EXCEPT !.focused = (s = best)]
      BY <2>1, <2>2
    <3> DEFINE b == (s = best)
    <3> HIDE DEF b
    <3>3. b \in BOOLEAN /\ win'[s] = [ws[s] EXCEPT !.focused = b]
      BY <3>1, <3>2 DEF b
    <3> QED
      BY <3>1, <3>3 DEF Alike, Win
  <2>3. \A s \in Slots : ws[s].flags = {} => win'[s] = ws[s]
    BY <2>1
  <2>4. \A s \in Slots : win'[s] \in Win \cup {NoWindow}
    BY <2>2, <2>3 DEF Alike, Tables
  <2> QED
    BY <2>1, <2>2, <2>3, <2>4 DEF Tables
<1> QED
  BY <1>1, <1>2

(* There is a topmost one in any set of windows of a table, so that what   *)
(* hit_test() and focus_top() look for they find.                          *)
LEMMA TopmostExists ==
  ASSUME NEW t \in Tables, NEW n \in Nat, NEW at \in SUBSET Slots, at # {},
         \A s \in at : t[s] \in Win /\ t[s].z < n
  PROVE  \E s \in at : \A r \in at \ {s} : t[r].z < t[s].z \/ (t[r].z = t[s].z /\ s < r)
<1> DEFINE depth(s) == n - t[s].z
           D == {depth(s) : s \in at}
<1>1. \A s \in at : t[s].z \in Nat /\ depth(s) \in Nat
  BY DEF Win
<1>2. PICK d \in D : \A e \in D : d <= e
  <2>1. D \subseteq Nat /\ D # {}
    BY <1>1
  <2> HIDE DEF D
  <2> QED
    BY <2>1, Least
<1> DEFINE B == {s \in at : depth(s) = d}
<1>3. PICK s \in B : \A r \in B : s <= r
  <2>1. B # {}
    BY <1>2
  <2>2. at \subseteq Nat /\ B \subseteq at
    BY DEF Slots
  <2> HIDE DEF B
  <2> QED
    BY <2>1, <2>2, Least
<1>4. \A r \in at \ {s} : t[r].z < t[s].z \/ (t[r].z = t[s].z /\ s < r)
  <2> SUFFICES ASSUME NEW r \in at \ {s} PROVE t[r].z < t[s].z \/ (t[r].z = t[s].z /\ s < r)
    OBVIOUS
  <2>1. d <= depth(r) /\ depth(s) = d
    BY <1>2, <1>3
  <2>2. depth(r) = d => s <= r
    BY <1>3
  <2>3. s \in Nat /\ r \in Nat /\ s # r
    BY <1>3, WindowsAssumption DEF Slots
  <2> QED
    BY <1>1, <1>3, <2>1, <2>2, <2>3
<1> QED
  BY <1>3, <1>4

LEMMA FindWindow ==
  ASSUME NEW id, find_window(id) # 0
  PROVE  find_window(id) \in Slots /\ Live(find_window(id)) /\ win[find_window(id)].id = id
<1> DEFINE at == {s \in Slots : win[s].id = id /\ Live(s)}
<1>1. at # {} /\ find_window(id) = CHOOSE s \in at : \A r \in at : s <= r
  BY DEF find_window
<1>2. at \subseteq Nat
  BY DEF Slots
<1> HIDE DEF at
<1>3. find_window(id) \in at
  BY <1>1, <1>2, Least
<1> QED
  BY <1>3 DEF at

(* No two windows stand at the same height.                                *)
Apart(ws) ==
  \A s, r \in Slots : ws[s] \in Win /\ ws[r] \in Win /\ s # r => ws[s].z # ws[r].z

StackInv ==
  /\ win \in Tables
  /\ top_z \in Nat /\ next_id \in Nat \ {0}
  /\ \A s \in Slots : win[s] \in Win => win[s].z < top_z
  /\ Apart(win)

LEMMA AlikeApart ==
  ASSUME NEW ws, NEW vs, Apart(ws), \A s \in Slots : vs[s] = ws[s] \/ Alike(vs[s], ws[s])
  PROVE  Apart(vs)
BY DEF Apart, Alike

(* A window that takes the place of another, or one above all of them.     *)
LEMMA OneApart ==
  ASSUME NEW ws, NEW vs, Apart(ws), NEW s \in Slots,
         \A r \in Slots \ {s} : vs[r] = ws[r],
         \/ ws[s] \in Win /\ vs[s].z = ws[s].z
         \/ \A r \in Slots \ {s} : ws[r] \in Win => ws[r].z # vs[s].z
  PROVE  Apart(vs)
BY DEF Apart

LEMMA HitTest ==
  ASSUME StackInv, NEW p, hit_test(p) # 0
  PROVE  hit_test(p) \in Slots /\ win[hit_test(p)] \in Win /\ Shown(hit_test(p)) /\ Over(hit_test(p), p)
<1> DEFINE at == {s \in Slots : Shown(s) /\ Over(s, p)}
<1>1. /\ at # {}
      /\ hit_test(p) = CHOOSE s \in at : \A r \in at \ {s} :
                         win[r].z < win[s].z \/ (win[r].z = win[s].z /\ s < r)
  BY DEF hit_test
<1>2. at \in SUBSET Slots
  OBVIOUS
<1>3. \A s \in at : win[s] \in Win /\ win[s].z < top_z
  <2>1. \A s \in at : win[s].flags # {}
    BY DEF Shown
  <2> QED
    BY <2>1, LiveIsWin DEF StackInv
<1> HIDE DEF at
<1>4. \E s \in at : \A r \in at \ {s} : win[r].z < win[s].z \/ (win[r].z = win[s].z /\ s < r)
  BY <1>1, <1>2, <1>3, TopmostExists DEF StackInv
<1>5. hit_test(p) \in at
  BY <1>1, <1>4
<1> QED
  BY <1>3, <1>5 DEF at

-----------------------------------------------------------------------------
(* The operations on the table of windows.                                 *)
LEMMA RaiseKeeps ==
  ASSUME StackInv, NEW ws \in Tables, NEW s \in Slots, ws[s] \in Win,
         \A r \in Slots : ws[r] \in Win => ws[r].z < top_z, Apart(ws),
         Raise(ws, s)
  PROVE  /\ StackInv'
         /\ win'[s] \in Win /\ Frame(win'[s]) = Frame(ws[s])
         /\ win'[s].flags = ws[s].flags /\ win'[s].prev = ws[s].prev
<1> DEFINE up == [ws EXCEPT ![s].z = top_z]
<1>1. top_z \in Nat /\ top_z' = top_z + 1 /\ next_id' = next_id /\ next_id \in Nat
  BY DEF Raise, StackInv
<1>2. up[s] = [ws[s] EXCEPT !.z = top_z]
  BY DEF Tables
<1>3. /\ up[s] \in Win /\ up[s].z = top_z /\ Frame(up[s]) = Frame(ws[s])
      /\ up[s].flags = ws[s].flags /\ up[s].prev = ws[s].prev
  <2> HIDE DEF up
  <2> QED
    BY <1>1, <1>2 DEF Win, Frame
<1>4. up \in Tables /\ \A r \in Slots \ {s} : up[r] = ws[r]
  BY <1>2, <1>3 DEF Tables
<1>5. focus_top(up)
  BY DEF Raise
<1> HIDE DEF up
<1>6. \A r \in Slots : up[r] \in Win => up[r].z < top_z + 1
  <2> SUFFICES ASSUME NEW r \in Slots, up[r] \in Win PROVE up[r].z < top_z + 1
    OBVIOUS
  <2>1. CASE r = s
    BY <1>1, <1>3, <2>1
  <2>2. CASE r # s
    <3>1. up[r].z < top_z /\ up[r].z \in Nat
      BY <1>4, <2>2 DEF Win
    <3> QED
      BY <1>1, <3>1
  <2> QED
    BY <2>1, <2>2
<1>7. /\ win' \in Tables
      /\ \A r \in Slots : win'[r] = up[r] \/ Alike(win'[r], up[r])
  BY <1>4, <1>5, FocusAlike
<1>8. \A r \in Slots : win'[r] \in Win => win'[r].z < top_z'
  BY <1>1, <1>6, <1>7 DEF Alike
<1>9. StackInv'
  <2>1. \A r \in Slots \ {s} : ws[r] \in Win => ws[r].z # top_z
    BY <1>1 DEF Win
  <2>2. Apart(win')
    BY <1>3, <1>4, <1>7, <2>1, OneApart, AlikeApart
  <2> QED
    BY <1>1, <1>7, <1>8, <2>2 DEF StackInv
<1>10. Frame(win'[s]) = Frame(up[s]) /\ win'[s] \in Win /\ win'[s].flags = up[s].flags /\ win'[s].prev = up[s].prev
  BY <1>3, <1>7 DEF Alike, Frame
<1> QED
  BY <1>3, <1>9, <1>10

(* wm_minimize(), wm_maximize() and wm_destroy() of a window.              *)
LEMMA FlagsKeep ==
  ASSUME StackInv, NEW s \in Slots, win[s] \in Win, NEW f \in Flags,
         NEW ws, ws = [win EXCEPT ![s].flags = f]
  PROVE  /\ ws \in Tables /\ ws[s] \in Win
         /\ \A r \in Slots : ws[r] \in Win => ws[r].z < top_z
         /\ Apart(ws)
<1>1. ws[s] = [win[s] EXCEPT !.flags = f] /\ \A r \in Slots \ {s} : ws[r] = win[r]
  BY DEF StackInv, Tables
<1>2. ws[s] \in Win /\ ws[s].z = win[s].z
  BY <1>1 DEF Win
<1>3. Apart(ws)
  BY <1>1, <1>2 DEF StackInv, Apart
<1> QED
  BY <1>1, <1>2, <1>3 DEF StackInv, Tables

(* Nothing in the stack but a table that focus_top() has gone over, or not.*)
LEMMA TableKeeps ==
  ASSUME StackInv, NEW ws \in Tables,
         \A r \in Slots : ws[r] \in Win => ws[r].z < top_z, Apart(ws),
         focus_top(ws) \/ win' = ws, UNCHANGED <<next_id, top_z>>
  PROVE  StackInv'
<1>1. /\ win' \in Tables
      /\ \A r \in Slots : win'[r] = ws[r] \/ Alike(win'[r], ws[r])
  BY FocusAlike
<1>2. Apart(win')
  BY <1>1, AlikeApart
<1> QED
  BY <1>1, <1>2 DEF StackInv, Alike

LEMMA MinimizeKeeps ==
  ASSUME StackInv, NEW s \in Slots, win[s] \in Win, wm_minimize(s)
  PROVE  StackInv'
<1> DEFINE f == win[s].flags \cup {"MINIMIZED"}
           ws == [win EXCEPT ![s].flags = f]
<1>1. f \in Flags
  BY DEF Win, Flags
<1>2. focus_top(ws) \/ win' = ws
  BY DEF wm_minimize
<1>3. UNCHANGED <<next_id, top_z>>
  BY DEF wm_minimize
<1> HIDE DEF f
<1>4. ws \in Tables /\ Apart(ws) /\ \A r \in Slots : ws[r] \in Win => ws[r].z < top_z
  BY <1>1, FlagsKeep
<1> HIDE DEF ws
<1> QED
  BY <1>2, <1>3, <1>4, TableKeeps

LEMMA DestroyKeeps ==
  ASSUME StackInv, NEW s \in Slots, wm_destroy(s)
  PROVE  StackInv'
<1> DEFINE ws == [win EXCEPT ![s] = NoWindow]
<1>1. (focus_top(ws) \/ win' = ws) /\ UNCHANGED <<next_id, top_z>>
  BY DEF wm_destroy
<1>2. ws \in Tables /\ \A r \in Slots : ws[r] \in Win => ws[r].z < top_z
  BY NoWindowDead DEF StackInv, Tables
<1>3. Apart(ws)
  BY NoWindowDead DEF StackInv, Tables, Apart
<1> HIDE DEF ws
<1> QED
  BY <1>1, <1>2, <1>3, TableKeeps

(* A window in slot s alike in its place in the stack, if not in its place *)
(* on the screen.                                                          *)
LEMMA OneWindowKeeps ==
  ASSUME StackInv, NEW s \in Slots, win[s] \in Win, NEW v \in Win, v.z = win[s].z,
         win' = [win EXCEPT ![s] = v], UNCHANGED <<next_id, top_z>>
  PROVE  StackInv' /\ win'[s] = v
<1>1. Apart(win')
  BY OneApart DEF StackInv, Tables
<1> QED
  BY <1>1 DEF StackInv, Tables

LEMMA PlaceTyped ==
  ASSUME NEW w \in Win, NEW g \in [x : Int, y : Int, w : Int, h : Int]
  PROVE  /\ Place(w, g) \in Win /\ Place(w, g).z = w.z
         /\ Place(w, g).flags = w.flags /\ Place(w, g).prev = w.prev
<1>1. Place(w, g) = [w EXCEPT !.x = g.x, !.y = g.y, !.w = g.w, !.h = g.h]
  BY DEF Place
<1> QED
  BY <1>1 DEF Win

LEMMA MaximizeKeeps ==
  ASSUME StackInv, NEW s \in Slots, win[s] \in Win, win[s].w > 0, wm_maximize(s)
  PROVE  StackInv'
<1> DEFINE w == win[s]
           desk == [x |-> 0, y |-> 0, w |-> screen_w, h |-> tb_y]
           back == Place(w, w.prev)
           full == Place(w, desk)
           to == IF "MAXIMIZED" \in w.flags
                 THEN [back EXCEPT !.flags = @ \ {"MAXIMIZED"}]
                 ELSE [full EXCEPT !.flags = @ \cup {"MAXIMIZED"}, !.prev = Frame(w)]
           drawn == [to EXCEPT !.needs_surface_clear = TRUE]
<1>1. w.prev \in [x : Int, y : Int, w : Int, h : Int] /\ Frame(w) \in Old
  BY DEF Win, Old, Frame
<1>2. desk \in [x : Int, y : Int, w : Int, h : Int]
  BY DEF screen_w, tb_y, screen_h, WM_TASKBAR_H
<1>3. w \in Win
  OBVIOUS
<1> HIDE DEF w, desk
<1>4. back \in Win /\ back.z = w.z /\ back.flags = w.flags
  BY <1>1, <1>3, PlaceTyped
<1>5. full \in Win /\ full.z = w.z /\ full.flags = w.flags
  BY <1>2, <1>3, PlaceTyped
<1>6. w.flags \in Flags /\ w.flags \ {"MAXIMIZED"} \in Flags /\ w.flags \cup {"MAXIMIZED"} \in Flags
  BY <1>3 DEF Win, Flags
<1> HIDE DEF back, full
<1>7. to \in Win /\ to.z = w.z
  <2>1. CASE "MAXIMIZED" \in w.flags
    <3>1. to = [back EXCEPT !.flags = w.flags \ {"MAXIMIZED"}]
      BY <1>4, <2>1
    <3> HIDE DEF to
    <3> QED
      BY <1>4, <1>6, <3>1 DEF Win
  <2>2. CASE "MAXIMIZED" \notin w.flags
    <3> DEFINE once == [full EXCEPT !.flags = w.flags \cup {"MAXIMIZED"}]
    <3>1. once \in Win /\ once.z = w.z
      BY <1>5, <1>6 DEF Win
    <3>2. to = [once EXCEPT !.prev = Frame(w)]
      BY <1>5, <2>2
    <3> HIDE DEF to, once
    <3> QED
      BY <1>1, <3>1, <3>2 DEF Win
  <2> QED
    BY <2>1, <2>2
<1> HIDE DEF to
<1>8. drawn \in Win /\ drawn.z = w.z
  BY <1>7 DEF Win
<1>9. win' = [win EXCEPT ![s] = wm_update_surface_size(drawn)] /\ UNCHANGED <<next_id, top_z>>
  BY DEF wm_maximize, drawn, to, back, full, w, desk
<1> HIDE DEF drawn
<1>10. wm_update_surface_size(drawn) \in Win /\ wm_update_surface_size(drawn).z = win[s].z
  BY <1>8, SurfaceAlike DEF Alike, w
<1> QED
  BY <1>9, <1>10, OneWindowKeeps

LEMMA NewWindowTyped ==
  ASSUME NEW app \in Apps, NEW x \in Int, NEW y \in Int, NEW w \in Nat \ {0}, NEW h \in Int,
         NEW id \in Nat, NEW z \in Nat
  PROVE  NewWindow(app, x, y, w, h, id, z) \in Win /\ NewWindow(app, x, y, w, h, id, z).z = z
<1> DEFINE raw == [id |-> id, x |-> x, y |-> y, w |-> w, h |-> h,
                  prev |-> [x |-> x, y |-> y, w |-> w, h |-> h],
                  flags |-> {"VISIBLE", "DECORATED"}, z |-> z, focused |-> FALSE,
                  app_type |-> app, surface_w |-> 0, surface_h |-> 0,
                  needs_surface_clear |-> TRUE]
<1>1. {"VISIBLE", "DECORATED"} \in Flags
  BY DEF Flags
<1>2. raw \in Win /\ raw.z = z
  BY <1>1 DEF Win, Old
<1>3. NewWindow(app, x, y, w, h, id, z) = InitSurface(raw)
  BY DEF NewWindow
<1> HIDE DEF raw
<1> QED
  BY <1>2, <1>3, InitSurfaceAlike DEF Alike

LEMMA CreateKeeps ==
  ASSUME StackInv, NEW app \in Apps, NEW x \in Int, NEW y \in Int, wm_create(app, x, y)
  PROVE  StackInv'
<1> DEFINE free == {s \in Slots : ~Live(s)}
           s == CHOOSE s \in free : \A t \in free : s <= t
           width == IF app = "about" THEN 320 ELSE 400
           height == IF app = "about" THEN 280 ELSE 300
           new == NewWindow(app, x, y, width, height, next_id, top_z)
           ws == [win EXCEPT ![s] = new]
<1>1. CASE free = {}
  BY <1>1 DEF wm_create, stack, StackInv
<1>2. CASE free # {}
  <2>1. s \in Slots
    <3>1. free \subseteq Nat
      BY DEF Slots
    <3> HIDE DEF free
    <3>2. s \in free
      BY <1>2, <3>1, Least
    <3> QED
      BY <3>2 DEF free
  <2>2. focus_top(ws) /\ next_id' = next_id + 1 /\ top_z' = top_z + 1
    BY <1>2 DEF wm_create
  <2>3. new \in Win /\ new.z = top_z
    <3>1. width \in Nat \ {0} /\ height \in Int /\ next_id \in Nat /\ top_z \in Nat
      BY DEF StackInv
    <3> HIDE DEF width, height
    <3> QED
      BY <3>1, NewWindowTyped
  <2> HIDE DEF s, new
  <2>4. /\ ws \in Tables /\ \A r \in Slots : ws[r] \in Win => ws[r].z < top_z + 1
        /\ Apart(ws)
    <3>1. ws[s] = new /\ \A r \in Slots \ {s} : ws[r] = win[r]
      BY <2>1 DEF StackInv, Tables
    <3>2. \A r \in Slots : win[r] \in Win => win[r].z < top_z + 1
      BY DEF StackInv, Win
    <3>3. \A r \in Slots \ {s} : win[r] \in Win => win[r].z # top_z
      BY DEF StackInv, Win
    <3>4. Apart(ws)
      BY <2>3, <3>1, <3>3 DEF StackInv, Apart
    <3> QED
      BY <2>1, <2>3, <3>1, <3>2, <3>4 DEF StackInv, Tables
  <2> HIDE DEF ws
  <2>5. /\ win' \in Tables
        /\ \A r \in Slots : win'[r] = ws[r] \/ Alike(win'[r], ws[r])
    BY <2>2, <2>4, FocusAlike
  <2>6. Apart(win')
    BY <2>4, <2>5, AlikeApart
  <2> QED
    BY <2>2, <2>4, <2>5, <2>6 DEF StackInv, Alike
<1> QED
  BY <1>1, <1>2

-----------------------------------------------------------------------------
(* What a grab remembers of its window.  A resize: where its sides were;   *)
(* those it does not move are there still.  A move: where in the title the *)
(* pointer is, once the window has the size that it is moved with.         *)
ResizeGrab ==
  LET w == win[grab.slot]
      o == grab.orig
  IN  /\ grab.slot \in Slots /\ w \in Win
      /\ grab.x \in Int /\ grab.y \in Int
      /\ o \in [x : Int, y : Int, w : Int, h : Int]
      /\ "left" \notin grab.dir => w.x = o.x
      /\ grab.dir \cap {"left", "right"} = {} => w.w = o.w
      /\ "top" \notin grab.dir => w.y = o.y
      /\ grab.dir \cap {"top", "bottom"} = {} => w.h = o.h

MoveGrab ==
  LET w == win[grab.slot]
  IN  /\ grab \in [kind : {"move"}, slot : Slots, off_x : Nat, off_y : 0 .. WM_TITLEBAR_H - 1]
      /\ w \in Win
      /\ "MAXIMIZED" \notin w.flags => grab.off_x < w.w

GrabInv ==
  /\ grab.kind \in {"none", "resize", "move"}
  /\ grab.kind = "move" <=> pc = "drag"
  /\ grab.kind = "move" => MoveGrab
  /\ grab.kind = "resize" => /\ pc \in {"poll", "act"}
                             /\ pc = "poll" => btn
                             /\ ResizeGrab
  /\ pc = "click" => btn

PointerInv == mouse \in (0 .. 1023) \X (0 .. 767) /\ btn \in BOOLEAN

IInv == StackInv /\ GrabInv /\ PointerInv

(* Without a grab before and after, only the stack matters.                *)
LEMMA NoGrabKeeps ==
  ASSUME IInv, StackInv', UNCHANGED <<mouse, btn>>, grab' = grab, grab.kind = "none",
         pc' \notin {"drag", "click"}
  PROVE  IInv'
  BY DEF IInv, GrabInv, PointerInv

LEMMA InitHolds == Init => IInv
<1> SUFFICES ASSUME Init PROVE IInv
  OBVIOUS
<1> DEFINE fm == NewWindow("file_manager", 60, 50, 380, 320, 1, 0)
           terminal == NewWindow("terminal", 180, 100, 420, 300, 2, 1)
           about == NewWindow("about", 340, 160, 320, 280, 3, 2)
           top == [about EXCEPT !.focused = TRUE]
<1>1. fm \in Win /\ fm.z = 0
  <2>1. /\ "file_manager" \in Apps /\ 60 \in Int /\ 50 \in Int /\ 380 \in Nat \ {0} /\ 320 \in Int
        /\ 1 \in Nat /\ 0 \in Nat
    BY DEF Apps
  <2> QED
    BY SMTT(20), <2>1, NewWindowTyped
<1>2. terminal \in Win /\ terminal.z = 1
  <2>1. /\ "terminal" \in Apps /\ 180 \in Int /\ 100 \in Int /\ 420 \in Nat \ {0} /\ 300 \in Int
        /\ 2 \in Nat /\ 1 \in Nat
    BY DEF Apps
  <2> QED
    BY SMTT(20), <2>1, NewWindowTyped
<1>3. about \in Win /\ about.z = 2
  <2>1. /\ "about" \in Apps /\ 340 \in Int /\ 160 \in Int /\ 320 \in Nat \ {0} /\ 280 \in Int
        /\ 3 \in Nat /\ 2 \in Nat
    BY DEF Apps
  <2> QED
    BY SMTT(20), <2>1, NewWindowTyped
<1> HIDE DEF fm, terminal, about
<1>4. top \in Win /\ top.z = 2
  BY <1>3 DEF Win
<1>5. win = [s \in Slots |-> CASE s = 1 -> fm [] s = 2 -> terminal [] s = 3 -> top [] OTHER -> NoWindow]
  BY DEF Init, fm, terminal, about
<1> HIDE DEF top
<1>6. \A s \in Slots : (win[s] \in Win /\ win[s].z < 3) \/ win[s] = NoWindow
  BY <1>1, <1>2, <1>4, <1>5
<1>7. StackInv
  <2>1. win \in Tables
    BY <1>5, <1>6 DEF Tables
  <2>2. top_z = 3 /\ next_id = 4
    BY DEF Init
  <2>3. \A s \in Slots : win[s] \in Win => win[s].z < 3
    BY <1>6, NoWindowDead
  <2>4. Apart(win)
    BY <1>1, <1>2, <1>4, <1>5, NoWindowDead DEF Apart
  <2> QED
    BY <2>1, <2>2, <2>3, <2>4 DEF StackInv
<1>8. GrabInv /\ PointerInv
  <2>1. grab = [kind |-> "none"] /\ pc = "poll" /\ mouse = <<512, 384>> /\ btn = FALSE
    BY DEF Init, NoGrab
  <2>2. btn \in BOOLEAN
    BY <2>1
  <2>3. mouse \in (0 .. 1023) \X (0 .. 767)
    BY <2>1
  <2> QED
    BY <2>1, <2>2, <2>3 DEF GrabInv, PointerInv
<1> QED
  BY <1>7, <1>8 DEF IInv

-----------------------------------------------------------------------------
(* A grab goes by the place of its window, whatever is drawn in it.        *)
LEMMA AlikeKeepsGrab ==
  ASSUME StackInv, GrabInv, NEW f \in Slots, NEW v, win[f] \in Win, Alike(v, win[f]),
         win' = [win EXCEPT ![f] = v], UNCHANGED <<next_id, top_z, grab>>
  PROVE  /\ StackInv'
         /\ grab.kind = "move" => MoveGrab'
         /\ grab.kind = "resize" => ResizeGrab'
<1>1. StackInv' /\ win'[f] = v
  BY OneWindowKeeps DEF Alike
<1>2. \A s \in Slots : win[s] \in Win => Alike(win'[s], win[s])
  BY <1>1 DEF Alike, StackInv, Tables
<1>3. grab.kind = "move" => MoveGrab'
  BY <1>2 DEF GrabInv, MoveGrab, Alike
<1>4. grab.kind = "resize" => ResizeGrab'
  BY <1>2 DEF GrabInv, ResizeGrab, Alike
<1> QED
  BY <1>1, <1>3, <1>4

LEMMA PollKeeps == IInv /\ Poll => IInv'
<1> SUFFICES ASSUME IInv, Poll PROVE IInv'
  OBVIOUS
<1>1. PICK p \in Spots, b \in BOOLEAN, delta \in Scrolls :
        /\ mouse' = p /\ btn' = b
        /\ Scroll(delta)
        /\ pc' = IF b /\ ~btn THEN "click" ELSE "act"
  BY DEF Poll
<1>2. UNCHANGED <<next_id, top_z, grab>> /\ pc = "poll"
  BY DEF Poll
<1>3. PointerInv'
  BY <1>1, SpotsAssumption DEF PointerInv
<1>4. /\ StackInv'
      /\ grab.kind = "move" => MoveGrab'
      /\ grab.kind = "resize" => ResizeGrab'
  <2> DEFINE f == find_window(focused_id)
  <2>1. CASE win' = win
    BY <1>2, <2>1 DEF IInv, StackInv, GrabInv, MoveGrab, ResizeGrab
  <2>2. CASE win' # win
    <3>1. f # 0 /\ win' = [win EXCEPT ![f] = InitSurface(win[f])]
      BY <1>1, <2>2 DEF Scroll
    <3>2. f \in Slots /\ win[f] \in Win
      BY <3>1, FindWindow, LiveIsWin DEF Live, IInv, StackInv
    <3> HIDE DEF f
    <3> QED
      BY <1>2, <3>1, <3>2, InitSurfaceAlike, AlikeKeepsGrab DEF IInv
  <2> QED
    BY <2>1, <2>2
<1>5. GrabInv'
  BY <1>1, <1>2, <1>4 DEF IInv, GrabInv
<1> QED
  BY <1>3, <1>4, <1>5 DEF IInv

(* Clicks and keys that leave no grab behind.                              *)
LEMMA ClickFacts ==
  ASSUME IInv, pc \in {"click", "keys"}
  PROVE  grab.kind = "none"
  BY DEF IInv, GrabInv

LEMMA MenuKeeps ==
  ASSUME IInv, MenuClick
  PROVE  IInv'
<1> DEFINE entry == start_menu_hit_test(mouse)
<1>1. StackInv'
  <2>1. CASE entry \in Apps
    <3>1. wm_create(entry, 100 + AppNumber(entry) * 60, 60 + AppNumber(entry) * 40)
      BY <2>1 DEF MenuClick
    <3> HIDE DEF entry
    <3>2. 100 + AppNumber(entry) * 60 \in Int /\ 60 + AppNumber(entry) * 40 \in Int
      BY <2>1 DEF AppNumber, Apps
    <3> QED
      BY <2>1, <3>1, <3>2, CreateKeeps DEF IInv
  <2>2. CASE entry \notin Apps
    BY <2>2 DEF MenuClick, stack, IInv, StackInv
  <2> QED
    BY <2>1, <2>2
<1>2. pc' \notin {"drag", "click"} /\ UNCHANGED <<mouse, btn>> /\ grab' = grab /\ pc = "click"
  BY DEF MenuClick, NextIteration, Click, input
<1> QED
  BY <1>1, <1>2, ClickFacts, NoGrabKeeps

LEMMA TaskbarKeeps ==
  ASSUME IInv, TaskbarClick
  PROVE  IInv'
<1> DEFINE s == taskbar_hit_test(mouse)
<1>1. StackInv'
  <2>1. CASE UNCHANGED stack
    BY <2>1 DEF stack, IInv, StackInv
  <2>2. CASE ~UNCHANGED stack
    <3>1. /\ s # 0
          /\ IF "MINIMIZED" \in win[s].flags
             THEN Raise([win EXCEPT ![s].flags = @ \ {"MINIMIZED"}], s)
             ELSE IF win[s].focused THEN wm_minimize(s) ELSE Raise(win, s)
      BY <2>2 DEF TaskbarClick
    <3>2. s \in Slots /\ Live(s)
      BY <3>1 DEF taskbar_hit_test
    <3> HIDE DEF s
    <3>3. win[s] \in Win
      BY <3>2, LiveIsWin DEF Live, IInv, StackInv
    <3>4. CASE "MINIMIZED" \in win[s].flags
      <4> DEFINE g == win[s].flags \ {"MINIMIZED"}
                 ws == [win EXCEPT ![s].flags = g]
      <4>1. g \in Flags
        BY <3>3 DEF Win, Flags
      <4>2. Raise(ws, s)
        BY <3>1, <3>4
      <4> HIDE DEF g
      <4>3. ws \in Tables /\ ws[s] \in Win /\ \A r \in Slots : ws[r] \in Win => ws[r].z < top_z
        BY <3>2, <3>3, <4>1, FlagsKeep DEF IInv
      <4>4. Apart(ws)
        BY <3>2, <3>3, <4>1, FlagsKeep DEF IInv
      <4> HIDE DEF ws
      <4> QED
        BY <3>2, <4>2, <4>3, <4>4, RaiseKeeps DEF IInv
    <3>5. CASE "MINIMIZED" \notin win[s].flags /\ win[s].focused
      BY <3>1, <3>2, <3>3, <3>5, MinimizeKeeps DEF IInv
    <3>6. CASE "MINIMIZED" \notin win[s].flags /\ ~win[s].focused
      BY <3>1, <3>2, <3>3, <3>6, RaiseKeeps DEF IInv, StackInv
    <3> QED
      BY <3>4, <3>5, <3>6
  <2> QED
    BY <2>1, <2>2
<1>2. pc' \notin {"drag", "click"} /\ UNCHANGED <<mouse, btn>> /\ grab' = grab /\ pc = "click"
  BY DEF TaskbarClick, NextIteration, Click, input
<1> QED
  BY <1>1, <1>2, ClickFacts, NoGrabKeeps

LEMMA ButtonKeeps ==
  ASSUME IInv, ButtonClick
  PROVE  IInv'
<1> DEFINE s == hit_test(mouse)
           button == ButtonAt(s, mouse)
<1>1. s # 0 /\ button # "none"
  BY DEF ButtonClick
<1>2. button \in {"close", "maximize", "minimize"}
  BY <1>1 DEF ButtonAt
<1>3. wm_destroy(s) \/ wm_maximize(s) \/ wm_minimize(s)
  <2>1. (CASE button = "close" -> wm_destroy(s)
           [] button = "maximize" -> wm_maximize(s)
           [] button = "minimize" -> wm_minimize(s))
    BY DEF ButtonClick
  <2> HIDE DEF button
  <2> QED
    BY <1>2, <2>1
<1>4. s \in Slots /\ win[s] \in Win /\ Over(s, mouse)
  BY <1>1, HitTest DEF IInv
<1> HIDE DEF s, button
<1>5. win[s].w > 0
  <2>1. mouse[1] \in Int /\ win[s].x \in Int /\ win[s].w \in Int
    BY <1>4 DEF IInv, PointerInv, Win
  <2>2. mouse[1] >= win[s].x /\ mouse[1] < win[s].x + win[s].w
    BY <1>4 DEF Over, Inside
  <2> QED
    BY <2>1, <2>2
<1>6. StackInv'
  BY <1>3, <1>4, <1>5, DestroyKeeps, MaximizeKeeps, MinimizeKeeps DEF IInv
<1>7. pc' \notin {"drag", "click"} /\ UNCHANGED <<mouse, btn>> /\ grab' = grab /\ pc = "click"
  BY DEF ButtonClick, NextIteration, Click, input
<1> QED
  BY <1>6, <1>7, ClickFacts, NoGrabKeeps

LEMMA IconKeeps ==
  ASSUME IInv, IconClick
  PROVE  IInv'
<1> DEFINE app == desktop_icon_hit_test(mouse)
<1>1. app # "none" /\ wm_create(app, 80 + AppNumber(app) * 70, 60 + AppNumber(app) * 50)
  BY DEF IconClick
<1>2. app \in Apps
  BY <1>1 DEF desktop_icon_hit_test, Apps
<1> HIDE DEF app
<1>3. 80 + AppNumber(app) * 70 \in Int /\ 60 + AppNumber(app) * 50 \in Int
  BY <1>2 DEF AppNumber, Apps
<1>4. StackInv'
  BY <1>1, <1>2, <1>3, CreateKeeps DEF IInv
<1>5. pc' \notin {"drag", "click"} /\ UNCHANGED <<mouse, btn>> /\ grab' = grab /\ pc = "click"
  BY DEF IconClick, NextIteration, Click, input
<1> QED
  BY <1>4, <1>5, ClickFacts, NoGrabKeeps

LEMMA KeysKeep ==
  ASSUME IInv, ClickNothing \/ TerminalKey \/ TabKey \/ IgnoredKey \/ (\E due \in BOOLEAN : KeysDone(due))
  PROVE  IInv'
<1> DEFINE f == find_window(focused_id)
<1>1. ASSUME f # 0 PROVE f \in Slots /\ win[f] \in Win
  BY <1>1, FindWindow, LiveIsWin DEF Live, IInv, StackInv
<1>2. grab.kind = "none" /\ grab' = grab /\ UNCHANGED <<mouse, btn>> /\ pc' \notin {"drag", "click"}
  BY ClickFacts DEF ClickNothing, TerminalKey, TabKey, IgnoredKey, KeysDone, input, Click
<1>3. CASE UNCHANGED stack
  BY <1>2, <1>3, NoGrabKeeps DEF stack, IInv, StackInv
<1>4. CASE TerminalKey
  <2>1. /\ f # 0 /\ UNCHANGED <<next_id, top_z, grab>>
        /\ win' = [win EXCEPT ![f] = IF win[f].needs_surface_clear THEN InitSurface(win[f]) ELSE win[f]]
    BY <1>4 DEF TerminalKey
  <2>2. f \in Slots /\ win[f] \in Win
    BY <1>1, <2>1
  <2> HIDE DEF f
  <2> DEFINE v == IF win[f].needs_surface_clear THEN InitSurface(win[f]) ELSE win[f]
  <2>3. Alike(v, win[f])
    BY <2>2, InitSurfaceAlike DEF Alike
  <2> HIDE DEF v
  <2>4. win' = [win EXCEPT ![f] = v]
    BY <2>1 DEF v
  <2> QED
    BY <1>2, <2>1, <2>2, <2>3, <2>4, AlikeKeepsGrab, NoGrabKeeps DEF IInv
<1>5. CASE TabKey
  <2>1. CASE f = 0
    <3>1. focus_top(win) /\ UNCHANGED <<next_id, top_z>>
      BY <1>5, <2>1 DEF TabKey
    <3>2. StackInv'
      BY <3>1, TableKeeps DEF IInv, StackInv
    <3> QED
      BY <1>2, <3>2, NoGrabKeeps
  <2>2. CASE f # 0
    <3>1. Raise(win, f)
      BY <1>5, <2>2 DEF TabKey
    <3> HIDE DEF f
    <3>2. StackInv'
      BY <1>1, <2>2, <3>1, RaiseKeeps DEF IInv, StackInv
    <3> QED
      BY <1>2, <3>2, NoGrabKeeps
  <2> QED
    BY <2>1, <2>2
<1> QED
  BY <1>3, <1>4, <1>5 DEF ClickNothing, IgnoredKey, KeysDone

-----------------------------------------------------------------------------
(* The arithmetic of a side that is moved.                                 *)
LEMMA NearSide ==
  ASSUME NEW pos \in Int, NEW len \in Int, NEW d \in Int, NEW least \in Nat
  PROVE  /\ MoveNear(pos, len, d, least)[1] \in Int /\ MoveNear(pos, len, d, least)[2] \in Int
         /\ pos >= 0 /\ len >= least
              => /\ MoveNear(pos, len, d, least)[1] >= 0
                 /\ MoveNear(pos, len, d, least)[2] >= least
                 /\ MoveNear(pos, len, d, least)[1] + MoveNear(pos, len, d, least)[2] = pos + len
<1> DEFINE l == AtLeast(len - d, least)
           at == pos + len - l
<1>1. l \in Int /\ l >= least
  BY DEF AtLeast
<1>2. at \in Int /\ l + at = pos + len
  BY <1>1
<1>3. MoveNear(pos, len, d, least) = IF at < 0 THEN <<0, l + at>> ELSE <<at, l>>
  BY DEF MoveNear
<1> HIDE DEF l, at
<1>4. CASE at < 0
  BY <1>1, <1>2, <1>3, <1>4
<1>5. CASE ~(at < 0)
  BY <1>1, <1>2, <1>3, <1>5
<1> QED
  BY <1>4, <1>5

LEMMA NearTyped ==
  \A pos, len, d \in Int, least \in Nat :
    MoveNear(pos, len, d, least)[1] \in Int /\ MoveNear(pos, len, d, least)[2] \in Int
BY NearSide

LEMMA NearKeeps ==
  \A pos, len, d, least :
    pos \in Int /\ len \in Int /\ d \in Int /\ least \in Nat /\ pos >= 0 /\ len >= least
      => /\ MoveNear(pos, len, d, least)[1] \in Int /\ MoveNear(pos, len, d, least)[2] \in Int
         /\ MoveNear(pos, len, d, least)[1] >= 0
         /\ MoveNear(pos, len, d, least)[2] >= least
         /\ MoveNear(pos, len, d, least)[1] + MoveNear(pos, len, d, least)[2] = pos + len
BY NearSide

LEMMA FarSide ==
  ASSUME NEW pos \in Int, NEW len \in Int, NEW d \in Int, NEW least \in Nat, NEW limit \in Int
  PROVE  /\ MoveFar(pos, len, d, least, limit) \in Int
         /\ len >= least /\ pos + len <= limit
              => /\ MoveFar(pos, len, d, least, limit) >= least
                 /\ pos + MoveFar(pos, len, d, least, limit) <= limit
  BY DEF MoveFar, AtLeast, AtMost

(* Wherever the near side is held, the far one is right of the edge; and   *)
(* wherever the far side is held, the near one is left of it.              *)
LEMMA NearLeaves ==
  \A pos, len, d, least :
    pos \in Int /\ len \in Int /\ d \in Int /\ least \in Nat /\ least > 0 /\ pos + len > 0
      => MoveNear(pos, len, d, least)[1] >= 0 /\ MoveNear(pos, len, d, least)[2] > 0
<1> SUFFICES ASSUME NEW pos \in Int, NEW len \in Int, NEW d \in Int, NEW least \in Nat,
                    least > 0, pos + len > 0
             PROVE  MoveNear(pos, len, d, least)[1] >= 0 /\ MoveNear(pos, len, d, least)[2] > 0
  OBVIOUS
<1> DEFINE l == AtLeast(len - d, least)
           at == pos + len - l
<1>1. l \in Int /\ l > 0
  BY DEF AtLeast
<1>2. at \in Int /\ l + at = pos + len
  BY <1>1
<1>3. MoveNear(pos, len, d, least) = IF at < 0 THEN <<0, l + at>> ELSE <<at, l>>
  BY DEF MoveNear
<1> HIDE DEF l, at
<1> QED
  BY <1>1, <1>2, <1>3

LEMMA FarLeaves ==
  \A pos, len, d, least, limit :
    pos \in Int /\ len \in Int /\ d \in Int /\ least \in Nat /\ limit \in Int /\ least > 0 /\ pos < limit
      => MoveFar(pos, len, d, least, limit) > 0
BY DEF MoveFar, AtLeast, AtMost

LEMMA FarKeeps ==
  \A pos, len, d, limit \in Int, least \in Nat :
    len >= least /\ pos + len <= limit
      => /\ MoveFar(pos, len, d, least, limit) \in Int
         /\ MoveFar(pos, len, d, least, limit) >= least
         /\ pos + MoveFar(pos, len, d, least, limit) <= limit
BY FarSide

LEMMA ResizedFrame ==
  ASSUME ResizeGrab, PointerInv,
         NEW w, w = win[grab.slot], NEW o, o = grab.orig,
         NEW dx, dx = mouse[1] - grab.x, NEW dy, dy = mouse[2] - grab.y
  PROVE  /\ Resized(w) \in Win /\ Resized(w).z = w.z
         /\ Resized(w).id = w.id /\ Resized(w).prev = w.prev
         /\ dx \in Int /\ dy \in Int
         /\ Resized(w).x = IF "left" \in grab.dir THEN MoveNear(o.x, o.w, dx, 120)[1] ELSE w.x
         /\ Resized(w).w = IF "left" \in grab.dir THEN MoveNear(o.x, o.w, dx, 120)[2]
                           ELSE IF "right" \in grab.dir THEN MoveFar(w.x, o.w, dx, 120, screen_w)
                           ELSE w.w
         /\ Resized(w).y = IF "top" \in grab.dir THEN MoveNear(o.y, o.h, dy, 80)[1] ELSE w.y
         /\ Resized(w).h = IF "top" \in grab.dir THEN MoveNear(o.y, o.h, dy, 80)[2]
                           ELSE IF "bottom" \in grab.dir THEN MoveFar(w.y, o.h, dy, 80, tb_y)
                           ELSE w.h
<1> DEFINE nx == IF "left" \in grab.dir THEN MoveNear(o.x, o.w, dx, 120)[1] ELSE w.x
           nw == IF "left" \in grab.dir THEN MoveNear(o.x, o.w, dx, 120)[2]
                 ELSE IF "right" \in grab.dir THEN MoveFar(w.x, o.w, dx, 120, screen_w)
                 ELSE w.w
           ny == IF "top" \in grab.dir THEN MoveNear(o.y, o.h, dy, 80)[1] ELSE w.y
           nh == IF "top" \in grab.dir THEN MoveNear(o.y, o.h, dy, 80)[2]
                 ELSE IF "bottom" \in grab.dir THEN MoveFar(w.y, o.h, dy, 80, tb_y)
                 ELSE w.h
<1>1. /\ dx \in Int /\ dy \in Int
      /\ o.x \in Int /\ o.y \in Int /\ o.w \in Int /\ o.h \in Int
      /\ w \in Win /\ w.x \in Int /\ w.y \in Int /\ w.w \in Int /\ w.h \in Int
  BY DEF ResizeGrab, PointerInv, Win
<1>2. screen_w \in Int /\ tb_y \in Int /\ 120 \in Nat /\ 80 \in Nat
  BY DEF screen_w, tb_y, screen_h, WM_TASKBAR_H
<1>3. nx \in Int /\ nw \in Int
  <2>1. /\ MoveNear(o.x, o.w, dx, 120)[1] \in Int /\ MoveNear(o.x, o.w, dx, 120)[2] \in Int
    <3>1. o.x \in Int /\ o.w \in Int /\ dx \in Int /\ 120 \in Nat
      BY <1>1
    <3> QED
      BY ONLY <3>1, NearTyped
  <2>2. MoveFar(w.x, o.w, dx, 120, screen_w) \in Int
    BY <1>1, <1>2, FarSide
  <2> QED
    BY <1>1, <2>1, <2>2
<1>4. ny \in Int /\ nh \in Int
  <2>1. /\ MoveNear(o.y, o.h, dy, 80)[1] \in Int /\ MoveNear(o.y, o.h, dy, 80)[2] \in Int
    <3>1. o.y \in Int /\ o.h \in Int /\ dy \in Int /\ 80 \in Nat
      BY <1>1
    <3> QED
      BY ONLY <3>1, NearTyped
  <2>2. MoveFar(w.y, o.h, dy, 80, tb_y) \in Int
    BY <1>1, <1>2, FarSide
  <2> QED
    BY <1>1, <2>1, <2>2
<1>5. Resized(w) = [w EXCEPT !.x = nx, !.w = nw, !.y = ny, !.h = nh]
  BY DEF Resized
<1> HIDE DEF nx, nw, ny, nh
<1>6. /\ Resized(w) \in Win /\ Resized(w).z = w.z
      /\ Resized(w).id = w.id /\ Resized(w).prev = w.prev
      /\ Resized(w).x = nx /\ Resized(w).w = nw /\ Resized(w).y = ny /\ Resized(w).h = nh
  BY ZenonT(30), <1>1, <1>3, <1>4, <1>5 DEF Win
<1> QED
  BY <1>1, <1>6 DEF nx, nw, ny, nh

LEMMA ResizeKeeps ==
  ASSUME IInv, ResizeStep \/ ResizeEnd
  PROVE  IInv'
<1>1. CASE ResizeEnd
  BY <1>1 DEF ResizeEnd, NoGrab, NextIteration, stack, input, IInv, StackInv, GrabInv, PointerInv
<1>2. CASE ResizeStep
  <2> DEFINE s == grab.slot
             w == win[s]
             v == Resized(w)
             u == wm_update_surface_size(v)
  <2>1. ResizeGrab /\ grab' = grab /\ pc' = "poll" /\ btn /\ UNCHANGED <<mouse, btn, next_id, top_z>>
    BY <1>2 DEF IInv, GrabInv, ResizeStep, NextIteration, input
  <2>2. s \in Slots /\ w \in Win
    BY <2>1 DEF ResizeGrab
  <2>3. /\ v \in Win /\ v.z = w.z
        /\ "left" \notin grab.dir => v.x = w.x
        /\ grab.dir \cap {"left", "right"} = {} => v.w = w.w
        /\ "top" \notin grab.dir => v.y = w.y
        /\ grab.dir \cap {"top", "bottom"} = {} => v.h = w.h
    BY <2>1, ResizedFrame DEF IInv
  <2>4. win' = [win EXCEPT ![s] = u]
    BY <1>2 DEF ResizeStep
  <2> HIDE DEF v
  <2>5. Alike(u, v)
    BY <2>3, SurfaceAlike
  <2> HIDE DEF u
  <2>6. StackInv' /\ win'[s] = u
    <3>1. u \in Win /\ u.z = win[s].z
      BY <2>3, <2>5 DEF Alike
    <3> HIDE DEF s
    <3> QED
      BY <2>1, <2>2, <2>4, <3>1, OneWindowKeeps DEF IInv
  <2>7. ResizeGrab'
    BY <2>1, <2>3, <2>5, <2>6 DEF ResizeGrab, Alike
  <2>8. grab.kind = "resize"
    BY <1>2 DEF ResizeStep
  <2> QED
    BY <2>1, <2>6, <2>7, <2>8 DEF IInv, GrabInv, PointerInv
<1> QED
  BY <1>1, <1>2

LEMMA WindowClickKeeps ==
  ASSUME IInv, WindowClick
  PROVE  IInv'
<1> DEFINE s == hit_test(mouse)
           dir == get_resize_dir(s, mouse)
           w == win[s]
<1>1. s # 0 /\ Raise(win, s) /\ UNCHANGED <<mouse, btn>> /\ pc = "click"
  BY DEF WindowClick, input, Click
<1>2. s \in Slots /\ w \in Win /\ Over(s, mouse)
  BY <1>1, HitTest DEF IInv
<1>3. \/ /\ grab' = [kind |-> "resize", slot |-> s, dir |-> dir,
                     x |-> mouse[1], y |-> mouse[2], orig |-> Frame(w)]
         /\ pc' = "poll"
      \/ /\ mouse[2] < w.y + WM_TITLEBAR_H
         /\ grab' = [kind |-> "move", slot |-> s, off_x |-> mouse[1] - w.x, off_y |-> mouse[2] - w.y]
         /\ pc' = "drag"
      \/ pc' = "keys" /\ grab' = grab
  <2>1. (CASE dir # {} ->
                /\ grab' = [kind |-> "resize", slot |-> s, dir |-> dir,
                            x |-> mouse[1], y |-> mouse[2], orig |-> Frame(w)]
                /\ NextIteration
           [] dir = {} /\ mouse[2] < w.y + WM_TITLEBAR_H ->
                /\ grab' = [kind |-> "move", slot |-> s,
                            off_x |-> mouse[1] - w.x, off_y |-> mouse[2] - w.y]
                /\ pc' = "drag" /\ NotComposed /\ UNCHANGED changed
           [] OTHER -> pc' = "keys" /\ NotComposed /\ UNCHANGED <<changed, grab>>)
    BY DEF WindowClick
  <2> HIDE DEF dir, w
  <2> QED
    BY <2>1 DEF NextIteration
<1> HIDE DEF s, dir
<1>4. /\ StackInv'
      /\ win'[s] \in Win /\ Frame(win'[s]) = Frame(w) /\ win'[s].flags = w.flags
  BY <1>1, <1>2, RaiseKeeps DEF IInv, StackInv
<1>5. win'[s].x = w.x /\ win'[s].y = w.y /\ win'[s].w = w.w /\ win'[s].h = w.h
  BY <1>4 DEF Frame
<1>6. /\ mouse[1] \in Int /\ mouse[2] \in Int
      /\ w.x \in Int /\ w.y \in Int /\ w.w \in Int /\ w.h \in Int
  BY SMTT(20), <1>2 DEF IInv, PointerInv, Win
<1>7. mouse[1] >= w.x /\ mouse[1] < w.x + w.w /\ mouse[2] >= w.y
  BY <1>2 DEF Over, Inside
<1> HIDE DEF w
<1>8. PointerInv' /\ btn
  <2>1. PointerInv'
    BY <1>1 DEF IInv, PointerInv
  <2> QED
    BY <1>1, <2>1 DEF IInv, GrabInv
<1>9. CASE grab' = [kind |-> "resize", slot |-> s, dir |-> dir,
                    x |-> mouse[1], y |-> mouse[2], orig |-> Frame(w)] /\ pc' = "poll"
  <2>1. ResizeGrab'
    BY <1>2, <1>4, <1>5, <1>6, <1>9 DEF ResizeGrab, Frame
  <2> QED
    BY <1>4, <1>8, <1>9, <2>1, <1>1 DEF IInv, GrabInv
<1>10. CASE /\ mouse[2] < w.y + WM_TITLEBAR_H
            /\ grab' = [kind |-> "move", slot |-> s, off_x |-> mouse[1] - w.x, off_y |-> mouse[2] - w.y]
            /\ pc' = "drag"
  <2>1. mouse[1] - w.x \in Nat /\ mouse[1] - w.x < w.w /\ mouse[2] - w.y \in 0 .. WM_TITLEBAR_H - 1
    BY <1>6, <1>7, <1>10 DEF WM_TITLEBAR_H
  <2>2. MoveGrab'
    BY <1>2, <1>4, <1>5, <1>10, <2>1 DEF MoveGrab
  <2> QED
    BY <1>4, <1>8, <1>10, <2>2 DEF IInv, GrabInv
<1>11. CASE pc' = "keys" /\ grab' = grab
  BY <1>1, <1>4, <1>11, ClickFacts, NoGrabKeeps
<1> QED
  BY <1>3, <1>9, <1>10, <1>11

LEMMA DragKeeps ==
  ASSUME IInv, DragStep
  PROVE  IInv'
<1> DEFINE s == grab.slot
<1>1. MoveGrab /\ UNCHANGED <<next_id, top_z>>
  BY DEF IInv, GrabInv, DragStep
<1>2. PICK p \in Spots, b \in BOOLEAN :
        LET w == DragMoved(win[grab.slot], p)
            whole == "MAXIMIZED" \in w.flags
            normal == wm_update_surface_size([w EXCEPT !.flags = @ \ {"MAXIMIZED"},
                                                       !.w = w.prev.w, !.h = w.prev.h])
        IN  /\ mouse' = p /\ btn' = b
            /\ win' = [win EXCEPT ![grab.slot] = IF whole THEN normal ELSE w]
            /\ grab' = CASE ~b -> NoGrab
                         [] b /\ whole -> HungByTitle(grab, normal)
                         [] OTHER -> grab
            /\ pc' = IF b THEN "drag" ELSE "keys"
  BY DEF DragStep
<1> DEFINE w == DragMoved(win[s], p)
           whole == "MAXIMIZED" \in w.flags
           cut == [w EXCEPT !.flags = @ \ {"MAXIMIZED"}, !.w = w.prev.w, !.h = w.prev.h]
           normal == wm_update_surface_size(cut)
           v == IF whole THEN normal ELSE w
<1>3. /\ mouse' = p /\ btn' = b
      /\ win' = [win EXCEPT ![s] = v]
      /\ pc' = IF b THEN "drag" ELSE "keys"
      /\ ~b => grab' = NoGrab
      /\ b /\ whole => grab' = HungByTitle(grab, normal)
      /\ b /\ ~whole => grab' = grab
  BY <1>2
<1>4. s \in Slots /\ win[s] \in Win /\ grab.off_x \in Nat /\ grab.off_y \in Nat
  BY <1>1 DEF MoveGrab, WM_TITLEBAR_H
<1>5. w \in Win /\ w.z = win[s].z /\ w.w = win[s].w /\ w.flags = win[s].flags
  <2> DEFINE x == p[1] - grab.off_x
             y == AtLeast(p[2] - grab.off_y, 0)
  <2>1. x \in Int /\ y \in Int
    <3>1. p[1] \in Int /\ p[2] \in Int
      BY SMTT(20), SpotsAssumption
    <3> QED
      BY <1>4, <3>1 DEF AtLeast
  <2>2. w = [win[s] EXCEPT !.x = x, !.y = y]
    BY DEF DragMoved
  <2> HIDE DEF x, y, w, s
  <2> QED
    BY <1>4, <2>1, <2>2 DEF Win
<1> HIDE DEF w
<1>6. cut \in Win /\ cut.z = w.z /\ cut.w \in Nat \ {0} /\ "MAXIMIZED" \notin cut.flags
  <2> DEFINE g == w.flags \ {"MAXIMIZED"}
             a == w.prev.w
             c == w.prev.h
  <2>1. g \in Flags /\ a \in Nat \ {0} /\ c \in Int
    BY <1>5 DEF Win, Flags, Old
  <2>2. cut = [w EXCEPT !.flags = g, !.w = a, !.h = c] /\ "MAXIMIZED" \notin g
    OBVIOUS
  <2> HIDE DEF g, a, c, cut
  <2> DEFINE once == [w EXCEPT !.flags = g]
  <2>3. once \in Win /\ once.flags = g /\ once.z = w.z
    BY <1>5, <2>1 DEF Win
  <2>4. cut = [once EXCEPT !.w = a, !.h = c]
    BY <2>2
  <2>5. cut.w = a /\ cut.flags = g /\ cut.z = w.z
    BY <2>3, <2>4 DEF Win
  <2> DEFINE twice == [once EXCEPT !.w = a]
  <2>6. cut \in Win
    <3>1. a \in Int
      BY <2>1
    <3> HIDE DEF once
    <3>2. twice \in Win
      BY <2>3, <3>1 DEF Win
    <3>3. cut = [twice EXCEPT !.h = c]
      BY <2>4
    <3> HIDE DEF twice
    <3> QED
      BY <2>1, <3>2, <3>3 DEF Win
  <2> QED
    BY <2>1, <2>2, <2>5, <2>6
<1> HIDE DEF cut
<1>7. Alike(normal, cut)
  BY <1>6, SurfaceAlike
<1> HIDE DEF normal
<1>8. v \in Win /\ v.z = win[s].z
  BY <1>5, <1>6, <1>7 DEF Alike
<1>9. StackInv' /\ win'[s] = v
  <2> HIDE DEF v, s
  <2> QED
    BY <1>1, <1>3, <1>4, <1>8, OneWindowKeeps DEF IInv
<1>10. PointerInv'
  BY <1>3, SpotsAssumption DEF PointerInv
<1>11. CASE ~b
  BY <1>3, <1>9, <1>10, <1>11 DEF IInv, GrabInv, NoGrab
<1>12. CASE b /\ ~whole
  <2>1. MoveGrab'
    BY <1>1, <1>3, <1>5, <1>9, <1>12 DEF MoveGrab
  <2> QED
    BY <1>3, <1>9, <1>10, <1>12, <2>1 DEF IInv, GrabInv, DragStep
<1>13. CASE b /\ whole
  <2>1. grab' = [grab EXCEPT !.off_x = normal.w \div 2, !.off_y = 10]
    BY <1>3, <1>13 DEF HungByTitle
  <2>2. normal.w \in Nat \ {0} /\ normal.w \div 2 \in Nat /\ normal.w \div 2 < normal.w
    BY <1>6, <1>7 DEF Alike
  <2> DEFINE half == normal.w \div 2
  <2>3. grab' \in [kind : {"move"}, slot : Slots, off_x : Nat, off_y : 0 .. WM_TITLEBAR_H - 1]
        /\ grab'.slot = s /\ grab'.off_x < normal.w
    <3>1. half \in Nat /\ half < normal.w /\ grab' = [grab EXCEPT !.off_x = half, !.off_y = 10]
      BY <2>1, <2>2
    <3>2. 10 \in 0 .. WM_TITLEBAR_H - 1
      BY DEF WM_TITLEBAR_H
    <3> HIDE DEF half
    <3>3. grab'.slot = grab.slot /\ grab'.off_x = half
      BY <1>1, <3>1 DEF MoveGrab
    <3>4. grab' \in [kind : {"move"}, slot : Slots, off_x : Nat, off_y : 0 .. WM_TITLEBAR_H - 1]
      BY <1>1, <3>1, <3>2 DEF MoveGrab
    <3> QED
      BY <3>1, <3>3, <3>4
  <2>4. v = normal /\ normal \in Win
    BY <1>7, <1>13 DEF Alike
  <2>5. MoveGrab'
    BY <1>9, <2>3, <2>4 DEF MoveGrab
  <2> QED
    BY <1>3, <1>9, <1>10, <1>13, <2>3, <2>5 DEF IInv, GrabInv
<1> QED
  BY <1>11, <1>12, <1>13

-----------------------------------------------------------------------------
LEMMA StepKeeps == IInv /\ [Next]_vars => IInv'
<1> SUFFICES ASSUME IInv, [Next]_vars PROVE IInv'
  OBVIOUS
<1>1. CASE UNCHANGED vars
  BY <1>1 DEF vars, stack, input, IInv, StackInv, GrabInv, MoveGrab, ResizeGrab, PointerInv
<1> QED
  BY <1>1, PollKeeps, ResizeKeeps, MenuKeeps, TaskbarKeeps, ButtonKeeps, WindowClickKeeps, IconKeeps,
     DragKeeps, KeysKeep DEF Next, Act

LEMMA Invariance == Spec => []IInv
  BY InitHolds, StepKeeps, PTL DEF Spec

(* Wherever a window is grabbed and wherever the pointer goes: a resize    *)
(* leaves it in the work area and no smaller than the minimum, with the    *)
(* sides that were not grabbed in place.                                   *)
THEOREM ResizesKeepWindow == Spec => ResizeKeepsWindow
<1> DEFINE o == grab.orig
           Kept(g) == /\ InWorkArea(g)
                      /\ "left" \notin grab.dir => g.x = o.x
                      /\ "right" \notin grab.dir => g.x + g.w = o.x + o.w
                      /\ "top" \notin grab.dir => g.y = o.y
                      /\ "bottom" \notin grab.dir => g.y + g.h = o.y + o.h
<1>1. ASSUME IInv, Next, grab.kind = "resize", pc = "act", btn, InWorkArea(o)
      PROVE  Kept(Frame(win'[grab.slot]))
  <2> DEFINE s == grab.slot
             w == win[s]
             v == Resized(w)
             u == wm_update_surface_size(v)
             dx == mouse[1] - grab.x
             dy == mouse[2] - grab.y
  <2>1. ResizeStep
    BY <1>1 DEF Next, Poll, Act, ResizeEnd, MenuClick, TaskbarClick, ButtonClick, WindowClick, IconClick,
       ClickNothing, Click, DragStep, TerminalKey, TabKey, IgnoredKey, KeysDone
  <2>2. ResizeGrab /\ PointerInv
    BY <1>1 DEF IInv, GrabInv
  <2>3. /\ s \in Slots /\ w \in Win
        /\ o.x \in Int /\ o.y \in Int /\ o.w \in Int /\ o.h \in Int
        /\ "left" \notin grab.dir => w.x = o.x
        /\ grab.dir \cap {"left", "right"} = {} => w.w = o.w
        /\ "top" \notin grab.dir => w.y = o.y
        /\ grab.dir \cap {"top", "bottom"} = {} => w.h = o.h
    BY <2>2 DEF ResizeGrab
  <2>4. /\ v \in Win /\ dx \in Int /\ dy \in Int
        /\ v.x = IF "left" \in grab.dir THEN MoveNear(o.x, o.w, dx, 120)[1] ELSE w.x
        /\ v.w = IF "left" \in grab.dir THEN MoveNear(o.x, o.w, dx, 120)[2]
                 ELSE IF "right" \in grab.dir THEN MoveFar(w.x, o.w, dx, 120, screen_w)
                 ELSE w.w
        /\ v.y = IF "top" \in grab.dir THEN MoveNear(o.y, o.h, dy, 80)[1] ELSE w.y
        /\ v.h = IF "top" \in grab.dir THEN MoveNear(o.y, o.h, dy, 80)[2]
                 ELSE IF "bottom" \in grab.dir THEN MoveFar(w.y, o.h, dy, 80, tb_y)
                 ELSE w.h
    BY <2>2, ResizedFrame
  <2>5. Frame(win'[s]) = Frame(v)
    <3>1. win' = [win EXCEPT ![s] = u]
      BY <2>1 DEF ResizeStep
    <3> HIDE DEF v
    <3>2. Alike(u, v)
      BY <2>4, SurfaceAlike
    <3> HIDE DEF u, s
    <3>3. win'[s] = u
      BY <1>1, <2>3, <3>1 DEF IInv, StackInv, Tables
    <3> QED
      BY <3>2, <3>3 DEF Alike, Frame
  <2>6. /\ o.x >= 0 /\ o.y >= 0 /\ o.x + o.w <= screen_w /\ o.y + o.h <= tb_y
        /\ o.w >= 120 /\ o.h >= 80
        /\ 120 \in Nat /\ 80 \in Nat /\ screen_w \in Int /\ tb_y \in Int
    BY <1>1 DEF InWorkArea, screen_w, tb_y, screen_h, WM_TASKBAR_H
  <2> HIDE DEF o, v, w, dx, dy
  <2>7. /\ v.x >= 0 /\ v.w >= 120 /\ v.x + v.w <= screen_w
        /\ "left" \notin grab.dir => v.x = o.x
        /\ "right" \notin grab.dir => v.x + v.w = o.x + o.w
    <3>1. CASE "left" \in grab.dir
      <4>1. /\ v.x = MoveNear(o.x, o.w, dx, 120)[1] /\ v.w = MoveNear(o.x, o.w, dx, 120)[2]
        BY <2>4, <3>1
      <4>3. o.x \in Int /\ o.w \in Int /\ dx \in Int /\ 120 \in Nat /\ o.x >= 0 /\ o.w >= 120
        BY <2>3, <2>4, <2>6
      <4>4. /\ MoveNear(o.x, o.w, dx, 120)[1] >= 0 /\ MoveNear(o.x, o.w, dx, 120)[2] >= 120
            /\ MoveNear(o.x, o.w, dx, 120)[1] + MoveNear(o.x, o.w, dx, 120)[2] = o.x + o.w
        BY ONLY <4>3, NearKeeps
      <4>2. v.x >= 0 /\ v.w >= 120 /\ v.x + v.w = o.x + o.w
        BY <4>1, <4>4
      <4> QED
        BY <2>3, <2>6, <3>1, <4>2
    <3>2. CASE "left" \notin grab.dir /\ "right" \in grab.dir
      <4>1. v.x = o.x /\ v.w = MoveFar(o.x, o.w, dx, 120, screen_w)
        BY <2>3, <2>4, <3>2
      <4>2. /\ MoveFar(o.x, o.w, dx, 120, screen_w) >= 120
            /\ o.x + MoveFar(o.x, o.w, dx, 120, screen_w) <= screen_w
        BY ZenonT(30), <2>3, <2>4, <2>6, FarKeeps
      <4> QED
        BY <2>6, <3>2, <4>1, <4>2
    <3>3. CASE "left" \notin grab.dir /\ "right" \notin grab.dir
      BY <2>3, <2>4, <2>6, <3>3
    <3> QED
      BY <3>1, <3>2, <3>3
  <2>8. /\ v.y >= 0 /\ v.h >= 80 /\ v.y + v.h <= tb_y
        /\ "top" \notin grab.dir => v.y = o.y
        /\ "bottom" \notin grab.dir => v.y + v.h = o.y + o.h
    <3>1. CASE "top" \in grab.dir
      <4>1. /\ v.y = MoveNear(o.y, o.h, dy, 80)[1] /\ v.h = MoveNear(o.y, o.h, dy, 80)[2]
        BY <2>4, <3>1
      <4>3. o.y \in Int /\ o.h \in Int /\ dy \in Int /\ 80 \in Nat /\ o.y >= 0 /\ o.h >= 80
        BY <2>3, <2>4, <2>6
      <4>4. /\ MoveNear(o.y, o.h, dy, 80)[1] >= 0 /\ MoveNear(o.y, o.h, dy, 80)[2] >= 80
            /\ MoveNear(o.y, o.h, dy, 80)[1] + MoveNear(o.y, o.h, dy, 80)[2] = o.y + o.h
        BY ONLY <4>3, NearKeeps
      <4>2. v.y >= 0 /\ v.h >= 80 /\ v.y + v.h = o.y + o.h
        BY <4>1, <4>4
      <4> QED
        BY <2>3, <2>6, <3>1, <4>2
    <3>2. CASE "top" \notin grab.dir /\ "bottom" \in grab.dir
      <4>1. v.y = o.y /\ v.h = MoveFar(o.y, o.h, dy, 80, tb_y)
        BY <2>3, <2>4, <3>2
      <4>2. /\ MoveFar(o.y, o.h, dy, 80, tb_y) >= 80
            /\ o.y + MoveFar(o.y, o.h, dy, 80, tb_y) <= tb_y
        BY <2>3, <2>4, <2>6, FarKeeps
      <4> QED
        BY <2>6, <3>2, <4>1, <4>2
    <3>3. CASE "top" \notin grab.dir /\ "bottom" \notin grab.dir
      BY <2>3, <2>4, <2>6, <3>3
    <3> QED
      BY <3>1, <3>2, <3>3
  <2> QED
    BY <2>5, <2>7, <2>8 DEF Frame, InWorkArea
<1>2. IInv /\ [Next]_vars =>
        [grab.kind = "resize" /\ pc = "act" /\ btn /\ InWorkArea(grab.orig) =>
           LET g == Frame(win'[grab.slot])
               oo == grab.orig
           IN  /\ InWorkArea(g)
               /\ "left" \notin grab.dir => g.x = oo.x
               /\ "right" \notin grab.dir => g.x + g.w = oo.x + oo.w
               /\ "top" \notin grab.dir => g.y = oo.y
               /\ "bottom" \notin grab.dir => g.y + g.h = oo.y + oo.h]_vars
  BY <1>1
<1> QED
  BY <1>2, Invariance, PTL DEF Spec, ResizeKeepsWindow

(* Wherever the title is grabbed and wherever the pointer goes: the window *)
(* stays under it, also one that was maximised when it was grabbed.        *)
THEOREM MovesHoldTitle == Spec => MoveHoldsTitle
<1>1. ASSUME IInv, Next, pc = "drag", "MAXIMIZED" \notin win[grab.slot].flags
      PROVE  Inside(mouse', win'[grab.slot].x, win'[grab.slot].y, win'[grab.slot].w, WM_TITLEBAR_H)
  <2> DEFINE s == grab.slot
             w == win[s]
  <2>1. DragStep
    BY <1>1 DEF Next, Poll, Act, ResizeStep, ResizeEnd, MenuClick, TaskbarClick, ButtonClick, WindowClick,
       IconClick, ClickNothing, Click, DragStep, TerminalKey, TabKey, IgnoredKey, KeysDone
  <2>2. MoveGrab
    BY <1>1 DEF IInv, GrabInv
  <2>3. /\ s \in Slots /\ w \in Win
        /\ grab.off_x \in Nat /\ grab.off_x < w.w /\ grab.off_y \in 0 .. 29
    BY <1>1, <2>2 DEF MoveGrab, WM_TITLEBAR_H
  <2>4. PICK p \in Spots :
          /\ mouse' = p
          /\ win' = [win EXCEPT ![s] = IF "MAXIMIZED" \in DragMoved(w, p).flags
                                       THEN wm_update_surface_size(
                                              [DragMoved(w, p) EXCEPT !.flags = @ \ {"MAXIMIZED"},
                                                 !.w = DragMoved(w, p).prev.w, !.h = DragMoved(w, p).prev.h])
                                       ELSE DragMoved(w, p)]
    BY <2>1 DEF DragStep
  <2>5. /\ DragMoved(w, p).flags = w.flags /\ DragMoved(w, p).w = w.w
        /\ DragMoved(w, p).x = p[1] - grab.off_x
        /\ DragMoved(w, p).y = AtLeast(p[2] - grab.off_y, 0)
    BY <2>3 DEF DragMoved, Win
  <2>6. win'[s] = DragMoved(w, p)
    <3>1. "MAXIMIZED" \notin DragMoved(w, p).flags
      BY <1>1, <2>5
    <3>2. win' = [win EXCEPT ![s] = DragMoved(w, p)]
      BY <2>4, <3>1
    <3> QED
      BY <1>1, <2>3, <3>2 DEF IInv, StackInv, Tables
  <2>7. /\ p[1] \in Int /\ p[2] \in Nat
        /\ w.w \in Int
    <3>1. p \in (0 .. 1023) \X (0 .. 767)
      BY SpotsAssumption
    <3>2. w.w \in Int
      BY <2>3 DEF Win
    <3> QED
      BY SMTT(20), <3>1, <3>2
  <2>8. Inside(p, p[1] - grab.off_x, AtLeast(p[2] - grab.off_y, 0), w.w, 30)
    BY <2>3, <2>7 DEF Inside, AtLeast
  <2> QED
    BY <2>4, <2>5, <2>6, <2>8 DEF WM_TITLEBAR_H
<1>2. IInv /\ [Next]_vars =>
        [pc = "drag" /\ "MAXIMIZED" \notin win[grab.slot].flags =>
           LET w == win'[grab.slot]
           IN  Inside(mouse', w.x, w.y, w.w, WM_TITLEBAR_H)]_vars
  BY <1>1
<1> QED
  BY <1>2, Invariance, PTL DEF Spec, MoveHoldsTitle

-----------------------------------------------------------------------------
(***************************************************************************)
(* Focus.  While a window is shown, the one on top has the focus and no    *)
(* other.  The code looks for the window that should have it only in       *)
(* focus_top(); the steps that do not call it are shown to leave the top   *)
(* where it was.                                                           *)
(***************************************************************************)
Seen(w) == "VISIBLE" \in w.flags /\ "MINIMIZED" \notin w.flags
ShownIn(ws) == {s \in Slots : Seen(ws[s])}

(* The slot that focus_top() chooses, as a relation.                       *)
IsTop(ws, s) ==
  /\ s \in ShownIn(ws)
  /\ \A r \in ShownIn(ws) \ {s} : ws[r].z < ws[s].z \/ (ws[r].z = ws[s].z /\ s < r)

Crowned(ws, id) ==
  /\ id \in Nat
  /\ \A s \in Slots : IsTop(ws, s) =>
       /\ id = ws[s].id
       /\ \A r \in Slots : ws[r].flags # {} => (ws[r].focused <=> r = s)

(* Two windows that are the same to focus_top().                           *)
Looks(v, w) ==
  \/ v = w
  \/ /\ v.flags # {} /\ w.flags # {} /\ (Seen(v) <=> Seen(w))
     /\ v.z = w.z /\ v.id = w.id /\ v.focused = w.focused

Below(ws, n) == \A s \in Slots : ws[s] \in Win => ws[s].z < n

LEMMA ShownIsWin ==
  ASSUME NEW ws \in Tables, NEW s \in ShownIn(ws)
  PROVE  s \in Slots /\ ws[s] \in Win /\ ws[s].z \in Nat
<1>1. s \in Slots /\ ws[s].flags # {}
  BY DEF ShownIn, Seen
<1>2. ws[s] \in Win
  BY <1>1, LiveIsWin
<1> QED
  BY <1>1, <1>2 DEF Win

LEMMA OneTop ==
  ASSUME NEW ws \in Tables, NEW s, NEW r, IsTop(ws, s), IsTop(ws, r)
  PROVE  s = r
<1> SUFFICES ASSUME s # r PROVE FALSE
  OBVIOUS
<1>1. s \in ShownIn(ws) /\ r \in ShownIn(ws)
  BY DEF IsTop
<1>2. s \in Nat /\ r \in Nat /\ ws[s].z \in Nat /\ ws[r].z \in Nat
  BY <1>1, ShownIsWin, WindowsAssumption DEF Slots
<1>3. /\ ws[r].z < ws[s].z \/ (ws[r].z = ws[s].z /\ s < r)
      /\ ws[s].z < ws[r].z \/ (ws[s].z = ws[r].z /\ r < s)
  BY <1>1 DEF IsTop
<1> QED
  BY <1>2, <1>3

LEMMA SomeTop ==
  ASSUME NEW ws \in Tables, NEW n \in Nat, Below(ws, n), ShownIn(ws) # {}
  PROVE  \E s \in ShownIn(ws) : IsTop(ws, s)
<1>1. ShownIn(ws) \in SUBSET Slots
  BY DEF ShownIn
<1>2. \A s \in ShownIn(ws) : ws[s] \in Win /\ ws[s].z < n
  BY <1>1, ShownIsWin DEF Below
<1> DEFINE at == ShownIn(ws)
<1>3. at = ShownIn(ws)
  OBVIOUS
<1> HIDE DEF at
<1>4. \E s \in at : \A r \in at \ {s} : ws[r].z < ws[s].z \/ (ws[r].z = ws[s].z /\ s < r)
  BY <1>1, <1>2, <1>3, TopmostExists
<1> QED
  BY <1>3, <1>4 DEF IsTop

(* focus_top() finds the top, if there is one.                             *)
LEMMA TopOfIsTop ==
  ASSUME NEW ws \in Tables, NEW n \in Nat, Below(ws, n)
  PROVE  IF ShownIn(ws) = {} THEN TopOf(ws) = 0
         ELSE TopOf(ws) \in Slots /\ TopOf(ws) # 0 /\ IsTop(ws, TopOf(ws))
<1> DEFINE at == ShownIn(ws)
<1>1. TopOf(ws) = IF at = {} THEN 0
                  ELSE CHOOSE s \in at : \A r \in at \ {s} :
                         ws[r].z < ws[s].z \/ (ws[r].z = ws[s].z /\ s < r)
  BY DEF TopOf, ShownIn, Seen
<1>2. at = ShownIn(ws)
  OBVIOUS
<1> HIDE DEF at
<1>3. CASE at = {}
  BY <1>1, <1>2, <1>3
<1>4. CASE at # {}
  <2>1. \E s \in at : \A r \in at \ {s} : ws[r].z < ws[s].z \/ (ws[r].z = ws[s].z /\ s < r)
    BY <1>2, <1>4, SomeTop DEF IsTop
  <2>2. /\ TopOf(ws) \in at
        /\ \A r \in at \ {TopOf(ws)} :
             ws[r].z < ws[TopOf(ws)].z \/ (ws[r].z = ws[TopOf(ws)].z /\ TopOf(ws) < r)
    BY <1>1, <1>4, <2>1
  <2>3. IsTop(ws, TopOf(ws)) /\ TopOf(ws) \in Slots
    BY <1>2, <2>2 DEF IsTop, ShownIn
  <2> QED
    BY <1>2, <1>4, <2>3 DEF Slots
<1> QED
  BY <1>3, <1>4

(* The same windows shown at the same heights have the same top.           *)
LEMMA SameTops ==
  ASSUME NEW ws, NEW vs, NEW s,
         \A r \in Slots : Seen(vs[r]) <=> Seen(ws[r]),
         \A r \in ShownIn(ws) : vs[r].z = ws[r].z,
         IsTop(vs, s)
  PROVE  IsTop(ws, s)
<1>1. ShownIn(vs) = ShownIn(ws)
  BY DEF ShownIn
<1> QED
  BY <1>1 DEF IsTop

-----------------------------------------------------------------------------
(* Steps that call focus_top(), and steps that do not.                     *)
LEMMA FocusCrowns ==
  ASSUME NEW ws \in Tables, focus_top(ws), StackInv', Crowned(win, focused_id)
  PROVE  Crowned(win', focused_id')
<1>1. \A s \in Slots : \/ win'[s] = ws[s]
                       \/ Alike(win'[s], ws[s]) /\ win'[s].id = ws[s].id
  BY FocusAlike
<1>2. top_z' \in Nat /\ Below(ws, top_z')
  BY <1>1 DEF StackInv, Below, Alike
<1>3. \A s \in Slots : /\ Seen(win'[s]) <=> Seen(ws[s])
                       /\ win'[s].flags = ws[s].flags
                       /\ win'[s].id = ws[s].id
  BY <1>1 DEF Alike, Seen
<1>4. \A s \in ShownIn(ws) : win'[s].z = ws[s].z
  BY <1>1 DEF Alike, ShownIn
<1>5. \A s : IsTop(win', s) => IsTop(ws, s)
  BY <1>3, <1>4, SameTops
<1>6. CASE ShownIn(ws) = {}
  <2>1. TopOf(ws) = 0
    BY <1>2, <1>6, TopOfIsTop
  <2>2. focused_id' = focused_id
    BY <2>1 DEF focus_top
  <2> QED
    BY <1>5, <1>6, <2>2 DEF Crowned, IsTop
<1>7. CASE ShownIn(ws) # {}
  <2> DEFINE best == TopOf(ws)
  <2>1. best \in Slots /\ best # 0 /\ IsTop(ws, best)
    BY <1>2, <1>7, TopOfIsTop
  <2>2. /\ win' = [s \in Slots |-> IF ws[s].flags = {} THEN ws[s]
                                   ELSE [ws[s] EXCEPT !.focused = (s = best)]]
        /\ focused_id' = ws[best].id
    BY <2>1 DEF focus_top
  <2> HIDE DEF best
  <2>5. focused_id' \in Nat
    BY <2>1, <2>2, ShownIsWin DEF IsTop, Win
  <2>3. \A s \in Slots : IsTop(win', s) => s = best
    BY <1>5, <2>1, OneTop
  <2>4. ASSUME NEW r \in Slots, win'[r].flags # {}
        PROVE  win'[r].focused <=> r = best
    <3>1. ws[r].flags # {} /\ ws[r] \in Win
      BY <1>3, <2>4, LiveIsWin
    <3> DEFINE b == (r = best)
    <3>2. win'[r] = [ws[r] EXCEPT !.focused = b]
      BY <2>2, <3>1
    <3> HIDE DEF b
    <3>3. win'[r].focused = b
      BY <3>1, <3>2 DEF Win
    <3> QED
      BY <3>3 DEF b
  <2> QED
    BY <1>3, <2>1, <2>2, <2>3, <2>4, <2>5 DEF Crowned
<1> QED
  BY <1>6, <1>7

LEMMA LooksKeep ==
  ASSUME win \in Tables, Crowned(win, focused_id), focused_id' = focused_id,
         \A s \in Slots : Looks(win'[s], win[s])
  PROVE  Crowned(win', focused_id')
<1>1. \A s \in Slots : /\ Seen(win'[s]) <=> Seen(win[s])
                       /\ win'[s].flags # {} => win[s].flags # {}
                       /\ win'[s].id = win[s].id /\ win'[s].focused = win[s].focused
  BY DEF Looks
<1>2. \A s \in ShownIn(win) : win'[s].z = win[s].z
  BY DEF Looks, ShownIn
<1>3. \A s : IsTop(win', s) => IsTop(win, s)
  BY <1>1, <1>2, SameTops
<1> QED
  BY <1>1, <1>3 DEF Crowned

LEMMA OneLooksKeeps ==
  ASSUME win \in Tables, Crowned(win, focused_id), focused_id' = focused_id,
         NEW s \in Slots, NEW v, Looks(v, win[s]), win' = [win EXCEPT ![s] = v]
  PROVE  Crowned(win', focused_id')
<1>1. \A r \in Slots : win'[r] = IF r = s THEN v ELSE win[r]
  BY DEF Tables
<1>2. \A r \in Slots : Looks(win'[r], win[r])
  BY <1>1 DEF Looks
<1> QED
  BY <1>2, LooksKeep

(* A window below the top goes away.                                       *)
LEMMA HiddenKeeps ==
  ASSUME StackInv, Crowned(win, focused_id), focused_id' = focused_id,
         NEW s \in Slots, NEW v, win' = [win EXCEPT ![s] = v],
         ~Seen(v), ~IsTop(win, s),
         v.flags # {} => win[s].flags # {} /\ v.focused = win[s].focused
  PROVE  Crowned(win', focused_id')
<1>1. win'[s] = v /\ \A r \in Slots \ {s} : win'[r] = win[r]
  BY DEF StackInv, Tables
<1>2. ShownIn(win') = ShownIn(win) \ {s}
  BY <1>1 DEF ShownIn
<1>3. ASSUME NEW t \in Slots, IsTop(win', t) PROVE IsTop(win, t)
  <2>1. t \in ShownIn(win)
    BY <1>2, <1>3 DEF IsTop
  <2>2. PICK u \in ShownIn(win) : IsTop(win, u)
    BY <2>1, SomeTop DEF StackInv, Below
  <2>3. u # s /\ u \in ShownIn(win')
    BY <1>2, <2>2
  <2>4. IsTop(win', u)
    BY <1>1, <1>2, <2>2, <2>3 DEF IsTop, ShownIn
  <2>5. t = u
    <3> SUFFICES ASSUME t # u PROVE FALSE
      OBVIOUS
    <3>1. t # s /\ t \in ShownIn(win')
      BY <1>2, <1>3 DEF IsTop
    <3>2. /\ win[u].z < win[t].z \/ (win[u].z = win[t].z /\ t < u)
          /\ win[t].z < win[u].z \/ (win[t].z = win[u].z /\ u < t)
      BY <1>1, <1>2, <1>3, <2>1, <2>2, <2>3, <3>1 DEF IsTop, ShownIn
    <3>3. t \in Nat /\ u \in Nat /\ win[t].z \in Nat /\ win[u].z \in Nat
      <4>1. win \in Tables
        BY DEF StackInv
      <4>2. win[t].z \in Nat /\ win[u].z \in Nat /\ t \in Slots /\ u \in Slots
        BY <2>1, <2>2, <4>1, ShownIsWin
      <4> QED
        BY <4>2, WindowsAssumption DEF Slots
    <3> QED
      BY <3>2, <3>3
  <2> QED
    BY <2>2, <2>5
<1>4. \A r \in Slots : win'[r].flags # {} => win[r].flags # {} /\ win'[r].focused = win[r].focused
  BY <1>1
<1>5. \A t \in Slots : IsTop(win', t) => win'[t].id = win[t].id
  BY <1>1, <1>2 DEF IsTop
<1> QED
  BY ZenonT(30), <1>3, <1>4, <1>5 DEF Crowned

-----------------------------------------------------------------------------
(* The operations on the table.                                            *)
LEMMA RaiseCrowns ==
  ASSUME StackInv, StackInv', Crowned(win, focused_id),
         NEW ws \in Tables, NEW s \in Slots, ws[s] \in Win, Raise(ws, s)
  PROVE  Crowned(win', focused_id')
<1> DEFINE up == [ws EXCEPT ![s].z = top_z]
<1>1. up[s] = [ws[s] EXCEPT !.z = top_z] /\ \A r \in Slots \ {s} : up[r] = ws[r]
  BY DEF Tables
<1>2. up[s] \in Win
  <2>1. top_z \in Nat
    BY DEF StackInv
  <2> HIDE DEF up
  <2> QED
    BY <1>1, <2>1 DEF Win
<1>3. up \in Tables
  BY <1>1, <1>2 DEF Tables
<1>4. focus_top(up)
  BY DEF Raise
<1> HIDE DEF up
<1> QED
  BY <1>3, <1>4, FocusCrowns

LEMMA MinimizeCrowns ==
  ASSUME StackInv, StackInv', Crowned(win, focused_id), NEW s \in Slots, win[s] \in Win, wm_minimize(s)
  PROVE  Crowned(win', focused_id')
<1> DEFINE f == win[s].flags \cup {"MINIMIZED"}
           ws == [win EXCEPT ![s].flags = f]
<1>1. f \in Flags
  BY DEF Win, Flags
<1>2. IF win[s].focused THEN focus_top(ws) ELSE win' = ws /\ focused_id' = focused_id
  BY DEF wm_minimize
<1>3. "MINIMIZED" \in f
  OBVIOUS
<1> HIDE DEF f
<1>4. CASE win[s].focused
  <2>1. ws \in Tables
    BY <1>1, FlagsKeep
  <2> HIDE DEF ws
  <2> QED
    BY <1>2, <1>4, <2>1, FocusCrowns
<1>5. CASE ~win[s].focused
  <2> DEFINE v == [win[s] EXCEPT !.flags = f]
  <2>1. v.flags = f /\ v.focused = win[s].focused
    BY DEF Win
  <2>2. win' = [win EXCEPT ![s] = v]
    BY <1>2, <1>5
  <2>3. win[s].flags # {} /\ ~Seen(v)
    BY <1>3, <2>1, LiveIsWin DEF StackInv, Seen
  <2> HIDE DEF v, ws
  <2>4. ~IsTop(win, s)
    BY <1>5, <2>3 DEF Crowned
  <2> QED
    BY <1>2, <1>5, <2>1, <2>2, <2>3, <2>4, HiddenKeeps
<1> QED
  BY <1>4, <1>5

LEMMA DestroyCrowns ==
  ASSUME StackInv, StackInv', Crowned(win, focused_id), NEW s \in Slots, wm_destroy(s)
  PROVE  Crowned(win', focused_id')
<1> DEFINE ws == [win EXCEPT ![s] = NoWindow]
<1>1. IF focused_id = win[s].id THEN focus_top(ws) ELSE win' = ws /\ focused_id' = focused_id
  BY DEF wm_destroy
<1>2. CASE focused_id = win[s].id
  <2>1. ws \in Tables
    BY DEF StackInv, Tables
  <2> HIDE DEF ws
  <2> QED
    BY <1>1, <1>2, <2>1, FocusCrowns
<1>3. CASE focused_id # win[s].id
  <2>1. ~IsTop(win, s)
    BY <1>3 DEF Crowned
  <2>2. NoWindow.flags = {} /\ ~Seen(NoWindow)
    BY DEF NoWindow, Seen
  <2> QED
    BY <1>1, <1>3, <2>1, <2>2, HiddenKeeps
<1> QED
  BY <1>2, <1>3

LEMMA MaximizeLooks ==
  ASSUME StackInv, Crowned(win, focused_id), NEW s \in Slots, win[s] \in Win, win[s].w > 0, wm_maximize(s)
  PROVE  Crowned(win', focused_id')
<1> DEFINE w == win[s]
           desk == [x |-> 0, y |-> 0, w |-> screen_w, h |-> tb_y]
           back == Place(w, w.prev)
           full == Place(w, desk)
           off == [back EXCEPT !.flags = @ \ {"MAXIMIZED"}]
           on == [full EXCEPT !.flags = @ \cup {"MAXIMIZED"}, !.prev = Frame(w)]
           to == IF "MAXIMIZED" \in w.flags THEN off ELSE on
           drawn == [to EXCEPT !.needs_surface_clear = TRUE]
           v == wm_update_surface_size(drawn)
<1>1. win' = [win EXCEPT ![s] = v] /\ focused_id' = focused_id
  BY DEF wm_maximize
<1>2. w \in Win
  OBVIOUS
<1>3. \A g : /\ Place(w, g).flags = w.flags /\ Place(w, g).z = w.z
             /\ Place(w, g).id = w.id /\ Place(w, g).focused = w.focused
             /\ DOMAIN Place(w, g) = DOMAIN w
  BY DEF Place, Win
<1> HIDE DEF w, back, full
<1>4. /\ off.flags = w.flags \ {"MAXIMIZED"} /\ off.z = w.z /\ off.id = w.id /\ off.focused = w.focused
      /\ DOMAIN off = DOMAIN w
  BY <1>2, <1>3 DEF Win, back
<1>5. /\ on.flags = w.flags \cup {"MAXIMIZED"} /\ on.z = w.z /\ on.id = w.id /\ on.focused = w.focused
      /\ DOMAIN on = DOMAIN w
  BY <1>2, <1>3 DEF Win, full
<1> HIDE DEF off, on
<1>6. /\ Seen(to) <=> Seen(w)
      /\ to.flags # {} /\ to.z = w.z /\ to.id = w.id /\ to.focused = w.focused
      /\ DOMAIN to = DOMAIN w
  <2>1. "VISIBLE" \in w.flags
    BY <1>2 DEF Win, Flags
  <2> QED
    BY <1>4, <1>5, <2>1 DEF Seen
<1> HIDE DEF to
<1>7. /\ drawn.flags = to.flags /\ drawn.z = to.z /\ drawn.id = to.id /\ drawn.focused = to.focused
      /\ DOMAIN drawn = DOMAIN w
  BY <1>2, <1>6 DEF Win
<1> HIDE DEF drawn
<1>8. v.flags = drawn.flags /\ v.z = drawn.z /\ v.id = drawn.id /\ v.focused = drawn.focused
  BY <1>2, <1>7 DEF Win, wm_update_surface_size
<1> HIDE DEF v
<1>9. Looks(v, w)
  <2>1. w.flags # {}
    BY <1>2 DEF Win, Flags
  <2> QED
    BY <1>6, <1>7, <1>8, <2>1 DEF Looks, Seen
<1> QED
  BY <1>1, <1>9, OneLooksKeeps DEF StackInv, w

LEMMA CreateCrowns ==
  ASSUME StackInv, StackInv', Crowned(win, focused_id),
         NEW app \in Apps, NEW x \in Int, NEW y \in Int, wm_create(app, x, y)
  PROVE  Crowned(win', focused_id')
<1> DEFINE free == {s \in Slots : ~Live(s)}
           s == CHOOSE s \in free : \A t \in free : s <= t
           width == IF app = "about" THEN 320 ELSE 400
           height == IF app = "about" THEN 280 ELSE 300
           new == NewWindow(app, x, y, width, height, next_id, top_z)
           ws == [win EXCEPT ![s] = new]
<1>1. CASE free = {}
  BY <1>1 DEF wm_create, stack
<1>2. CASE free # {}
  <2>1. focus_top(ws)
    BY <1>2 DEF wm_create
  <2>2. new \in Win
    <3>1. width \in Nat \ {0} /\ height \in Int /\ next_id \in Nat /\ top_z \in Nat
      BY DEF StackInv
    <3> HIDE DEF width, height
    <3> QED
      BY <3>1, NewWindowTyped
  <2> HIDE DEF s, new
  <2>3. ws \in Tables
    BY <2>2 DEF StackInv, Tables
  <2> HIDE DEF ws
  <2> QED
    BY <2>1, <2>3, FocusCrowns
<1> QED
  BY <1>1, <1>2

-----------------------------------------------------------------------------
LEMMA CrownedInit == Init => Crowned(win, focused_id)
<1> SUFFICES ASSUME Init PROVE Crowned(win, focused_id)
  OBVIOUS
<1> DEFINE fm == NewWindow("file_manager", 60, 50, 380, 320, 1, 0)
           terminal == NewWindow("terminal", 180, 100, 420, 300, 2, 1)
           about == NewWindow("about", 340, 160, 320, 280, 3, 2)
           top == [about EXCEPT !.focused = TRUE]
<1>1. \A app, x, y, w, h, id, z :
        LET n == NewWindow(app, x, y, w, h, id, z)
        IN  n.id = id /\ n.z = z /\ n.focused = FALSE /\ n.flags = {"VISIBLE", "DECORATED"}
            /\ "focused" \in DOMAIN n
  BY DEF NewWindow, InitSurface, wm_update_surface_size
<1>2. /\ fm.z = 0 /\ fm.focused = FALSE /\ terminal.z = 1 /\ terminal.focused = FALSE
      /\ about.id = 3 /\ about.z = 2 /\ about.flags = {"VISIBLE", "DECORATED"}
      /\ "focused" \in DOMAIN about
  BY <1>1
<1> HIDE DEF fm, terminal, about
<1>3. /\ top.id = 3 /\ top.z = 2 /\ top.focused = TRUE /\ top.flags = {"VISIBLE", "DECORATED"}
  BY <1>2
<1>4. /\ win = [s \in Slots |-> CASE s = 1 -> fm [] s = 2 -> terminal [] s = 3 -> top [] OTHER -> NoWindow]
      /\ focused_id = 3
  BY DEF Init, fm, terminal, about
<1> HIDE DEF top
<1>5. 1 \in Slots /\ 2 \in Slots /\ 3 \in Slots
  BY WindowsAssumption DEF Slots
<1>6. /\ win[1] = fm /\ win[2] = terminal /\ win[3] = top
      /\ \A s \in Slots \ {1, 2, 3} : win[s] = NoWindow
  BY <1>4, <1>5
<1>7. 3 \in ShownIn(win) /\ ShownIn(win) \subseteq {1, 2, 3}
  BY <1>3, <1>5, <1>6 DEF ShownIn, Seen, NoWindow
<1>8. ASSUME NEW s \in Slots, IsTop(win, s) PROVE s = 3
  <2>1. s = 3 \/ win[3].z < win[s].z \/ (win[3].z = win[s].z /\ s < 3)
    BY <1>7, <1>8 DEF IsTop
  <2>2. s \in {1, 2, 3}
    BY <1>7, <1>8 DEF IsTop
  <2> QED
    BY <1>2, <1>3, <1>6, <2>1, <2>2
<1>9. \A r \in Slots : win[r].flags # {} => (win[r].focused <=> r = 3)
  BY <1>2, <1>3, <1>6 DEF NoWindow
<1> QED
  BY <1>3, <1>4, <1>6, <1>8, <1>9 DEF Crowned

-----------------------------------------------------------------------------
(* The steps of the loop, from what WindowProofs knows of them.            *)
FocusInv == IInv /\ Crowned(win, focused_id)

LEMMA AlikeLooks ==
  ASSUME NEW v, NEW w, Alike(v, w), v.id = w.id, v.focused = w.focused
  PROVE  Looks(v, w)
<1>1. v.flags # {} /\ w.flags # {} /\ v.flags = w.flags /\ v.z = w.z
  BY DEF Alike, Win, Flags
<1> QED
  BY <1>1 DEF Looks, Seen

LEMMA PollCrowns ==
  ASSUME FocusInv, Poll
  PROVE  Crowned(win', focused_id')
<1> DEFINE f == find_window(focused_id)
<1>1. PICK delta \in Scrolls : Scroll(delta)
  BY DEF Poll
<1>2. focused_id' = focused_id
  BY DEF Poll
<1>3. CASE win' = win
  BY <1>2, <1>3 DEF FocusInv
<1>4. CASE win' # win
  <2>1. f # 0 /\ win' = [win EXCEPT ![f] = InitSurface(win[f])]
    BY <1>1, <1>4 DEF Scroll
  <2>2. f \in Slots /\ win[f] \in Win
    BY <2>1, FindWindow, LiveIsWin DEF Live, FocusInv, IInv, StackInv
  <2> HIDE DEF f
  <2>3. Looks(InitSurface(win[f]), win[f])
    BY <2>2, InitSurfaceAlike, AlikeLooks
  <2> QED
    BY <1>2, <2>1, <2>2, <2>3, OneLooksKeeps DEF FocusInv, IInv, StackInv
<1> QED
  BY <1>3, <1>4

LEMMA ResizeCrowns ==
  ASSUME FocusInv, ResizeStep
  PROVE  Crowned(win', focused_id')
<1> DEFINE s == grab.slot
           w == win[s]
           v == Resized(w)
           u == wm_update_surface_size(v)
<1>1. win' = [win EXCEPT ![s] = u] /\ focused_id' = focused_id
  BY DEF ResizeStep
<1>2. s \in Slots /\ w \in Win /\ v \in Win
  <2>1. ResizeGrab /\ PointerInv
    BY DEF FocusInv, IInv, GrabInv, ResizeStep
  <2> QED
    BY <2>1, ResizedFrame DEF ResizeGrab
<1>3. v.flags = w.flags /\ v.z = w.z /\ v.id = w.id /\ v.focused = w.focused
  <2>1. \A a, b, c, d :
          LET r == [w EXCEPT !.x = a, !.w = b, !.y = c, !.h = d]
          IN  r.flags = w.flags /\ r.z = w.z /\ r.id = w.id /\ r.focused = w.focused
    BY <1>2 DEF Win
  <2> HIDE DEF w
  <2> QED
    BY <2>1 DEF Resized
<1> HIDE DEF v
<1>4. u.flags = v.flags /\ u.z = v.z /\ u.id = v.id /\ u.focused = v.focused
  BY <1>2, SurfaceAlike DEF Alike
<1> HIDE DEF u
<1>5. Looks(u, w)
  <2>1. w.flags # {}
    BY <1>2 DEF Win, Flags
  <2> QED
    BY <1>3, <1>4, <2>1 DEF Looks, Seen
<1> HIDE DEF s
<1> QED
  BY <1>1, <1>2, <1>5, OneLooksKeeps DEF FocusInv, IInv, StackInv

LEMMA DragCrowns ==
  ASSUME FocusInv, DragStep
  PROVE  Crowned(win', focused_id')
<1> DEFINE s == grab.slot
           w == win[s]
<1>1. s \in Slots /\ w \in Win /\ focused_id' = focused_id
  BY DEF FocusInv, IInv, GrabInv, MoveGrab, DragStep
<1>2. PICK p \in Spots :
        LET m == DragMoved(w, p)
            normal == wm_update_surface_size([m EXCEPT !.flags = @ \ {"MAXIMIZED"},
                                                       !.w = m.prev.w, !.h = m.prev.h])
        IN  win' = [win EXCEPT ![s] = IF "MAXIMIZED" \in m.flags THEN normal ELSE m]
  BY DEF DragStep
<1> DEFINE m == DragMoved(w, p)
           cut == [m EXCEPT !.flags = @ \ {"MAXIMIZED"}, !.w = m.prev.w, !.h = m.prev.h]
           normal == wm_update_surface_size(cut)
<1>3. win' = [win EXCEPT ![s] = m] \/ win' = [win EXCEPT ![s] = normal]
  BY <1>2
<1>4. "VISIBLE" \in w.flags
  BY <1>1 DEF Win, Flags
<1> HIDE DEF w
<1>5. /\ m.flags = w.flags /\ m.z = w.z /\ m.id = w.id /\ m.focused = w.focused
      /\ DOMAIN m = DOMAIN w
  BY <1>1 DEF DragMoved, Win
<1> HIDE DEF m
<1>6. /\ cut.flags = m.flags \ {"MAXIMIZED"} /\ cut.z = m.z /\ cut.id = m.id
      /\ cut.focused = m.focused /\ DOMAIN cut = DOMAIN w
  BY <1>1, <1>5 DEF Win
<1> HIDE DEF cut
<1>7. normal.flags = cut.flags /\ normal.z = cut.z /\ normal.id = cut.id /\ normal.focused = cut.focused
  BY <1>1, <1>6 DEF Win, wm_update_surface_size
<1> HIDE DEF normal
<1>8. Looks(m, w) /\ Looks(normal, w)
  BY <1>4, <1>5, <1>6, <1>7 DEF Looks, Seen
<1> HIDE DEF s
<1> QED
  BY <1>1, <1>3, <1>8, OneLooksKeeps DEF FocusInv, IInv, StackInv, w

LEMMA TaskbarCrowns ==
  ASSUME FocusInv, StackInv', TaskbarClick
  PROVE  Crowned(win', focused_id')
<1> DEFINE s == taskbar_hit_test(mouse)
<1>1. CASE UNCHANGED stack
  BY <1>1 DEF stack, FocusInv
<1>2. CASE ~UNCHANGED stack
  <2>1. /\ s # 0
        /\ IF "MINIMIZED" \in win[s].flags
           THEN Raise([win EXCEPT ![s].flags = @ \ {"MINIMIZED"}], s)
           ELSE IF win[s].focused THEN wm_minimize(s) ELSE Raise(win, s)
    BY <1>2 DEF TaskbarClick
  <2>2. s \in Slots /\ Live(s)
    BY <2>1 DEF taskbar_hit_test
  <2> HIDE DEF s
  <2>3. win[s] \in Win /\ StackInv
    BY <2>2, LiveIsWin DEF Live, FocusInv, IInv, StackInv
  <2>4. CASE "MINIMIZED" \in win[s].flags
    <3> DEFINE g == win[s].flags \ {"MINIMIZED"}
               ws == [win EXCEPT ![s].flags = g]
    <3>1. g \in Flags
      BY <2>3 DEF Win, Flags
    <3>2. Raise(ws, s)
      BY <2>1, <2>4
    <3> HIDE DEF g
    <3>3. ws \in Tables /\ ws[s] \in Win
      BY <2>2, <2>3, <3>1, FlagsKeep
    <3> HIDE DEF ws
    <3> QED
      BY <2>2, <2>3, <3>2, <3>3, RaiseCrowns DEF FocusInv
  <2>5. CASE "MINIMIZED" \notin win[s].flags /\ win[s].focused
    BY <2>1, <2>2, <2>3, <2>5, MinimizeCrowns DEF FocusInv
  <2>6. CASE "MINIMIZED" \notin win[s].flags /\ ~win[s].focused
    BY <2>1, <2>2, <2>3, <2>6, RaiseCrowns DEF StackInv, FocusInv
  <2> QED
    BY <2>4, <2>5, <2>6
<1> QED
  BY <1>1, <1>2

LEMMA ButtonCrowns ==
  ASSUME FocusInv, StackInv', ButtonClick
  PROVE  Crowned(win', focused_id')
<1> DEFINE s == hit_test(mouse)
           button == ButtonAt(s, mouse)
<1>1. s # 0 /\ button # "none"
  BY DEF ButtonClick
<1>2. wm_destroy(s) \/ wm_maximize(s) \/ wm_minimize(s)
  <2>1. (CASE button = "close" -> wm_destroy(s)
           [] button = "maximize" -> wm_maximize(s)
           [] button = "minimize" -> wm_minimize(s))
    BY DEF ButtonClick
  <2>2. button \in {"close", "maximize", "minimize"}
    BY <1>1 DEF ButtonAt
  <2> HIDE DEF button
  <2> QED
    BY <2>1, <2>2
<1>3. s \in Slots /\ win[s] \in Win /\ Over(s, mouse)
  BY <1>1, HitTest DEF FocusInv, IInv
<1> HIDE DEF s
<1>4. win[s].w > 0
  <2>1. mouse[1] \in Int /\ win[s].x \in Int /\ win[s].w \in Int
    BY <1>3 DEF FocusInv, IInv, PointerInv, Win
  <2>2. mouse[1] >= win[s].x /\ mouse[1] < win[s].x + win[s].w
    BY <1>3 DEF Over, Inside
  <2> QED
    BY <2>1, <2>2
<1> QED
  BY <1>2, <1>3, <1>4, DestroyCrowns, MaximizeLooks, MinimizeCrowns DEF FocusInv, IInv

LEMMA CreationsCrown ==
  ASSUME FocusInv, StackInv', MenuClick \/ IconClick
  PROVE  Crowned(win', focused_id')
<1>1. \/ UNCHANGED stack
      \/ \E app \in Apps : \/ wm_create(app, 100 + AppNumber(app) * 60, 60 + AppNumber(app) * 40)
                           \/ wm_create(app, 80 + AppNumber(app) * 70, 60 + AppNumber(app) * 50)
  BY DEF MenuClick, IconClick, desktop_icon_hit_test, Apps, stack
<1>2. CASE UNCHANGED stack
  BY <1>2 DEF stack, FocusInv
<1>3. ASSUME NEW app \in Apps, NEW x \in Int, NEW y \in Int, wm_create(app, x, y)
      PROVE  Crowned(win', focused_id')
  BY <1>3, CreateCrowns DEF FocusInv, IInv
<1>4. \A app \in Apps : AppNumber(app) \in Int
  BY DEF AppNumber, Apps
<1> QED
  BY <1>1, <1>2, <1>3, <1>4

LEMMA KeysCrown ==
  ASSUME FocusInv, StackInv', TerminalKey \/ TabKey
  PROVE  Crowned(win', focused_id')
<1> DEFINE f == find_window(focused_id)
<1>1. StackInv
  BY DEF FocusInv, IInv
<1>2. ASSUME f # 0 PROVE f \in Slots /\ win[f] \in Win
  BY <1>1, <1>2, FindWindow, LiveIsWin DEF Live, StackInv
<1>3. CASE TerminalKey
  <2>1. /\ f # 0 /\ focused_id' = focused_id
        /\ win' = [win EXCEPT ![f] = IF win[f].needs_surface_clear THEN InitSurface(win[f]) ELSE win[f]]
    BY <1>3 DEF TerminalKey
  <2>2. f \in Slots /\ win[f] \in Win
    BY <1>2, <2>1
  <2> HIDE DEF f
  <2> DEFINE v == IF win[f].needs_surface_clear THEN InitSurface(win[f]) ELSE win[f]
  <2>3. Looks(v, win[f])
    BY <2>2, InitSurfaceAlike, AlikeLooks DEF Looks
  <2>4. win' = [win EXCEPT ![f] = v]
    BY <2>1
  <2> HIDE DEF v
  <2> QED
    BY <1>1, <2>1, <2>2, <2>3, <2>4, OneLooksKeeps DEF FocusInv, StackInv
<1>4. CASE TabKey
  <2>1. IF f = 0 THEN focus_top(win) ELSE Raise(win, f)
    BY <1>4 DEF TabKey
  <2> HIDE DEF f
  <2> QED
    BY <1>1, <1>2, <2>1, FocusCrowns, RaiseCrowns DEF StackInv, FocusInv
<1> QED
  BY <1>3, <1>4

LEMMA ClickCrowns ==
  ASSUME FocusInv, StackInv', WindowClick
  PROVE  Crowned(win', focused_id')
<1> DEFINE s == hit_test(mouse)
<1>1. s # 0 /\ Raise(win, s)
  BY DEF WindowClick
<1>2. s \in Slots /\ win[s] \in Win /\ StackInv
  BY <1>1, HitTest DEF FocusInv, IInv
<1> HIDE DEF s
<1> QED
  BY <1>1, <1>2, RaiseCrowns DEF StackInv, FocusInv

LEMMA FocusKept == FocusInv /\ [Next]_vars => FocusInv'
<1> SUFFICES ASSUME FocusInv, [Next]_vars PROVE FocusInv'
  OBVIOUS
<1>1. IInv' /\ StackInv'
  BY StepKeeps DEF FocusInv, IInv
<1>2. CASE UNCHANGED stack
  BY <1>1, <1>2 DEF stack, FocusInv
<1>3. CASE ~UNCHANGED stack
  <2>1. \/ Poll \/ ResizeStep \/ DragStep \/ TaskbarClick \/ ButtonClick \/ MenuClick \/ IconClick
        \/ TerminalKey \/ TabKey \/ WindowClick
    BY <1>3 DEF vars, stack, Next, Act, ResizeEnd, ClickNothing, IgnoredKey, KeysDone
  <2> QED
    BY <1>1, <2>1, PollCrowns, ResizeCrowns, DragCrowns, TaskbarCrowns, ButtonCrowns, CreationsCrown,
       KeysCrown, ClickCrowns DEF FocusInv
<1> QED
  BY <1>2, <1>3

(* Whatever is opened, raised, minimised, closed, moved, resized or typed, *)
(* the keys go to the window that is seen on top, as long as any is seen.  *)
LEMMA FocusShows == FocusInv => TopHasFocus
<1> SUFFICES ASSUME FocusInv, TopOf(win) # 0
             PROVE  /\ focused_id = win[TopOf(win)].id
                    /\ \A s \in Slots : Live(s) => (win[s].focused <=> s = TopOf(win))
  BY DEF TopHasFocus
<1>1. TopOf(win) \in Slots /\ IsTop(win, TopOf(win))
  BY TopOfIsTop DEF FocusInv, IInv, StackInv, Below
<1> QED
  BY <1>1 DEF FocusInv, Crowned, Live

-----------------------------------------------------------------------------
(***************************************************************************)
(* Frames.  The buffer of a window has the size that its frame gives it,   *)
(* and a window that is marked maximised fills the desktop.  The second    *)
(* needs that a window is never maximised while one of its sides is held.  *)
(***************************************************************************)
Desktop == [x |-> 0, y |-> 0, w |-> screen_w, h |-> tb_y]

(* It has a size, and its title and the one it comes back to are not above *)
(* the screen.                                                             *)
Stands(w) ==
  /\ w.id > 0 /\ w.y >= 0 /\ w.w > 0 /\ w.h > 0
  /\ w.prev.y >= 0 /\ w.prev.h > 0

Fits(w) ==
  /\ w.surface_w = UnsignedAtMost(w.w - 2, 480)
  /\ w.surface_h = UnsignedAtMost(w.h - WM_TITLEBAR_H - 2, 300)
  /\ "MAXIMIZED" \in w.flags => Frame(w) = Desktop
  /\ Stands(w)

AllFit(ws) == \A s \in Slots : ws[s] \in Win => Fits(ws[s])

(* The same frame and buffer, and maximised if the other one is.           *)
SameFrame(v, w) ==
  /\ v.id = w.id /\ v.prev = w.prev
  /\ v.x = w.x /\ v.y = w.y /\ v.w = w.w /\ v.h = w.h
  /\ v.surface_w = w.surface_w /\ v.surface_h = w.surface_h
  /\ "MAXIMIZED" \in v.flags <=> "MAXIMIZED" \in w.flags

(* Where a window stands that the pointer is on.                           *)
InView(o) ==
  o.y >= 0 /\ o.x + o.w > 0 /\ o.y + o.h > 0 /\ o.x < screen_w /\ o.y < tb_y

FrameInv ==
  /\ IInv /\ AllFit(win)
  /\ grab.kind = "resize" => "MAXIMIZED" \notin win[grab.slot].flags /\ InView(grab.orig)

LEMMA SameFits ==
  ASSUME NEW v, NEW w, SameFrame(v, w), Fits(w)
  PROVE  Fits(v)
BY DEF SameFrame, Fits, Frame, Stands

(* A window whose buffer has just been measured.                           *)
LEMMA MeasuredFits ==
  ASSUME NEW w \in Win, Stands(w), "MAXIMIZED" \in w.flags => Frame(w) = Desktop
  PROVE  Fits(wm_update_surface_size(w)) /\ wm_update_surface_size(w).flags = w.flags
<1> DEFINE a == UnsignedAtMost(w.w - 2, 480)
           b == UnsignedAtMost(w.h - WM_TITLEBAR_H - 2, 300)
           v == [w EXCEPT !.surface_w = a, !.surface_h = b]
<1>1. wm_update_surface_size(w) = v
  BY DEF wm_update_surface_size
<1>2. /\ v.x = w.x /\ v.y = w.y /\ v.w = w.w /\ v.h = w.h /\ v.flags = w.flags
      /\ v.surface_w = a /\ v.surface_h = b /\ v.id = w.id /\ v.prev = w.prev
  <2> HIDE DEF a, b
  <2> QED
    BY DEF Win
<1> HIDE DEF v
<1> QED
  BY <1>1, <1>2 DEF Fits, Frame, Stands

LEMMA InitSurfaceFits ==
  ASSUME NEW w \in Win, Stands(w), "MAXIMIZED" \in w.flags => Frame(w) = Desktop
  PROVE  Fits(InitSurface(w)) /\ InitSurface(w).flags = w.flags
<1> DEFINE v == [w EXCEPT !.needs_surface_clear = FALSE]
<1>1. v \in Win /\ v.flags = w.flags /\ Frame(v) = Frame(w) /\ Stands(v)
  BY DEF Win, Frame, Stands
<1>2. InitSurface(w) = wm_update_surface_size(v)
  BY DEF InitSurface
<1> HIDE DEF v
<1> QED
  BY <1>1, <1>2, MeasuredFits

LEMMA FocusSameFrame ==
  ASSUME NEW ws \in Tables, focus_top(ws)
  PROVE  \A s \in Slots : \/ ws[s].flags = {} /\ win'[s] = ws[s]
                          \/ SameFrame(win'[s], ws[s])
<1> DEFINE best == TopOf(ws)
<1>1. CASE best = 0
  BY <1>1 DEF focus_top, SameFrame
<1>2. CASE best # 0
  <2>1. win' = [s \in Slots |-> IF ws[s].flags = {} THEN ws[s]
                                ELSE [ws[s] EXCEPT !.focused = (s = best)]]
    BY <1>2 DEF focus_top
  <2> HIDE DEF best
  <2>2. ASSUME NEW s \in Slots, ws[s].flags # {} PROVE SameFrame(win'[s], ws[s])
    <3>1. ws[s] \in Win
      BY <2>2, LiveIsWin
    <3> DEFINE b == (s = best)
    <3>2. win'[s] = [ws[s] EXCEPT !.focused = b]
      BY <2>1, <2>2
    <3> HIDE DEF b
    <3> QED
      BY <3>1, <3>2 DEF Win, SameFrame
  <2> QED
    BY <2>1, <2>2
<1> QED
  BY <1>1, <1>2

LEMMA FocusFits ==
  ASSUME NEW ws \in Tables, AllFit(ws), focus_top(ws)
  PROVE  AllFit(win')
<1> SUFFICES ASSUME NEW s \in Slots, win'[s] \in Win PROVE Fits(win'[s])
  BY DEF AllFit
<1>1. win'[s].flags # {}
  BY DEF Win, Flags
<1>2. SameFrame(win'[s], ws[s])
  BY <1>1, FocusSameFrame
<1>3. ws[s] \in Win
  BY <1>1, FocusAlike DEF Alike
<1> QED
  BY <1>2, <1>3, SameFits DEF AllFit

LEMMA OneFits ==
  ASSUME NEW ws \in Tables, AllFit(ws), NEW s \in Slots, NEW v, Fits(v)
  PROVE  AllFit([ws EXCEPT ![s] = v])
<1> DEFINE vs == [ws EXCEPT ![s] = v]
<1>1. \A r \in Slots : vs[r] = IF r = s THEN v ELSE ws[r]
  BY DEF Tables
<1> HIDE DEF vs
<1>2. AllFit(vs)
  BY <1>1 DEF AllFit
<1> QED
  BY <1>2 DEF vs

-----------------------------------------------------------------------------
(* The operations on the table.                                            *)
LEMMA RaiseFits ==
  ASSUME StackInv, NEW ws \in Tables, AllFit(ws), NEW s \in Slots, ws[s] \in Win, Raise(ws, s)
  PROVE  AllFit(win')
<1> DEFINE u == [ws[s] EXCEPT !.z = top_z]
           up == [ws EXCEPT ![s].z = top_z]
<1>1. up = [ws EXCEPT ![s] = u]
  OBVIOUS
<1>2. u \in Win /\ SameFrame(u, ws[s])
  BY DEF Win, SameFrame, StackInv
<1>3. focus_top(up)
  BY DEF Raise
<1> HIDE DEF u, up
<1>4. Fits(u)
  BY <1>2, SameFits DEF AllFit
<1>5. up \in Tables /\ AllFit(up)
  BY <1>1, <1>2, <1>4, OneFits DEF Tables
<1> QED
  BY <1>3, <1>5, FocusFits

(* A window that is minimised or shown again.                              *)
LEMMA FlagsFit ==
  ASSUME StackInv, AllFit(win), NEW s \in Slots, win[s] \in Win, NEW f \in Flags,
         "MAXIMIZED" \in f <=> "MAXIMIZED" \in win[s].flags
  PROVE  /\ [win EXCEPT ![s].flags = f] \in Tables
         /\ [win EXCEPT ![s].flags = f][s] \in Win
         /\ AllFit([win EXCEPT ![s].flags = f])
<1> DEFINE u == [win[s] EXCEPT !.flags = f]
           ws == [win EXCEPT ![s].flags = f]
<1>1. ws = [win EXCEPT ![s] = u]
  OBVIOUS
<1>2. SameFrame(u, win[s])
  BY DEF Win, SameFrame
<1>3. ws \in Tables /\ ws[s] \in Win
  BY FlagsKeep
<1> HIDE DEF u, ws
<1>4. AllFit(ws)
  BY <1>1, <1>2, SameFits, OneFits DEF AllFit, StackInv
<1> QED
  BY <1>3, <1>4 DEF ws

LEMMA MinimizeFits ==
  ASSUME StackInv, AllFit(win), NEW s \in Slots, win[s] \in Win, wm_minimize(s)
  PROVE  AllFit(win')
<1> DEFINE f == win[s].flags \cup {"MINIMIZED"}
           ws == [win EXCEPT ![s].flags = f]
<1>1. f \in Flags /\ ("MAXIMIZED" \in f <=> "MAXIMIZED" \in win[s].flags)
  BY DEF Win, Flags
<1>2. focus_top(ws) \/ win' = ws
  BY DEF wm_minimize
<1> HIDE DEF f
<1>3. ws \in Tables /\ AllFit(ws)
  BY <1>1, FlagsFit
<1> HIDE DEF ws
<1> QED
  BY <1>2, <1>3, FocusFits

LEMMA DestroyFits ==
  ASSUME StackInv, AllFit(win), NEW s \in Slots, wm_destroy(s)
  PROVE  AllFit(win')
<1> DEFINE ws == [win EXCEPT ![s] = NoWindow]
<1>1. focus_top(ws) \/ win' = ws
  BY DEF wm_destroy
<1>2. \A r \in Slots : ws[r] = IF r = s THEN NoWindow ELSE win[r]
  BY DEF StackInv, Tables
<1>3. ws \in Tables
  BY DEF StackInv, Tables
<1> HIDE DEF ws
<1>4. AllFit(ws)
  BY <1>2, NoWindowDead DEF AllFit
<1> QED
  BY <1>1, <1>3, <1>4, FocusFits

LEMMA MaximizeFits ==
  ASSUME StackInv, AllFit(win), NEW s \in Slots, win[s] \in Win, win[s].w > 0, wm_maximize(s)
  PROVE  AllFit(win')
<1> DEFINE w == win[s]
           back == Place(w, w.prev)
           full == Place(w, Desktop)
           off == [back EXCEPT !.flags = @ \ {"MAXIMIZED"}]
           on == [full EXCEPT !.flags = @ \cup {"MAXIMIZED"}, !.prev = Frame(w)]
           to == IF "MAXIMIZED" \in w.flags THEN off ELSE on
           drawn == [to EXCEPT !.needs_surface_clear = TRUE]
<1>1. win' = [win EXCEPT ![s] = wm_update_surface_size(drawn)]
  BY DEF wm_maximize, Desktop
<1>2. w.prev \in [x : Int, y : Int, w : Int, h : Int] /\ Frame(w) \in Old
  BY DEF Win, Old, Frame
<1>3. Desktop \in [x : Int, y : Int, w : Int, h : Int]
  BY DEF Desktop, screen_w, tb_y, screen_h, WM_TASKBAR_H
<1>4. Stands(w) /\ w \in Win /\ w.flags \ {"MAXIMIZED"} \in Flags /\ w.flags \cup {"MAXIMIZED"} \in Flags
  BY DEF Win, Flags, AllFit, Fits
<1> HIDE DEF w
<1>5. back \in Win /\ back.flags = w.flags /\ Stands(back)
  <2>1. back \in Win /\ back.flags = w.flags
    BY <1>2, <1>4, PlaceTyped
  <2>2. /\ back.y = w.prev.y /\ back.w = w.prev.w /\ back.h = w.prev.h
        /\ back.id = w.id /\ back.prev = w.prev
    BY <1>4 DEF Place, Win
  <2>3. w.prev.w > 0
    BY <1>4 DEF Win, Old
  <2> QED
    BY <1>4, <2>1, <2>2, <2>3 DEF Stands
<1>6. /\ full \in Win /\ full.flags = w.flags /\ Frame(full) = Desktop
      /\ full.id = w.id
  <2>1. full \in Win /\ full.flags = w.flags
    BY <1>3, <1>4, PlaceTyped
  <2>2. /\ full.x = Desktop.x /\ full.y = Desktop.y /\ full.w = Desktop.w /\ full.h = Desktop.h
        /\ full.id = w.id
    BY <1>4 DEF Place, Win
  <2> QED
    BY <2>1, <2>2 DEF Frame, Desktop
<1> HIDE DEF back, full
<1>7. off \in Win /\ "MAXIMIZED" \notin off.flags /\ Stands(off)
  <2> DEFINE g == w.flags \ {"MAXIMIZED"}
  <2>1. off = [back EXCEPT !.flags = g]
    BY <1>5
  <2>2. g \in Flags /\ "MAXIMIZED" \notin g
    BY <1>4
  <2> HIDE DEF off, g
  <2> QED
    BY <1>5, <2>1, <2>2 DEF Win, Stands
<1>8. on \in Win /\ Frame(on) = Desktop /\ Stands(on)
  <2> DEFINE g == w.flags \cup {"MAXIMIZED"}
             once == [full EXCEPT !.flags = g]
             p == Frame(w)
  <2>1. g \in Flags /\ p \in Old /\ p.y >= 0 /\ p.h > 0
    BY <1>2, <1>4 DEF Frame, Stands
  <2>2. on = [once EXCEPT !.prev = p]
    BY <1>6
  <2> HIDE DEF on, g, p
  <2>3. once \in Win /\ Frame(once) = Frame(full) /\ once.id = w.id
    BY <1>6, <2>1 DEF Win, Frame
  <2> HIDE DEF once
  <2>4. on \in Win /\ Frame(on) = Frame(once) /\ on.id = w.id /\ on.prev = p
    BY <2>1, <2>2, <2>3 DEF Win, Frame
  <2>5. on.y = 0 /\ on.w = 1024 /\ on.h = 732
    BY <1>6, <2>3, <2>4 DEF Frame, Desktop, screen_w, tb_y, screen_h, WM_TASKBAR_H
  <2> QED
    BY <1>4, <1>6, <2>1, <2>3, <2>4, <2>5 DEF Stands
<1> HIDE DEF off, on
<1>9. to \in Win /\ Stands(to) /\ ("MAXIMIZED" \in to.flags => Frame(to) = Desktop)
  BY <1>7, <1>8
<1> HIDE DEF to
<1>10. drawn \in Win /\ drawn.flags = to.flags /\ Frame(drawn) = Frame(to) /\ Stands(drawn)
  BY <1>9 DEF Win, Frame, Stands
<1> HIDE DEF drawn
<1>11. Fits(wm_update_surface_size(drawn))
  BY <1>9, <1>10, MeasuredFits
<1> QED
  BY <1>1, <1>11, OneFits DEF StackInv

LEMMA NewWindowFits ==
  ASSUME NEW app \in Apps, NEW x \in Int, NEW y \in Nat, NEW w \in Nat \ {0},
         NEW h \in Nat \ {0}, NEW id \in Nat \ {0}, NEW z \in Nat
  PROVE  Fits(NewWindow(app, x, y, w, h, id, z))
<1> DEFINE raw == [id |-> id, x |-> x, y |-> y, w |-> w, h |-> h,
                  prev |-> [x |-> x, y |-> y, w |-> w, h |-> h],
                  flags |-> {"VISIBLE", "DECORATED"}, z |-> z, focused |-> FALSE,
                  app_type |-> app, surface_w |-> 0, surface_h |-> 0,
                  needs_surface_clear |-> TRUE]
<1>1. {"VISIBLE", "DECORATED"} \in Flags
  BY DEF Flags
<1>2. raw \in Win /\ "MAXIMIZED" \notin raw.flags /\ Stands(raw)
  BY <1>1 DEF Win, Old, Stands
<1>3. NewWindow(app, x, y, w, h, id, z) = InitSurface(raw)
  BY DEF NewWindow
<1> HIDE DEF raw
<1> QED
  BY <1>2, <1>3, InitSurfaceFits

LEMMA CreateFits ==
  ASSUME StackInv, AllFit(win), NEW app \in Apps, NEW x \in Int, NEW y \in Nat, wm_create(app, x, y)
  PROVE  AllFit(win')
<1> DEFINE free == {s \in Slots : ~Live(s)}
           s == CHOOSE s \in free : \A t \in free : s <= t
           width == IF app = "about" THEN 320 ELSE 400
           height == IF app = "about" THEN 280 ELSE 300
           new == NewWindow(app, x, y, width, height, next_id, top_z)
           ws == [win EXCEPT ![s] = new]
<1>1. CASE free = {}
  BY <1>1 DEF wm_create, stack
<1>2. CASE free # {}
  <2>1. focus_top(ws)
    BY <1>2 DEF wm_create
  <2>2. new \in Win /\ Fits(new)
    <3>1. /\ width \in Nat \ {0} /\ height \in Nat \ {0} /\ next_id \in Nat \ {0}
          /\ top_z \in Nat /\ y \in Int /\ height \in Int /\ next_id \in Nat
      BY DEF StackInv
    <3> HIDE DEF width, height
    <3> QED
      BY <3>1, NewWindowTyped, NewWindowFits
  <2>3. s \in Slots
    <3>1. free \subseteq Nat /\ free \subseteq Slots
      BY DEF Slots
    <3> HIDE DEF free
    <3> QED
      BY <1>2, <3>1, Least
  <2> HIDE DEF s, new
  <2>4. ws \in Tables /\ AllFit(ws)
    BY <2>2, <2>3, OneFits DEF StackInv, Tables
  <2> HIDE DEF ws
  <2> QED
    BY <2>1, <2>4, FocusFits
<1> QED
  BY <1>1, <1>2

-----------------------------------------------------------------------------
LEMMA FrameInit == Init => FrameInv
<1> SUFFICES ASSUME Init PROVE FrameInv
  OBVIOUS
<1> DEFINE fm == NewWindow("file_manager", 60, 50, 380, 320, 1, 0)
           terminal == NewWindow("terminal", 180, 100, 420, 300, 2, 1)
           about == NewWindow("about", 340, 160, 320, 280, 3, 2)
           top == [about EXCEPT !.focused = TRUE]
<1>1. Fits(fm)
  <2>1. /\ "file_manager" \in Apps /\ 60 \in Int /\ 50 \in Nat /\ 380 \in Nat \ {0} /\ 320 \in Nat \ {0}
        /\ 1 \in Nat \ {0} /\ 0 \in Nat
    BY DEF Apps
  <2> QED
    BY <2>1, NewWindowFits
<1>2. Fits(terminal)
  <2>1. /\ "terminal" \in Apps /\ 180 \in Int /\ 100 \in Nat /\ 420 \in Nat \ {0} /\ 300 \in Nat \ {0}
        /\ 2 \in Nat \ {0} /\ 1 \in Nat
    BY DEF Apps
  <2> QED
    BY <2>1, NewWindowFits
<1>3. Fits(about) /\ about \in Win
  <2>1. /\ "about" \in Apps /\ 340 \in Int /\ 160 \in Nat /\ 320 \in Nat \ {0} /\ 280 \in Nat \ {0}
        /\ 3 \in Nat \ {0} /\ 2 \in Nat /\ 160 \in Int /\ 280 \in Int /\ 3 \in Nat
    BY DEF Apps
  <2>2. Fits(about)
    BY <2>1, NewWindowFits
  <2>3. about \in Win
    BY <2>1, NewWindowTyped
  <2> QED
    BY <2>2, <2>3
<1> HIDE DEF fm, terminal, about
<1>4. Fits(top)
  <2>1. SameFrame(top, about)
    BY <1>3 DEF Win, SameFrame
  <2> HIDE DEF top
  <2> QED
    BY <1>3, <2>1, SameFits
<1>5. win = [s \in Slots |-> CASE s = 1 -> fm [] s = 2 -> terminal [] s = 3 -> top [] OTHER -> NoWindow]
  BY DEF Init, fm, terminal, about
<1> HIDE DEF top
<1>6. AllFit(win)
  BY <1>1, <1>2, <1>4, <1>5, NoWindowDead DEF AllFit
<1>7. grab.kind # "resize"
  BY DEF Init, NoGrab
<1> QED
  BY <1>6, <1>7, InitHolds DEF FrameInv

-----------------------------------------------------------------------------
(* The steps of the loop.                                                  *)
LEMMA PollFits ==
  ASSUME FrameInv, Poll
  PROVE  /\ AllFit(win')
         /\ grab'.kind = "resize" => "MAXIMIZED" \notin win'[grab'.slot].flags /\ InView(grab'.orig)
<1> DEFINE f == find_window(focused_id)
<1>1. PICK delta \in Scrolls : Scroll(delta)
  BY DEF Poll
<1>2. grab' = grab
  BY DEF Poll
<1>3. CASE win' = win
  BY <1>2, <1>3 DEF FrameInv
<1>4. CASE win' # win
  <2>1. f # 0 /\ win' = [win EXCEPT ![f] = InitSurface(win[f])]
    BY <1>1, <1>4 DEF Scroll
  <2>2. f \in Slots /\ win[f] \in Win
    BY <2>1, FindWindow, LiveIsWin DEF Live, FrameInv, IInv, StackInv
  <2> HIDE DEF f
  <2> DEFINE v == InitSurface(win[f])
  <2>3. Fits(v) /\ v.flags = win[f].flags
    BY <2>2, InitSurfaceFits DEF FrameInv, AllFit, Fits
  <2>4. win' = [win EXCEPT ![f] = v]
    BY <2>1
  <2> HIDE DEF v
  <2>5. AllFit(win')
    BY <2>2, <2>3, <2>4, OneFits DEF FrameInv, IInv, StackInv
  <2>6. \A s \in Slots : win'[s].flags = win[s].flags
    BY <2>3, <2>4 DEF FrameInv, IInv, StackInv, Tables
  <2>7. grab.kind = "resize" => grab.slot \in Slots
    BY DEF FrameInv, IInv, GrabInv, ResizeGrab
  <2> QED
    BY <1>2, <2>5, <2>6, <2>7 DEF FrameInv
<1> QED
  BY <1>3, <1>4

LEMMA ResizeFits ==
  ASSUME FrameInv, ResizeStep
  PROVE  AllFit(win') /\ grab' = grab /\ "MAXIMIZED" \notin win'[grab.slot].flags
<1> DEFINE s == grab.slot
           w == win[s]
           v == Resized(w)
           u == wm_update_surface_size(v)
<1>1. win' = [win EXCEPT ![s] = u] /\ grab' = grab
  BY DEF ResizeStep
<1>2. s \in Slots /\ w \in Win /\ v \in Win /\ ResizeGrab /\ PointerInv
  <2>1. ResizeGrab /\ PointerInv
    BY DEF FrameInv, IInv, GrabInv, ResizeStep
  <2> QED
    BY <2>1, ResizedFrame DEF ResizeGrab
<1>3. "MAXIMIZED" \notin v.flags
  <2>1. \A a, b, c, d : [w EXCEPT !.x = a, !.w = b, !.y = c, !.h = d].flags = w.flags
    BY <1>2 DEF Win
  <2>2. "MAXIMIZED" \notin w.flags
    BY DEF FrameInv, ResizeStep
  <2> HIDE DEF w
  <2> QED
    BY <2>1, <2>2 DEF Resized
<1>4. Stands(v)
  <2> DEFINE o == grab.orig
             dx == mouse[1] - grab.x
             dy == mouse[2] - grab.y
  <2>1. Stands(w) /\ InView(o)
    BY <1>2 DEF FrameInv, AllFit, Fits, ResizeStep
  <2>2. /\ o.x \in Int /\ o.y \in Int /\ o.w \in Int /\ o.h \in Int
        /\ w.x \in Int /\ w.y \in Int /\ w.h \in Int /\ w.w \in Int
        /\ "left" \notin grab.dir => w.x = o.x
        /\ "top" \notin grab.dir => w.y = o.y
    BY <1>2 DEF ResizeGrab, Win
  <2>3. /\ dx \in Int /\ dy \in Int /\ v.id = w.id /\ v.prev = w.prev
        /\ v.w = IF "left" \in grab.dir THEN MoveNear(o.x, o.w, dx, 120)[2]
                 ELSE IF "right" \in grab.dir THEN MoveFar(w.x, o.w, dx, 120, screen_w)
                 ELSE w.w
        /\ v.y = IF "top" \in grab.dir THEN MoveNear(o.y, o.h, dy, 80)[1] ELSE w.y
        /\ v.h = IF "top" \in grab.dir THEN MoveNear(o.y, o.h, dy, 80)[2]
                 ELSE IF "bottom" \in grab.dir THEN MoveFar(w.y, o.h, dy, 80, tb_y)
                 ELSE w.h
    BY <1>2, ResizedFrame
  <2> HIDE DEF o, dx, dy, w, v
  <2>4. screen_w \in Int /\ tb_y \in Int /\ 120 \in Nat /\ 80 \in Nat /\ 120 > 0 /\ 80 > 0
    BY DEF screen_w, tb_y, screen_h, WM_TASKBAR_H
  <2>5. v.w > 0
    BY <2>1, <2>2, <2>3, <2>4, NearLeaves, FarLeaves DEF Stands, InView
  <2>6. v.y >= 0 /\ v.h > 0
    BY <2>1, <2>2, <2>3, <2>4, NearLeaves, FarLeaves DEF Stands, InView
  <2> QED
    BY <2>1, <2>3, <2>5, <2>6 DEF Stands
<1> HIDE DEF v
<1>5. Fits(u) /\ "MAXIMIZED" \notin u.flags
  BY <1>2, <1>3, <1>4, MeasuredFits
<1> HIDE DEF u, s
<1>6. AllFit(win') /\ win'[s] = u
  BY <1>1, <1>2, <1>5, OneFits DEF FrameInv, IInv, StackInv, Tables
<1> QED
  BY <1>1, <1>5, <1>6 DEF s

LEMMA DragFits ==
  ASSUME FrameInv, DragStep
  PROVE  AllFit(win')
<1> DEFINE s == grab.slot
           w == win[s]
<1>1. s \in Slots /\ w \in Win /\ grab.off_x \in Nat /\ grab.off_y \in Nat
  BY DEF FrameInv, IInv, GrabInv, MoveGrab, DragStep, WM_TITLEBAR_H
<1>2. PICK p \in Spots :
        LET m == DragMoved(w, p)
            normal == wm_update_surface_size([m EXCEPT !.flags = @ \ {"MAXIMIZED"},
                                                       !.w = m.prev.w, !.h = m.prev.h])
        IN  win' = [win EXCEPT ![s] = IF "MAXIMIZED" \in m.flags THEN normal ELSE m]
  BY DEF DragStep
<1> DEFINE m == DragMoved(w, p)
           g == m.flags \ {"MAXIMIZED"}
           a == m.prev.w
           c == m.prev.h
           cut == [m EXCEPT !.flags = g, !.w = a, !.h = c]
           normal == wm_update_surface_size(cut)
           v == IF "MAXIMIZED" \in m.flags THEN normal ELSE m
<1>3. win' = [win EXCEPT ![s] = v]
  BY <1>2
<1>4. /\ m \in Win /\ m.flags = w.flags /\ m.w = w.w /\ m.h = w.h
      /\ m.y >= 0 /\ m.id = w.id /\ m.prev = w.prev
      /\ m.surface_w = w.surface_w /\ m.surface_h = w.surface_h
  <2> DEFINE x == p[1] - grab.off_x
             y == AtLeast(p[2] - grab.off_y, 0)
  <2>1. x \in Int /\ y \in Int /\ y >= 0
    <3>1. p[1] \in Int /\ p[2] \in Int
      BY SpotsAssumption
    <3> QED
      BY <1>1, <3>1 DEF AtLeast
  <2>2. m = [w EXCEPT !.x = x, !.y = y]
    BY DEF DragMoved
  <2> HIDE DEF x, y, m, w
  <2> QED
    BY <1>1, <2>1, <2>2 DEF Win
<1>5. Fits(w)
  BY <1>1 DEF FrameInv, AllFit
<1> HIDE DEF w, m
<1>6. CASE "MAXIMIZED" \notin m.flags
  <2>1. Fits(m)
    BY <1>4, <1>5, <1>6 DEF Fits, Stands
  <2>2. win' = [win EXCEPT ![s] = m]
    BY <1>3, <1>6
  <2> HIDE DEF s
  <2> QED
    BY <1>1, <2>1, <2>2, OneFits DEF FrameInv, IInv, StackInv
<1>7. CASE "MAXIMIZED" \in m.flags
  <2>1. g \in Flags /\ "MAXIMIZED" \notin g /\ a \in Int /\ c \in Int /\ a > 0 /\ c > 0
    BY <1>4, <1>5 DEF Win, Flags, Old, Fits, Stands
  <2>2. win' = [win EXCEPT ![s] = normal]
    BY <1>3, <1>7
  <2>3. cut \in Win /\ cut.flags = g /\ Stands(cut)
    <3> HIDE DEF g, a, c
    <3> DEFINE once == [m EXCEPT !.flags = g]
               twice == [once EXCEPT !.w = a]
    <3>1. /\ once \in Win /\ once.flags = g
          /\ once.y = m.y /\ once.id = m.id /\ once.prev = m.prev
      BY <1>4, <2>1 DEF Win
    <3>2. cut = [twice EXCEPT !.h = c]
      OBVIOUS
    <3> HIDE DEF once, cut
    <3>3. /\ twice \in Win /\ twice.flags = g
          /\ twice.y = m.y /\ twice.id = m.id /\ twice.prev = m.prev /\ twice.w = a
      BY <2>1, <3>1 DEF Win
    <3> HIDE DEF twice
    <3>4. /\ cut \in Win /\ cut.flags = g
          /\ cut.y = m.y /\ cut.id = m.id /\ cut.prev = m.prev /\ cut.w = a /\ cut.h = c
      BY <2>1, <3>2, <3>3 DEF Win
    <3> QED
      BY <1>4, <1>5, <2>1, <3>4 DEF Stands, Fits
  <2> HIDE DEF cut, g
  <2>4. Fits(normal)
    BY <2>1, <2>3, MeasuredFits
  <2> HIDE DEF s, normal
  <2> QED
    BY <1>1, <2>2, <2>4, OneFits DEF FrameInv, IInv, StackInv
<1> QED
  BY <1>6, <1>7

LEMMA TaskbarFits ==
  ASSUME FrameInv, TaskbarClick
  PROVE  AllFit(win')
<1> DEFINE s == taskbar_hit_test(mouse)
<1>1. CASE UNCHANGED stack
  BY <1>1 DEF stack, FrameInv
<1>2. CASE ~UNCHANGED stack
  <2>1. /\ s # 0
        /\ IF "MINIMIZED" \in win[s].flags
           THEN Raise([win EXCEPT ![s].flags = @ \ {"MINIMIZED"}], s)
           ELSE IF win[s].focused THEN wm_minimize(s) ELSE Raise(win, s)
    BY <1>2 DEF TaskbarClick
  <2>2. s \in Slots /\ Live(s)
    BY <2>1 DEF taskbar_hit_test
  <2> HIDE DEF s
  <2>3. win[s] \in Win /\ StackInv /\ AllFit(win)
    BY <2>2, LiveIsWin DEF Live, FrameInv, IInv, StackInv
  <2>4. CASE "MINIMIZED" \in win[s].flags
    <3> DEFINE g == win[s].flags \ {"MINIMIZED"}
               ws == [win EXCEPT ![s].flags = g]
    <3>1. g \in Flags /\ ("MAXIMIZED" \in g <=> "MAXIMIZED" \in win[s].flags)
      BY <2>3 DEF Win, Flags
    <3>2. Raise(ws, s)
      BY <2>1, <2>4
    <3> HIDE DEF g
    <3>3. ws \in Tables /\ ws[s] \in Win /\ AllFit(ws)
      BY <2>2, <2>3, <3>1, FlagsFit
    <3> HIDE DEF ws
    <3> QED
      BY <2>2, <2>3, <3>2, <3>3, RaiseFits
  <2>5. CASE "MINIMIZED" \notin win[s].flags /\ win[s].focused
    BY <2>1, <2>2, <2>3, <2>5, MinimizeFits
  <2>6. CASE "MINIMIZED" \notin win[s].flags /\ ~win[s].focused
    BY <2>1, <2>2, <2>3, <2>6, RaiseFits DEF StackInv
  <2> QED
    BY <2>4, <2>5, <2>6
<1> QED
  BY <1>1, <1>2

LEMMA ButtonFits ==
  ASSUME FrameInv, ButtonClick
  PROVE  AllFit(win')
<1> DEFINE s == hit_test(mouse)
           button == ButtonAt(s, mouse)
<1>1. s # 0 /\ button # "none"
  BY DEF ButtonClick
<1>2. wm_destroy(s) \/ wm_maximize(s) \/ wm_minimize(s)
  <2>1. (CASE button = "close" -> wm_destroy(s)
           [] button = "maximize" -> wm_maximize(s)
           [] button = "minimize" -> wm_minimize(s))
    BY DEF ButtonClick
  <2>2. button \in {"close", "maximize", "minimize"}
    BY <1>1 DEF ButtonAt
  <2> HIDE DEF button
  <2> QED
    BY <2>1, <2>2
<1>3. s \in Slots /\ win[s] \in Win /\ Over(s, mouse)
  BY <1>1, HitTest DEF FrameInv, IInv
<1> HIDE DEF s
<1>4. win[s].w > 0
  <2>1. mouse[1] \in Int /\ win[s].x \in Int /\ win[s].w \in Int
    BY <1>3 DEF FrameInv, IInv, PointerInv, Win
  <2>2. mouse[1] >= win[s].x /\ mouse[1] < win[s].x + win[s].w
    BY <1>3 DEF Over, Inside
  <2> QED
    BY <2>1, <2>2
<1> QED
  BY <1>2, <1>3, <1>4, DestroyFits, MaximizeFits, MinimizeFits DEF FrameInv, IInv

LEMMA CreationsFit ==
  ASSUME FrameInv, MenuClick \/ IconClick
  PROVE  AllFit(win')
<1>1. \/ UNCHANGED stack
      \/ \E app \in Apps : \/ wm_create(app, 100 + AppNumber(app) * 60, 60 + AppNumber(app) * 40)
                           \/ wm_create(app, 80 + AppNumber(app) * 70, 60 + AppNumber(app) * 50)
  BY DEF MenuClick, IconClick, desktop_icon_hit_test, Apps, stack
<1>2. CASE UNCHANGED stack
  BY <1>2 DEF stack, FrameInv
<1>3. ASSUME NEW app \in Apps, NEW x \in Int, NEW y \in Nat, wm_create(app, x, y)
      PROVE  AllFit(win')
  BY <1>3, CreateFits DEF FrameInv, IInv
<1>4. \A app \in Apps : AppNumber(app) \in Nat
  BY DEF AppNumber, Apps
<1> QED
  BY <1>1, <1>2, <1>3, <1>4

LEMMA KeysFit ==
  ASSUME FrameInv, TerminalKey \/ TabKey
  PROVE  AllFit(win')
<1> DEFINE f == find_window(focused_id)
<1>1. StackInv /\ AllFit(win)
  BY DEF FrameInv, IInv
<1>2. ASSUME f # 0 PROVE f \in Slots /\ win[f] \in Win
  BY <1>1, <1>2, FindWindow, LiveIsWin DEF Live, StackInv
<1>3. CASE TerminalKey
  <2>1. /\ f # 0
        /\ win' = [win EXCEPT ![f] = IF win[f].needs_surface_clear THEN InitSurface(win[f]) ELSE win[f]]
    BY <1>3 DEF TerminalKey
  <2>2. f \in Slots /\ win[f] \in Win
    BY <1>2, <2>1
  <2> HIDE DEF f
  <2> DEFINE v == IF win[f].needs_surface_clear THEN InitSurface(win[f]) ELSE win[f]
  <2>3. Fits(win[f]) /\ Fits(InitSurface(win[f]))
    BY <1>1, <2>2, InitSurfaceFits DEF AllFit, Fits
  <2>4. Fits(v) /\ win' = [win EXCEPT ![f] = v]
    BY <2>1, <2>3
  <2> HIDE DEF v
  <2> QED
    BY <1>1, <2>2, <2>4, OneFits DEF StackInv
<1>4. CASE TabKey
  <2>1. IF f = 0 THEN focus_top(win) ELSE Raise(win, f)
    BY <1>4 DEF TabKey
  <2> HIDE DEF f
  <2> QED
    BY <1>1, <1>2, <2>1, FocusFits, RaiseFits DEF StackInv
<1> QED
  BY <1>3, <1>4

(* A resize begins at a window that has sides to hold.                     *)
LEMMA ClickFits ==
  ASSUME FrameInv, WindowClick
  PROVE  /\ AllFit(win')
         /\ grab'.kind = "resize" => "MAXIMIZED" \notin win'[grab'.slot].flags /\ InView(grab'.orig)
<1> DEFINE s == hit_test(mouse)
           dir == get_resize_dir(s, mouse)
<1>1. s # 0 /\ Raise(win, s)
  BY DEF WindowClick
<1>2. /\ s \in Slots /\ win[s] \in Win /\ StackInv /\ AllFit(win) /\ Over(s, mouse)
  BY <1>1, HitTest DEF FrameInv, IInv
<1>3. grab'.kind = "resize" => dir # {} /\ grab'.slot = s /\ grab'.orig = Frame(win[s])
  <2>1. grab.kind = "none"
    BY ClickFacts DEF FrameInv, WindowClick, Click
  <2>2. (CASE dir # {} ->
                /\ grab' = [kind |-> "resize", slot |-> s, dir |-> dir,
                            x |-> mouse[1], y |-> mouse[2], orig |-> Frame(win[s])]
                /\ NextIteration
           [] dir = {} /\ mouse[2] < win[s].y + WM_TITLEBAR_H ->
                /\ grab' = [kind |-> "move", slot |-> s,
                            off_x |-> mouse[1] - win[s].x, off_y |-> mouse[2] - win[s].y]
                /\ pc' = "drag" /\ NotComposed /\ UNCHANGED changed
           [] OTHER -> pc' = "keys" /\ NotComposed /\ UNCHANGED <<changed, grab>>)
    BY DEF WindowClick
  <2> HIDE DEF dir, s
  <2> QED
    BY <2>1, <2>2
<1>4. dir # {} => "MAXIMIZED" \notin win[s].flags
  BY DEF get_resize_dir
<1> HIDE DEF dir, s
<1>7. InView(Frame(win[s]))
  <2> DEFINE w == win[s]
  <2>1. /\ w.x \in Int /\ w.y \in Int /\ w.w \in Int /\ w.h \in Int
        /\ w.y >= 0
    BY <1>2 DEF Win, AllFit, Fits, Stands
  <2>2. /\ mouse[1] \in 0 .. 1023 /\ mouse[2] \in 0 .. 767 /\ mouse[2] < tb_y
    BY DEF FrameInv, IInv, PointerInv, WindowClick, OnDesktop
  <2>3. /\ mouse[1] >= w.x /\ mouse[1] < w.x + w.w
        /\ mouse[2] >= w.y /\ mouse[2] < w.y + w.h
    BY <1>2 DEF Over, Inside
  <2> HIDE DEF w
  <2>4. w.x + w.w > 0 /\ w.y + w.h > 0 /\ w.x < screen_w /\ w.y < tb_y
    <3>1. \A m, x, n : m \in 0 .. 1023 /\ x \in Int /\ n \in Int /\ m >= x /\ m < x + n
                          => x + n > 0 /\ x < 1024
      OBVIOUS
    <3>2. \A m, x, n : m \in 0 .. 767 /\ x \in Int /\ n \in Int /\ m >= x /\ m < x + n /\ m < 732
                          => x + n > 0 /\ x < 732
      OBVIOUS
    <3>3. tb_y = 732 /\ screen_w = 1024
      BY DEF screen_w, tb_y, screen_h, WM_TASKBAR_H
    <3> QED
      BY ONLY <2>1, <2>2, <2>3, <3>1, <3>2, <3>3
  <2> QED
    BY <2>1, <2>4 DEF InView, Frame, w
<1>5. win'[s].flags = win[s].flags
  BY <1>1, <1>2, RaiseKeeps DEF StackInv
<1>6. AllFit(win')
  BY <1>1, <1>2, RaiseFits DEF StackInv
<1> QED
  BY <1>3, <1>4, <1>5, <1>6, <1>7

LEMMA FrameKept == FrameInv /\ [Next]_vars => FrameInv'
<1> SUFFICES ASSUME FrameInv, [Next]_vars PROVE FrameInv'
  OBVIOUS
<1>1. IInv'
  BY StepKeeps DEF FrameInv
<1>2. CASE UNCHANGED <<win, grab>>
  BY <1>1, <1>2 DEF FrameInv
<1>3. CASE Poll \/ ResizeStep \/ WindowClick
  BY <1>1, <1>3, PollFits, ResizeFits, ClickFits DEF FrameInv
<1>4. CASE ResizeEnd
  BY <1>1, <1>4 DEF ResizeEnd, NoGrab, stack, FrameInv
<1>5. CASE DragStep
  <2>1. grab'.kind # "resize"
    <3>1. grab \in [kind : {"move"}, slot : Slots, off_x : Nat, off_y : 0 .. WM_TITLEBAR_H - 1]
      BY <1>5 DEF FrameInv, IInv, GrabInv, DragStep, MoveGrab
    <3>2. grab' = grab \/ grab' = NoGrab \/ \E n : grab' = HungByTitle(grab, n)
      BY <1>5 DEF DragStep
    <3>3. grab.kind # "resize" /\ NoGrab.kind # "resize"
      BY <3>1 DEF NoGrab
    <3>4. \A a, b : [grab EXCEPT !.off_x = a, !.off_y = b].kind # "resize"
      BY <3>1
    <3> QED
      BY ZenonT(30), <3>2, <3>3, <3>4 DEF HungByTitle
  <2> QED
    BY <1>1, <1>5, <2>1, DragFits DEF FrameInv
<1>6. CASE TaskbarClick \/ ButtonClick \/ MenuClick \/ IconClick \/ TerminalKey \/ TabKey
  <2>1. grab' = grab /\ pc \in {"click", "keys"}
    BY <1>6 DEF TaskbarClick, ButtonClick, MenuClick, IconClick, TerminalKey, TabKey, Click
  <2>2. grab'.kind # "resize"
    BY <2>1, ClickFacts DEF FrameInv
  <2>3. AllFit(win')
    BY <1>6, TaskbarFits, ButtonFits, CreationsFit, KeysFit
  <2> QED
    BY <1>1, <2>2, <2>3 DEF FrameInv
<1> QED
  BY <1>2, <1>3, <1>4, <1>5, <1>6
     DEF vars, stack, Next, Act, ClickNothing, IgnoredKey, KeysDone

(* Whatever way a window came to its frame, its buffer has the size that   *)
(* belongs to it, and one marked maximised fills the desktop.              *)
THEOREM FramesStayInStep == Spec => []FramesInStep
<1>1. FrameInv => FramesInStep
  <2> SUFFICES ASSUME FrameInv, NEW s \in Slots, Live(s)
               PROVE  /\ wm_update_surface_size(win[s]) = win[s]
                      /\ "MAXIMIZED" \in win[s].flags => Frame(win[s]) = Desktop
    BY DEF FramesInStep, Desktop
  <2>1. win[s] \in Win
    BY LiveIsWin DEF Live, FrameInv, IInv, StackInv
  <2>2. Fits(win[s])
    BY <2>1 DEF FrameInv, AllFit
  <2>3. wm_update_surface_size(win[s]) = win[s]
    <3> DEFINE w == win[s]
    <3>1. wm_update_surface_size(w) = [w EXCEPT !.surface_w = w.surface_w, !.surface_h = w.surface_h]
      BY <2>2 DEF wm_update_surface_size, Fits
    <3> HIDE DEF w
    <3>2. [w EXCEPT !.surface_w = w.surface_w, !.surface_h = w.surface_h] = w
      BY <2>1 DEF Win, w
    <3> QED
      BY <3>1, <3>2 DEF w
  <2> QED
    BY <2>2, <2>3 DEF Fits
<1> QED
  BY <1>1, FrameInit, FrameKept, PTL DEF Spec

-----------------------------------------------------------------------------
(***************************************************************************)
(* The stack.  No two windows stand at the same height, so that every      *)
(* order in which compose() may paint them has the same window last at a   *)
(* point, the one that hit_test() finds.                                   *)
(***************************************************************************)
LEMMA HitIsPainted ==
  ASSUME StackInv, NEW p
  PROVE  PaintedLast(p) = {hit_test(p)} \ {0}
<1> DEFINE at == {s \in Slots : Shown(s) /\ Over(s, p)}
<1>1. hit_test(p) = IF at = {} THEN 0
                    ELSE CHOOSE s \in at : \A r \in at \ {s} :
                           win[r].z < win[s].z \/ (win[r].z = win[s].z /\ s < r)
  BY DEF hit_test
<1>2. PaintedLast(p) = {s \in at : \A r \in at : win[r].z <= win[s].z}
  BY DEF PaintedLast
<1>3. at \in SUBSET Slots
  OBVIOUS
<1>4. \A s \in at : win[s] \in Win /\ win[s].z \in Nat /\ win[s].z < top_z
  <2>1. \A s \in at : win[s].flags # {}
    BY DEF Shown
  <2>2. \A s \in at : win[s] \in Win /\ win[s].z < top_z
    BY <2>1, LiveIsWin DEF StackInv
  <2> QED
    BY <2>2 DEF Win
<1> HIDE DEF at
<1>5. CASE at = {}
  BY <1>1, <1>2, <1>5
<1>6. CASE at # {}
  <2>1. \E s \in at : \A r \in at \ {s} : win[r].z < win[s].z \/ (win[r].z = win[s].z /\ s < r)
    BY <1>3, <1>4, <1>6, TopmostExists DEF StackInv
  <2>2. PICK s \in at : /\ s = hit_test(p)
                        /\ \A r \in at \ {s} : win[r].z < win[s].z \/ (win[r].z = win[s].z /\ s < r)
    BY <1>1, <1>6, <2>1
  <2>3. \A r \in at \ {s} : win[r].z # win[s].z
    BY <1>3, <1>4 DEF StackInv, Apart
  <2>4. \A r \in at \ {s} : win[r].z < win[s].z
    BY <2>2, <2>3
  <2>5. s # 0
    BY <1>3 DEF Slots
  <2>6. s \in PaintedLast(p)
    BY <1>2, <1>4, <2>4
  <2>7. ASSUME NEW r \in at, r # s PROVE r \notin PaintedLast(p)
    BY <1>2, <1>4, <2>4, <2>7
  <2> QED
    BY <1>2, <2>2, <2>5, <2>6, <2>7
<1> QED
  BY <1>5, <1>6

(* What TypeOK adds to the invariants above.  A click has the room in the  *)
(* stack that the poll before it has seen.                                 *)
Bounded ==
  /\ top_z <= MaxZ
  /\ pc = "click" => top_z < MaxZ
  /\ start_menu_open \in BOOLEAN /\ changed \in BOOLEAN /\ stale \in BOOLEAN
  /\ fm_scroll \in Nat
  /\ pc \in {"poll", "act", "click", "drag", "keys", "off"}
  /\ pc = "drag" => btn

WholeInv == FocusInv /\ FrameInv /\ Bounded

(* One more window raised at the most, where there is room for it.         *)
LEMMA HeightKept ==
  ASSUME WholeInv, [Next]_vars
  PROVE  top_z' = top_z \/ (top_z' = top_z + 1 /\ top_z < MaxZ /\ pc' # "click")
<1>1. CASE UNCHANGED top_z
  BY <1>1
<1>2. CASE ~UNCHANGED top_z
  <2>1. TaskbarClick \/ ButtonClick \/ MenuClick \/ IconClick \/ WindowClick \/ TabKey
    BY <1>2 DEF vars, stack, Next, Act, Poll, ResizeStep, ResizeEnd, ClickNothing, DragStep,
                TerminalKey, IgnoredKey, KeysDone
  <2>2. top_z < MaxZ
    BY <2>1 DEF WholeInv, Bounded, TaskbarClick, ButtonClick, MenuClick, IconClick, WindowClick,
                Click, TabKey
  <2>3. top_z' = top_z + 1
    <3>1. \A app, x, y : wm_create(app, x, y) => top_z' \in {top_z, top_z + 1}
      BY DEF wm_create, stack
    <3>2. \A ws, s : Raise(ws, s) => top_z' = top_z + 1
      BY DEF Raise
    <3>3. \A s : wm_minimize(s) \/ wm_destroy(s) \/ wm_maximize(s) => top_z' = top_z
      BY DEF wm_minimize, wm_destroy, wm_maximize
    <3>4. CASE MenuClick \/ IconClick
      BY <1>2, <3>1, <3>4 DEF MenuClick, IconClick, stack
    <3>5. CASE WindowClick \/ TabKey
      BY <1>2, <3>2, <3>5 DEF WindowClick, TabKey
    <3>6. CASE TaskbarClick
      BY <1>2, <3>2, <3>3, <3>6 DEF TaskbarClick, stack
    <3>7. CASE ButtonClick
      <4> DEFINE s == hit_test(mouse)
                 button == ButtonAt(s, mouse)
      <4>1. button # "none" /\ (CASE button = "close" -> wm_destroy(s)
                                  [] button = "maximize" -> wm_maximize(s)
                                  [] button = "minimize" -> wm_minimize(s))
        BY <3>7 DEF ButtonClick
      <4>2. button \in {"close", "maximize", "minimize"}
        BY <4>1 DEF ButtonAt
      <4> HIDE DEF button, s
      <4>3. wm_destroy(s) \/ wm_maximize(s) \/ wm_minimize(s)
        BY <4>1, <4>2
      <4> QED
        BY <1>2, <3>3, <4>3
    <3> QED
      BY <2>1, <3>4, <3>5, <3>6, <3>7
  <2>4. pc' # "click"
    BY <2>1 DEF WholeInv, FocusInv, IInv, GrabInv, TaskbarClick, ButtonClick, MenuClick, IconClick,
                WindowClick, Click, TabKey, NextIteration
  <2> QED
    BY <2>2, <2>3, <2>4
<1> QED
  BY <1>1, <1>2

LEMMA ScrollTyped ==
  ASSUME FrameInv, fm_scroll \in Nat, NEW delta \in Scrolls, Scroll(delta)
  PROVE  fm_scroll' \in Nat
<1> DEFINE f == find_window(focused_id)
<1>1. CASE fm_scroll' = fm_scroll
  BY <1>1
<1>2. CASE fm_scroll' # fm_scroll
  <2>1. /\ f # 0 /\ FmContentHeight > win[f].surface_h
        /\ fm_scroll' = AtMost(AtLeast(fm_scroll - delta * 6, 0),
                               FmContentHeight - win[f].surface_h)
    BY <1>2 DEF Scroll
  <2>2. win[f].surface_h \in Int
    BY <2>1, FindWindow, LiveIsWin DEF Live, FrameInv, IInv, StackInv, Win
  <2>3. delta \in Int /\ FmContentHeight \in Int
    BY ScrollsAssumption DEF FmContentHeight
  <2> HIDE DEF f
  <2>4. fm_scroll - delta * 6 \in Int
    BY <2>3
  <2> QED
    BY <2>1, <2>2, <2>3, <2>4 DEF AtMost, AtLeast
<1> QED
  BY <1>1, <1>2

LEMMA BoundedKept ==
  ASSUME WholeInv, [Next]_vars
  PROVE  Bounded'
<1> USE DEF Bounded
<1>1. top_z' <= MaxZ /\ (pc' = "click" => top_z' < MaxZ)
  <2>1. top_z \in Nat /\ MaxZ \in Nat /\ top_z <= MaxZ
    BY MaxZAssumption DEF WholeInv, FocusInv, IInv, StackInv
  <2>2. pc' = "click" => top_z < MaxZ
    BY DEF WholeInv, vars, Next, Act, Poll, ResizeStep, ResizeEnd, ClickNothing, DragStep,
           TerminalKey, IgnoredKey, KeysDone, TaskbarClick, ButtonClick, MenuClick, IconClick,
           WindowClick, Click, TabKey, NextIteration
  <2> QED
    BY <2>1, <2>2, HeightKept
<1>2. fm_scroll' \in Nat
  <2>1. fm_scroll \in Nat
    BY DEF WholeInv
  <2>2. CASE Poll
    BY <2>1, <2>2, ScrollTyped DEF Poll, WholeInv
  <2>3. \A app, x, y : wm_create(app, x, y) => fm_scroll' \in {0, fm_scroll}
    BY DEF wm_create
  <2>4. CASE MenuClick \/ IconClick
    BY <2>1, <2>3, <2>4 DEF MenuClick, IconClick
  <2> QED
    BY <2>1, <2>2, <2>4 DEF vars, Next, Act, ResizeStep, ResizeEnd, ClickNothing, DragStep,
           TerminalKey, IgnoredKey, KeysDone, TaskbarClick, ButtonClick, WindowClick, TabKey
<1>3. start_menu_open' \in BOOLEAN
  <2>1. TaskbarClick => start_menu_open' \in BOOLEAN
    BY DEF TaskbarClick
  <2> QED
    BY <2>1 DEF WholeInv, vars, Next, Act, Poll, ResizeStep, ResizeEnd, ClickNothing, DragStep,
           TerminalKey, IgnoredKey, KeysDone, ButtonClick, MenuClick, IconClick, WindowClick, TabKey
<1>4. changed' \in BOOLEAN
  <2>1. Poll => changed' \in BOOLEAN
    BY DEF Poll
  <2> QED
    BY <2>1 DEF WholeInv, vars, Next, Act, ResizeStep, ResizeEnd, ClickNothing, DragStep,
           TerminalKey, IgnoredKey, KeysDone, TaskbarClick, ButtonClick, MenuClick, IconClick,
           WindowClick, TabKey, NextIteration
<1>5. stale' \in BOOLEAN
  <2>1. NotComposed => stale' \in BOOLEAN
    BY DEF NotComposed
  <2>2. Compose => stale' \in BOOLEAN
    BY DEF Compose
  <2> QED
    BY <2>1, <2>2 DEF WholeInv, vars, Next, Act, Poll, ResizeStep, ResizeEnd, ClickNothing, DragStep,
           TerminalKey, IgnoredKey, KeysDone, TaskbarClick, ButtonClick, MenuClick, IconClick,
           WindowClick, TabKey, NextIteration
<1>6. pc' \in {"poll", "act", "click", "drag", "keys", "off"} /\ (pc' = "drag" => btn')
  <2>1. btn \in BOOLEAN /\ (pc = "click" => btn)
    BY DEF WholeInv, FocusInv, IInv, PointerInv, GrabInv
  <2>2. CASE Poll
    BY <2>2 DEF Poll
  <2>3. CASE DragStep
    BY <2>3 DEF DragStep
  <2>4. CASE WindowClick
    BY <2>1, <2>4 DEF WindowClick, Click, input, NextIteration
  <2>5. CASE UNCHANGED <<pc, btn>>
    BY <2>5 DEF WholeInv
  <2> QED
    BY <2>2, <2>3, <2>4, <2>5 DEF WholeInv, vars, input, Next, Act, ResizeStep, ResizeEnd,
           ClickNothing, TerminalKey, IgnoredKey, KeysDone, TaskbarClick, ButtonClick, MenuClick,
           IconClick, TabKey, NextIteration
<1> QED
  BY <1>1, <1>2, <1>3, <1>4, <1>5, <1>6

LEMMA WholeTyped == WholeInv => TypeOK
<1> SUFFICES ASSUME WholeInv PROVE TypeOK
  OBVIOUS
<1>1. ASSUME NEW s \in Slots PROVE win[s] = NoWindow \/ win[s] \in Window
  <2>1. win[s] = NoWindow \/ win[s] \in Win
    BY DEF WholeInv, FocusInv, IInv, StackInv, Tables
  <2>2. CASE win[s] \in Win
    <3> DEFINE w == win[s]
    <3>1. w \in Win /\ Fits(w)
      BY <2>2 DEF WholeInv, FrameInv, AllFit
    <3> HIDE DEF w
    <3>2. w.surface_w \in 0 .. 480 /\ w.surface_h \in 0 .. 300
      BY <3>1 DEF Fits, UnsignedAtMost
    <3>3. w.prev \in [x : Int, y : Nat, w : Nat, h : Nat]
      BY <3>1 DEF Fits, Stands, Win, Old
    <3>4. /\ w.id \in Nat \ {0} /\ w.y \in Nat /\ w.w \in Nat \ {0} /\ w.h \in Nat \ {0}
          /\ w.flags \in SUBSET {"VISIBLE", "DECORATED", "MINIMIZED", "MAXIMIZED"}
      BY <3>1 DEF Fits, Stands, Win, Flags
    <3>5. w \in Window
      BY <3>1, <3>2, <3>3, <3>4 DEF Win, Window
    <3> QED
      BY <3>5 DEF w
  <2> QED
    BY <2>1, <2>2
<1>2. top_z \in 0 .. MaxZ
  BY MaxZAssumption DEF WholeInv, Bounded, FocusInv, IInv, StackInv
<1> QED
  BY <1>1, <1>2 DEF TypeOK, WholeInv, Bounded, FocusInv, IInv, StackInv, Crowned, PointerInv, GrabInv

(* For any number of windows, whatever is clicked, dragged or typed: the   *)
(* variables have their types, no window is without a size or has its      *)
(* title above the screen, the window that is seen at a point is the one   *)
(* that a click there goes to, and the window on top has the focus.        *)
THEOREM StackStaysInOrder == Spec => []StackInOrder
<1>1. Init => WholeInv
  <2>1. ASSUME Init PROVE Bounded
    <3>1. /\ top_z = 3 /\ start_menu_open = FALSE /\ changed = FALSE /\ stale = TRUE
          /\ fm_scroll = 0 /\ pc = "poll"
      BY <2>1 DEF Init
    <3> QED
      BY ONLY <3>1, MaxZAssumption DEF Bounded
  <2> QED
    BY <2>1, InitHolds, CrownedInit, FrameInit DEF WholeInv, FocusInv
<1>2. WholeInv /\ [Next]_vars => WholeInv'
  BY FocusKept, FrameKept, BoundedKept DEF WholeInv
<1>3. WholeInv => StackInOrder
  BY FocusShows, WholeTyped, HitIsPainted DEF StackInOrder, WholeInv, FocusInv, IInv
<1> QED
  BY <1>1, <1>2, <1>3, PTL DEF Spec

-----------------------------------------------------------------------------
(***************************************************************************)
(* A terminal in its window.  Whatever is written, the cursor stays on the *)
(* grid; the line is kept with its terminator behind it by every key, and  *)
(* the ring of history, until it comes round, holds the lines entered.     *)
(***************************************************************************)
(* Every number up to N is in a set that 0 is in and that is closed under  *)
(* one more.                                                               *)
LEMMA UpTo ==
  ASSUME NEW N \in Nat, NEW S, 0 \in S, \A n \in 0 .. N : n \in S /\ n < N => n + 1 \in S
  PROVE  0 .. N \subseteq S
<1> DEFINE Out == {n \in 0 .. N : n \notin S}
<1>1. SUFFICES ASSUME Out # {} PROVE FALSE
  OBVIOUS
<1>2. PICK x \in Out : \A y \in Out : x <= y
  <2>1. Out \subseteq Nat
    OBVIOUS
  <2> HIDE DEF Out
  <2> QED
    BY <1>1, <2>1, Least
<1>3. x \in 1 .. N
  OBVIOUS
<1>4. x - 1 \in S
  BY <1>2, <1>3
<1> QED
  BY <1>3, <1>4

(* A cursor on a grid.                                                     *)
Grid(t, s) ==
  /\ t \in [cols : Nat, rows : Nat, col : Nat, row : Nat, esc : BOOLEAN]
  /\ t.cols = s[1] /\ t.rows = s[2] /\ t.col < t.cols /\ t.row < t.rows

Surface(s) == s \in Nat \X Nat /\ s[1] > 0 /\ s[2] > 0

ScreenInv == size \in Sizes /\ Grid(OnScreen, size) /\ ~ansi_escaped

Line == {s \in Seq(Chars) : Len(s) < TERM_MAX_LINE}

(* The line and its terminator.  Behind a restart the line is empty, and   *)
(* the buffer may begin with anything.                                     *)
LineInv ==
  /\ line_buf \in [Index -> Chars \cup {NUL}]
  /\ line_len \in Index /\ line_cursor \in 0 .. line_len
  /\ \A i \in Index : i < line_len => line_buf[i] \in Chars
  /\ line_len > 0 => line_buf[line_len] = NUL
  /\ \E i \in Index : line_buf[i] = NUL

(* Until the ring comes round, it holds the lines entered in their order.  *)
RingInv ==
  /\ history \in [0 .. TERM_MAX_HISTORY - 1 -> Line]
  /\ history_count \in 0 .. TERM_MAX_HISTORY
  /\ history_idx \in -1 .. history_count - 1
  /\ entered \in Seq(Line)
  /\ Len(entered) < TERM_MAX_HISTORY =>
       /\ history_count = Len(entered)
       /\ \A k \in 0 .. history_count - 1 : history[k] = entered[k + 1]

TermIInv ==
  /\ surface \in Sizes /\ needs_surface_clear \in BOOLEAN
  /\ ScreenInv /\ LineInv /\ RingInv

LEMMA SizesAreSurfaces == \A s \in Sizes : Surface(s) /\ s = <<s[1], s[2]>>
BY TermSizesAssumption DEF Surface

LEMMA NewlineGrid ==
  ASSUME NEW s, Surface(s), NEW t, Grid(t, s)
  PROVE  Grid(term_newline(t), s) /\ term_newline(t).esc = t.esc
<1> DEFINE row == IF t.row + 1 >= t.rows THEN t.rows - 1 ELSE t.row + 1
<1>1. term_newline(t) = [t EXCEPT !.col = 0, !.row = row]
  BY DEF term_newline
<1>2. row \in Nat /\ row < t.rows /\ 0 < t.cols
  BY DEF Surface, Grid
<1> HIDE DEF row
<1> DEFINE u == [t EXCEPT !.col = 0, !.row = row]
<1>3. u \in [cols : Nat, rows : Nat, col : Nat, row : Nat, esc : BOOLEAN]
  BY <1>2 DEF Grid
<1>4. u.cols = t.cols /\ u.rows = t.rows /\ u.col = 0 /\ u.row = row
  BY <1>2 DEF Grid
<1>5. u.esc = t.esc
  BY DEF Grid
<1> HIDE DEF u
<1>6. t.cols = s[1] /\ t.rows = s[2]
  BY DEF Grid
<1>7. Grid(u, s)
  BY <1>2, <1>3, <1>4, <1>6 DEF Grid
<1> QED
  BY <1>1, <1>5, <1>7 DEF u

LEMMA AdvanceGrid ==
  ASSUME NEW s, Surface(s), NEW t, Grid(t, s)
  PROVE  Grid(term_advance(t), s) /\ term_advance(t).esc = t.esc
<1>1. CASE t.col + 1 >= t.cols
  BY <1>1, NewlineGrid DEF term_advance
<1>2. CASE ~(t.col + 1 >= t.cols)
  BY <1>2 DEF Grid, term_advance
<1> QED
  BY <1>1, <1>2

LEMMA TabGrid ==
  ASSUME NEW s, Surface(s), NEW t, Grid(t, s), ~t.esc
  PROVE  Grid(term_parse_byte(t, "tab"), s) /\ ~term_parse_byte(t, "tab").esc
<1> DEFINE Is(g) == g = [n \in 0 .. 8 |-> IF n = 0 THEN t ELSE term_advance(g[n - 1])]
           g == CHOOSE h : Is(h)
           S == {n \in 0 .. 8 : Grid(g[n], s) /\ ~g[n].esc}
<1>1. term_parse_byte(t, "tab") = g[8 - (t.col % 8)]
  BY DEF term_parse_byte
<1>2. \E h : Is(h)
  <2> DEFINE a1 == term_advance(t)
             a2 == term_advance(a1)
             a3 == term_advance(a2)
             a4 == term_advance(a3)
             a5 == term_advance(a4)
             a6 == term_advance(a5)
             a7 == term_advance(a6)
             a8 == term_advance(a7)
             h == [n \in 0 .. 8 |-> CASE n = 0 -> t [] n = 1 -> a1 [] n = 2 -> a2 [] n = 3 -> a3
                                      [] n = 4 -> a4 [] n = 5 -> a5 [] n = 6 -> a6
                                      [] n = 7 -> a7 [] n = 8 -> a8]
  <2>1. Is(h)
    OBVIOUS
  <2> QED
    BY <2>1
<1>3. Is(g)
  BY <1>2
<1>4. \A n \in 0 .. 8 : g[n] = IF n = 0 THEN t ELSE term_advance(g[n - 1])
  BY <1>3
<1> HIDE DEF g
<1>5. 0 \in S
  BY <1>4
<1>6. \A n \in 0 .. 8 : n \in S /\ n < 8 => n + 1 \in S
  BY <1>4, AdvanceGrid
<1>7. 8 - (t.col % 8) \in 0 .. 8
  BY DEF Grid
<1> QED
  <2>1. 0 .. 8 \subseteq S
    <3> HIDE DEF S
    <3> QED
      BY <1>5, <1>6, UpTo
  <2> QED
    BY <1>1, <1>7, <2>1

(* One byte: the cursor stays on the grid, and the escape state is known.  *)
LEMMA ByteGrid ==
  ASSUME NEW s, Surface(s), NEW t, Grid(t, s), NEW b
  PROVE  /\ Grid(term_parse_byte(t, b), s)
         /\ term_parse_byte(t, b).esc = IF t.esc THEN b = "bracket" ELSE b = "esc"
<1>1. CASE t.esc
  BY <1>1 DEF Grid, term_parse_byte
<1>2. CASE ~t.esc /\ b = "esc"
  BY <1>2 DEF Grid, term_parse_byte
<1>3. CASE ~t.esc /\ b \in {"newline", "return"}
  <2>1. term_parse_byte(t, b) = term_newline(t)
    BY <1>3 DEF term_parse_byte
  <2>2. Grid(term_newline(t), s) /\ term_newline(t).esc = t.esc
    BY NewlineGrid
  <2>3. t.esc = FALSE
    BY <1>3 DEF Grid
  <2>4. b # "esc"
    BY <1>3
  <2> QED
    BY <2>1, <2>2, <2>3, <2>4
<1>4. CASE ~t.esc /\ b = "tab"
  <2>1. Grid(term_parse_byte(t, b), s) /\ ~term_parse_byte(t, b).esc
    BY <1>4, TabGrid
  <2>2. term_parse_byte(t, b).esc \in BOOLEAN
    BY <2>1 DEF Grid
  <2> QED
    BY <1>4, <2>1, <2>2
<1>5. CASE ~t.esc /\ b = "backspace"
  BY <1>5 DEF Grid, term_parse_byte
<1>6. CASE ~t.esc /\ b \notin {"esc", "newline", "return", "tab", "backspace"}
  <2>1. term_parse_byte(t, b) = term_advance(t)
    BY <1>6 DEF term_parse_byte
  <2>2. Grid(term_advance(t), s) /\ term_advance(t).esc = t.esc
    BY AdvanceGrid
  <2>3. t.esc = FALSE
    BY <1>6 DEF Grid
  <2>4. b # "esc"
    BY <1>6
  <2> QED
    BY <2>1, <2>2, <2>3, <2>4
<1> QED
  BY <1>1, <1>2, <1>3, <1>4, <1>5, <1>6

(* A write passes from grid to grid, byte by byte: the states between the  *)
(* bytes of a text that is written.                                        *)
WroteBy(g, t, bytes) ==
  /\ g[0] = t
  /\ \A n \in 1 .. Len(bytes) : g[n] = term_parse_byte(g[n - 1], bytes[n])
  /\ terminal_write(t, bytes) = g[Len(bytes)]

LEMMA WriteSteps ==
  ASSUME NEW t, NEW bytes, Len(bytes) \in Nat
  PROVE  \E g : WroteBy(g, t, bytes)
<1> DEFINE N == Len(bytes)
           Is(g, m) == g = [n \in 0 .. m |-> IF n = 0 THEN t ELSE term_parse_byte(g[n - 1], bytes[n])]
           S == {m \in 0 .. N : \E g : Is(g, m)}
           f == CHOOSE g : Is(g, N)
<1>1. terminal_write(t, bytes) = f[N]
  BY DEF terminal_write
<1>2. N \in Nat /\ 0 \in 0 .. N /\ N \in 0 .. N
  OBVIOUS
<1> HIDE DEF N
<1>3. 0 \in S
  <2> DEFINE g == [n \in 0 .. 0 |-> t]
  <2>1. Is(g, 0)
    OBVIOUS
  <2> HIDE DEF Is, g
  <2> QED
    BY <1>2, <2>1
<1>4. ASSUME NEW m \in 0 .. N, m \in S, m < N
      PROVE  m + 1 \in S
  <2>1. PICK g : Is(g, m)
    BY <1>4
  <2> DEFINE p(u, n) == term_parse_byte(u, bytes[n])
             h == [n \in 0 .. m + 1 |-> IF n <= m THEN g[n] ELSE p(g[m], m + 1)]
  <2>2. \A n \in 0 .. m : g[n] = IF n = 0 THEN t ELSE p(g[n - 1], n)
    BY <2>1
  <2> HIDE DEF p
  <2>3. \A n \in 0 .. m + 1 : h[n] = IF n = 0 THEN t ELSE p(h[n - 1], n)
    <3> SUFFICES ASSUME NEW n \in 0 .. m + 1
                 PROVE  h[n] = IF n = 0 THEN t ELSE p(h[n - 1], n)
      OBVIOUS
    <3>1. CASE n = 0
      BY <2>2, <3>1
    <3>2. CASE n \in 1 .. m
      <4>1. h[n] = g[n] /\ h[n - 1] = g[n - 1] /\ n \in 0 .. m /\ n # 0
        BY <3>2
      <4> HIDE DEF h
      <4> QED
        BY <2>2, <4>1
    <3>3. CASE n = m + 1
      <4>1. h[n] = p(g[m], m + 1) /\ h[n - 1] = g[m] /\ n # 0
        BY <3>3
      <4> HIDE DEF h
      <4> QED
        BY <3>3, <4>1
    <3> QED
      BY <3>1, <3>2, <3>3
  <2>4. Is(h, m + 1)
    <3>1. h = [n \in 0 .. m + 1 |-> h[n]]
      OBVIOUS
    <3> HIDE DEF h
    <3> QED
      BY <2>3, <3>1 DEF p
  <2>5. m + 1 \in 0 .. N
    BY <1>2, <1>4
  <2> HIDE DEF Is, h
  <2> QED
    BY <2>4, <2>5
<1>5. N \in S
  <2> HIDE DEF S
  <2>1. 0 .. N \subseteq S
    BY <1>2, <1>3, <1>4, UpTo
  <2> QED
    BY <1>2, <2>1
<1>6. Is(f, N)
  <2> HIDE DEF Is
  <2> QED
    BY <1>5
<1> HIDE DEF f
<1>7. f[0] = t /\ \A n \in 1 .. N : f[n] = term_parse_byte(f[n - 1], bytes[n])
  <2>1. \A n \in 0 .. N : f[n] = IF n = 0 THEN t ELSE term_parse_byte(f[n - 1], bytes[n])
    BY <1>6
  <2> QED
    BY <1>2, <2>1
<1> QED
  BY <1>1, <1>7 DEF N, WroteBy

LEMMA WriteGrid ==
  ASSUME NEW s, Surface(s), NEW t, Grid(t, s), NEW bytes, Len(bytes) \in Nat,
         NEW g, g[0] = t,
         \A n \in 1 .. Len(bytes) : g[n] = term_parse_byte(g[n - 1], bytes[n])
  PROVE  \A n \in 0 .. Len(bytes) : Grid(g[n], s)
<1> DEFINE N == Len(bytes)
           S == {n \in 0 .. N : Grid(g[n], s)}
<1>1. 0 \in S
  OBVIOUS
<1>2. \A n \in 0 .. N : n \in S /\ n < N => n + 1 \in S
  <2> SUFFICES ASSUME NEW n \in 0 .. N, Grid(g[n], s), n < N
               PROVE  Grid(g[n + 1], s) /\ n + 1 \in 0 .. N
    OBVIOUS
  <2>1. g[n + 1] = term_parse_byte(g[n], bytes[n + 1])
    OBVIOUS
  <2> QED
    BY <2>1, ByteGrid
<1> HIDE DEF S
<1>3. 0 .. N \subseteq S
  BY <1>1, <1>2, UpTo
<1> QED
  BY <1>3 DEF S

(* Text that opens no escape sequence leaves none open.                    *)
LEMMA TextWritten ==
  ASSUME NEW s, Surface(s), NEW t, Grid(t, s), ~t.esc, NEW bytes, Len(bytes) \in Nat,
         \A n \in 1 .. Len(bytes) : bytes[n] # "esc"
  PROVE  Grid(terminal_write(t, bytes), s) /\ ~terminal_write(t, bytes).esc
<1>0. PICK g : WroteBy(g, t, bytes)
  BY WriteSteps
<1>1. /\ g[0] = t
      /\ \A n \in 1 .. Len(bytes) : g[n] = term_parse_byte(g[n - 1], bytes[n])
      /\ terminal_write(t, bytes) = g[Len(bytes)]
  BY <1>0 DEF WroteBy
<1>2. \A n \in 0 .. Len(bytes) : Grid(g[n], s)
  BY <1>1, WriteGrid
<1> DEFINE N == Len(bytes)
           S == {n \in 0 .. N : ~g[n].esc}
<1>3. 0 \in S
  BY <1>1
<1>4. \A n \in 0 .. N : n \in S /\ n < N => n + 1 \in S
  <2> SUFFICES ASSUME NEW n \in 0 .. N, ~g[n].esc, n < N
               PROVE  ~g[n + 1].esc /\ n + 1 \in 0 .. N
    OBVIOUS
  <2>1. g[n + 1] = term_parse_byte(g[n], bytes[n + 1]) /\ n + 1 \in 1 .. N
    BY <1>1
  <2>2. g[n].esc = FALSE
    BY <1>2 DEF Grid
  <2>3. g[n + 1].esc = (bytes[n + 1] = "esc")
    BY <1>2, <2>1, <2>2, ByteGrid
  <2>4. bytes[n + 1] # "esc"
    BY <2>1
  <2>5. g[n + 1].esc = FALSE
    BY <2>3, <2>4
  <2> QED
    BY <2>1, <2>5
<1> HIDE DEF S
<1>5. 0 .. N \subseteq S
  BY <1>3, <1>4, UpTo
<1> QED
  BY <1>1, <1>2, <1>5 DEF S

(* Text that ends with a character leaves none open, whatever comes in     *)
(* front of it.                                                            *)
LEMMA ClosedWritten ==
  ASSUME NEW s, Surface(s), NEW t, Grid(t, s), NEW bytes, Len(bytes) \in Nat,
         Len(bytes) > 0, bytes[Len(bytes)] = "char"
  PROVE  Grid(terminal_write(t, bytes), s) /\ ~terminal_write(t, bytes).esc
<1>0. PICK g : WroteBy(g, t, bytes)
  BY WriteSteps
<1>1. /\ g[0] = t
      /\ \A n \in 1 .. Len(bytes) : g[n] = term_parse_byte(g[n - 1], bytes[n])
      /\ terminal_write(t, bytes) = g[Len(bytes)]
  BY <1>0 DEF WroteBy
<1>2. \A n \in 0 .. Len(bytes) : Grid(g[n], s)
  BY <1>1, WriteGrid
<1> DEFINE N == Len(bytes)
<1>3. N - 1 \in 0 .. N /\ N \in 1 .. N /\ N \in 0 .. N
  OBVIOUS
<1>4. g[N] = term_parse_byte(g[N - 1], "char")
  BY <1>1, <1>3
<1>5. Grid(g[N - 1], s)
  BY <1>2, <1>3
<1>6. g[N].esc = IF g[N - 1].esc THEN "char" = "bracket" ELSE "char" = "esc"
  BY <1>4, <1>5, ByteGrid
<1>7. ~g[N].esc
  BY <1>6
<1> QED
  BY <1>1, <1>2, <1>3, <1>7

-----------------------------------------------------------------------------
LEMMA BlankGrid ==
  ASSUME NEW s \in Sizes
  PROVE  Grid(Blank(s), s) /\ ~Blank(s).esc
BY SizesAreSurfaces DEF Surface, Grid, Blank

(* What is shown for a grid of the size the screen has.                    *)
LEMMA ShowKeeps ==
  ASSUME NEW s \in Sizes, NEW t, Grid(t, s), ~t.esc, Show(t)
  PROVE  ScreenInv'
<1>1. size' = s /\ s = <<s[1], s[2]>>
  BY SizesAreSurfaces DEF Show, Grid
<1>2. cursor'[1] = t.col /\ cursor'[2] = t.row /\ ansi_escaped' = t.esc
  BY DEF Show
<1>3. t.esc \in BOOLEAN
  BY DEF Grid
<1>4. OnScreen' = [cols |-> t.cols, rows |-> t.rows, col |-> t.col, row |-> t.row, esc |-> t.esc]
  BY <1>1, <1>2 DEF OnScreen, Grid
<1>5. Grid(OnScreen', s)
  BY <1>3, <1>4 DEF Grid
<1> QED
  BY <1>1, <1>2, <1>5 DEF ScreenInv

LEMMA TextLen == \A n \in Nat : Text(n) \in Seq({"char"}) /\ Len(Text(n)) = n
BY DEF Text

LEMMA RedrawKeeps ==
  ASSUME ScreenInv, NEW n \in Nat, Show(Redrawn(OnScreen, n))
  PROVE  ScreenInv'
<1> DEFINE text == <<"return">> \o Text(n + 2)
<1>1. Text(n + 2) \in Seq({"char"}) /\ Len(Text(n + 2)) = n + 2
  BY TextLen
<1>2. text \in Seq({"return", "char"})
  BY <1>1
<1>3. Len(text) \in Nat /\ \A i \in 1 .. Len(text) : text[i] # "esc"
  BY <1>2
<1> HIDE DEF text
<1>4. Surface(size) /\ Grid(OnScreen, size) /\ ~OnScreen.esc
  BY SizesAreSurfaces DEF ScreenInv, OnScreen
<1>5. Grid(terminal_write(OnScreen, text), size) /\ ~terminal_write(OnScreen, text).esc
  BY <1>3, <1>4, TextWritten
<1>6. Show(terminal_write(OnScreen, text))
  BY DEF Redrawn, text
<1> QED
  BY <1>5, <1>6, ShowKeeps DEF ScreenInv

LEMMA Joined ==
  \A a, b \in Seq(Bytes) :
    /\ a \o b \in Seq(Bytes) /\ Len(a \o b) = Len(a) + Len(b)
    /\ \A i \in 1 .. Len(b) : (a \o b)[Len(a) + i] = b[i]
<1> DEFINE B == Bytes
<1> HIDE DEF B
<1>1. \A a, b \in Seq(B) :
        /\ a \o b \in Seq(B) /\ Len(a \o b) = Len(a) + Len(b)
        /\ \A i \in 1 .. Len(b) : (a \o b)[Len(a) + i] = b[i]
  OBVIOUS
<1> QED
  BY <1>1 DEF B

LEMMA PromptCloses ==
  ASSUME NEW bytes \in Seq(Bytes)
  PROVE  LET b == bytes \o Prompt
         IN  Len(b) \in Nat /\ Len(b) > 0 /\ b[Len(b)] = "char"
<1> DEFINE p == [i \in 1 .. 7 |-> "char"]
           q == <<"esc", "bracket", "char", "char">>
           r == <<"esc", "bracket">>
<1>1. p \in Seq(Bytes) /\ Len(p) = 7
  BY DEF Bytes
<1>2. q \in Seq(Bytes) /\ Len(q) = 4 /\ q[4] = "char" /\ r \in Seq(Bytes) /\ Len(r) = 2
  BY DEF Bytes
<1>3. Prompt = (r \o p) \o q
  BY DEF Prompt
<1> HIDE DEF p, q, r
<1>4. r \o p \in Seq(Bytes) /\ Len(r \o p) = 9
  <2>1. r \o p \in Seq(Bytes) /\ Len(r \o p) = Len(r) + Len(p)
    BY <1>1, <1>2, Joined
  <2> QED
    BY <1>1, <1>2, <2>1
<1> DEFINE rp == r \o p
<1> HIDE DEF rp
<1>5. rp \in Seq(Bytes) /\ Len(rp) = 9
  BY <1>4 DEF rp
<1>6. /\ rp \o q \in Seq(Bytes) /\ Len(rp \o q) = Len(rp) + Len(q)
      /\ \A i \in 1 .. Len(q) : (rp \o q)[Len(rp) + i] = q[i]
  BY <1>2, <1>5, Joined
<1>7. Len(rp \o q) = 13 /\ (rp \o q)[9 + 4] = q[4]
  BY <1>2, <1>5, <1>6
<1>8. Prompt \in Seq(Bytes) /\ Len(Prompt) = 13 /\ Prompt[13] = "char"
  BY <1>2, <1>3, <1>6, <1>7 DEF rp
<1>9. /\ Len(bytes \o Prompt) = Len(bytes) + Len(Prompt)
      /\ \A i \in 1 .. Len(Prompt) : (bytes \o Prompt)[Len(bytes) + i] = Prompt[i]
  BY <1>8, Joined
<1>10. Len(bytes) \in Nat
  OBVIOUS
<1> DEFINE b == bytes \o Prompt
<1> HIDE DEF b
<1>11. Len(b) = Len(bytes) + 13 /\ b[Len(bytes) + 13] = "char"
  BY <1>8, <1>9 DEF b
<1>12. Len(b) \in Nat /\ Len(b) > 0 /\ b[Len(b)] = "char"
  BY <1>10, <1>11
<1> QED
  BY <1>12 DEF b

-----------------------------------------------------------------------------
(* The line.                                                               *)
LEMMA IndexIs == \A i : i \in Index <=> i \in Nat /\ i < TERM_MAX_LINE
BY TermLineAssumption DEF Index

LEMMA LineIsText ==
  ASSUME LineInv
  PROVE  LineText(line_len) \in Line /\ Len(LineText(line_len)) = line_len
<1>1. line_len \in Nat /\ line_len < TERM_MAX_LINE
  BY IndexIs DEF LineInv
<1>2. \A i \in 1 .. line_len : line_buf[i - 1] \in Chars
  <2> SUFFICES ASSUME NEW i \in 1 .. line_len PROVE line_buf[i - 1] \in Chars
    OBVIOUS
  <2>1. i - 1 \in Index /\ i - 1 < line_len
    BY <1>1, TermLineAssumption DEF Index
  <2> QED
    BY <2>1 DEF LineInv
<1> DEFINE n == line_len
<1> HIDE DEF n
<1>3. LineText(n) \in Seq(Chars) /\ Len(LineText(n)) = n
  BY <1>1, <1>2 DEF LineText, n
<1> QED
  BY <1>1, <1>3 DEF Line, n

LEMMA LineRuns ==
  ASSUME LineInv, line_len > 0
  PROVE  CString(line_buf) = LineText(line_len)
<1> DEFINE ends == {i \in Index : line_buf[i] = NUL}
           n == CHOOSE i \in ends : \A j \in ends : i <= j
<1>1. line_len \in ends
  BY DEF LineInv
<1>2. \A j \in ends : line_len <= j
  <2> SUFFICES ASSUME NEW j \in Index, line_buf[j] = NUL, j < line_len PROVE FALSE
    BY IndexIs DEF LineInv
  <2> QED
    BY TermCharsAssumption DEF LineInv
<1>3. n \in ends /\ \A j \in ends : n <= j
  <2> HIDE DEF ends
  <2> QED
    BY <1>1, <1>2
<1>4. n = line_len
  <2>1. n <= line_len /\ line_len <= n
    BY <1>1, <1>2, <1>3
  <2>2. n \in Nat /\ line_len \in Nat
    BY <1>1, <1>3, IndexIs
  <2> QED
    BY <2>1, <2>2
<1>5. CString(line_buf) = [i \in 1 .. n |-> line_buf[i - 1]]
  BY <1>1 DEF CString
<1> QED
  BY <1>4, <1>5 DEF LineText

LEMMA InsertKeeps ==
  ASSUME LineInv, NEW ch \in Chars, HasRoom, line_buf' = Inserted(ch),
         line_len' = line_len + 1, line_cursor' = line_cursor + 1
  PROVE  LineInv'
<1>1. line_len \in Nat /\ line_cursor \in Nat /\ line_cursor <= line_len /\ line_len + 1 \in Index
  BY IndexIs, TermLineAssumption DEF LineInv, HasRoom
<1>2. \A i \in Index : line_buf[i] \in Chars \cup {NUL} /\ (i < line_len => line_buf[i] \in Chars)
  BY DEF LineInv
<1>3. \A i \in Index : i \in Nat /\ (i > 0 => i - 1 \in Index)
  BY TermLineAssumption DEF Index
<1>4. \A i \in Index :
        line_buf'[i] = CASE i < line_cursor -> line_buf[i]
                         [] i = line_cursor -> ch
                         [] i > line_cursor /\ i <= line_len -> line_buf[i - 1]
                         [] i = line_len + 1 -> NUL
                         [] OTHER -> line_buf[i]
  BY DEF Inserted
<1>5. \A i \in Index : line_buf'[i] \in Chars \cup {NUL} /\ (i <= line_len => line_buf'[i] \in Chars)
  <2> TAKE i \in Index
  <2>1. CASE i < line_cursor
    <3>1. line_buf'[i] = line_buf[i] /\ i < line_len
      BY <1>1, <1>3, <1>4, <2>1
    <3> QED
      BY <1>2, <3>1
  <2>2. CASE i = line_cursor
    BY <1>1, <1>3, <1>4, <2>2
  <2>3. CASE i > line_cursor /\ i <= line_len
    <3>1. i - 1 \in Index /\ i - 1 < line_len
      BY <1>1, <1>3, <2>3
    <3>2. line_buf'[i] = line_buf[i - 1]
      BY <1>1, <1>3, <1>4, <2>3
    <3> QED
      BY <1>2, <3>1, <3>2
  <2>4. CASE i > line_len
    BY <1>1, <1>2, <1>3, <1>4, <2>4
  <2> QED
    BY <1>1, <1>3, <2>1, <2>2, <2>3, <2>4
<1>6. line_buf'[line_len + 1] = NUL
  BY <1>1, <1>4
<1>7. line_buf' \in [Index -> Chars \cup {NUL}]
  BY <1>5 DEF Inserted
<1>8. \A i \in Index : i < line_len + 1 => line_buf'[i] \in Chars
  BY <1>1, <1>3, <1>5
<1> QED
  BY <1>1, <1>6, <1>7, <1>8 DEF LineInv

LEMMA RemoveKeeps ==
  ASSUME LineInv, NEW at \in Nat, at < line_len, line_buf' = Removed(at),
         line_len' = line_len - 1, line_cursor' \in 0 .. line_len - 1
  PROVE  LineInv'
<1>1. line_len \in Nat /\ line_len \in Index /\ line_len - 1 \in Index
  BY TermLineAssumption DEF Index, LineInv
<1>2. \A i \in Index : line_buf[i] \in Chars \cup {NUL} /\ (i < line_len => line_buf[i] \in Chars)
  BY DEF LineInv
<1>3. \A i \in Index : i \in Nat /\ (i < line_len => i + 1 \in Index)
  BY <1>1, TermLineAssumption DEF Index
<1>4. \A i \in Index :
        line_buf'[i] = CASE i < at -> line_buf[i]
                         [] i >= at /\ i < line_len - 1 -> line_buf[i + 1]
                         [] i = line_len - 1 -> NUL
                         [] OTHER -> line_buf[i]
  BY DEF Removed
<1>5. \A i \in Index : line_buf'[i] \in Chars \cup {NUL} /\ (i < line_len - 1 => line_buf'[i] \in Chars)
  <2> TAKE i \in Index
  <2>1. CASE i < at
    BY <1>1, <1>2, <1>3, <1>4, <2>1
  <2>2. CASE i >= at /\ i < line_len - 1
    <3>1. i + 1 \in Index /\ i + 1 < line_len
      BY <1>1, <1>3, <2>2
    <3>2. line_buf'[i] = line_buf[i + 1]
      BY <1>1, <1>3, <1>4, <2>2
    <3> QED
      BY <1>2, <3>1, <3>2
  <2>3. CASE i >= line_len - 1
    BY <1>1, <1>2, <1>3, <1>4, <2>3
  <2> QED
    BY <1>1, <1>3, <2>1, <2>2, <2>3
<1>6. line_buf'[line_len - 1] = NUL
  BY <1>1, <1>4
<1>7. line_buf' \in [Index -> Chars \cup {NUL}]
  BY <1>5 DEF Removed
<1> QED
  BY <1>1, <1>5, <1>6, <1>7 DEF LineInv

LEMMA CopyKeeps ==
  ASSUME LineInv, NEW s \in Line, line_buf' = Copied(s), line_len' = Len(s), line_cursor' = Len(s)
  PROVE  LineInv' /\ LineText(line_len)' = s
<1>1. Len(s) \in Index /\ Len(s) \in Nat /\ \A i \in 1 .. Len(s) : s[i] \in Chars
  BY IndexIs DEF Line
<1>2. \A i \in Index : line_buf[i] \in Chars \cup {NUL} /\ i \in Nat
  BY IndexIs DEF LineInv
<1>3. \A i \in Index : line_buf'[i] = IF i < Len(s) THEN s[i + 1] ELSE IF i = Len(s) THEN NUL ELSE line_buf[i]
  BY DEF Copied
<1>4. \A i \in Index : line_buf'[i] \in Chars \cup {NUL} /\ (i < Len(s) => line_buf'[i] = s[i + 1] /\ line_buf'[i] \in Chars)
  BY <1>1, <1>2, <1>3
<1>5. line_buf'[Len(s)] = NUL
  BY <1>1, <1>3
<1>6. line_buf' \in [Index -> Chars \cup {NUL}]
  BY <1>4 DEF Copied
<1>7. LineInv'
  BY <1>1, <1>4, <1>5, <1>6 DEF LineInv
<1>8. LineText(line_len)' = [i \in 1 .. Len(s) |-> line_buf'[i - 1]]
  BY DEF LineText
<1>9. \A i \in 1 .. Len(s) : line_buf'[i - 1] = s[i]
  <2> TAKE i \in 1 .. Len(s)
  <2>1. i - 1 \in Index /\ i - 1 < Len(s) /\ (i - 1) + 1 = i
    BY <1>1, TermLineAssumption DEF Index
  <2> QED
    BY <1>4, <2>1
<1>10. s = [i \in 1 .. Len(s) |-> s[i]]
  BY DEF Line
<1> QED
  BY <1>7, <1>8, <1>9, <1>10

-----------------------------------------------------------------------------
(* The ring.                                                               *)
LEMMA RingIs ==
  \A n \in Nat : Ring(n) \in 0 .. TERM_MAX_HISTORY - 1 /\ (n < TERM_MAX_HISTORY => Ring(n) = n)
BY TermHistoryAssumption DEF Ring

(* What the ring holds, for any table of lines.                            *)
Holds(hist) ==
  /\ hist \in [0 .. TERM_MAX_HISTORY - 1 -> Line]
  /\ Len(entered) < TERM_MAX_HISTORY =>
       \A k \in 0 .. history_count - 1 : hist[k] = entered[k + 1]

LEMMA SavedHolds ==
  ASSUME LineInv, RingInv
  PROVE  Holds(Saved)
<1>1. Holds(history)
  BY DEF RingInv, Holds
<1>2. CASE ~(history_idx < 0)
  BY <1>1, <1>2 DEF Saved
<1>3. CASE history_idx < 0
  <2> DEFINE text == LineText(line_len)
             at == Ring(history_count)
  <2>1. text \in Line
    BY LineIsText
  <2>2. /\ history_count \in Nat /\ at \in 0 .. TERM_MAX_HISTORY - 1
        /\ history_count < TERM_MAX_HISTORY => at = history_count
    BY RingIs DEF RingInv
  <2>3. Saved = [history EXCEPT ![at] = text]
    BY <1>3 DEF Saved
  <2> HIDE DEF text, at
  <2>4. Saved \in [0 .. TERM_MAX_HISTORY - 1 -> Line]
    BY <1>1, <2>1, <2>2, <2>3 DEF Holds
  <2>5. ASSUME Len(entered) < TERM_MAX_HISTORY, NEW k \in 0 .. history_count - 1
        PROVE  Saved[k] = entered[k + 1]
    <3>1. history_count < TERM_MAX_HISTORY
      BY <2>5 DEF RingInv
    <3>2. at # k /\ k \in 0 .. TERM_MAX_HISTORY - 1
      BY <2>2, <3>1, TermHistoryAssumption
    <3>3. Saved[k] = history[k]
      BY <1>1, <2>3, <3>2 DEF Holds
    <3> QED
      BY <1>1, <2>5, <3>3 DEF Holds
  <2> QED
    BY <2>4, <2>5 DEF Holds
<1> QED
  BY <1>2, <1>3

LEMMA RecalledIs ==
  ASSUME RingInv, NEW hist, Holds(hist), NEW idx \in 0 .. history_count - 1
  PROVE  /\ Recalled(hist, idx) \in Line
         /\ Len(entered) < TERM_MAX_HISTORY => Recalled(hist, idx) = entered[Len(entered) - idx]
<1> DEFINE n == history_count - 1 - idx
<1>1. history_count \in Nat /\ n \in 0 .. history_count - 1 /\ n \in Nat /\ n < TERM_MAX_HISTORY
  BY TermHistoryAssumption DEF RingInv
<1>2. n = history_count - 1 - idx
  OBVIOUS
<1> HIDE DEF n
<1>3. Ring(n) = n
  BY <1>1, RingIs
<1>4. Recalled(hist, idx) = hist[n]
  BY <1>2, <1>3 DEF Recalled
<1>5. n \in 0 .. TERM_MAX_HISTORY - 1
  BY <1>1, TermHistoryAssumption
<1>6. hist[n] \in Line
  BY <1>5 DEF Holds
<1>7. ASSUME Len(entered) < TERM_MAX_HISTORY
      PROVE  Recalled(hist, idx) = entered[Len(entered) - idx]
  <2>1. history_count = Len(entered)
    BY <1>7 DEF RingInv
  <2>2. n + 1 = Len(entered) - idx
    BY <1>1, <1>2, <2>1
  <2>3. hist[n] = entered[n + 1]
    BY <1>1, <1>7 DEF Holds
  <2> QED
    BY <1>4, <2>2, <2>3
<1> QED
  BY <1>4, <1>6, <1>7

LEMMA ScreenSame == ScreenInv /\ UNCHANGED screen => ScreenInv'
BY DEF ScreenInv, screen, OnScreen, Grid

LEMMA LineSame == LineInv /\ UNCHANGED line => LineInv'
BY DEF LineInv, line

LEMMA RingSame == RingInv /\ UNCHANGED <<recall, entered>> => RingInv'
BY DEF RingInv, recall

-----------------------------------------------------------------------------
(* The keys.                                                               *)
LEMMA TakeLineKeeps ==
  ASSUME ScreenInv, LineInv, NEW s \in Line, TakeLine(s)
  PROVE  ScreenInv' /\ LineInv' /\ LineText(line_len)' = s
<1>1. Len(s) \in Nat
  BY DEF Line
<1> QED
  BY <1>1, RedrawKeeps, CopyKeeps DEF TakeLine

LEMMA UpKeeps ==
  ASSUME TermIInv, KeyUp
  PROVE  TermIInv'
<1> USE DEF TermIInv
<1>1. Holds(Saved)
  BY SavedHolds
<1>2. /\ history' = Saved /\ history_count' = history_count /\ entered' = entered
      /\ surface' = surface /\ needs_surface_clear' = needs_surface_clear
  BY DEF KeyUp, Ready
<1>3. CASE history_idx < history_count - 1
  <2> DEFINE s == Recalled(Saved, history_idx + 1)
  <2>1. history_idx + 1 \in 0 .. history_count - 1
    BY <1>3 DEF RingInv
  <2>2. s \in Line
    BY <1>1, <2>1, RecalledIs
  <2>3. history_idx' = history_idx + 1 /\ TakeLine(s)
    BY <1>3 DEF KeyUp
  <2> HIDE DEF s
  <2>4. ScreenInv' /\ LineInv'
    BY <2>2, <2>3, TakeLineKeeps
  <2>5. RingInv'
    BY <1>1, <1>2, <2>1, <2>3 DEF RingInv, Holds
  <2> QED
    BY <1>2, <2>4, <2>5
<1>4. CASE ~(history_idx < history_count - 1)
  <2>1. UNCHANGED <<screen, line, history_idx>>
    BY <1>4 DEF KeyUp
  <2>2. RingInv'
    BY <1>1, <1>2, <2>1 DEF RingInv, Holds
  <2> QED
    BY <1>2, <2>1, <2>2, ScreenSame, LineSame
<1> QED
  BY <1>3, <1>4

LEMMA DownKeeps ==
  ASSUME TermIInv, KeyDown
  PROVE  TermIInv'
<1> USE DEF TermIInv
<1>1. /\ UNCHANGED <<history, history_count, entered, surface, needs_surface_clear>>
      /\ history_idx' = history_idx - 1 /\ history_idx >= 0
  BY DEF KeyDown, Ready
<1>2. RingInv'
  BY <1>1 DEF RingInv
<1>3. Holds(history)
  BY DEF RingInv, Holds
<1> DEFINE s == IF history_idx = 0 THEN <<>> ELSE Recalled(history, history_idx - 1)
<1>4. TakeLine(s)
  BY DEF KeyDown
<1>5. s \in Line
  <2>1. CASE history_idx = 0
    BY <2>1, TermLineAssumption DEF Line
  <2>2. CASE history_idx # 0
    <3>1. history_idx - 1 \in 0 .. history_count - 1
      BY <1>1, <2>2 DEF RingInv
    <3> QED
      BY <1>3, <2>2, <3>1, RecalledIs
  <2> QED
    BY <2>1, <2>2
<1> HIDE DEF s
<1>6. ScreenInv' /\ LineInv'
  BY <1>4, <1>5, TakeLineKeeps
<1> QED
  BY <1>1, <1>2, <1>6

(* ENTER writes the prompt behind whatever the command writes.             *)
LEMMA EnterShows ==
  ASSUME ScreenInv, NEW out \in Outputs, Show(term_execute_command(term_newline(OnScreen), out))
  PROVE  ScreenInv'
<1> DEFINE said == IF line_buf[0] = NUL THEN <<>> ELSE out
           t == term_newline(OnScreen)
<1>1. said \in Seq(Bytes)
  BY TermOutputsAssumption
<1>2. Surface(size) /\ Grid(OnScreen, size)
  BY SizesAreSurfaces DEF ScreenInv
<1>3. Grid(t, size)
  BY <1>2, NewlineGrid
<1>4. term_execute_command(t, out) = terminal_write(t, said \o Prompt)
  BY DEF term_execute_command
<1> HIDE DEF said, t
<1> DEFINE b == said \o Prompt
<1>5. Len(b) \in Nat /\ Len(b) > 0 /\ b[Len(b)] = "char"
  BY <1>1, PromptCloses
<1> HIDE DEF b
<1>6. Grid(terminal_write(t, b), size) /\ ~terminal_write(t, b).esc
  BY <1>2, <1>3, <1>5, ClosedWritten
<1>7. Show(terminal_write(t, b))
  BY <1>4 DEF t, b
<1> QED
  BY <1>6, <1>7, ShowKeeps DEF ScreenInv

LEMMA EnterKeeps ==
  ASSUME TermIInv, KeyEnter
  PROVE  TermIInv'
<1> USE DEF TermIInv
<1>1. UNCHANGED <<surface, needs_surface_clear>> /\ UNCHANGED line /\ history_idx' = -1
  BY DEF KeyEnter, Ready
<1>2. ScreenInv'
  BY EnterShows DEF KeyEnter
<1>3. LineInv'
  BY <1>1, LineSame
<1>4. CASE ~(line_len > 0)
  <2>1. UNCHANGED <<history, history_count, entered>>
    BY <1>4 DEF KeyEnter
  <2>2. RingInv'
    BY <1>1, <2>1 DEF RingInv
  <2> QED
    BY <1>1, <1>2, <1>3, <2>2
<1>5. CASE line_len > 0
  <2> DEFINE text == LineText(line_len)
             at == Ring(history_count)
  <2>1. text \in Line
    BY LineIsText
  <2>2. /\ history_count \in Nat /\ at \in 0 .. TERM_MAX_HISTORY - 1
        /\ history_count < TERM_MAX_HISTORY => at = history_count
    BY RingIs DEF RingInv
  <2>3. /\ history' = [history EXCEPT ![at] = text]
        /\ history_count' = IF history_count < TERM_MAX_HISTORY THEN history_count + 1
                            ELSE history_count
        /\ entered' = Append(entered, text)
    BY <1>5 DEF KeyEnter
  <2> HIDE DEF text, at
  <2>4. history' \in [0 .. TERM_MAX_HISTORY - 1 -> Line]
    BY <2>1, <2>2, <2>3 DEF RingInv
  <2>5. history_count' \in 0 .. TERM_MAX_HISTORY /\ history_idx' \in -1 .. history_count' - 1
    BY <1>1, <2>2, <2>3, TermHistoryAssumption DEF RingInv
  <2>6. /\ entered' \in Seq(Line) /\ Len(entered) \in Nat /\ Len(entered') = Len(entered) + 1
        /\ entered'[Len(entered) + 1] = text
        /\ \A k \in 1 .. Len(entered) : entered'[k] = entered[k]
    BY <2>1, <2>3 DEF RingInv
  <2>7. ASSUME Len(entered') < TERM_MAX_HISTORY
        PROVE  /\ history_count' = Len(entered')
               /\ \A k \in 0 .. history_count' - 1 : history'[k] = entered'[k + 1]
    <3>1. Len(entered) < TERM_MAX_HISTORY
      BY <2>6, <2>7, TermHistoryAssumption
    <3>2. /\ history_count = Len(entered)
          /\ \A k \in 0 .. history_count - 1 : history[k] = entered[k + 1]
      BY <3>1 DEF RingInv
    <3>3. history_count' = history_count + 1 /\ at = history_count
      BY <2>2, <2>3, <3>1, <3>2
    <3>4. ASSUME NEW k \in 0 .. history_count
          PROVE  history'[k] = entered'[k + 1]
      <4>1. k \in 0 .. TERM_MAX_HISTORY - 1
        BY <2>2, <3>1, <3>2, TermHistoryAssumption
      <4>2. CASE k = history_count
        BY <2>3, <2>6, <3>2, <3>3, <4>1, <4>2 DEF RingInv
      <4>3. CASE k # history_count
        <5>1. k \in 0 .. history_count - 1 /\ k + 1 \in 1 .. Len(entered)
          BY <2>2, <3>2, <4>3
        <5>2. history'[k] = history[k]
          BY <2>3, <3>3, <4>1, <4>3 DEF RingInv
        <5> QED
          BY <2>6, <3>2, <5>1, <5>2
      <4> QED
        BY <4>2, <4>3
    <3>5. 0 .. history_count' - 1 = 0 .. history_count
      BY <2>2, <3>3
    <3> QED
      BY <2>6, <3>2, <3>3, <3>4, <3>5
  <2>8. RingInv'
    BY <2>4, <2>5, <2>6, <2>7 DEF RingInv
  <2> QED
    BY <1>1, <1>2, <1>3, <2>8
<1> QED
  BY <1>4, <1>5

LEMMA CharKeeps ==
  ASSUME TermIInv, NEW ch \in Chars, KeyChar(ch)
  PROVE  TermIInv'
<1> USE DEF TermIInv
<1>1. UNCHANGED <<recall, entered, surface, needs_surface_clear>>
  BY DEF KeyChar, Ready
<1>2. Surface(size) /\ Grid(OnScreen, size) /\ ~OnScreen.esc /\ size \in Sizes
  BY SizesAreSurfaces DEF ScreenInv, OnScreen
<1>3. Grid(term_advance(OnScreen), size) /\ ~term_advance(OnScreen).esc
  BY <1>2, AdvanceGrid
<1>4. ScreenInv'
  BY <1>2, <1>3, ShowKeeps DEF KeyChar
<1>5. LineInv'
  BY InsertKeeps DEF KeyChar
<1> QED
  BY <1>1, <1>4, <1>5, RingSame

LEMMA BackspaceKeeps ==
  ASSUME TermIInv, KeyBackspace
  PROVE  TermIInv'
<1> USE DEF TermIInv
<1>1. UNCHANGED <<recall, entered, surface, needs_surface_clear>>
  BY DEF KeyBackspace, Ready
<1> DEFINE t == [OnScreen EXCEPT !.col = IF @ > 0 THEN @ - 1 ELSE @]
<1>2. Grid(OnScreen, size) /\ ~OnScreen.esc /\ size \in Sizes
  BY DEF ScreenInv, OnScreen
<1>3. Grid(t, size) /\ ~t.esc
  <2> HIDE DEF TermIInv
  <2> DEFINE u == OnScreen
  <2>1. Grid(u, size) /\ ~u.esc /\ t = [u EXCEPT !.col = IF u.col > 0 THEN u.col - 1 ELSE u.col]
    BY <1>2
  <2> HIDE DEF u, t
  <2> QED
    BY <2>1 DEF Grid
<1>4. ScreenInv'
  BY <1>2, <1>3, ShowKeeps DEF KeyBackspace
<1>5. line_cursor - 1 \in Nat /\ line_cursor - 1 < line_len /\ line_cursor - 1 \in 0 .. line_len - 1
  BY TermLineAssumption DEF KeyBackspace, LineInv, Index
<1>6. LineInv'
  BY <1>5, RemoveKeeps DEF KeyBackspace
<1> QED
  BY <1>1, <1>4, <1>6, RingSame

LEMMA DeleteKeeps ==
  ASSUME TermIInv, KeyDelete
  PROVE  TermIInv'
<1> USE DEF TermIInv
<1>1. UNCHANGED <<recall, entered, surface, needs_surface_clear>>
  BY DEF KeyDelete, Ready
<1>2. line_cursor \in Nat /\ line_cursor \in 0 .. line_len - 1 /\ line_len - 1 \in Nat
  BY TermLineAssumption DEF KeyDelete, LineInv, Index
<1>3. ScreenInv'
  BY <1>2, RedrawKeeps DEF KeyDelete
<1>4. LineInv'
  BY <1>2, RemoveKeeps DEF KeyDelete
<1> QED
  BY <1>1, <1>3, <1>4, RingSame

LEMMA MoveKeeps ==
  ASSUME TermIInv, KeyMove
  PROVE  TermIInv'
<1> USE DEF TermIInv
<1>1. UNCHANGED <<screen, line_buf, line_len, recall, entered, surface, needs_surface_clear>>
  BY DEF KeyMove, Ready
<1>2. line_cursor' \in 0 .. line_len
  BY TermLineAssumption DEF KeyMove, LineInv, Index
<1>3. LineInv'
  BY <1>1, <1>2 DEF LineInv
<1> QED
  BY <1>1, <1>3, ScreenSame, RingSame

LEMMA RestartKeeps ==
  ASSUME TermIInv, Restart
  PROVE  TermIInv'
<1> USE DEF TermIInv
<1>1. surface' = surface /\ needs_surface_clear' = FALSE /\ surface \in Sizes
  BY DEF Restart
<1> DEFINE b == <<>> \o Prompt
<1>2. Len(b) \in Nat /\ Len(b) > 0 /\ b[Len(b)] = "char"
  <2>1. <<>> \in Seq(Bytes)
    OBVIOUS
  <2> QED
    BY <2>1, PromptCloses
<1>3. b = Prompt
  BY DEF Prompt
<1> HIDE DEF b
<1>4. Surface(surface) /\ Grid(Blank(surface), surface)
  BY SizesAreSurfaces, BlankGrid
<1>5. Grid(terminal_write(Blank(surface), b), surface) /\ ~terminal_write(Blank(surface), b).esc
  BY <1>2, <1>4, ClosedWritten
<1>6. ScreenInv'
  BY <1>1, <1>3, <1>5, ShowKeeps DEF Restart
<1>7. LineInv'
  BY TermLineAssumption DEF Restart, LineInv, Index
<1>8. RingInv'
  BY TermHistoryAssumption DEF Restart, RingInv
<1> QED
  BY <1>1, <1>6, <1>7, <1>8

LEMMA TermStep == TermIInv /\ [TermNext]_term_vars => TermIInv'
<1> SUFFICES ASSUME TermIInv, [TermNext]_term_vars PROVE TermIInv'
  OBVIOUS
<1>1. ASSUME NEW maximised \in BOOLEAN, SurfaceChanges(maximised) PROVE TermIInv'
  BY <1>1, ScreenSame, LineSame, RingSame DEF TermIInv, SurfaceChanges
<1>2. CASE UNCHANGED term_vars
  BY <1>2, ScreenSame, LineSame, RingSame DEF TermIInv, term_vars
<1> QED
  BY <1>1, <1>2, RestartKeeps, UpKeeps, DownKeeps, MoveKeeps, DeleteKeeps, BackspaceKeeps,
     CharKeeps, EnterKeeps DEF TermNext

LEMMA TermStart == TermInit => TermIInv
<1> SUFFICES ASSUME TermInit PROVE TermIInv
  OBVIOUS
<1> DEFINE e == <<"esc", "bracket">>
           h == (e \o Text(4)) \o e
           b == h \o Text(2)
           t == terminal_write(Blank(size), b)
<1>1. size \in Sizes /\ surface = size /\ cursor = <<t.col, t.row>> /\ ansi_escaped = t.esc
  BY DEF TermInit
<1>2. Len(b) \in Nat /\ Len(b) > 0 /\ b[Len(b)] = "char"
  <2>1. e \in Seq(Bytes)
    BY DEF Bytes
  <2>2. /\ Text(4) \in Seq(Bytes) /\ Text(2) \in Seq(Bytes)
        /\ Len(Text(2)) = 2 /\ Text(2)[2] = "char"
    BY DEF Bytes, Text
  <2> HIDE DEF e
  <2>3. e \o Text(4) \in Seq(Bytes)
    BY <2>1, <2>2, Joined
  <2> DEFINE f == e \o Text(4)
  <2>4. f \in Seq(Bytes)
    BY <2>3
  <2> HIDE DEF f
  <2>5. f \o e \in Seq(Bytes)
    BY <2>1, <2>4, Joined
  <2>6. h \in Seq(Bytes)
    BY <2>5 DEF f
  <2> HIDE DEF h
  <2>7. /\ Len(h \o Text(2)) = Len(h) + Len(Text(2))
        /\ \A i \in 1 .. Len(Text(2)) : (h \o Text(2))[Len(h) + i] = Text(2)[i]
    BY <2>2, <2>6, Joined
  <2>8. Len(h) \in Nat /\ 2 \in 1 .. Len(Text(2))
    BY <2>2, <2>6
  <2>9. Len(b) = Len(h) + 2 /\ b[Len(h) + 2] = "char"
    BY <2>2, <2>7, <2>8
  <2> HIDE DEF b
  <2> QED
    BY <2>8, <2>9
<1> HIDE DEF b
<1>3. Surface(size) /\ Grid(Blank(size), size) /\ size = <<size[1], size[2]>>
  BY <1>1, SizesAreSurfaces, BlankGrid
<1>4. Grid(t, size) /\ ~t.esc
  BY <1>2, <1>3, ClosedWritten
<1> HIDE DEF t
<1>5. ScreenInv
  <2>1. OnScreen = [cols |-> t.cols, rows |-> t.rows, col |-> t.col, row |-> t.row, esc |-> t.esc]
    BY <1>1, <1>4 DEF OnScreen, Grid
  <2>2. t \in [cols : Nat, rows : Nat, col : Nat, row : Nat, esc : BOOLEAN]
    BY <1>4 DEF Grid
  <2>3. OnScreen = t
    BY <2>1, <2>2
  <2> QED
    BY <1>1, <1>4, <2>3 DEF ScreenInv
<1>6. LineInv
  BY TermLineAssumption DEF TermInit, LineInv, Index
<1>7. RingInv
  <2>1. <<>> \in Line
    BY TermLineAssumption DEF Line
  <2> QED
    BY <2>1, TermHistoryAssumption DEF TermInit, RingInv
<1> QED
  BY <1>1, <1>5, <1>6, <1>7 DEF TermIInv, TermInit

LEMMA TermInvariance == TermSpec => []TermIInv
<1> QED
  BY TermStart, TermStep, PTL DEF TermSpec

LEMMA IsCommand == TermIInv => LineIsCommand
<1> SUFFICES ASSUME TermIInv PROVE LineIsCommand
  OBVIOUS
<1> USE DEF TermIInv
<1>1. OnScreen \in [cols : Nat, rows : Nat, col : Nat, row : Nat, esc : BOOLEAN]
      /\ OnScreen.col < size[1] /\ OnScreen.row < size[2]
  BY DEF ScreenInv, Grid
<1>2. cursor[1] \in Nat /\ cursor[2] \in Nat /\ cursor[1] < size[1] /\ cursor[2] < size[2]
  BY <1>1 DEF OnScreen
<1>3. size[1] \in Nat /\ size[2] \in Nat /\ size \in Sizes
  BY SizesAreSurfaces DEF ScreenInv, Surface
<1>4. cursor[1] \in 0 .. size[1] - 1 /\ cursor[2] \in 0 .. size[2] - 1
  BY <1>2, <1>3
<1>5. TermTypeOK
  BY <1>3, <1>4 DEF TermTypeOK, LineInv, RingInv
<1>6. line_len > 0 => CString(line_buf) = LineText(line_len)
  BY LineRuns
<1> QED
  BY <1>5, <1>6 DEF LineIsCommand, LineInv, ScreenInv

(* For every width of a line, every length of the ring, any output and any *)
(* sizes of the window: the cursor is on the grid, the buffer that ENTER   *)
(* hands to the window ends where the line ends, and no escape sequence is *)
(* left open.                                                              *)
THEOREM EditedIsRun == TermSpec => []LineIsCommand
BY TermInvariance, IsCommand, PTL

(* The n-th UP in a row brings back the n-th newest line, as long as the   *)
(* ring has not come round: the line that is saved when the first UP comes *)
(* goes to the one place that holds no line yet.                           *)
THEOREM UpRecalls == TermSpec => RecallsNewest
<1> DEFINE Newest ==
      history_idx' > history_idx /\ history_idx >= -1 /\ entered' = entered
        /\ Len(entered) < TERM_MAX_HISTORY =>
        LineText(line_len)' = entered[Len(entered) - history_idx']
<1>1. TermIInv /\ [TermNext]_term_vars => [Newest]_term_vars
  <2> SUFFICES ASSUME TermIInv, [TermNext]_term_vars, history_idx' > history_idx,
                      Len(entered) < TERM_MAX_HISTORY
               PROVE  LineText(line_len)' = entered[Len(entered) - history_idx']
    OBVIOUS
  <2> USE DEF TermIInv
  <2>1. history_idx \in Int /\ history_idx >= -1
    BY TermHistoryAssumption DEF RingInv
  <2>2. ~UNCHANGED history_idx /\ history_idx' # -1 /\ history_idx' # history_idx - 1
    BY <2>1
  <2>3. KeyUp
    BY <2>2 DEF TermNext, term_vars, recall, SurfaceChanges, Restart, KeyDown, KeyMove, KeyDelete,
                KeyBackspace, KeyChar, KeyEnter
  <2>4. history_idx < history_count - 1
    BY <2>2, <2>3 DEF KeyUp
  <2> DEFINE s == Recalled(Saved, history_idx + 1)
  <2>5. history_idx' = history_idx + 1 /\ TakeLine(s)
    BY <2>3, <2>4 DEF KeyUp
  <2>6. history_idx + 1 \in 0 .. history_count - 1
    BY <2>4 DEF RingInv
  <2>7. s \in Line /\ s = entered[Len(entered) - (history_idx + 1)]
    BY <2>6, SavedHolds, RecalledIs
  <2> HIDE DEF s
  <2> QED
    BY <2>5, <2>7, TakeLineKeeps
<1> QED
  BY <1>1, TermInvariance, PTL DEF TermSpec, RecallsNewest
=============================================================================
