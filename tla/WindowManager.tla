--------------------------- MODULE WindowManager ---------------------------
(***************************************************************************)
(* The windows of the AurionOS desktop (src/src/window_manager.c).  Slots  *)
(* of windows[] are taken in order and never given back: a window that is  *)
(* destroyed stays in its slot, invisible.  z_order ranks the slots, the   *)
(* front one last; focus_win takes the keys.                               *)
(*                                                                         *)
(* Where windows lie is left out: which of them are under the pointer, and *)
(* which part of the one in front, is an input.  A call of the C code is   *)
(* an operator from the state of the window manager to the next one, or to *)
(* the set of next ones when a callback of an application is involved.     *)
(***************************************************************************)
EXTENDS Integers, Sequences, FiniteSets

CONSTANTS
  Slots,     \* WM_MAX_WINDOWS
  Titles     \* the applications, named by their window titles

ASSUME SlotsAssumption == Slots \in Nat

None == 0   \* no window: a null pointer

Index(s) == 1..Len(s.win)
Shown(s) == {w \in Index(s) : s.win[w].visible /\ s.win[w].state # "minimized"}

(* wm_init: no windows, no focus, no drag. *)
Empty ==
  [win |-> << >>, focus |-> None, drag |-> None, resize |-> None,
   prevLeft |-> FALSE, prevRight |-> FALSE]

WMStates ==
  [win : Seq([title : Titles, visible : BOOLEAN, focused : BOOLEAN,
              state : {"normal", "minimized", "maximized"},
              z : 0..(Slots - 1)]),
   focus : 0..Slots, drag : 0..Slots, resize : 0..Slots,
   prevLeft : BOOLEAN, prevRight : BOOLEAN]

Put(s, w, window) ==
  [s EXCEPT !.win = [v \in Index(s) |-> IF v = w THEN window ELSE s.win[v]]]

(* The window of W in front, of those that the caller has found eligible. *)
Front(s, W) ==
  IF W = {} THEN None
  ELSE CHOOSE w \in W : \A v \in W : s.win[v].z <= s.win[w].z

(* Faulty variant: the windows that were in front keep their rank. *)
GreedyToFront(s, w) ==
  Put(s, w, [s.win[w] EXCEPT !.z = Len(s.win) - 1])

(* wm_bring_to_front: the windows that were in front of w move back by one. *)
ToFront(s, w) ==
  [s EXCEPT !.win = [v \in Index(s) |->
     IF v = w THEN [s.win[v] EXCEPT !.z = Len(s.win) - 1]
     ELSE IF s.win[v].z > s.win[w].z
       THEN [s.win[v] EXCEPT !.z = @ - 1] ELSE s.win[v]]]

(* Faulty variant: the window that loses the focus keeps its flag. *)
SharedFocus(s, w) ==
  IF ~s.win[w].visible THEN s
  ELSE ToFront([Put(s, w, [s.win[w] EXCEPT !.focused = TRUE])
                  EXCEPT !.focus = w], w)

Focus(s, w) ==
  IF ~s.win[w].visible THEN s
  ELSE LET left == [v \in Index(s) |->
                      IF v = w THEN [s.win[v] EXCEPT !.focused = TRUE]
                      ELSE IF v = s.focus THEN [s.win[v] EXCEPT !.focused = FALSE]
                      ELSE s.win[v]]
       IN  ToFront([s EXCEPT !.win = left, !.focus = w], w)

ClearFocus(s) ==
  [s EXCEPT !.win = [v \in Index(s) |->
                       IF v = s.focus THEN [s.win[v] EXCEPT !.focused = FALSE]
                       ELSE s.win[v]],
            !.focus = None]

Create(s, title) ==
  IF Len(s.win) >= Slots THEN s
  ELSE Focus([s EXCEPT !.win = Append(@,
                [title |-> title, visible |-> TRUE, focused |-> FALSE,
                 state |-> "normal", z |-> Len(@)])], Len(s.win) + 1)

(* The focus of a window that goes away passes to the front one still shown. *)
PassFocus(s, w) ==
  IF s.focus # w THEN s
  ELSE LET next == Front(s, Shown(s) \ {w})
           none == [s EXCEPT !.focus = None]
       IN  IF next = None THEN none ELSE Focus(none, next)

Destroy(s, w) ==
  PassFocus(Put(s, w, [s.win[w] EXCEPT !.visible = FALSE,
                                       !.state = "minimized"]), w)

Minimize(s, w) ==
  PassFocus(Put(s, w, [s.win[w] EXCEPT !.state = "minimized"]), w)

(* wm_maximize_window, and wm_restore_window for one that is maximized. *)
Maximize(s, w) ==
  Put(s, w, [s.win[w] EXCEPT !.state =
               IF @ = "maximized" THEN "normal" ELSE "maximized"])

-----------------------------------------------------------------------------
(* Callbacks.  A window that gets the mouse may open another one (an entry *)
(* of the file explorer) or close itself (the installer); one that gets a  *)
(* key may besides close any other (KILL in a terminal).                   *)

Opened(s) == {Create(s, t) : t \in Titles}
OnMouse(s, w) == {s, Destroy(s, w)} \cup Opened(s)
OnKey(s) == {s} \cup Opened(s) \cup {Destroy(s, w) : w \in Index(s)}

Through(S, Step(_)) == UNION {Step(s) : s \in S}

(* One key: to the window that has the focus by then. *)
Key(s) == IF s.focus = None THEN {s} ELSE OnKey(s)
Keys(s, n) ==
  CASE n = 0 -> {s} [] n = 1 -> Key(s) [] OTHER -> Through(Key(s), Key)

(* A call of on_mouse for the focused window, when the pointer is inside. *)
MouseToFocus(s) == IF s.focus = None THEN {s} ELSE OnMouse(s, s.focus)

-----------------------------------------------------------------------------
(* wm_handle_input, for one frame of the pointer:                           *)
(*   under  the windows whose rectangle holds the pointer                   *)
(*   strip  whether it is on the task bar or the menu bar                   *)
(*   left, right, keys  the buttons, and the keys waiting (wheel included)  *)

Seen(s, e) == [s EXCEPT !.prevLeft = e.left, !.prevRight = e.right]

(* A press on window w, by the part it hits: a border or the title bar, one *)
(* of the three buttons, the inside.  The second press on the title bar     *)
(* within 40 ticks toggles the size as the third button does.  The rest of  *)
(* the handler runs only after a press inside the window (more).            *)
Press(s, w) ==
  LET f == Focus(s, w)
      end(t) == [s |-> t, more |-> FALSE]
      grip == IF f.win[w].state = "maximized" THEN {}
              ELSE {end([f EXCEPT !.drag = w]), end([f EXCEPT !.resize = w])}
  IN  grip \cup {end(Destroy(f, w)), end(Minimize(f, w)), end(Maximize(f, w))}
        \cup {[s |-> t, more |-> TRUE] : t \in OnMouse(f, w)}

Pressed(s, e) ==
  LET w == Front(s, Shown(s) \cap e.under)
  IN  IF ~e.left \/ s.prevLeft THEN {[s |-> s, more |-> TRUE]}
      ELSE IF e.strip THEN {[s |-> s, more |-> FALSE]}
      ELSE IF w = None THEN {[s |-> s, more |-> TRUE]}
      ELSE Press(s, w)

RightPressed(s, e) ==
  LET w == Front(s, Shown(s) \cap e.under)
  IN  IF ~e.right \/ s.prevRight \/ w = None THEN {s}
      ELSE {s} \cup OnMouse(Focus(s, w), w)

(* The button held, no button, and the release each call on_mouse. *)
Moved(s, e) ==
  LET held(t) == IF e.left \/ ~e.right THEN MouseToFocus(t) ELSE {t}
      released(t) == IF ~e.left /\ t.prevLeft THEN MouseToFocus(t) ELSE {t}
  IN  Through(held(s), released)

HandleInput(s, e) ==
  IF s.drag # None
    THEN {Seen(IF e.left THEN s ELSE [s EXCEPT !.drag = None], e)}
  ELSE IF s.resize # None
    THEN {Seen(IF e.left THEN s ELSE [s EXCEPT !.resize = None], e)}
  ELSE LET rest(t) == Through(Through(RightPressed(t, e),
                                LAMBDA u : Moved(u, e)),
                              LAMBDA u : Keys(u, e.keys))
       IN  UNION {{Seen(t, e) : t \in IF p.more THEN rest(p.s) ELSE {p.s}} :
                    p \in Pressed(s, e)}

-----------------------------------------------------------------------------
(* What the rest of the desktop relies on. *)

(* wm_draw_all draws the window of each rank: every window has one of its   *)
(* own, whatever was created, focused and destroyed.                        *)
RanksDiffer(s) ==
  {s.win[w].z : w \in Index(s)} = 0..(Len(s.win) - 1)

(* The keys go to a window that still exists, and it is the front one. *)
FocusInFront(s) ==
  s.focus # None =>
    s.win[s.focus].visible /\ s.win[s.focus].z = Len(s.win) - 1

(* Of the windows on the screen, the one drawn as focused is the one that   *)
(* takes the keys, although a window that goes away keeps its flag.         *)
FlagMeansFocus(s) ==
  \A w \in Shown(s) : s.win[w].focused <=> s.focus = w
=============================================================================
