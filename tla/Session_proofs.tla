--------------------------- MODULE Session_proofs ---------------------------
(***************************************************************************)
(* Theorems about what the user sits at: the windows of the desktop, the   *)
(* accounts, the way of the keys, Notepad, Snake, the explorer, the        *)
(* browser, the renderer and the document, for every size of their tables. *)
(*                                                                         *)
(* Sound is the inductive invariant of a window manager state.  To the     *)
(* properties it adds that the ranks are a numbering of the windows        *)
(* (Ranked), and that the window with the focus carries its flag even      *)
(* while it is minimized (Leading): the flag must be right on the day that *)
(* "Full Screen" brings the window back.  Each later part has an invariant *)
(* of its own, which the others leave alone: UsersOK and GraceOK, KeysOK,  *)
(* PadOK, GameOK, WayOK, WebOK, GLOK and PageOK.                           *)
(***************************************************************************)
EXTENDS Session, WellFoundedInduction, SequenceTheorems, FiniteSetTheorems, TLAPS

Window ==
  [title : Titles, visible : BOOLEAN, focused : BOOLEAN,
   state : {"normal", "minimized", "maximized"}, z : 0..(Slots - 1)]

(* Types, and ranks that number the windows. *)
Typed(s) ==
  /\ s \in WMStates
  /\ Len(s.win) <= Slots
  /\ s.focus \in 0..Len(s.win)

Numbered(s) ==
  /\ \A v \in Index(s) : s.win[v].z \in 0..(Len(s.win) - 1)
  /\ \A v, w \in Index(s) : s.win[v].z = s.win[w].z => v = w
  /\ \A k \in 0..(Len(s.win) - 1) : \E v \in Index(s) : s.win[v].z = k

Ranked(s) == Typed(s) /\ Numbered(s)

(* No other window on the screen carries the flag of the focus. *)
Flagged(s) == \A v \in Shown(s) : s.win[v].focused => s.focus = v

Leading(s) ==
  s.focus # None =>
    /\ s.win[s.focus].visible
    /\ s.win[s.focus].focused
    /\ s.win[s.focus].z = Len(s.win) - 1

Sound(s) == Ranked(s) /\ Flagged(s) /\ Leading(s)

-----------------------------------------------------------------------------
(* Least elements exist, so that what the code searches for is found. *)

LEMMA LeastExists ==
  ASSUME NEW S \in SUBSET Nat, S # {}
  PROVE  \E x \in S : \A y \in S : x <= y
<1> DEFINE Less == {p \in Nat \X Nat : p[1] < p[2]}
<1>1. OpToRel(<, Nat) = Less
  BY DEF OpToRel
<1>2. IsWellFoundedOn(Less, Nat)
  BY <1>1, NatLessThanWellFounded, Zenon
<1>3. \E x \in S : \A y \in S : ~ (<<y, x>> \in Less)
  <2> HIDE DEF Less
  <2> QED BY <1>2, WFMin
<1>4. PICK x \in S : \A y \in S : ~ (<<y, x>> \in Less)
  BY <1>3
<1>5. ASSUME NEW y \in S
      PROVE  x <= y
  <2>1. ~ (y < x)
    BY <1>4
  <2>2. x \in Nat /\ y \in Nat
    OBVIOUS
  <2>3. QED
    BY <2>1, <2>2
<1>6. QED
  BY <1>5

(* The window in front of some windows is one of them. *)
LEMMA FrontIn ==
  ASSUME NEW s, Ranked(s), NEW W \in SUBSET Index(s)
  PROVE  (Front(s, W) = None /\ W = {}) \/ Front(s, W) \in W
<1>1. CASE W = {}
  BY <1>1 DEF Front
<1>2. CASE W # {}
  <2> DEFINE Depth(v) == Len(s.win) - s.win[v].z
             D == {Depth(v) : v \in W}
  <2>1. Len(s.win) \in Nat
    BY DEF Ranked, Typed, WMStates
  <2>2. \A v \in W : s.win[v].z \in 0..(Len(s.win) - 1)
    BY DEF Ranked, Numbered
  <2>3. D \in SUBSET Nat /\ D # {}
    BY <1>2, <2>1, <2>2
  <2>4. PICK d \in D : \A e \in D : d <= e
    BY <2>3, LeastExists
  <2>5. PICK w \in W : d = Depth(w)
    BY <2>4
  <2>6. ASSUME NEW v \in W
        PROVE  s.win[v].z <= s.win[w].z
    <3>1. Depth(w) <= Depth(v)
      BY <2>4, <2>5
    <3>2. s.win[v].z \in Int /\ s.win[w].z \in Int
      BY <2>1, <2>2
    <3>3. QED
      BY <2>1, <3>1, <3>2
  <2>7. QED
    BY <1>2, <2>6 DEF Front
<1>3. QED
  BY <1>1, <1>2

(* A function over the windows is an array of as many windows. *)
LEMMA ArrayOf ==
  ASSUME NEW s, Typed(s), NEW f \in [Index(s) -> Window]
  PROVE  /\ f \in Seq(Window) /\ Len(f) = Len(s.win)
         /\ Len(s.win) \in Nat
         /\ [s EXCEPT !.win = f] \in WMStates
<1>1. Len(s.win) \in Nat
  BY DEF Typed, WMStates
<1>2. f \in Seq(Window) /\ Len(f) = Len(s.win)
  BY <1>1 DEF Index
<1>3. QED
  BY <1>1, <1>2 DEF Typed, WMStates, Window


LEMMA WindowsTyped ==
  ASSUME NEW s, Typed(s)
  PROVE  /\ Len(s.win) \in Nat /\ Index(s) = 1..Len(s.win)
         /\ \A v \in Index(s) : s.win[v] \in Window
<1>1. s.win \in Seq(Window)
  BY DEF Typed, WMStates, Window
<1>2. QED
  BY <1>1 DEF Index

(* A state t with as many windows as s is typed as s is. *)
LEMMA SameLength ==
  ASSUME NEW s, Typed(s), NEW t \in WMStates,
         Len(t.win) = Len(s.win), t.focus \in 0..Len(s.win)
  PROVE  Typed(t) /\ Index(t) = Index(s)
BY DEF Typed, Index

LEMMA PutFacts ==
  ASSUME NEW s, Typed(s), NEW w \in Index(s), NEW x \in Window
  PROVE  /\ Typed(Put(s, w, x)) /\ Put(s, w, x).focus = s.focus
         /\ Len(Put(s, w, x).win) = Len(s.win) /\ Index(Put(s, w, x)) = Index(s)
         /\ \A v \in Index(s) : Put(s, w, x).win[v] = IF v = w THEN x ELSE s.win[v]
<1> DEFINE f == [v \in Index(s) |-> IF v = w THEN x ELSE s.win[v]]
           t == Put(s, w, x)
<1>1. f \in [Index(s) -> Window]
  BY WindowsTyped
<1>2. f \in Seq(Window) /\ Len(f) = Len(s.win)
  BY <1>1, ArrayOf
<1>3. t \in WMStates /\ t.focus = s.focus /\ t.win = f
  BY <1>2 DEF Put, Typed, WMStates, Window
<1>4. s.focus \in 0..Len(s.win)
  BY DEF Typed
<1>5. QED
  <2> HIDE DEF t
  <2>1. Typed(t) /\ Len(t.win) = Len(s.win) /\ Index(t) = Index(s)
    BY <1>2, <1>3, <1>4, SameLength
  <2>2. QED
    BY <1>3, <2>1 DEF t

(* The ranks above the one that leaves close up, and stay apart.            *)
MovedDown(z, left) == IF z > left THEN z - 1 ELSE z

(* wm_bring_to_front changes ranks only, and they number the windows again. *)
LEMMA ToFrontFacts ==
  ASSUME NEW s, Ranked(s), NEW w \in Index(s)
  PROVE  /\ Ranked(ToFront(s, w)) /\ ToFront(s, w).focus = s.focus
         /\ Len(ToFront(s, w).win) = Len(s.win) /\ Index(ToFront(s, w)) = Index(s)
         /\ ToFront(s, w).win[w].z = Len(s.win) - 1
         /\ \A v \in Index(s) : /\ ToFront(s, w).win[v].visible = s.win[v].visible
                                /\ ToFront(s, w).win[v].focused = s.win[v].focused
                                /\ ToFront(s, w).win[v].state = s.win[v].state
<1> DEFINE n == Len(s.win)
           f == [v \in Index(s) |->
                   IF v = w THEN [s.win[v] EXCEPT !.z = n - 1]
                   ELSE IF s.win[v].z > s.win[w].z
                     THEN [s.win[v] EXCEPT !.z = @ - 1] ELSE s.win[v]]
           t == ToFront(s, w)
<1>1. n \in Nat \ {0} /\ n <= Slots /\ Slots \in Nat /\ s.focus \in 0..n /\ Index(s) = 1..n
  BY SlotsAssumption DEF Ranked, Typed, WMStates, Index
<1>2. \A v \in Index(s) : s.win[v] \in Window /\ s.win[v].z \in 0..(n - 1)
  BY WindowsTyped DEF Ranked, Numbered
<1>3. f \in [Index(s) -> Window]
  <2> SUFFICES ASSUME NEW v \in Index(s)
               PROVE  f[v] \in Window
    BY Zenon
  <2>1. s.win[w].z \in 0..(n - 1) /\ s.win[v].z \in 0..(n - 1) /\ s.win[v] \in Window
    BY <1>2
  <2>2. s.win[v].z > s.win[w].z => s.win[v].z - 1 \in 0..(Slots - 1)
    <3>1. PICK a, b, m : a = s.win[v].z /\ b = s.win[w].z /\ m = n
      OBVIOUS
    <3>2. a \in 0..(m - 1) /\ b \in 0..(m - 1)
      BY <2>1, <3>1
    <3>3. m \in Nat /\ m <= Slots /\ Slots \in Nat
      BY <1>1, <3>1
    <3>4. a > b => a - 1 \in 0..(Slots - 1)
      BY <3>2, <3>3
    <3>5. QED
      BY <3>1, <3>4
  <2>3. n - 1 \in 0..(Slots - 1)
    BY <1>1
  <2>4. QED
    BY <2>1, <2>2, <2>3 DEF Window
<1>4. t \in WMStates /\ t.focus = s.focus /\ t.win = f /\ Len(f) = n
  <2> HIDE DEF f
  <2>1. f \in Seq(Window) /\ Len(f) = n
    BY <1>3, ArrayOf DEF Ranked
  <2>2. t = [s EXCEPT !.win = f]
    BY DEF ToFront, f
  <2>3. QED
    BY <2>1, <2>2 DEF Ranked, Typed, WMStates, Window
<1>5. Typed(t) /\ t.win = f /\ t.focus = s.focus /\ Len(t.win) = n /\ Index(t) = Index(s)
  <2> HIDE DEF f, t
  <2> QED BY <1>1, <1>4, SameLength DEF Ranked
<1>6. \A v \in Index(s) :
        /\ t.win[v].z = IF v = w THEN n - 1
                        ELSE IF s.win[v].z > s.win[w].z THEN s.win[v].z - 1 ELSE s.win[v].z
        /\ t.win[v].visible = s.win[v].visible
        /\ t.win[v].focused = s.win[v].focused
        /\ t.win[v].state = s.win[v].state
  <2> HIDE DEF t
  <2> QED BY <1>2, <1>5 DEF Window
<1>7. Numbered(t)
  <2> DEFINE z(v) == s.win[v].z
             y(v) == t.win[v].z
  <2> HIDE DEF t, f
  <2>1. \A v \in Index(s) : z(v) \in 0..(n - 1)
    BY <1>2
  <2>2. \A v, u \in Index(s) : z(v) = z(u) => v = u
    BY DEF Ranked, Numbered
  <2>3. \A k \in 0..(n - 1) : \E v \in Index(s) : z(v) = k
    BY DEF Ranked, Numbered
  <2>4. \A v \in Index(s) :
          y(v) = IF v = w THEN n - 1 ELSE IF z(v) > z(w) THEN z(v) - 1 ELSE z(v)
    BY <1>6
  <2> HIDE DEF z, y
  <2>5. \A v \in Index(s) : y(v) \in 0..(n - 1)
    BY <1>1, <2>1, <2>2, <2>4
  <2>6. \A v, u \in Index(s) : y(v) = y(u) => v = u
    <3> SUFFICES ASSUME NEW v \in Index(s), NEW u \in Index(s), y(v) = y(u)
                 PROVE  v = u
      OBVIOUS
    <3>1. z(v) \in 0..(n - 1) /\ z(u) \in 0..(n - 1) /\ z(w) \in 0..(n - 1)
      BY <2>1
    <3>2. (z(v) = z(u) => v = u) /\ (z(v) = z(w) => v = w) /\ (z(u) = z(w) => u = w)
      BY <2>2
    <3>3. QED
      <4>1. PICK m \in Nat : m = n
        BY <1>1
      <4>2. PICK a \in 0..(m - 1), b \in 0..(m - 1), c \in 0..(m - 1) :
              a = z(v) /\ b = z(u) /\ c = z(w)
        BY <3>1, <4>1
      <4>3. (a = b => v = u) /\ (a = c => v = w) /\ (b = c => u = w)
        BY <3>2, <4>2
      <4>4. y(v) = IF v = w THEN m - 1 ELSE MovedDown(a, c)
        BY <2>4, <4>1, <4>2 DEF MovedDown
      <4>5. y(u) = IF u = w THEN m - 1 ELSE MovedDown(b, c)
        BY <2>4, <4>1, <4>2 DEF MovedDown
      <4>6. /\ a # c => m - 1 # MovedDown(a, c)
            /\ b # c => m - 1 # MovedDown(b, c)
            /\ a # c /\ b # c /\ MovedDown(a, c) = MovedDown(b, c) => a = b
        BY DEF MovedDown
      <4>7. CASE v = w
        BY <4>3, <4>4, <4>5, <4>6, <4>7, Zenon
      <4>8. CASE v # w /\ u = w
        BY <4>3, <4>4, <4>5, <4>6, <4>8, Zenon
      <4>9. CASE v # w /\ u # w
        BY <4>3, <4>4, <4>5, <4>6, <4>9, Zenon
      <4>10. QED
        BY <4>7, <4>8, <4>9
  <2>7. ASSUME NEW k \in 0..(n - 1)
        PROVE  \E v \in Index(s) : y(v) = k
    <3>1. CASE k = n - 1
      BY <2>4, <3>1
    <3>2. CASE k # n - 1 /\ k < z(w)
      <4>1. PICK v \in Index(s) : z(v) = k
        BY <2>3
      <4>2. z(v) \in 0..(n - 1) /\ z(w) \in 0..(n - 1) /\ v # w
        BY <2>1, <3>2, <4>1
      <4>3. y(v) = k
        BY <1>1, <2>4, <3>2, <4>1, <4>2
      <4>4. QED
        BY <4>3
    <3>3. CASE k # n - 1 /\ ~(k < z(w))
      <4>1. k + 1 \in 0..(n - 1)
        BY <1>1, <3>3
      <4>2. PICK v \in Index(s) : z(v) = k + 1
        BY <2>3, <4>1
      <4>3. z(v) \in 0..(n - 1) /\ z(w) \in 0..(n - 1)
        BY <2>1
      <4>4. z(v) > z(w) /\ v # w
        BY <1>1, <3>3, <4>2, <4>3
      <4>5. y(v) = k
        BY <1>1, <2>4, <4>2, <4>3, <4>4
      <4>6. QED
        BY <4>5
    <3>4. QED
      BY <3>1, <3>2, <3>3
  <2>8. QED
    BY <1>5, <2>5, <2>6, <2>7 DEF Numbered, y
<1>8. QED
  <2> HIDE DEF t, f
  <2> QED BY <1>5, <1>6, <1>7 DEF Ranked, t

LEMMA SameRanks ==
  ASSUME NEW s, Ranked(s), NEW t, Typed(t), Len(t.win) = Len(s.win), Index(t) = Index(s),
         \A v \in Index(s) : t.win[v].z = s.win[v].z
  PROVE  Ranked(t)
BY DEF Ranked, Numbered

-----------------------------------------------------------------------------
(* The operations on one window keep Sound. *)

LEMMA FocusSound ==
  ASSUME NEW s, Ranked(s), Flagged(s), NEW w \in Index(s), s.win[w].visible
  PROVE  /\ Sound(Focus(s, w)) /\ Focus(s, w).focus = w
         /\ Index(Focus(s, w)) = Index(s)
         /\ \A v \in Index(s) : /\ Focus(s, w).win[v].visible = s.win[v].visible
                                /\ Focus(s, w).win[v].state = s.win[v].state
<1> DEFINE left == [v \in Index(s) |->
                      IF v = w THEN [s.win[v] EXCEPT !.focused = TRUE]
                      ELSE IF v = s.focus THEN [s.win[v] EXCEPT !.focused = FALSE]
                      ELSE s.win[v]]
           u == [s EXCEPT !.win = left, !.focus = w]
           t == ToFront(u, w)
<1>1. Len(s.win) \in Nat /\ Index(s) = 1..Len(s.win) /\ Slots \in Nat /\ Len(s.win) <= Slots
  BY SlotsAssumption DEF Ranked, Typed, WMStates, Index
<1>2. \A v \in Index(s) : s.win[v] \in Window
  BY WindowsTyped DEF Ranked
<1>3. left \in [Index(s) -> Window]
  BY <1>2 DEF Window
<1>4. left \in Seq(Window) /\ Len(left) = Len(s.win)
  <2> HIDE DEF left
  <2> QED BY <1>3, ArrayOf DEF Ranked
<1>5. u \in WMStates /\ u.win = left /\ u.focus = w
  <2>1. w \in 0..Slots
    BY <1>1
  <2> HIDE DEF left
  <2> QED BY <2>1, <1>4 DEF Ranked, Typed, WMStates, Window
<1>6. Typed(u) /\ Len(u.win) = Len(s.win) /\ Index(u) = Index(s)
  <2> HIDE DEF left, u
  <2> QED BY <1>1, <1>4, <1>5, SameLength DEF Ranked
<1>7. \A v \in Index(s) :
        /\ u.win[v].z = s.win[v].z
        /\ u.win[v].visible = s.win[v].visible
        /\ u.win[v].state = s.win[v].state
        /\ u.win[v].focused = IF v = w THEN TRUE ELSE IF v = s.focus THEN FALSE
                                       ELSE s.win[v].focused
  <2> HIDE DEF u
  <2> QED BY <1>2, <1>5 DEF Window
<1> HIDE DEF left, u
<1>8. Ranked(u)
  <2>1. \A v \in Index(s) : u.win[v].z = s.win[v].z
    BY <1>7
  <2>2. QED
    BY <1>6, <2>1, SameRanks
<1>9. /\ Ranked(t) /\ t.focus = w /\ Len(t.win) = Len(s.win) /\ Index(t) = Index(s)
      /\ t.win[w].z = Len(s.win) - 1
      /\ \A v \in Index(s) : /\ t.win[v].visible = s.win[v].visible
                             /\ t.win[v].state = s.win[v].state
                             /\ t.win[v].focused = IF v = w THEN TRUE
                                                   ELSE IF v = s.focus THEN FALSE
                                                   ELSE s.win[v].focused
  <2>1. /\ Ranked(t) /\ t.focus = w /\ Len(t.win) = Len(s.win) /\ Index(t) = Index(s)
        /\ t.win[w].z = Len(s.win) - 1
    BY <1>5, <1>6, <1>8, ToFrontFacts
  <2>2. \A v \in Index(u) : /\ t.win[v].visible = u.win[v].visible
                             /\ t.win[v].focused = u.win[v].focused
                             /\ t.win[v].state = u.win[v].state
    BY <1>6, <1>8, ToFrontFacts
  <2> HIDE DEF t
  <2>3. QED
    <3> SUFFICES ASSUME NEW v \in Index(s)
                 PROVE  /\ t.win[v].visible = s.win[v].visible
                        /\ t.win[v].state = s.win[v].state
                        /\ t.win[v].focused = IF v = w THEN TRUE
                                              ELSE IF v = s.focus THEN FALSE
                                              ELSE s.win[v].focused
      BY <2>1, Zenon
    <3>1. v \in Index(u)
      BY <1>6
    <3>2. /\ t.win[v].visible = u.win[v].visible
          /\ t.win[v].focused = u.win[v].focused
          /\ t.win[v].state = u.win[v].state
      BY <2>2, <3>1, Zenon
    <3>3. /\ u.win[v].visible = s.win[v].visible
          /\ u.win[v].state = s.win[v].state
          /\ u.win[v].focused = IF v = w THEN TRUE ELSE IF v = s.focus THEN FALSE
                                              ELSE s.win[v].focused
      BY <1>7, Zenon
    <3>4. t.win[v].visible = s.win[v].visible
      BY <3>2, <3>3, Zenon
    <3>5. t.win[v].state = s.win[v].state
      BY <3>2, <3>3, Zenon
    <3>6. t.win[v].focused = IF v = w THEN TRUE ELSE IF v = s.focus THEN FALSE
                                              ELSE s.win[v].focused
      BY <3>2, <3>3, Zenon
    <3>7. QED
      BY <3>4, <3>5, <3>6, Zenon
<1>10. Focus(s, w) = t
  BY DEF Focus, left, u
<1> HIDE DEF t
<1>11. Flagged(t)
  BY <1>9 DEF Flagged, Shown
<1>12. Leading(t)
  BY <1>9 DEF Leading
<1>13. QED
  BY <1>9, <1>10, <1>11, <1>12 DEF Sound

(* wm_focus_window ignores a window that is destroyed. *)
LEMMA RefocusSound ==
  ASSUME NEW s, Sound(s), NEW w \in Index(s)
  PROVE  Sound(Focus(s, w))
<1>1. CASE s.win[w].visible
  BY <1>1, FocusSound DEF Sound
<1>2. CASE ~s.win[w].visible
  BY <1>2 DEF Focus
<1>3. QED
  BY <1>1, <1>2

LEMMA CreateSound ==
  ASSUME NEW s, Sound(s), NEW title \in Titles
  PROVE  Sound(Create(s, title))
<1> DEFINE n == Len(s.win)
           window == [title |-> title, visible |-> TRUE, focused |-> FALSE,
                      state |-> "normal", z |-> n]
           u == [s EXCEPT !.win = Append(s.win, window)]
<1>1. s.win \in Seq(Window) /\ n \in Nat /\ Slots \in Nat /\ Index(s) = 1..n /\ n <= Slots
  BY SlotsAssumption DEF Sound, Ranked, Typed, WMStates, Window, Index
<1>2. CASE n >= Slots
  BY <1>2 DEF Create
<1>3. CASE ~(n >= Slots)
  <2>1. window \in Window
    BY <1>1, <1>3 DEF Window
  <2> HIDE DEF window
  <2>2. /\ Append(s.win, window) \in Seq(Window) /\ Len(Append(s.win, window)) = n + 1
        /\ \A v \in 1..n : Append(s.win, window)[v] = s.win[v]
        /\ Append(s.win, window)[n + 1] = window
    BY <1>1, <2>1
  <2>3. /\ u \in WMStates /\ u.win = Append(s.win, window) /\ u.focus = s.focus
        /\ s.focus \in 0..n
    BY <2>2 DEF Sound, Ranked, Typed, WMStates, Window
  <2> HIDE DEF u
  <2>4. Typed(u) /\ Index(u) = 1..(n + 1) /\ Len(u.win) = n + 1
    BY <1>1, <1>3, <2>2, <2>3 DEF Typed, Index
  <2>5. /\ \A v \in 1..n : u.win[v] = s.win[v]
        /\ u.win[n + 1] = window
    BY <2>2, <2>3
  <2>6. window.z = n /\ window.visible /\ ~window.focused
    BY DEF window
  <2>7. Numbered(u)
    <3>0. /\ \A v \in 1..n : s.win[v].z \in 0..(n - 1)
          /\ \A v, w \in 1..n : s.win[v].z = s.win[w].z => v = w
          /\ \A k \in 0..(n - 1) : \E v \in 1..n : s.win[v].z = k
      BY <1>1 DEF Sound, Ranked, Numbered
    <3>1. \A v \in 1..(n + 1) : v = n + 1 \/ v \in 1..n
      BY <1>1
    <3>a. u.win[n + 1].z = n /\ \A v \in 1..n : u.win[v].z = s.win[v].z
      BY <2>5, <2>6
    <3>b. \A v \in 1..n : u.win[v].z \in 0..(n - 1)
      BY <3>0, <3>a
    <3>2. \A v \in 1..(n + 1) : u.win[v].z \in 0..n
      BY <1>1, <3>a, <3>b, <3>1
    <3>3. \A v, w \in 1..(n + 1) : u.win[v].z = u.win[w].z => v = w
      <4> SUFFICES ASSUME NEW v \in 1..(n + 1), NEW w \in 1..(n + 1),
                          u.win[v].z = u.win[w].z
                   PROVE  v = w
        OBVIOUS
      <4>1. CASE v \in 1..n /\ w \in 1..n
        BY <3>0, <3>a, <4>1
      <4>2. CASE v = n + 1 \/ w = n + 1
        <5>1. n \notin 0..(n - 1)
          BY <1>1
        <5>2. QED
          BY <3>1, <3>a, <3>b, <4>2, <5>1
      <4>3. QED
        BY <3>1, <4>1, <4>2
    <3>4. \A k \in 0..n : \E v \in 1..(n + 1) : u.win[v].z = k
      <4> SUFFICES ASSUME NEW k \in 0..n
                   PROVE  \E v \in 1..(n + 1) : u.win[v].z = k
        OBVIOUS
      <4>1. CASE k = n
        BY <1>1, <2>5, <2>6, <4>1
      <4>2. CASE k # n
        <5>1. k \in 0..(n - 1)
          BY <1>1, <4>2
        <5>2. PICK v \in 1..n : s.win[v].z = k
          BY <3>0, <5>1
        <5>3. v \in 1..(n + 1) /\ u.win[v].z = k
          BY <1>1, <3>a, <5>2
        <5>4. QED
          BY <5>3
      <4>3. QED
        BY <4>1, <4>2
    <3>5. QED
      <4>1. PICK D : D = 1..(n + 1)
        OBVIOUS
      <4>2. PICK Z : Z = 0..n
        OBVIOUS
      <4>3. Len(u.win) - 1 = n
        BY <1>1, <2>4
      <4>4. Index(u) = D /\ 0..(Len(u.win) - 1) = Z
        BY <2>4, <4>1, <4>2, <4>3
      <4>5. /\ \A v \in D : u.win[v].z \in Z
            /\ \A v, w \in D : u.win[v].z = u.win[w].z => v = w
            /\ \A k \in Z : \E v \in D : u.win[v].z = k
        BY <3>2, <3>3, <3>4, <4>1, <4>2, Zenon
      <4>6. /\ \A v \in Index(u) : u.win[v].z \in 0..(Len(u.win) - 1)
            /\ \A v, w \in Index(u) : u.win[v].z = u.win[w].z => v = w
            /\ \A k \in 0..(Len(u.win) - 1) : \E v \in Index(u) : u.win[v].z = k
        BY <4>4, <4>5, Zenon
      <4>7. QED
        BY <4>6, Zenon DEF Numbered
  <2>8. Flagged(u)
    <3>1. \A v \in 1..(n + 1) : v = n + 1 \/ v \in 1..n
      BY <1>1
    <3>2. QED
      BY <1>1, <2>3, <2>4, <2>5, <2>6, <3>1 DEF Sound, Flagged, Shown
  <2>9. n + 1 \in Index(u) /\ u.win[n + 1].visible
    BY <1>1, <2>4, <2>5, <2>6
  <2>10. Sound(Focus(u, n + 1))
    BY <2>4, <2>7, <2>8, <2>9, FocusSound DEF Ranked
  <2>11. Create(s, title) = Focus(u, n + 1)
    BY <1>3 DEF Create, u, window
  <2>12. QED
    BY <2>10, <2>11
<1>4. QED
  BY <1>2, <1>3

(* The record with the focus cleared. *)
LEMMA Unfocused ==
  ASSUME NEW s, Ranked(s), NEW t, t = [s EXCEPT !.focus = None],
         \A v \in Shown(s) : ~s.win[v].focused
  PROVE  Sound(t) /\ t.win = s.win /\ t.focus = None
<1>1. t \in WMStates /\ t.win = s.win /\ t.focus = None
  BY SlotsAssumption DEF Ranked, Typed, WMStates, None
<1>2. Typed(t)
  BY <1>1 DEF Ranked, Typed, WMStates, None
<1>3. Numbered(t)
  BY <1>1 DEF Ranked, Numbered, Index
<1>4. Flagged(t) /\ Leading(t)
  BY <1>1 DEF Flagged, Leading, Shown, Index
<1>5. QED
  BY <1>1, <1>2, <1>3, <1>4 DEF Sound, Ranked

(* A window that has left the screen passes its focus on. *)
LEMMA PassFocusSound ==
  ASSUME NEW s, Ranked(s), Flagged(s), NEW w \in Index(s), w \notin Shown(s),
         s.focus # w => Leading(s)
  PROVE  Sound(PassFocus(s, w))
<1>1. CASE s.focus # w
  BY <1>1 DEF PassFocus, Sound
<1>2. CASE s.focus = w
  <2> DEFINE heir == Front(s, Shown(s) \ {w})
             none == [s EXCEPT !.focus = None]
  <2>1. heir = None \/ heir \in Shown(s)
    <3>1. Shown(s) \ {w} \in SUBSET Index(s)
      BY DEF Shown
    <3>2. QED
      BY <3>1, FrontIn
  <2>2. \A v \in Shown(s) : ~s.win[v].focused
    BY <1>2 DEF Flagged
  <2>3. Sound(none) /\ none.win = s.win
    BY <2>2, Unfocused
  <2>4. CASE heir = None
    BY <1>2, <2>3, <2>4 DEF PassFocus
  <2>5. CASE heir # None
    <3> HIDE DEF none
    <3>1. heir \in Index(none) /\ none.win[heir].visible
      BY <2>1, <2>3, <2>5 DEF Shown, Index
    <3>2. Sound(Focus(none, heir))
      BY <2>3, <3>1, FocusSound DEF Sound
    <3>3. PassFocus(s, w) = Focus(none, heir)
      BY <1>2, <2>5 DEF PassFocus, none
    <3>4. QED
      BY <3>2, <3>3
  <2>6. QED
    BY <2>4, <2>5
<1>3. QED
  BY <1>1, <1>2

(* A window replaced by one of the same rank and the same flag. *)
LEMMA ReplacedRanks ==
  ASSUME NEW s, Sound(s), NEW w \in Index(s), NEW x \in Window, x.z = s.win[w].z
  PROVE  /\ Ranked(Put(s, w, x)) /\ Put(s, w, x).focus = s.focus
         /\ Len(Put(s, w, x).win) = Len(s.win) /\ Index(Put(s, w, x)) = Index(s)
         /\ \A v \in Index(s) : Put(s, w, x).win[v] = IF v = w THEN x ELSE s.win[v]
<1> DEFINE t == Put(s, w, x)
<1>1. /\ Typed(t) /\ t.focus = s.focus /\ Len(t.win) = Len(s.win) /\ Index(t) = Index(s)
      /\ \A v \in Index(s) : t.win[v] = IF v = w THEN x ELSE s.win[v]
  BY PutFacts DEF Sound, Ranked
<1> HIDE DEF t
<1>2. \A v \in Index(s) : t.win[v].z = s.win[v].z
  BY <1>1
<1>3. Ranked(t)
  BY <1>1, <1>2, SameRanks DEF Sound
<1>4. QED
  BY <1>1, <1>3 DEF t

LEMMA HiddenSound ==
  ASSUME NEW s, Sound(s), NEW w \in Index(s), NEW x \in Window, x.z = s.win[w].z,
         x.state = "minimized"
  PROVE  Sound(PassFocus(Put(s, w, x), w))
<1> DEFINE t == Put(s, w, x)
<1>1. /\ Ranked(t) /\ t.focus = s.focus /\ Len(t.win) = Len(s.win) /\ Index(t) = Index(s)
      /\ \A v \in Index(s) : t.win[v] = IF v = w THEN x ELSE s.win[v]
  BY ReplacedRanks
<1> HIDE DEF t
<1>2. w \notin Shown(t)
  BY <1>1 DEF Shown
<1>3. Flagged(t)
  <2>1. \A v \in Shown(t) : v \in Shown(s) /\ t.win[v] = s.win[v]
    BY <1>1, <1>2 DEF Shown
  <2>2. QED
    BY <1>1, <2>1 DEF Sound, Flagged
<1>4. t.focus # w => Leading(t)
  <2> SUFFICES ASSUME t.focus # w, t.focus # None
               PROVE  /\ t.win[t.focus].visible /\ t.win[t.focus].focused
                      /\ t.win[t.focus].z = Len(t.win) - 1
    BY DEF Leading
  <2>1. s.focus \in Index(s)
    BY <1>1 DEF Sound, Ranked, Typed, WMStates, Index, None
  <2>2. t.win[t.focus] = s.win[s.focus]
    BY <1>1, <2>1
  <2>3. QED
    BY <1>1, <2>2 DEF Sound, Leading
<1>5. QED
  BY <1>1, <1>2, <1>3, <1>4, PassFocusSound DEF t

LEMMA DestroySound ==
  ASSUME NEW s, Sound(s), NEW w \in Index(s)
  PROVE  Sound(Destroy(s, w))
<1> DEFINE x == [s.win[w] EXCEPT !.visible = FALSE, !.state = "minimized"]
<1>1. x \in Window /\ x.z = s.win[w].z /\ x.state = "minimized"
  BY WindowsTyped DEF Sound, Ranked, Window
<1> HIDE DEF x
<1>2. Sound(PassFocus(Put(s, w, x), w))
  BY <1>1, HiddenSound
<1>3. QED
  BY <1>2 DEF Destroy, x

LEMMA MinimizeSound ==
  ASSUME NEW s, Sound(s), NEW w \in Index(s)
  PROVE  Sound(Minimize(s, w))
<1> DEFINE x == [s.win[w] EXCEPT !.state = "minimized"]
<1>1. x \in Window /\ x.z = s.win[w].z /\ x.state = "minimized"
  BY WindowsTyped DEF Sound, Ranked, Window
<1> HIDE DEF x
<1>2. Sound(PassFocus(Put(s, w, x), w))
  BY <1>1, HiddenSound
<1>3. QED
  BY <1>2 DEF Minimize, x

(* "Full Screen" and the third button act on the window with the focus, and *)
(* it may have been minimized: its flag is right all the same.              *)
LEMMA MaximizeSound ==
  ASSUME NEW s, Sound(s), s.focus # None
  PROVE  Sound(Maximize(s, s.focus)) /\ Maximize(s, s.focus).focus = s.focus
<1> DEFINE w == s.focus
           x == [s.win[w] EXCEPT !.state = IF @ = "maximized" THEN "normal" ELSE "maximized"]
           t == Put(s, w, x)
<1>1. w \in Index(s)
  BY DEF Sound, Ranked, Typed, WMStates, Index, None
<1>2. /\ x \in Window /\ x.z = s.win[w].z /\ x.focused = s.win[w].focused
      /\ x.visible = s.win[w].visible
  BY <1>1, WindowsTyped DEF Sound, Ranked, Window
<1>3. /\ Ranked(t) /\ t.focus = s.focus /\ Len(t.win) = Len(s.win) /\ Index(t) = Index(s)
      /\ \A v \in Index(s) : t.win[v] = IF v = w THEN x ELSE s.win[v]
  <2> HIDE DEF x
  <2> QED BY <1>1, <1>2, ReplacedRanks
<1>4. Maximize(s, s.focus) = t
  BY DEF Maximize
<1> HIDE DEF t, x
<1>5. Flagged(t)
  <2>1. ASSUME NEW v \in Shown(t), v # w
        PROVE  v \in Shown(s) /\ t.win[v] = s.win[v]
    <3>1. v \in Index(s) /\ t.win[v].visible /\ t.win[v].state # "minimized"
      BY <1>3 DEF Shown
    <3>2. t.win[v] = s.win[v]
      BY <1>3, <2>1, <3>1
    <3>3. QED
      BY <3>1, <3>2 DEF Shown
  <2>2. QED
    BY <1>3, <2>1 DEF Sound, Flagged
<1>6. Leading(t)
  BY <1>1, <1>2, <1>3 DEF Sound, Leading
<1>7. QED
  BY <1>3, <1>4, <1>5, <1>6 DEF Sound

LEMMA ClearFocusSound ==
  ASSUME NEW s, Sound(s)
  PROVE  Sound(ClearFocus(s))
<1> DEFINE f == [v \in Index(s) |-> IF v = s.focus THEN [s.win[v] EXCEPT !.focused = FALSE]
                                    ELSE s.win[v]]
           u == [s EXCEPT !.win = f]
<1>1. /\ s.win \in Seq(Window) /\ Index(s) = 1..Len(s.win) /\ Len(s.win) \in Nat
      /\ \A v \in Index(s) : s.win[v] \in Window
  BY WindowsTyped DEF Sound, Ranked, Typed, WMStates, Window
<1>2. f \in [Index(s) -> Window]
  BY <1>1 DEF Window
<1>3. /\ f \in Seq(Window) /\ Len(f) = Len(s.win)
      /\ \A v \in Index(s) : /\ f[v].z = s.win[v].z
                             /\ f[v].visible = s.win[v].visible
                             /\ f[v].state = s.win[v].state
                             /\ f[v].focused = (v # s.focus /\ s.win[v].focused)
  <2>1. \A v \in Index(s) : /\ f[v].z = s.win[v].z
                            /\ f[v].visible = s.win[v].visible
                            /\ f[v].state = s.win[v].state
                            /\ f[v].focused = (v # s.focus /\ s.win[v].focused)
    BY <1>1 DEF Window
  <2> HIDE DEF f
  <2>2. f \in Seq(Window) /\ Len(f) = Len(s.win)
    BY <1>2, ArrayOf DEF Sound, Ranked
  <2>3. QED
    BY <2>1, <2>2
<1>4. ClearFocus(s) = [u EXCEPT !.focus = None]
  BY DEF ClearFocus, Sound, Ranked, Typed, WMStates
<1> HIDE DEF f
<1>5. u \in WMStates /\ u.win = f /\ u.focus = s.focus
  BY <1>3 DEF Sound, Ranked, Typed, WMStates, Window
<1> HIDE DEF u
<1>6. Typed(u) /\ Index(u) = Index(s)
  BY <1>3, <1>5, SameLength DEF Sound, Ranked, Typed
<1>7. Ranked(u)
  BY <1>3, <1>5, <1>6, SameRanks DEF Sound
<1>8. \A v \in Shown(u) : ~u.win[v].focused
  BY <1>3, <1>5, <1>6 DEF Sound, Flagged, Shown
<1>9. QED
  BY <1>4, <1>7, <1>8, Unfocused

-----------------------------------------------------------------------------
(* Callbacks and wm_handle_input: whatever a program does with the mouse or *)
(* a key, every state that can result is sound.                             *)

LEMMA OpenedSound ==
  ASSUME NEW s, Sound(s), NEW t \in Opened(s)
  PROVE  Sound(t)
BY CreateSound DEF Opened

LEMMA OnMouseSound ==
  ASSUME NEW s, Sound(s), NEW w \in Index(s), NEW t \in OnMouse(s, w)
  PROVE  Sound(t)
BY OpenedSound, DestroySound DEF OnMouse

LEMMA KeySound ==
  ASSUME NEW s, Sound(s), NEW t \in Key(s)
  PROVE  Sound(t)
BY OpenedSound, DestroySound DEF Key, OnKey

LEMMA KeysSound ==
  ASSUME NEW s, Sound(s), NEW n, NEW t \in Keys(s, n)
  PROVE  Sound(t)
<1>1. CASE n = 0
  BY <1>1 DEF Keys
<1>2. CASE n = 1
  BY <1>2, KeySound DEF Keys
<1>3. CASE n # 0 /\ n # 1
  <2>1. Keys(s, n) = UNION {Key(u) : u \in Key(s)}
    BY <1>3 DEF Keys, Through
  <2>2. PICK u \in Key(s) : t \in Key(u)
    BY <2>1
  <2>3. QED
    BY <2>2, KeySound
<1>4. QED
  BY <1>1, <1>2, <1>3

LEMMA FocusedWindow ==
  ASSUME NEW s, Sound(s), s.focus # None
  PROVE  s.focus \in Index(s)
BY DEF Sound, Ranked, Typed, WMStates, Index, None

LEMMA MouseToFocusSound ==
  ASSUME NEW s, Sound(s), NEW t \in MouseToFocus(s)
  PROVE  Sound(t)
BY FocusedWindow, OnMouseSound DEF MouseToFocus

LEMMA MovedSound ==
  ASSUME NEW s, Sound(s), NEW e, NEW t \in Moved(s, e)
  PROVE  Sound(t)
<1>1. \E u : Sound(u) /\ (t = u \/ t \in MouseToFocus(u))
  BY MouseToFocusSound DEF Moved, Through
<1>2. QED
  BY <1>1, MouseToFocusSound

(* Only the button state is remembered; and what is dragged is one of the   *)
(* slots.                                                                   *)
LEMMA SeenSound ==
  ASSUME NEW s, Sound(s), NEW l \in BOOLEAN, NEW r \in BOOLEAN,
         NEW t, t = [s EXCEPT !.prevLeft = l, !.prevRight = r]
  PROVE  Sound(t)
<1>1. t \in WMStates /\ t.win = s.win /\ t.focus = s.focus
  BY DEF Sound, Ranked, Typed, WMStates
<1>2. QED
  <2>1. Index(t) = Index(s) /\ Shown(t) = Shown(s) /\ Len(t.win) = Len(s.win)
    BY <1>1 DEF Index, Shown
  <2>2. Ranked(t)
    <3>1. Typed(t)
      BY <1>1 DEF Sound, Ranked, Typed
    <3>2. Numbered(t)
      BY <1>1, <2>1 DEF Sound, Ranked, Numbered
    <3>3. QED
      BY <3>1, <3>2 DEF Ranked
  <2>3. Flagged(t)
    BY <1>1, <2>1 DEF Sound, Flagged
  <2>4. Leading(t)
    BY <1>1, <2>1 DEF Sound, Leading
  <2>5. QED
    BY <2>2, <2>3, <2>4 DEF Sound

LEMMA GripSound ==
  ASSUME NEW s, Sound(s), NEW w \in 0..Slots,
         NEW t \in {[s EXCEPT !.drag = w], [s EXCEPT !.resize = w]}
  PROVE  Sound(t)
<1>1. t \in WMStates /\ t.win = s.win /\ t.focus = s.focus
  BY DEF Sound, Ranked, Typed, WMStates
<1>2. QED
  BY <1>1 DEF Sound, Ranked, Typed, Numbered, Flagged, Leading, Shown, Index

LEMMA UnderIn ==
  ASSUME NEW s, Sound(s), NEW U
  PROVE  Front(s, Shown(s) \cap U) # None =>
           /\ Front(s, Shown(s) \cap U) \in Index(s)
           /\ s.win[Front(s, Shown(s) \cap U)].visible
<1>1. Shown(s) \cap U \in SUBSET Index(s)
  BY DEF Shown
<1>2. Front(s, Shown(s) \cap U) = None \/ Front(s, Shown(s) \cap U) \in Shown(s) \cap U
  BY <1>1, FrontIn DEF Sound
<1>3. QED
  BY <1>2 DEF Shown

LEMMA PressSound ==
  ASSUME NEW s, Sound(s), NEW w \in Index(s), s.win[w].visible, NEW p \in Press(s, w)
  PROVE  Sound(p.s)
<1> DEFINE f == Focus(s, w)
<1>1. Sound(f) /\ f.focus = w /\ w \in Index(f)
  BY FocusSound DEF Sound
<1>2. w # None /\ w \in 0..Slots
  BY SlotsAssumption DEF Sound, Ranked, Typed, WMStates, Index, None
<1>3. Sound(Destroy(f, w)) /\ Sound(Minimize(f, w))
  BY <1>1, DestroySound, MinimizeSound
<1>4. Sound(Maximize(f, w))
  BY <1>1, <1>2, MaximizeSound
<1>5. \A t \in OnMouse(f, w) : Sound(t)
  BY <1>1, OnMouseSound
<1>6. Sound([f EXCEPT !.drag = w]) /\ Sound([f EXCEPT !.resize = w])
  BY <1>1, <1>2, GripSound
<1> HIDE DEF f
<1>7. \/ p.s \in {[f EXCEPT !.drag = w], [f EXCEPT !.resize = w], Destroy(f, w),
                  Minimize(f, w), Maximize(f, w)}
      \/ p.s \in OnMouse(f, w)
  BY DEF Press, f
<1>8. QED
  BY <1>3, <1>4, <1>5, <1>6, <1>7

LEMMA PressedSound ==
  ASSUME NEW s, Sound(s), NEW e, NEW p \in Pressed(s, e)
  PROVE  Sound(p.s)
BY UnderIn, PressSound DEF Pressed

LEMMA RightPressedSound ==
  ASSUME NEW s, Sound(s), NEW e, NEW t \in RightPressed(s, e)
  PROVE  Sound(t)
<1> DEFINE w == Front(s, Shown(s) \cap e.under)
<1>1. CASE t = s
  BY <1>1
<1>2. CASE w # None /\ t \in OnMouse(Focus(s, w), w)
  <2>1. w \in Index(s) /\ s.win[w].visible
    BY <1>2, UnderIn
  <2>2. Sound(Focus(s, w)) /\ w \in Index(Focus(s, w))
    BY <2>1, FocusSound DEF Sound
  <2>3. QED
    BY <1>2, <2>2, OnMouseSound
<1>3. QED
  BY <1>1, <1>2 DEF RightPressed

LEMMA HandleInputSound ==
  ASSUME NEW s, Sound(s), NEW e, e.left \in BOOLEAN, e.right \in BOOLEAN,
         NEW t \in HandleInput(s, e)
  PROVE  Sound(t)
<1>1. \E u : Sound(u) /\ t = Seen(u, e)
  <2>1. CASE s.drag # None \/ s.resize # None
    <3>1. None \in 0..Slots
      BY SlotsAssumption DEF None
    <3>2. Sound([s EXCEPT !.drag = None]) /\ Sound([s EXCEPT !.resize = None])
      BY <3>1, GripSound
    <3>3. QED
      BY <2>1, <3>2 DEF HandleInput
  <2>2. CASE s.drag = None /\ s.resize = None
    <3>1. \E p \in Pressed(s, e) :
            \/ t = Seen(p.s, e)
            \/ \E r \in RightPressed(p.s, e) : \E m \in Moved(r, e) :
                 \E k \in Keys(m, e.keys) : t = Seen(k, e)
      BY <2>2 DEF HandleInput, Through
    <3>2. QED
      BY <3>1, PressedSound, RightPressedSound, MovedSound, KeysSound
  <2>3. QED
    BY <2>1, <2>2
<1>2. PICK u : Sound(u) /\ t = Seen(u, e)
  BY <1>1
<1>3. QED
  BY <1>2, SeenSound DEF Seen

-----------------------------------------------------------------------------
(* The frames of the desktop. *)

FlagsOK == {prevLeft, prevRight, menu, ctx, dialog, rescan, installer} \subseteq BOOLEAN
ItemsOK == table \subseteq Folders /\ icons \subseteq Folders

IInv == Sound(wm) /\ FlagsOK /\ ItemsOK /\ reason \in {-1, 0}

LEMMA EmptySound == Sound(Empty)
<1>1. Empty \in WMStates /\ Empty.win = << >> /\ Empty.focus = None
  BY SlotsAssumption DEF Empty, WMStates, None
<1>2. Len(Empty.win) = 0 /\ Index(Empty) = {}
  BY <1>1 DEF Index
<1>3. Typed(Empty)
  BY <1>1, <1>2, SlotsAssumption DEF Typed, None
<1>4. Numbered(Empty) /\ Flagged(Empty) /\ Leading(Empty)
  BY <1>1, <1>2 DEF Numbered, Flagged, Leading, Shown
<1>5. QED
  BY <1>3, <1>4 DEF Sound, Ranked

LEMMA ScanOK ==
  ASSUME ItemsOK, Scan, table' = table
  PROVE  ItemsOK' /\ rescan' \in BOOLEAN
BY DEF ItemsOK, Scan

LEMMA LaunchedSound ==
  ASSUME NEW s, Sound(s), s = wm, NEW t \in Titles
  PROVE  Sound(Launched(t))
<1> DEFINE mine == {w \in Index(s) : s.win[w].visible /\ s.win[w].title = t}
<1>1. CASE mine = {}
  BY <1>1, CreateSound DEF Launched
<1>2. CASE mine # {}
  <2>1. mine \in SUBSET Nat
    BY DEF Sound, Ranked, Typed, WMStates, Index
  <2>2. \E w \in mine : \A v \in mine : w <= v
    BY <1>2, <2>1, LeastExists
  <2>3. (CHOOSE w \in mine : \A v \in mine : w <= v) \in mine
    BY <2>2
  <2>4. QED
    BY <1>2, <2>3, RefocusSound DEF Launched
<1>3. QED
  BY <1>1, <1>2

(* What a frame does to the windows. *)
LEMMA FrameSound ==
  ASSUME Sound(wm), FlagsOK, NEW e \in Inputs, Frame(e)
  PROVE  Sound(wm')
<1>1. CASE BarFrame(e) \/ CtxFrame(e)
  BY <1>1 DEF BarFrame, CtxFrame
<1>2. CASE PanelFrame(e)
  <2>1. wm' = wm \/ wm' \in Opened(wm) \/ WindowEntry
    BY <1>2 DEF PanelFrame, NoEntry, NewWindow, Quit
  <2>2. ASSUME WindowEntry
        PROVE  Sound(wm')
    <3>1. wm.focus # None /\ wm.focus \in Index(wm)
      BY <2>2, FocusedWindow DEF WindowEntry
    <3>2. QED
      BY <2>2, <3>1, DestroySound, MaximizeSound, KeySound DEF WindowEntry
  <2>3. QED
    BY <2>1, <2>2, OpenedSound
<1>3. CASE CtxPick(e)
  BY <1>3, OpenedSound, ClearFocusSound DEF CtxPick
<1>4. CASE DockFrame(e)
  BY <1>4, LaunchedSound DEF DockFrame
<1>5. CASE WindowFrame(e)
  <2>1. e.left \in BOOLEAN /\ e.right \in BOOLEAN
    BY DEF Inputs
  <2>2. /\ [e EXCEPT !.keys = 0].left = e.left
        /\ [e EXCEPT !.keys = 0].right = e.right
    BY DEF Inputs
  <2> DEFINE d == [e EXCEPT !.keys = 0]
  <2>3. wm' \in HandleInput(wm, e) \/ wm' \in HandleInput(wm, d)
    BY <1>5 DEF WindowFrame
  <2>4. d.left \in BOOLEAN /\ d.right \in BOOLEAN
    BY <2>1, <2>2
  <2> HIDE DEF d
  <2>5. CASE wm' \in HandleInput(wm, e)
    <3> DEFINE w == wm'
    <3>1. w \in HandleInput(wm, e)
      BY <2>5
    <3> HIDE DEF w
    <3>2. Sound(w)
      BY <2>1, <3>1, HandleInputSound
    <3>3. QED
      BY <3>2 DEF w
  <2>6. CASE wm' \in HandleInput(wm, d)
    <3> DEFINE w == wm'
    <3>1. w \in HandleInput(wm, d)
      BY <2>6
    <3> HIDE DEF w
    <3>2. Sound(w)
      BY <2>4, <3>1, HandleInputSound
    <3>3. QED
      BY <3>2 DEF w
  <2>7. QED
    BY <2>3, <2>5, <2>6
<1>6. QED
  BY <1>1, <1>2, <1>3, <1>4, <1>5 DEF Frame

(* What a frame does to the rest. *)
LEMMA FrameTyped ==
  ASSUME FlagsOK, ItemsOK, reason \in {-1, 0}, NEW e \in Inputs, Frame(e)
  PROVE  FlagsOK' /\ ItemsOK' /\ reason' \in {-1, 0}
<1>1. e.left \in BOOLEAN /\ e.right \in BOOLEAN
  BY DEF Inputs
<1>2. CASE BarFrame(e)
  BY <1>1, <1>2 DEF BarFrame, After, FlagsOK, ItemsOK, items
<1>3. CASE PanelFrame(e)
  BY <1>1, <1>3 DEF PanelFrame, NoEntry, NewWindow, WindowEntry, Quit, After, FlagsOK, ItemsOK, items
<1>4. CASE CtxFrame(e)
  BY <1>1, <1>4, ScanOK DEF CtxFrame, Offered, Click, After, FlagsOK
<1>5. CASE CtxPick(e)
  BY <1>1, <1>5, ScanOK DEF CtxPick, Offered, Click, After, FlagsOK
<1>6. CASE DockFrame(e)
  BY <1>1, <1>6, ScanOK DEF DockFrame, Passed, Offered, DialogStays, Click, After, FlagsOK
<1>7. CASE WindowFrame(e)
  <2>1. ItemsOK' /\ rescan' \in BOOLEAN /\ dialog' \in BOOLEAN
    BY <1>7, ScanOK DEF WindowFrame, DialogKeys, DialogStays, Click, ItemsOK, FlagsOK
  <2>2. QED
    BY <1>1, <1>7, <2>1 DEF WindowFrame, Passed, Offered, Click, After, FlagsOK
<1>8. QED
  BY <1>2, <1>3, <1>4, <1>5, <1>6, <1>7 DEF Frame

LEMMA IInvInductive == IInv /\ [Next]_vars => IInv'
<1> SUFFICES ASSUME IInv, [Next]_vars
             PROVE  IInv'
  OBVIOUS
<1>1. CASE UNCHANGED vars
  BY <1>1 DEF IInv, FlagsOK, ItemsOK, vars, ui, items, buttons
<1>2. CASE \E e \in Inputs : Frame(e)
  BY <1>2, FrameSound, FrameTyped DEF IInv
<1>3. QED
  BY <1>1, <1>2 DEF Next, Ended

LEMMA IInvInvariant == Spec => []IInv
<1>1. Init => IInv
  <2> SUFFICES ASSUME Init
               PROVE  IInv
    OBVIOUS
  <2>1. Sound(wm)
    BY EmptySound, OpenedSound, CreateSound DEF Init
  <2>2. QED
    BY <2>1 DEF Init, IInv, FlagsOK, ItemsOK
<1>2. QED
  BY <1>1, IInvInductive, PTL DEF Spec

-----------------------------------------------------------------------------
(* The theorems. *)

(* No frame leaves the window array, its ranks or the slots that the focus, *)
(* a drag and a resize point to.                                            *)
THEOREM TypeCorrect == Spec => []TypeOK
<1>1. IInv => TypeOK
  BY DEF IInv, TypeOK, Sound, Ranked, Typed, FlagsOK, ItemsOK
<1>2. QED
  BY <1>1, IInvInvariant, PTL

(* wm_draw_all finds a window for each rank, and so draws them all: the     *)
(* creation, focus and removal of windows keep z_order a numbering.         *)
THEOREM AllWindowsDrawn == Spec => []EveryWindowDrawn
<1>1. ASSUME IInv
      PROVE  EveryWindowDrawn
  <2>1. \A v \in Index(wm) : wm.win[v].z \in 0..(Len(wm.win) - 1)
    BY <1>1 DEF IInv, Sound, Ranked, Numbered
  <2>2. \A k \in 0..(Len(wm.win) - 1) : \E v \in Index(wm) : wm.win[v].z = k
    BY <1>1 DEF IInv, Sound, Ranked, Numbered
  <2>3. QED
    BY <2>1, <2>2 DEF EveryWindowDrawn, RanksDiffer
<1>2. QED
  BY <1>1, IInvInvariant, PTL

(* The keys go to the window in front, which exists and is the only one on  *)
(* the screen drawn as focused.                                             *)
THEOREM FocusIsDrawn == Spec => []FocusAsDrawn
<1>1. ASSUME IInv
      PROVE  FocusAsDrawn
  <2>1. FocusInFront(wm)
    BY <1>1 DEF IInv, Sound, Leading, FocusInFront
  <2>2. FlagMeansFocus(wm)
    <3> SUFFICES ASSUME NEW w \in Shown(wm)
                 PROVE  wm.win[w].focused <=> wm.focus = w
      BY DEF FlagMeansFocus
    <3>1. w # None
      BY <1>1 DEF IInv, Sound, Ranked, Typed, WMStates, Shown, Index, None
    <3>2. QED
      BY <1>1, <3>1 DEF IInv, Sound, Flagged, Leading
  <2>3. QED
    BY <2>1, <2>2 DEF FocusAsDrawn
<1>2. QED
  BY <1>1, IInvInvariant, PTL

-----------------------------------------------------------------------------
(* Remainders. *)

LEMMA Division ==
  ASSUME NEW N \in Nat \ {0}, NEW a \in Int
  PROVE  /\ a \div N \in Int /\ a % N \in 0..(N - 1) /\ a % N \in Int
         /\ a = N * (a \div N) + (a % N)
OBVIOUS

(* A remainder is known by its range. *)
LEMMA OneRemainder ==
  ASSUME NEW N \in Nat \ {0}, NEW q \in Int, NEW p \in Int,
         NEW r \in 0..(N - 1), NEW s \in 0..(N - 1), N * q + r = N * p + s
  PROVE  r = s
<1>1. N * (q - p) = s - r
  OBVIOUS
<1>2. q - p >= 1 => N * (q - p) >= N
  OBVIOUS
<1>3. q - p <= -1 => N * (q - p) <= -N
  OBVIOUS
<1>4. QED
  BY <1>1, <1>2, <1>3

LEMMA Remainder ==
  ASSUME NEW N \in Nat \ {0}, NEW a \in Int, NEW p \in Int, NEW s \in 0..(N - 1),
         a = N * p + s
  PROVE  a % N = s
<1>1. /\ a \div N \in Int /\ a % N \in 0..(N - 1)
      /\ N * (a \div N) + (a % N) = N * p + s
  BY Division
<1>2. QED
  BY <1>1, OneRemainder

(* A counter that wraps tells how far it has gone, if that is less than its  *)
(* period.                                                                   *)
LEMMA Elapsed ==
  ASSUME NEW N \in Nat \ {0}, NEW a \in Int, NEW d \in 0..(N - 1)
  PROVE  (((a + d) % N) - (a % N)) % N = d
<1>1. a \div N \in Int /\ a % N \in Int /\ a = N * (a \div N) + (a % N)
  BY Division
<1>2. \A b \in Int : b \div N \in Int /\ b % N \in Int /\ b = N * (b \div N) + (b % N)
  BY Division
<1>3. /\ (a + d) \div N \in Int /\ (a + d) % N \in Int
      /\ a + d = N * ((a + d) \div N) + ((a + d) % N)
  <2>1. a + d \in Int
    OBVIOUS
  <2>2. QED
    BY <1>2, <2>1
<1>4. (N * (a \div N) + (a % N)) + d = N * ((a + d) \div N) + ((a + d) % N)
  BY <1>1, <1>3
<1> DEFINE u == a \div N
           v == (a + d) \div N
           r == a % N
           t == (a + d) % N
<1>5. u \in Int /\ v \in Int /\ r \in Int /\ t \in Int /\ (N * u + r) + d = N * v + t
  BY <1>1, <1>3, <1>4
<1>6. SUFFICES (t - r) % N = d
  BY Zenon
<1> HIDE DEF u, v, r, t
<1>7. t - r = N * (u - v) + d /\ t - r \in Int /\ u - v \in Int
  BY <1>5
<1>8. QED
  BY <1>7, Remainder

-----------------------------------------------------------------------------
(* Accounts.  UsersOK is inductive; to GraceIsEarned the invariant adds that *)
(* what the grace period remembers is the last proof, and that a command run *)
(* without a question ran inside the desktop.                                *)

Hashed == {Hash[w] : w \in Words}
UserEntry == [name : Names, hash : Hashed]

UsersOK ==
  /\ users \in Seq(UserEntry) /\ Len(users) \in 1..MaxUsers
  /\ user \in Names /\ profile \in Names
  /\ TableSound

GraceOK ==
  /\ start \in Nat /\ now \in start..(start + MaxElapsed)
  /\ asRoot => inside
  /\ grace.tick # 0 =>
       /\ proof.user = grace.user /\ proof.at \in start..now
       /\ grace.tick = proof.at % TickWords

LEMMA AccountsSteps ==
  ASSUME [SessionNext]_all
  PROVE  [Who!Next]_whoVars
BY DEF SessionNext, all, programs, others, windows, tools, shell, DesktopNext,
  KeyboardNext, AccountsNext, RendererNext, BrowserNext, DocumentNext, NotepadNext,
  PaintNext, SnakeNext, ExplorerNext, MakeNext, CalculatorNext, TerminalNext, ToolsNext

(* The shape of a user table, and of what a command makes of it.            *)
TableOf(us) ==
  /\ us \in Seq(UserEntry) /\ Len(us) \in 1..MaxUsers
  /\ \E i \in 1..Len(us) : us[i].name = "root"
  /\ \A i, m \in 1..Len(us) : us[i].name = us[m].name => i = m

LEMMA UsersTable == UsersOK <=> TableOf(users) /\ user \in Names /\ profile \in Names
BY DEF UsersOK, TableOf, TableSound, Who!TableSound, Who!Named

(* The first entry of a name is its only one. *)
LEMMA FirstNamed ==
  ASSUME UsersOK, NEW n, Who!Named(n) # {}
  PROVE  Who!First(Who!Named(n)) \in 1..Len(users) /\ users[Who!First(Who!Named(n))].name = n
<1>1. PICK i \in 1..Len(users) : users[i].name = n
  BY DEF Who!Named
<1>2. \A m \in Who!Named(n) : m = i
  BY <1>1 DEF UsersOK, TableSound, Who!TableSound, Who!Named
<1>3. Who!Named(n) = {i}
  BY <1>1, <1>2 DEF Who!Named
<1>4. i \in Int
  BY <1>1
<1>5. Who!First({i}) = i
  BY <1>4 DEF Who!First
<1>6. QED
  BY <1>1, <1>3, <1>5

LEMMA UserAdded ==
  ASSUME UsersOK, NEW n \in Names, NEW w \in Words, Who!cmd_useradd(n, w)
  PROVE  TableOf(users')
<1> DEFINE e == [name |-> n, hash |-> Hash[w]]
<1>1. e \in UserEntry /\ e.name = n
  BY DEF UserEntry, Hashed
<1>2. /\ users' = Append(users, e) /\ Len(users) < MaxUsers
      /\ \A i \in 1..Len(users) : users[i].name # n
  <2>1. users' = Append(users, e) /\ Len(users) < MaxUsers /\ Who!Named(n) = {}
    BY Zenon DEF Who!cmd_useradd
  <2>2. QED
    BY <2>1 DEF Who!Named
<1>3. TableOf(users)
  BY UsersTable
<1> HIDE DEF e
<1>4. /\ users' \in Seq(UserEntry) /\ Len(users') = Len(users) + 1
      /\ \A i \in 1..Len(users) : users'[i] = users[i]
      /\ users'[Len(users) + 1] = e
  BY <1>1, <1>2, <1>3 DEF TableOf
<1>5. Len(users) \in Nat /\ Len(users) >= 1 /\ MaxUsers \in Nat
  BY <1>3, AccountsAssumption DEF TableOf
<1>6. \A i \in 1..Len(users') : i \in 1..Len(users) \/ i = Len(users) + 1
  BY <1>4, <1>5
<1>7. QED
  <2>1. \E i \in 1..Len(users') : users'[i].name = "root"
    BY <1>3, <1>4, <1>5 DEF TableOf
  <2>2. ASSUME NEW i \in 1..Len(users'), NEW m \in 1..Len(users'),
               users'[i].name = users'[m].name
        PROVE  i = m
    BY <1>1, <1>2, <1>3, <1>4, <1>6, <2>2 DEF TableOf
  <2>3. QED
    BY <1>2, <1>4, <1>5, <2>1, <2>2 DEF TableOf

LEMMA UserDeleted ==
  ASSUME UsersOK, NEW n \in Names, NEW who, NEW w, Who!cmd_userdel(who, n, w)
  PROVE  TableOf(users')
<1> DEFINE k == Who!First(Who!Named(n))
<1>1. /\ n # "root" /\ Who!Named(n) # {}
      /\ users' = SubSeq(users, 1, k - 1) \o SubSeq(users, k + 1, Len(users))
  BY DEF Who!cmd_userdel
<1>2. k \in 1..Len(users) /\ users[k].name = n
  BY <1>1, FirstNamed
<1> HIDE DEF k
<1>3. TableOf(users)
  BY UsersTable
<1> DEFINE at(i) == IF i < k THEN i ELSE i + 1
<1>4. /\ users' \in Seq(UserEntry) /\ Len(users') = Len(users) - 1
      /\ \A i \in 1..Len(users') : users'[i] = users[at(i)]
  <2>1. users \in Seq(UserEntry) /\ k - 1 \in 0..Len(users) /\ k + 1 \in 1..(Len(users) + 1)
    BY <1>2, <1>3 DEF TableOf
  <2>2. /\ SubSeq(users, 1, k - 1) \in Seq(UserEntry) /\ Len(SubSeq(users, 1, k - 1)) = k - 1
        /\ \A i \in 1..(k - 1) : SubSeq(users, 1, k - 1)[i] = users[i]
    BY <1>2, <2>1, SubSeqProperties
  <2>3. /\ SubSeq(users, k + 1, Len(users)) \in Seq(UserEntry)
        /\ Len(SubSeq(users, k + 1, Len(users))) = Len(users) - k
        /\ \A i \in 1..(Len(users) - k) : SubSeq(users, k + 1, Len(users))[i] = users[k + i]
    BY <1>2, <2>1, SubSeqProperties
  <2> DEFINE s == SubSeq(users, 1, k - 1)
             t == SubSeq(users, k + 1, Len(users))
  <2>4. s \in Seq(UserEntry) /\ Len(s) = k - 1 /\ \A i \in 1..(k - 1) : s[i] = users[i]
    BY <2>2
  <2>5. t \in Seq(UserEntry) /\ Len(t) = Len(users) - k
        /\ \A i \in 1..(Len(users) - k) : t[i] = users[k + i]
    BY <2>3
  <2>6. users' = s \o t
    BY <1>1
  <2> HIDE DEF s, t
  <2>7. Len(users) \in Nat /\ k \in 1..Len(users)
    BY <1>2, <2>1
  <2>8. users' \in Seq(UserEntry) /\ Len(users') = Len(users) - 1
    <3>1. s \o t \in Seq(UserEntry) /\ Len(s \o t) = Len(s) + Len(t)
      BY <2>4, <2>5
    <3>2. QED
      BY <2>4, <2>5, <2>6, <2>7, <3>1
  <2>9. ASSUME NEW i \in 1..Len(users')
        PROVE  users'[i] = users[at(i)]
    <3>1. CASE i < k
      BY <2>4, <2>5, <2>6, <2>7, <2>8, <3>1
    <3>2. CASE i >= k
      <4>1. i - Len(s) \in 1..(Len(users) - k) /\ k + (i - Len(s)) = i + 1
        <5>1. i \in 1..(Len(users) - 1) /\ Len(s) = k - 1
          BY <2>4, <2>8
        <5>2. QED
          BY <2>7, <3>2, <5>1
      <4>2. users'[i] = t[i - Len(s)]
        BY <2>4, <2>5, <2>6, <2>7, <2>8, <3>2
      <4>3. QED
        <5>1. t[i - Len(s)] = users[i + 1]
          BY <2>5, <4>1
        <5>2. at(i) = i + 1
          BY <2>7, <2>8, <3>2
        <5>3. QED
          BY <4>2, <5>1, <5>2
    <3>3. QED
      BY <2>7, <3>1, <3>2
  <2>10. QED
    BY <2>8, <2>9
<1>5. Len(users) \in Nat /\ Len(users) \in 1..MaxUsers /\ k \in 1..Len(users) /\ MaxUsers \in Nat
  BY <1>2, <1>3, AccountsAssumption DEF TableOf
<1>6. PICK r \in 1..Len(users) : users[r].name = "root"
  BY <1>3 DEF TableOf
<1>7. r # k
  BY <1>1, <1>2, <1>6
<1>8. \E i \in 1..Len(users') : at(i) = r
  <2>1. CASE r < k
    BY <1>4, <1>5, <1>6, <2>1
  <2>2. CASE r > k
    <3>1. r - 1 \in 1..Len(users') /\ at(r - 1) = r
      BY <1>4, <1>5, <1>6, <2>2
    <3>2. QED
      BY <3>1
  <2>3. QED
    BY <1>5, <1>6, <1>7, <2>1, <2>2
<1>9. \A i, m \in 1..Len(users') : at(i) \in 1..Len(users) /\ (at(i) = at(m) => i = m)
  BY <1>4, <1>5
<1>10. Len(users') \in 1..MaxUsers
  BY <1>4, <1>5, <1>6, <1>7
<1> HIDE DEF at
<1>11. QED
  <2>1. \E i \in 1..Len(users') : users'[i].name = "root"
    BY <1>4, <1>6, <1>8
  <2>2. \A i, m \in 1..Len(users') : users'[i].name = users'[m].name => i = m
    <3>1. ASSUME NEW i \in 1..Len(users'), NEW m \in 1..Len(users'),
                 users'[i].name = users'[m].name
          PROVE  i = m
      <4>1. users[at(i)].name = users[at(m)].name
        BY <1>4, <3>1
      <4>2. at(i) \in 1..Len(users) /\ at(m) \in 1..Len(users)
        BY <1>9
      <4>3. at(i) = at(m)
        BY <1>3, <4>1, <4>2 DEF TableOf
      <4>4. QED
        BY <1>9, <4>3
    <3>2. QED
      BY <3>1
  <2>3. QED
    BY <1>4, <1>10, <2>1, <2>2 DEF TableOf

LEMMA PasswordSet ==
  ASSUME UsersOK, NEW n \in Names, NEW who, NEW old, NEW w \in Words,
         Who!cmd_passwd(who, n, old, w)
  PROVE  TableOf(users')
<1> DEFINE k == Who!First(Who!Named(n))
<1>1. Who!Named(n) # {} /\ users' = [users EXCEPT ![k].hash = Hash[w]]
  BY Zenon DEF Who!cmd_passwd
<1>2. k \in 1..Len(users)
  BY <1>1, FirstNamed
<1> HIDE DEF k
<1>3. TableOf(users)
  BY UsersTable
<1>4. Hash[w] \in Hashed
  BY DEF Hashed
<1> DEFINE e == [users[k] EXCEPT !.hash = Hash[w]]
<1>5. users[k] \in UserEntry
  BY <1>2, <1>3 DEF TableOf
<1>6. e \in UserEntry /\ e.name = users[k].name
  BY <1>4, <1>5 DEF UserEntry
<1>7. users' = [users EXCEPT ![k] = e]
  BY <1>1
<1> HIDE DEF e
<1>8. /\ users' \in Seq(UserEntry) /\ Len(users') = Len(users)
      /\ \A i \in 1..Len(users) : users'[i] = IF i = k THEN e ELSE users[i]
  <2>1. users \in Seq(UserEntry)
    BY <1>3 DEF TableOf
  <2>2. PICK us : us = users
    OBVIOUS
  <2>3. us \in Seq(UserEntry) /\ k \in 1..Len(us) /\ e \in UserEntry
    BY <1>2, <1>6, <2>1, <2>2
  <2>4. PICK vs : vs = [us EXCEPT ![k] = e]
    OBVIOUS
  <2>5. /\ vs \in Seq(UserEntry) /\ Len(vs) = Len(us)
        /\ \A i \in 1..Len(us) : vs[i] = IF i = k THEN e ELSE us[i]
    BY <2>3, <2>4, ExceptSeq
  <2>6. QED
    BY <1>7, <2>2, <2>4, <2>5, Zenon
<1>9. \A i \in 1..Len(users) : users'[i].name = users[i].name
  BY <1>6, <1>8
<1>10. QED
  BY <1>3, <1>8, <1>9 DEF TableOf

LEMMA TableCommands ==
  ASSUME UsersOK, NEW who, Who!TableCommand(who)
  PROVE  TableOf(users')
<1>1. CASE UNCHANGED users
  BY <1>1, UsersTable
<1>2. CASE \E n \in Names, w \in Words : Who!cmd_useradd(n, w) \/ Who!cmd_userdel(who, n, w)
  BY <1>2, UserAdded, UserDeleted
<1>3. CASE \E n \in Names, old \in Words \cup {"given"}, w \in Words :
             Who!cmd_passwd(who, n, old, w)
  BY <1>3, PasswordSet
<1>4. QED
  BY <1>1, <1>2, <1>3 DEF Who!TableCommand

LEMMA UsersStep ==
  ASSUME UsersOK, [Who!Next]_whoVars
  PROVE  UsersOK'
<1>1. TableOf(users) /\ user \in Names /\ profile \in Names
  BY UsersTable
<1>2. SUFFICES TableOf(users') /\ user' \in Names /\ profile' \in Names
  BY DEF UsersOK, TableOf, TableSound, Who!TableSound, Who!Named
<1>3. ASSUME Who!Command PROVE TableOf(users') /\ user' \in Names
  <2>1. CASE Who!TableCommand(user) /\ UNCHANGED user
    BY <1>1, <2>1, TableCommands
  <2>2. CASE (\E n \in Names, w \in Words : Who!cmd_login(n, w)) /\ UNCHANGED users
    <3>1. user' \in Names /\ users' = users
      BY <2>2, Zenon DEF Who!cmd_login
    <3>2. QED
      BY <1>1, <3>1
  <2>3. CASE Who!cmd_logout /\ UNCHANGED users
    BY <1>1, <2>3, AccountsAssumption DEF Who!cmd_logout
  <2>4. QED
    BY <1>3, <2>1, <2>2, <2>3 DEF Who!Command
<1>4. CASE Who!Tick \/ Who!Round \/ Who!Return \/ Who!TerminalClosed \/ UNCHANGED whoVars
  BY <1>1, <1>4 DEF Who!Tick, Who!Round, Who!OnScreen, Who!Return, Who!TerminalClosed,
    Who!Kept, whoVars
<1>5. CASE Who!Shell \/ Who!SudoAtOnce
  BY <1>1, <1>3, <1>5 DEF Who!Shell, Who!SudoAtOnce, Who!Kept
<1>6. CASE Who!SudoAsks
  BY <1>1, <1>6, TableCommands DEF Who!SudoAsks
<1>7. CASE Who!SetProfile
  <2>1. PICK i \in 1..Len(users) : profile' = users[i].name
    BY <1>7 DEF Who!SetProfile
  <2>2. users[i] \in UserEntry
    BY <1>1 DEF TableOf
  <2>3. profile' \in Names
    BY <2>1, <2>2 DEF UserEntry
  <2>4. QED
    BY <1>1, <1>7, <2>3 DEF Who!SetProfile
<1>8. CASE Who!Boot
  BY <1>1, <1>8 DEF Who!Boot
<1>9. QED
  BY <1>4, <1>5, <1>6, <1>7, <1>8 DEF Who!Next

(* Through every order of USERADD, USERDEL, PASSWD, LOGIN and SUDO there is  *)
(* a root, and a name has one entry: the lookups of commands.c that stop at  *)
(* the first one reach them all.                                             *)
THEOREM AccountsTable == SessionSpec => []TableSound
<1>1. SessionInit => UsersOK
  BY AccountsAssumption DEF SessionInit, Starting, Who!Init, UsersOK, UserEntry, Hashed,
    TableSound, Who!TableSound, Who!Named
<1>2. UsersOK /\ [SessionNext]_all => UsersOK'
  BY UsersStep, AccountsSteps
<1>3. UsersOK => TableSound
  BY DEF UsersOK
<1>4. QED
  BY <1>1, <1>2, <1>3, PTL DEF SessionSpec

LEMMA GraceStep ==
  ASSUME GraceOK, [Who!Next]_whoVars
  PROVE  GraceOK'
<1>1. CASE Who!Tick
  BY <1>1, AccountsAssumption DEF Who!Tick, GraceOK
<1>2. CASE Who!Round \/ Who!Return \/ UNCHANGED whoVars
  BY <1>2 DEF Who!Round, Who!OnScreen, Who!Return, whoVars, GraceOK
<1>3. CASE Who!Shell \/ Who!SudoAtOnce \/ Who!SetProfile
  BY <1>3 DEF Who!Shell, Who!SudoAtOnce, Who!SetProfile, Who!InShell, Who!Kept, GraceOK
<1>4. CASE Who!SudoAsks
  BY <1>4 DEF Who!SudoAsks, Who!InShell, Who!get_ticks, GraceOK
<1>5. CASE Who!TerminalClosed
  BY <1>5 DEF Who!TerminalClosed, Who!InShell, Who!Kept, GraceOK
<1>6. CASE Who!Boot
  <2>1. /\ ~inside' /\ ~asRoot' /\ grace'.tick = 0 /\ start' \in Nat /\ now' = start'
    BY <1>6, AccountsAssumption DEF Who!Boot
  <2>2. QED
    <3>1. start' \in Nat /\ now' \in start'..(start' + MaxElapsed)
      <4>1. start' \in Nat /\ now' = start'
        BY <2>1
      <4>2. MaxElapsed \in Nat
        BY AccountsAssumption
      <4>3. \A a, b \in Nat : a \in a..(a + b)
        OBVIOUS
      <4>4. QED
        BY <4>1, <4>2, <4>3, Zenon
    <3>2. QED
      BY <2>1, <3>1 DEF GraceOK
<1>7. QED
  BY <1>1, <1>2, <1>3, <1>4, <1>5, <1>6 DEF Who!Next

LEMMA GraceRuns ==
  ASSUME GraceOK, [Who!Next]_whoVars, whoVars' # whoVars, asRoot'
  PROVE  proof.user = user /\ now - proof.at < Timeout
<1>1. Who!SudoAtOnce
  <2>1. ~(Who!Round \/ Who!Return)
    BY DEF Who!Round, Who!OnScreen, Who!Return, GraceOK
  <2>2. ~(Who!Tick \/ Who!Shell \/ Who!SudoAsks \/ Who!TerminalClosed \/ Who!SetProfile \/ Who!Boot)
    BY DEF Who!Tick, Who!Shell, Who!SudoAsks, Who!TerminalClosed, Who!SetProfile, Who!Boot
  <2>3. QED
    BY <2>1, <2>2 DEF Who!Next
<1>2. Who!Grace
  BY <1>1 DEF Who!SudoAtOnce
<1>3. /\ grace.tick # 0 /\ grace.user = user
      /\ ((now % TickWords) - grace.tick) % TickWords < Timeout
  BY <1>2 DEF Who!Grace, Who!get_ticks
<1>4. /\ proof.user = user /\ proof.at \in start..now
      /\ grace.tick = proof.at % TickWords
  BY <1>3 DEF GraceOK
<1> DEFINE d == now - proof.at
<1>5. proof.at \in Int /\ d \in 0..(TickWords - 1) /\ proof.at + d = now
  BY <1>4, AccountsAssumption DEF GraceOK
<1> HIDE DEF d
<1>6. (((proof.at + d) % TickWords) - (proof.at % TickWords)) % TickWords = d
  BY <1>5, Elapsed, AccountsAssumption
<1>7. ((now % TickWords) - grace.tick) % TickWords = d
  BY <1>4, <1>5, <1>6, Zenon
<1>8. d < Timeout
  BY <1>3, <1>7, Zenon
<1>9. QED
  BY <1>4, <1>8 DEF d

(* SUDO runs a command without asking only for the user who passed its      *)
(* prompt less than SUDO_TIMEOUT_TICKS ago, wherever the tick counter has    *)
(* wrapped in between and whoever was logged in.                             *)
THEOREM AccountsGrace == SessionSpec => GraceIsEarned
<1>1. SessionInit => GraceOK
  BY AccountsAssumption DEF SessionInit, Starting, Who!Init, GraceOK
<1>2. GraceOK /\ [SessionNext]_all => GraceOK'
  BY GraceStep, AccountsSteps
<1>3. GraceOK /\ [SessionNext]_all =>
        [asRoot' => proof.user = user /\ now - proof.at < Timeout]_whoVars
  BY GraceRuns, AccountsSteps
<1>4. QED
  BY <1>1, <1>2, <1>3, PTL DEF SessionSpec, GraceIsEarned, Who!GraceIsEarned, Who!vars, whoVars

-----------------------------------------------------------------------------
(* The keyboard.  Key t was stored into cell (t - 1) % Ring, so the ring     *)
(* holds the last Ring keys.  Of them those after the s-th are still to come *)
(* for who reads the ring; when the interrupt has gone round once more, all  *)
(* of them are lost at a stroke, and s is all that was typed.                *)

LEMMA Apart ==
  ASSUME NEW N \in Nat \ {0}, NEW a \in Int, NEW b \in Int, b - a \in 1..(N - 1)
  PROVE  a % N # b % N
<1> DEFINE d == b - a
           x == a % N
           y == b % N
<1>1. d \in 0..(N - 1) /\ d # 0 /\ a + d = b
  OBVIOUS
<1> HIDE DEF d
<1>2. (((a + d) % N) - x) % N = d
  BY <1>1, Elapsed
<1>3. (y - x) % N = d
  BY <1>1, <1>2, Zenon
<1>4. x \in Int /\ y \in Int
  BY Division
<1> HIDE DEF x, y
<1>5. ASSUME x = y PROVE FALSE
  <2>1. y - x = N * 0 + 0 /\ y - x \in Int
    BY <1>4, <1>5
  <2>2. (y - x) % N = 0
    BY <2>1, Remainder
  <2>3. QED
    BY <1>1, <1>3, <2>2
<1>6. QED
  BY <1>5 DEF x, y

LEMMA NextCell ==
  ASSUME NEW N \in Nat \ {0}, NEW a \in Int
  PROVE  ((a % N) + 1) % N = (a + 1) % N
<1> DEFINE q == a \div N
           r == a % N
<1>1. q \in Int /\ r \in 0..(N - 1) /\ a = N * q + r
  BY Division
<1> HIDE DEF q, r
<1> SUFFICES (r + 1) % N = (a + 1) % N
  BY Zenon DEF r
<1>2. CASE r + 1 < N
  <2>1. a + 1 = N * q + (r + 1) /\ r + 1 = N * 0 + (r + 1) /\ r + 1 \in 0..(N - 1)
        /\ a + 1 \in Int
    BY <1>1, <1>2
  <2>2. (a + 1) % N = r + 1
    BY <1>1, <2>1, Remainder
  <2>3. (r + 1) % N = r + 1
    BY <2>1, Remainder
  <2>4. QED
    BY <2>2, <2>3, Zenon
<1>3. CASE r + 1 >= N
  <2>1. a + 1 = N * (q + 1) + 0 /\ r + 1 = N * 1 + 0 /\ q + 1 \in Int /\ a + 1 \in Int
        /\ r + 1 \in Int /\ 0 \in 0..(N - 1)
    BY <1>1, <1>3
  <2>2. (a + 1) % N = 0
    BY <2>1, Remainder
  <2>3. (r + 1) % N = 0
    BY <2>1, Remainder
  <2>4. QED
    BY <2>2, <2>3, Zenon
<1>4. QED
  BY <1>1, <1>2, <1>3

RingOK ==
  /\ typed \in Nat /\ DOMAIN ring = Typing!Cells /\ head = typed % Ring
  /\ \A t \in 1..typed : t > typed - Ring => ring[(t - 1) % Ring] = t

(* The first s keys have left the ring, read or lost.  The last key that was *)
(* received is one of them, and so is the later one in the mailbox of a      *)
(* command; once the prompt reads, both come after the question.             *)
Left(s) ==
  /\ s \in 0..typed /\ typed - s < Ring /\ tail = s % Ring
  /\ got \in 0..s /\ asked \in 0..typed
  /\ phase # "edit" => mailbox = 0 \/ mailbox \in (got + 1)..s
  /\ phase \in {"read", "light"} => asked <= s /\ (mailbox = 0 \/ mailbox > asked)

KeysOK == RingOK /\ \E s \in 0..typed : Left(s)

LEMMA KeyboardSteps ==
  ASSUME [SessionNext]_all
  PROVE  [Typing!Next]_keyVars
BY DEF SessionNext, all, programs, others, windows, tools, shell, DesktopNext,
  KeyboardNext, AccountsNext, RendererNext, BrowserNext, DocumentNext, NotepadNext,
  PaintNext, SnakeNext, ExplorerNext, MakeNext, CalculatorNext, TerminalNext, ToolsNext

(* What sys_kb_hit finds and sys_getkey returns. *)
LEMMA NextKey ==
  ASSUME RingOK, NEW s \in 0..typed, Left(s)
  PROVE  /\ Typing!Hit <=> s < typed
         /\ Typing!Hit => ring[tail] = s + 1
         /\ (tail + 1) % Ring = (s + 1) % Ring
<1>1. typed \in Nat /\ s \in Nat /\ Ring \in Nat \ {0} /\ typed - s < Ring /\ s <= typed
  BY KeyboardAssumption DEF RingOK, Left
<1>2. tail = s % Ring /\ head = typed % Ring
  BY DEF RingOK, Left
<1>3. s < typed => tail # head
  <2>1. ASSUME s < typed PROVE s % Ring # typed % Ring
    <3>1. typed - s \in 1..(Ring - 1) /\ s \in Int /\ typed \in Int
      BY <1>1, <2>1
    <3>2. QED
      BY <1>1, <3>1, Apart
  <2>2. QED
    BY <1>2, <2>1, Zenon
<1>4. s = typed => tail = head
  BY <1>2, Zenon
<1>5. Typing!Hit <=> s < typed
  BY <1>1, <1>3, <1>4 DEF Typing!Hit
<1>6. ASSUME s < typed PROVE ring[tail] = s + 1
  <2>1. s + 1 \in 1..typed /\ s + 1 > typed - Ring /\ (s + 1) - 1 = s
    BY <1>1, <1>6
  <2>2. ring[((s + 1) - 1) % Ring] = s + 1
    BY <2>1 DEF RingOK
  <2>3. QED
    BY <1>2, <2>1, <2>2, Zenon
<1>7. (tail + 1) % Ring = (s + 1) % Ring
  <2>1. s \in Int
    BY <1>1
  <2>2. ((s % Ring) + 1) % Ring = (s + 1) % Ring
    BY <1>1, <2>1, NextCell
  <2>3. QED
    BY <1>2, <2>2, Zenon
<1>8. QED
  BY <1>5, <1>6, <1>7

(* The interrupt stores one more key. *)
LEMMA KeyTyped ==
  ASSUME KeysOK, Typing!Type
  PROVE  KeysOK'
<1>1. PICK s \in 0..typed : Left(s)
  BY DEF KeysOK
<1>2. typed \in Nat /\ Ring \in Nat \ {0} /\ s \in Nat /\ RingOK
  BY <1>1, KeyboardAssumption DEF KeysOK, RingOK
<1>3. /\ typed' = typed + 1 /\ ring' = [ring EXCEPT ![head] = typed + 1]
      /\ head' = (head + 1) % Ring
      /\ UNCHANGED <<tail, mailbox, focus, phase, got, asked>>
  BY DEF Typing!Type
<1>4. head = typed % Ring /\ head \in Typing!Cells
  <2>1. typed % Ring \in 0..(Ring - 1)
    BY <1>2, Division
  <2>2. QED
    BY <1>2, <2>1, Zenon DEF RingOK, Typing!Cells
<1>5. head' = typed' % Ring
  <2>1. typed \in Int
    BY <1>2
  <2>2. ((typed % Ring) + 1) % Ring = (typed + 1) % Ring
    BY <1>2, <2>1, NextCell
  <2>3. QED
    BY <1>3, <1>4, <2>2, Zenon
<1>6. ASSUME NEW t \in 1..typed', t > typed' - Ring
      PROVE  ring'[(t - 1) % Ring] = t
  <2>1. CASE t = typed'
    <3>1. t - 1 = typed
      BY <1>2, <1>3, <2>1
    <3>2. ring'[head] = typed + 1
      BY <1>2, <1>3, <1>4 DEF RingOK
    <3>3. QED
      BY <1>3, <1>4, <2>1, <3>1, <3>2, Zenon
  <2>2. CASE t # typed'
    <3> DEFINE c == (t - 1) % Ring
    <3>1. /\ t \in 1..typed /\ t > typed - Ring /\ t - 1 \in Int /\ typed \in Int
          /\ typed - (t - 1) \in 1..(Ring - 1)
      BY <1>2, <1>3, <1>6, <2>2
    <3>2. ring[c] = t
      BY <1>2, <3>1, Zenon DEF RingOK
    <3>3. (t - 1) % Ring # typed % Ring
      BY <1>2, <3>1, Apart
    <3>4. c # head
      BY <1>4, <3>3, Zenon
    <3>5. (t - 1) % Ring \in 0..(Ring - 1)
      BY <1>2, <3>1, Division
    <3>6. c \in DOMAIN ring
      BY <1>2, <3>5, Zenon DEF RingOK, Typing!Cells
    <3> HIDE DEF c
    <3>7. ring'[c] = ring[c]
      BY <1>3, <3>4, <3>6
    <3>8. QED
      BY <3>2, <3>7, Zenon DEF c
  <2>3. QED
    BY <2>1, <2>2
<1>7. RingOK'
  <2>1. typed' \in Nat /\ DOMAIN ring' = Typing!Cells
    BY <1>2, <1>3 DEF RingOK
  <2>2. QED
    BY <1>5, <1>6, <2>1, Zenon DEF RingOK, Typing!Cells
<1>8. \E r \in 0..typed' : Left(r)'
  <2>1. CASE typed + 1 - s < Ring
    <3>1. s \in 0..typed'
      BY <1>2, <1>3
    <3>2. Left(s)'
      BY <1>1, <1>2, <1>3, <2>1, <3>1 DEF Left
    <3>3. QED
      BY <3>1, <3>2
  <2>2. CASE typed + 1 - s >= Ring
    <3>1. s + Ring = typed' /\ typed - s < Ring
      BY <1>1, <1>2, <1>3, <2>2 DEF Left
    <3>2. typed' % Ring = s % Ring
      <4> DEFINE r == s % Ring
      <4>1. s \div Ring \in Int /\ r \in 0..(Ring - 1) /\ s = Ring * (s \div Ring) + r
        BY <1>2, Division
      <4> DEFINE q == s \div Ring
      <4>2. q \in Int /\ s = Ring * q + r
        BY <4>1
      <4> HIDE DEF q, r
      <4>3. typed' = Ring * (q + 1) + r /\ q + 1 \in Int /\ typed' \in Int
        BY <1>2, <3>1, <4>1, <4>2
      <4>4. typed' % Ring = r
        BY <1>2, <4>1, <4>3, Remainder
      <4>5. QED
        BY <4>4, Zenon DEF r
    <3>3. typed' \in 0..typed' /\ typed' - typed' < Ring /\ typed' >= s /\ typed' \in Nat
      BY <1>2, <1>3, <3>1
    <3>4. tail' = typed' % Ring
      BY <1>1, <1>3, <3>2, Zenon DEF Left
    <3>5. /\ got \in 0..s /\ asked \in 0..typed
          /\ phase # "edit" => mailbox = 0 \/ mailbox \in (got + 1)..s
          /\ phase \in {"read", "light"} => asked <= s /\ (mailbox = 0 \/ mailbox > asked)
      BY <1>1 DEF Left
    <3>6. /\ got' \in 0..typed' /\ asked' \in 0..typed'
          /\ phase' # "edit" => mailbox' = 0 \/ mailbox' \in (got' + 1)..typed'
          /\ phase' \in {"read", "light"} =>
               asked' <= typed' /\ (mailbox' = 0 \/ mailbox' > asked')
      BY <1>2, <1>3, <3>3, <3>5
    <3>7. Left(typed)'
      BY <3>3, <3>4, <3>6 DEF Left
    <3>8. QED
      BY <3>3, <3>7
  <2>3. QED
    BY <1>2, <2>1, <2>2
<1>9. QED
  BY <1>7, <1>8 DEF KeysOK

(* A step of the terminal or of a window, which may take one key. *)
LEMMA KeyTaken ==
  ASSUME KeysOK, UNCHANGED <<ring, head, typed>>,
         NEW r \in 0..typed, Left(r)'
  PROVE  KeysOK'
BY DEF KeysOK, RingOK

LEMMA KeyRead ==
  ASSUME KeysOK, [Typing!Next]_keyVars
  PROVE  /\ KeysOK'
         /\ got' # got => /\ got' > got /\ got' <= typed
                          /\ phase = "read" => got' > asked
<1>1. CASE Typing!Type
  BY <1>1, KeyTyped DEF Typing!Type
<1>2. PICK s \in 0..typed : Left(s)
  BY DEF KeysOK
<1>3. RingOK /\ typed \in Nat /\ s \in Nat
  BY <1>2 DEF KeysOK, RingOK
<1>4. /\ Typing!Hit <=> s < typed
      /\ Typing!Hit => ring[tail] = s + 1 /\ s + 1 \in 0..typed
      /\ (tail + 1) % Ring = (s + 1) % Ring
  <2>1. s < typed => s + 1 \in 0..typed
    BY <1>3
  <2>2. QED
    BY <1>2, <1>3, <2>1, NextKey
<1>5. /\ typed - s < Ring /\ tail = s % Ring /\ got \in 0..s /\ asked \in 0..typed
      /\ phase # "edit" => mailbox = 0 \/ mailbox \in (got + 1)..s
      /\ phase \in {"read", "light"} => asked <= s /\ (mailbox = 0 \/ mailbox > asked)
  BY <1>2 DEF Left
<1>6. ASSUME UNCHANGED <<ring, head, typed, tail>>,
             got' \in 0..s, asked' \in 0..typed,
             phase' # "edit" => mailbox' = 0 \/ mailbox' \in (got' + 1)..s,
             phase' \in {"read", "light"} => asked' <= s /\ (mailbox' = 0 \/ mailbox' > asked')
      PROVE  KeysOK'
  <2>1. Left(s)'
    BY <1>2, <1>5, <1>6, Zenon DEF Left
  <2>2. QED
    BY <1>6, <2>1, KeyTaken
<1>7. ASSUME UNCHANGED <<ring, head, typed>>, s + 1 \in 0..typed, Typing!Taken,
             got' \in 0..(s + 1), asked' \in 0..typed,
             phase' # "edit" => mailbox' = 0 \/ mailbox' \in (got' + 1)..(s + 1),
             phase' \in {"read", "light"} =>
               asked' <= s + 1 /\ (mailbox' = 0 \/ mailbox' > asked')
      PROVE  KeysOK'
  <2>1. tail' = (s + 1) % Ring
    BY <1>4, <1>7, Zenon DEF Typing!Taken
  <2>2. typed - (s + 1) < Ring
    BY <1>3, <1>5, KeyboardAssumption
  <2>3. Left(s + 1)'
    BY <1>7, <2>1, <2>2, Zenon DEF Left
  <2>4. QED
    BY <1>7, <2>3, KeyTaken
<1>8. CASE Typing!Deliver
  <2>1. /\ Typing!Hit /\ Typing!Taken /\ phase = "edit" /\ got' = ring[tail]
        /\ phase' = "edit" \/ (phase' = "run" /\ mailbox' = 0)
        /\ UNCHANGED <<ring, head, typed, focus, asked>>
    BY <1>8 DEF Typing!Deliver, Typing!Nothing
  <2>2. got' = s + 1 /\ s + 1 \in 0..typed
    BY <1>4, <2>1
  <2>3. got' \in 0..(s + 1) /\ got' > got /\ got' <= typed
    BY <1>3, <1>5, <2>2
  <2>4. KeysOK'
    BY <1>5, <1>7, <2>1, <2>2, <2>3
  <2>5. QED
    BY <2>1, <2>3, <2>4
<1>9. CASE Typing!Click
  <2>1. /\ phase = "edit" /\ UNCHANGED <<ring, head, tail, typed, phase, got, asked>>
    BY <1>9 DEF Typing!Click
  <2>2. QED
    BY <1>5, <1>6, <2>1
<1>10. CASE Typing!Prompt
  <2>1. /\ phase = "run" /\ phase' = "flush" /\ asked' = typed
        /\ UNCHANGED <<ring, head, tail, typed, mailbox, focus, got>>
    BY <1>10 DEF Typing!Prompt
  <2>2. asked' \in 0..typed
    BY <1>3, <2>1
  <2>3. KeysOK'
    BY <1>5, <1>6, <2>1, <2>2
  <2>4. QED
    BY <2>1, <2>3
<1>11. CASE Typing!Flush
  <2>1. /\ phase = "flush" /\ UNCHANGED <<ring, head, typed, focus, got, asked>>
    BY <1>11 DEF Typing!Flush
  <2>2. CASE Typing!Pending /\ mailbox # 0
    <3>1. mailbox' = 0 /\ UNCHANGED tail /\ phase' = phase
      BY <1>11, <2>2 DEF Typing!Flush, Typing!GetKey, Typing!Nothing
    <3>2. KeysOK'
      BY <1>5, <1>6, <2>1, <3>1
    <3>3. QED
      BY <2>1, <3>2
  <2>3. CASE Typing!Pending /\ mailbox = 0
    <3>1. Typing!Taken /\ UNCHANGED mailbox /\ phase' = phase /\ Typing!Hit
      BY <1>11, <2>3 DEF Typing!Flush, Typing!GetKey, Typing!Nothing, Typing!Pending
    <3>2. got' \in 0..(s + 1) /\ s + 1 \in 0..typed
      BY <1>3, <1>4, <1>5, <2>1, <3>1
    <3>3. KeysOK'
      BY <1>5, <1>7, <2>1, <2>3, <3>1, <3>2
    <3>4. QED
      BY <2>1, <3>3
  <2>4. CASE ~Typing!Pending
    <3>1. phase' = "read" /\ UNCHANGED <<mailbox, tail>> /\ mailbox = 0 /\ ~Typing!Hit
      BY <1>11, <2>4 DEF Typing!Flush, Typing!Pending, Typing!Nothing
    <3>2. asked' <= s /\ mailbox' = 0 /\ got' \in 0..s /\ asked' \in 0..typed
      BY <1>3, <1>4, <1>5, <2>1, <3>1
    <3>3. KeysOK'
      BY <1>6, <2>1, <3>1, <3>2
    <3>4. QED
      BY <2>1, <3>3
  <2>5. QED
    BY <2>2, <2>3, <2>4
<1>12. CASE Typing!ReadKey
  <2>1. /\ phase = "read" /\ phase' \in {"read", "run"} /\ Typing!Pending
        /\ UNCHANGED <<ring, head, typed, focus, asked>>
    BY <1>12 DEF Typing!ReadKey
  <2>2. CASE mailbox # 0
    <3>1. got' = mailbox /\ mailbox' = 0 /\ UNCHANGED tail
      BY <1>12, <2>2 DEF Typing!ReadKey, Typing!GetKey, Typing!Nothing
    <3>2. mailbox \in (got + 1)..s /\ mailbox > asked /\ asked <= s
      BY <1>5, <2>1, <2>2
    <3>3. got' \in 0..s /\ got' > got /\ got' <= typed /\ got' > asked
      BY <1>3, <1>5, <3>1, <3>2
    <3>4. KeysOK'
      BY <1>5, <1>6, <2>1, <3>1, <3>2, <3>3
    <3>5. QED
      BY <3>3, <3>4
  <2>3. CASE mailbox = 0
    <3>1. got' = ring[tail] /\ Typing!Taken /\ UNCHANGED mailbox /\ Typing!Hit
      BY <1>12, <2>1, <2>3 DEF Typing!ReadKey, Typing!GetKey, Typing!Nothing, Typing!Pending
    <3>2. got' = s + 1 /\ s + 1 \in 0..typed /\ asked <= s
      BY <1>4, <1>5, <2>1, <3>1
    <3>3. /\ got' \in 0..(s + 1) /\ got' > got /\ got' <= typed /\ got' > asked
          /\ asked' <= s + 1 /\ asked' \in 0..typed
      BY <1>3, <1>5, <2>1, <3>2
    <3>4. KeysOK'
      BY <1>7, <2>1, <2>3, <3>1, <3>2, <3>3
    <3>5. QED
      BY <3>3, <3>4
  <2>4. QED
    BY <2>2, <2>3
<1>13. CASE Typing!LightKey
  <2>1. /\ phase = "light" /\ Typing!Hit /\ Typing!Taken /\ mailbox' = ring[tail]
        /\ UNCHANGED <<ring, head, typed, focus, phase, got, asked>>
    BY <1>13 DEF Typing!LightKey
  <2>2. mailbox' = s + 1 /\ s + 1 \in 0..typed /\ asked <= s
    BY <1>4, <1>5, <2>1
  <2>3. /\ got' \in 0..(s + 1) /\ mailbox' \in (got' + 1)..(s + 1)
        /\ asked' <= s + 1 /\ asked' \in 0..typed /\ mailbox' > asked'
    BY <1>3, <1>5, <2>1, <2>2
  <2>4. KeysOK'
    BY <1>7, <2>1, <2>2, <2>3
  <2>5. QED
    BY <2>1, <2>4
<1>14. CASE Typing!Wait \/ Typing!LightDone \/ Typing!Finish \/ UNCHANGED keyVars
  <2>1. /\ UNCHANGED <<ring, head, tail, typed, mailbox, got, asked>>
        /\ phase' # "edit" => phase # "edit"
        /\ phase' \in {"read", "light"} => phase \in {"read", "light"}
    BY <1>14 DEF Typing!Wait, Typing!LightDone, Typing!Finish, keyVars
  <2>2. KeysOK'
    BY <1>5, <1>6, <2>1
  <2>3. QED
    BY <2>1, <2>2
<1>15. QED
  BY <1>1, <1>8, <1>9, <1>10, <1>11, <1>12, <1>13, <1>14 DEF Typing!Next

(* However far the ring has gone round and on whichever of its two ways a    *)
(* key comes, a reader gets keys in the order they were typed, none twice,   *)
(* and a prompt none that was typed before it was put up.                    *)
THEOREM KeyboardOrder == SessionSpec => KeysInOrder
<1>1. SessionInit => KeysOK
  <2>1. SUFFICES ASSUME SessionInit PROVE KeysOK
    OBVIOUS
  <2>2. /\ typed = 0 /\ head = 0 /\ tail = 0 /\ got = 0 /\ asked = 0 /\ phase = "edit"
        /\ DOMAIN ring = Typing!Cells
    BY <2>1 DEF SessionInit, Starting, Typing!Init
  <2>3. 0 % Ring = 0 /\ Ring \in Nat \ {0}
    BY KeyboardAssumption
  <2>4. RingOK
    BY <2>2, <2>3 DEF RingOK
  <2>5. Left(0)
    BY <2>2, <2>3 DEF Left
  <2>6. QED
    BY <2>2, <2>4, <2>5 DEF KeysOK
<1>2. KeysOK /\ [SessionNext]_all => KeysOK'
  BY KeyRead, KeyboardSteps
<1>3. KeysOK /\ [SessionNext]_all =>
        [got' # got => got' > got /\ got' <= typed /\ (phase = "read" => got' > asked)]_keyVars
  BY KeyRead, KeyboardSteps
<1>4. QED
  BY <1>1, <1>2, <1>3, PTL DEF SessionSpec, KeysInOrder, Typing!KeysInOrder, Typing!vars, keyVars

-----------------------------------------------------------------------------
(* Notepad.                                                                  *)

PadOK ==
  /\ len \in Nat /\ cursor \in Nat /\ from \in Nat /\ to \in Nat /\ clip \in Nat
  /\ file \in Nat /\ kept \in Nat /\ len <= MaxChars /\ file <= MaxChars
  /\ Pad!EditSound

LEMMA PadInit == Pad!Init => PadOK
BY PadAssumption DEF Pad!Init, PadOK, Pad!EditSound, Pad!None, Pad!Length

(* A change of the text leaves a selection that is not to be trusted.        *)
LEMMA Disturbed ==
  ASSUME stale' = (stale \/ from # Pad!None), from' = from
  PROVE  ~stale' => from' = Pad!None
OBVIOUS

LEMMA PadKeeps ==
  ASSUME PadOK, [Pad!Next]_padVars
  PROVE  PadOK'
<1> USE PadAssumption DEF PadOK, Pad!EditSound, Pad!None, Pad!Length
<1>1. CASE Pad!Printable
  <2>1. ~stale' => from' = Pad!None
    <3>1. stale' = (stale \/ from # Pad!None) /\ from' = from
      BY <1>1, Zenon DEF Pad!Printable, Pad!Edit, Pad!selection
    <3>2. QED
      BY <3>1, Disturbed
  <2>2. QED
    BY <1>1, <2>1 DEF Pad!Printable, Pad!Edit, Pad!selection, Pad!disk
<1>2. CASE Pad!Backspace
  <2>1. ~stale' => from' = Pad!None
    <3>1. stale' = (stale \/ from # Pad!None) /\ from' = from
      BY <1>2, Zenon DEF Pad!Backspace, Pad!Edit, Pad!selection
    <3>2. QED
      BY <3>1, Disturbed
  <2>2. QED
    BY <1>2, <2>1 DEF Pad!Backspace, Pad!Edit, Pad!selection, Pad!disk
<1>3. CASE Pad!DialogKey
  BY <1>3 DEF Pad!DialogKey, Pad!selection, Pad!disk
<1>4. CASE Pad!SaveAs
  BY <1>4 DEF Pad!SaveAs, Pad!Write, Pad!selection
<1>5. CASE Pad!Save
  BY <1>5 DEF Pad!Save, Pad!Write, Pad!selection, Pad!disk
<1>6. CASE Pad!Discard
  <2>1. ~stale' => from' = Pad!None
    <3>1. stale' = (stale \/ from # Pad!None) /\ from' = from
      BY <1>6, Zenon DEF Pad!Discard, Pad!Edit, Pad!selection
    <3>2. QED
      BY <3>1, Disturbed
  <2>2. QED
    BY <1>6, <2>1 DEF Pad!Discard, Pad!selection
<1>7. ASSUME NEW p \in Pad!Length, Pad!Place(p) \/ Pad!Drag(p)
      PROVE  PadOK'
  BY <1>7 DEF Pad!Place, Pad!Drag, Pad!disk
<1>8. ASSUME NEW s \in Pad!Length, NEW e \in Pad!Length, Pad!Word(s, e)
      PROVE  PadOK'
  BY <1>8 DEF Pad!Word, Pad!disk
<1>9. CASE Pad!OpenMenu \/ Pad!LeaveMenu \/ Pad!SelectAll
  BY <1>9 DEF Pad!OpenMenu, Pad!LeaveMenu, Pad!SelectAll, Pad!selection, Pad!disk
<1>10. CASE Pad!Copy
  BY <1>10 DEF Pad!Copy, Pad!InText, Pad!Start, Pad!End, Pad!Min, Pad!selection, Pad!disk
<1>11. CASE Pad!Cut
  BY <1>11 DEF Pad!Cut, Pad!InText, Pad!Start, Pad!End, Pad!Selected, Pad!Min, Pad!disk
<1>12. CASE Pad!Paste
  <2>1. ~stale' => from' = Pad!None
    <3>1. stale' = (stale \/ from # Pad!None) /\ from' = from
      BY <1>12, Zenon DEF Pad!Paste, Pad!Edit, Pad!selection
    <3>2. QED
      BY <3>1, Disturbed
  <2>2. QED
    <3> DEFINE m == Pad!Min(clip, MaxChars - len)
    <3>1. m \in Nat /\ len + m <= MaxChars
      BY DEF Pad!Min
    <3>2. /\ len' = len + m /\ cursor' = cursor + m /\ modified' = TRUE
          /\ UNCHANGED <<from, to, clip, file, kept>>
      BY <1>12 DEF Pad!Paste, Pad!Edit, Pad!selection, Pad!disk
    <3> HIDE DEF m
    <3>3. QED
      BY <2>1, <3>1, <3>2
<1>13. CASE Pad!TerminalCopy
  BY <1>13 DEF Pad!TerminalCopy, Pad!selection, Pad!disk
<1>14. CASE UNCHANGED padVars
  BY <1>14 DEF padVars
<1>15. QED
  BY <1>1, <1>2, <1>3, <1>4, <1>5, <1>6, <1>7, <1>8, <1>9, <1>10, <1>11, <1>12, <1>13, <1>14
     DEF Pad!Next

LEMMA PadSteps ==
  ASSUME [SessionNext]_all
  PROVE  [Pad!Next]_padVars
BY DEF SessionNext, all, programs, others, windows, tools, shell, DesktopNext, KeyboardNext,
       AccountsNext, RendererNext, BrowserNext, DocumentNext, NotepadNext, PaintNext, SnakeNext,
       ExplorerNext, MakeNext, CalculatorNext, TerminalNext, ToolsNext

(* Notepad: a text that is not marked as modified is the one last loaded or  *)
(* saved, the cursor is in it, and so is what is selected until the text is  *)
(* changed under the selection: the part of ProgramsSound that is about it.  *)
THEOREM TextIsSound == SessionSpec => []Pad!EditSound
<1>1. SessionInit => PadOK
  BY PadInit DEF SessionInit, Starting
<1>2. PadOK /\ [SessionNext]_all => PadOK'
  BY PadKeeps, PadSteps
<1>3. PadOK => Pad!EditSound
  BY DEF PadOK
<1>4. QED
  BY <1>1, <1>2, <1>3, PTL DEF SessionSpec

-----------------------------------------------------------------------------
(* Snake.                                                                    *)

Steps == {-1, 0, 1}
Piece(s) == \A i \in 1..(Len(s) - 1) : Game!Beside(s[i], s[i + 1])
Uncrossed(s) == \A i \in 1..Len(s) : \A k \in 1..Len(s) : s[i] = s[k] => i = k
Sized(n, eaten) == n = IF eaten + 3 < MaxLength THEN eaten + 3 ELSE MaxLength

GameOK ==
  /\ body \in Seq(Game!Cells) /\ dir \in Game!Headings /\ score \in Nat
  /\ ~over => body # <<>>
  /\ body # <<>> => Piece(body) /\ Uncrossed(body) /\ Sized(Len(body), score)

(* Going back one step leads to where one has come from, also over an edge.  *)
LEMMA Around ==
  ASSUME NEW h \in 0..(Grid - 1), NEW e \in Steps
  PROVE  /\ Game!Wrapped(h + e) \in 0..(Grid - 1)
         /\ Game!Wrapped(Game!Wrapped(h + e) + (0 - e)) = h
         /\ h + e \in 0..(Grid - 1) => Game!Wrapped(h + e) = h + e
BY GameAssumption DEF Game!Wrapped, Steps

LEMMA Opposite ==
  ASSUME NEW d \in Game!Headings
  PROVE  /\ d[1] \in Steps /\ d[2] \in Steps /\ d = <<d[1], d[2]>>
         /\ <<0 - d[1], 0 - d[2]>> \in Game!Headings
<1>1. d \in {<<0, -1>>, <<0, 1>>, <<-1, 0>>, <<1, 0>>}
  BY DEF Game!Headings, Game!Up, Game!Down, Game!Left, Game!Right
<1>2. CASE d = <<0, -1>>
  BY <1>2 DEF Game!Headings, Game!Up, Game!Down, Steps
<1>3. CASE d = <<0, 1>>
  BY <1>3 DEF Game!Headings, Game!Up, Game!Down, Steps
<1>4. CASE d = <<-1, 0>>
  BY <1>4 DEF Game!Headings, Game!Left, Game!Right, Steps
<1>5. CASE d = <<1, 0>>
  BY <1>5 DEF Game!Headings, Game!Left, Game!Right, Steps
<1>6. QED
  BY <1>1, <1>2, <1>3, <1>4, <1>5

LEMMA AheadIsBeside ==
  ASSUME NEW h \in Game!Cells, NEW a \in Game!Cells, NEW d \in Game!Headings,
         \/ a = <<Game!Wrapped(h[1] + d[1]), Game!Wrapped(h[2] + d[2])>>
         \/ a = <<h[1] + d[1], h[2] + d[2]>>
  PROVE  Game!Beside(a, h)
<1>1. /\ h[1] \in 0..(Grid - 1) /\ h[2] \in 0..(Grid - 1) /\ h = <<h[1], h[2]>>
      /\ a[1] \in 0..(Grid - 1) /\ a[2] \in 0..(Grid - 1)
  BY DEF Game!Cells
<1>2. /\ d[1] \in Steps /\ d[2] \in Steps
      /\ <<0 - d[1], 0 - d[2]>> \in Game!Headings
  BY Opposite
<1>3. a[1] = Game!Wrapped(h[1] + d[1]) /\ a[2] = Game!Wrapped(h[2] + d[2])
  <2>1. CASE a = <<Game!Wrapped(h[1] + d[1]), Game!Wrapped(h[2] + d[2])>>
    BY <2>1
  <2>2. CASE a = <<h[1] + d[1], h[2] + d[2]>>
    <3>1. a[1] = h[1] + d[1] /\ a[2] = h[2] + d[2]
      BY <2>2
    <3>2. QED
      BY <1>1, <1>2, <3>1, Around
  <2>3. QED
    BY <2>1, <2>2
<1> DEFINE b == <<0 - d[1], 0 - d[2]>>
<1>4. b[1] = 0 - d[1] /\ b[2] = 0 - d[2] /\ b \in Game!Headings
  BY <1>2
<1> HIDE DEF b
<1>5. Game!Wrapped(a[1] + b[1]) = h[1] /\ Game!Wrapped(a[2] + b[2]) = h[2]
  BY <1>1, <1>2, <1>3, <1>4, Around
<1>6. h = <<Game!Wrapped(a[1] + b[1]), Game!Wrapped(a[2] + b[2])>>
  BY <1>1, <1>5
<1>7. QED
  BY <1>4, <1>6 DEF Game!Beside

(* The snake after a step: its head before all but perhaps the last cell.    *)
LEMMA Slid ==
  ASSUME NEW s \in Seq(Game!Cells), NEW a \in Game!Cells, NEW m \in Nat, m <= Len(s), 1 <= m,
         Piece(s), Uncrossed(s), Game!Beside(a, s[1]), \A i \in 1..Len(s) : s[i] # a,
         NEW u, u = <<a>> \o SubSeq(s, 1, m)
  PROVE  u \in Seq(Game!Cells) /\ Len(u) = m + 1 /\ Piece(u) /\ Uncrossed(u)
<1> DEFINE t == SubSeq(s, 1, m)
<1>1. t \in Seq(Game!Cells) /\ Len(t) = m /\ \A i \in 1..m : t[i] = s[i]
  BY SubSeqProperties
<1>2. <<a>> \in Seq(Game!Cells) /\ Len(<<a>>) = 1 /\ <<a>>[1] = a
  OBVIOUS
<1> HIDE DEF t
<1>3. /\ u \in Seq(Game!Cells) /\ Len(u) = 1 + m
      /\ \A i \in 1..(1 + m) : u[i] = IF i <= 1 THEN <<a>>[i] ELSE t[i - 1]
  <2>1. u = <<a>> \o t
    BY DEF t
  <2>2. QED
    BY <1>1, <1>2, <2>1, ConcatProperties
<1>4. u[1] = a /\ \A i \in 1..m : u[i + 1] = s[i]
  <2>1. u[1] = a
    BY <1>2, <1>3
  <2>2. ASSUME NEW i \in 1..m
        PROVE  u[i + 1] = s[i]
    <3>1. i + 1 \in 1..(1 + m) /\ ~(i + 1 <= 1) /\ (i + 1) - 1 = i
      OBVIOUS
    <3>2. u[i + 1] = t[(i + 1) - 1]
      BY <1>3, <3>1
    <3>3. QED
      BY <1>1, <3>1, <3>2
  <2>3. QED
    BY <2>1, <2>2
<1>5. \A i \in 1..(m + 1) : i = 1 \/ (i - 1 \in 1..m /\ (i - 1) + 1 = i)
  OBVIOUS
<1>6. Len(s) \in Nat /\ \A i \in 1..m : i \in 1..Len(s)
  OBVIOUS
<1>7. Piece(u)
  <2> SUFFICES ASSUME NEW i \in 1..m
               PROVE  Game!Beside(u[i], u[i + 1])
    BY <1>3 DEF Piece
  <2>1. CASE i = 1
    BY <1>4, <2>1
  <2>2. CASE i # 1
    <3>1. i - 1 \in 1..m /\ (i - 1) + 1 = i /\ i - 1 \in 1..(Len(s) - 1)
      BY <1>6, <2>2
    <3>2. u[i] = s[i - 1] /\ u[i + 1] = s[i]
      BY <1>4, <3>1
    <3>3. Game!Beside(s[i - 1], s[(i - 1) + 1])
      BY <3>1 DEF Piece
    <3>4. QED
      BY <3>1, <3>2, <3>3
  <2>3. QED
    BY <2>1, <2>2
<1>8. Uncrossed(u)
  <2> SUFFICES ASSUME NEW i \in 1..(m + 1), NEW k \in 1..(m + 1), u[i] = u[k]
               PROVE  i = k
    BY <1>3 DEF Uncrossed
  <2>1. CASE i = 1 /\ k # 1
    <3>1. k - 1 \in 1..m /\ u[k] = s[k - 1]
      BY <1>4, <1>5, <2>1
    <3>2. QED
      BY <1>4, <1>6, <2>1, <3>1
  <2>2. CASE i # 1 /\ k = 1
    <3>1. i - 1 \in 1..m /\ u[i] = s[i - 1]
      BY <1>4, <1>5, <2>2
    <3>2. QED
      BY <1>4, <1>6, <2>2, <3>1
  <2>3. CASE i # 1 /\ k # 1
    <3>1. i - 1 \in 1..m /\ u[i] = s[i - 1] /\ k - 1 \in 1..m /\ u[k] = s[k - 1]
      BY <1>4, <1>5, <2>3
    <3>2. i - 1 = k - 1
      BY <1>6, <3>1 DEF Uncrossed
    <3>3. QED
      BY <3>2
  <2>4. QED
    BY <2>1, <2>2, <2>3
<1>9. QED
  BY <1>3, <1>7, <1>8

LEMMA MoveStep ==
  ASSUME GameOK, Game!Move
  PROVE  GameOK'
<1>1. ~over /\ UNCHANGED <<dir, easy>>
  BY DEF Game!Move
<1>2. /\ body \in Seq(Game!Cells) /\ body # <<>> /\ dir \in Game!Headings /\ score \in Nat
      /\ Piece(body) /\ Uncrossed(body) /\ Sized(Len(body), score)
  BY <1>1 DEF GameOK
<1>3. CASE Game!Meets(Game!Ahead) /\ over' = TRUE /\ UNCHANGED <<body, food, score>>
  BY <1>1, <1>2, <1>3 DEF GameOK
<1>4. CASE ~Game!Meets(Game!Ahead) /\ over' = over
  <2> DEFINE a == Game!Ahead
             eats == a = food
             m == IF eats /\ Game!Grown THEN Len(body) ELSE Len(body) - 1
  <2>1. /\ body' = <<a>> \o (IF eats /\ Game!Grown THEN body ELSE SubSeq(body, 1, Len(body) - 1))
        /\ score' = IF eats THEN score + 1 ELSE score
    BY <1>1, <1>4 DEF Game!Move
  <2>2. /\ Len(body) \in Nat /\ 3 <= Len(body) /\ Len(body) <= MaxLength
        /\ body[1] \in Game!Cells
    BY <1>2, GameAssumption DEF Sized
  <2>3. a \in Game!Cells /\ \A i \in 1..Len(body) : body[i] # a
    BY <1>4 DEF Game!Meets
  <2>4. Game!Beside(a, body[1])
    <3>1. \/ a = <<Game!Wrapped(body[1][1] + dir[1]), Game!Wrapped(body[1][2] + dir[2])>>
          \/ a = <<body[1][1] + dir[1], body[1][2] + dir[2]>>
      BY DEF Game!Ahead
    <3> HIDE DEF a
    <3>2. QED
      BY <1>2, <2>2, <2>3, <3>1, AheadIsBeside
  <2>5. m \in Nat /\ 1 <= m /\ m <= Len(body)
    BY <2>2
  <2>6. body' = <<a>> \o SubSeq(body, 1, m)
    <3>1. SubSeq(body, 1, Len(body)) = body
      BY <1>2, SubSeqFull
    <3>2. QED
      BY <2>1, <3>1
  <2>7. Sized(m + 1, score')
    <3>1. CASE eats /\ Game!Grown
      BY <1>2, <2>1, <2>2, <3>1, GameAssumption DEF Sized, Game!Grown
    <3>2. CASE eats /\ ~Game!Grown
      BY <1>2, <2>1, <2>2, <3>2, GameAssumption DEF Sized, Game!Grown
    <3>3. CASE ~eats
      BY <1>2, <2>1, <2>2, <3>3, GameAssumption DEF Sized
    <3>4. QED
      BY <3>1, <3>2, <3>3
  <2>8. score' \in Nat
    BY <1>2, <2>1
  <2> HIDE DEF a, eats, m
  <2>9. body' \in Seq(Game!Cells) /\ Len(body') = m + 1 /\ Piece(body') /\ Uncrossed(body')
    BY <1>2, <2>3, <2>4, <2>5, <2>6, Slid
  <2>10. body' # <<>>
    BY <2>5, <2>9
  <2>11. QED
    BY <1>1, <1>2, <2>7, <2>8, <2>9, <2>10 DEF GameOK, Piece, Uncrossed
<1>5. QED
  BY <1>3, <1>4 DEF Game!Move

LEMMA GameKeeps ==
  ASSUME GameOK, [Game!Next]_gameVars
  PROVE  GameOK'
<1>1. CASE Game!Reset
  <2>1. body' = Game!Curled /\ dir' = Game!Right /\ score' = 0
    BY <1>1 DEF Game!Reset
  <2> DEFINE m == Grid \div 2
             u == <<<<m, m>>, <<m - 1, m>>, <<m - 2, m>>>>
  <2>2. m \in Int /\ 2 <= m /\ m <= Grid - 1
    BY GameAssumption
  <2>3. body' = u
    BY <2>1 DEF Game!Curled
  <2> HIDE DEF m
  <2>4. u \in Seq(Game!Cells)
    <3>1. <<m, m>> \in Game!Cells /\ <<m - 1, m>> \in Game!Cells /\ <<m - 2, m>> \in Game!Cells
      BY <2>2, GameAssumption DEF Game!Cells
    <3>2. QED
      BY <3>1
  <2>5. Len(u) = 3 /\ u[1] = <<m, m>> /\ u[2] = <<m - 1, m>> /\ u[3] = <<m - 2, m>>
    OBVIOUS
  <2>6. Game!Beside(u[1], u[2]) /\ Game!Beside(u[2], u[3])
    <3>1. <<-1, 0>> \in Game!Headings
      BY DEF Game!Headings, Game!Left
    <3>2. /\ Game!Wrapped(m + -1) = m - 1 /\ Game!Wrapped(m + 0) = m
          /\ Game!Wrapped((m - 1) + -1) = m - 2
      BY <2>2, GameAssumption DEF Game!Wrapped
    <3>3. QED
      BY <2>5, <3>1, <3>2 DEF Game!Beside
  <2>7. u[1] # u[2] /\ u[1] # u[3] /\ u[2] # u[3]
    BY <2>2, <2>5
  <2> HIDE DEF u
  <2>8. Piece(u) /\ Uncrossed(u)
    <3>1. 1..(Len(u) - 1) = {1, 2} /\ 1..Len(u) = {1, 2, 3}
      BY <2>5
    <3>2. QED
      BY <2>6, <2>7, <3>1 DEF Piece, Uncrossed
  <2>9. Sized(Len(u), 0) /\ Game!Right \in Game!Headings
    BY <2>5, GameAssumption DEF Sized, Game!Headings
  <2>10. body' \in Seq(Game!Cells) /\ body' # <<>>
    BY <2>3, <2>4, <2>5
  <2>11. QED
    BY <2>1, <2>3, <2>8, <2>9, <2>10 DEF GameOK, Piece, Uncrossed
<1>2. CASE Game!Move
  BY <1>2, MoveStep
<1>3. ASSUME NEW d \in Game!Headings, Game!Turn(d)
      PROVE  GameOK'
  BY <1>3 DEF Game!Turn, GameOK, Piece, Uncrossed
<1>4. CASE UNCHANGED gameVars
  BY <1>4 DEF gameVars, GameOK, Piece, Uncrossed
<1>5. QED
  BY <1>1, <1>2, <1>3, <1>4 DEF Game!Next

LEMMA GameSteps ==
  ASSUME [SessionNext]_all
  PROVE  [Game!Next]_gameVars
BY DEF SessionNext, all, programs, others, windows, tools, shell, DesktopNext, KeyboardNext,
       AccountsNext, RendererNext, BrowserNext, DocumentNext, NotepadNext, PaintNext, SnakeNext,
       ExplorerNext, MakeNext, CalculatorNext, TerminalNext, ToolsNext

(* Snake: it is one piece and crosses itself nowhere, although the keys turn *)
(* it more often than it moves, and it is as long as what it has eaten: the  *)
(* part of ProgramsSound that is about the game.                             *)
THEOREM SnakeIsSound == SessionSpec => []Game!SnakeSound
<1>1. SessionInit => GameOK
  <2>1. SUFFICES ASSUME Game!Init PROVE GameOK
    BY DEF SessionInit, Starting
  <2>2. QED
    BY <2>1 DEF Game!Init, GameOK, Game!Headings
<1>2. GameOK /\ [SessionNext]_all => GameOK'
  BY GameKeeps, GameSteps
<1>3. GameOK => Game!SnakeSound
  BY DEF GameOK, Game!SnakeSound, Piece, Uncrossed, Sized
<1>4. QED
  BY <1>1, <1>2, <1>3, PTL DEF SessionSpec

-----------------------------------------------------------------------------
(* The file explorer.                                                        *)

Listed == Dirs \cup Files
Ways(s) == \A i \in 1..(Len(s) - 1) : Dir!Leads(s[i], s[i + 1])

WayOK ==
  /\ path \in Seq(Listed) /\ back \in Seq(Seq(Listed)) /\ Len(entries) \in Nat
  /\ selected \in Nat /\ scroll \in Nat
  /\ selected < Len(entries) \/ selected = 0
  /\ scroll <= selected \/ entries = <<>>
  /\ Ways(back) /\ (back # <<>> => Dir!Leads(back[Len(back)], path))

LEMMA ListingLength ==
  ASSUME NEW p, NEW t, NEW e \in Dir!Listings(p, t)
  PROVE  Len(e) \in Nat
<1>1. PICK S \in SUBSET Listed : e = Dir!Sorted(S)
  <2>1. Dir!Children(p, t) \subseteq Listed
    BY DEF Dir!Children, Dir!Listable, Listed
  <2>2. QED
    BY <2>1 DEF Dir!Listings
<1>2. IsFiniteSet(S)
  BY <1>1, ExplorerAssumption, FS_Subset DEF Listed
<1>3. Cardinality(S) \in Nat
  BY <1>2, FS_CardinalityType
<1> DEFINE m == Cardinality(S)
<1>4. e = [i \in 1..m |-> CHOOSE n \in S : Cardinality({x \in S : Dir!Before(x, n)}) = i - 1]
  BY <1>1 DEF Dir!Sorted, Dir!Cardinality, Cardinality
<1> HIDE DEF m
<1>5. m \in Nat
  BY <1>3 DEF m
<1>6. Len(e) = m
  BY <1>4, <1>5
<1>7. QED
  BY <1>5, <1>6

LEMMA ScanStep ==
  ASSUME NEW p \in Seq(Listed), Dir!Scan(p), back' \in Seq(Seq(Listed)), Ways(back'),
         back' # <<>> => Dir!Leads(back'[Len(back')], p)
  PROVE  WayOK'
<1>1. path' = p /\ entries' \in Dir!Listings(p, listed) /\ selected' = 0 /\ scroll' = 0
  BY DEF Dir!Scan
<1>2. Len(entries') \in Nat
  BY <1>1, ListingLength
<1>3. QED
  BY <1>1, <1>2 DEF WayOK, Ways

(* A directory that is entered leads back to the one it is in.               *)
LEMMA PushStep ==
  ASSUME WayOK, NEW d \in Listed
  PROVE  /\ Dir!Push(path) \in Seq(Seq(Listed)) /\ Ways(Dir!Push(path))
         /\ Append(path, d) \in Seq(Listed)
         /\ Dir!Push(path) # <<>>
         /\ Dir!Leads(Dir!Push(path)[Len(Dir!Push(path))], Append(path, d))
<1>1. path \in Seq(Listed) /\ back \in Seq(Seq(Listed)) /\ Ways(back)
      /\ (back # <<>> => Dir!Leads(back[Len(back)], path))
  BY DEF WayOK
<1>2. Dir!Leads(path, Append(path, d)) /\ Append(path, d) \in Seq(Listed)
  <2>1. /\ Append(path, d) \in Seq(Listed) /\ Len(Append(path, d)) = Len(path) + 1
        /\ \A i \in 1..Len(path) : Append(path, d)[i] = path[i]
    BY <1>1, AppendProperties
  <2> DEFINE q == Append(path, d)
  <2>2. SubSeq(q, 1, Len(q) - 1) = path
    <3> HIDE DEF q
    <3>1. q \in Seq(Listed) /\ Len(q) = Len(path) + 1 /\ \A i \in 1..Len(path) : q[i] = path[i]
      BY <2>1 DEF q
    <3>2. Len(path) \in Nat /\ Len(q) - 1 = Len(path)
      BY <1>1, <3>1
    <3>3. SubSeq(q, 1, Len(path)) \in Seq(Listed) /\ Len(SubSeq(q, 1, Len(path))) = Len(path)
          /\ \A i \in 1..Len(path) : SubSeq(q, 1, Len(path))[i] = q[i]
      BY <3>1, <3>2, SubSeqProperties
    <3>4. SubSeq(q, 1, Len(path)) = path
      BY <1>1, <3>1, <3>3, SeqEqual
    <3>5. QED
      BY <3>2, <3>4
  <2>3. q # <<>>
    BY <1>1, <2>1
  <2>4. QED
    BY <2>1, <2>2, <2>3 DEF Dir!Leads, Dir!Parent
<1> DEFINE P == Seq(Listed)
<1>3. \A s \in Seq(P) : Ways(s) /\ (s # <<>> => Dir!Leads(s[Len(s)], path)) =>
        Append(s, path) \in Seq(P) /\ Ways(Append(s, path)) /\ Append(s, path) # <<>>
        /\ Append(s, path)[Len(Append(s, path))] = path
  <2> SUFFICES ASSUME NEW s \in Seq(P), Ways(s), s # <<>> => Dir!Leads(s[Len(s)], path)
               PROVE  Append(s, path) \in Seq(P) /\ Ways(Append(s, path)) /\ Append(s, path) # <<>>
                      /\ Append(s, path)[Len(Append(s, path))] = path
    OBVIOUS
  <2> DEFINE u == Append(s, path)
  <2>1. u \in Seq(P) /\ Len(u) = Len(s) + 1 /\ u[Len(s) + 1] = path
        /\ \A i \in 1..Len(s) : u[i] = s[i]
    BY <1>1, AppendProperties
  <2>2. Len(s) \in Nat /\ (Len(s) # 0 => s # <<>>)
    OBVIOUS
  <2> HIDE DEF u
  <2>3. Ways(u)
    <3> SUFFICES ASSUME NEW i \in 1..(Len(u) - 1)
                 PROVE  Dir!Leads(u[i], u[i + 1])
      BY DEF Ways
    <3>1. CASE i = Len(s)
      <4>1. Len(s) # 0 /\ i \in 1..Len(s) /\ u[i] = s[i] /\ u[i + 1] = path
        BY <2>1, <2>2, <3>1
      <4>2. QED
        BY <2>2, <3>1, <4>1
    <3>2. CASE i # Len(s)
      <4>1. i \in 1..(Len(s) - 1) /\ i \in 1..Len(s) /\ i + 1 \in 1..Len(s)
        BY <2>1, <2>2, <3>2
      <4>2. u[i] = s[i] /\ u[i + 1] = s[i + 1]
        BY <2>1, <4>1
      <4>3. QED
        BY <4>1, <4>2 DEF Ways
    <3>3. QED
      BY <3>1, <3>2
  <2>4. u # <<>>
    BY <2>1, <2>2
  <2>5. QED
    BY <2>1, <2>3, <2>4 DEF u
<1>4. CASE Len(back) < MaxBack
  <2>1. Dir!Push(path) = Append(back, path)
    BY <1>4 DEF Dir!Push
  <2>2. QED
    BY <1>1, <1>2, <1>3, <2>1
<1>5. CASE ~(Len(back) < MaxBack)
  <2> DEFINE s == Tail(back)
  <2>1. Len(back) \in Nat /\ 1 <= Len(back) /\ back # <<>>
    BY <1>1, <1>5, ExplorerAssumption
  <2>2. s \in Seq(P) /\ Len(s) = Len(back) - 1 /\ \A i \in 1..Len(s) : s[i] = back[i + 1]
    BY <1>1, <2>1, HeadTailProperties
  <2>3. Dir!Push(path) = Append(s, path)
    BY <1>5 DEF Dir!Push
  <2> HIDE DEF s
  <2>4. Ways(s)
    <3> SUFFICES ASSUME NEW i \in 1..(Len(s) - 1)
                 PROVE  Dir!Leads(s[i], s[i + 1])
      BY DEF Ways
    <3>1. i \in 1..Len(s) /\ i + 1 \in 1..Len(s) /\ i + 1 \in 1..(Len(back) - 1)
      BY <2>1, <2>2
    <3>2. s[i] = back[i + 1] /\ s[i + 1] = back[(i + 1) + 1]
      BY <2>2, <3>1
    <3>3. QED
      BY <1>1, <3>1, <3>2 DEF Ways
  <2>5. s # <<>> => Dir!Leads(s[Len(s)], path)
    <3> SUFFICES ASSUME s # <<>> PROVE Dir!Leads(s[Len(s)], path)
      OBVIOUS
    <3>1. Len(s) \in 1..Len(s) /\ Len(s) + 1 = Len(back)
      BY <2>1, <2>2
    <3>2. s[Len(s)] = back[Len(back)]
      BY <2>2, <3>1
    <3>3. QED
      BY <1>1, <2>1, <3>2
  <2>6. QED
    BY <1>2, <1>3, <2>2, <2>3, <2>4, <2>5
<1>6. QED
  BY <1>4, <1>5

(* Where a click or Enter leads.                                             *)
LEMMA OpenStep ==
  ASSUME WayOK, NEW i \in Nat, NEW top \in Nat, Dir!Open(i, top),
         i < Len(entries) \/ i = 0, top <= i \/ entries = <<>>
  PROVE  WayOK'
<1>1. CASE i < Len(entries) /\ entries[i + 1] \in Dirs
  <2>1. back' = Dir!Push(path) /\ Dir!Scan(Append(path, entries[i + 1]))
    BY <1>1 DEF Dir!Open
  <2>2. entries[i + 1] \in Listed
    BY <1>1 DEF Listed
  <2> DEFINE d == entries[i + 1]
  <2> HIDE DEF d
  <2>3. /\ Dir!Push(path) \in Seq(Seq(Listed)) /\ Ways(Dir!Push(path))
        /\ Append(path, d) \in Seq(Listed)
        /\ Dir!Leads(Dir!Push(path)[Len(Dir!Push(path))], Append(path, d))
    BY <2>2, PushStep DEF d
  <2>4. QED
    BY <2>1, <2>3, ScanStep DEF d
<1>2. CASE ~(i < Len(entries) /\ entries[i + 1] \in Dirs)
  <2>1. selected' = i /\ scroll' = top /\ UNCHANGED <<path, back, entries>>
    BY <1>2 DEF Dir!Open
  <2>2. QED
    BY <2>1 DEF WayOK, Ways
<1>3. QED
  BY <1>1, <1>2

LEMMA Viewed ==
  ASSUME WayOK, NEW i \in Nat
  PROVE  Dir!InView(i) \in Nat /\ (Dir!InView(i) <= i)
BY ExplorerAssumption DEF WayOK, Dir!InView

LEMMA ChosenStep ==
  ASSUME WayOK, NEW i \in Nat, Dir!Chosen(i), i < Len(entries) \/ i = 0
  PROVE  WayOK'
<1>1. selected' = i /\ scroll' = Dir!InView(i) /\ UNCHANGED <<path, back, entries>>
  BY DEF Dir!Chosen
<1>2. scroll' \in Nat /\ scroll' <= i
  BY <1>1, Viewed
<1>3. QED
  BY <1>1, <1>2 DEF WayOK, Ways

LEMMA WayKeeps ==
  ASSUME WayOK, [Dir!Next]_dirVars
  PROVE  WayOK'
<1> DEFINE P == Seq(Listed)
<1>1. ASSUME NEW i \in 0..(MaxEntries - 1), Dir!Click(i)
      PROVE  WayOK'
  <2>1. scroll <= i /\ i < Len(entries) /\ i \in Nat /\ scroll \in Nat
    BY <1>1 DEF Dir!Click, WayOK
  <2>2. CASE i = last
    <3>1. Dir!Open(i, scroll)
      BY <1>1, <2>2 DEF Dir!Click
    <3>2. QED
      BY <2>1, <3>1, OpenStep
  <2>3. CASE i # last
    <3>1. selected' = i /\ UNCHANGED <<path, back, entries, scroll>>
      BY <1>1, <2>3 DEF Dir!Click
    <3>2. QED
      BY <2>1, <3>1 DEF WayOK, Ways
  <2>4. QED
    BY <2>2, <2>3
<1>2. ASSUME NEW l, Dir!Up(l)
      PROVE  WayOK'
  <2>1. path # <<>> /\ Dir!Scan(Dir!Parent(path)) /\ back' = <<>>
    BY <1>2 DEF Dir!Up
  <2>2. Dir!Parent(path) \in Seq(Listed)
    <3>1. path \in Seq(Listed) /\ Len(path) \in Nat /\ 1 <= Len(path)
      BY <2>1 DEF WayOK
    <3>2. Len(path) - 1 \in Nat /\ Len(path) - 1 <= Len(path)
      BY <3>1
    <3>3. SubSeq(path, 1, Len(path) - 1) \in Seq(Listed)
      BY <3>1, <3>2, SubSeqProperties
    <3>4. QED
      BY <3>3 DEF Dir!Parent
  <2>3. <<>> \in Seq(Seq(Listed)) /\ Ways(<<>>)
    BY DEF Ways
  <2>4. QED
    BY <2>1, <2>2, <2>3, ScanStep
<1>3. CASE Dir!Back
  <2>1. CASE back = <<>>
    <3>1. UNCHANGED <<path, back, entries, selected, scroll>>
      BY <1>3, <2>1 DEF Dir!Back
    <3>2. QED
      BY <3>1 DEF WayOK, Ways
  <2>2. CASE back # <<>>
    <3> DEFINE m == Len(back)
               s == SubSeq(back, 1, m - 1)
    <3>1. Dir!Scan(back[m]) /\ back' = s
      BY <1>3, <2>2 DEF Dir!Back
    <3>2. back \in Seq(P) /\ m \in Nat /\ 1 <= m /\ m \in 1..m /\ m - 1 \in Nat /\ m - 1 <= m
      BY <2>2 DEF WayOK
    <3>3. s \in Seq(P) /\ Len(s) = m - 1 /\ \A i \in 1..(m - 1) : s[i] = back[i]
      <4> HIDE DEF m, P
      <4>1. 1 \in 1..(m + 1) /\ m - 1 \in 0..m
        BY <3>2
      <4>2. m = Len(back)
        BY DEF m
      <4>3. s \in Seq(P) /\ Len(s) = m - 1
        BY <3>2, <4>1, <4>2, SubSeqProperties
      <4>4. \A i \in 1..(m - 1) : s[i] = back[i]
        BY <3>2, <4>1, <4>2, SubSeqProperties
      <4>5. QED
        BY <4>3, <4>4
    <3>4. Ways(back)
      BY DEF WayOK
    <3>5. back[m] \in P
      BY <3>2
    <3> HIDE DEF s
    <3>6. Ways(s)
      <4> SUFFICES ASSUME NEW i \in 1..(Len(s) - 1)
                   PROVE  Dir!Leads(s[i], s[i + 1])
        BY DEF Ways
      <4>1. i \in 1..(m - 1) /\ i + 1 \in 1..(m - 1)
        BY <3>2, <3>3
      <4>2. QED
        BY <3>3, <3>4, <4>1 DEF Ways
    <3>7. s # <<>> => Dir!Leads(s[Len(s)], back[m])
      <4> SUFFICES ASSUME s # <<>> PROVE Dir!Leads(s[Len(s)], back[m])
        OBVIOUS
      <4>1. m - 1 \in 1..(m - 1) /\ (m - 1) + 1 = m
        BY <3>2, <3>3
      <4>2. s[Len(s)] = back[m - 1] /\ Dir!Leads(back[m - 1], back[(m - 1) + 1])
        BY <3>3, <3>4, <4>1 DEF Ways
      <4>3. QED
        BY <4>1, <4>2
    <3>8. QED
      BY <3>1, <3>3, <3>5, <3>6, <3>7, ScanStep
  <2>3. QED
    BY <2>1, <2>2
<1>4. CASE Dir!Refresh \/ Dir!Draw
  <2>1. Dir!Scan(path) /\ back' = back
    BY <1>4 DEF Dir!Refresh, Dir!Draw
  <2>2. QED
    BY <2>1, ScanStep DEF WayOK
<1>5. CASE Dir!Late \/ Dir!Shell \/ UNCHANGED dirVars
  <2>1. UNCHANGED <<path, back, entries, selected, scroll>>
    BY <1>5 DEF Dir!Late, Dir!Shell, dirVars
  <2>2. QED
    BY <2>1 DEF WayOK, Ways
<1>6. CASE Dir!Arrow
  <2>1. /\ selected \in Nat /\ Len(entries) \in Nat
        /\ selected < Len(entries) \/ selected = 0
    BY DEF WayOK
  <2>2. PICK i \in Nat : Dir!Chosen(i) /\ (i < Len(entries) \/ i = 0)
    <3>1. CASE Dir!Chosen(IF selected > 0 THEN selected - 1 ELSE selected)
      <4>1. (IF selected > 0 THEN selected - 1 ELSE selected) \in Nat
        BY <2>1
      <4>2. (IF selected > 0 THEN selected - 1 ELSE selected) < Len(entries)
            \/ (IF selected > 0 THEN selected - 1 ELSE selected) = 0
        BY <2>1
      <4>3. QED
        BY <3>1, <4>1, <4>2
    <3>2. CASE Dir!Chosen(IF selected < Len(entries) - 1 THEN selected + 1 ELSE selected)
      <4>1. (IF selected < Len(entries) - 1 THEN selected + 1 ELSE selected) \in Nat
        BY <2>1
      <4>2. (IF selected < Len(entries) - 1 THEN selected + 1 ELSE selected) < Len(entries)
            \/ (IF selected < Len(entries) - 1 THEN selected + 1 ELSE selected) = 0
        BY <2>1
      <4>3. QED
        BY <3>2, <4>1, <4>2
    <3>3. QED
      BY <1>6, <3>1, <3>2 DEF Dir!Arrow
  <2>3. QED
    BY <2>2, ChosenStep
<1>7. CASE Dir!Page
  <2>1. /\ selected \in Nat /\ Len(entries) \in Nat
        /\ selected < Len(entries) \/ selected = 0
    BY DEF WayOK
  <2>2. PICK i \in Nat : Dir!Chosen(i) /\ (i < Len(entries) \/ i = 0)
    <3> DEFINE a == Dir!Kept(selected - 10)
               b == Dir!Kept(IF selected + 10 >= Len(entries) THEN Len(entries) - 1 ELSE selected + 10)
    <3>1. a \in Nat /\ (a < Len(entries) \/ a = 0)
      BY <2>1 DEF Dir!Kept
    <3>2. b \in Nat /\ (b < Len(entries) \/ b = 0)
      BY <2>1 DEF Dir!Kept
    <3>3. Dir!Chosen(a) \/ Dir!Chosen(b)
      BY <1>7 DEF Dir!Page
    <3> HIDE DEF a, b
    <3>4. QED
      BY <3>1, <3>2, <3>3
  <2>3. QED
    BY <2>2, ChosenStep
<1>8. CASE Dir!Enter
  <2>1. Dir!Open(selected, Dir!InView(selected))
    BY <1>8 DEF Dir!Enter
  <2>2. selected \in Nat /\ (selected < Len(entries) \/ selected = 0)
    BY DEF WayOK
  <2>3. Dir!InView(selected) \in Nat /\ (Dir!InView(selected) <= selected)
    BY <2>2, Viewed
  <2>4. QED
    BY <2>1, <2>2, <2>3, OpenStep
<1>9. QED
  BY <1>1, <1>2, <1>3, <1>4, <1>5, <1>6, <1>7, <1>8 DEF Dir!Next

LEMMA WaySteps ==
  ASSUME [SessionNext]_all
  PROVE  [Dir!Next]_dirVars
BY DEF SessionNext, all, programs, others, windows, tools, shell, DesktopNext, KeyboardNext,
       AccountsNext, RendererNext, BrowserNext, DocumentNext, NotepadNext, PaintNext, SnakeNext,
       ExplorerNext, MakeNext, CalculatorNext, TerminalNext, ToolsNext

(* The explorer: the row selected is one of the rows, and Back leads up: each*)
(* directory on the way back holds the next one, and the last of them the    *)
(* one shown, also when the oldest are forgotten and the file system changes *)
(* beside it: the part of ProgramsSound that is about it.                    *)
THEOREM BackLeadsUp == SessionSpec => []Dir!WaySound
<1>1. SessionInit => WayOK
  <2>1. SUFFICES ASSUME Dir!Init PROVE WayOK
    BY DEF SessionInit, Starting
  <2>2. path \in Seq(Listed)
    <3>1. path \in AtFirst \/ path = <<>>
      BY <2>1 DEF Dir!Init
    <3>2. AtFirst \subseteq Seq(Listed)
      BY ExplorerAssumption DEF Listed
    <3>3. <<>> \in Seq(Listed)
      OBVIOUS
    <3>4. QED
      BY <3>1, <3>2, <3>3
  <2>3. Len(entries) \in Nat
    BY <2>1, ListingLength DEF Dir!Init
  <2>4. back = <<>> /\ selected = 0 /\ scroll = 0
    BY <2>1 DEF Dir!Init
  <2>5. QED
    BY <2>2, <2>3, <2>4 DEF WayOK, Ways
<1>2. WayOK /\ [SessionNext]_all => WayOK'
  BY WayKeeps, WaySteps
<1>3. WayOK => Dir!WaySound
  BY DEF WayOK, Dir!WaySound, Ways
<1>4. QED
  BY <1>1, <1>2, <1>3, PTL DEF SessionSpec

-----------------------------------------------------------------------------
(* The browser: t stands for the slots, n for how many there are.            *)

HeldBy(t, n) == {t[s].block : s \in 1..n} \ {0}
Owned(t, n, h, l) ==
  /\ h = HeldBy(t, n) \cup l /\ HeldBy(t, n) \cap l = {} /\ 0 \notin l
  /\ \A s \in 1..n : \A r \in 1..n : s # r /\ t[s].block # 0 => t[r].block # t[s].block
PagesShown(t, d, n) == \A s \in 1..n : t[s].block # 0 => t[s].doc = s /\ d[s] = t[s].url
Slotted(t) == DOMAIN t = 1..MaxTabs

WebRuns ==
  /\ browsers \in {0, 1} /\ 0 \notin lost
  /\ Slotted(tab) /\ Slotted(nodes) /\ tabs \in 1..MaxTabs /\ active \in 1..tabs
  /\ browsers = 0 => heap = lost /\ request = Web!Idle
  /\ browsers = 1 => Owned(tab, tabs, heap, lost) /\ (~shifted => PagesShown(tab, nodes, tabs))
  /\ request # Web!Idle => tab[active].block = 0
WebOK == shared \/ WebRuns

(* The slot s of t has given up its text; a slot is written.                 *)
Emptied(t, s, x, y) == [t EXCEPT ![s] = [url |-> x, block |-> 0, doc |-> y]]
Wrote(d, s, x) == [d EXCEPT ![s] = x]

(* A tab gives its text back, or takes one in a block nobody has.            *)
LEMMA GivenBack ==
  ASSUME NEW t, NEW n \in 1..MaxTabs, NEW h, NEW l, NEW d, Slotted(t), NEW s \in 1..n,
         Owned(t, n, h, l), NEW x, NEW y,
         NEW u, u = Emptied(t, s, x, y)
  PROVE  /\ Slotted(u) /\ u[s].block = 0 /\ u[s].url = x /\ Owned(u, n, h \ {t[s].block}, l)
         /\ PagesShown(t, d, n) => PagesShown(u, d, n)
<1>1. s \in 1..MaxTabs /\ \A r \in 1..n : r \in 1..MaxTabs
  BY BrowserAssumption
<1>2. /\ Slotted(u) /\ u[s].block = 0 /\ u[s].url = x
      /\ \A r \in 1..n : r # s => u[r] = t[r]
  BY <1>1 DEF Slotted, Emptied, Wrote
<1>3. HeldBy(u, n) = HeldBy(t, n) \ {t[s].block}
  <2>1. ASSUME NEW b \in HeldBy(u, n) PROVE b \in HeldBy(t, n) \ {t[s].block}
    <3>1. PICK r \in 1..n : b = u[r].block /\ b # 0
      BY DEF HeldBy
    <3>2. r # s /\ u[r] = t[r]
      BY <1>2, <3>1
    <3>3. t[r].block # t[s].block
      BY <3>1, <3>2 DEF Owned
    <3>4. QED
      BY <3>1, <3>2, <3>3 DEF HeldBy
  <2>2. ASSUME NEW b \in HeldBy(t, n), b # t[s].block PROVE b \in HeldBy(u, n)
    <3>1. PICK r \in 1..n : b = t[r].block /\ b # 0
      BY DEF HeldBy
    <3>2. u[r] = t[r]
      BY <1>2, <2>2, <3>1
    <3>3. QED
      BY <3>1, <3>2 DEF HeldBy
  <2>3. QED
    BY <2>1, <2>2
<1>4. t[s].block \notin l
  <2>1. t[s].block = 0 \/ t[s].block \in HeldBy(t, n)
    BY DEF HeldBy
  <2>2. QED
    BY <2>1 DEF Owned
<1>5. Owned(u, n, h \ {t[s].block}, l)
  <2>1. h \ {t[s].block} = HeldBy(u, n) \cup l
    BY <1>3, <1>4 DEF Owned
  <2>2. \A r \in 1..n : \A q \in 1..n : r # q /\ u[r].block # 0 => u[q].block # u[r].block
    <3> SUFFICES ASSUME NEW r \in 1..n, NEW q \in 1..n, r # q, u[r].block # 0
                 PROVE  u[q].block # u[r].block
      OBVIOUS
    <3>1. r # s /\ u[r] = t[r]
      BY <1>2
    <3>2. CASE q = s
      BY <1>2, <3>2
    <3>3. CASE q # s
      BY <1>2, <3>1, <3>3 DEF Owned
    <3>4. QED
      BY <3>2, <3>3
  <2>3. QED
    BY <1>3, <2>1, <2>2 DEF Owned
<1>6. PagesShown(t, d, n) => PagesShown(u, d, n)
  BY <1>2 DEF PagesShown
<1>7. QED
  BY <1>2, <1>5, <1>6

LEMMA TakenIn ==
  ASSUME NEW t, NEW n \in 1..MaxTabs, NEW h, NEW l, NEW d, Slotted(t), Slotted(d), NEW s \in 1..n,
         Owned(t, n, h, l), t[s].block = 0, NEW b, b # 0, b \notin h,
         NEW u, u = Web!Holding(t, s, b),
         NEW c, c = Wrote(d, s, t[s].url)
  PROVE  /\ Slotted(u) /\ Slotted(c) /\ Owned(u, n, h \cup {b}, l)
         /\ PagesShown(t, d, n) => PagesShown(u, c, n)
<1>1. s \in 1..MaxTabs /\ \A r \in 1..n : r \in 1..MaxTabs
  BY BrowserAssumption
<1>2. /\ Slotted(u) /\ u[s].block = b /\ u[s].url = t[s].url /\ u[s].doc = s
      /\ \A r \in 1..n : r # s => u[r] = t[r]
  BY <1>1 DEF Slotted, Web!Holding
<1>3. Slotted(c) /\ c[s] = t[s].url /\ \A r \in 1..n : r # s => c[r] = d[r]
  BY <1>1 DEF Slotted, Emptied, Wrote
<1>4. HeldBy(u, n) = HeldBy(t, n) \cup {b}
  <2>1. ASSUME NEW e \in HeldBy(u, n) PROVE e \in HeldBy(t, n) \cup {b}
    <3>1. PICK r \in 1..n : e = u[r].block /\ e # 0
      BY DEF HeldBy
    <3>2. CASE r = s
      BY <1>2, <3>1, <3>2
    <3>3. CASE r # s
      BY <1>2, <3>1, <3>3 DEF HeldBy
    <3>4. QED
      BY <3>2, <3>3
  <2>2. ASSUME NEW e \in HeldBy(t, n) PROVE e \in HeldBy(u, n)
    <3>1. PICK r \in 1..n : e = t[r].block /\ e # 0
      BY DEF HeldBy
    <3>2. r # s /\ u[r] = t[r]
      BY <1>2, <3>1
    <3>3. QED
      BY <3>1, <3>2 DEF HeldBy
  <2>3. b \in HeldBy(u, n)
    BY <1>2 DEF HeldBy
  <2>4. QED
    BY <2>1, <2>2, <2>3
<1>5. Owned(u, n, h \cup {b}, l)
  <2>1. b \notin l /\ b \notin HeldBy(t, n)
    BY DEF Owned
  <2>2. h \cup {b} = HeldBy(u, n) \cup l /\ HeldBy(u, n) \cap l = {}
    BY <1>4, <2>1 DEF Owned
  <2>3. \A r \in 1..n : \A q \in 1..n : r # q /\ u[r].block # 0 => u[q].block # u[r].block
    <3> SUFFICES ASSUME NEW r \in 1..n, NEW q \in 1..n, r # q, u[r].block # 0
                 PROVE  u[q].block # u[r].block
      OBVIOUS
    <3>1. \A p \in 1..n : t[p].block # b
      BY <2>1 DEF HeldBy
    <3>2. CASE q = s
      BY <1>2, <3>1, <3>2
    <3>3. CASE r = s
      BY <1>2, <3>1, <3>3
    <3>4. CASE q # s /\ r # s
      BY <1>2, <3>4 DEF Owned
    <3>5. QED
      BY <3>2, <3>3, <3>4
  <2>4. QED
    BY <2>2, <2>3 DEF Owned
<1>6. PagesShown(t, d, n) => PagesShown(u, c, n)
  BY <1>2, <1>3 DEF PagesShown
<1>7. QED
  BY <1>2, <1>3, <1>5, <1>6

(* A page is made, or there is no room for its text.                         *)
LEMMA ShowStep ==
  ASSUME NEW t, NEW n \in 1..MaxTabs, NEW h, NEW l, Slotted(t), Slotted(nodes), NEW s \in 1..n,
         Owned(t, n, h, l), t[s].block = 0, NEW a, a = t[s].url, Web!Show(t, s, a, h)
  PROVE  /\ Slotted(tab') /\ Slotted(nodes') /\ Owned(tab', n, heap', l)
         /\ PagesShown(t, nodes, n) => PagesShown(tab', nodes', n)
         /\ request' = Web!Idle
<1>1. ASSUME NEW b \in Web!Lowest(Blocks \ h), tab' = Web!Holding(t, s, b), heap' = h \cup {b},
             nodes' = [nodes EXCEPT ![s] = a]
      PROVE  /\ Slotted(tab') /\ Slotted(nodes') /\ Owned(tab', n, heap', l)
             /\ PagesShown(t, nodes, n) => PagesShown(tab', nodes', n)
  <2>1. b \notin h /\ b # 0
    BY BrowserAssumption DEF Web!Lowest
  <2>2. PICK u : u = Web!Holding(t, s, b)
    OBVIOUS
  <2>3. PICK d : d = nodes
    OBVIOUS
  <2>4. PICK c : c = Wrote(d, s, t[s].url)
    OBVIOUS
  <2>5. /\ Slotted(u) /\ Slotted(c) /\ Owned(u, n, h \cup {b}, l)
        /\ PagesShown(t, d, n) => PagesShown(u, c, n)
    BY <2>1, <2>2, <2>3, <2>4, TakenIn
  <2>6. tab' = u /\ nodes' = c /\ heap' = h \cup {b}
    BY <1>1, <2>2, <2>3, <2>4 DEF Wrote
  <2>7. QED
    BY <2>3, <2>5, <2>6
<1>2. CASE tab' = t /\ heap' = h /\ nodes' = nodes
  BY <1>2 DEF Web!Show
<1>3. QED
  BY <1>1, <1>2 DEF Web!Show

(* A page is left for another: what the slot held is given back first.       *)
LEMMA NavigateStep ==
  ASSUME NEW t, NEW n \in 1..MaxTabs, NEW h, NEW l, Slotted(t), Slotted(nodes), NEW s \in 1..n,
         Owned(t, n, h, l), NEW a, NEW list, NEW at, Web!NavigateIn(t, s, a, list, at, h)
  PROVE  /\ Slotted(tab') /\ Slotted(nodes') /\ Owned(tab', n, heap', l)
         /\ PagesShown(t, nodes, n) => PagesShown(tab', nodes', n)
         /\ request' # Web!Idle => tab'[s].block = 0
<1>1. PICK u : u = Emptied(t, s, a, t[s].doc)
  OBVIOUS
<1>2. PICK d : d = nodes
  OBVIOUS
<1>3. /\ Slotted(u) /\ u[s].block = 0 /\ u[s].url = a /\ Owned(u, n, h \ {t[s].block}, l)
      /\ PagesShown(t, d, n) => PagesShown(u, d, n)
  BY <1>1, GivenBack
<1>4. CASE tab' = u /\ heap' = h \ {t[s].block} /\ nodes' = nodes
  BY <1>2, <1>3, <1>4
<1>5. CASE Web!Show(u, s, a, h \ {t[s].block})
  BY <1>2, <1>3, <1>5, ShowStep
<1>6. QED
  BY <1>1, <1>4, <1>5 DEF Web!NavigateIn, Emptied

(* A new tab is a slot more, which holds nothing.                            *)
LEMMA AddedTab ==
  ASSUME NEW t, NEW n \in 1..MaxTabs, NEW h, NEW l, NEW d, Slotted(t), n < MaxTabs,
         Owned(t, n, h, l), NEW x, NEW y, NEW m, m = n + 1,
         NEW u, u = Emptied(t, m, x, y)
  PROVE  /\ m \in 1..MaxTabs /\ m \in 1..m /\ Slotted(u) /\ Owned(u, m, h, l)
         /\ u[m].block = 0
         /\ PagesShown(t, d, n) => PagesShown(u, d, m)
<1>1. /\ m \in 1..MaxTabs /\ m \in 1..m
      /\ \A r \in 1..m : r \in 1..MaxTabs /\ (r # m => r \in 1..n)
      /\ \A r \in 1..n : r \in 1..m /\ r # m /\ r \in 1..MaxTabs
  BY BrowserAssumption
<1>2. /\ Slotted(u) /\ u[m].block = 0
      /\ \A r \in 1..n : u[r] = t[r]
  BY <1>1 DEF Slotted, Emptied, Wrote
<1>3. HeldBy(u, m) = HeldBy(t, n)
  <2>1. ASSUME NEW b \in HeldBy(u, m) PROVE b \in HeldBy(t, n)
    <3>1. PICK r \in 1..m : b = u[r].block /\ b # 0
      BY DEF HeldBy
    <3>2. QED
      BY <1>1, <1>2, <3>1 DEF HeldBy
  <2>2. ASSUME NEW b \in HeldBy(t, n) PROVE b \in HeldBy(u, m)
    <3>1. PICK r \in 1..n : b = t[r].block /\ b # 0
      BY DEF HeldBy
    <3>2. QED
      BY <1>1, <1>2, <3>1 DEF HeldBy
  <2>3. QED
    BY <2>1, <2>2
<1>4. Owned(u, m, h, l)
  <2>1. \A r \in 1..m : \A q \in 1..m : r # q /\ u[r].block # 0 => u[q].block # u[r].block
    <3> SUFFICES ASSUME NEW r \in 1..m, NEW q \in 1..m, r # q, u[r].block # 0
                 PROVE  u[q].block # u[r].block
      OBVIOUS
    <3>1. r \in 1..n /\ u[r] = t[r]
      BY <1>1, <1>2
    <3>2. CASE q = m
      BY <1>2, <3>2
    <3>3. CASE q # m
      BY <1>1, <1>2, <3>1, <3>3 DEF Owned
    <3>4. QED
      BY <3>2, <3>3
  <2>2. QED
    BY <1>3, <2>1 DEF Owned
<1>5. ASSUME PagesShown(t, d, n) PROVE PagesShown(u, d, m)
  <2> SUFFICES ASSUME NEW r \in 1..m, u[r].block # 0 PROVE u[r].doc = r /\ d[r] = u[r].url
    BY DEF PagesShown
  <2>1. r \in 1..n /\ u[r] = t[r]
    BY <1>1, <1>2
  <2>2. QED
    BY <1>5, <2>1 DEF PagesShown
<1>6. QED
  BY <1>1, <1>2, <1>4, <1>5

(* A tab is closed: the slots above move down.                               *)
LEMMA ClosedTab ==
  ASSUME NEW t, NEW n \in 1..MaxTabs, NEW h, NEW l, Slotted(t), NEW s \in 1..n, 1 < n,
         Owned(t, n, h, l), NEW m, m = n - 1,
         NEW u, u = [i \in 1..MaxTabs |-> IF i >= s /\ i < n THEN t[i + 1] ELSE t[i]]
  PROVE  /\ m \in 1..MaxTabs /\ Slotted(u) /\ Owned(u, m, h \ {t[s].block}, l)
<1> DEFINE Origin(i) == IF i >= s THEN i + 1 ELSE i
<1>1. /\ m \in 1..MaxTabs
      /\ \A r \in 1..m : /\ r \in 1..MaxTabs /\ r < n
                         /\ Origin(r) \in 1..n /\ Origin(r) # s
      /\ \A r, q \in 1..m : r # q => Origin(r) # Origin(q)
      /\ \A r \in 1..n : r # s => \E q \in 1..m : r = Origin(q)
  <2>1. /\ m \in 1..MaxTabs
        /\ \A r \in 1..m : /\ r \in 1..MaxTabs /\ r < n
                           /\ Origin(r) \in 1..n /\ Origin(r) # s
        /\ \A r, q \in 1..m : r # q => Origin(r) # Origin(q)
    BY BrowserAssumption
  <2>2. ASSUME NEW r \in 1..n, r # s PROVE \E q \in 1..m : r = Origin(q)
    <3>1. CASE r > s
      <4>1. (r - 1) \in 1..m /\ r = Origin(r - 1)
        BY <3>1, BrowserAssumption
      <4>2. QED
        BY <4>1
    <3>2. CASE r < s
      <4>1. r \in 1..m /\ r = Origin(r)
        BY <3>2, BrowserAssumption
      <4>2. QED
        BY <4>1
    <3>3. QED
      BY <2>2, <3>1, <3>2, BrowserAssumption
  <2>3. QED
    BY <2>1, <2>2
<1>2. \A r \in 1..m : u[r] = t[Origin(r)]
  BY <1>1
<1>3. Slotted(u)
  BY DEF Slotted
<1> HIDE DEF Origin
<1>4. HeldBy(u, m) = HeldBy(t, n) \ {t[s].block}
  <2>1. ASSUME NEW b \in HeldBy(u, m) PROVE b \in HeldBy(t, n) \ {t[s].block}
    <3>1. PICK r \in 1..m : b = u[r].block /\ b # 0
      BY DEF HeldBy
    <3>2. Origin(r) \in 1..n /\ Origin(r) # s /\ b = t[Origin(r)].block
      BY <1>1, <1>2, <3>1
    <3>3. b # t[s].block
      BY <3>1, <3>2 DEF Owned
    <3>4. QED
      BY <3>1, <3>2, <3>3 DEF HeldBy
  <2>2. ASSUME NEW b \in HeldBy(t, n), b # t[s].block PROVE b \in HeldBy(u, m)
    <3>1. PICK r \in 1..n : b = t[r].block /\ b # 0
      BY DEF HeldBy
    <3>2. PICK q \in 1..m : r = Origin(q)
      BY <1>1, <2>2, <3>1
    <3>3. b = u[q].block
      BY <1>2, <3>1, <3>2
    <3>4. QED
      BY <3>1, <3>3 DEF HeldBy
  <2>3. QED
    BY <2>1, <2>2
<1>5. t[s].block \notin l
  <2>1. t[s].block = 0 \/ t[s].block \in HeldBy(t, n)
    BY DEF HeldBy
  <2>2. QED
    BY <2>1 DEF Owned
<1>6. h \ {t[s].block} = HeldBy(u, m) \cup l
  BY <1>4, <1>5 DEF Owned
<1>7. \A r \in 1..m : \A q \in 1..m : r # q /\ u[r].block # 0 => u[q].block # u[r].block
  <2> SUFFICES ASSUME NEW r \in 1..m, NEW q \in 1..m, r # q, u[r].block # 0
               PROVE  u[q].block # u[r].block
    OBVIOUS
  <2>1. /\ Origin(r) \in 1..n /\ Origin(q) \in 1..n /\ Origin(r) # Origin(q)
        /\ u[r] = t[Origin(r)] /\ u[q] = t[Origin(q)]
    BY <1>1, <1>2
  <2>2. QED
    BY <2>1 DEF Owned
<1>8. Owned(u, m, h \ {t[s].block}, l)
  BY <1>4, <1>6, <1>7 DEF Owned
<1>9. QED
  BY <1>1, <1>3, <1>8

LEMMA WebNavigates ==
  ASSUME WebRuns, browsers = 1, browsers' = browsers, lost' = lost, shifted' = shifted,
         NEW t, NEW n \in 1..MaxTabs, NEW s \in 1..n, Slotted(t), Owned(t, n, heap, lost),
         ~shifted => PagesShown(t, nodes, n),
         tabs' = n, active' = s,
         NEW a, NEW list, NEW at, Web!NavigateIn(t, s, a, list, at, heap)
  PROVE  WebRuns'
<1>1. Slotted(nodes)
  BY DEF WebRuns
<1>2. /\ Slotted(tab') /\ Slotted(nodes') /\ Owned(tab', n, heap', lost)
      /\ PagesShown(t, nodes, n) => PagesShown(tab', nodes', n)
      /\ request' # Web!Idle => tab'[s].block = 0
  BY <1>1, NavigateStep
<1>3. ~shifted' => PagesShown(tab', nodes', tabs')
  BY <1>2
<1>4. Slotted(tab)' /\ Slotted(nodes)' /\ Owned(tab, tabs, heap, lost)'
  BY <1>2
<1>5. browsers' \in {0, 1} /\ 0 \notin lost' /\ browsers' = 1
  BY DEF WebRuns
<1>6. QED
  BY <1>2, <1>3, <1>4, <1>5 DEF WebRuns

LEMMA WebNavigate ==
  ASSUME WebRuns, Web!Ready, browsers' = browsers, lost' = lost, shifted' = shifted,
         tabs' = tabs, active' = active,
         NEW a, NEW at, Web!Navigate(a, at)
  PROVE  WebRuns'
<1>1. browsers = 1
  BY DEF WebRuns, Web!Ready
<1>2. /\ tabs \in 1..MaxTabs /\ active \in 1..tabs /\ Slotted(tab) /\ Owned(tab, tabs, heap, lost)
      /\ ~shifted => PagesShown(tab, nodes, tabs)
  BY <1>1 DEF WebRuns
<1>3. Web!NavigateIn(tab, active, Web!Canonical(a), history, at, heap)
  BY DEF Web!Navigate
<1>4. PICK t : t = tab
  OBVIOUS
<1>5. PICK n : n = tabs
  OBVIOUS
<1>6. PICK s : s = active
  OBVIOUS
<1>7. /\ n \in 1..MaxTabs /\ s \in 1..n /\ Slotted(t) /\ Owned(t, n, heap, lost)
      /\ ~shifted => PagesShown(t, nodes, n)
      /\ tabs' = n /\ active' = s
      /\ Web!NavigateIn(t, s, Web!Canonical(a), history, at, heap)
  BY <1>2, <1>3, <1>4, <1>5, <1>6
<1>8. QED
  BY <1>1, <1>7, WebNavigates

(* A fetch is answered: the tab that waits holds nothing.                    *)
LEMMA WebShows ==
  ASSUME WebRuns, Web!Waiting, browsers' = browsers, shifted' = shifted,
         tabs' = tabs, active' = active,
         NEW h, Owned(tab, tabs, h, lost'), 0 \notin lost', Web!Show(tab, active, tab[active].url, h)
  PROVE  WebRuns'
<1>1. browsers = 1 /\ tab[active].block = 0
  BY DEF WebRuns, Web!Waiting
<1>2. /\ tabs \in 1..MaxTabs /\ active \in 1..tabs /\ Slotted(tab) /\ Slotted(nodes)
      /\ ~shifted => PagesShown(tab, nodes, tabs)
  BY <1>1 DEF WebRuns
<1>3. PICK t : t = tab
  OBVIOUS
<1>4. PICK n : n = tabs
  OBVIOUS
<1>5. PICK s : s = active
  OBVIOUS
<1>6. PICK l : l = lost'
  OBVIOUS
<1>7. PICK a : a = t[s].url
  OBVIOUS
<1>8. /\ n \in 1..MaxTabs /\ s \in 1..n /\ Slotted(t) /\ Slotted(nodes) /\ Owned(t, n, h, l)
      /\ ~shifted => PagesShown(t, nodes, n)
      /\ t[s].block = 0
      /\ Web!Show(t, s, a, h)
  BY <1>1, <1>2, <1>3, <1>4, <1>5, <1>6, <1>7
<1>9. /\ Slotted(tab') /\ Slotted(nodes') /\ Owned(tab', n, heap', l) /\ request' = Web!Idle
      /\ PagesShown(t, nodes, n) => PagesShown(tab', nodes', n)
  BY <1>7, <1>8, ShowStep
<1>10. ~shifted' => PagesShown(tab', nodes', tabs')
  BY <1>4, <1>8, <1>9
<1>11. Slotted(tab)' /\ Slotted(nodes)' /\ Owned(tab, tabs, heap, lost)'
  BY <1>4, <1>6, <1>9
<1>12. tabs' \in 1..MaxTabs /\ active' \in 1..tabs' /\ browsers' = 1
  BY <1>1, <1>2
<1>13. QED
  BY <1>9, <1>10, <1>11, <1>12 DEF WebRuns

(* ... or the next request is made.                                          *)
LEMMA WebAsks ==
  ASSUME WebRuns, Web!Waiting, browsers' = browsers, shifted' = shifted, lost' = lost,
         tabs' = tabs, active' = active,
         NEW scheme, NEW d, NEW z, Web!Ask(scheme, d, z)
  PROVE  WebRuns'
<1>1. CASE Web!Failed
  <2>1. Owned(tab, tabs, heap, lost') /\ 0 \notin lost'
    BY DEF WebRuns, Web!Waiting
  <2>2. Web!Show(tab, active, tab[active].url, heap)
    BY <1>1 DEF Web!Failed
  <2>3. QED
    BY <2>1, <2>2, WebShows
<1>2. CASE UNCHANGED <<tab, nodes, heap>>
  BY <1>2 DEF WebRuns, Web!Waiting
<1>3. QED
  BY <1>1, <1>2 DEF Web!Ask

(* A block that nobody has may be lost.                                      *)
LEMMA OneLost ==
  ASSUME NEW t, NEW n, NEW h, NEW l, Owned(t, n, h, l), NEW b, b \notin h, b # 0
  PROVE  Owned(t, n, h \cup {b}, l \cup {b})
<1>1. b \notin HeldBy(t, n)
  BY DEF Owned
<1>2. h \cup {b} = HeldBy(t, n) \cup (l \cup {b}) /\ HeldBy(t, n) \cap (l \cup {b}) = {}
  BY <1>1 DEF Owned
<1>3. QED
  BY <1>2 DEF Owned

LEMMA WebShown ==
  ASSUME NEW b \in Web!Lowest(Blocks \ heap),
         tab' = Web!Holding(tab, active, b), heap' = heap \cup {b},
         nodes' = [nodes EXCEPT ![active] = tab[active].url], request' = Web!Idle
  PROVE  Web!Show(tab, active, tab[active].url, heap)
BY DEF Web!Show

LEMMA WebAnswers ==
  ASSUME WebRuns, Web!HttpsAnswer \/ Web!HttpAnswer
  PROVE  WebRuns'
<1>1. /\ Web!Waiting /\ browsers' = browsers /\ shifted' = shifted
      /\ tabs' = tabs /\ active' = active
  BY DEF Web!HttpsAnswer, Web!HttpAnswer, Web!view
<1>2. Owned(tab, tabs, heap, lost) /\ 0 \notin lost
  BY <1>1 DEF WebRuns, Web!Waiting
<1>3. CASE /\ lost' = lost
           /\ \E b \in Web!Lowest(Blocks \ heap) :
                /\ tab' = Web!Holding(tab, active, b)
                /\ heap' = heap \cup {b}
                /\ nodes' = [nodes EXCEPT ![active] = tab[active].url]
                /\ request' = Web!Idle
  <2>1. Web!Show(tab, active, tab[active].url, heap)
    BY <1>3, WebShown
  <2>2. QED
    BY <1>1, <1>2, <1>3, <2>1, WebShows
<1>4. CASE lost' = lost /\ Web!Failed
  <2>1. Web!Show(tab, active, tab[active].url, heap)
    BY <1>4 DEF Web!Failed
  <2>2. QED
    BY <1>1, <1>2, <1>4, <2>1, WebShows
<1>5. ASSUME lost' = lost, NEW scheme, NEW d, NEW z, Web!Ask(scheme, d, z) PROVE WebRuns'
  BY <1>1, <1>5, WebAsks
<1>6. CASE \E b \in Web!Lowest(Blocks \ heap) :
             /\ lost' = lost \cup {b}
             /\ Web!Show(tab, active, tab[active].url, heap \cup {b})
  <2>1. PICK b \in Web!Lowest(Blocks \ heap) :
             /\ lost' = lost \cup {b}
             /\ Web!Show(tab, active, tab[active].url, heap \cup {b})
    BY <1>6
  <2>2. b \notin heap /\ b # 0
    BY <2>1, BrowserAssumption DEF Web!Lowest
  <2>3. Owned(tab, tabs, heap \cup {b}, lost')
    BY <1>2, <2>1, <2>2, OneLost
  <2>4. 0 \notin lost'
    BY <1>2, <2>1, <2>2
  <2>5. QED
    BY <1>1, <2>1, <2>3, <2>4, WebShows
<1>7. CASE Web!HttpsAnswer
  <2>1. lost' = lost
    BY <1>7 DEF Web!HttpsAnswer
  <2>2. QED
    BY <1>3, <1>4, <1>5, <1>7, <2>1 DEF Web!HttpsAnswer
<1>8. CASE Web!HttpAnswer
  BY <1>3, <1>4, <1>5, <1>6, <1>8 DEF Web!HttpAnswer
<1>9. QED
  BY <1>7, <1>8

LEMMA WebTabs ==
  ASSUME WebRuns, Web!KeyNewTab \/ Web!ButtonNewTab \/ \E s \in Web!TabSlots : Web!CloseTab(s)
  PROVE  WebRuns'
<1>1. /\ browsers = 1 /\ browsers' = browsers /\ lost' = lost /\ request = Web!Idle
      /\ tabs \in 1..MaxTabs /\ active \in 1..tabs
      /\ Slotted(tab) /\ Slotted(nodes) /\ Owned(tab, tabs, heap, lost) /\ 0 \notin lost
      /\ ~shifted => PagesShown(tab, nodes, tabs)
  BY DEF WebRuns, Web!KeyNewTab, Web!ButtonNewTab, Web!CloseTab, Web!Ready, Web!view
<1>2. PICK t : t = tab
  OBVIOUS
<1>3. PICK n : n = tabs
  OBVIOUS
<1>4. PICK m : m = n + 1
  OBVIOUS
<1>5. PICK u : u = Emptied(t, m, Web!Blank, m)
  OBVIOUS
<1>6. PICK d : d = nodes
  OBVIOUS
<1>7. PICK h : h = heap
  OBVIOUS
<1>8. PICK l : l = lost
  OBVIOUS
<1>9. /\ n \in 1..MaxTabs /\ Slotted(t) /\ Slotted(d) /\ Owned(t, n, h, l)
      /\ ~shifted => PagesShown(t, d, n)
  BY <1>1, <1>2, <1>3, <1>6, <1>7, <1>8
<1>10. ASSUME n < MaxTabs
       PROVE  /\ m \in 1..MaxTabs /\ m \in 1..m /\ Slotted(u) /\ Owned(u, m, h, l)
              /\ u[m].block = 0
              /\ PagesShown(t, d, n) => PagesShown(u, d, m)
  BY <1>4, <1>5, <1>9, <1>10, AddedTab
<1>11. Web!NewTab(tab) = u
  BY <1>2, <1>3, <1>4, <1>5 DEF Web!NewTab, Emptied
<1>12. CASE Web!KeyNewTab
  <2>1. /\ n < MaxTabs /\ tab' = u /\ tabs' = m /\ active' = m
        /\ nodes' = d /\ heap' = h /\ lost' = l /\ shifted' = shifted /\ request' = Web!Idle
    BY <1>1, <1>3, <1>4, <1>6, <1>7, <1>8, <1>11, <1>12 DEF Web!KeyNewTab
  <2>2. ~shifted' => PagesShown(tab', nodes', tabs')
    BY <1>9, <1>10, <2>1
  <2>3. Slotted(tab)' /\ Slotted(nodes)' /\ Owned(tab, tabs, heap, lost)'
    BY <1>9, <1>10, <2>1
  <2>4. tabs' \in 1..MaxTabs /\ active' \in 1..tabs' /\ browsers' = 1
    BY <1>1, <1>10, <2>1
  <2>5. QED
    BY <1>1, <2>1, <2>2, <2>3, <2>4 DEF WebRuns
<1>13. CASE Web!ButtonNewTab
  <2>1. /\ n < MaxTabs /\ tabs' = m /\ active' = m /\ shifted' = shifted
        /\ Web!NavigateIn(u, m, Web!Home, history, pos, heap)
    BY <1>3, <1>4, <1>11, <1>13 DEF Web!ButtonNewTab
  <2>2. /\ m \in 1..MaxTabs /\ m \in 1..m /\ Slotted(u) /\ Owned(u, m, heap, lost)
        /\ ~shifted => PagesShown(u, nodes, m)
    BY <1>6, <1>7, <1>8, <1>9, <1>10, <2>1
  <2>3. QED
    BY <1>1, <2>1, <2>2, WebNavigates
<1>14. ASSUME NEW s \in Web!TabSlots, Web!CloseTab(s) PROVE WebRuns'
  <2>1. s \in 1..n /\ 1 < n
    BY <1>1, <1>3, <1>14, BrowserAssumption DEF Web!CloseTab, Web!TabSlots
  <2>2. PICK k : k = n - 1
    OBVIOUS
  <2>3. PICK v : v = [i \in 1..MaxTabs |-> IF i >= s /\ i < n THEN t[i + 1] ELSE t[i]]
    OBVIOUS
  <2>4. k \in 1..MaxTabs /\ Slotted(v) /\ Owned(v, k, h \ {t[s].block}, l)
    BY <1>9, <2>1, <2>2, <2>3, ClosedTab
  <2>5. /\ tab' = v /\ heap' = h \ {t[s].block} /\ tabs' = k /\ lost' = l
        /\ request' = Web!Idle
        /\ nodes' = [i \in 1..MaxTabs |-> IF i >= s /\ i < n THEN nodes[i + 1] ELSE nodes[i]]
    BY <1>1, <1>2, <1>3, <1>7, <1>8, <1>14, <2>2, <2>3 DEF Web!CloseTab, Web!TabSlots
  <2>6. active' \in 1..tabs'
    <3>1. active' = IF active > n - 1 THEN n - 1 ELSE active
      BY <1>3, <1>14 DEF Web!CloseTab
    <3>2. PICK x \in Nat, y \in Nat : x = n /\ y = active
      BY <1>1, <1>3, BrowserAssumption
    <3>3. 1 < x /\ y \in 1..x
      BY <1>1, <1>3, <2>1, <3>2
    <3>4. (IF y > x - 1 THEN x - 1 ELSE y) \in 1..(x - 1)
      BY <3>3
    <3>5. tabs' = x - 1
      BY <2>2, <2>5, <3>2
    <3>6. QED
      BY <3>1, <3>2, <3>4, <3>5
  <2>7. ASSUME ~shifted' PROVE PagesShown(tab', nodes', tabs')
    <3>1. ~shifted /\ s = n
      <4>1. ~shifted /\ ~(s < n)
        BY <1>3, <1>14, <2>7, Zenon DEF Web!CloseTab
      <4>2. QED
        BY <1>9, <2>1, <4>1, BrowserAssumption
    <3>2. PagesShown(t, d, n)
      BY <1>9, <3>1
    <3>3. PICK e : e = nodes'
      OBVIOUS
    <3>4. \A r \in 1..k : r \in 1..n /\ v[r] = t[r] /\ e[r] = d[r]
      <4>1. \A r \in 1..k : r \in 1..n /\ r \in 1..MaxTabs /\ ~(r >= n)
        BY <1>9, <2>2, BrowserAssumption
      <4>2. \A r \in 1..k : v[r] = t[r]
        BY <2>3, <3>1, <4>1
      <4>3. \A r \in 1..k : e[r] = d[r]
        BY <1>6, <2>5, <3>1, <3>3, <4>1
      <4>4. QED
        BY <4>1, <4>2, <4>3
    <3>5. PagesShown(v, e, k)
      BY <3>2, <3>4 DEF PagesShown
    <3>6. QED
      BY <2>5, <3>3, <3>5
  <2>8. Slotted(nodes)'
    BY <2>5 DEF Slotted
  <2>9. Slotted(tab)' /\ Owned(tab, tabs, heap, lost)' /\ tabs' \in 1..MaxTabs
    BY <2>4, <2>5
  <2>10. QED
    <3>1. browsers' = 1 /\ 0 \notin lost' /\ request' = Web!Idle
      BY <1>1, <2>5
    <3>2. QED
      BY <2>6, <2>7, <2>8, <2>9, <3>1 DEF WebRuns
<1>15. QED
  BY <1>12, <1>13, <1>14

LEMMA WebWindows ==
  ASSUME WebRuns, Web!Create \/ Web!Close, ~shared'
  PROVE  WebRuns'
<1>1. CASE Web!Create
  <2>1. browsers = 0
    <3>1. ~(browsers > 0)
      BY <1>1, Zenon DEF Web!Create
    <3>2. QED
      BY <3>1 DEF WebRuns
  <2>2. /\ heap = lost /\ lost' = lost /\ browsers' = 1 /\ tabs' = 1 /\ active' = 1
        /\ request' = Web!Idle /\ 0 \notin lost
    BY <1>1, <2>1 DEF WebRuns, Web!Create
  <2>3. 1 \in 1..MaxTabs /\ 1 \in 1..1 /\ \A r \in 1..1 : r = 1
    BY BrowserAssumption
  <2>4. PICK l : l = lost
    OBVIOUS
  <2>5. ASSUME NEW b, NEW u, Slotted(u), u[1].block = b, b = 0 \/ b \notin l,
               NEW h, h = l \cup ({b} \ {0}), 0 \notin l
        PROVE  Owned(u, 1, h, l)
    <3>1. HeldBy(u, 1) = {b} \ {0}
      BY <2>3, <2>5 DEF HeldBy
    <3>2. h = HeldBy(u, 1) \cup l /\ HeldBy(u, 1) \cap l = {}
      BY <2>5, <3>1
    <3>3. QED
      BY <2>3, <2>5, <3>2 DEF Owned
  <2>6. CASE \E b \in Web!Lowest(Blocks \ heap) :
               /\ tab' = [s \in Web!TabSlots |->
                            IF s = 1 THEN [url |-> Web!Home, block |-> b, doc |-> 1] ELSE Web!Fresh]
               /\ nodes' = [s \in Web!TabSlots |-> IF s = 1 THEN Web!Home ELSE Web!Blank]
               /\ heap' = heap \cup {b}
    <3>1. PICK b \in Web!Lowest(Blocks \ heap) :
               /\ tab' = [s \in Web!TabSlots |->
                            IF s = 1 THEN [url |-> Web!Home, block |-> b, doc |-> 1] ELSE Web!Fresh]
               /\ nodes' = [s \in Web!TabSlots |-> IF s = 1 THEN Web!Home ELSE Web!Blank]
               /\ heap' = heap \cup {b}
      BY <2>6
    <3>2. b \notin l /\ b # 0
      BY <2>2, <2>4, <3>1, BrowserAssumption DEF Web!Lowest
    <3>3. PICK u : u = tab'
      OBVIOUS
    <3>4. PICK d : d = nodes'
      OBVIOUS
    <3>5. /\ Slotted(u) /\ Slotted(d) /\ u[1].block = b /\ u[1].doc = 1 /\ u[1].url = Web!Home
          /\ d[1] = Web!Home
      BY <2>3, <3>1, <3>3, <3>4 DEF Slotted, Web!TabSlots
    <3>6. heap' = l \cup ({b} \ {0})
      BY <2>2, <2>4, <3>1, <3>2
    <3>7. Owned(u, 1, l \cup ({b} \ {0}), l)
      BY <2>2, <2>4, <2>5, <3>2, <3>5
    <3>8. PagesShown(u, d, 1)
      BY <2>3, <3>5 DEF PagesShown
    <3>9. Slotted(tab') /\ Slotted(nodes') /\ Owned(tab', tabs', heap', lost')
          /\ PagesShown(tab', nodes', tabs')
      BY <2>2, <2>4, <3>3, <3>4, <3>5, <3>6, <3>7, <3>8
    <3>10. QED
      BY <2>2, <2>3, <3>9 DEF WebRuns
  <2>7. CASE /\ tab' = [s \in Web!TabSlots |-> Web!Fresh]
             /\ nodes' = [s \in Web!TabSlots |-> Web!Blank]
             /\ heap' = heap
    <3>1. PICK u : u = tab'
      OBVIOUS
    <3>2. PICK d : d = nodes'
      OBVIOUS
    <3>3. Slotted(u) /\ Slotted(d) /\ u[1].block = 0
      BY <2>3, <2>7, <3>1, <3>2 DEF Slotted, Web!TabSlots, Web!Fresh
    <3>4. heap' = l \cup ({0} \ {0})
      BY <2>2, <2>4, <2>7
    <3>5. Owned(u, 1, l \cup ({0} \ {0}), l)
      BY <2>2, <2>4, <2>5, <3>3
    <3>6. PagesShown(u, d, 1)
      BY <2>3, <3>3 DEF PagesShown
    <3>7. Slotted(tab') /\ Slotted(nodes') /\ Owned(tab', tabs', heap', lost')
          /\ PagesShown(tab', nodes', tabs')
      BY <2>2, <2>4, <3>1, <3>2, <3>3, <3>4, <3>5, <3>6
    <3>8. QED
      BY <2>2, <2>3, <3>7 DEF WebRuns
  <2>8. QED
    BY <1>1, <2>6, <2>7 DEF Web!Create
<1>2. CASE Web!Close
  <2>1. /\ browsers = 1 /\ browsers' = browsers - 1 /\ request = Web!Idle
        /\ UNCHANGED <<tab, nodes, tabs, active, request, lost>>
        /\ heap' = heap \ {tab[s].block : s \in 1..tabs}
    BY <1>2 DEF WebRuns, Web!Close, Web!Ready
  <2>2. browsers' = 0
    BY <2>1
  <2>3. heap' = lost'
    <3>1. heap = HeldBy(tab, tabs) \cup lost /\ HeldBy(tab, tabs) \cap lost = {} /\ 0 \notin lost
      BY <2>1 DEF WebRuns, Owned
    <3>2. \A b \in {tab[s].block : s \in 1..tabs} : b = 0 \/ b \in HeldBy(tab, tabs)
      BY DEF HeldBy
    <3>3. HeldBy(tab, tabs) \subseteq {tab[s].block : s \in 1..tabs}
      BY DEF HeldBy
    <3>4. heap' = lost
      BY <2>1, <3>1, <3>2, <3>3
    <3>5. QED
      BY <2>1, <3>4
  <2>4. QED
    BY <2>1, <2>2, <2>3 DEF WebRuns
<1>3. QED
  BY <1>1, <1>2

LEMMA WebKeeps ==
  ASSUME WebOK, [Web!Next]_webVars
  PROVE  WebOK'
<1>1. CASE shared
  <2>1. shared'
    BY <1>1, Zenon DEF webVars, Web!Next, Web!GoBack, Web!GoForward, Web!Reload, Web!Link, Web!HttpsAnswer,
       Web!HttpAnswer, Web!KeyNewTab, Web!ButtonNewTab, Web!CloseTab, Web!SelectTab, Web!FocusBar,
       Web!LeaveBar, Web!EnterBar, Web!AddBookmark, Web!Create, Web!Close, Web!view, Web!Ready
  <2>2. QED
    BY <2>1 DEF WebOK
<1>2. CASE shared'
  BY <1>2 DEF WebOK
<1>3. CASE ~shared /\ ~shared'
  <2>1. WebRuns
    BY <1>3 DEF WebOK
  <2>2. SUFFICES WebRuns'
    BY DEF WebOK
  <2>3. CASE Web!GoBack \/ Web!GoForward \/ Web!Reload \/ Web!Link \/ Web!EnterBar
    <3>1. /\ Web!Ready /\ browsers' = browsers /\ lost' = lost /\ shifted' = shifted
          /\ tabs' = tabs /\ active' = active
          /\ \E a, at : Web!Navigate(a, at)
      BY <2>3 DEF Web!GoBack, Web!GoForward, Web!Reload, Web!Link, Web!EnterBar, Web!view
    <3>2. QED
      BY <2>1, <3>1, WebNavigate
  <2>4. CASE Web!HttpsAnswer \/ Web!HttpAnswer
    BY <2>1, <2>4, WebAnswers
  <2>5. CASE Web!KeyNewTab \/ Web!ButtonNewTab \/ \E s \in Web!TabSlots : Web!CloseTab(s)
    BY <2>1, <2>5, WebTabs
  <2>6. CASE \E s \in Web!TabSlots : Web!SelectTab(s)
    <3>1. /\ UNCHANGED <<browsers, tab, nodes, tabs, heap, lost, shifted, request>>
          /\ request = Web!Idle /\ active' \in 1..tabs
      BY <2>1, <2>6, BrowserAssumption DEF WebRuns, Web!SelectTab, Web!Ready, Web!TabSlots, Web!view
    <3>2. QED
      BY <2>1, <3>1 DEF WebRuns
  <2>7. CASE Web!FocusBar \/ Web!LeaveBar \/ Web!AddBookmark \/ UNCHANGED webVars
    <3>1. UNCHANGED <<browsers, tab, nodes, tabs, active, heap, lost, shifted, request>>
      BY <2>7 DEF Web!FocusBar, Web!LeaveBar, Web!AddBookmark, Web!view, webVars
    <3>2. QED
      BY <2>1, <3>1 DEF WebRuns
  <2>8. CASE Web!Create \/ Web!Close
    BY <1>3, <2>1, <2>8, WebWindows
  <2>9. QED
    BY <2>3, <2>4, <2>5, <2>6, <2>7, <2>8 DEF Web!Next
<1>4. QED
  BY <1>1, <1>2, <1>3

LEMMA WebSteps ==
  ASSUME [SessionNext]_all
  PROVE  [Web!Next]_webVars
BY DEF SessionNext, all, programs, others, windows, tools, shell, DesktopNext, KeyboardNext,
       AccountsNext, RendererNext, BrowserNext, DocumentNext, NotepadNext, PaintNext, SnakeNext,
       ExplorerNext, MakeNext, CalculatorNext, TerminalNext, ToolsNext

(* The browser: as long as one window shows it, the blocks in use are those  *)
(* of its tabs, one each, and those of the answers nobody took; and, unless  *)
(* a tab has moved, a tab that has a text shows the page of its address:     *)
(* the part of ProgramsSound that is about it.                               *)
THEOREM PagesAreOwned == SessionSpec => []Web!ContentOwned
<1>1. SessionInit => WebOK
  <2>1. SUFFICES ASSUME Web!Init PROVE WebRuns
    BY DEF SessionInit, Starting, WebOK
  <2>2. 1 \in 1..MaxTabs /\ 1 \in 1..1
    BY BrowserAssumption
  <2>3. QED
    BY <2>1, <2>2 DEF Web!Init, WebRuns, Slotted, Web!TabSlots
<1>2. WebOK /\ [SessionNext]_all => WebOK'
  BY WebKeeps, WebSteps
<1>3. WebOK => Web!ContentOwned
  <2>1. SUFFICES ASSUME WebRuns
        PROVE  /\ heap = Web!Held \cup lost /\ Web!Held \cap lost = {}
               /\ browsers = 1 =>
                    \A s \in 1..tabs : tab[s].block # 0 =>
                      /\ \A r \in 1..tabs : r # s => tab[r].block # tab[s].block
                      /\ ~shifted => nodes[tab[s].doc] = tab[s].url
    BY DEF WebOK, Web!ContentOwned
  <2>2. CASE browsers = 0
    BY <2>1, <2>2 DEF WebRuns, Web!Held
  <2>3. CASE browsers = 1
    <3>1. Owned(tab, tabs, heap, lost) /\ (~shifted => PagesShown(tab, nodes, tabs))
      BY <2>1, <2>3 DEF WebRuns
    <3>2. Web!Held = HeldBy(tab, tabs)
      BY <2>3 DEF Web!Held, HeldBy
    <3>3. QED
      BY <3>1, <3>2 DEF Owned, PagesShown
  <2>4. QED
    BY <2>1, <2>2, <2>3 DEF WebRuns
<1>4. QED
  BY <1>1, <1>2, <1>3, PTL DEF SessionSpec

-----------------------------------------------------------------------------
(* The renderer.  A table q of textures whose blocks are among the b ever    *)
(* had, f of them given back; and what holds as long as there is a context.  *)

Stowed(q, f, b) ==
  /\ b \in Nat /\ f \subseteq Nat /\ 0 \notin f /\ \A x \in f : x <= b
  /\ DOMAIN q = 1..Textures
  /\ \A s \in 1..Textures : q[s].block \in Nat /\ q[s].block <= b
Whole(q, f) ==
  \A s, t \in 1..Textures :
    /\ q[s].block \notin f
    /\ s # t => /\ q[s].block = 0 \/ q[s].block # q[t].block
                /\ q[s].id = 0 \/ q[s].id # q[t].id
Stored(q, s, i, k) == [q EXCEPT ![s] = [id |-> i, block |-> k]]

GLOK ==
  /\ Stowed(slot, freed, blocks)
  /\ on => Whole(slot, freed) /\ mvp = GL!Product(matrix)

(* A slot is written: its data is given back, what it gets is new or none.   *)
LEMMA WriteSlot ==
  ASSUME NEW q, NEW f, NEW b, Stowed(q, f, b), Whole(q, f), NEW s \in 1..Textures,
         NEW i, \A t \in 1..Textures : t # s => i = 0 \/ q[t].id # i,
         NEW k, NEW c, \/ k = 0 /\ c = b
                       \/ k = b + 1 /\ c = b + 1,
         NEW u, u = Stored(q, s, i, k), NEW g, g = f \cup ({q[s].block} \ {0})
  PROVE  Stowed(u, g, c) /\ Whole(u, g)
<1>1. /\ DOMAIN u = 1..Textures /\ u[s].block = k /\ u[s].id = i
      /\ \A t \in 1..Textures : t # s => u[t] = q[t]
  BY DEF Stowed, Stored
<1>2. c \in Nat /\ k \in Nat /\ k <= c /\ b <= c /\ b \in Nat
  BY DEF Stowed
<1>3. \A x \in g : x \in Nat /\ x # 0 /\ x <= b
  <2> SUFFICES ASSUME NEW x \in g PROVE x \in Nat /\ x # 0 /\ x <= b
    OBVIOUS
  <2>1. CASE x \in f
    BY <2>1 DEF Stowed
  <2>2. CASE x = q[s].block /\ x # 0
    BY <2>2 DEF Stowed
  <2>3. QED
    BY <2>1, <2>2
<1>4. \A t \in 1..Textures : u[t].block \in Nat /\ u[t].block <= c
  <2> SUFFICES ASSUME NEW t \in 1..Textures PROVE u[t].block \in Nat /\ u[t].block <= c
    OBVIOUS
  <2>1. CASE t = s
    BY <1>1, <1>2, <2>1
  <2>2. CASE t # s
    <3>1. u[t].block \in Nat /\ u[t].block <= b
      BY <1>1, <2>2 DEF Stowed
    <3>2. QED
      BY <1>2, <3>1
  <2>3. QED
    BY <2>1, <2>2
<1>5. Stowed(u, g, c)
  <2>1. g \subseteq Nat /\ 0 \notin g
    BY <1>3
  <2>2. \A x \in g : x <= c
    BY <1>2, <1>3
  <2>3. QED
    BY <1>1, <1>2, <1>4, <2>1, <2>2 DEF Stowed
<1>6. \A t \in 1..Textures : u[t].block \notin g
  <2> SUFFICES ASSUME NEW t \in 1..Textures PROVE u[t].block \notin g
    OBVIOUS
  <2>1. CASE t = s
    <3>1. ~(k \in g)
      <4>1. k \in g => k # 0 /\ k <= b
        BY <1>3
      <4>2. ~(k # 0 /\ k <= b)
        BY <1>2
      <4>3. QED
        BY <4>1, <4>2
    <3>2. QED
      BY <1>1, <2>1, <3>1
  <2>2. CASE t # s
    <3>1. q[t].block \notin f /\ (q[t].block = 0 \/ q[t].block # q[s].block)
      BY <2>2 DEF Whole
    <3>2. QED
      BY <1>1, <2>2, <3>1
  <2>3. QED
    BY <2>1, <2>2
<1>7. ASSUME NEW r \in 1..Textures, NEW t \in 1..Textures, r # t
      PROVE  /\ u[r].block = 0 \/ u[r].block # u[t].block
             /\ u[r].id = 0 \/ u[r].id # u[t].id
  <2>1. \A x \in 1..Textures : x # s => k = 0 \/ q[x].block # k
    <3>1. \A x \in 1..Textures : q[x].block \in Nat /\ q[x].block <= b
      BY DEF Stowed
    <3>2. QED
      BY <1>2, <3>1
  <2>2. CASE r = s
    BY <1>1, <1>7, <2>1, <2>2
  <2>3. CASE t = s
    <3>1. q[r].block = 0 \/ q[r].block # k
      <4>1. k = 0 \/ q[r].block # k
        BY <1>7, <2>1, <2>3
      <4>2. QED
        BY <4>1
    <3>2. q[r].id = 0 \/ q[r].id # i
      BY <1>7, <2>3
    <3>3. QED
      BY <1>1, <1>7, <2>3, <3>1, <3>2
  <2>4. CASE r # s /\ t # s
    BY <1>1, <1>7, <2>4 DEF Whole
  <2>5. QED
    BY <2>2, <2>3, <2>4
<1>8. QED
  BY <1>5, <1>6, <1>7 DEF Whole

LEMMA LowestWith ==
  ASSUME NEW S \in SUBSET (1..Textures), S # {}
  PROVE  GL!Lowest(S) \in S
<1>1. S \in SUBSET Nat
  BY RendererAssumption
<1>2. \E s \in S : \A t \in S : s <= t
  BY <1>1, LeastExists
<1>3. QED
  BY <1>2 DEF GL!Lowest

LEMMA GLKeeps ==
  ASSUME GLOK, [GL!Next]_glVars
  PROVE  GLOK'
<1> USE DEF GL!textures, GL!image
<1>1. CASE \/ GL!UnknownEnum \/ GL!AglGetError \/ GL!AglMatrixMode \/ GL!AglPushMatrix
           \/ \E c \in GL!Caps : GL!AglEnable(c) \/ GL!AglDisable(c)
           \/ GL!AglPushAttrib \/ GL!AglGenTextures \/ GL!AglBindTexture
           \/ GL!AglBegin \/ GL!AglVertex \/ GL!AglEnd \/ GL!AglShape \/ GL!AglClear
           \/ UNCHANGED glVars
  <2>1. UNCHANGED <<on, matrix, mvp, slot, freed, blocks>>
    BY <1>1 DEF GL!UnknownEnum, GL!AglGetError, GL!AglMatrixMode, GL!AglPushMatrix, GL!AglEnable,
       GL!AglDisable, GL!AglPushAttrib, GL!AglGenTextures, GL!AglBindTexture, GL!AglBegin,
       GL!AglVertex, GL!AglEnd, GL!AglShape, GL!AglClear, GL!Fail, glVars
  <2>2. QED
    BY <2>1 DEF GLOK
<1>2. CASE \/ GL!AglLoadIdentity \/ GL!AglPopMatrix \/ GL!AglPopAttrib
           \/ \E f \in Factors : \/ GL!AglLoadMatrix(f) \/ GL!AglMultMatrix(f)
                                 \/ GL!AglProjection(f) \/ GL!AglLookAt(f)
  <2>1. /\ UNCHANGED <<on, slot, freed, blocks>>
        /\ mvp' = GL!Product(matrix') \/ (mvp' = mvp /\ matrix' = matrix)
    BY <1>2 DEF GL!AglLoadIdentity, GL!AglPopMatrix, GL!AglPopAttrib, GL!AglLoadMatrix,
       GL!AglMultMatrix, GL!AglProjection, GL!AglLookAt, GL!Set, GL!Fail
  <2>2. QED
    BY <2>1 DEF GLOK
<1>3. CASE GL!AglInit
  <2>1. /\ slot' = [s \in 1..Textures |-> [id |-> 0, block |-> 0]]
        /\ freed' = freed /\ blocks' = blocks
        /\ mvp' = <<>> /\ matrix' = [m \in GL!Modes |-> <<>>]
    BY <1>3 DEF GL!AglInit, GL!Fresh, GL!TextureSlots, GL!Identity
  <2>2. Stowed(slot, freed, blocks)'
    BY <2>1 DEF GLOK, Stowed
  <2>3. Whole(slot, freed)'
    <3>1. 0 \notin freed
      BY DEF GLOK, Stowed
    <3>2. QED
      BY <2>1, <3>1 DEF Whole
  <2>4. mvp' = GL!Product(matrix')
    BY <2>1 DEF GL!Product, GL!Modes
  <2>5. QED
    BY <2>2, <2>3, <2>4 DEF GLOK
<1>4. CASE GL!AglShutdown
  <2>1. /\ ~on' /\ slot' = slot /\ blocks' = blocks
        /\ freed' = freed \cup ({slot[s].block : s \in 1..Textures} \ {0})
    BY <1>4, Zenon DEF GL!AglShutdown, GL!TextureSlots
  <2>2. /\ blocks \in Nat /\ freed \subseteq Nat /\ 0 \notin freed /\ \A x \in freed : x <= blocks
        /\ DOMAIN slot = 1..Textures
        /\ \A s \in 1..Textures : slot[s].block \in Nat /\ slot[s].block <= blocks
    BY DEF GLOK, Stowed
  <2>3. \A x \in {slot[s].block : s \in 1..Textures} : x \in Nat /\ x <= blocks
    BY <2>2
  <2>4. freed' \subseteq Nat /\ 0 \notin freed' /\ \A x \in freed' : x <= blocks
    BY <2>1, <2>2, <2>3
  <2>5. Stowed(slot, freed, blocks)'
    BY <2>1, <2>2, <2>4 DEF Stowed
  <2>6. QED
    BY <2>1, <2>5 DEF GLOK
<1>5. CASE GL!AglDeleteTextures
  <2>1. /\ on /\ UNCHANGED <<on, matrix, mvp, blocks>>
    BY <1>5 DEF GL!AglDeleteTextures, GL!Call
  <2>2. CASE UNCHANGED <<slot, freed>>
    BY <2>1, <2>2 DEF GLOK
  <2>3. ASSUME NEW s \in 1..Textures, freed' = freed \cup ({slot[s].block} \ {0}),
               slot' = Stored(slot, s, 0, 0)
        PROVE  GLOK'
    <3>1. PICK q : q = slot
      OBVIOUS
    <3>2. PICK f : f = freed
      OBVIOUS
    <3>3. PICK b : b = blocks
      OBVIOUS
    <3>4. Stowed(q, f, b) /\ Whole(q, f) /\ mvp = GL!Product(matrix)
      BY <2>1, <3>1, <3>2, <3>3 DEF GLOK
    <3>5. PICK u : u = Stored(q, s, 0, 0)
      OBVIOUS
    <3>6. PICK g : g = f \cup ({q[s].block} \ {0})
      OBVIOUS
    <3>7. Stowed(u, g, b) /\ Whole(u, g)
      BY <3>4, <3>5, <3>6, WriteSlot
    <3>8. slot' = u /\ freed' = g /\ blocks' = b
      BY <2>1, <2>3, <3>1, <3>2, <3>3, <3>5, <3>6
    <3>9. QED
      BY <2>1, <3>4, <3>7, <3>8 DEF GLOK
  <2>4. ASSUME NEW id \in 1..(next - 1), GL!With(id) # {},
               freed' = freed \cup GL!Block(GL!Lowest(GL!With(id))),
               slot' = [slot EXCEPT ![GL!Lowest(GL!With(id))] = [id |-> 0, block |-> 0]]
        PROVE  GLOK'
    <3>1. GL!Lowest(GL!With(id)) \in 1..Textures
      BY <2>4, LowestWith DEF GL!With, GL!TextureSlots
    <3>2. QED
      BY <2>3, <2>4, <3>1 DEF Stored, GL!Block
  <2>5. QED
    BY <1>5, <2>2, <2>4 DEF GL!AglDeleteTextures
<1>6. CASE GL!AglTexImage2D
  <2>1. on /\ UNCHANGED <<on, matrix, mvp>>
    BY <1>6 DEF GL!AglTexImage2D, GL!Call, GL!Fail
  <2>2. CASE UNCHANGED <<slot, freed, blocks>>
    BY <2>1, <2>2 DEF GLOK
  <2>3. ASSUME ~(GL!With(bound) = {} /\ GL!With(0) = {}), NEW s,
               s = IF GL!With(bound) # {} THEN GL!Lowest(GL!With(bound)) ELSE GL!Lowest(GL!With(0)),
               freed' = freed \cup GL!Block(s),
               \/ /\ blocks' = blocks + 1
                  /\ slot' = [slot EXCEPT ![s] = [id |-> bound, block |-> blocks + 1]]
               \/ /\ blocks' = blocks
                  /\ slot' = [slot EXCEPT ![s] = [id |-> slot[s].id, block |-> 0]]
        PROVE  GLOK'
    <3>1. PICK q : q = slot
      OBVIOUS
    <3>2. PICK f : f = freed
      OBVIOUS
    <3>3. PICK b : b = blocks
      OBVIOUS
    <3>4. Stowed(q, f, b) /\ Whole(q, f) /\ mvp = GL!Product(matrix)
      BY <2>1, <3>1, <3>2, <3>3 DEF GLOK
    <3>5. s \in 1..Textures /\ (s \in GL!With(bound) \/ GL!With(bound) = {})
      <4>1. /\ GL!With(bound) \in SUBSET (1..Textures)
            /\ GL!With(0) \in SUBSET (1..Textures)
        BY DEF GL!With, GL!TextureSlots
      <4>2. CASE GL!With(bound) # {}
        <5>1. s = GL!Lowest(GL!With(bound))
          BY <2>3, <4>2, Zenon
        <5>2. s \in GL!With(bound)
          BY <4>1, <4>2, <5>1, LowestWith, Zenon
        <5>3. QED
          BY <4>1, <5>2
      <4>3. CASE GL!With(bound) = {}
        <5>1. s = GL!Lowest(GL!With(0)) /\ GL!With(0) # {}
          BY <2>3, <4>3, Zenon
        <5>2. s \in GL!With(0)
          BY <4>1, <5>1, LowestWith, Zenon
        <5>3. QED
          BY <4>1, <4>3, <5>2
      <4>4. QED
        BY <4>2, <4>3
    <3>6. \A t \in 1..Textures : t # s => q[s].id = 0 \/ q[t].id # q[s].id
      BY <3>4, <3>5 DEF Whole
    <3>7. \A t \in 1..Textures : t # s => bound = 0 \/ q[t].id # bound
      <4>1. CASE s \in GL!With(bound)
        <5>1. q[s].id = bound
          BY <3>1, <4>1 DEF GL!With
        <5>2. QED
          BY <3>6, <5>1
      <4>2. CASE GL!With(bound) = {}
        BY <3>1, <4>2 DEF GL!With, GL!TextureSlots
      <4>3. QED
        BY <3>5, <4>1, <4>2
    <3>8. PICK i, k : \/ i = bound /\ k = b + 1 /\ blocks' = b + 1 /\ slot' = Stored(q, s, i, k)
                      \/ i = q[s].id /\ k = 0 /\ blocks' = b /\ slot' = Stored(q, s, i, k)
      BY <2>3, <3>1, <3>3 DEF Stored
    <3>9. PICK c : c = blocks'
      OBVIOUS
    <3>10. PICK u : u = Stored(q, s, i, k)
      OBVIOUS
    <3>11. PICK g : g = f \cup ({q[s].block} \ {0})
      OBVIOUS
    <3>12. /\ \A t \in 1..Textures : t # s => i = 0 \/ q[t].id # i
           /\ \/ k = 0 /\ c = b
              \/ k = b + 1 /\ c = b + 1
      BY <3>6, <3>7, <3>8, <3>9
    <3>13. Stowed(u, g, c) /\ Whole(u, g)
      BY <3>4, <3>5, <3>10, <3>11, <3>12, WriteSlot
    <3>14. slot' = u /\ freed' = g /\ blocks' = c
      BY <2>3, <3>1, <3>2, <3>8, <3>9, <3>10, <3>11 DEF GL!Block
    <3>15. QED
      BY <2>1, <3>4, <3>13, <3>14 DEF GLOK
  <2>4. QED
    BY <1>6, <2>2, <2>3 DEF GL!AglTexImage2D, GL!Fail
<1>7. QED
  BY <1>1, <1>2, <1>3, <1>4, <1>5, <1>6 DEF GL!Next

LEMMA GLSteps ==
  ASSUME [SessionNext]_all
  PROVE  [GL!Next]_glVars
BY DEF SessionNext, all, programs, others, windows, tools, shell, DesktopNext, KeyboardNext,
       AccountsNext, RendererNext, BrowserNext, DocumentNext, NotepadNext, PaintNext, SnakeNext,
       ExplorerNext, MakeNext, CalculatorNext, TerminalNext, ToolsNext

(* AurionGL: vertices are transformed by the matrices the caller sees,       *)
(* whatever was pushed and popped in between; and a texture's data is its    *)
(* own, and in the heap, as long as the context is.                          *)
THEOREM ContextIsSound == SessionSpec => []GL!ContextSound
<1>1. SessionInit => GLOK
  <2>1. SUFFICES ASSUME GL!Init PROVE GLOK
    BY DEF SessionInit, Starting
  <2>2. ~on
    BY <2>1, Zenon DEF GL!Init
  <2>3. Stowed(slot, freed, blocks)
    BY <2>1 DEF GL!Init, Stowed, GL!TextureSlots
  <2>4. QED
    BY <2>2, <2>3 DEF GLOK
<1>2. GLOK /\ [SessionNext]_all => GLOK'
  BY GLKeeps, GLSteps
<1>3. GLOK => GL!ContextSound
  BY DEF GLOK, Whole, GL!ContextSound, GL!TextureSlots
<1>4. QED
  BY <1>1, <1>2, <1>3, PTL DEF SessionSpec

-----------------------------------------------------------------------------
(* The document: p stands for the nodes, s for the stack of open elements,   *)
(* z for those that were open, k and c for the open lists and their counts.  *)
(* Positions(p, s, k, q) : q says where on the stack the lists are.          *)

Plus(p, r) == Append(p, r)
Upto(s, m) == SubSeq(s, 1, m)
Above(s, m) == {s[e] : e \in (m + 1)..Len(s)}
NodeRecord == [tag : Tags \cup {"document", "head", "leaf"}, up : Nat, item : Nat]
Placed(p, s, z) ==
  /\ p \in Seq(NodeRecord) /\ 1 <= Len(p)
  /\ \A n \in 1..Len(p) : p[n].up <= Len(p)
  /\ s \in Seq(Nat) /\ 1 <= Len(s) /\ s[1] = 1
  /\ \A i \in 1..Len(s) : 1 <= s[i] /\ s[i] <= Len(p) /\ s[i] \notin z
  /\ \A i \in 1..(Len(s) - 1) : p[s[i + 1]].up = s[i]
  /\ \A i, e \in 1..Len(s) : i < e => s[i] < s[e]
  /\ \A x \in z : x \in Nat /\ x <= Len(p)
ItemOf(r, l) == r.up = l /\ r.tag = "li"
ItemsIn(p, l) == {n \in 1..Len(p) : p[n].up = l /\ p[n].tag = "li"}
Counted(p) ==
  \A l \in 1..Len(p) : p[l].tag \in Page!Lists =>
    \A n \in ItemsIn(p, l) : p[n].item = Cardinality({m \in ItemsIn(p, l) : m <= n})
Positions(p, s, k, q) ==
  /\ DOMAIN q = 1..k
  /\ \A e \in 1..k : q[e] \in 1..Len(s) /\ p[s[q[e]]].tag \in Page!Lists
  /\ \A i, e \in 1..k : i < e => q[i] < q[e]
  /\ \A i \in 1..Len(s) : p[s[i]].tag \in Page!Lists => \E e \in 1..k : q[e] = i
OneMore(c, d, k) == d[k] = c[k] + 1 /\ \A i \in 1..k : i # k => d[i] = c[i]
SameUpTo(c, d, k) == \A i \in 1..k : d[i] = c[i]
Counting(p, s, k, q, c) ==
  \A e \in 1..k : c[e] = Cardinality(ItemsIn(p, s[q[e]]))

Marked(p, s, k, c) == \E q : Positions(p, s, k, q) /\ Counting(p, s, k, q, c)

PageOK ==
  /\ Placed(node, open, closing)
  /\ counter \in [1..MaxLists -> Nat] /\ lists \in 0..MaxLists
  /\ tidy => Counted(node) /\ Marked(node, open, lists, counter)

LEMMA FewItems ==
  ASSUME NEW p \in Seq(NodeRecord), NEW l
  PROVE  IsFiniteSet(ItemsIn(p, l)) /\ Cardinality(ItemsIn(p, l)) \in Nat
<1>1. Len(p) \in Nat
  OBVIOUS
<1>2. IsFiniteSet(1..Len(p))
  BY <1>1, FS_Interval
<1>3. ItemsIn(p, l) \subseteq 1..Len(p)
  BY DEF ItemsIn
<1>4. IsFiniteSet(ItemsIn(p, l))
  BY <1>2, <1>3, FS_Subset
<1>5. QED
  BY <1>4, FS_CardinalityType

(* A node that is no item leaves the items as they are; an item is one more  *)
(* in its list.                                                              *)
LEMMA ItemsGrow ==
  ASSUME NEW p \in Seq(NodeRecord), NEW r \in NodeRecord, NEW u, u = Plus(p, r), NEW l,
         NEW x, x = Len(p) + 1
  PROVE  /\ x \notin ItemsIn(p, l)
         /\ ~ItemOf(r, l) => ItemsIn(u, l) = ItemsIn(p, l)
         /\ ItemOf(r, l) => ItemsIn(u, l) = ItemsIn(p, l) \cup {x}
<1>1. /\ u \in Seq(NodeRecord) /\ Len(u) = Len(p) + 1 /\ Len(p) \in Nat
      /\ u[Len(p) + 1] = r
      /\ \A n \in 1..Len(p) : u[n] = p[n]
  BY DEF Plus
<1>2. /\ \A n : n \in 1..Len(u) <=> n \in 1..Len(p) \/ n = x
      /\ x \notin 1..Len(p) /\ u[x] = r
  BY <1>1
<1>3. \A n : n \in ItemsIn(u, l) <=> n \in ItemsIn(p, l) \/ (n = x /\ ItemOf(r, l))
  BY <1>1, <1>2 DEF ItemsIn, ItemOf
<1>4. x \notin ItemsIn(p, l)
  BY <1>2 DEF ItemsIn
<1>5. QED
  BY <1>3, <1>4

LEMMA SameItems ==
  ASSUME NEW p \in Seq(NodeRecord), NEW r \in NodeRecord, NEW u, u = Plus(p, r), NEW l,
         ~ItemOf(r, l)
  PROVE  ItemsIn(u, l) = ItemsIn(p, l)
<1>1. PICK x : x = Len(p) + 1
  OBVIOUS
<1>2. QED
  BY <1>1, ItemsGrow

LEMMA OneItemMore ==
  ASSUME NEW p \in Seq(NodeRecord), NEW r \in NodeRecord, NEW u, u = Plus(p, r), NEW l,
         ItemOf(r, l)
  PROVE  Cardinality(ItemsIn(u, l)) = Cardinality(ItemsIn(p, l)) + 1
<1>1. PICK x : x = Len(p) + 1
  OBVIOUS
<1>2. x \notin ItemsIn(p, l) /\ ItemsIn(u, l) = ItemsIn(p, l) \cup {x}
  BY <1>1, ItemsGrow
<1>3. IsFiniteSet(ItemsIn(p, l))
  BY FewItems
<1>4. QED
  BY <1>2, <1>3, FS_AddElement

LEMMA CountGrows ==
  ASSUME NEW p \in Seq(NodeRecord), NEW r \in NodeRecord, NEW u, u = Plus(p, r), Counted(p),
         \A n \in 1..Len(p) : p[n].up <= Len(p), r.up <= Len(p),
         r.tag = "li" => r.item = Cardinality(ItemsIn(p, r.up)) + 1
  PROVE  Counted(u)
<1>1. /\ u \in Seq(NodeRecord) /\ Len(u) = Len(p) + 1 /\ Len(p) \in Nat
      /\ u[Len(p) + 1] = r
      /\ \A n \in 1..Len(p) : u[n] = p[n]
  BY DEF Plus
<1>2. PICK x : x = Len(p) + 1
  OBVIOUS
<1>3. /\ \A n : n \in 1..Len(u) <=> n \in 1..Len(p) \/ n = x
      /\ u[x] = r /\ \A n \in 1..Len(p) : n <= x /\ ~(x <= n) /\ n # x
  BY <1>1, <1>2
<1>4. SUFFICES ASSUME NEW l \in 1..Len(u), u[l].tag \in Page!Lists, NEW n \in ItemsIn(u, l)
               PROVE  u[n].item = Cardinality({m \in ItemsIn(u, l) : m <= n})
  BY DEF Counted
<1>5. l \in 1..Len(p)
  <2>1. u[n].up = l /\ n \in 1..Len(u)
    BY DEF ItemsIn
  <2>2. CASE n = x
    <3>1. l = r.up
      BY <1>3, <2>1, <2>2
    <3>2. QED
      BY <1>1, <3>1
  <2>3. CASE n \in 1..Len(p)
    <3>1. p[n].up = l /\ p[n].up <= Len(p)
      BY <1>1, <2>1, <2>3
    <3>2. QED
      BY <1>1, <3>1
  <2>4. QED
    BY <1>3, <2>1, <2>2, <2>3
<1>6. p[l].tag \in Page!Lists
  BY <1>1, <1>4, <1>5
<1>7. CASE n \in 1..Len(p)
  <2>1. n \in ItemsIn(p, l) /\ u[n].item = p[n].item
    BY <1>1, <1>7 DEF ItemsIn
  <2>2. {m \in ItemsIn(u, l) : m <= n} = {m \in ItemsIn(p, l) : m <= n}
    <3>1. \A m : m \in ItemsIn(u, l) <=> m \in ItemsIn(p, l) \/ (m = x /\ x \in ItemsIn(u, l))
      BY <1>1, <1>3 DEF ItemsIn
    <3>2. ~(x <= n)
      BY <1>3, <1>7
    <3>3. QED
      BY <3>1, <3>2
  <2>3. QED
    BY <1>5, <1>6, <2>1, <2>2 DEF Counted
<1>8. CASE n = x
  <2>1. r.tag = "li" /\ r.up = l /\ u[n].item = r.item
    BY <1>3, <1>8 DEF ItemsIn
  <2>2. Cardinality(ItemsIn(u, l)) = Cardinality(ItemsIn(p, l)) + 1
    BY <2>1, OneItemMore DEF ItemOf
  <2>3. {m \in ItemsIn(u, l) : m <= n} = ItemsIn(u, l)
    <3>1. \A m \in 1..Len(u) : m <= n
      BY <1>1, <1>2, <1>8
    <3>2. QED
      BY <3>1 DEF ItemsIn
  <2>4. QED
    BY <2>1, <2>2, <2>3
<1>9. QED
  BY <1>3, <1>7, <1>8 DEF ItemsIn

-----------------------------------------------------------------------------
(* Elements are closed from the top.                                         *)
LEMMA Shortened ==
  ASSUME NEW p, NEW s, NEW z, Placed(p, s, z), NEW m \in 1..Len(s),
         NEW v, v = Upto(s, m), NEW y, y = z \cup Above(s, m)
  PROVE  /\ Placed(p, v, y) /\ Len(v) = m /\ \A i \in 1..m : v[i] = s[i]
<1>1. s \in Seq(Nat) /\ Len(s) \in Nat /\ 1 <= m /\ m <= Len(s) /\ m \in Nat
  BY DEF Placed
<1>2. v \in Seq(Nat) /\ Len(v) = m /\ \A i \in 1..m : v[i] = s[i]
  BY <1>1 DEF Upto
<1>3. \A i \in 1..m : i \in 1..Len(s) /\ i \in Nat
  BY <1>1
<1>4. \A i \in 1..m : v[i] \notin y
  <2> SUFFICES ASSUME NEW i \in 1..m PROVE v[i] \notin y
    OBVIOUS
  <2>1. s[i] \notin z
    BY <1>3 DEF Placed
  <2>2. ASSUME NEW e \in (m + 1)..Len(s) PROVE s[e] # s[i]
    <3>1. e \in 1..Len(s) /\ i \in 1..Len(s) /\ i < e
      BY <1>1
    <3>2. s[i] < s[e] /\ s[i] \in Nat /\ s[e] \in Nat
      BY <1>1, <3>1 DEF Placed
    <3>3. QED
      BY <3>2
  <2>3. QED
    BY <1>2, <2>1, <2>2 DEF Above
<1>5. \A x \in y : x \in Nat /\ x <= Len(p)
  <2>1. \A e \in (m + 1)..Len(s) : e \in 1..Len(s)
    BY <1>1
  <2>2. \A e \in 1..Len(s) : s[e] \in Nat /\ s[e] <= Len(p)
    BY <1>1 DEF Placed
  <2>3. \A x \in z : x \in Nat /\ x <= Len(p)
    BY DEF Placed
  <2>4. QED
    BY <2>1, <2>2, <2>3 DEF Above
<1>6. \A i \in 1..(m - 1) : p[v[i + 1]].up = v[i]
  <2> SUFFICES ASSUME NEW i \in 1..(m - 1) PROVE p[v[i + 1]].up = v[i]
    OBVIOUS
  <2>1. i \in 1..m /\ (i + 1) \in 1..m /\ i \in 1..(Len(s) - 1)
    BY <1>1
  <2>2. p[s[i + 1]].up = s[i]
    BY <2>1 DEF Placed
  <2>3. QED
    BY <1>2, <2>1, <2>2
<1>7. \A i, e \in 1..m : i < e => v[i] < v[e]
  BY <1>2, <1>3 DEF Placed
<1>8. \A i \in 1..m : 1 <= v[i] /\ v[i] <= Len(p)
  BY <1>2, <1>3 DEF Placed
<1>9. v[1] = 1
  BY <1>1, <1>2 DEF Placed
<1>10. /\ p \in Seq(NodeRecord) /\ 1 <= Len(p)
       /\ \A n \in 1..Len(p) : p[n].up <= Len(p)
  BY DEF Placed
<1>11. QED
  BY <1>1, <1>2, <1>4, <1>5, <1>6, <1>7, <1>8, <1>9, <1>10 DEF Placed

(* A node is put into the innermost open element, and may stay open.         *)
LEMMA NodeAdded ==
  ASSUME NEW p, NEW s, NEW z, Placed(p, s, z), NEW r \in NodeRecord, r.up = s[Len(s)],
         NEW u, u = Plus(p, r), NEW v, v = s \/ v = Plus(s, Len(p) + 1)
  PROVE  Placed(u, v, z)
<1>1. /\ p \in Seq(NodeRecord) /\ s \in Seq(Nat) /\ Len(s) \in Nat /\ 1 <= Len(s)
      /\ Len(s) \in 1..Len(s)
  BY DEF Placed
<1>2. /\ u \in Seq(NodeRecord) /\ Len(u) = Len(p) + 1 /\ Len(p) \in Nat
      /\ u[Len(p) + 1] = r
      /\ \A n \in 1..Len(p) : u[n] = p[n]
  BY <1>1 DEF Plus
<1>3. \A i \in 1..Len(s) : s[i] \in Nat /\ 1 <= s[i] /\ s[i] <= Len(p) /\ s[i] \in 1..Len(p)
  BY <1>1, <1>2 DEF Placed
<1>4. 1 <= Len(u) /\ \A n \in 1..Len(u) : u[n].up <= Len(u)
  <2>1. 1 <= Len(u)
    BY <1>2
  <2>2. ASSUME NEW n \in 1..Len(u) PROVE u[n].up <= Len(u)
    <3>1. CASE n \in 1..Len(p)
      <4>1. u[n].up <= Len(p) /\ u[n].up \in Nat
        <5>1. p[n] \in NodeRecord /\ u[n] = p[n]
          BY <1>1, <1>2, <3>1
        <5>2. p[n].up <= Len(p)
          BY <3>1 DEF Placed
        <5>3. QED
          BY <5>1, <5>2 DEF NodeRecord
      <4>2. QED
        BY <1>2, <4>1
    <3>2. CASE n = Len(p) + 1
      <4>1. u[n].up \in Nat /\ u[n].up <= Len(p)
        BY <1>1, <1>2, <1>3, <3>2
      <4>2. QED
        BY <1>2, <4>1
    <3>3. QED
      BY <1>2, <3>1, <3>2
  <2>3. QED
    BY <2>1, <2>2
<1>5. Placed(u, s, z)
  <2>1. \A i \in 1..(Len(s) - 1) : u[s[i + 1]].up = s[i]
    <3> SUFFICES ASSUME NEW i \in 1..(Len(s) - 1) PROVE u[s[i + 1]].up = s[i]
      OBVIOUS
    <3>1. (i + 1) \in 1..Len(s)
      BY <1>1
    <3>2. p[s[i + 1]].up = s[i]
      BY DEF Placed
    <3>3. QED
      BY <1>2, <1>3, <3>1, <3>2
  <2>2. \A i \in 1..Len(s) : 1 <= s[i] /\ s[i] <= Len(u)
    BY <1>2, <1>3
  <2>3. \A x \in z : x \in Nat /\ x <= Len(u)
    <3>1. \A x \in z : x \in Nat /\ x <= Len(p)
      BY DEF Placed
    <3>2. QED
      BY <1>2, <3>1
  <2>4. QED
    BY <1>1, <1>2, <1>4, <2>1, <2>2, <2>3 DEF Placed
<1>6. ASSUME v = Plus(s, Len(p) + 1) PROVE Placed(u, v, z)
  <2>1. PICK m : m = Len(p) + 1
    OBVIOUS
  <2>2. PICK n : n = Len(s) + 1
    OBVIOUS
  <2>3. /\ v \in Seq(Nat) /\ Len(v) = n /\ v[n] = m /\ m \in Nat /\ n \in Nat
        /\ \A i \in 1..Len(s) : v[i] = s[i]
        /\ \A i \in 1..n : i \in 1..Len(s) \/ i = n
    BY <1>1, <1>2, <1>6, <2>1, <2>2 DEF Plus
  <2>4. \A i \in 1..n : 1 <= v[i] /\ v[i] <= Len(u) /\ v[i] \notin z
    <3> SUFFICES ASSUME NEW i \in 1..n PROVE 1 <= v[i] /\ v[i] <= Len(u) /\ v[i] \notin z
      OBVIOUS
    <3>1. CASE i \in 1..Len(s)
      BY <1>5, <2>3, <3>1 DEF Placed
    <3>2. CASE i = n
      <4>1. m \notin z
        <5>1. m \in z => m <= Len(p)
          BY DEF Placed
        <5>2. QED
          BY <1>2, <2>1, <5>1
      <4>2. QED
        BY <1>2, <2>1, <2>3, <3>2, <4>1
    <3>3. QED
      BY <2>3, <3>1, <3>2
  <2>5. \A i \in 1..(n - 1) : u[v[i + 1]].up = v[i]
    <3> SUFFICES ASSUME NEW i \in 1..(n - 1) PROVE u[v[i + 1]].up = v[i]
      OBVIOUS
    <3>1. CASE i = Len(s)
      <4>1. v[i + 1] = m /\ v[i] = s[Len(s)]
        BY <1>1, <2>2, <2>3, <3>1
      <4>2. QED
        BY <1>2, <2>1, <4>1
    <3>2. CASE i # Len(s)
      <4>1. i \in 1..(Len(s) - 1) /\ i \in 1..Len(s) /\ (i + 1) \in 1..Len(s)
        BY <1>1, <2>2, <3>2
      <4>2. u[s[i + 1]].up = s[i]
        BY <1>5, <4>1 DEF Placed
      <4>3. QED
        BY <2>3, <4>1, <4>2
    <3>3. QED
      BY <3>1, <3>2
  <2>6. \A i, e \in 1..n : i < e => v[i] < v[e]
    <3> SUFFICES ASSUME NEW i \in 1..n, NEW e \in 1..n, i < e PROVE v[i] < v[e]
      OBVIOUS
    <3>1. i \in 1..Len(s)
      BY <1>1, <2>2
    <3>2. CASE e = n
      <4>1. v[i] <= Len(p) /\ v[i] \in Nat /\ v[e] = m
        BY <1>3, <2>3, <3>1, <3>2
      <4>2. QED
        BY <1>2, <2>1, <4>1
    <3>3. CASE e \in 1..Len(s)
      <4>1. s[i] < s[e]
        BY <3>1, <3>3 DEF Placed
      <4>2. QED
        BY <2>3, <3>1, <3>3, <4>1
    <3>4. QED
      BY <2>3, <3>2, <3>3
  <2>7. v[1] = 1
    <3>1. 1 \in 1..Len(s) /\ s[1] = 1
      BY <1>1 DEF Placed
    <3>2. QED
      BY <2>3, <3>1
  <2>8. 1 <= Len(v)
    BY <1>1, <2>2, <2>3
  <2>9. \A x \in z : x \in Nat /\ x <= Len(u)
    BY <1>5 DEF Placed
  <2>10. QED
    BY <1>2, <1>4, <2>3, <2>4, <2>5, <2>6, <2>7, <2>8, <2>9 DEF Placed
<1>7. CASE v = s
  BY <1>5, <1>7
<1>8. QED
  BY <1>6, <1>7

-----------------------------------------------------------------------------
(* Where the open lists are, and how far they have counted.                  *)
LEMMA PositionsStay ==
  ASSUME NEW p, NEW s, Len(s) \in Nat, NEW k \in Nat, NEW q, NEW c,
         Positions(p, s, k, q), Counting(p, s, k, q, c),
         NEW m \in 1..Len(s), NEW v, Len(v) = m, \A i \in 1..m : v[i] = s[i],
         \A i \in (m + 1)..Len(s) : p[s[i]].tag \notin Page!Lists
  PROVE  Positions(p, v, k, q) /\ Counting(p, v, k, q, c)
<1>1. \A e \in 1..k : q[e] \in 1..m
  <2> SUFFICES ASSUME NEW e \in 1..k PROVE q[e] \in 1..m
    OBVIOUS
  <2>1. q[e] \in 1..Len(s) /\ p[s[q[e]]].tag \in Page!Lists
    BY DEF Positions
  <2>2. q[e] \in (m + 1)..Len(s) => p[s[q[e]]].tag \notin Page!Lists
    OBVIOUS
  <2>3. q[e] \notin (m + 1)..Len(s)
    BY <2>1, <2>2
  <2>4. QED
    BY <2>1, <2>3
<1>2. \A i \in 1..m : i \in 1..Len(s)
  OBVIOUS
<1>3. Positions(p, v, k, q)
  BY <1>1, <1>2 DEF Positions
<1>4. Counting(p, v, k, q, c)
  BY <1>1 DEF Counting
<1>5. QED
  BY <1>3, <1>4

LEMMA PositionsClose ==
  ASSUME NEW p, NEW s, Len(s) \in Nat, NEW k \in Nat, NEW q, NEW c,
         Positions(p, s, k, q), Counting(p, s, k, q, c),
         NEW m \in 1..Len(s), NEW v, Len(v) = m, \A i \in 1..m : v[i] = s[i],
         NEW x, x = m + 1, x \in 1..Len(s), p[s[x]].tag \in Page!Lists,
         \A i \in (x + 1)..Len(s) : p[s[i]].tag \notin Page!Lists
  PROVE  /\ k - 1 \in Nat
         /\ \E w : Positions(p, v, k - 1, w) /\ Counting(p, v, k - 1, w, c)
<1>1. PICK f \in 1..k : q[f] = x
  BY DEF Positions
<1>2. \A e \in 1..k : q[e] \in 1..Len(s) /\ ~(q[e] > x)
  <2> SUFFICES ASSUME NEW e \in 1..k PROVE q[e] \in 1..Len(s) /\ ~(q[e] > x)
    OBVIOUS
  <2>1. q[e] \in 1..Len(s) /\ p[s[q[e]]].tag \in Page!Lists
    BY DEF Positions
  <2>2. q[e] \in (x + 1)..Len(s) => p[s[q[e]]].tag \notin Page!Lists
    OBVIOUS
  <2>3. q[e] \notin (x + 1)..Len(s)
    BY <2>1, <2>2
  <2>4. QED
    BY <2>1, <2>3
<1>3. f = k
  <2>1. CASE f < k
    <3>1. k \in 1..k /\ q[f] < q[k]
      BY <2>1 DEF Positions
    <3>2. q[k] > x
      <4>1. q[k] \in 1..Len(s)
        BY <1>2, <3>1
      <4>2. QED
        BY <1>1, <3>1, <4>1
    <3>3. QED
      BY <1>2, <3>1, <3>2
  <2>2. QED
    BY <2>1
<1>4. PICK h : h = k - 1
  OBVIOUS
<1>5. h \in Nat /\ \A e \in 1..h : e \in 1..k /\ e < k
  BY <1>3, <1>4
<1>6. PICK w : w = [e \in 1..h |-> q[e]]
  OBVIOUS
<1>7. \A e \in 1..h : w[e] = q[e] /\ w[e] \in 1..m
  <2> SUFFICES ASSUME NEW e \in 1..h PROVE w[e] = q[e] /\ w[e] \in 1..m
    OBVIOUS
  <2>1. q[e] < q[k] /\ q[e] \in 1..Len(s) /\ q[k] = x
    BY <1>1, <1>2, <1>3, <1>5 DEF Positions
  <2>2. QED
    BY <1>6, <2>1
<1>8. \A i \in 1..m : i \in 1..Len(s) /\ i # x
  OBVIOUS
<1>9. \A i \in 1..m : p[v[i]].tag \in Page!Lists => \E e \in 1..h : w[e] = i
  <2> SUFFICES ASSUME NEW i \in 1..m, p[v[i]].tag \in Page!Lists PROVE \E e \in 1..h : w[e] = i
    OBVIOUS
  <2>1. p[s[i]].tag \in Page!Lists /\ i \in 1..Len(s) /\ i # x
    BY <1>8
  <2>2. PICK e \in 1..k : q[e] = i
    BY <2>1 DEF Positions
  <2>3. e # k
    BY <1>1, <1>3, <2>1, <2>2
  <2>4. e \in 1..h
    BY <1>4, <2>3
  <2>5. QED
    BY <1>7, <2>2, <2>4
<1>10. Positions(p, v, h, w)
  <2>1. DOMAIN w = 1..h
    BY <1>6
  <2>2. \A e \in 1..h : w[e] \in 1..Len(v) /\ p[v[w[e]]].tag \in Page!Lists
    <3> SUFFICES ASSUME NEW e \in 1..h
                 PROVE  w[e] \in 1..Len(v) /\ p[v[w[e]]].tag \in Page!Lists
      OBVIOUS
    <3>1. w[e] \in 1..Len(v) /\ v[w[e]] = s[q[e]] /\ e \in 1..k
      BY <1>5, <1>7
    <3>2. p[s[q[e]]].tag \in Page!Lists
      BY <3>1 DEF Positions
    <3>3. QED
      BY <3>1, <3>2
  <2>3. \A i, e \in 1..h : i < e => w[i] < w[e]
    BY <1>5, <1>7 DEF Positions
  <2>4. QED
    BY <1>9, <2>1, <2>2, <2>3 DEF Positions
<1>11. Counting(p, v, h, w, c)
  <2> SUFFICES ASSUME NEW e \in 1..h PROVE c[e] = Cardinality(ItemsIn(p, v[w[e]]))
    BY DEF Counting
  <2>1. v[w[e]] = s[q[e]] /\ e \in 1..k
    BY <1>5, <1>7
  <2>2. QED
    BY <2>1 DEF Counting
<1>12. QED
  BY <1>4, <1>5, <1>10, <1>11

(* A node is added: the stack below it stays.                                *)
LEMMA StackStays ==
  ASSUME NEW p, NEW s, NEW z, Placed(p, s, z), NEW r \in NodeRecord, NEW u, u = Plus(p, r),
         NEW v, v = s \/ v = Plus(s, Len(p) + 1)
  PROVE  /\ Len(s) \in Nat /\ Len(v) \in Nat
         /\ \A i \in 1..Len(s) : /\ i \in 1..Len(v) /\ v[i] = s[i] /\ s[i] \in 1..Len(p)
                                 /\ u[v[i]] = p[s[i]]
         /\ \A i \in 1..Len(v) : i \in 1..Len(s) \/ (v # s /\ i = Len(s) + 1 /\ v[i] = Len(p) + 1)
         /\ v # s => Len(v) = Len(s) + 1 /\ v[Len(s) + 1] = Len(p) + 1
         /\ Len(p) \in Nat /\ Len(u) = Len(p) + 1 /\ u[Len(p) + 1] = r
<1>1. p \in Seq(NodeRecord) /\ s \in Seq(Nat) /\ Len(s) \in Nat /\ Len(p) \in Nat
  BY DEF Placed
<1>2. Len(u) = Len(p) + 1 /\ u[Len(p) + 1] = r /\ \A n \in 1..Len(p) : u[n] = p[n]
  BY <1>1 DEF Plus
<1>3. \A i \in 1..Len(s) : s[i] \in 1..Len(p)
  BY <1>1 DEF Placed
<1>4. CASE v = s
  BY <1>1, <1>2, <1>3, <1>4
<1>5. CASE v = Plus(s, Len(p) + 1)
  <2>1. PICK m : m = Len(p) + 1
    OBVIOUS
  <2>2. Len(v) = Len(s) + 1 /\ v[Len(s) + 1] = m /\ \A i \in 1..Len(s) : v[i] = s[i]
    BY <1>1, <1>5, <2>1 DEF Plus
  <2>3. v # s
    BY <1>1, <2>2
  <2>4. \A i \in 1..Len(v) : i \in 1..Len(s) \/ i = Len(s) + 1
    BY <1>1, <2>2
  <2>5. \A i \in 1..Len(s) : i \in 1..Len(v)
    BY <1>1, <2>2
  <2>6. QED
    BY <1>1, <1>2, <1>3, <2>1, <2>2, <2>3, <2>4, <2>5
<1>6. QED
  BY <1>4, <1>5

LEMMA PositionsKeep ==
  ASSUME NEW p, NEW s, NEW z, Placed(p, s, z), NEW r \in NodeRecord, NEW u, u = Plus(p, r),
         NEW v, v = s \/ v = Plus(s, Len(p) + 1), r.tag \notin Page!Lists,
         NEW k, NEW q, Positions(p, s, k, q)
  PROVE  Positions(u, v, k, q)
<1>1. /\ \A i \in 1..Len(s) : /\ i \in 1..Len(v) /\ v[i] = s[i]
                              /\ u[v[i]] = p[s[i]]
      /\ \A i \in 1..Len(v) : i \in 1..Len(s) \/ u[v[i]] = r
  BY StackStays
<1>2. QED
  BY <1>1 DEF Positions

LEMMA PositionsOpen ==
  ASSUME NEW p, NEW s, NEW z, Placed(p, s, z), NEW r \in NodeRecord, NEW u, u = Plus(p, r),
         NEW v, v = Plus(s, Len(p) + 1), v # s, r.tag \in Page!Lists,
         NEW k \in Nat, NEW q, Positions(p, s, k, q),
         NEW h, h = k + 1, NEW w, w = [i \in 1..h |-> IF i <= k THEN q[i] ELSE Len(s) + 1]
  PROVE  Positions(u, v, h, w)
<1>1. /\ Len(s) \in Nat /\ Len(v) = Len(s) + 1
      /\ \A i \in 1..Len(s) : /\ i \in 1..Len(v) /\ v[i] = s[i]
                              /\ u[v[i]] = p[s[i]]
      /\ u[v[Len(s) + 1]] = r
  BY StackStays
<1>2. PICK x : x = Len(s) + 1
  OBVIOUS
<1>3. /\ x \in 1..Len(v) /\ x \in Nat /\ u[v[x]] = r
      /\ \A i \in 1..Len(v) : i \in 1..Len(s) \/ i = x
      /\ \A i \in 1..Len(s) : i < x
  BY <1>1, <1>2
<1>4. /\ h \in 1..h /\ \A i \in 1..h : i \in 1..k \/ i = h
      /\ \A i \in 1..k : i \in 1..h /\ i # h /\ i < h
  OBVIOUS
<1>5. DOMAIN w = 1..h /\ w[h] = x /\ \A i \in 1..k : w[i] = q[i]
  BY <1>2, <1>4
<1>6. \A e \in 1..k : q[e] \in 1..Len(s) /\ p[s[q[e]]].tag \in Page!Lists
  BY DEF Positions
<1>7. \A e \in 1..h : w[e] \in 1..Len(v) /\ u[v[w[e]]].tag \in Page!Lists
  <2> SUFFICES ASSUME NEW e \in 1..h PROVE w[e] \in 1..Len(v) /\ u[v[w[e]]].tag \in Page!Lists
    OBVIOUS
  <2>1. CASE e \in 1..k
    BY <1>1, <1>5, <1>6, <2>1
  <2>2. CASE e = h
    BY <1>3, <1>5, <2>2
  <2>3. QED
    BY <1>4, <2>1, <2>2
<1>8. \A i, e \in 1..h : i < e => w[i] < w[e]
  <2> SUFFICES ASSUME NEW i \in 1..h, NEW e \in 1..h, i < e PROVE w[i] < w[e]
    OBVIOUS
  <2>1. i \in 1..k
    OBVIOUS
  <2>2. CASE e \in 1..k
    BY <1>5, <2>1, <2>2 DEF Positions
  <2>3. CASE e = h
    BY <1>3, <1>5, <1>6, <2>1, <2>3
  <2>4. QED
    BY <1>4, <2>2, <2>3
<1>9. \A i \in 1..Len(v) : u[v[i]].tag \in Page!Lists => \E e \in 1..h : w[e] = i
  <2> SUFFICES ASSUME NEW i \in 1..Len(v), u[v[i]].tag \in Page!Lists PROVE \E e \in 1..h : w[e] = i
    OBVIOUS
  <2>1. CASE i = x
    BY <1>4, <1>5, <2>1
  <2>2. CASE i \in 1..Len(s)
    <3>1. p[s[i]].tag \in Page!Lists
      BY <1>1, <2>2
    <3>2. PICK e \in 1..k : q[e] = i
      BY <2>2, <3>1 DEF Positions
    <3>3. QED
      BY <1>4, <1>5, <3>2
  <2>3. QED
    BY <1>3, <2>1, <2>2
<1>10. QED
  BY <1>5, <1>7, <1>8, <1>9 DEF Positions

(* What the lists have counted when a node is added.                         *)
LEMMA CountsKeep ==
  ASSUME NEW p, NEW s, NEW z, Placed(p, s, z), NEW r \in NodeRecord, NEW u, u = Plus(p, r),
         NEW v, v = s \/ v = Plus(s, Len(p) + 1), r.tag # "li",
         NEW k, NEW q, NEW c, Positions(p, s, k, q), Counting(p, s, k, q, c)
  PROVE  Counting(u, v, k, q, c)
<1>1. p \in Seq(NodeRecord)
  BY DEF Placed
<1>2. SUFFICES ASSUME NEW e \in 1..k PROVE c[e] = Cardinality(ItemsIn(u, v[q[e]]))
  BY DEF Counting
<1>3. q[e] \in 1..Len(s)
  BY DEF Positions
<1>4. \A i \in 1..Len(s) : v[i] = s[i]
  BY StackStays
<1>5. v[q[e]] = s[q[e]]
  BY <1>3, <1>4
<1>6. PICK l : l = s[q[e]]
  OBVIOUS
<1>7. ~ItemOf(r, l)
  BY DEF ItemOf
<1>8. ItemsIn(u, l) = ItemsIn(p, l)
  BY <1>1, <1>7, SameItems
<1>9. QED
  BY <1>5, <1>6, <1>8 DEF Counting

LEMMA CountsOpen ==
  ASSUME NEW p, NEW s, NEW z, Placed(p, s, z), NEW r \in NodeRecord, NEW u, u = Plus(p, r),
         r.up = s[Len(s)], NEW v, v = Plus(s, Len(p) + 1), r.tag # "li",
         NEW k \in Nat, NEW q, NEW c, Positions(p, s, k, q), Counting(p, s, k, q, c),
         NEW h, h = k + 1, NEW w, w = [i \in 1..h |-> IF i <= k THEN q[i] ELSE Len(s) + 1],
         NEW d, d[h] = 0, SameUpTo(c, d, k)
  PROVE  Counting(u, v, h, w, d)
<1>1. /\ p \in Seq(NodeRecord) /\ s \in Seq(Nat)
      /\ \A n \in 1..Len(p) : p[n].up <= Len(p)
      /\ Len(s) \in 1..Len(s)
  BY DEF Placed
<1>2. v # s
  BY <1>1 DEF Plus
<1>3. /\ Len(s) \in Nat /\ Len(p) \in Nat
      /\ \A i \in 1..Len(s) : v[i] = s[i] /\ s[i] \in 1..Len(p)
      /\ v[Len(s) + 1] = Len(p) + 1
  BY <1>2, StackStays
<1>4. PICK x : x = Len(p) + 1
  OBVIOUS
<1>5. Counting(u, v, k, q, c)
  BY CountsKeep
<1>6. \A i \in 1..k : q[i] \in 1..Len(s) /\ i \in 1..h
  BY DEF Positions
<1>7. Cardinality(ItemsIn(u, x)) = 0
  <2>1. x \notin 1..Len(p) /\ ~(x <= Len(p))
    BY <1>3, <1>4
  <2>2. r.up \in 1..Len(p)
    BY <1>1, <1>3
  <2>3. ~ItemOf(r, x)
    BY DEF ItemOf
  <2>4. ItemsIn(u, x) = ItemsIn(p, x)
    BY <1>1, <2>3, SameItems
  <2>5. ItemsIn(p, x) = {}
    BY <1>1, <2>1 DEF ItemsIn
  <2>6. QED
    BY <2>4, <2>5, FS_EmptySet
<1>8. SUFFICES ASSUME NEW e \in 1..h PROVE d[e] = Cardinality(ItemsIn(u, v[w[e]]))
  BY DEF Counting
<1>9. CASE e \in 1..k
  <2>1. w[e] = q[e] /\ d[e] = c[e]
    BY <1>9 DEF SameUpTo
  <2>2. QED
    BY <1>5, <1>9, <2>1 DEF Counting
<1>10. CASE e = h
  <2>1. w[e] = Len(s) + 1
    BY <1>10
  <2>2. v[w[e]] = x
    BY <1>3, <1>4, <2>1
  <2>3. QED
    BY <1>7, <1>10, <2>2
<1>11. QED
  BY <1>9, <1>10

LEMMA Innermost ==
  ASSUME NEW p, NEW s, NEW z, Placed(p, s, z), p[s[Len(s)]].tag \in Page!Lists,
         NEW k \in Nat, NEW q, Positions(p, s, k, q)
  PROVE  1 <= k /\ q[k] = Len(s)
<1>1. Len(s) \in 1..Len(s) /\ Len(s) \in Nat
  BY DEF Placed
<1>2. PICK f \in 1..k : q[f] = Len(s)
  BY <1>1 DEF Positions
<1>3. f = k /\ k \in 1..k
  <2>1. CASE f < k
    <3>1. k \in 1..k /\ q[f] < q[k] /\ q[k] \in 1..Len(s)
      BY <2>1 DEF Positions
    <3>2. QED
      BY <1>1, <1>2, <3>1
  <2>2. QED
    BY <2>1
<1>4. QED
  BY <1>2, <1>3

LEMMA CountsItem ==
  ASSUME NEW p, NEW s, NEW z, Placed(p, s, z), NEW r \in NodeRecord, NEW u, u = Plus(p, r),
         r.up = s[Len(s)], NEW v, v = s \/ v = Plus(s, Len(p) + 1), r.tag = "li",
         p[s[Len(s)]].tag \in Page!Lists,
         NEW k \in Nat, NEW q, NEW c, Positions(p, s, k, q), Counting(p, s, k, q, c),
         NEW d, 1 <= k => OneMore(c, d, k)
  PROVE  Counting(u, v, k, q, d)
<1>1. /\ p \in Seq(NodeRecord) /\ Len(s) \in 1..Len(s) /\ Len(s) \in Nat
      /\ \A i, e \in 1..Len(s) : i < e => s[i] < s[e]
      /\ \A i \in 1..Len(s) : s[i] \in Nat
  BY DEF Placed
<1>2. 1 <= k /\ q[k] = Len(s)
  BY Innermost
<1>3. k \in 1..k
  BY <1>2
<1>4. c[k] = Cardinality(ItemsIn(p, r.up))
  BY <1>2, <1>3 DEF Counting
<1>5. \A i \in 1..Len(s) : v[i] = s[i]
  BY StackStays
<1>6. PICK l : l = r.up
  OBVIOUS
<1>7. Cardinality(ItemsIn(u, l)) = c[k] + 1
  <2>1. ItemOf(r, l)
    BY <1>6 DEF ItemOf
  <2>2. Cardinality(ItemsIn(u, l)) = Cardinality(ItemsIn(p, l)) + 1
    BY <1>1, <2>1, OneItemMore
  <2>3. QED
    BY <1>4, <1>6, <2>2
<1>8. Counting(u, v, k, q, d)
  <2>0. d[k] = c[k] + 1 /\ \A i \in 1..k : i # k => d[i] = c[i]
    BY <1>3 DEF OneMore
  <2> SUFFICES ASSUME NEW e \in 1..k PROVE d[e] = Cardinality(ItemsIn(u, v[q[e]]))
    BY DEF Counting
  <2>1. q[e] \in 1..Len(s) /\ v[q[e]] = s[q[e]]
    BY <1>5 DEF Positions
  <2>2. CASE e = k
    BY <1>2, <1>3, <1>6, <1>7, <2>0, <2>1, <2>2
  <2>3. CASE e # k
    <3>1. e < k /\ e \in 1..k
      BY <2>3
    <3>2. q[e] < q[k]
      BY <1>3, <3>1 DEF Positions
    <3>3. s[q[e]] # s[Len(s)]
      <4>1. s[q[e]] < s[Len(s)] /\ s[q[e]] \in Nat /\ s[Len(s)] \in Nat
        BY <1>1, <1>2, <1>3, <2>1, <3>2
      <4>2. QED
        BY <4>1
    <3>4. PICK y : y = s[q[e]]
      OBVIOUS
    <3>5. ~ItemOf(r, y)
      BY <3>3, <3>4 DEF ItemOf
    <3>6. ItemsIn(u, y) = ItemsIn(p, y)
      BY <1>1, <3>5, SameItems
    <3>7. d[e] = c[e] /\ c[e] = Cardinality(ItemsIn(p, y))
      BY <2>0, <2>3, <3>4 DEF Counting
    <3>8. QED
      BY <2>1, <3>4, <3>6, <3>7
  <2>4. QED
    BY <2>2, <2>3
<1>9. QED
  BY <1>8

-----------------------------------------------------------------------------
(* What closes by itself is no list.                                         *)
ClosedFor(p, s, t, o) ==
  o = s \/ /\ Len(s) > 1 /\ Page!AutoCloses(t, p[s[Len(s)]].tag)
           /\ o = SubSeq(s, 1, Len(s) - 1)

LEMMA LeftStep ==
  ASSUME NEW p, NEW s, NEW z, Placed(p, s, z), NEW k \in Nat, NEW c, NEW t,
         NEW o, ClosedFor(p, s, t, o),
         NEW y, y = z \cup Above(s, Len(o))
  PROVE  Placed(p, o, y) /\ (Marked(p, s, k, c) => Marked(p, o, k, c))
<1>1. /\ s \in Seq(Nat) /\ Len(s) \in Nat /\ 1 <= Len(s)
  BY DEF Placed
<1>2. CASE o = s
  <2>1. y = z
    BY <1>1, <1>2 DEF Above
  <2>2. QED
    BY <1>2, <2>1
<1>3. CASE Len(s) > 1 /\ Page!AutoCloses(t, p[s[Len(s)]].tag) /\ o = SubSeq(s, 1, Len(s) - 1)
  <2>1. PICK m : m = Len(s) - 1
    OBVIOUS
  <2>2. m \in 1..Len(s) /\ m \in Nat
    BY <1>1, <1>3, <2>1
  <2>3. o = Upto(s, m) /\ Len(o) = m
    BY <1>1, <1>3, <2>1 DEF Upto
  <2>4. Placed(p, o, y) /\ Len(o) = m /\ \A i \in 1..m : o[i] = s[i]
    <3>1. y = z \cup Above(s, m)
      BY <2>3
    <3>2. QED
      BY <2>2, <2>3, <3>1, Shortened
  <2>5. p[s[Len(s)]].tag \notin Page!Lists
    BY <1>3 DEF Page!AutoCloses, Page!Lists
  <2>6. \A i \in (m + 1)..Len(s) : p[s[i]].tag \notin Page!Lists
    <3>1. \A i \in (m + 1)..Len(s) : i = Len(s)
      BY <1>1, <2>1
    <3>2. QED
      BY <2>5, <3>1
  <2>7. ASSUME NEW q, Positions(p, s, k, q), Counting(p, s, k, q, c)
        PROVE  Positions(p, o, k, q) /\ Counting(p, o, k, q, c)
    BY <1>1, <2>2, <2>4, <2>6, <2>7, PositionsStay
  <2>8. QED
    BY <2>4, <2>7 DEF Marked
<1>4. QED
  BY <1>2, <1>3 DEF ClosedFor

(* A node that is neither an item nor a list.                                *)
LEMMA AddPlain ==
  ASSUME NEW p, NEW s, NEW z, Placed(p, s, z), NEW k \in Nat, NEW c,
         NEW r \in NodeRecord, r.up = s[Len(s)], r.tag \notin Page!Lists, r.tag # "li",
         NEW u, u = Plus(p, r), NEW v, v = s \/ v = Plus(s, Len(p) + 1)
  PROVE  /\ Placed(u, v, z)
         /\ Counted(p) => Counted(u)
         /\ Marked(p, s, k, c) => Marked(u, v, k, c)
<1>1. Placed(u, v, z)
  BY NodeAdded
<1>2. /\ p \in Seq(NodeRecord) /\ \A n \in 1..Len(p) : p[n].up <= Len(p)
      /\ r.up <= Len(p)
  BY DEF Placed
<1>3. Counted(p) => Counted(u)
  BY <1>2, CountGrows
<1>4. ASSUME NEW q, Positions(p, s, k, q), Counting(p, s, k, q, c)
      PROVE  Positions(u, v, k, q) /\ Counting(u, v, k, q, c)
  BY <1>4, PositionsKeep, CountsKeep
<1>5. QED
  BY <1>1, <1>3, <1>4 DEF Marked

(* An item.                                                                  *)
LEMMA AddItem ==
  ASSUME NEW p, NEW s, NEW z, Placed(p, s, z), NEW k \in Nat, NEW c, NEW d,
         NEW r \in NodeRecord, r.up = s[Len(s)], r.tag = "li",
         p[s[Len(s)]].tag \in Page!Lists, Counted(p), Marked(p, s, k, c),
         1 <= k => r.item = d[k] /\ OneMore(c, d, k),
         NEW u, u = Plus(p, r), NEW v, v = s \/ v = Plus(s, Len(p) + 1)
  PROVE  Counted(u) /\ Marked(u, v, k, d)
<1>1. PICK q : Positions(p, s, k, q) /\ Counting(p, s, k, q, c)
  BY DEF Marked
<1>2. 1 <= k => OneMore(c, d, k)
  OBVIOUS
<1>3. 1 <= k /\ q[k] = Len(s) /\ Counting(u, v, k, q, d)
  <2>1. 1 <= k /\ q[k] = Len(s)
    BY <1>1, Innermost
  <2>2. Counting(u, v, k, q, d)
    BY <1>1, <1>2, CountsItem
  <2>3. QED
    BY <2>1, <2>2
<1>4. r.tag \notin Page!Lists
  BY DEF Page!Lists
<1>5. Positions(u, v, k, q)
  BY <1>1, <1>4, PositionsKeep
<1>6. /\ p \in Seq(NodeRecord) /\ \A n \in 1..Len(p) : p[n].up <= Len(p)
      /\ r.up <= Len(p)
  BY DEF Placed
<1>7. r.item = Cardinality(ItemsIn(p, r.up)) + 1
  <2>1. PICK l : l = s[q[k]]
    OBVIOUS
  <2>2. c[k] = Cardinality(ItemsIn(p, l))
    BY <1>1, <1>3, <2>1 DEF Counting
  <2>3. l = r.up
    BY <1>3, <2>1
  <2>4. r.item = c[k] + 1
    BY <1>3 DEF OneMore
  <2>5. QED
    BY <2>2, <2>3, <2>4
<1>8. Counted(u)
  BY <1>6, <1>7, CountGrows
<1>9. QED
  BY <1>3, <1>5, <1>8 DEF Marked

(* A list.                                                                   *)
LEMMA AddList ==
  ASSUME NEW p, NEW s, NEW z, Placed(p, s, z), NEW k \in Nat, NEW c, NEW d,
         NEW r \in NodeRecord, r.up = s[Len(s)], r.tag \in Page!Lists, r.tag # "li",
         Counted(p), Marked(p, s, k, c), NEW h, h = k + 1,
         d[h] = 0, SameUpTo(c, d, k),
         NEW u, u = Plus(p, r), NEW v, v = Plus(s, Len(p) + 1)
  PROVE  Counted(u) /\ Marked(u, v, h, d)
<1>1. PICK q : Positions(p, s, k, q) /\ Counting(p, s, k, q, c)
  BY DEF Marked
<1>2. PICK w : w = [i \in 1..h |-> IF i <= k THEN q[i] ELSE Len(s) + 1]
  OBVIOUS
<1>3. /\ p \in Seq(NodeRecord) /\ \A n \in 1..Len(p) : p[n].up <= Len(p)
      /\ r.up <= Len(p) /\ s \in Seq(Nat)
  BY DEF Placed
<1>4. v # s
  BY <1>3 DEF Plus
<1>5. Positions(u, v, h, w)
  BY <1>1, <1>2, <1>4, PositionsOpen
<1>6. Counting(u, v, h, w, d)
  BY <1>1, <1>2, CountsOpen
<1>7. Counted(u)
  BY <1>3, CountGrows
<1>8. QED
  BY <1>5, <1>6, <1>7 DEF Marked

LEMMA PagePlain ==
  ASSUME PageOK, NEW r \in NodeRecord, r.up = open[Len(open)], r.tag \notin Page!Lists,
         r.tag # "li", node' = Append(node, r), open' = open \/ open' = Append(open, Len(node) + 1),
         UNCHANGED <<counter, lists, closing, tidy>>
  PROVE  PageOK'
<1>1. PICK p : p = node
  OBVIOUS
<1>2. PICK s : s = open
  OBVIOUS
<1>3. PICK z : z = closing
  OBVIOUS
<1>4. PICK k : k = lists
  OBVIOUS
<1>5. PICK c : c = counter
  OBVIOUS
<1>6. PICK u : u = Plus(p, r)
  OBVIOUS
<1>7. PICK v : v = open'
  OBVIOUS
<1>8. /\ Placed(p, s, z) /\ c \in [1..MaxLists -> Nat] /\ k \in 0..MaxLists /\ k \in Nat
      /\ tidy => Counted(p) /\ Marked(p, s, k, c)
      /\ r.up = s[Len(s)]
  BY <1>1, <1>2, <1>3, <1>4, <1>5, DocumentAssumption DEF PageOK
<1>9. v = s \/ v = Plus(s, Len(p) + 1)
  BY <1>1, <1>2, <1>7 DEF Plus
<1>10. /\ Placed(u, v, z) /\ (Counted(p) => Counted(u))
       /\ Marked(p, s, k, c) => Marked(u, v, k, c)
  BY <1>6, <1>8, <1>9, AddPlain
<1>11. /\ node' = u /\ open' = v /\ closing' = z /\ lists' = k /\ counter' = c
  BY <1>1, <1>3, <1>4, <1>5, <1>6, <1>7 DEF Plus
<1>12. tidy' => Counted(u) /\ Marked(u, v, k, c)
  BY <1>8, <1>10
<1>13. QED
  BY <1>8, <1>10, <1>11, <1>12 DEF PageOK

LEMMA PageLeaf ==
  ASSUME PageOK, Page!Leaf \/ Page!HeadTag
  PROVE  PageOK'
<1>1. /\ node \in Seq(NodeRecord) /\ 1 <= Len(open) /\ Len(open) \in Nat
      /\ Len(open) \in 1..Len(open) /\ open \in Seq(Nat)
  BY DEF PageOK, Placed
<1>2. open[Len(open)] \in Nat
  BY <1>1
<1>3. PICK r : r = IF Page!Leaf THEN [tag |-> "leaf", up |-> open[Len(open)], item |-> 0]
                   ELSE [tag |-> "head", up |-> open[Len(open)], item |-> 0]
  OBVIOUS
<1>4. /\ r \in NodeRecord /\ r.up = open[Len(open)] /\ r.tag \notin Page!Lists /\ r.tag # "li"
  BY <1>2, <1>3 DEF NodeRecord, Page!Lists
<1>5. /\ node' = Append(node, r) /\ (open' = open \/ open' = Append(open, Len(node) + 1))
      /\ UNCHANGED <<counter, lists, closing, tidy>>
  <2>1. CASE Page!Leaf
    BY <1>3, <2>1 DEF Page!Leaf, Page!Add, Page!Top
  <2>2. CASE ~Page!Leaf
    BY <1>3, <2>2 DEF Page!HeadTag, Page!Add, Page!Top, Page!Push
  <2>3. QED
    BY <2>1, <2>2
<1>6. QED
  BY <1>4, <1>5, PagePlain

LEMMA PageClose ==
  ASSUME PageOK, NEW t, Page!CloseTag(t)
  PROVE  PageOK'
<1>1. PICK p : p = node
  OBVIOUS
<1>2. PICK s : s = open
  OBVIOUS
<1>3. PICK z : z = closing
  OBVIOUS
<1>4. PICK k : k = lists
  OBVIOUS
<1>5. PICK c : c = counter
  OBVIOUS
<1>6. /\ Placed(p, s, z) /\ c \in [1..MaxLists -> Nat] /\ k \in 0..MaxLists /\ k \in Nat
      /\ tidy => Counted(p) /\ Marked(p, s, k, c)
      /\ s \in Seq(Nat) /\ Len(s) \in Nat /\ 1 <= Len(s)
  BY <1>1, <1>2, <1>3, <1>4, <1>5, DocumentAssumption DEF PageOK, Placed
<1>7. /\ node' = p /\ counter' = c
      /\ lists' = IF t \in Page!Lists /\ k > 0 THEN k - 1 ELSE k
      /\ closing' = z \cup {s[e] : e \in (Len(open') + 1)..Len(s)}
  BY <1>1, <1>2, <1>3, <1>4, <1>5 DEF Page!CloseTag
<1>8. lists' \in 0..MaxLists
  BY <1>6, <1>7, DocumentAssumption
<1>9. CASE Page!OpenAt(t) = {}
  <2>1. open' = s /\ ~tidy'
    BY <1>2, <1>9, Zenon DEF Page!CloseTag
  <2>2. closing' = z
    BY <1>6, <1>7, <2>1
  <2>3. QED
    BY <1>6, <1>7, <1>8, <2>1, <2>2 DEF PageOK
<1>10. CASE Page!OpenAt(t) # {}
  <2>1. PICK x : x = Page!Nearest(Page!OpenAt(t))
    OBVIOUS
  <2>2. x \in 2..Len(s) /\ p[s[x]].tag = t
    <3>1. \A i \in Page!OpenAt(t) : i \in 2..Len(s) /\ p[s[i]].tag = t
      BY <1>1, <1>2 DEF Page!OpenAt, Page!TagOf
    <3>2. \E i \in Page!OpenAt(t) : \A e \in Page!OpenAt(t) : e <= i
      <4>1. PICK n : n = Len(s)
        OBVIOUS
      <4>2. PICK S : S = {n - i : i \in Page!OpenAt(t)}
        OBVIOUS
      <4>3. S \in SUBSET Nat /\ S # {}
        BY <1>6, <1>10, <3>1, <4>1, <4>2
      <4>4. PICK y \in S : \A w \in S : y <= w
        BY <4>3, LeastExists
      <4>5. PICK i \in Page!OpenAt(t) : y = n - i
        BY <4>2, <4>4
      <4>6. ASSUME NEW e \in Page!OpenAt(t) PROVE e <= i
        <5>1. n - i <= n - e
          BY <4>2, <4>4, <4>5
        <5>2. QED
          BY <1>6, <3>1, <4>1, <5>1
      <4>7. QED
        BY <4>6
    <3>3. x \in Page!OpenAt(t)
      BY <2>1, <3>2 DEF Page!Nearest
    <3>4. QED
      BY <3>1, <3>3
  <2>3. PICK m : m = x - 1
    OBVIOUS
  <2>4. m \in 1..Len(s) /\ m \in Nat /\ x = m + 1 /\ x \in 1..Len(s)
    BY <1>6, <2>2, <2>3
  <2>5. PICK v : v = Upto(s, m)
    OBVIOUS
  <2>6. open' = v
    BY <1>2, <1>10, <2>1, <2>3, <2>5 DEF Page!CloseTag, Upto
  <2>7. PICK y : y = closing'
    OBVIOUS
  <2>8. y = z \cup Above(s, m)
    <3>1. Len(v) = m
      BY <1>6, <2>4, <2>5 DEF Upto
    <3>2. QED
      BY <1>7, <2>6, <2>7, <3>1 DEF Above
  <2>9. Placed(p, v, y) /\ Len(v) = m /\ \A i \in 1..m : v[i] = s[i]
    <3>1. Placed(p, s, z) /\ m \in 1..Len(s)
      BY <1>6, <2>4
    <3>2. QED
      BY <2>5, <2>8, <3>1, Shortened
  <2>10. ASSUME tidy' PROVE Counted(p) /\ Marked(p, v, lists', c)
    <3>1. tidy /\ \A e \in (x + 1)..Len(s) : p[s[e]].tag \in {"li", "p"}
      BY <1>1, <1>2, <1>10, <2>1, <2>10, Zenon DEF Page!CloseTag, Page!TagOf
    <3>2. \A i \in (x + 1)..Len(s) : p[s[i]].tag \notin Page!Lists
      BY <3>1 DEF Page!Lists
    <3>3. PICK q : Positions(p, s, k, q) /\ Counting(p, s, k, q, c)
      BY <1>6, <3>1 DEF Marked
    <3>4. CASE t \in Page!Lists
      <4>1. k - 1 \in Nat /\ Marked(p, v, k - 1, c)
        BY <1>6, <2>2, <2>4, <2>9, <3>2, <3>3, <3>4, PositionsClose DEF Marked
      <4>2. lists' = k - 1
        <5>1. lists' = IF k > 0 THEN k - 1 ELSE k
          BY <1>7, <3>4
        <5>2. PICK b \in Nat : b = k
          BY <1>6
        <5>3. b > 0
          BY <4>1, <5>2
        <5>4. QED
          BY <5>1, <5>2, <5>3
      <4>3. QED
        BY <1>6, <3>1, <4>1, <4>2
    <3>5. CASE t \notin Page!Lists
      <4>1. \A i \in (m + 1)..Len(s) : p[s[i]].tag \notin Page!Lists
        <5>1. \A i \in (m + 1)..Len(s) : i = x \/ i \in (x + 1)..Len(s)
          BY <1>6, <2>4
        <5>2. QED
          BY <2>2, <3>2, <3>5, <5>1
      <4>2. Positions(p, v, k, q) /\ Counting(p, v, k, q, c)
        BY <1>6, <2>4, <2>9, <3>3, <4>1, PositionsStay
      <4>3. lists' = k
        BY <1>7, <3>5
      <4>4. QED
        BY <1>6, <3>1, <4>2, <4>3 DEF Marked
    <3>6. QED
      BY <3>4, <3>5
  <2>11. QED
    BY <1>6, <1>7, <1>8, <2>6, <2>7, <2>9, <2>10 DEF PageOK
<1>11. QED
  BY <1>9, <1>10

LEMMA PageNumbers ==
  ASSUME counter \in [1..MaxLists -> Nat], lists \in 0..MaxLists, NEW t, Page!Numbering(t)
  PROVE  /\ counter' \in [1..MaxLists -> Nat] /\ lists' \in 0..MaxLists
         /\ t \in Page!Lists /\ lists < MaxLists =>
              lists' = lists + 1 /\ counter'[lists + 1] = 0 /\ SameUpTo(counter, counter', lists)
         /\ t = "li" => lists' = lists /\ (1 <= lists => OneMore(counter, counter', lists))
         /\ t # "li" /\ t \notin Page!Lists => lists' = lists /\ counter' = counter
<1>1. lists \in Nat /\ MaxLists \in Nat /\ lists <= MaxLists
  BY DocumentAssumption
<1>2. CASE t \in Page!Lists /\ lists < MaxLists
  <2>1. lists' = lists + 1 /\ counter' = [counter EXCEPT ![lists + 1] = 0] /\ t # "li"
    BY <1>2 DEF Page!Numbering, Page!Lists
  <2>2. PICK h : h = lists + 1
    OBVIOUS
  <2>3. h \in 1..MaxLists /\ \A i \in 1..lists : i \in 1..MaxLists /\ i # h
    BY <1>1, <1>2, <2>2
  <2>4. counter' = [counter EXCEPT ![h] = 0]
    BY <2>1, <2>2
  <2>5. counter' \in [1..MaxLists -> Nat] /\ counter'[h] = 0
    BY <2>3, <2>4
  <2>6. SameUpTo(counter, counter', lists)
    BY <2>3, <2>4 DEF SameUpTo
  <2>7. lists' \in 0..MaxLists
    BY <1>1, <1>2, <2>1
  <2>8. QED
    BY <1>2, <2>1, <2>2, <2>5, <2>6, <2>7
<1>3. CASE t = "li" /\ 1 <= lists
  <2>1. /\ lists' = lists /\ counter' = [counter EXCEPT ![lists] = counter[lists] + 1]
        /\ t \notin Page!Lists
    BY <1>1, <1>3 DEF Page!Numbering, Page!Lists
  <2>2. lists \in 1..MaxLists /\ \A i \in 1..lists : i \in 1..MaxLists
    BY <1>1, <1>3
  <2>3. counter[lists] + 1 \in Nat
    BY <2>2
  <2>4. counter' \in [1..MaxLists -> Nat]
    BY <2>1, <2>2, <2>3
  <2>5. OneMore(counter, counter', lists)
    BY <2>1, <2>2 DEF OneMore
  <2>6. QED
    BY <1>3, <2>1, <2>4, <2>5
<1>4. CASE ~(t \in Page!Lists /\ lists < MaxLists) /\ ~(t = "li" /\ 1 <= lists)
  <2>1. counter' = counter /\ lists' = lists
    BY <1>1, <1>4 DEF Page!Numbering
  <2>2. QED
    BY <1>4, <2>1
<1>5. QED
  BY <1>2, <1>3, <1>4

LEMMA PageOpen ==
  ASSUME PageOK, NEW t \in Tags, NEW self \in BOOLEAN, Page!OpenTag(t, self)
  PROVE  PageOK'
<1>1. PICK p : p = node
  OBVIOUS
<1>2. PICK s : s = open
  OBVIOUS
<1>3. PICK z : z = closing
  OBVIOUS
<1>4. PICK k : k = lists
  OBVIOUS
<1>5. PICK c : c = counter
  OBVIOUS
<1>6. PICK d : d = counter'
  OBVIOUS
<1>7. PICK h : h = lists'
  OBVIOUS
<1>8. PICK o : o = Page!Left(t)
  OBVIOUS
<1>9. PICK y : y = z \cup Above(s, Len(o))
  OBVIOUS
<1>10. /\ Placed(p, s, z) /\ c \in [1..MaxLists -> Nat] /\ k \in 0..MaxLists /\ k \in Nat
  BY <1>1, <1>2, <1>3, <1>4, <1>5, DocumentAssumption DEF PageOK
<1>11. tidy => Counted(p) /\ Marked(p, s, k, c)
  BY <1>1, <1>2, <1>4, <1>5 DEF PageOK
<1>12. Placed(p, o, y) /\ (Marked(p, s, k, c) => Marked(p, o, k, c))
  <2>1. ClosedFor(p, s, t, o)
    BY <1>1, <1>2, <1>8 DEF ClosedFor, Page!Left, Page!Top, Page!TagOf
  <2>2. QED
    BY <1>9, <1>10, <2>1, LeftStep
<1>13. /\ p \in Seq(NodeRecord) /\ o \in Seq(Nat) /\ 1 <= Len(o) /\ Len(o) \in Nat
  BY <1>12 DEF Placed
<1>14. PICK a : a = o[Len(o)]
  OBVIOUS
<1>15. a \in Nat
  BY <1>13, <1>14
<1>16. Page!Numbering(t)
  BY DEF Page!OpenTag
<1>17. /\ d \in [1..MaxLists -> Nat] /\ h \in 0..MaxLists
       /\ t \in Page!Lists /\ k < MaxLists =>
            h = k + 1 /\ d[k + 1] = 0 /\ SameUpTo(c, d, k)
       /\ t = "li" => h = k /\ (1 <= k => OneMore(c, d, k))
       /\ t # "li" /\ t \notin Page!Lists => h = k /\ d = c
  <2>1. counter \in [1..MaxLists -> Nat] /\ lists \in 0..MaxLists
    BY <1>4, <1>5, <1>10
  <2>2. /\ counter' \in [1..MaxLists -> Nat] /\ lists' \in 0..MaxLists
        /\ t \in Page!Lists /\ lists < MaxLists =>
             lists' = lists + 1 /\ counter'[lists + 1] = 0 /\ SameUpTo(counter, counter', lists)
        /\ t = "li" => lists' = lists /\ (1 <= lists => OneMore(counter, counter', lists))
        /\ t # "li" /\ t \notin Page!Lists => lists' = lists /\ counter' = counter
    BY <1>16, <2>1, PageNumbers
  <2>3. QED
    BY <1>4, <1>5, <1>6, <1>7, <2>2
<1>18. PICK n : n = IF t = "li" /\ k > 0 THEN d[k] ELSE 0
  OBVIOUS
<1>19. n \in Nat
  <2>1. CASE t = "li" /\ k > 0
    <3>1. k \in 1..MaxLists
      BY <1>10, <2>1, DocumentAssumption
    <3>2. QED
      BY <1>17, <1>18, <2>1, <3>1
  <2>2. QED
    BY <1>18, <2>1
<1>20. PICK r : r = [tag |-> t, up |-> a, item |-> n]
  OBVIOUS
<1>21. r \in NodeRecord /\ r.up = o[Len(o)] /\ r.tag = t /\ r.item = n
  BY <1>14, <1>15, <1>19, <1>20 DEF NodeRecord
<1>22. PICK u : u = Plus(p, r)
  OBVIOUS
<1>23. node' = u
  BY <1>1, <1>4, <1>6, <1>8, <1>14, <1>18, <1>20, <1>22
     DEF Page!OpenTag, Page!Add, Page!Top, Plus
<1>24. PICK v : v = open'
  OBVIOUS
<1>25. v = o \/ v = Plus(o, Len(p) + 1)
  BY <1>1, <1>8, <1>24 DEF Page!OpenTag, Page!Push, Plus
<1>26. closing' = y
  BY <1>2, <1>3, <1>8, <1>9 DEF Page!OpenTag, Above
<1>27. Placed(u, v, y)
  BY <1>12, <1>21, <1>22, <1>25, NodeAdded
<1>28. ASSUME tidy' PROVE Counted(u) /\ Marked(u, v, h, d)
  <2>1. /\ tidy
        /\ t = "li" <=> Page!TagOf(Page!Top(o)) \in Page!Lists
        /\ t \in Page!Lists => lists < MaxLists /\ ~self
        /\ self \/ Len(o) < MaxOpen
    BY <1>8, <1>28, Zenon DEF Page!OpenTag
  <2>2. Counted(p) /\ Marked(p, o, k, c)
    BY <1>11, <1>12, <2>1
  <2>3. t = "li" <=> p[o[Len(o)]].tag \in Page!Lists
    BY <1>1, <2>1 DEF Page!TagOf, Page!Top
  <2>4. CASE t = "li"
    <3>1. p[o[Len(o)]].tag \in Page!Lists
      BY <2>3, <2>4
    <3>2. 1 <= k => r.item = d[k] /\ OneMore(c, d, k)
      <4>1. 1 <= k => n = d[k]
        BY <1>10, <1>18, <2>4
      <4>2. QED
        BY <1>17, <1>21, <2>4, <4>1
    <3>3. Counted(u) /\ Marked(u, v, k, d)
      BY <1>10, <1>12, <1>21, <1>22, <1>25, <2>2, <2>4, <3>1, <3>2, AddItem
    <3>4. QED
      BY <1>17, <2>4, <3>3
  <2>5. CASE t \in Page!Lists
    <3>1. k < MaxLists /\ ~self /\ Len(o) < MaxOpen
      BY <1>4, <2>1, <2>5
    <3>2. v = Plus(o, Len(p) + 1)
      BY <1>1, <1>8, <1>24, <3>1 DEF Page!OpenTag, Page!Push, Plus
    <3>3. h = k + 1 /\ d[h] = 0 /\ SameUpTo(c, d, k)
      BY <1>17, <2>5, <3>1
    <3>4. t # "li"
      BY <2>5 DEF Page!Lists
    <3>5. QED
      BY <1>10, <1>12, <1>21, <1>22, <2>2, <2>5, <3>2, <3>3, <3>4, AddList
  <2>6. CASE t # "li" /\ t \notin Page!Lists
    <3>1. (Counted(p) => Counted(u)) /\ (Marked(p, o, k, c) => Marked(u, v, k, c))
      BY <1>10, <1>12, <1>21, <1>22, <1>25, <2>6, AddPlain
    <3>2. QED
      BY <1>17, <2>2, <2>6, <3>1
  <2>7. QED
    BY <2>4, <2>5, <2>6
<1>29. QED
  BY <1>6, <1>7, <1>17, <1>23, <1>24, <1>26, <1>27, <1>28 DEF PageOK

LEMMA PageKeeps ==
  ASSUME PageOK, [Page!Next]_docVars
  PROVE  PageOK'
<1>1. CASE UNCHANGED docVars
  BY <1>1 DEF PageOK, docVars
<1>2. CASE Page!Leaf \/ Page!HeadTag
  BY <1>2, PageLeaf
<1>3. CASE Page!Open
  <2>1. PICK t \in Tags, self \in BOOLEAN : Page!OpenTag(t, self)
    BY <1>3 DEF Page!Open
  <2>2. QED
    BY <2>1, PageOpen
<1>4. CASE \E t \in Tags \cup {"head"} : Page!CloseTag(t)
  BY <1>4, PageClose
<1>5. QED
  BY <1>1, <1>2, <1>3, <1>4 DEF Page!Next

LEMMA PageSteps ==
  ASSUME [SessionNext]_all
  PROVE  [Page!Next]_docVars
BY DEF SessionNext, all, programs, others, windows, tools, shell, DesktopNext, KeyboardNext,
       AccountsNext, RendererNext, BrowserNext, DocumentNext, NotepadNext, PaintNext, SnakeNext,
       ExplorerNext, MakeNext, CalculatorNext, TerminalNext, ToolsNext

(* The document: the open elements are a path down from the document, an     *)
(* element that has been closed stays closed; and in a tidy page the items   *)
(* of each list are numbered from one.                                       *)
THEOREM TreeIsSound == SessionSpec => []Page!TreeSound
<1>1. SessionInit => PageOK
  <2>1. SUFFICES ASSUME Page!Init PROVE PageOK
    BY DEF SessionInit, Starting
  <2>2. PICK p : p = <<[tag |-> "document", up |-> 0, item |-> 0]>>
    OBVIOUS
  <2>3. PICK s : s = <<1>>
    OBVIOUS
  <2>4. /\ p \in Seq(NodeRecord) /\ Len(p) = 1 /\ p[1] = [tag |-> "document", up |-> 0, item |-> 0]
        /\ s \in Seq(Nat) /\ Len(s) = 1 /\ s[1] = 1
    BY <2>2, <2>3 DEF NodeRecord
  <2>5. 1..1 = {1}
    OBVIOUS
  <2>6. Placed(p, s, {})
    BY <2>4, <2>5 DEF Placed
  <2>7. Counted(p)
    BY <2>4, <2>5 DEF Counted, ItemsIn
  <2>8. PICK q : q = [i \in 1..0 |-> 0]
    OBVIOUS
  <2>9. Positions(p, s, 0, q)
    <3>1. 1..0 = {} /\ DOMAIN q = 1..0
      BY <2>8
    <3>2. \A i \in 1..Len(s) : p[s[i]].tag = "document"
      BY <2>4, <2>5
    <3>3. QED
      BY <3>1, <3>2 DEF Positions, Page!Lists
  <2>10. \A c : Counting(p, s, 0, q, c)
    BY DEF Counting
  <2>11. Marked(p, s, 0, counter)
    BY <2>9, <2>10 DEF Marked
  <2>12. /\ node = p /\ open = s /\ closing = {} /\ lists = 0
         /\ counter \in [1..MaxLists -> Nat] /\ lists \in 0..MaxLists
    BY <2>1, <2>2, <2>3, DocumentAssumption DEF Page!Init
  <2>13. QED
    BY <2>6, <2>7, <2>11, <2>12 DEF PageOK
<1>2. PageOK /\ [SessionNext]_all => PageOK'
  BY PageKeeps, PageSteps
<1>3. PageOK => Page!TreeSound
  <2>1. SUFFICES ASSUME PageOK PROVE Page!TreeSound
    OBVIOUS
  <2>2. /\ open[1] = 1
        /\ \A i \in 1..(Len(open) - 1) : node[open[i + 1]].up = open[i]
        /\ \A i \in 1..Len(open) : open[i] \notin closing
    BY <2>1 DEF PageOK, Placed
  <2>3. tidy => \A l \in {n \in Page!Nodes : Page!TagOf(n) \in Page!Lists} :
                  \A n \in Page!ItemsOf(l) :
                    node[n].item = Cardinality({m \in Page!ItemsOf(l) : m <= n})
    <3>1. \A l : Page!ItemsOf(l) = ItemsIn(node, l)
      BY DEF Page!ItemsOf, ItemsIn, Page!Nodes, Page!TagOf
    <3>2. tidy => Counted(node)
      BY <2>1 DEF PageOK
    <3>3. ASSUME tidy, NEW l \in {n \in Page!Nodes : Page!TagOf(n) \in Page!Lists},
                 NEW n \in Page!ItemsOf(l)
          PROVE  node[n].item = Cardinality({m \in Page!ItemsOf(l) : m <= n})
      <4>1. l \in 1..Len(node) /\ node[l].tag \in Page!Lists
        BY DEF Page!Nodes, Page!TagOf
      <4>2. n \in ItemsIn(node, l)
        BY <3>1
      <4>3. node[n].item = Cardinality({m \in ItemsIn(node, l) : m <= n})
        BY <3>2, <3>3, <4>1, <4>2 DEF Counted
      <4>4. Page!ItemsOf(l) = ItemsIn(node, l)
        BY <3>1
      <4>5. QED
        BY <4>3, <4>4
    <3>4. QED
      BY <3>3
  <2>4. SUFFICES tidy => \A l \in {n \in Page!Nodes : Page!TagOf(n) \in Page!Lists} :
                           \A n \in Page!ItemsOf(l) :
                             node[n].item = Cardinality({m \in Page!ItemsOf(l) : m <= n})
    BY <2>2 DEF Page!TreeSound, Page!Cardinality, Cardinality
  <2>5. QED
    BY <2>3
<1>4. QED
  BY <1>1, <1>2, <1>3, PTL DEF SessionSpec

-----------------------------------------------------------------------------
(* Whatever program the user works with keeps what it shows and owns, for    *)
(* every size of its tables and any order of what the user does.             *)
THEOREM ProgramsAreSound == SessionSpec => []ProgramsSound
BY ContextIsSound, PagesAreOwned, TreeIsSound, TextIsSound, SnakeIsSound, BackLeadsUp, PTL
   DEF ProgramsSound

=============================================================================
