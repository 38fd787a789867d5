------------------------------- MODULE Paint -------------------------------
(***************************************************************************)
(* Paint (src/gui_apps.c): a canvas, a brush, and strokes made of line     *)
(* segments between the places at which the mouse is reported.  The mouse  *)
(* may report places beyond the canvas.                                    *)
(***************************************************************************)
EXTENDS Integers, Sequences

CONSTANTS
  Columns, Rows,   \* PAINT_CW, PAINT_CH
  Beyond,          \* cells a place may lie beyond the canvas
  Colors, White,   \* the palette; the ground
  Brushes          \* brush sizes

VARIABLES
  canvas, color, brush,
  drawing, place,  \* is_drawing; last_x, last_y
  stroke           \* the cells the brush went through for the last report

vars == <<canvas, color, brush, drawing, place, stroke>>

Cells == (0..Columns - 1) \X (0..Rows - 1)
Places == (0..Columns - 1 + Beyond) \X (0..Rows - 1 + Beyond)

TypeOK ==
  /\ canvas \in [Cells -> Colors \cup {White}]
  /\ color \in Colors /\ brush \in Brushes
  /\ drawing \in BOOLEAN /\ place \in Places
  /\ stroke \in Seq(Places)

Blank == [c \in Cells |-> White]

(* app_paint_create *)
Init ==
  /\ canvas = Blank /\ color \in Colors /\ brush = 1
  /\ drawing = FALSE /\ place = <<0, 0>> /\ stroke = <<>>

Away(a, b) == IF a > b THEN a - b ELSE b - a
Toward(a, b) == IF a < b THEN 1 ELSE -1

(* paint_plot_brush: the cells of the canvas the brush covers at p *)
Covered(p) ==
  LET radius == brush - 1
  IN {c \in Cells :
        LET dx == c[1] - p[1]  dy == c[2] - p[2]
        IN /\ Away(c[1], p[1]) <= radius /\ Away(c[2], p[2]) <= radius
           /\ dx * dx + dy * dy <= radius * radius + radius}

(* Bresenham's line: where the brush is, and the error, after n steps.      *)
(* Division rounds towards zero.                                            *)
Along(p, q) ==
  LET dx == Away(p[1], q[1])  dy == Away(p[2], q[2])
      at[n \in 0..dx + dy] ==
        IF n = 0 THEN [p |-> p, err |-> IF dx > dy THEN dx \div 2 ELSE -(dy \div 2)]
        ELSE LET e == at[n - 1].err
                 o == at[n - 1].p
                 right == e > -dx
                 down == e < dy
             IN [p |-> <<IF right THEN o[1] + Toward(p[1], q[1]) ELSE o[1],
                         IF down THEN o[2] + Toward(p[2], q[2]) ELSE o[2]>>,
                 err |-> e - (IF right THEN dy ELSE 0) + (IF down THEN dx ELSE 0)]
  IN at

(* The loop ends when the brush has come to q; a line that misses q has all *)
(* its steps here.                                                          *)
Line(p, q) ==
  LET at == Along(p, q)
      ends == {n \in DOMAIN at : at[n].p = q}
      n == IF ends = {} THEN Away(p[1], q[1]) + Away(p[2], q[2])
           ELSE CHOOSE k \in ends : \A j \in ends : k <= j
  IN [k \in 1..n + 1 |-> at[k - 1].p]

-----------------------------------------------------------------------------
(* paint_on_mouse: the palette, the brush sizes, the button that clears     *)
Pick(c) == color' = c /\ UNCHANGED <<canvas, brush, drawing, place, stroke>>
Size(b) == brush' = b /\ UNCHANGED <<canvas, color, drawing, place, stroke>>
Clear == canvas' = Blank /\ UNCHANGED <<color, brush, drawing, place, stroke>>

(* The button is down over the canvas.  A release that is reported to       *)
(* another window is not seen, and the next press goes on from there.       *)
Draw(q) ==
  /\ stroke' = IF drawing THEN Line(place, q) ELSE <<q>>
  /\ canvas' = [c \in Cells |->
                  IF \E i \in 1..Len(stroke') : c \in Covered(stroke'[i]) THEN color
                  ELSE canvas[c]]
  /\ drawing' = TRUE /\ place' = q
  /\ UNCHANGED <<color, brush>>

Lift ==
  /\ drawing' = FALSE
  /\ UNCHANGED <<canvas, color, brush, place, stroke>>

Next ==
  \/ \E c \in Colors : Pick(c)
  \/ \E b \in Brushes : Size(b)
  \/ \E q \in Places : Draw(q)
  \/ Clear \/ Lift

Spec == Init /\ [][Next]_vars

-----------------------------------------------------------------------------
(* The line between two reports: it leads to the place reported, it has no  *)
(* gap, and it is as short as such a line can be.                           *)
StrokeSound ==
  /\ drawing => stroke # <<>> /\ stroke[Len(stroke)] = place
  /\ \A i \in 1..Len(stroke) - 1 :
       /\ Away(stroke[i][1], stroke[i + 1][1]) <= 1
       /\ Away(stroke[i][2], stroke[i + 1][2]) <= 1
  /\ stroke # <<>> =>
       LET p == stroke[1]  q == stroke[Len(stroke)]
       IN \/ Len(stroke) = Away(p[1], q[1]) + 1
          \/ Len(stroke) = Away(p[2], q[2]) + 1
=============================================================================
