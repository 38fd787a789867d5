------------------------------- MODULE Snake -------------------------------
(***************************************************************************)
(* The game Snake (src/gui_apps.c).  Keys turn the snake, drawing the      *)
(* window moves it.  Food may be laid anywhere, under the snake included.  *)
(***************************************************************************)
EXTENDS Integers, Sequences

CONSTANTS
  Grid,        \* SNAKE_GRID_SIZE
  MaxLength,   \* SNAKE_MAX_LENGTH - 1
  MaxScore,    \* bound of the model
  Foods        \* cells the generator lays food on

VARIABLES
  body,        \* the cells of the snake, its head first
  dir,         \* dx, dy
  food, over, easy,
  score        \* score / 10

vars == <<body, dir, food, over, easy, score>>

Cells == (0..Grid - 1) \X (0..Grid - 1)
Up == <<0, -1>>
Down == <<0, 1>>
Left == <<-1, 0>>
Right == <<1, 0>>
Headings == {Up, Down, Left, Right}

TypeOK ==
  /\ body \in Seq(Cells) /\ Len(body) <= MaxLength
  /\ dir \in Headings /\ food \in Foods
  /\ {over, easy} \subseteq BOOLEAN /\ score \in Nat

(* snake_reset *)
Curled == LET m == Grid \div 2 IN <<<<m, m>>, <<m - 1, m>>, <<m - 2, m>>>>

(* app_snake_create: nothing is on the board until a mode is chosen         *)
Init ==
  /\ body = <<>> /\ dir = Right /\ food \in Foods
  /\ over = TRUE /\ easy = TRUE /\ score = 0

(* snake_on_key after a game: the same mode again, or a mode.  Hard differs *)
(* from medium in its speed only.                                           *)
Reset ==
  /\ over
  /\ body' = Curled /\ dir' = Right /\ food' \in Foods
  /\ over' = FALSE /\ easy' \in BOOLEAN /\ score' = 0

(* snake_on_key: no turn back on the direction of now, which need not be    *)
(* the one of the last move.                                                *)
Turn(d) ==
  /\ ~over /\ d # <<-dir[1], -dir[2]>>
  /\ dir' = d
  /\ UNCHANGED <<body, food, over, easy, score>>

Wrapped(i) == IF i < 0 THEN Grid - 1 ELSE IF i >= Grid THEN 0 ELSE i

(* snake_on_draw: what ends the game.  The cell the tail is leaving counts. *)
Meets(cell) == cell \notin Cells \/ \E i \in 1..Len(body) : body[i] = cell

Ahead ==
  LET x == body[1][1] + dir[1]  y == body[1][2] + dir[2]
  IN IF easy THEN <<Wrapped(x), Wrapped(y)>> ELSE <<x, y>>

Grown == Len(body) < MaxLength

Move ==
  /\ ~over
  /\ \/ Meets(Ahead) /\ over' = TRUE /\ UNCHANGED <<body, food, score>>
     \/ /\ ~Meets(Ahead) /\ UNCHANGED over
        /\ LET eats == Ahead = food
           IN /\ body' = <<Ahead>> \o
                           (IF eats /\ Grown THEN body ELSE SubSeq(body, 1, Len(body) - 1))
              /\ score' = IF eats THEN score + 1 ELSE score
              /\ IF eats THEN food' \in Foods ELSE UNCHANGED food
  /\ score < MaxScore
  /\ UNCHANGED <<dir, easy>>

Next == Reset \/ Move \/ \E d \in Headings : Turn(d)

Spec == Init /\ [][Next]_vars

-----------------------------------------------------------------------------
(* The snake is one piece and crosses itself nowhere; it is as long as what *)
(* it has eaten, up to MaxLength.                                           *)
Beside(a, b) ==
  \E d \in Headings : b = <<Wrapped(a[1] + d[1]), Wrapped(a[2] + d[2])>>

SnakeSound ==
  body # <<>> =>
    /\ \A i \in 1..Len(body) - 1 : Beside(body[i], body[i + 1])
    /\ \A i, j \in 1..Len(body) : body[i] = body[j] => i = j
    /\ Len(body) = IF score + 3 < MaxLength THEN score + 3 ELSE MaxLength
=============================================================================
