----------------------------- MODULE Calculator -----------------------------
(***************************************************************************)
(* The calculator (src/gui_apps.c): one line of text that is at once what  *)
(* is typed, what is shown and what is calculated with, an operand and an  *)
(* operator that wait.  The program calculates with doubles and shows four *)
(* places; here numbers have Decimals places, and none is typed with more. *)
(***************************************************************************)
EXTENDS Integers, Sequences, Folds

CONSTANTS
  Digits,     \* the digits that are pressed
  MaxLength,  \* of a number that is typed: 30; at most Decimals + 2
  Decimals,   \* places behind the point that are shown
  MaxValue    \* a larger result is an error: 999999999

VARIABLES
  display, stored, operator, fresh,  \* CalcState; fresh is new_input
  pressed                            \* calc_prev_left

vars == <<display, stored, operator, fresh, pressed>>

Operators == {"+", "-", "*", "/"}
Value(d) == CHOOSE n \in 0..9 : <<"0", "1", "2", "3", "4", "5", "6", "7", "8", "9">>[n + 1] = d
Digit(n) == <<"0", "1", "2", "3", "4", "5", "6", "7", "8", "9">>[n + 1]
IsDigit(c) == c \in {Digit(n) : n \in 0..9}
Error == <<"E", "r", "r">>
Scale == 10 ^ Decimals

TypeOK ==
  /\ Len(display) <= MaxLength + Decimals + 2
  /\ operator \in Operators \cup {"none"}
  /\ fresh \in BOOLEAN /\ pressed \in BOOLEAN

(* app_calc_create; the button C                                            *)
Init ==
  /\ display = <<"0">> /\ stored = 0 /\ operator = "none" /\ fresh = TRUE
  /\ pressed = FALSE
Cleared == display' = <<"0">> /\ stored' = 0 /\ operator' = "none" /\ fresh' = TRUE

-----------------------------------------------------------------------------
Point == CHOOSE i \in 1..Len(display) + 1 :
           /\ \A j \in 1..i - 1 : display[j] # "."
           /\ i <= Len(display) => display[i] = "."

(* The number on the display: what is neither a digit nor a point counts    *)
(* for nothing, as in a display that shows an error.                        *)
Number ==
  LET digits == SelectSeq(SubSeq(display, 1, Point - 1), IsDigit)
      places == SelectSeq(SubSeq(display, Point + 1, Len(display)), IsDigit)
      whole == MapThenFoldSet(+, 0, LAMBDA i : Value(digits[i]) * 10 ^ (Len(digits) - i),
                              LAMBDA S : CHOOSE i \in S : TRUE, DOMAIN digits)
      rest == MapThenFoldSet(+, 0, LAMBDA i : Value(places[i]) * 10 ^ (Decimals - i),
                             LAMBDA S : CHOOSE i \in S : TRUE,
                             {i \in DOMAIN places : i <= Decimals})
      value == whole * Scale + rest
  IN IF display[1] = "-" THEN -value ELSE value

(* calc_double_to_str: digits, and the places up to the last that is not    *)
(* zero.                                                                    *)
Size(v) == IF v < 0 THEN -v ELSE v
Whole(n) ==
  LET length == CHOOSE l \in 1..9 : n < 10 ^ l /\ (l > 1 => n >= 10 ^ (l - 1))
  IN [i \in 1..length |-> Digit((n \div 10 ^ (length - i)) % 10)]
Places(n) ==
  LET kept == CHOOSE k \in 0..Decimals :
                n % (10 ^ (Decimals - k)) = 0 /\ (k > 0 => n % (10 ^ (Decimals - k + 1)) # 0)
  IN IF kept = 0 THEN <<>>
     ELSE <<".">> \o [i \in 1..kept |-> Digit((n \div 10 ^ (Decimals - i)) % 10)]
Shown(v) ==
  IF Size(v) > MaxValue * Scale THEN Error
  ELSE (IF v < 0 THEN <<"-">> ELSE <<>>) \o Whole(Size(v) \div Scale) \o Places(Size(v) % Scale)

Divided(a, b) ==
  LET q == (Size(a) * Scale) \div Size(b) IN IF (a < 0) = (b < 0) THEN q ELSE -q
Times(a, b) ==
  LET p == (Size(a) * Size(b)) \div Scale IN IF (a < 0) = (b < 0) THEN p ELSE -p

-----------------------------------------------------------------------------
(* calc_on_mouse: only the first of the events while the button is down is  *)
(* a click.                                                                 *)
Click == ~pressed /\ pressed' = TRUE
Release == pressed /\ pressed' = FALSE /\ UNCHANGED <<display, stored, operator, fresh>>

Type(d) ==
  /\ Click
  /\ display' = IF fresh THEN <<d>>
                ELSE IF Len(display) < MaxLength THEN Append(display, d) ELSE display
  /\ fresh' = FALSE
  /\ UNCHANGED <<stored, operator>>

TypePoint ==
  /\ Click
  /\ display' = IF Point > Len(display) /\ ~fresh /\ Len(display) < MaxLength
                THEN Append(display, ".") ELSE display
  /\ UNCHANGED <<stored, operator, fresh>>

(* An operator takes the number that is shown, whatever waits already.      *)
Operate(o) ==
  /\ Click
  /\ stored' = Number /\ operator' = o /\ fresh' = TRUE
  /\ UNCHANGED display

Equals ==
  /\ Click
  /\ IF operator = "none" THEN UNCHANGED <<display, operator, fresh>>
     ELSE /\ display' =
               CASE operator = "+" -> Shown(stored + Number)
                 [] operator = "-" -> Shown(stored - Number)
                 [] operator = "*" -> Shown(Times(stored, Number))
                 [] OTHER -> IF Number = 0 THEN Error ELSE Shown(Divided(stored, Number))
          /\ operator' = "none" /\ fresh' = TRUE
  /\ UNCHANGED stored

Clear == Click /\ Cleared

Next ==
  \/ \E d \in Digits : Type(d)
  \/ \E o \in Operators : Operate(o)
  \/ TypePoint \/ Equals \/ Clear \/ Release

Spec == Init /\ [][Next]_vars

-----------------------------------------------------------------------------
(* The display is an error or a number that can be read: a sign, digits,    *)
(* and at most one point, which is not the first.  What is typed is neither *)
(* an error nor negative, and a result is read as the number it shows.      *)
Readable ==
  LET from == IF display[1] = "-" THEN 2 ELSE 1
  IN /\ Point > from
     /\ \A i \in from..Len(display) : i # Point => IsDigit(display[i])
CalcSound ==
  /\ display = Error \/ Readable
  /\ ~fresh => display # Error /\ display[1] # "-"
  /\ fresh /\ operator = "none" /\ display # Error => Shown(Number) = display
=============================================================================
