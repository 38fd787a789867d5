------------------------------ MODULE Terminal ------------------------------
(***************************************************************************)
(* The terminal window (src/terminal.c): a buffer of characters with a     *)
(* cursor, the line that is typed, a history of commands, a selection made *)
(* with the mouse and the clipboard.  There is one TerminalState for every *)
(* terminal window; creating one makes it new.                             *)
(*                                                                         *)
(* A command is what it prints and the code it returns.  The keys it reads *)
(* are the matter of module Keyboard; the mouse is not looked at while it  *)
(* runs.  total_lines, which nothing reads, and colours are left out.      *)
(***************************************************************************)
EXTENDS Naturals, Sequences, SequencesExt

CONSTANTS
  Rows, Columns,   \* TERM_ROWS, TERM_COLS
  Tab,             \* distance of tab stops
  Characters,      \* printable characters that are typed
  MaxInput,        \* TERM_MAX_INPUT
  MaxHistory,      \* TERM_HISTORY_SIZE
  MaxClip,         \* what fits into os_clipboard
  PageRows,        \* rows that PgUp and PgDn move
  Prints,          \* what commands print
  Points,          \* cells at which the mouse is
  MaxEvents        \* bound: keys, edits and mouse reports

VARIABLES
  term,       \* term_state
  clip,       \* os_clipboard
  menu,       \* term_ctx.open
  prevLeft, prevRight,
  ran,        \* commands that this terminal has run
  events      \* counts towards MaxEvents

vars == <<term, clip, menu, prevLeft, prevRight, ran, events>>

Prompt == <<">">>

None == [from |-> <<Rows, 0>>, to |-> <<Rows, 0>>]   \* sel_start_row = -1
Cells == (0..Rows - 1) \X (0..Columns - 1)

TypeOK ==
  /\ term.row \in 0..Rows - 1 /\ term.col \in 0..Columns - 1
  /\ \A r \in 0..Rows - 1 : DOMAIN term.buffer[r] = 0..Columns - 1
  /\ Len(term.input) < MaxInput /\ Len(term.history) <= MaxHistory
  /\ term.recall \in 0..Len(term.history)
  /\ term.sel = None \/ {term.sel.from, term.sel.to} \subseteq Cells
  /\ Len(clip) <= MaxClip
  /\ {menu, prevLeft, prevRight, term.selecting, term.plain} \subseteq BOOLEAN
  /\ events \in 0..MaxEvents

-----------------------------------------------------------------------------
(* The buffer. *)
Blank == [c \in 0..Columns - 1 |-> ""]

NewLine(t) ==
  IF t.row + 1 < Rows
  THEN [t EXCEPT !.row = @ + 1, !.col = 0]
  ELSE [t EXCEPT !.col = 0,
                 !.buffer = [r \in 0..Rows - 1 |-> IF r < Rows - 1 THEN @[r + 1] ELSE Blank]]

Cursor(t, c) == IF c < Columns THEN [t EXCEPT !.col = c] ELSE NewLine(t)

(* term_putchar *)
PutChar(t, c) ==
  CASE c = "\n" -> NewLine(t)
    [] c = "backspace" -> [t EXCEPT !.col = IF @ > 0 THEN @ - 1 ELSE 0]
    [] c = "\t" -> Cursor(t, ((t.col + Tab) \div Tab) * Tab)
    [] OTHER -> Cursor([t EXCEPT !.buffer[t.row][t.col] = c], t.col + 1)

(* term_puts, term_puts_color *)
Puts(t, s) == FoldLeft(PutChar, t, s)

(* term_show_prompt.  at is where the line begins, plain that it is still   *)
(* one piece of a row that only keys have written to.                       *)
ShowPrompt(t) ==
  LET u == Puts([t EXCEPT !.input = <<>>], Prompt)
  IN [u EXCEPT !.at = <<u.row, u.col>>, !.plain = TRUE]

(* terminal_cls, and what -2 makes term_execute do *)
ClearScreen(t) ==
  [t EXCEPT !.buffer = [r \in 0..Rows - 1 |-> Blank], !.row = 0, !.col = 0, !.scroll = 0]

(* terminal_create: all zero (a selection of nothing at the first cell), then  *)
(* term_init; the lines of the welcome have scrolled away.                     *)
Fresh ==
  ShowPrompt([buffer |-> [r \in 0..Rows - 1 |-> Blank], row |-> Rows - 1, col |-> 0,
              scroll |-> 0, input |-> <<>>, history |-> <<>>, recall |-> 0,
              sel |-> [from |-> <<0, 0>>, to |-> <<0, 0>>], selecting |-> FALSE,
              at |-> <<0, 0>>, plain |-> TRUE])

Init ==
  /\ term = Fresh /\ clip = <<>> /\ menu = FALSE
  /\ prevLeft = FALSE /\ prevRight = FALSE /\ ran = <<>> /\ events = 0

-----------------------------------------------------------------------------
(* terminal_on_key *)
Type(t, c) ==
  IF Len(t.input) < MaxInput - 1
  THEN [PutChar(t, c) EXCEPT !.input = Append(@, c), !.scroll = 0,
                             !.plain = @ /\ t.col + 1 < Columns]
  ELSE [t EXCEPT !.scroll = 0]

Backspace(t) ==
  IF t.input = <<>> THEN t
  ELSE [t EXCEPT !.input = Front(@),
                 !.col = IF @ > 0 THEN @ - 1 ELSE 0,
                 !.buffer[t.row] = IF t.col > 0 THEN [@ EXCEPT ![t.col - 1] = " "] ELSE @]

Erase(t) == FoldLeft(LAMBDA u, c : Backspace(u), t, t.input)


Recall(t, i) ==
  LET written(u, c) == [PutChar(u, c) EXCEPT !.plain = @ /\ u.col + 1 < Columns]
  IN [FoldLeft(written, Erase(t), t.history[i + 1])
        EXCEPT !.input = t.history[i + 1], !.recall = i]

Key ==
  /\ \/ \E c \in Characters : term' = Type(term, c)
     \/ term' = Backspace(term)
     \/ term.history # <<>> /\ term.recall > 0 /\ term' = Recall(term, term.recall - 1)
     \/ term.recall + 1 < Len(term.history) /\ term' = Recall(term, term.recall + 1)
     \/ term' = [term EXCEPT !.scroll = IF @ + PageRows > term.row THEN term.row ELSE @ + PageRows]
     \/ term' = [term EXCEPT !.scroll = IF @ > PageRows THEN @ - PageRows ELSE 0]
  /\ UNCHANGED <<clip, menu, prevLeft, prevRight, ran>>

(* Enter, with term_execute: the command prints, it may clear the screen,   *)
(* it may close the window, which leaves the state as it is, or leave the   *)
(* desktop, after which no prompt is shown.                                 *)
Entered == NewLine([term EXCEPT !.scroll = 0])

Remembered(t) ==
  LET h == IF Len(t.history) < MaxHistory THEN Append(t.history, t.input) ELSE t.history
  IN [t EXCEPT !.history = h, !.recall = Len(h)]

Enter ==
  /\ IF term.input = <<>> THEN term' = ShowPrompt(Entered) /\ UNCHANGED ran
     ELSE /\ ran' = Append(ran, term.input)
          /\ \E p \in Prints, cleared, leaves \in BOOLEAN :
               LET t == Puts(Remembered(Entered), p)
                   u == IF cleared THEN ClearScreen(t) ELSE t
               IN term' = IF leaves THEN [u EXCEPT !.input = <<>>, !.at = <<u.row, u.col>>, !.plain = TRUE]
                          ELSE ShowPrompt(u)
  /\ UNCHANGED <<clip, menu, prevLeft, prevRight>>

-----------------------------------------------------------------------------
(* The selection. *)
Before(a, b) == a[1] < b[1] \/ (a[1] = b[1] /\ a[2] <= b[2])
Top(s) == IF Before(s.from, s.to) THEN s.from ELSE s.to
Bottom(s) == IF Before(s.from, s.to) THEN s.to ELSE s.from

Begins(s, r) == IF r = Top(s)[1] THEN Top(s)[2] ELSE 0
Ends(s, r) == IF r = Bottom(s)[1] THEN Bottom(s)[2] ELSE Columns

(* What a row shows between two columns: nothing is shown as a blank.       *)
Shown(t, r, from, to) ==
  [i \in 1..(IF to > from THEN to - from ELSE 0) |->
     IF t.buffer[r][from + i - 1] = "" THEN " " ELSE t.buffer[r][from + i - 1]]

(* term_copy_selection_to_clip *)
Copied(t) ==
  LET s == t.sel
      row(r) == Shown(t, r, Begins(s, r), Ends(s, r))
                  \o (IF r < Bottom(s)[1] THEN <<"\n">> ELSE <<>>)
      text == IF s = None THEN t.input
              ELSE FlattenSeq([i \in 1..Bottom(s)[1] - Top(s)[1] + 1 |->
                                 row(Top(s)[1] + i - 1)])
  IN SubSeq(text, 1, IF Len(text) < MaxClip THEN Len(text) ELSE MaxClip)

(* term_clear_selection *)
Cleared(t) ==
  LET in(r, c) == /\ r \in Top(t.sel)[1]..Bottom(t.sel)[1]
                  /\ Begins(t.sel, r) <= c /\ c < Ends(t.sel, r)
  IN [t EXCEPT !.sel = None, !.plain = @ /\ ~\E p \in Cells : in(p[1], p[2]),
               !.buffer = [r \in 0..Rows - 1 |-> [c \in 0..Columns - 1 |->
                             IF in(r, c) THEN " " ELSE t.buffer[r][c]]]]

(* terminal_edit_paste *)
Pasted(t) == FoldLeft(Type, t, SelectSeq(clip, LAMBDA c : c # "\n"))

(* terminal_edit_copy, _cut, _paste; _undo is Backspace *)
Edit ==
  /\ \/ clip' = Copied(term) /\ UNCHANGED term
     \/ clip' = Copied(term) /\ term' = IF term.sel = None THEN Erase(term) ELSE Cleared(term)
     \/ term' = Pasted(term) /\ UNCHANGED clip
  /\ UNCHANGED <<menu, prevLeft, prevRight, ran>>

(* terminal_on_mouse: what was pressed before is remembered across windows. *)
Select(left, p) ==
  IF left
  THEN term' = CASE ~prevLeft -> [term EXCEPT !.sel = [from |-> p, to |-> p], !.selecting = TRUE]
                 [] prevLeft /\ term.selecting /\ term.sel # None -> [term EXCEPT !.sel.to = p]
                 [] OTHER -> term
  ELSE term' = [term EXCEPT !.selecting = FALSE,
                            !.sel = IF term.selecting /\ @.from = @.to THEN None ELSE @]

Mouse ==
  \E left, right \in BOOLEAN, p \in Points, item \in {"copy", "paste", "none"} :
    /\ prevLeft' = left /\ prevRight' = right /\ UNCHANGED ran
    /\ CASE right /\ ~prevRight -> menu' = TRUE /\ UNCHANGED <<term, clip>>
         [] menu /\ ~(right /\ ~prevRight) ->
              /\ menu' = ~(left /\ ~prevLeft)
              /\ clip' = IF left /\ ~prevLeft /\ item = "copy" THEN Copied(term) ELSE clip
              /\ term' = IF left /\ ~prevLeft /\ item = "paste" THEN Pasted(term) ELSE term
         [] OTHER -> Select(left, p) /\ UNCHANGED <<menu, clip>>

(* terminal_create *)
Create ==
  /\ term' = Fresh /\ ran' = <<>>
  /\ UNCHANGED <<clip, menu, prevLeft, prevRight>>

Next ==
  /\ events < MaxEvents /\ events' = events + 1
  /\ Key \/ Enter \/ Edit \/ Mouse \/ Create

Spec == Init /\ [][Next]_vars

-----------------------------------------------------------------------------
(* The line that Enter will run is the one the screen shows behind the      *)
(* prompt, however it came about: typed, corrected, recalled, pasted or     *)
(* cut.  A line that went on in the next row, or of which a selection was   *)
(* blanked, is not: the input keeps what the screen lost.                   *)
LineShown ==
  term.plain =>
    /\ term.row = term.at[1]
    /\ term.input = [i \in 1..term.col - term.at[2] |-> term.buffer[term.row][term.at[2] + i - 1]]

(* The rows that are scrolled to exist.                                     *)
ViewExists == term.scroll <= term.row

(* The history is what was run, up to its size and from the beginning.      *)
HistoryKept == term.history = SubSeq(ran, 1, Len(term.history))
                 /\ (Len(term.history) < Len(ran) => Len(term.history) = MaxHistory)

TerminalSound == LineShown /\ ViewExists /\ HistoryKept
=============================================================================
