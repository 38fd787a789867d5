------------------------------- MODULE Python -------------------------------
(***************************************************************************)
(* The Python interpreter of the shell (src/cmd_python.c): it runs a file  *)
(* line by line, tells blocks by their indentation, and calls itself for   *)
(* each block.  Between two lines it looks for a key, and ESC leaves the   *)
(* block.                                                                  *)
(*                                                                         *)
(* An expression is a sequence of words (numbers, names, operators), a     *)
(* line its indentation and its parts.  Texts, calls of functions and the  *)
(* interactive mode are left out; so are sums beyond 32 bits.              *)
(***************************************************************************)
EXTENDS Integers, Sequences, SequencesExt

CONSTANTS
  Programs,    \* what is run, as a tree: sequences of statements
  Expressions, \* what is evaluated by itself
  MaxVars,     \* MAX_VARS
  MaxGuard,    \* rounds after which a while loop is given up, 100000
  MaxKeys      \* bound: presses of ESC

VARIABLES
  program,     \* the tree of the file that is run
  lines,       \* py_lines
  names,       \* var_names, var_vals
  calls,       \* the calls of py_exec_block, innermost last
  out,         \* what has been printed
  value,       \* of the last expression that was evaluated by itself
  keys         \* presses of ESC so far

vars == <<program, lines, names, calls, out, value, keys>>

Numerals == {"0", "1", "2", "3"}
NumberOf == [d \in Numerals |-> CASE d = "0" -> 0 [] d = "1" -> 1 [] d = "2" -> 2 [] d = "3" -> 3]
Comparisons == {"<", ">", "<=", ">=", "==", "!="}
Operators == {"*", "/", "%", "+", "-", "not", "and", "or"} \cup Comparisons

-----------------------------------------------------------------------------
(* py_getvar, py_setvar: a name that was never set is 0, and one too many   *)
(* is not kept.                                                             *)
Entry(t, x) == {i \in 1..Len(t) : t[i].name = x}
GetVar(t, x) == IF Entry(t, x) = {} THEN 0 ELSE t[CHOOSE i \in Entry(t, x) : TRUE].val
SetVar(t, x, v) ==
  CASE Entry(t, x) # {} -> [t EXCEPT ![CHOOSE i \in Entry(t, x) : TRUE].val = v]
    [] Entry(t, x) = {} /\ Len(t) < MaxVars -> Append(t, [name |-> x, val |-> v])
    [] OTHER -> t

(* The evaluator: each level takes operands of the next one, from left to   *)
(* right, and returns the value and the place behind it.                    *)
Word(e, p) == IF p <= Len(e) THEN e[p] ELSE "end"
Truth(b) == IF b THEN 1 ELSE 0

(* Division cuts towards zero, as in C. *)
Size(a) == IF a < 0 THEN -a ELSE a
Quotient(a, b) ==
  IF (a < 0) = (b < 0) THEN Size(a) \div Size(b) ELSE -(Size(a) \div Size(b))

Apply(op, a, b) ==
  CASE op = "*" -> a * b
    [] op = "/" -> IF b # 0 THEN Quotient(a, b) ELSE a
    [] op = "%" -> IF b # 0 THEN a - b * Quotient(a, b) ELSE a
    [] op = "+" -> a + b
    [] op = "-" -> a - b
    [] op = "<" -> Truth(a < b)
    [] op = ">" -> Truth(a > b)
    [] op = "<=" -> Truth(a <= b)
    [] op = ">=" -> Truth(a >= b)
    [] op = "==" -> Truth(a = b)
    [] op = "!=" -> Truth(a # b)
    [] op = "and" -> Truth(a # 0 /\ b # 0)
    [] op = "or" -> Truth(a # 0 \/ b # 0)

Primary(t, e, p) ==
  CASE Word(e, p) \in Numerals -> [v |-> NumberOf[e[p]], p |-> p + 1]
    [] Word(e, p) \in Operators \cup {"end"} -> [v |-> 0, p |-> p]
    [] OTHER -> [v |-> GetVar(t, e[p]), p |-> p + 1]

(* py_eval_muldiv, py_eval_addsub, py_eval_cmp, py_eval_not, py_eval_bool,  *)
(* py_eval_expr: what level k makes of e from place l.p on, without or with *)
(* a left operand l.                                                        *)
Level == <<{"*", "/", "%"}, {"+", "-"}, Comparisons, {"not"}, {"and", "or"}>>
Result == [v : Int, p : Nat]
Combine(op, l, r) == [v |-> Apply(op, l.v, r.v), p |-> r.p]
Negate(r) == [r EXCEPT !.v = Truth(@ = 0)]

Eval(t, e) ==
  LET go[k \in 0..5, l \in Result, left \in BOOLEAN] ==
        LET operand == go[k - 1, [l EXCEPT !.p = @ + 1], FALSE] IN
        CASE k = 0 -> Primary(t, e, l.p)
          [] k = 4 -> IF Word(e, l.p) = "not" THEN Negate(operand) ELSE go[3, l, FALSE]
          [] k \in {1, 2, 3, 5} /\ ~left -> go[k, go[k - 1, l, FALSE], TRUE]
          [] k \in {1, 2, 3, 5} /\ left /\ Word(e, l.p) \notin Level[k] -> l
          [] k = 3 /\ left /\ Word(e, l.p) \in Level[3] -> Combine(e[l.p], l, operand)
          [] OTHER -> go[k, Combine(e[l.p], l, operand), TRUE]
  IN go[5, [v |-> 0, p |-> 1], FALSE].v

-----------------------------------------------------------------------------
(* The lines of a program.  Loose ones have empty lines between them.       *)
LineOf(indent, kind, x, e) == [indent |-> indent, kind |-> kind, x |-> x, e |-> e]

RECURSIVE Flatten(_, _)
Flatten(s, n) ==
  LET body(b) == Flatten(b, n + 1)
      arm(a, kind) == <<LineOf(n, kind, "", a.cond)>> \o body(a.body)
      one(t) ==
        CASE t.kind \in {"print", "assign"} -> <<LineOf(n, t.kind, t.x, t.e)>>
          [] t.kind \in {"while", "for"} -> <<LineOf(n, t.kind, t.x, t.e)>> \o body(t.body)
          [] t.kind = "if" ->
               arm(t.arms[1], "if")
               \o FlattenSeq([i \in 1..Len(t.arms) - 1 |-> arm(t.arms[i + 1], "elif")])
               \o (IF t.other = <<>> THEN <<>>
                   ELSE <<LineOf(n, "else", "", <<>>)>> \o body(t.other))
  IN FlattenSeq([i \in 1..Len(s) |-> one(s[i])])

Loose(l) ==
  FlattenSeq([i \in 1..Len(l) |-> <<l[i], LineOf(0, "blank", "", <<>>)>>])

(* find_block_end *)
BlockEnd(start, base) ==
  CHOOSE i \in start..Len(lines) + 1 :
    /\ i <= Len(lines) => lines[i].kind # "blank" /\ lines[i].indent <= base
    /\ \A k \in start..i - 1 : lines[k].kind = "blank" \/ lines[k].indent > base

Nothing == [kind |-> "none", i |-> 0, n |-> 0, to |-> 0]
Call(from, to) == [i |-> from, end |-> to, pending |-> Nothing]

Init ==
  /\ program = <<>> /\ lines = <<>> /\ names = <<>> /\ calls = <<>>
  /\ out = <<>> /\ value = 0 /\ keys = 0

(* cmd_python *)
Run ==
  /\ program = <<>> /\ lines = <<>>
  /\ program' \in Programs
  /\ lines' \in {Flatten(program', 0), Loose(Flatten(program', 0))}
  /\ calls' = <<Call(1, Len(lines') + 1)>>
  /\ UNCHANGED <<names, out, value, keys>>

(* An expression by itself, with one name set. *)
Evaluate ==
  /\ program = <<>> /\ lines = <<>>
  /\ \E e \in Expressions, v \in 0..1 :
       /\ lines' = <<LineOf(0, "blank", "", e)>>
       /\ names' = SetVar(names, "x", v) /\ value' = Eval(names', e)
  /\ UNCHANGED <<program, calls, out, keys>>

(* One round of py_exec_block: block is its call.                           *)
block == calls[Len(calls)]
here == lines[block.i]
Running == calls # <<>> /\ block.pending.kind = "none" /\ block.i < block.end
bodyEnd == BlockEnd(block.i + 1, here.indent)

Goto(i) == [calls EXCEPT ![Len(calls)].i = i, ![Len(calls)].pending = Nothing]
Enter(from, to, p) == Append([calls EXCEPT ![Len(calls)].pending = p], Call(from, to))
Return == Front(calls)

Interrupt ==
  /\ Running /\ keys < MaxKeys
  /\ keys' = keys + 1 /\ calls' = Return
  /\ UNCHANGED <<program, lines, names, out, value>>

Blank ==
  /\ Running /\ here.kind \in {"blank", "else"} /\ calls' = Goto(block.i + 1)
  /\ UNCHANGED <<program, lines, names, out, value, keys>>

Statement ==
  /\ Running /\ here.kind \in {"print", "assign"} /\ calls' = Goto(block.i + 1)
  /\ IF here.kind = "print"
     THEN out' = Append(out, Eval(names, here.e)) /\ UNCHANGED names
     ELSE names' = SetVar(names, here.x, Eval(names, here.e)) /\ UNCHANGED out
  /\ UNCHANGED <<program, lines, value, keys>>

(* if, elif: an else is looked for at the line behind the block, at the     *)
(* same indentation; an elif is taken up as a line of its own.              *)
If ==
  /\ Running /\ here.kind \in {"if", "elif"}
  /\ LET e == bodyEnd
         next == IF e < block.end /\ lines[e].indent = here.indent THEN lines[e].kind ELSE "none"
     IN calls' = CASE Eval(names, here.e) # 0 ->
                        Enter(block.i + 1, e, [kind |-> "if", i |-> e, n |-> here.indent, to |-> 0])
                   [] Eval(names, here.e) = 0 /\ next = "else" ->
                        LET f == BlockEnd(e + 1, here.indent)
                        IN Enter(e + 1, f, [kind |-> "else", i |-> f, n |-> 0, to |-> 0])
                   [] OTHER -> Goto(e)
  /\ UNCHANGED <<program, lines, names, out, value, keys>>

While ==
  /\ Running /\ here.kind = "while"
  /\ calls' = IF Eval(names, here.e) # 0
              THEN Enter(block.i + 1, bodyEnd, [kind |-> "while", i |-> bodyEnd, n |-> 1, to |-> block.i])
              ELSE Goto(bodyEnd)
  /\ UNCHANGED <<program, lines, names, out, value, keys>>

(* for x in range(a, b): the arguments are read as digits, a name is 0.     *)
Literal(w) == IF w \in Numerals THEN NumberOf[w] ELSE 0
For ==
  /\ Running /\ here.kind = "for"
  /\ LET from == Literal(here.e[1])
         to == Literal(here.e[2])
     IN IF from < to
        THEN /\ names' = SetVar(names, here.x, from)
             /\ calls' = Enter(block.i + 1, bodyEnd,
                               [kind |-> "for", i |-> bodyEnd, n |-> from + 1, to |-> to])
        ELSE calls' = Goto(bodyEnd) /\ UNCHANGED names
  /\ UNCHANGED <<program, lines, out, value, keys>>

(* A block has ended. *)
BlockDone ==
  /\ calls # <<>> /\ block.pending.kind = "none" /\ block.i >= block.end
  /\ calls' = Return
  /\ UNCHANGED <<program, lines, names, out, value, keys>>

(* The chain behind an if that was true is skipped. *)
RECURSIVE SkipChain(_, _)
SkipChain(i, base) ==
  IF i < block.end /\ lines[i].indent = base /\ lines[i].kind \in {"elif", "else"}
  THEN SkipChain(BlockEnd(i + 1, base), base) ELSE i

Back ==
  /\ calls # <<>> /\ block.pending.kind # "none"
  /\ LET p == block.pending
         again == [calls EXCEPT ![Len(calls)].pending.n = @ + 1]
     IN CASE p.kind = "if" -> calls' = Goto(SkipChain(p.i, p.n)) /\ UNCHANGED names
          [] p.kind = "else" -> calls' = Goto(p.i) /\ UNCHANGED names
          [] p.kind = "while" ->
               /\ calls' = IF Eval(names, lines[p.to].e) # 0 /\ p.n < MaxGuard
                           THEN Append(again, Call(p.to + 1, p.i)) ELSE Goto(p.i)
               /\ UNCHANGED names
          [] p.kind = "for" ->
               IF p.n < p.to
               THEN names' = SetVar(names, here.x, p.n) /\ calls' = Append(again, Call(block.i + 1, p.i))
               ELSE calls' = Goto(p.i) /\ UNCHANGED names
  /\ UNCHANGED <<program, lines, out, value, keys>>

Next ==
  \/ Run \/ Evaluate \/ Interrupt \/ Blank \/ Statement \/ If \/ While \/ For
  \/ BlockDone \/ Back

Spec == Init /\ [][Next]_vars

TypeOK ==
  /\ Len(names) <= MaxVars /\ keys \in 0..MaxKeys
  /\ \A i \in 1..Len(calls) : calls[i].i \in 1..Len(lines) + 1 /\ calls[i].end \in 1..Len(lines) + 1
  /\ \A i \in 1..Len(calls) - 1 : calls[i].pending.kind # "none"

-----------------------------------------------------------------------------
(* Reference definitions.  The value of an expression, by the operator that *)
(* binds least; and what a tree of statements does to names and output.     *)
LastOf(e, ops) ==
  LET at == {i \in 1..Len(e) : e[i] \in ops}
  IN IF at = {} THEN 0 ELSE CHOOSE i \in at : \A k \in at : k <= i

RECURSIVE Value(_, _)
Value(t, e) ==
  LET split(i) == Apply(e[i], Value(t, SubSeq(e, 1, i - 1)), Value(t, SubSeq(e, i + 1, Len(e))))
      level == <<{"or"}, {"and"}, {"not"}, Comparisons, {"+", "-"}, {"*", "/", "%"}>>
      loosest == {l \in 1..6 : LastOf(e, level[l]) # 0}
  IN IF loosest = {} THEN Primary(t, e, 1).v
     ELSE LET l == CHOOSE k \in loosest : \A m \in loosest : k <= m
          IN IF l = 3 THEN Truth(Value(t, Tail(e)) = 0) ELSE split(LastOf(e, level[l]))

RECURSIVE Does(_, _)
Does(s, before) ==
  LET one(r, t) ==
        LET taken == {i \in 1..Len(t.arms) : Eval(r.names, t.arms[i].cond) # 0
                        /\ \A k \in 1..i - 1 : Eval(r.names, t.arms[k].cond) = 0}
            to == Value(r.names, <<t.e[2]>>)
            repeat[n \in 0..MaxGuard] ==
              IF n = 0 \/ Eval(repeat[n - 1].names, t.e) = 0
              THEN IF n = 0 THEN r ELSE repeat[n - 1]
              ELSE Does(t.body, repeat[n - 1])
            count[n \in 0..to] ==
              IF n = Value(r.names, <<t.e[1]>>) THEN r
              ELSE Does(t.body, [count[n - 1] EXCEPT !.names = SetVar(@, t.x, n - 1)])
        IN CASE t.kind = "print" -> [r EXCEPT !.out = Append(@, Eval(r.names, t.e))]
             [] t.kind = "assign" -> [r EXCEPT !.names = SetVar(@, t.x, Eval(r.names, t.e))]
             [] t.kind = "while" -> repeat[MaxGuard]
             [] t.kind = "for" -> count[to]
             [] t.kind = "if" -> Does(IF taken = {} THEN t.other
                                      ELSE t.arms[CHOOSE i \in taken : TRUE].body, r)
  IN FoldLeft(one, before, s)

(* Ranges whose bounds are names run through no numbers at all.             *)
Literals == \A i \in 1..Len(lines) : lines[i].kind = "for" => \A k \in 1..2 : lines[i].e[k] \in Numerals

(* A file that has run to its end, with no key pressed, has printed and set *)
(* what its tree says, wherever it has empty lines: each block is entered   *)
(* under its own condition, a chain of elif and else takes one branch, and  *)
(* loops come back to their own line.                                       *)
BlocksFollowed ==
  program # <<>> /\ calls = <<>> /\ keys = 0 /\ Literals =>
    [names |-> names, out |-> out] = Does(program, [names |-> <<>>, out |-> <<>>])

(* An expression without parentheses has the value its operators say, as    *)
(* long as no "and" stands behind an "or": the code treats them alike, from *)
(* left to right.  A second comparison is never reached.                    *)
Plain(e) ==
  /\ \A i, k \in 1..Len(e) : e[i] = "or" /\ e[k] = "and" => k < i
  /\ \A i, k \in 1..Len(e) : e[i] \in Comparisons /\ e[k] \in Comparisons /\ i < k =>
       \E m \in i..k : e[m] \in {"and", "or"}
ValuesRight ==
  program = <<>> /\ lines # <<>> /\ Plain(lines[1].e) => value = Value(names, lines[1].e)

PythonSound == BlocksFollowed /\ ValuesRight
=============================================================================
