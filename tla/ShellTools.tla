----------------------------- MODULE ShellTools -----------------------------
(***************************************************************************)
(* The text commands of the shell (src/commands.c), WC, HEAD, TAIL, GREP,  *)
(* NL, TAC, SORT, UNIQ and DIFF, which go through the contents of a file   *)
(* character by character; FACTOR; and the tables of EXPORT, UNSET, ALIAS  *)
(* and UNALIAS.                                                            *)
(*                                                                         *)
(* A text is a sequence of "a", "b", " " and "nl".  What a command prints  *)
(* is a sequence too, the numbers of NL and FACTOR included.  A round of a *)
(* loop is a step.                                                         *)
(***************************************************************************)
EXTENDS Naturals, Sequences, SequencesExt, FiniteSetsExt

CONSTANTS
  Texts,       \* contents of files; <<>> also stands for a file without a slot
  Patterns,    \* what GREP is asked for
  FewLines,    \* the lines HEAD and TAIL print, 10
  MaxStarts,   \* the line starts TAC keeps, 128
  Width,       \* 2^Width is where unsigned numbers wrap
  Settable, Long,  \* names of variables; those that are cut when they are stored
  CutName,     \* what they are cut to
  Contents,    \* values of variables
  MaxEntries,  \* MAX_ENV_VARS, MAX_ALIASES
  MaxSettings  \* bound: calls of EXPORT and UNSET

VARIABLES
  tool, text, other,       \* the command, its file, its pattern or second file
  j, lines, words, inw, ls, starts,  \* its loop index, counts, and line starts
  n, d, orig,              \* FACTOR: what is left, the divisor, the number asked for
  out, done,
  entries,                 \* env_keys, env_vals (alias_names, alias_cmds)
  meant,                   \* what the settings accepted should amount to
  settings

scan == <<j, lines, words, inw, ls, starts>>
numbers == <<n, d, orig>>
job == <<tool, text, other>>
table == <<entries, meant, settings>>
vars == <<job, scan, numbers, out, done, table>>

Scans == {"WC", "HEAD", "TAIL", "TAIL2", "GREP", "NL", "TAC", "TAC2", "SORT", "DIFF"}
Numbers == 1..(2 ^ Width - 1)

TypeOK ==
  /\ tool \in Scans \cup {"FACTOR", "SET", "none"}
  /\ j \in 0..Len(text) + 1 /\ lines \in 0..Len(text) + 1 /\ words \in 0..Len(text)
  /\ ls \in 0..Len(text) + 1 /\ Len(starts) <= MaxStarts /\ inw \in BOOLEAN
  /\ n \in 0..(2 ^ Width - 1) /\ d \in 0..(2 ^ Width - 1) /\ orig \in {0} \cup Numbers /\ done \in BOOLEAN
  /\ Len(entries) <= MaxEntries /\ settings \in 0..MaxSettings

(* The names that are stored as they are typed. *)
Plain == Settable \ (Long \cup {CutName})
NoVariables == [k \in Plain |-> ""]

Init ==
  /\ tool = "none" /\ text = <<>> /\ other = <<>>
  /\ j = 0 /\ lines = 0 /\ words = 0 /\ inw = FALSE /\ ls = 0 /\ starts = <<>>
  /\ n = 0 /\ d = 0 /\ orig = 0 /\ out = <<>> /\ done = FALSE
  /\ entries = <<>> /\ meant = NoVariables /\ settings = 0

(* The command line: a file that was found, or a number. *)
Start ==
  /\ tool = "none" /\ settings = 0
  /\ \/ /\ tool' \in Scans \ {"TAIL2", "TAC2"} /\ text' \in Texts
        /\ other' \in CASE tool' = "GREP" -> Patterns [] tool' = "DIFF" -> Texts
                        [] OTHER -> {<<>>}
        /\ lines' = (IF tool' = "NL" THEN 1 ELSE 0)
        /\ out' = (IF tool' = "NL" /\ text' # <<>> THEN <<1>> ELSE <<>>)
        /\ starts' = (IF tool' = "TAC" THEN <<0>> ELSE <<>>)
        /\ UNCHANGED numbers
     \/ /\ tool' = "FACTOR" /\ n' \in Numbers /\ d' = 2 /\ orig' = n'
        /\ UNCHANGED <<text, other, lines, out, starts>>
  /\ UNCHANGED <<j, words, inw, ls, done, table>>

More == ~done /\ j < Len(text)
At(i) == text[i + 1]
Step == j' = j + 1
Finished == done' = TRUE /\ UNCHANGED <<job, scan, numbers, out, table>>

Wc ==
  /\ tool = "WC" /\ More /\ Step
  /\ lines' = lines + (IF At(j) = "nl" THEN 1 ELSE 0)
  /\ inw' = (At(j) \notin {" ", "nl"})
  /\ words' = words + (IF ~inw' /\ inw THEN 1 ELSE 0)
  /\ UNCHANGED <<ls, starts, out, done>>
WcEnd ==
  /\ tool = "WC" /\ ~done /\ ~More
  /\ words' = words + (IF inw THEN 1 ELSE 0) /\ done' = TRUE
  /\ UNCHANGED <<j, lines, inw, ls, starts, out>>

FirstLines ==
  /\ tool = "HEAD" /\ More /\ lines < FewLines /\ Step
  /\ out' = Append(out, At(j))
  /\ lines' = lines + (IF At(j) = "nl" THEN 1 ELSE 0)
  /\ UNCHANGED <<words, inw, ls, starts, done>>

(* TAIL counts the line ends; in a second round it prints what is behind    *)
(* all of them but the last few.  words is skip there.                      *)
TailCount ==
  /\ tool = "TAIL" /\ More /\ Step
  /\ lines' = lines + (IF At(j) = "nl" THEN 1 ELSE 0)
  /\ UNCHANGED <<words, inw, ls, starts, out, done>>
TailSkip ==
  /\ tool = "TAIL" /\ ~More
  /\ tool' = "TAIL2" /\ j' = 0 /\ lines' = 0
  /\ words' = IF lines > FewLines THEN lines - FewLines ELSE 0
  /\ UNCHANGED <<text, other, inw, ls, starts, numbers, out, done, table>>
Tail2 ==
  /\ tool = "TAIL2" /\ More /\ Step
  /\ out' = IF lines >= words THEN Append(out, At(j)) ELSE out
  /\ lines' = lines + (IF At(j) = "nl" THEN 1 ELSE 0)
  /\ UNCHANGED <<words, inw, ls, starts, done>>

(* GREP prints a line at its end, once, when the pattern is somewhere in it.*)
Holds(s, p) == \E k \in 0..Len(s) : k + Len(p) <= Len(s) /\ SubSeq(s, k + 1, k + Len(p)) = p
Grep ==
  /\ tool = "GREP" /\ ~done /\ j <= Len(text) /\ text # <<>> /\ Step
  /\ IF j = Len(text) \/ At(j) = "nl"
     THEN LET line == SubSeq(text, ls + 1, j) IN
          /\ out' = IF Holds(line, other) THEN out \o line \o <<"nl">> ELSE out
          /\ ls' = j + 1
     ELSE UNCHANGED <<out, ls>>
  /\ UNCHANGED <<lines, words, inw, starts, done>>

Nl ==
  /\ tool = "NL" /\ More /\ Step
  /\ LET next == At(j) = "nl" /\ j + 1 < Len(text) IN
     /\ lines' = lines + (IF next THEN 1 ELSE 0)
     /\ out' = Append(out, At(j)) \o (IF next THEN <<lines'>> ELSE <<>>)
  /\ UNCHANGED <<words, inw, ls, starts, done>>

(* TAC collects where lines start, then prints them from the last.          *)
TacScan ==
  /\ tool = "TAC" /\ More /\ Step
  /\ starts' = IF At(j) = "nl" /\ j + 1 < Len(text) /\ Len(starts) < MaxStarts
                 THEN Append(starts, j + 1) ELSE starts
  /\ UNCHANGED <<lines, words, inw, ls, out, done>>
TacTurn ==
  /\ tool = "TAC" /\ ~done /\ ~More /\ text # <<>>
  /\ tool' = "TAC2" /\ ls' = Len(starts)
  /\ UNCHANGED <<text, other, j, lines, words, inw, starts, numbers, out, done, table>>
Tac2 ==
  /\ tool = "TAC2" /\ ls > 0 /\ ls' = ls - 1
  /\ LET e == IF ls < Len(starts) THEN starts[ls + 1] ELSE Len(text)
     IN out' = out \o SubSeq(text, starts[ls] + 1, e)
                 \o (IF At(e - 1) # "nl" THEN <<"nl">> ELSE <<>>)
  /\ UNCHANGED <<j, lines, words, inw, starts, done>>

(* SORT and UNIQ print the file as it is ("simulated").                     *)
Sort ==
  /\ tool = "SORT" /\ More
  /\ j' = Len(text)
  /\ out' = text \o (IF At(Len(text) - 1) # "nl" THEN <<"nl">> ELSE <<>>)
  /\ UNCHANGED <<lines, words, inw, ls, starts, done>>

(* DIFF looks at the sizes first; lines counts the answer "differ".         *)
Diff ==
  /\ tool = "DIFF" /\ More /\ lines = 0
  /\ IF Len(text) # Len(other) \/ At(j) # other[j + 1]
     THEN lines' = 1 /\ j' = Len(text) ELSE Step /\ UNCHANGED lines
  /\ UNCHANGED <<words, inw, ls, starts, out, done>>
DiffEmpty ==
  /\ tool = "DIFF" /\ text = <<>> /\ other # <<>> /\ lines = 0 /\ lines' = 1
  /\ UNCHANGED <<j, words, inw, ls, starts, out, done>>

Scan ==
  /\ \/ Wc \/ WcEnd \/ FirstLines \/ TailCount \/ Tail2 \/ Grep \/ Nl \/ TacScan \/ Tac2
     \/ Sort \/ Diff \/ DiffEmpty
  /\ UNCHANGED <<job, numbers, table>>

Done ==
  /\ ~done
  /\ \/ tool \in {"NL", "SORT", "TAIL2"} /\ ~More
     \/ tool = "HEAD" /\ (~More \/ lines = FewLines)
     \/ tool = "GREP" /\ (text = <<>> \/ j = Len(text) + 1)
     \/ tool = "TAC" /\ text = <<>>
     \/ tool = "TAC2" /\ ls = 0
     \/ tool = "DIFF" /\ ~More /\ (text = <<>> /\ other # <<>> => lines = 1)
  /\ Finished

(* cmd_factor: the square of the divisor wraps. *)
Wrapped(x) == x % 2 ^ Width
Factor ==
  /\ tool = "FACTOR" /\ ~done
  /\ \/ Wrapped(d * d) <= orig /\ n > 1 /\ n % d = 0
        /\ out' = Append(out, d) /\ n' = n \div d /\ UNCHANGED <<d, done>>
     \/ Wrapped(d * d) <= orig /\ n > 1 /\ n % d # 0
        /\ d' = Wrapped(d + 1) /\ UNCHANGED <<out, n, done>>
     \/ (Wrapped(d * d) > orig \/ n <= 1)
        /\ out' = (IF n > 1 THEN Append(out, n) ELSE out)
        /\ done' = TRUE /\ UNCHANGED <<n, d>>
  /\ UNCHANGED <<job, scan, table, orig>>

-----------------------------------------------------------------------------
(* EXPORT and ALIAS look for the name as it was typed and store it cut;     *)
(* a full table drops the setting without a word.                           *)
Stored(k) == IF k \in Long THEN CutName ELSE k
Where(k) == {i \in 1..Len(entries) : entries[i].key = k}

Export(k, v) ==
  LET new == [key |-> Stored(k), val |-> v] IN
  /\ CASE Where(k) # {} -> entries' = [entries EXCEPT ![Min(Where(k))] = new]
       [] Where(k) = {} /\ Len(entries) < MaxEntries -> entries' = Append(entries, new)
       [] OTHER -> UNCHANGED entries
  /\ meant' = IF k \in Plain /\ (Where(k) # {} \/ Len(entries) < MaxEntries)
              THEN [meant EXCEPT ![k] = v] ELSE meant

(* UNSET and UNALIAS read the name cut; the entries behind it move down.    *)
Unset(k) ==
  LET found == Where(Stored(k)) IN
  /\ entries' = IF found = {} THEN entries ELSE RemoveAt(entries, Min(found))
  /\ meant' = IF k \in Plain THEN [meant EXCEPT ![k] = ""] ELSE meant

Settings ==
  /\ tool \in {"none", "SET"} /\ tool' = "SET"
  /\ settings < MaxSettings /\ settings' = settings + 1
  /\ \E k \in Settable : Unset(k) \/ \E v \in Contents : Export(k, v)
  /\ UNCHANGED <<text, other, scan, numbers, out, done>>

Next == Start \/ Scan \/ TailSkip \/ TacTurn \/ Done \/ Factor \/ Settings

Spec == Init /\ [][Next]_vars

-----------------------------------------------------------------------------
(* Reference definitions: a text as its lines, the last of which may lack   *)
(* its line end.                                                            *)
LineEnds(s) == {i \in 1..Len(s) : s[i] = "nl"}
Marks(s) == LineEnds(s) \cup {0} \cup (IF s # <<>> /\ s[Len(s)] # "nl" THEN {Len(s)} ELSE {})
LinesOf(s) ==
  LET ends == SetToSortSeq(Marks(s), <)
  IN [i \in 1..Len(ends) - 1 |-> SubSeq(s, ends[i] + 1, ends[i + 1])]
Whole(line) == IF line[Len(line)] = "nl" THEN line ELSE Append(line, "nl")
Bare(line) == SelectSeq(line, LAMBDA c : c # "nl")
Letters(s) == {i \in 1..Len(s) : s[i] \notin {" ", "nl"}}

(* What the commands print is what their names promise: WC counts the words *)
(* and line ends; HEAD prints the first lines; TAIL the last, and one more  *)
(* if the last is not ended; GREP each line with the pattern once (an empty *)
(* one behind the last line end is no match); NL numbers the lines in       *)
(* order; TAC turns their order round as long as it can keep the starts and *)
(* then takes the rest as one line; DIFF tells equal files; FACTOR gives    *)
(* primes with the right product, also when the square of the divisor wraps.*)
TextSound ==
  done =>
    LET all == LinesOf(text) IN
    CASE tool = "WC" ->
           /\ lines = Cardinality(LineEnds(text))
           /\ words = Cardinality({i \in Letters(text) : i + 1 \notin Letters(text)})
      [] tool = "HEAD" ->
           out = FlattenSeq(SubSeq(all, 1, IF Len(all) < FewLines THEN Len(all) ELSE FewLines))
      [] tool = "TAIL2" ->
           LET ended == Cardinality(LineEnds(text)) IN
           out = FlattenSeq(SubSeq(all, IF ended > FewLines THEN ended - FewLines + 1 ELSE 1, Len(all)))
      [] tool = "GREP" ->
           out = FlattenSeq([i \in 1..Len(all) |->
                   IF Holds(Bare(all[i]), other) THEN Whole(all[i]) ELSE <<>>])
      [] tool = "NL" -> out = FlattenSeq([i \in 1..Len(all) |-> <<i>> \o all[i]])
      [] tool = "TAC2" ->
           LET kept == IF Len(all) <= MaxStarts THEN all
                       ELSE Append(SubSeq(all, 1, MaxStarts - 1),
                                   FlattenSeq(SubSeq(all, MaxStarts, Len(all))))
           IN out = FlattenSeq([i \in 1..Len(kept) |-> Whole(kept[Len(kept) + 1 - i])])
      [] tool = "SORT" -> out = FlattenSeq([i \in 1..Len(all) |-> Whole(all[i])])
      [] tool = "DIFF" -> lines = 0 <=> text = other
      [] tool = "FACTOR" ->
           /\ FoldLeft(LAMBDA a, b : a * b, 1, out) = orig
           /\ \A i \in 1..Len(out) : \A k \in 2..(out[i] - 1) : out[i] % k # 0
      [] OTHER -> TRUE

(* A name is in the table once, with the value it was given last, whatever  *)
(* is removed before it; a name that is cut when it is stored is not found  *)
(* again and stored once more each time.                                    *)
EntriesSound ==
  \A k \in Plain :
    /\ Cardinality(Where(k)) <= 1
    /\ meant[k] = IF Where(k) = {} THEN "" ELSE entries[Min(Where(k))].val

ToolsSound == TextSound /\ EntriesSound
=============================================================================
