----------------------------- MODULE SessionMC -----------------------------
(***************************************************************************)
(* A small instance of what the user sits at, and the programs of the      *)
(* Python interpreter as one more part.                                    *)
(***************************************************************************)
EXTENDS Session

CONSTANTS MaxVars, MaxGuard, MaxEscapes   \* of Python

VARIABLES program, pyLines, pyNames, pyCalls, pyOut, value, escapes

pyVars == <<program, pyLines, pyNames, pyCalls, pyOut, value, escapes>>

(* Two passwords with one hash; and a machine that has just been switched   *)
(* on, or whose tick counter is about to wrap.                              *)
Hashes == [w \in Words |-> IF w = "x" THEN "root" ELSE w]
TwoStarts == {0, TickWords - 2}

(* Where food is laid; the directories 1, 1/1 and 2 and the file 3.         *)
ThreeFoods == {<<0, 0>>, <<3, 2>>, <<1, 1>>}
FivePlaces == {<<1>>, <<1, 1>>, <<2>>, <<3>>, <<1, 1, 1>>}

(* A Makefile whose rules are built through others; one whose rules have no *)
(* dependencies; and one that has two rules for a target.                   *)
Text(x) == [var |-> "", text |-> x]
Macro(x) == [var |-> x, text |-> x]
Rule(t, d) == [kind |-> "rule", name |-> t, deps |-> d]
Line(x) == [kind |-> "command", what |-> x]
Set(x, v) == [kind |-> "variable", name |-> x, what |-> v]
FourMakefiles ==
  {<<>>,
   <<Set("x", Text("cc")), Rule("a", <<Text("b"), Text("c")>>), Line(Macro("x")),
     Line(Text("ld")), Rule("b", <<Text("d")>>), [kind |-> "comment"], Line(Text("cc")),
     Rule("d", <<Text("nofile")>>), Line(Text("cp")), Rule("c", <<Text("d")>>)>>,
   <<Rule("a", <<>>), Line(Text("b")), Rule("b", <<>>), Line(Text("cc")),
     [kind |-> "other"], Line(Text("none"))>>,
   <<Rule("b", <<Text("a")>>), Line(Text("cc")), Set("x", Macro("y")), Line(Text("cc")),
     Rule("a", <<>>), Line(Text("ld")), Rule("b", <<>>), Line(Text("rm"))>>}

(* What commands print, and where in the terminal the mouse is.             *)
TwoPrints == {<<>>, <<"o", "\t", "\n">>}
TwoPoints == {<<0, 1>>, <<1, 2>>}

(* Texts of up to three characters, one of three lines, and what is looked  *)
(* for in them; and names of variables, one too long to be stored whole.    *)
ShortTexts == UNION {[1..k -> {"a", " ", "nl"}] : k \in 0..3} \cup {<<"a", "nl", "a", "nl", "a">>}
ThreePatterns == {<<"a">>, <<"a", "a">>, <<"a", " ">>}
ThreeNames == {"k", "cut", "long"}
LongNames == {"long"}
TwoContents == {"1", "2"}

(* Loops and branches inside each other; and expressions of up to three     *)
(* operators.                                                               *)
Say(x) == [kind |-> "print", x |-> "", e |-> <<x>>]
Let(x, e) == [kind |-> "assign", x |-> x, e |-> e]
Inc == Let("x", <<"x", "+", "1">>)
Arm(c, b) == [cond |-> c, body |-> b]
IfElse(arms, b) == [kind |-> "if", arms |-> arms, other |-> b]
WhileLess(b) == [kind |-> "while", x |-> "", e |-> <<"x", "<", "2">>, body |-> b]
Repeat(k, b) == [kind |-> "for", x |-> "y", e |-> <<"0", k>>, body |-> b]
Chain == IfElse(<<Arm(<<"x", "<", "1">>, <<Say("1"), Inc>>),
                  Arm(<<"x", "==", "1">>, <<Say("2"), Inc>>)>>,
                <<Say("3"), Let("x", <<"0">>)>>)
Either(b, c) == IfElse(<<Arm(<<"not", "x">>, b)>>, c)
Inner ==
  {<<Inc>>, <<Inc, Say("x")>>, <<Chain>>, <<Either(<<Inc>>, <<Say("x"), Inc>>)>>,
   <<IfElse(<<Arm(<<"x">>, <<Say("y")>>)>>, <<>>), Inc>>, <<Say("y")>>}
Programs ==
  {<<Let("x", <<v>>), s, Say("x")>> :
     v \in {"0", "1"},
     s \in UNION {{WhileLess(b), Repeat("2", b), Repeat("x", b), Either(b, <<Repeat("2", b)>>)} :
                  b \in Inner}}
  \cup {<<Repeat("2", <<WhileLess(b), Say("y")>>)>> : b \in Inner}
  \cup {<<Chain, Chain, Chain>>}
Signs == {"+", "-", "*", "/", "%", "<", "==", "and", "or"}
Pairs == {<<a, o, c>> : a, c \in {"2", "x"}, o \in Signs}
Expressions ==
  Pairs \cup {t \o <<o, a>> : t \in Pairs, o \in Signs, a \in {"3", "x"}}
  \cup {<<"not">> \o t : t \in Pairs} \cup {t \o <<"and", "not", "x">> : t \in Pairs}

Script == INSTANCE Python
            WITH lines <- pyLines, names <- pyNames, calls <- pyCalls, out <- pyOut,
                 keys <- escapes, MaxKeys <- MaxEscapes

(* What a program that is not run starts with does not matter.              *)
AllInit ==
  /\ part \in Parts \cup {"python"} /\ Starting /\ Script!Init
  /\ part # "desktop" => ~installer /\ wm = Empty
  /\ part # "accounts" => start = 0
  /\ part # "notepad" => file = 0 /\ ~named /\ clip = 0
  /\ part # "paint" => color = CHOOSE c \in Colors : TRUE
  /\ part # "snake" => food = <<0, 0>>
  /\ part # "explorer" => path = <<2>>

PythonNext == Of("python") /\ Script!Next /\ UNCHANGED <<vars, programs, others>>

AllNext == (SessionNext /\ UNCHANGED pyVars) \/ PythonNext

AllSpec == AllInit /\ [][AllNext]_<<all, pyVars>> /\ WF_keyVars(Terminal)

(* The type of the part that runs; the others stay as they start. *)
SessionTypeOK ==
  CASE part = "desktop" -> TypeOK [] part = "keyboard" -> Typing!TypeOK
    [] part = "accounts" -> Who!TypeOK [] part = "renderer" -> GL!TypeOK
    [] part = "browser" -> Web!TypeOK [] part = "document" -> Page!TypeOK
    [] part = "notepad" -> Pad!TypeOK [] part = "paint" -> Art!TypeOK
    [] part = "snake" -> Game!TypeOK [] part = "explorer" -> Dir!TypeOK
    [] part = "make" -> Build!TypeOK [] part = "calculator" -> Calc!TypeOK
    [] part = "terminal" -> Shell!TypeOK [] part = "tools" -> Tools!TypeOK
    [] part = "python" -> Script!TypeOK

=============================================================================
