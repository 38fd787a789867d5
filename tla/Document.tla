------------------------------ MODULE Document ------------------------------
(***************************************************************************)
(* The tree a page becomes (blaze_parse_html in src/Blaze/blaze_html.c):   *)
(* the text is read token by token, with a stack of open elements and the  *)
(* numbering of nested lists.                                              *)
(*                                                                         *)
(* Which token comes next is the author's choice.  Nodes are numbered as   *)
(* they are taken from the tab's table; of a node the tag, the parent and  *)
(* the item number are kept.  Attributes, styles and the spaces of <pre>   *)
(* are left out, and so are <title>, <style> and <script>, which leave the *)
(* tree alone.                                                             *)
(***************************************************************************)
EXTENDS Naturals, Sequences, FiniteSets

CONSTANTS
  Tags,       \* tags of the page besides "head"
  MaxNodes,   \* BLAZE_MAX_DOM_NODES
  MaxOpen,    \* elements on the parser stack: 63
  MaxLists    \* nested lists: 15

VARIABLES
  node,       \* tab->nodes
  stack,      \* open elements
  counter, lists,   \* list_counter, list_depth
  closing,    \* the elements that were open and are not any more
  tidy        \* every tag so far was closed in its turn, items are in lists

vars == <<node, stack, counter, lists, closing, tidy>>

Lists == {"ul", "ol", "menu", "dir"}
Void == {"img", "br", "hr"}
Elements == Tags \cup {"document", "head"}
Nodes == 1..Len(node)

TypeOK ==
  /\ Len(node) < MaxNodes
  /\ \A n \in Nodes : /\ node[n].tag \in Elements \cup {"leaf"}
                      /\ node[n].up \in 0..(n - 1)
  /\ stack \in Seq(Nodes) /\ Len(stack) <= MaxOpen
  /\ counter \in [1..MaxLists -> 0..MaxNodes] /\ lists \in 0..MaxLists
  /\ tidy \in BOOLEAN

(* blaze_parse_html, before the first token *)
Init ==
  /\ node = <<[tag |-> "document", up |-> 0, item |-> 0]>>
  /\ stack = <<1>>
  /\ counter = [l \in 1..MaxLists |-> 0] /\ lists = 0
  /\ closing = {} /\ tidy = TRUE

Top(s) == s[Len(s)]
TagOf(n) == node[n].tag
More == Len(node) < MaxNodes - 2

(* blaze_create_element and the like, blaze_append_child *)
Add(t, parent, number) ==
  node' = Append(node, [tag |-> t, up |-> parent, item |-> number])

-----------------------------------------------------------------------------
(* A text that is not blank, or a comment. *)
Leaf ==
  /\ More
  /\ Add("leaf", Top(stack), 0)
  /\ UNCHANGED <<stack, counter, lists, closing, tidy>>

Push(s, n) == IF Len(s) < MaxOpen THEN Append(s, n) ELSE s

(* <head>: nothing is closed for it. *)
HeadTag ==
  /\ More
  /\ Add("head", Top(stack), 0)
  /\ stack' = Push(stack, Len(node) + 1)
  /\ UNCHANGED <<counter, lists, closing, tidy>>

(* Closing tag: down to the nearest element of that tag, if it is open.     *)
OpenAt(t) == {i \in 2..Len(stack) : TagOf(stack[i]) = t}
Nearest(S) == CHOOSE i \in S : \A j \in S : j <= i
CloseTag(t) ==
  /\ More
  /\ lists' = IF t \in Lists /\ lists > 0 THEN lists - 1 ELSE lists
  /\ IF OpenAt(t) = {}
       THEN stack' = stack /\ tidy' = FALSE
       ELSE LET i == Nearest(OpenAt(t)) IN
            /\ stack' = SubSeq(stack, 1, i - 1)
            /\ tidy' = (tidy /\ \A j \in (i + 1)..Len(stack) : TagOf(stack[j]) \in {"li", "p"})
  /\ closing' = closing \cup {stack[j] : j \in (Len(stack') + 1)..Len(stack)}
  /\ UNCHANGED <<node, counter>>

(* tag_auto_closes *)
BlockTags == {"p", "div", "ul", "ol", "pre", "hr", "table"}
AutoCloses(t, open) ==
  \/ open = "p" /\ t \in BlockTags
  \/ open = "li" /\ t = "li"
  \/ open = "td" /\ t \in {"td", "tr"}
  \/ open = "tr" /\ t = "tr"
  \/ open = "head" /\ t = "body"

(* What is open when t has closed what it closes by itself: one element at  *)
(* most.                                                                    *)
Left(t) ==
  IF Len(stack) > 1 /\ AutoCloses(t, TagOf(Top(stack)))
    THEN SubSeq(stack, 1, Len(stack) - 1) ELSE stack

(* Opening tag: a list starts a count, an item takes the next number of the *)
(* innermost one.                                                           *)
Numbering(t) ==
  /\ lists' = IF t \in Lists /\ lists < MaxLists THEN lists + 1 ELSE lists
  /\ counter' = CASE t \in Lists /\ lists < MaxLists -> [counter EXCEPT ![lists + 1] = 0]
                  [] t = "li" /\ lists > 0 -> [counter EXCEPT ![lists] = @ + 1]
                  [] OTHER -> counter

(* Faulty variant: the parent is looked up before anything is closed. *)
HastyOpenTag(t, selfClosed) ==
  /\ More
  /\ Numbering(t)
  /\ Add(t, Top(stack), IF t = "li" /\ lists > 0 THEN counter'[lists] ELSE 0)
  /\ stack' = IF selfClosed THEN Left(t) ELSE Push(Left(t), Len(node) + 1)
  /\ closing' = closing \cup {stack[j] : j \in (Len(Left(t)) + 1)..Len(stack)}
  /\ tidy' = (tidy /\ (t = "li" <=> TagOf(Top(Left(t))) \in Lists)
                   /\ (t \in Lists => lists < MaxLists))

OpenTag(t, selfClosed) ==
  /\ More
  /\ LET open == Left(t)
         new == Len(node) + 1
     IN /\ Numbering(t)
        /\ Add(t, Top(open), IF t = "li" /\ lists > 0 THEN counter'[lists] ELSE 0)
        /\ stack' = IF selfClosed THEN open ELSE Push(open, new)
        /\ closing' = closing \cup {stack[j] : j \in (Len(open) + 1)..Len(stack)}
        /\ tidy' = /\ tidy
                   /\ t = "li" <=> TagOf(Top(open)) \in Lists
                   /\ t \in Lists => lists < MaxLists /\ ~selfClosed
                   /\ selfClosed \/ Len(open) < MaxOpen

(* A tag is closed by itself when it is void or written with a slash. *)
Open == \E t \in Tags : \/ OpenTag(t, TRUE)
                        \/ t \notin Void /\ OpenTag(t, FALSE)

Next ==
  \/ Leaf \/ HeadTag \/ Open
  \/ \E t \in Tags \cup {"head"} : CloseTag(t)

Spec == Init /\ [][Next]_vars

-----------------------------------------------------------------------------
(* The open elements are a path down from the document, so that whatever    *)
(* comes next is put into an element that is still open; an element that    *)
(* has been closed stays closed; and in a tidy page the items of each list  *)
(* are numbered from one, however lists are nested and items left unclosed. *)
ItemsOf(l) == {n \in Nodes : node[n].up = l /\ TagOf(n) = "li"}
TreeSound ==
  /\ stack[1] = 1
  /\ \A i \in 1..(Len(stack) - 1) : node[stack[i + 1]].up = stack[i]
  /\ \A i \in 1..Len(stack) : stack[i] \notin closing
  /\ tidy => \A l \in {n \in Nodes : TagOf(n) \in Lists} :
               \A n \in ItemsOf(l) :
                 node[n].item = Cardinality({m \in ItemsOf(l) : m <= n})
=============================================================================
