------------------------------ MODULE Browser ------------------------------
(***************************************************************************)
(* The Blaze browser (src/Blaze/blaze_core.c, blaze_app.c, blaze_net.c):   *)
(* one global state for every browser window, in it the tabs with their    *)
(* address, the block that holds their text and the nodes made of it, the  *)
(* history, the bookmarks and the address bar.                             *)
(*                                                                         *)
(* What a page shows is the address it was made of; scroll positions,      *)
(* titles and the console are left out.  Nothing else runs while a page is   *)
(* fetched, but the fetch itself is a sequence of requests.                *)
(***************************************************************************)
EXTENDS Naturals, Sequences, FiniteSets

CONSTANTS
  Sites,        \* remote addresses, by their scheme
  MaxTabs, MaxHistory, MaxBookmarks,   \* BLAZE_MAX_*
  MaxDepth,     \* redirections followed: 8
  Blocks,       \* what the heap has to offer
  MaxLost       \* bound: blocks lost to answers without a page

VARIABLES
  windows,      \* browser windows on the screen
  tab,          \* the slots: address, block (0 if none), slot of its document
  nodes,        \* per slot, the address the nodes in it were made of
  count, active,
  history, pos,
  marks, disk,  \* how many bookmarks, and how many in /System/bookmarks.txt
  bar,          \* address_bar_focused
  request,      \* the request a page waits for
  heap,         \* blocks in use
  lost,         \* those of answers that were dropped
  shared,       \* a second window has been opened on the same state
  shifted       \* a tab has moved down over a closed one

vars == <<windows, tab, nodes, count, active, history, pos, marks, disk, bar,
          request, heap, lost, shared, shifted>>

TabSlots == 1..MaxTabs
Home == "home"
Remote == {"http", "https"}
Addresses == {Home} \cup Sites
Blank == "blank"
Idle == [scheme |-> "none", depth |-> 0, last |-> FALSE]

TypeOK ==
  /\ windows \in 0..2
  /\ tab \in [TabSlots -> [url : Addresses \cup {Blank}, block : Blocks \cup {0}, doc : TabSlots]]
  /\ nodes \in [TabSlots -> Addresses \cup {Blank}]
  /\ count \in 1..MaxTabs /\ active \in 1..count
  /\ Len(history) <= MaxHistory /\ pos \in 0..Len(history)
  /\ marks \in 0..MaxBookmarks /\ disk \in 0..MaxBookmarks
  /\ bar \in BOOLEAN
  /\ request \in [scheme : Remote \cup {"none"}, depth : 0..MaxDepth, last : BOOLEAN]
  /\ lost \subseteq Blocks /\ heap \subseteq Blocks

Fresh == [url |-> Home, block |-> 0, doc |-> 1]

Init ==
  /\ windows = 0
  /\ tab = [s \in TabSlots |-> Fresh] /\ nodes = [s \in TabSlots |-> Blank]
  /\ count = 1 /\ active = 1
  /\ history = <<>> /\ pos = 0 /\ marks = 0 /\ disk = 0
  /\ bar = FALSE /\ request = Idle
  /\ heap = {} /\ lost = {} /\ shared = FALSE /\ shifted = FALSE

view == <<windows, disk, shared>>
input == <<marks, bar>>
(* kmalloc takes the first hole. *)
Lowest(S) == {b \in S : \A c \in S : b <= c}

-----------------------------------------------------------------------------
(* Pages. *)

(* blaze_canonicalize_user_url: nothing, or only a scheme, means home; what *)
(* looks like a host is fetched by HTTP.                                    *)
Canonical(a) == CASE a \in {"", Blank} -> Home [] a = "host" -> "http" [] OTHER -> a

(* The tab in slot s of t holds the block b, and its document is its own.   *)
Holding(t, s, b) == [t EXCEPT ![s] = [url |-> @.url, block |-> b, doc |-> s]]

(* The page of the tab t is made of a text in a new block, or there is no   *)
(* memory for the text.                                                     *)
Show(t, s, a, used) ==
  /\ \/ \E b \in Lowest(Blocks \ used) :
          /\ tab' = Holding(t, s, b)
          /\ heap' = used \cup {b}
          /\ nodes' = [nodes EXCEPT ![s] = a]
     \/ /\ tab' = t /\ heap' = used /\ UNCHANGED nodes
  /\ request' = Idle

(* blaze_navigate: the old text is given back first.  A local file, the     *)
(* error page and the page made up for a missing index.html are there at    *)
(* once; a remote one is waited for.                                        *)
NavigateIn(t, s, a, list, at, used) ==
  LET old == t[s].block
      here == [t EXCEPT ![s] = [url |-> a, block |-> 0, doc |-> @.doc]]
  IN /\ IF Len(list) < MaxHistory
          THEN history' = Append(list, a) /\ pos' = Len(list) + 1
          ELSE history' = list /\ pos' = at
     /\ IF a \in Sites
          THEN /\ request' = [scheme |-> a, depth |-> 0, last |-> FALSE]
               /\ tab' = here /\ heap' = used \ {old}
               /\ UNCHANGED nodes
          ELSE Show(here, s, a, used \ {old})

Navigate(a, at) == NavigateIn(tab, active, Canonical(a), history, at, heap)

(* What two windows do to one state is not followed. *)
Ready == windows > 0 /\ request = Idle /\ ~shared

(* blaze_go_back, blaze_go_forward: the page is visited anew. *)
GoBack ==
  /\ Ready /\ pos > 1
  /\ Navigate(history[pos - 1], pos - 1)
  /\ UNCHANGED <<count, active, input, view, lost, shifted>>
GoForward ==
  /\ Ready /\ pos < Len(history)
  /\ Navigate(history[pos + 1], pos + 1)
  /\ UNCHANGED <<count, active, input, view, lost, shifted>>

(* blaze_reload and a click on a link *)
Reload ==
  /\ Ready /\ Navigate(tab[active].url, pos)
  /\ UNCHANGED <<count, active, input, view, lost, shifted>>
Link ==
  /\ Ready /\ nodes[active] # Blank
  /\ \E a \in Addresses : Navigate(a, pos)
  /\ UNCHANGED <<count, active, input, view, lost, shifted>>

-----------------------------------------------------------------------------
(* blaze_fetch_recursive: one request of it is answered. *)

Waiting == request # Idle
Failed == Show(tab, active, tab[active].url, heap)

Ask(scheme, depth, last) ==
  IF depth > MaxDepth THEN Failed
  ELSE /\ request' = [scheme |-> scheme, depth |-> depth, last |-> last]
       /\ UNCHANGED <<tab, nodes, heap>>

(* network_https_fetch; when it fails the same page is asked for by HTTP,   *)
(* unless it was HTTP that had failed before.                               *)
HttpsAnswer ==
  /\ Waiting /\ request.scheme = "https"
  /\ \/ \E b \in Lowest(Blocks \ heap) :
          /\ tab' = Holding(tab, active, b)
          /\ heap' = heap \cup {b}
          /\ nodes' = [nodes EXCEPT ![active] = tab[active].url]
          /\ request' = Idle
     \/ IF request.last THEN Failed ELSE Ask("http", request.depth + 1, FALSE)
  /\ UNCHANGED <<count, active, history, pos, input, view, lost, shifted>>

(* http_get_simple: a page; another answer of success, whose body nobody    *)
(* takes; a redirection; a refusal; no answer.                              *)
HttpAnswer ==
  /\ Waiting /\ request.scheme = "http"
  /\ \/ \E b \in Lowest(Blocks \ heap) :
          /\ tab' = Holding(tab, active, b)
          /\ heap' = heap \cup {b}
          /\ nodes' = [nodes EXCEPT ![active] = tab[active].url]
          /\ request' = Idle
          /\ UNCHANGED lost
     \/ /\ Cardinality(lost) < MaxLost
        /\ \E b \in Lowest(Blocks \ heap) :
             /\ lost' = lost \cup {b}
             /\ Show(tab, active, tab[active].url, heap \cup {b})
     \/ \E scheme \in Remote : Ask(scheme, request.depth + 1, FALSE) /\ UNCHANGED lost
     \/ Failed /\ UNCHANGED lost
     \/ Ask("https", request.depth, TRUE) /\ UNCHANGED lost
  /\ UNCHANGED <<count, active, history, pos, input, view, shifted>>

-----------------------------------------------------------------------------
(* Tabs. *)

(* blaze_new_tab: the nodes in the slot stay as they are. *)
NewTab(t) == [t EXCEPT ![count + 1] = [url |-> Blank, block |-> 0, doc |-> count + 1]]

(* Ctrl+T shows the tab as it is, the button loads the first page. *)
KeyNewTab ==
  /\ Ready /\ ~bar /\ count < MaxTabs
  /\ tab' = NewTab(tab)
  /\ count' = count + 1 /\ active' = count + 1
  /\ UNCHANGED <<nodes, history, pos, input, request, heap, view, lost, shifted>>
ButtonNewTab ==
  /\ Ready /\ count < MaxTabs
  /\ count' = count + 1 /\ active' = count + 1
  /\ NavigateIn(NewTab(tab), count + 1, Home, history, pos, heap)
  /\ UNCHANGED <<input, view, lost, shifted>>

(* blaze_close_tab: the slots above are copied down, with their nodes, but  *)
(* their documents still point at where they were.                          *)
CloseTab(s) ==
  /\ Ready /\ s <= count /\ count > 1
  /\ heap' = heap \ {tab[s].block}
  /\ tab' = [i \in TabSlots |-> IF i >= s /\ i < count THEN tab[i + 1] ELSE tab[i]]
  /\ nodes' = [i \in TabSlots |-> IF i >= s /\ i < count THEN nodes[i + 1] ELSE nodes[i]]
  /\ count' = count - 1
  /\ active' = IF active > count - 1 THEN count - 1 ELSE active
  /\ shifted' = (shifted \/ s < count)
  /\ UNCHANGED <<history, pos, input, request, view, lost>>

SelectTab(s) ==
  /\ Ready /\ s <= count /\ active' = s
  /\ UNCHANGED <<tab, nodes, count, history, pos, input, request, heap, view, lost, shifted>>

-----------------------------------------------------------------------------
(* The address bar and bookmarks. *)

(* blaze_handle_key: Ctrl+L or a click, then typing, Esc or Enter.                *)
FocusBar ==
  /\ Ready /\ bar' = TRUE
  /\ UNCHANGED <<tab, nodes, count, active, history, pos, marks, request, heap, view, lost, shifted>>
LeaveBar ==
  /\ Ready /\ bar /\ bar' = FALSE
  /\ UNCHANGED <<tab, nodes, count, active, history, pos, marks, request, heap, view, lost, shifted>>
EnterBar ==
  /\ Ready /\ bar /\ bar' = FALSE
  /\ \E a \in Addresses \cup {"", "host"} : Navigate(a, pos)
  /\ UNCHANGED <<count, active, marks, view, lost, shifted>>

(* blaze_add_bookmark writes all of them; nobody asks whether it worked. *)
AddBookmark ==
  /\ Ready /\ marks < MaxBookmarks
  /\ marks' = marks + 1
  /\ disk' \in {marks', disk}
  /\ UNCHANGED <<windows, tab, nodes, count, active, history, pos, bar,
                 request, heap, lost, shared, shifted>>

-----------------------------------------------------------------------------
(* Windows. *)

(* app_blaze_create: blaze_init, blaze_load_bookmarks, the first page. *)
Create ==
  /\ windows < 2 /\ ~shared /\ request = Idle
  /\ windows' = windows + 1 /\ shared' = (shared \/ windows > 0)
  /\ count' = 1 /\ active' = 1
  /\ marks' = disk /\ bar' = FALSE
  /\ \/ \E b \in Lowest(Blocks \ heap) :
          /\ tab' = [s \in TabSlots |-> IF s = 1 THEN [url |-> Home, block |-> b, doc |-> 1] ELSE Fresh]
          /\ nodes' = [s \in TabSlots |-> IF s = 1 THEN Home ELSE Blank]
          /\ heap' = heap \cup {b}
     \/ /\ tab' = [s \in TabSlots |-> Fresh] /\ nodes' = [s \in TabSlots |-> Blank]
        /\ UNCHANGED heap
  /\ history' = <<Home>> /\ pos' = 1 /\ shifted' = FALSE
  /\ UNCHANGED <<disk, request, lost>>

(* blaze_on_close: what the tabs hold is given back and stays noted. *)
Close ==
  /\ Ready
  /\ windows' = windows - 1
  /\ heap' = heap \ {tab[s].block : s \in 1..count}
  /\ UNCHANGED <<tab, nodes, count, active, history, pos, marks, disk, bar,
                 request, lost, shared, shifted>>

Next ==
  \/ GoBack \/ GoForward \/ Reload \/ Link
  \/ HttpsAnswer \/ HttpAnswer
  \/ KeyNewTab \/ ButtonNewTab
  \/ \E s \in TabSlots : CloseTab(s) \/ SelectTab(s)
  \/ FocusBar \/ LeaveBar \/ EnterBar \/ AddBookmark
  \/ Create \/ Close

Spec == Init /\ [][Next]_vars

-----------------------------------------------------------------------------
(* As long as there is one browser window: the blocks in use are those of   *)
(* its tabs, one each, and those of the answers nobody took; and, unless a  *)
(* tab has moved, a tab that has a text shows the page of its address.      *)
Held == IF windows = 0 THEN {} ELSE {tab[s].block : s \in 1..count} \ {0}
ContentOwned ==
  ~shared =>
    /\ heap = Held \cup lost /\ Held \cap lost = {}
    /\ windows = 1 =>
         \A s \in 1..count : tab[s].block # 0 =>
           /\ \A r \in 1..count : r # s => tab[r].block # tab[s].block
           /\ ~shifted => nodes[tab[s].doc] = tab[s].url
=============================================================================
