------------------------------ MODULE Explorer ------------------------------
(***************************************************************************)
(* The file explorer (src/gui_apps.c): a list of what a directory holds,   *)
(* a way back, and the selection.  The file system changes beside it.      *)
(* Names have up to 31 characters: longer ones are cut in the list.        *)
(***************************************************************************)
EXTENDS Integers, Sequences, FiniteSets

CONSTANTS
  Dirs, Files,   \* names, as numbers: their order is that of the numbers
  MaxBack,       \* FILEBROW_BACK_MAX
  MaxEntries,    \* FILEBROW_MAX_ENTRIES
  Visible,       \* rows that are shown
  AtFirst        \* the table when the explorer is opened

VARIABLES
  table,         \* fs_table: the paths that exist
  drawn,         \* fs_count when the window was last drawn
  path,          \* the directory shown, a sequence of names
  back,          \* back_stack
  entries,       \* the names listed
  selected, scroll,
  last           \* fb_last_click_idx while the next click is a double one

vars == <<table, drawn, path, back, entries, selected, scroll, last>>

Listable == Dirs \cup Files
None == -1
Paths == AtFirst \cup {<<>>}
Parent(p) == SubSeq(p, 1, Len(p) - 1)

TypeOK ==
  /\ table \subseteq Paths /\ drawn \in 0..Cardinality(Paths)
  /\ path \in Paths /\ back \in Seq(Paths) /\ Len(back) <= MaxBack
  /\ entries \in Seq(Listable) /\ Len(entries) <= MaxEntries
  /\ selected \in Nat /\ scroll \in Nat /\ last \in {None} \cup Nat

-----------------------------------------------------------------------------
(* fb_scan: the first MaxEntries children, directories before files, each   *)
(* kind in the order of its names.                                          *)
Before(a, b) == IF (a \in Dirs) # (b \in Dirs) THEN a \in Dirs ELSE a < b
Sorted(S) ==
  [i \in 1..Cardinality(S) |->
     CHOOSE n \in S : Cardinality({m \in S : Before(m, n)}) = i - 1]
Children(p, t) == {n \in Listable : Append(p, n) \in t}
Listings(p, t) ==
  LET all == Children(p, t)
  IN IF Cardinality(all) <= MaxEntries THEN {Sorted(all)}
     ELSE {Sorted(S) : S \in {S \in SUBSET all : Cardinality(S) = MaxEntries}}

Scan(p) ==
  /\ path' = p
  /\ entries' \in Listings(p, table)
  /\ selected' = 0 /\ scroll' = 0

(* app_filebrowser_create, in the current directory; fb_last_click_idx      *)
(* outlives the window.                                                     *)
Init ==
  /\ table = AtFirst /\ drawn = Cardinality(AtFirst)
  /\ path \in {p \in AtFirst \cup {<<>>} : p = <<>> \/ p[Len(p)] \in Dirs}
  /\ back = <<>>
  /\ entries \in Listings(path, AtFirst)
  /\ selected = 0 /\ scroll = 0 /\ last = None

-----------------------------------------------------------------------------
(* fb_hist_push *)
Push(p) == IF Len(back) < MaxBack THEN Append(back, p) ELSE Append(Tail(back), p)

(* fb_open_entry: a directory is entered, a file is opened in Notepad.  A   *)
(* path is never too long: the table's names have 55 characters.            *)
Open(i, top) ==
  IF i < Len(entries) /\ entries[i + 1] \in Dirs
  THEN /\ back' = Push(path)
       /\ Scan(Append(path, entries[i + 1]))
  ELSE /\ selected' = i /\ scroll' = top
       /\ UNCHANGED <<path, back, entries>>

(* fb_hist_back *)
Back ==
  /\ IF back = <<>> THEN UNCHANGED <<path, back, entries, selected, scroll>>
     ELSE Scan(back[Len(back)]) /\ back' = SubSeq(back, 1, Len(back) - 1)
  /\ UNCHANGED <<table, drawn, last>>

(* The button and the row ".." forget the click; Backspace does not.        *)
Up(l) ==
  /\ path # <<>>
  /\ Scan(Parent(path)) /\ back' = <<>> /\ last' = l
  /\ UNCHANGED <<table, drawn>>

Refresh == Scan(path) /\ UNCHANGED <<table, drawn, back, last>>

(* filebrow_on_mouse: a row *)
Click(i) ==
  /\ scroll <= i /\ i < Len(entries)
  /\ IF i = last THEN Open(i, scroll) /\ last' = None
     ELSE /\ selected' = i /\ last' = i
          /\ UNCHANGED <<path, back, entries, scroll>>
  /\ UNCHANGED <<table, drawn>>
Late == last' = None /\ UNCHANGED <<table, drawn, path, back, entries, selected, scroll>>

(* filebrow_on_key: the row selected is brought into view.                  *)
InView(i) == IF i < scroll THEN i
             ELSE IF i >= scroll + Visible THEN i - Visible + 1
             ELSE scroll
Chosen(i) ==
  /\ selected' = i /\ scroll' = InView(i)
  /\ UNCHANGED <<table, drawn, path, back, entries, last>>
Kept(i) == IF i < 0 THEN 0 ELSE i
Arrow ==
  \/ Chosen(IF selected > 0 THEN selected - 1 ELSE selected)
  \/ Chosen(IF selected < Len(entries) - 1 THEN selected + 1 ELSE selected)
Page ==
  \/ Chosen(Kept(selected - 10))
  \/ Chosen(Kept(IF selected + 10 >= Len(entries) THEN Len(entries) - 1 ELSE selected + 10))
Enter == Open(selected, InView(selected)) /\ UNCHANGED <<table, drawn, last>>

(* filebrow_on_draw: a table of another size is read again.                 *)
Draw ==
  /\ drawn # Cardinality(table) /\ drawn' = Cardinality(table)
  /\ Scan(path) /\ UNCHANGED <<table, back, last>>

(* A command in a terminal makes or removes something.                      *)
Shell ==
  /\ \E p \in AtFirst :
       /\ IF p \in table THEN /\ \A q \in table : q = <<>> \/ Parent(q) # p
                              /\ table' = table \ {p}
          ELSE /\ Len(p) = 1 \/ Parent(p) \in table
               /\ table' = table \cup {p}
  /\ UNCHANGED <<drawn, path, back, entries, selected, scroll, last>>

Next ==
  \/ \E i \in 0..MaxEntries - 1 : Click(i)
  \/ \E l \in {None, last} : Up(l)
  \/ Back \/ Refresh \/ Late \/ Arrow \/ Page \/ Enter \/ Draw \/ Shell

Spec == Init /\ [][Next]_vars

-----------------------------------------------------------------------------
(* The row selected is one of the rows and not above the first one shown.   *)
(* Back leads up: each directory on the way back holds the next, and the    *)
(* last of them the one shown.                                              *)
Leads(p, q) == q # <<>> /\ Parent(q) = p
WaySound ==
  /\ selected < Len(entries) \/ selected = 0
  /\ scroll <= selected \/ entries = <<>>
  /\ \A i \in 1..Len(back) - 1 : Leads(back[i], back[i + 1])
  /\ back # <<>> => Leads(back[Len(back)], path)
=============================================================================
