------------------------------ MODULE Desktop ------------------------------
(***************************************************************************)
(* The desktop of AurionOS (src/src/desktop.c, menu_bar.c): the loop that  *)
(* reads the pointer and the keys once a frame and offers them in turn to  *)
(* the menu bar, the context menu, the dock, the New Folder dialog and the *)
(* window manager.  The first that takes a press ends the frame.           *)
(*                                                                         *)
(* A frame is one step.  Its input is                                      *)
(*   at     what the pointer is on, of what the earlier handlers look at   *)
(*   left, right, keys, under   as for wm_handle_input                     *)
(* Edges of the left button are taken twice: by the loop (prevLeft), and   *)
(* by the window manager (wm.prevLeft), which does not see every frame.    *)
(***************************************************************************)
EXTENDS WindowManager

CONSTANTS
  Folders,     \* names for new folders on the desktop
  MaxKeys      \* bound: keys waiting in one frame

VARIABLES
  wm,         \* the window manager
  prevLeft, prevRight,  \* buttons in the last frame
  menu,       \* a dropdown of the menu bar is open (g_open_idx >= 0)
  ctx,        \* the context menu is open
  dialog,     \* the New Folder dialog is open (desktop_nf_open)
  table,      \* the folders of /Desktop in fs_table
  icons,      \* desktop_items: those shown
  rescan,     \* desktop_needs_rescan
  installer,  \* installer mode
  reason      \* desktop_exit_reason

ui == <<menu, ctx, dialog>>
items == <<table, icons, rescan>>
buttons == <<prevLeft, prevRight>>
vars == <<wm, buttons, ui, items, installer, reason>>

TypeOK ==
  /\ wm \in WMStates
  /\ {prevLeft, prevRight, menu, ctx, dialog, rescan, installer} \subseteq BOOLEAN
  /\ table \subseteq Folders /\ icons \subseteq Folders
  /\ reason \in {-1, 0}

(* e.at is the first of these that the pointer is on.  What is not open has *)
(* no place on the screen, and what no handler looks at is left at its      *)
(* first value.  The installer covers the screen.                           *)
Places == {"bar", "panel", "ctx", "dock", "dialog", "elsewhere"}
Inputs ==
  [at : Places, left : BOOLEAN, right : BOOLEAN, keys : 0..MaxKeys,
   under : SUBSET Shown(wm), strip : BOOLEAN]
Possible(e) ==
  /\ e.at = "panel" => menu
  /\ e.at = "ctx" => ctx /\ ~dialog
  /\ e.at = "dialog" => dialog
  /\ e.at \in {"bar", "dock"} => ~installer
  /\ e.at \in {"bar", "panel", "ctx"} => e.under = {}
  /\ e.at \in {"bar", "panel", "ctx", "dock"} => e.keys = 0
  /\ e.strip => e.at = "elsewhere" /\ e.left /\ ~e.right
  /\ installer /\ 1 \in Shown(wm) => 1 \in e.under

Running == reason < 0
Click(e) == e.left /\ ~prevLeft
RightClick(e) == e.right /\ ~prevRight
After(e) == prevLeft' = e.left /\ prevRight' = e.right

-----------------------------------------------------------------------------
(* The menu bar.  It takes every frame in which the pointer is on it, with  *)
(* a button held or not; a press elsewhere closes the dropdown and goes on. *)

(* A press on a title opens its menu, one beside the titles closes it. *)
BarFrame(e) ==
  /\ Running /\ e.at = "bar"
  /\ IF Click(e) THEN menu' \in BOOLEAN ELSE menu' = menu
  /\ After(e)
  /\ UNCHANGED <<wm, ctx, dialog, items, installer, reason>>

(* The entries for the focused window: Close Window, Full Screen, and the   *)
(* edits, of which Paste may send it keys.                                  *)
WindowEntry ==
  /\ wm.focus # None /\ wm.win[wm.focus].visible
  /\ wm' \in {Destroy(wm, wm.focus), Maximize(wm, wm.focus)} \cup Key(wm)
  /\ reason' = reason

NewWindow == wm' \in Opened(wm) /\ reason' = reason
Quit == reason' = 0 /\ wm' = wm
NoEntry == UNCHANGED <<wm, reason>>   \* a separator, or nothing to act on

PanelFrame(e) ==
  /\ Running /\ e.at = "panel"
  /\ \/ ~Click(e) /\ NoEntry /\ menu' = menu
     \/ Click(e) /\ (NewWindow \/ WindowEntry \/ Quit) /\ menu' = FALSE
     \/ Click(e) /\ NoEntry /\ menu' \in BOOLEAN
  /\ After(e)
  /\ UNCHANGED <<ctx, dialog, items, installer>>

-----------------------------------------------------------------------------
(* scan_desktop_items: once in a while, and whenever it has been asked for. *)
Scan ==
  /\ icons' \in {icons, table} /\ (rescan => icons' = table)
  /\ rescan' = FALSE

Offered(e) ==
  /\ Running /\ e.at \notin {"bar", "panel"}
  /\ menu' = (menu /\ ~Click(e))
  /\ After(e)

-----------------------------------------------------------------------------
(* ctx_handle.  The context menu takes the frame that opens it, and every   *)
(* one while it is open but for a press outside, which closes it.           *)

CtxTakes(e) ==
  /\ ~dialog
  /\ IF ctx THEN Click(e) => e.at = "ctx"
            ELSE RightClick(e) /\ Shown(wm) \cap e.under = {}

CtxFrame(e) ==
  /\ Offered(e) /\ CtxTakes(e) /\ ~(ctx /\ Click(e))
  /\ ctx' = TRUE
  /\ Scan
  /\ UNCHANGED <<wm, dialog, table, installer, reason>>

(* Refresh Desktop, one of the two settings entries, New Folder, or a press *)
(* beside the rows.                                                         *)
CtxPick(e) ==
  /\ Offered(e) /\ CtxTakes(e) /\ ctx /\ Click(e)
  /\ \/ wm' \in Opened(wm) \cup {wm} /\ dialog' = dialog
     \/ wm' = ClearFocus(wm) /\ dialog' = TRUE
  /\ ctx' = FALSE
  /\ Scan
  /\ UNCHANGED <<table, installer, reason>>

(* What follows, when the context menu lets the frame pass. *)
DialogStays(e) == dialog /\ (Click(e) => e.at = "dialog")
Passed(e) == Offered(e) /\ ~CtxTakes(e) /\ ctx' = (ctx /\ dialog)

-----------------------------------------------------------------------------
(* The dock: a press on an icon gives the focus to the first window of that *)
(* application, minimized or not, and starts it when there is none.         *)

Launched(t) ==
  LET open == {w \in Index(wm) : wm.win[w].visible /\ wm.win[w].title = t}
  IN  IF open = {} THEN Create(wm, t)
      ELSE Focus(wm, CHOOSE w \in open : \A v \in open : w <= v)

DockFrame(e) ==
  /\ Passed(e) /\ e.at = "dock"
  /\ IF Click(e) THEN \E t \in Titles : wm' = Launched(t) ELSE wm' = wm
  /\ dialog' = DialogStays(e)
  /\ Scan
  /\ UNCHANGED <<table, installer, reason>>

-----------------------------------------------------------------------------
(* The other frames: the dialog takes the keys that wait, the window        *)
(* manager the pointer, and the keys when there is no dialog.               *)

(* Enter creates the folder unless the name is taken, and asks for a rescan *)
(* in a later frame; Esc closes the dialog.                                 *)
DialogKeys(e) ==
  \/ dialog' = DialogStays(e) /\ table' = table /\ Scan
  \/ /\ DialogStays(e) /\ e.keys > 0
     /\ dialog' = FALSE
     /\ icons' \in {icons, table} /\ (rescan => icons' = table)
     /\ \/ table' = table /\ rescan' = FALSE
        \/ \E f \in Folders \ table :
             table' = table \cup {f} /\ rescan' = TRUE

(* Continue, after the installation, closes the installer window and ends   *)
(* the mode; the close button of its hidden title bar only closes it.       *)
WindowFrame(e) ==
  /\ Passed(e) /\ e.at # "dock"
  /\ DialogKeys(e)
  /\ wm' \in HandleInput(wm, IF DialogStays(e) THEN [e EXCEPT !.keys = 0] ELSE e)
  /\ \/ installer' = installer
     \/ installer /\ wm.win[1].visible /\ ~wm'.win[1].visible /\ installer' = FALSE
  /\ UNCHANGED reason

-----------------------------------------------------------------------------
(* desktop_main: on an installed system the login screen comes first, and a *)
(* program may be set to start; on another one the installer takes the      *)
(* screen.                                                                  *)
Init ==
  /\ \/ installer = FALSE /\ wm \in {Empty} \cup Opened(Empty)
     \/ installer = TRUE /\ \E t \in Titles : wm = Create(Empty, t)
  /\ prevLeft = FALSE /\ prevRight = FALSE
  /\ menu = FALSE /\ ctx = FALSE /\ dialog = FALSE
  /\ table = {} /\ icons = {} /\ rescan = FALSE
  /\ reason = -1

Frame(e) ==
  \/ BarFrame(e) \/ PanelFrame(e) \/ CtxFrame(e) \/ CtxPick(e)
  \/ DockFrame(e) \/ WindowFrame(e)

Ended == ~Running /\ UNCHANGED vars

Next == (\E e \in Inputs : Possible(e) /\ Frame(e)) \/ Ended

Spec == Init /\ [][Next]_vars

-----------------------------------------------------------------------------
(* wm_draw_all draws the window of each rank (at_z): however windows are    *)
(* created, clicked, minimized and closed, no two ever share a rank, so     *)
(* that none vanishes behind another with its number.                       *)
EveryWindowDrawn == RanksDiffer(wm)

(* One window has the keyboard: it has not been closed, it is the front one,*)
(* and it is the only one on the screen that is drawn as focused, although  *)
(* a window that is minimized or closed keeps its flag.                     *)
FocusAsDrawn == FocusInFront(wm) /\ FlagMeansFocus(wm)
=============================================================================
