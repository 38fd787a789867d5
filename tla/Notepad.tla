------------------------------ MODULE Notepad ------------------------------
(***************************************************************************)
(* Notepad (src/gui_apps.c): a text with a cursor, a selection and a name, *)
(* the dialog that asks for the name, the context menu and the clipboard   *)
(* it shares with the terminal.  All characters are alike: a text is its   *)
(* length, a position an offset into it.  Scrolling is left out.           *)
(***************************************************************************)
EXTENDS Naturals

CONSTANTS
  MaxChars,   \* NOTEPAD_MAX_CHARS - 1
  MaxClip     \* OS_CLIPBOARD_CAP

VARIABLES
  len, cursor,   \* text_len, cursor_pos
  from, to,      \* sel_start, sel_end; None when nothing is selected
  clip,          \* os_clipboard_len
  named,         \* filename is not empty
  file,          \* what the file holds
  modified,
  dialog, typed, \* saveas_open; saveas_len > 0
  menu,          \* ctx_open
  saved,         \* the text last loaded or handed to the file system
  stale          \* the text has changed since it was selected

vars == <<len, cursor, from, to, clip, named, file, modified, dialog, typed,
          menu, saved, stale>>

None == MaxChars + 1
Length == 0..MaxChars

TypeOK ==
  /\ len \in Length /\ cursor \in Length /\ clip \in 0..MaxClip
  /\ from \in Length \cup {None} /\ to \in Length \cup {None}
  /\ file \in Length /\ saved \in Length
  /\ {named, modified, dialog, typed, menu, stale} \subseteq BOOLEAN

(* app_notepad_open_file, with or without a file *)
Init ==
  /\ file \in Length /\ named \in BOOLEAN
  /\ len = (IF named THEN file ELSE 0) /\ cursor = len /\ saved = len
  /\ from = None /\ to = None
  /\ clip \in {0, MaxClip}
  /\ modified = FALSE /\ dialog = FALSE /\ typed = FALSE /\ menu = FALSE
  /\ stale = FALSE

Min(a, b) == IF a < b THEN a ELSE b
Selected == from # None /\ to # None /\ to > from
selection == <<from, to>>
ask == <<dialog, typed>>
disk == <<named, file, saved>>

(* A change of the text. *)
Edit(l, c) ==
  /\ len' = l /\ cursor' = c /\ modified' = TRUE
  /\ stale' = (stale \/ from # None)

-----------------------------------------------------------------------------
(* notepad_on_key *)
Key == ~dialog
Printable ==
  /\ Key /\ len < MaxChars
  /\ Edit(len + 1, cursor + 1)
  /\ UNCHANGED <<selection, clip, disk, ask, menu>>
Backspace ==
  /\ Key /\ cursor > 0
  /\ Edit(len - 1, cursor - 1)
  /\ UNCHANGED <<selection, clip, disk, ask, menu>>
DialogKey ==
  /\ dialog
  /\ \/ typed' \in BOOLEAN /\ UNCHANGED dialog
     \/ dialog' = FALSE /\ UNCHANGED typed
  /\ UNCHANGED <<len, cursor, selection, clip, disk, modified, menu, stale>>

(* save_file_content: nobody looks at what it returns. *)
Write == saved' = len /\ file' \in {len, file} /\ modified' = FALSE

(* notepad_saveas_commit: Enter or the button. *)
SaveAs ==
  /\ dialog /\ typed
  /\ named' = TRUE /\ dialog' = FALSE
  /\ Write
  /\ UNCHANGED <<len, cursor, selection, clip, typed, menu, stale>>

-----------------------------------------------------------------------------
(* notepad_on_mouse, without the dialog *)
Click == ~dialog /\ ~menu

Save ==
  /\ Click
  /\ IF named THEN Write /\ UNCHANGED <<named, ask>>
     ELSE dialog' = TRUE /\ typed' = FALSE /\ UNCHANGED <<disk, modified>>
  /\ UNCHANGED <<len, cursor, selection, clip, menu, stale>>

(* notepad_discard: the selection stays as it was. *)
Discard ==
  /\ Click
  /\ len' = IF named THEN file ELSE 0
  /\ cursor' = len' /\ saved' = len' /\ modified' = FALSE
  /\ stale' = (stale \/ from # None)
  /\ UNCHANGED <<selection, clip, named, file, ask, menu>>

(* A click; a double click on the word that reaches from s to e; a drag.    *)
Place(p) ==
  /\ Click
  /\ p <= len /\ cursor' = p /\ from' = p /\ to' = p /\ stale' = FALSE
  /\ UNCHANGED <<len, clip, disk, modified, ask, menu>>
Word(s, e) ==
  /\ Click
  /\ s <= e /\ e <= len /\ cursor' = e /\ from' = s /\ to' = e /\ stale' = FALSE
  /\ UNCHANGED <<len, clip, disk, modified, ask, menu>>
Drag(p) ==
  /\ Click /\ from # None
  /\ p <= len /\ to' = p
  /\ UNCHANGED <<len, cursor, from, clip, disk, modified, ask, menu, stale>>

OpenMenu ==
  /\ Click /\ menu' = TRUE
  /\ UNCHANGED <<len, cursor, selection, clip, disk, modified, ask, stale>>
LeaveMenu ==
  /\ ~dialog /\ menu /\ menu' = FALSE
  /\ UNCHANGED <<len, cursor, selection, clip, disk, modified, ask, stale>>
SelectAll ==
  /\ ~dialog /\ menu /\ menu' = FALSE
  /\ from' = 0 /\ to' = len /\ stale' = FALSE
  /\ UNCHANGED <<len, cursor, clip, disk, modified, ask>>

-----------------------------------------------------------------------------
(* The clipboard: from the context menu and from the menu bar.  Copying     *)
(* from past the end of a text that has shrunk is not followed.             *)
Start == IF from # None THEN from ELSE 0
End == IF Selected THEN to ELSE len
InText == Start <= End /\ End <= len

Copy ==
  /\ InText
  /\ clip' = Min(End - Start, MaxClip)
  /\ menu' \in {menu, FALSE}
  /\ UNCHANGED <<len, cursor, selection, disk, modified, ask, stale>>

(* notepad_edit_cut: everything selected is removed, although the clipboard *)
(* may have taken less.                                                     *)
Cut ==
  /\ InText /\ Selected
  /\ clip' = Min(to - from, MaxClip)
  /\ len' = len - (to - from) /\ cursor' = Min(from, len')
  /\ from' = None /\ to' = None /\ stale' = FALSE
  /\ modified' = TRUE
  /\ UNCHANGED <<disk, ask, menu>>

(* notepad_edit_paste does nothing under the dialog. *)
Paste ==
  /\ ~dialog
  /\ LET n == Min(clip, MaxChars - len) IN Edit(len + n, cursor + n)
  /\ menu' \in {menu, FALSE}
  /\ UNCHANGED <<selection, clip, disk, ask>>

(* terminal.c copies a line of its own. *)
TerminalCopy ==
  /\ clip' \in 0..MaxClip
  /\ UNCHANGED <<len, cursor, selection, disk, modified, ask, menu, stale>>

Next ==
  \/ Printable \/ Backspace \/ DialogKey \/ SaveAs \/ Save \/ Discard
  \/ \E p \in Length : Place(p) \/ Drag(p)
  \/ \E s, e \in Length : Word(s, e)
  \/ OpenMenu \/ LeaveMenu \/ SelectAll \/ Copy \/ Cut \/ Paste \/ TerminalCopy

Spec == Init /\ [][Next]_vars

-----------------------------------------------------------------------------
(* A text that is not marked as modified is the one last loaded or saved;   *)
(* the cursor is in the text; and so is what is selected, until the text    *)
(* is changed under the selection.                                          *)
EditSound ==
  /\ ~modified => len = saved
  /\ cursor <= len
  /\ ~stale /\ from # None => from <= len /\ to <= len
=============================================================================
