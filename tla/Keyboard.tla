----------------------------- MODULE Keyboard -----------------------------
(***************************************************************************)
(* The way of a key from the keyboard interrupt to what reads it: a ring   *)
(* filled by the interrupt (interrupt.asm), drained by the window manager  *)
(* into the focused window, the terminal's line editor or, while a command *)
(* runs, its one-key mailbox terminal_last_char (terminal.c), and read by  *)
(* the command with c_getkey, which looks into the mailbox first and then  *)
(* into the ring itself (utils.c).  Nothing but wm_update_light runs while *)
(* a command waits: the focus cannot change then.                          *)
(*                                                                         *)
(* Keys are numbered as they are typed, so that their order can be told.   *)
(***************************************************************************)
EXTENDS Naturals

CONSTANTS
  Ring,      \* words of key_buffer
  MaxTyped   \* bound: keys typed

VARIABLES
  ring, head, tail,  \* key_buffer, key_buffer_head, key_buffer_tail
  typed,     \* the number of keys typed
  mailbox,   \* terminal_last_char, or Nothing
  focus,     \* who has the focus: the terminal or another window
  phase,     \* what the terminal does: "edit" a line, "run" a command,
             \* "flush" before a prompt, "read" the prompt, and "light",
             \* wm_update_light while no key is there
  got,       \* the last key that an application or the command received
  asked      \* the keys typed when the prompt was put up

vars == <<ring, head, tail, typed, mailbox, focus, phase, got, asked>>

Nothing == 0
CtrlC == MaxTyped + 1   \* the code 3 that nobody has typed
Cells == 0..(Ring - 1)

TypeOK ==
  /\ ring \in [Cells -> 0..MaxTyped] /\ head \in Cells /\ tail \in Cells
  /\ typed \in 0..MaxTyped /\ got \in 0..MaxTyped /\ asked \in 0..MaxTyped
  /\ mailbox \in 0..CtrlC
  /\ focus \in {"terminal", "other"}
  /\ phase \in {"edit", "run", "flush", "read", "light"}

Init ==
  /\ ring = [i \in Cells |-> Nothing] /\ head = 0 /\ tail = 0
  /\ typed = 0 /\ mailbox = Nothing
  /\ focus = "terminal" /\ phase = "edit"
  /\ got = 0 /\ asked = 0

(* The interrupt stores a key and does not look whether the ring is full:   *)
(* one that has gone round makes the ring look empty.                       *)
Type ==
  /\ typed < MaxTyped
  /\ typed' = typed + 1
  /\ ring' = [ring EXCEPT ![head] = typed + 1]
  /\ head' = (head + 1) % Ring
  /\ UNCHANGED <<tail, mailbox, focus, phase, got, asked>>

Hit == tail # head                          \* sys_kb_hit
Taken == tail' = (tail + 1) % Ring          \* sys_getkey, of ring[tail]

-----------------------------------------------------------------------------
(* The frames of the desktop while no command runs. *)

(* wm_handle_input: one key for the focused window.  Enter, on a line that  *)
(* is not empty, runs the command in the same call (term_execute).          *)
Deliver ==
  /\ phase = "edit" /\ Hit /\ Taken
  /\ got' = ring[tail]
  /\ \/ phase' = phase /\ mailbox' = mailbox
     \/ focus = "terminal" /\ phase' = "run" /\ mailbox' = Nothing
  /\ UNCHANGED <<ring, head, typed, focus, asked>>

(* A press gives the focus to another window; closing a terminal leaves a   *)
(* Ctrl+C in the mailbox.                                                   *)
Click ==
  /\ phase = "edit"
  /\ focus' \in {"terminal", "other"}
  /\ mailbox' \in {mailbox, CtrlC}
  /\ UNCHANGED <<ring, head, tail, typed, phase, got, asked>>

-----------------------------------------------------------------------------
(* A command that prompts (interactive_password_prompt, cmd_sudo, passwd    *)
(* three times) or reads keys until one ends it (NANO, PAUSE).              *)

Prompt ==
  /\ phase = "run"
  /\ asked' = typed
  /\ phase' = "flush"
  /\ UNCHANGED <<ring, head, tail, typed, mailbox, focus, got>>

(* Faulty variant: the wait looks at the ring only, as sys_kb_hit does. *)
DeafPending == Hit

(* c_kb_hit and c_getkey. *)
Pending == mailbox # Nothing \/ Hit
GetKey(k) ==
  IF mailbox # Nothing
    THEN k = mailbox /\ mailbox' = Nothing /\ UNCHANGED tail
    ELSE k = ring[tail] /\ Taken /\ UNCHANGED mailbox

Flush ==
  /\ phase = "flush"
  /\ IF Pending
       THEN (\E k \in 1..CtrlC : GetKey(k)) /\ phase' = phase
       ELSE phase' = "read" /\ UNCHANGED <<mailbox, tail>>
  /\ UNCHANGED <<ring, head, typed, focus, got, asked>>

(* Faulty variant: the ring comes first. *)
RingFirstReadKey ==
  /\ phase = "read" /\ Pending
  /\ IF Hit THEN got' = ring[tail] /\ Taken /\ UNCHANGED mailbox
            ELSE got' = mailbox /\ mailbox' = Nothing /\ UNCHANGED tail
  /\ phase' \in {"read", "run"}
  /\ UNCHANGED <<ring, head, typed, focus, asked>>

(* One key of the answer; Enter ends the prompt. *)
ReadKey ==
  /\ phase = "read" /\ Pending
  /\ GetKey(got')
  /\ phase' \in {"read", "run"}
  /\ UNCHANGED <<ring, head, typed, focus, asked>>

(* No key: the screen is kept alive. *)
Wait ==
  /\ phase = "read" /\ ~Pending
  /\ phase' = "light"
  /\ UNCHANGED <<ring, head, tail, typed, mailbox, focus, got, asked>>

(* wm_update_light gives every key that has come to the focused window:     *)
(* the busy terminal, which keeps the last one in its mailbox.              *)
LightKey ==
  /\ phase = "light" /\ Hit /\ Taken
  /\ mailbox' = ring[tail]
  /\ UNCHANGED <<ring, head, typed, focus, phase, got, asked>>

LightDone ==
  /\ phase = "light" /\ ~Hit
  /\ phase' = "read"
  /\ UNCHANGED <<ring, head, tail, typed, mailbox, focus, got, asked>>

(* The command returns (or Ctrl+C, Esc ended it). *)
Finish ==
  /\ phase = "run"
  /\ phase' = "edit"
  /\ UNCHANGED <<ring, head, tail, typed, mailbox, focus, got, asked>>

Next ==
  \/ Type \/ Deliver \/ Click
  \/ Prompt \/ Flush \/ ReadKey \/ Wait \/ LightKey \/ LightDone \/ Finish

Terminal == Flush \/ ReadKey \/ Wait \/ LightKey \/ LightDone

(* The machine keeps running the command that waits. *)
Spec == Init /\ [][Next]_vars /\ WF_vars(Terminal)

-----------------------------------------------------------------------------
(* Keys are lost on the way (a ring that goes round, a mailbox that is      *)
(* overwritten) but never reordered or seen twice, although they reach a    *)
(* command on two ways; what a prompt reads was typed, and typed after it   *)
(* was put up.                                                              *)
KeysInOrder ==
  [][got' # got =>
       got' > got /\ got' <= typed /\ (phase = "read" => got' > asked)]_vars

(* A command that waits for a key gets those that have come, whether they   *)
(* are still in the ring or wm_update_light has put one into the mailbox.   *)
Waiting == phase \in {"flush", "read", "light"}
Come == mailbox # Nothing \/ Hit

WaitEnds == Waiting /\ Come ~> ~Waiting \/ ~Come
=============================================================================
