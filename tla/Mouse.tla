------------------------------- MODULE Mouse -------------------------------
(***************************************************************************)
(* The pointer (drivers/mouse.c): packets of a PS/2 mouse, whose bytes     *)
(* the interrupt puts into a ring (interrupt.asm), records of a VMware     *)
(* mouse and reports of USB mice (module UsbMouse) move one pointer, set   *)
(* its buttons and enter one event queue.                                  *)
(*                                                                         *)
(* One axis is modelled, the other is treated alike.  A byte of a packet   *)
(* is its place in the packet and whether it could begin one (bit 3 set,   *)
(* no overflow).  The sensitivity is 1:1, its accumulators stay 0.         *)
(***************************************************************************)
EXTENDS Integers, Sequences

CONSTANTS
  Limits,      \* widths of the screen modes
  Fast,        \* a fast movement, beyond the threshold
  Threshold,   \* mouse.accel_threshold
  Size,        \* bytes of a packet: 3, or 4 with a wheel
  Pipe,        \* bytes of mouse_buffer in interrupt.asm
  QueueSize,   \* MOUSE_EVENT_QUEUE_SIZE
  MaxEvents    \* bound: events that enter the queue

ASSUME MouseAssumption ==
  /\ Limits \subseteq Nat \ {0}
  /\ Fast \in Nat /\ Threshold \in Nat
  /\ Size \in {3, 4}
  /\ Pipe \in Nat \ {0} /\ QueueSize \in Nat \ {0}
  /\ MaxEvents \in Nat

VARIABLES
  x, limit,        \* the pointer and the width of the screen
  accel,           \* mouse.accel_enabled
  button, settled, \* a button, and whether its debounce time is over
  ps2, vm,         \* mouse.ps2_active, mouse.vmmouse_active
  pipe, at, idx,   \* bytes on their way, the place of the mouse's next
                   \* byte, and mouse.ps2_packet_idx
  cut,             \* whether part of a packet was ever lost or refused
  queue, qhead, qtail, total  \* the events, numbered as they are queued

vars == <<x, limit, accel, button, settled, ps2, vm, pipe, at, idx, cut,
          queue, qhead, qtail, total>>
stream == <<pipe, at, idx, cut>>
pointer == <<x, button, settled, queue, qhead, qtail, total>>

Deltas == {-Fast, 1}   \* the movements of one packet or report
Places == 0..(Size - 1)
Slots == 0..(QueueSize - 1)

TypeOK ==
  /\ x \in Int /\ limit \in Limits
  /\ accel \in BOOLEAN /\ button \in BOOLEAN /\ settled \in BOOLEAN
  /\ ps2 \in BOOLEAN /\ vm \in BOOLEAN /\ cut \in BOOLEAN
  /\ pipe \in Seq([place : Places, start : BOOLEAN]) /\ Len(pipe) <= Pipe
  /\ at \in Places /\ idx \in Places
  /\ queue \in [Slots -> 0..MaxEvents]
  /\ qhead \in Slots /\ qtail \in Slots /\ total \in 0..MaxEvents

(* mouse_init: the pointer in the middle of the screen, nothing active yet. *)
Init ==
  /\ limit \in Limits /\ x = limit \div 2
  /\ accel = FALSE /\ button = FALSE /\ settled = TRUE
  /\ ps2 = FALSE /\ vm = FALSE
  /\ pipe = <<>> /\ at = 0 /\ idx = 0 /\ cut = FALSE
  /\ queue = [i \in Slots |-> 0] /\ qhead = 0 /\ qtail = 0 /\ total = 0

-----------------------------------------------------------------------------
(* What every source of movements does. *)

Abs(n) == IF n < 0 THEN -n ELSE n

(* mouse_accelerate *)
Accelerate(d) ==
  IF accel /\ Abs(d) > Threshold
    THEN (IF d < 0 THEN -1 ELSE 1) * (Threshold + 2 * (Abs(d) - Threshold))
    ELSE d

(* mouse_apply_movement: a movement against the edge the pointer is at is   *)
(* thrown away.                                                             *)
ApplyMovement(d) ==
  IF (x = 0 /\ d < 0) \/ (x = limit - 1 /\ d > 0) THEN x ELSE x + d

(* mouse_clamp_position *)
Clamp(p, w) == IF p < 0 THEN 0 ELSE IF p >= w THEN w - 1 ELSE p

(* mouse_update_buttons: a change that comes too soon after the last one is *)
(* not made; the state comes again with the next packet only.               *)
UpdateButtons ==
  \E new \in BOOLEAN :
    IF new # button /\ settled
      THEN button' = new /\ settled' = FALSE
      ELSE UNCHANGED <<button, settled>>

(* mouse_queue_event: a full queue drops its oldest event. *)
QueueEvent ==
  /\ total < MaxEvents
  /\ total' = total + 1
  /\ queue' = [queue EXCEPT ![qhead] = total + 1]
  /\ qhead' = (qhead + 1) % QueueSize
  /\ qtail' = IF (qhead + 1) % QueueSize = qtail THEN (qtail + 1) % QueueSize
                                                 ELSE qtail

(* A relative report: of a PS/2 packet, of a USB poll, of a VMware mouse in *)
(* relative mode.                                                           *)
Relative ==
  /\ \E d \in Deltas : x' = Clamp(ApplyMovement(Accelerate(d)), limit)
  /\ UpdateButtons /\ QueueEvent

-----------------------------------------------------------------------------
(* The PS/2 mouse. *)

(* ps2_mouse_init: what has come is thrown away, also what comes between    *)
(* the enabling of the mouse and the end of the initialisation.             *)
Ps2Init ==
  /\ ~ps2 /\ ps2' = TRUE
  /\ idx' = 0 /\ pipe' = <<>>
  /\ at' \in Places /\ cut' = (at' # 0)
  /\ UNCHANGED <<x, limit, accel, button, settled, vm, queue, qhead, qtail, total>>

(* The mouse sends its next byte.  The first byte of a packet that tells of *)
(* an overflow is refused; a full ring looks empty: what it held is lost.   *)
Byte ==
  /\ ps2
  /\ \E start \in BOOLEAN :
       LET full == Len(pipe) = Pipe - 1 IN
       /\ pipe' = IF full THEN <<>> ELSE Append(pipe, [place |-> at, start |-> start])
       /\ cut' = (cut \/ full \/ (at = 0 /\ ~start))
  /\ at' = (at + 1) % Size
  /\ UNCHANGED <<x, limit, accel, button, settled, ps2, vm, idx, queue, qhead, qtail, total>>

(* ps2_feed_byte: the last byte of a packet completes it; one whose sign    *)
(* bits disagree with its movement is dropped, which no packet of the mouse *)
(* is, unless its bytes were mixed up.                                      *)
Feed ==
  /\ ps2 /\ pipe # <<>>
  /\ pipe' = Tail(pipe)
  /\ \/ /\ idx = 0
        /\ idx' = IF Head(pipe).start THEN 1 % Size ELSE 0
        /\ UNCHANGED pointer
     \/ /\ idx \in 1..(Size - 2)
        /\ idx' = idx + 1
        /\ UNCHANGED pointer
     \/ /\ idx = Size - 1
        /\ idx' = 0
        /\ \/ Relative
           \/ cut /\ UNCHANGED pointer
  /\ UNCHANGED <<limit, accel, ps2, vm, at, cut>>

(* mouse_ps2_resync *)
Resync ==
  /\ ps2
  /\ idx' = 0 /\ pipe' = <<>>
  /\ cut' = (cut \/ at # 0)
  /\ UNCHANGED <<limit, accel, ps2, vm, at>> /\ UNCHANGED pointer

-----------------------------------------------------------------------------
(* The other sources and the rest of the interface. *)

(* vmmouse_enable *)
VmmouseEnable ==
  /\ ~vm /\ vm' = TRUE
  /\ UNCHANGED <<limit, accel, ps2>> /\ UNCHANGED stream /\ UNCHANGED pointer

(* vmmouse_poll: absolute coordinates are scaled to the screen; the bytes   *)
(* of the PS/2 mouse are thrown away.                                       *)
Absolutes == 0..3     \* raw coordinates, in units of 65536 / 3
VmmousePoll ==
  /\ vm
  /\ \/ /\ \E raw \in Absolutes : x' = Clamp((raw * limit) \div 3, limit)
        /\ UpdateButtons /\ QueueEvent
     \/ Relative
  /\ pipe' = <<>>
  /\ cut' = (cut \/ pipe # <<>> \/ at # 0)
  /\ UNCHANGED <<limit, accel, ps2, vm, at, idx>>

(* A report of a USB mouse (uhci_poll_mouse and the others). *)
UsbReport ==
  /\ ~vm /\ Relative
  /\ UNCHANGED <<limit, accel, ps2, vm>> /\ UNCHANGED stream

Settle ==
  /\ ~settled /\ settled' = TRUE
  /\ UNCHANGED <<x, limit, accel, button, ps2, vm, queue, qhead, qtail, total>>
  /\ UNCHANGED stream

(* Faulty variant: the tail does not go round. *)
UnwrappedGetEvent ==
  /\ qhead # qtail
  /\ qtail' = qtail + 1
  /\ UNCHANGED <<x, limit, accel, button, settled, ps2, vm, queue, qhead, total>>
  /\ UNCHANGED stream

(* mouse_get_event *)
GetEvent ==
  /\ qhead # qtail
  /\ qtail' = (qtail + 1) % QueueSize
  /\ UNCHANGED <<x, limit, accel, button, settled, ps2, vm, queue, qhead, total>>
  /\ UNCHANGED stream

SetAcceleration ==
  /\ accel' = ~accel
  /\ UNCHANGED <<limit, ps2, vm>> /\ UNCHANGED stream /\ UNCHANGED pointer

(* Faulty variant: the pointer stays where it was. *)
UnclampedSetBounds ==
  /\ limit' \in Limits \ {limit}
  /\ x' = x
  /\ UNCHANGED <<accel, button, settled, ps2, vm, queue, qhead, qtail, total>>
  /\ UNCHANGED stream

(* mouse_set_bounds, mouse_set_screen_size: the resolution changes. *)
SetBounds ==
  /\ limit' \in Limits \ {limit}
  /\ x' = Clamp(x, limit')
  /\ UNCHANGED <<accel, button, settled, ps2, vm, queue, qhead, qtail, total>>
  /\ UNCHANGED stream

Next ==
  \/ Ps2Init \/ Byte \/ Feed \/ Resync
  \/ VmmouseEnable \/ VmmousePoll \/ UsbReport \/ Settle
  \/ GetEvent \/ SetAcceleration \/ SetBounds

Spec == Init /\ [][Next]_vars

-----------------------------------------------------------------------------
(* The pointer is on the screen whatever moved it and however the           *)
(* resolution changed; the queue holds the newest events, in order; and     *)
(* packets are read from their first byte as long as none was cut.          *)
Held == (qhead - qtail + QueueSize) % QueueSize

PointerSound ==
  /\ x \in 0..(limit - 1)
  /\ \A i \in 1..Held :
       queue[(qhead - i + QueueSize) % QueueSize] = total - i + 1
  /\ ~cut => /\ Len(pipe) > 0 => Head(pipe).place = idx
             /\ Len(pipe) = 0 => at = idx
=============================================================================
