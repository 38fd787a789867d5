------------------------------ MODULE Adapters ------------------------------
(***************************************************************************)
(* Two network adapters below netif_poll and netif_send: the rings that    *)
(* VirtIO-Net shares with the machine (Network/virtio_net.c), and the      *)
(* page ring of an NE2000 (drivers/ne2000.c).  The device acts on its own: *)
(* it fills buffers or pages as frames come, and sends what it was given,  *)
(* some time or never.  Neither driver waits for it: VirtIO-Net takes its  *)
(* buffers in turn whatever is still in them, and NE2000 gives up.         *)
(* Frames are numbered in the order in which they arrive or are sent.      *)
(***************************************************************************)
EXTENDS Integers, Sequences, FiniteSets

CONSTANTS
  Buffers,    \* QUEUE_SIZE
  RingSize,   \* entries of a ring, at least Buffers
  Words,      \* the ring indices wrap here, a multiple of RingSize
  Start, Stop,\* NE_RXSTART and NE_RXSTOP
  MaxFrames,  \* bound: frames that arrive at VirtIO-Net
  MaxPackets, \* bound: frames that arrive at NE2000
  MaxSends    \* bound: frames that are sent

VARIABLES
  kind,       \* "virtio" or "ne2000"
  avail, availIdx, seen,  \* receive: the buffers handed to the device, up to
                          \* which the driver and the device have come
  used, usedIdx, lastUsed,\* those handed back, and the same for them
  buffer,     \* rx_buffers: the frame in each, 0 for less than a header
  txFree, txRing, txBuffer,  \* tx_free_idx, entries not sent yet, frames in them
  pages,      \* NE2000: the frame, 0 for a bad length, and the next page at
              \* the start of a frame
  curr, boundary, prx,    \* NE_CURR, NE_BOUNDARY, and "a packet has come"
  trans, ptx, txe, waiting,  \* the card is to send its page, "sent", "failed", and
              \* ne2000_send waits for either
  late,       \* history: when ne2000_send was called, the card had not done, or
              \* nobody had read, what an earlier call has given up
  arrived, read, given, sent  \* history: the last frame that the device took in,
              \* that the driver returned, that it was given, that went out

rx == <<avail, availIdx, seen, used, usedIdx, lastUsed, buffer>>
tx == <<txFree, txRing, txBuffer>>
ne == <<pages, curr, boundary, prx>>
out == <<trans, ptx, txe, waiting, late>>
vars == <<kind, rx, tx, ne, out, arrived, read, given, sent>>

Bufs == 0..(Buffers - 1)
Pages == Start..(Stop - 1)
Skipped == 0
Bad == 0

TypeOK ==
  /\ kind \in {"virtio", "ne2000"}
  /\ avail \in [0..(RingSize - 1) -> Bufs] /\ used \in [0..(RingSize - 1) -> Bufs]
  /\ {availIdx, seen, usedIdx, lastUsed} \subseteq 0..(Words - 1)
  /\ buffer \in [Bufs -> 0..MaxFrames] /\ txBuffer \in [Bufs -> 0..MaxSends]
  /\ txFree \in Bufs /\ txRing \in Seq(Bufs)
  /\ pages \in [Pages -> [frame : 0..MaxPackets, next : Pages]]
  /\ curr \in Pages /\ boundary \in Pages /\ prx \in BOOLEAN
  /\ {trans, ptx, txe, waiting, late} \subseteq BOOLEAN
  /\ {arrived, read} \subseteq 0..IF kind = "virtio" THEN MaxFrames ELSE MaxPackets
  /\ {given, sent} \subseteq 0..MaxSends

(* virtio_net_driver_init: every buffer is handed to the device. *)
VirtioInit ==
  /\ avail = [i \in 0..(RingSize - 1) |-> IF i < Buffers THEN i ELSE 0]
  /\ availIdx = Buffers /\ seen = 0
  /\ used = [i \in 0..(RingSize - 1) |-> 0] /\ usedIdx = 0 /\ lastUsed = 0
  /\ buffer = [b \in Bufs |-> 0]
  /\ txFree = 0 /\ txRing = <<>> /\ txBuffer = [b \in Bufs |-> 0]

(* ne2000_init: the card writes behind the page that is read last. *)
Ne2000Init ==
  /\ pages = [p \in Pages |-> [frame |-> 0, next |-> Start]]
  /\ curr = Start + 1 /\ boundary = Start /\ prx = FALSE
  /\ trans = FALSE /\ ptx = FALSE /\ txe = FALSE /\ waiting = FALSE /\ late = FALSE

Init ==
  /\ kind \in {"virtio", "ne2000"}
  /\ VirtioInit /\ Ne2000Init
  /\ arrived = 0 /\ read = 0 /\ given = 0 /\ sent = 0

Put(f, i, v) == [j \in DOMAIN f |-> IF j = i THEN v ELSE f[j]]
Bump(i) == (i + 1) % Words

-----------------------------------------------------------------------------
(* VirtIO *)

(* The device takes the next buffer for a frame, or for one that is no        *)
(* longer than its header; without a buffer the frame is lost.                *)
DeviceFills ==
  /\ kind = "virtio" /\ seen # availIdx /\ arrived < MaxFrames
  /\ LET b == avail[seen % RingSize]
     IN  /\ \/ buffer' = Put(buffer, b, arrived + 1) /\ arrived' = arrived + 1
            \/ buffer' = Put(buffer, b, Skipped) /\ arrived' = arrived
         /\ used' = Put(used, usedIdx % RingSize, b)
  /\ seen' = Bump(seen) /\ usedIdx' = Bump(usedIdx)
  /\ UNCHANGED <<kind, avail, availIdx, lastUsed, tx, ne, out, read, given, sent>>

(* Faulty variant: the indices are compared as if they never wrapped.         *)
UnwrappedRecv ==
  /\ kind = "virtio" /\ usedIdx > lastUsed
  /\ LET b == used[lastUsed % RingSize]
     IN  /\ read' = IF buffer[b] = Skipped THEN read ELSE buffer[b]
         /\ avail' = Put(avail, availIdx % Buffers, b)
  /\ lastUsed' = Bump(lastUsed) /\ availIdx' = Bump(availIdx)
  /\ UNCHANGED <<kind, seen, used, usedIdx, buffer, tx, ne, out, arrived, given, sent>>

(* wifi_recv: the oldest buffer that came back is copied and handed over      *)
(* again.                                                                     *)
wifi_recv ==
  /\ kind = "virtio" /\ usedIdx # lastUsed
  /\ LET b == used[lastUsed % RingSize]
     IN  /\ read' = IF buffer[b] = Skipped THEN read ELSE buffer[b]
         /\ avail' = Put(avail, availIdx % RingSize, b)
  /\ lastUsed' = Bump(lastUsed) /\ availIdx' = Bump(availIdx)
  /\ UNCHANGED <<kind, seen, used, usedIdx, buffer, tx, ne, out, arrived, given, sent>>

(* wifi_send: the buffers go round, and whether the device has sent what is   *)
(* in the next one is not looked at.                                          *)
wifi_send ==
  /\ kind = "virtio" /\ given < MaxSends
  /\ given' = given + 1
  /\ txBuffer' = Put(txBuffer, txFree, given + 1)
  /\ txRing' = Append(txRing, txFree)
  /\ txFree' = (txFree + 1) % Buffers
  /\ UNCHANGED <<kind, rx, ne, out, arrived, read, sent>>

DeviceSends ==
  /\ txRing # <<>>
  /\ sent' = txBuffer[Head(txRing)]
  /\ txRing' = Tail(txRing)
  /\ UNCHANGED <<kind, rx, txFree, txBuffer, ne, out, arrived, read, given>>

-----------------------------------------------------------------------------
(* NE2000 *)

After(p, n) == Start + ((p - Start + n) % (Stop - Start))
OnePast(p) == IF p + 1 >= Stop THEN Start ELSE p + 1
OneBefore(p) == IF p > Start THEN p - 1 ELSE Stop - 1

(* The card writes a frame of one or two pages behind the last one, unless    *)
(* it would run into the boundary; or one whose length no frame has.          *)
CardFills ==
  /\ kind = "ne2000" /\ arrived < MaxPackets
  /\ \E n \in 1..2, frame \in {arrived + 1, Bad} :
       /\ \A i \in 1..n : After(curr, i) # boundary
       /\ pages' = Put(pages, curr, [frame |-> frame, next |-> After(curr, n)])
       /\ curr' = After(curr, n)
  /\ arrived' = arrived + 1 /\ prx' = TRUE
  /\ UNCHANGED <<kind, rx, tx, out, boundary, read, given, sent>>

(* ne2000_recv.  One that was cleared with two frames there leaves the second *)
(* until a third has come.  A bad length gives up all that has come.          *)
ne2000_recv ==
  /\ kind = "ne2000" /\ ~waiting /\ prx
  /\ prx' = FALSE
  /\ LET p == OnePast(boundary)
     IN  IF p = curr THEN UNCHANGED <<boundary, read>>
         ELSE IF pages[p].frame = Bad THEN read' = arrived /\ boundary' = OneBefore(curr)
         ELSE read' = pages[p].frame /\ boundary' = OneBefore(pages[p].next)
  /\ UNCHANGED <<kind, rx, tx, out, pages, curr, arrived, given, sent>>

(* ne2000_send fills the one page there is to send, and the card is told.  If *)
(* it is still at the last frame, this one may go out too early as well.      *)
ne2000_send ==
  /\ kind = "ne2000" /\ ~waiting /\ given < MaxSends
  /\ given' = given + 1 /\ trans' = TRUE /\ waiting' = TRUE
  /\ late' = (trans \/ ptx \/ txe)
  /\ \/ UNCHANGED <<sent, ptx>>
     \/ trans /\ sent' = given + 1 /\ ptx' = TRUE
  /\ UNCHANGED <<kind, rx, tx, ne, txe, arrived, read>>

CardSends ==
  /\ trans /\ trans' = FALSE
  /\ \/ sent' = given /\ ptx' = TRUE /\ UNCHANGED txe
     \/ txe' = TRUE /\ UNCHANGED <<sent, ptx>>
  /\ UNCHANGED <<kind, rx, tx, ne, waiting, late, arrived, read, given>>

(* The loop of ne2000_send ends: it returns 0 if the card says "sent", and -1 *)
(* if it says "failed", or nothing for too long.                              *)
Waited ==
  /\ waiting /\ waiting' = FALSE
  /\ \/ ptx /\ ptx' = FALSE /\ UNCHANGED txe
     \/ ~ptx /\ txe' = FALSE /\ UNCHANGED ptx
  /\ UNCHANGED <<kind, rx, tx, ne, trans, late, arrived, read, given, sent>>

Next ==
  \/ DeviceFills \/ wifi_recv \/ wifi_send \/ DeviceSends
  \/ CardFills \/ ne2000_recv \/ ne2000_send \/ CardSends \/ Waited

Spec == Init /\ [][Next]_vars

-----------------------------------------------------------------------------
(* Every buffer is with the device or on its way back, never both. *)
BuffersKept ==
  LET Entries(ring, i, j, b) ==
        {k \in 0..(Words - 1) : k < (j - i) % Words /\ ring[(i + k) % RingSize] = b}
  IN  \A b \in Bufs :
        Cardinality(Entries(avail, seen, availIdx, b))
          + Cardinality(Entries(used, lastUsed, usedIdx, b)) = 1

(* Every frame that the device took in is handed on, in the order in which    *)
(* they came, although indices wrap, buffers go round and pages end in the    *)
(* middle of a frame, until NE2000 meets a bad length.  No buffer is handed   *)
(* over twice or forgotten.                                                   *)
Received ==
  /\ read' # read =>
       \/ read' = read + 1
       \/ kind = "ne2000" /\ pages[OnePast(boundary)].frame = Bad
  /\ BuffersKept'

(* The n-th entry that VirtIO-Net takes sends the n-th frame, as long as no   *)
(* more frames wait for the device than there are buffers: eight DISCOVERs at *)
(* once may.                                                                  *)
SentInTurn ==
  Len(txRing') < Len(txRing) /\ Len(txRing) <= Buffers => sent' = given - Len(txRing')

(* NE2000 sends no frame after a later one.  If no earlier call has left      *)
(* anything behind, it sends none twice, and 0 is returned for one that has   *)
(* been sent.                                                                 *)
SentOnce ==
  /\ sent' # sent => sent < sent' /\ sent' <= given'
  /\ ~late /\ trans /\ ~trans' => sent < given
  /\ ~late /\ ptx /\ ~ptx' => sent = given

FramesInOrder ==
  [][Received /\ SentInTurn /\ (kind = "ne2000" => SentOnce)]_vars
=============================================================================
