------------------------------ MODULE UsbMouse ------------------------------
(***************************************************************************)
(* USB mice (drivers/mouse.c): starting a host controller of one of four   *)
(* kinds, resetting its ports, asking each device who it is with control   *)
(* transfers and polling the first boot mouse found through an interrupt   *)
(* endpoint.  The code never sleeps: a transfer is one step, whose outcome *)
(* the bus decides.                                                        *)
(*                                                                         *)
(* Reports are numbered by the mouse.  A UHCI, OHCI or EHCI transfer       *)
(* descriptor carries the data toggle it expects; an xHCI controller and   *)
(* the driver tell the filled entries of the shared event ring and of the  *)
(* transfer ring by a cycle bit that both flip when they go round.         *)
(***************************************************************************)
EXTENDS Naturals, Sequences

CONSTANTS
  Ports,       \* the number of root ports
  Pool,        \* descriptors of a pool
  Memories,    \* allocations that the DMA memory may be good for; nothing is given back
  Ring,        \* entries of the transfer ring, its link included
  Events,      \* entries of the event ring
  MaxReports   \* bound: reports of the mouse

Kinds == {"uhci", "ohci", "ehci", "xhci"}

VARIABLES
  kind,      \* the controller found on the PCI bus
  phase,     \* "pci", "scan" the ports, "ask" a device, "poll" the mouse, "off"
  port,      \* ports scanned
  step,      \* control transfers made with the device
  used,      \* td_pool_used (qtd_pool_used)
  memory,    \* what is left of the DMA memory
  short,     \* whether an allocation ever failed
  mouse,     \* whether a mouse was found and its endpoint set up
  toggle,    \* dev->toggle
  td,        \* the interrupt descriptor: "active", "done", "error"
  linked,    \* whether the controller still reaches it
  want,      \* the toggle of the descriptor
  ours,      \* the toggle of the mouse
  report,    \* the mouse's newest report, the newest one it saw
  acked,     \* acknowledged, and
  buffer,    \* the one in dev->transfer_buffer
  got, applied,   \* the last report applied to the pointer; a counter
  enq, cyc, trb,  \* the transfer ring: the driver's place and cycle, and
  hcdeq, hccyc,   \* the cycle bits written; the controller's
  evt, hcenq, hcevt, deq, evcyc,   \* the event ring, likewise
  stray      \* whether an event came that nobody waits for

ring == <<enq, cyc, trb, hcdeq, hccyc>>
events == <<evt, hcenq, hcevt, deq, evcyc, stray>>
descriptor == <<toggle, td, linked, want>>
reports == <<ours, report, acked, buffer, got, applied>>
vars == <<kind, phase, port, step, used, memory, short, mouse,
          descriptor, reports, ring, events>>

Entries == [cycle : {0, 1}, what : {"none", "port", "done", "failed", "report"}]

TypeOK ==
  /\ kind \in Kinds /\ phase \in {"pci", "scan", "ask", "poll", "off"}
  /\ port \in 0..Ports /\ step \in 0..8
  /\ used \in 0..Pool /\ memory \in Nat
  /\ short \in BOOLEAN /\ mouse \in BOOLEAN /\ linked \in BOOLEAN /\ stray \in BOOLEAN
  /\ toggle \in {0, 1} /\ want \in {0, 1} /\ ours \in {0, 1}
  /\ td \in {"active", "done", "error"}
  /\ report \in 0..MaxReports /\ acked \in 0..MaxReports /\ buffer \in 0..MaxReports
  /\ got \in 0..MaxReports /\ applied \in {0, 1}
  /\ trb \in [0..(Ring - 1) -> {0, 1}] /\ enq \in 0..(Ring - 2) /\ hcdeq \in 0..(Ring - 1)
  /\ cyc \in {0, 1} /\ hccyc \in {0, 1} /\ hcevt \in {0, 1} /\ evcyc \in {0, 1}
  /\ evt \in [0..(Events - 1) -> Entries] /\ hcenq \in 0..(Events - 1) /\ deq \in 0..(Events - 1)

EmptyRing ==
  /\ enq = 0 /\ cyc = 1 /\ trb = [i \in 0..(Ring - 1) |-> 0]
  /\ hcdeq = 0 /\ hccyc = 1

Init ==
  /\ kind \in Kinds /\ phase = "pci" /\ port = 0 /\ step = 0
  /\ used = 0 /\ memory \in Memories /\ short = FALSE /\ mouse = FALSE
  /\ toggle = 0 /\ td = "active" /\ linked = FALSE /\ want = 0
  /\ ours = 0 /\ report = 0 /\ acked = 0 /\ buffer = 0 /\ got = 0 /\ applied = 0
  /\ EmptyRing
  /\ evt = [i \in 0..(Events - 1) |-> [cycle |-> 0, what |-> "none"]]
  /\ hcenq = 0 /\ hcevt = 1 /\ deq = 0 /\ evcyc = 1 /\ stray = FALSE

-----------------------------------------------------------------------------
(* Starting the controller: each kind takes its tables from the DMA memory; *)
(* without a usable base address or without memory it stays off.            *)
StartWith(k, n) ==
  /\ phase = "pci" /\ kind = k
  /\ \/ n <= memory /\ memory' = memory - n /\ phase' = "scan"
     \/ phase' = "off" /\ UNCHANGED memory
  /\ UNCHANGED <<kind, port, step, used, short, mouse, descriptor, reports, ring, events>>

UhciInit == StartWith("uhci", 3)
OhciInit == StartWith("ohci", 3)
EhciInit == StartWith("ehci", 4)
XhciInit == StartWith("xhci", 4)

-----------------------------------------------------------------------------
(* The rings of an xHCI controller. *)

(* What the controller posts, where the driver has made room. *)
HasRoom == ~(hcenq = deq /\ hcevt # evcyc)
Posted(ring0, at, c, w) == [ring0 EXCEPT ![at] = [cycle |-> c, what |-> w]]
Post(w) ==
  /\ HasRoom
  /\ evt' = Posted(evt, hcenq, hcevt, w)
  /\ hcenq' = (hcenq + 1) % Events
  /\ hcevt' = IF hcenq = Events - 1 THEN 1 - hcevt ELSE hcevt

Pending == evt[deq].cycle = evcyc

(* Faulty variant: the cycle stays when the driver goes round. *)
UnflippedTaken ==
  /\ deq' = (deq + 1) % Events
  /\ evcyc' = evcyc

Taken ==
  /\ deq' = (deq + 1) % Events
  /\ evcyc' = IF deq = Events - 1 THEN 1 - evcyc ELSE evcyc

(* xhci_wait_event, for the answer to what was just queued: it takes the    *)
(* oldest event, whatever it tells of.  The controller posts w meanwhile.   *)
WaitEvent(w, ok) ==
  /\ HasRoom
  /\ LET now == Posted(evt, hcenq, hcevt, w) IN
       /\ evt' = now
       /\ ok <=> now[deq].cycle = evcyc /\ now[deq].what # "failed"
  /\ hcenq' = (hcenq + 1) % Events
  /\ hcevt' = IF hcenq = Events - 1 THEN 1 - hcevt ELSE hcevt
  /\ Taken
  /\ UNCHANGED stray

(* xhci_ring_write of an interrupt transfer: the last entry of the ring is  *)
(* a link back to its first.                                                *)
RingWrite ==
  LET wraps == enq + 1 = Ring - 1 IN
  /\ trb' = IF wraps THEN [trb EXCEPT ![enq] = cyc, ![enq + 1] = cyc]
                     ELSE [trb EXCEPT ![enq] = cyc]
  /\ enq' = IF wraps THEN 0 ELSE enq + 1
  /\ cyc' = IF wraps THEN 1 - cyc ELSE cyc

-----------------------------------------------------------------------------
(* Resetting the ports (usb_scan_for_mice). *)

Reset(k) ==
  /\ phase = "scan" /\ kind = k /\ port < Ports /\ ~mouse
  /\ port' = port + 1
  /\ step' = 0 /\ toggle' = 0
  /\ UNCHANGED <<kind, used, memory, short, mouse, td, linked, want, reports, ring>>

(* Nothing there, or the port does not come up. *)
UhciPortReset == Reset("uhci") /\ phase' \in {"scan", "ask"} /\ UNCHANGED events
OhciPortReset == Reset("ohci") /\ phase' \in {"scan", "ask"} /\ UNCHANGED events
(* A device that is not a high-speed one is left to the companion.          *)
EhciPortReset == Reset("ehci") /\ phase' \in {"scan", "ask"} /\ UNCHANGED events
(* The change of the port is an event of its own on some controllers.       *)
XhciPortReset ==
  /\ Reset("xhci") /\ phase' \in {"scan", "ask"}
  /\ \/ UNCHANGED events
     \/ Post("port") /\ stray' = TRUE /\ UNCHANGED <<deq, evcyc>>

Scanned ==
  /\ phase = "scan" /\ (port = Ports \/ mouse)
  /\ phase' = IF mouse THEN "poll" ELSE "off"
  /\ UNCHANGED <<kind, port, step, used, memory, short, mouse, descriptor, reports, ring, events>>

-----------------------------------------------------------------------------
(* Control transfers.  Data is the number of 8-byte packets of the data     *)
(* stage.  Each says whether it succeeds, ok, and what it leaves used.      *)

(* uhci_control_transfer: the descriptors are given back at the end, after  *)
(* a timeout or an error too, but not when one could not be had.            *)
UhciControl(data, ok) ==
  LET cells == IF data > 0 THEN 2 ELSE 1
      need == data + 2 IN
  /\ memory' = memory - (IF memory < cells THEN memory ELSE cells)
  /\ \/ used = Pool /\ ~ok /\ used' = used /\ UNCHANGED short
     \/ memory < cells /\ ~ok /\ used < Pool /\ used' = used + 1 /\ short' = TRUE
     \/ memory >= cells /\ used < Pool /\ used + need > Pool /\ ~ok /\ used' = Pool
          /\ UNCHANGED short
     \/ memory >= cells /\ used + need <= Pool /\ used' = used /\ UNCHANGED short

(* ohci_control_transfer: one descriptor for the whole data stage and one   *)
(* that ends the list.                                                      *)
OhciControl(data, ok) ==
  LET cells == IF data > 0 THEN 2 ELSE 1
      need == IF data > 0 THEN 4 ELSE 3 IN
  /\ memory' = memory - (IF memory < cells THEN memory ELSE cells)
  /\ \/ memory < cells /\ ~ok /\ used < Pool /\ used' = used + 1 /\ short' = TRUE
     \/ memory >= cells /\ used + need > Pool /\ ~ok /\ used' = Pool /\ UNCHANGED short
     \/ memory >= cells /\ used + need <= Pool /\ used' = used /\ UNCHANGED short

(* ehci_control_transfer does not look whether its pool is used up. *)
EhciControl(data, ok) ==
  LET cells == IF data > 0 THEN 2 ELSE 1 IN
  /\ memory' = memory - (IF memory < cells THEN memory ELSE cells)
  /\ \/ memory < cells /\ ~ok /\ used' = used + 1 /\ short' = TRUE
     \/ memory >= cells /\ used' = used /\ UNCHANGED short

(* xhci_control_transfer: the ring is larger than what the questions to a   *)
(* device take.                                                             *)
XhciControl(data, ok) ==
  /\ \/ data > 0 /\ memory = 0 /\ ~ok /\ short' = TRUE /\ UNCHANGED <<memory, evt, hcenq, hcevt, deq, evcyc, stray>>
     \/ /\ data > 0 => memory > 0
        /\ memory' = memory - (IF data > 0 THEN 1 ELSE 0)
        /\ \E w \in {"done", "failed"} : WaitEvent(w, ok)
        /\ UNCHANGED short
  /\ UNCHANGED used

Control(data, ok) ==
  \/ kind = "uhci" /\ UhciControl(data, ok) /\ UNCHANGED events
  \/ kind = "ohci" /\ OhciControl(data, ok) /\ UNCHANGED events
  \/ kind = "ehci" /\ EhciControl(data, ok) /\ UNCHANGED events
  \/ kind = "xhci" /\ XhciControl(data, ok)

(* xhci_enable_slot: the contexts and a ring for endpoint 0. *)
XhciEnableSlot ==
  /\ phase = "ask" /\ kind = "xhci" /\ step = 0
  /\ \E w \in {"done", "failed"}, ok \in BOOLEAN :
       /\ WaitEvent(w, ok)
       /\ \/ ok /\ memory >= 3 /\ memory' = memory - 3 /\ short' = short
             /\ step' = 1 /\ phase' = phase
          \/ ok /\ memory < 3 /\ memory' = 0 /\ short' = TRUE
             /\ step' = step /\ phase' = "scan"
          \/ ~ok /\ phase' = "scan" /\ UNCHANGED <<memory, short, step>>
  /\ UNCHANGED <<kind, port, used, mouse, descriptor, reports, ring>>

(* xhci_address_device: the address is a command, not a question. *)
XhciAddressDevice ==
  /\ phase = "ask" /\ kind = "xhci" /\ step = 1
  /\ \E w \in {"done", "failed"}, ok \in BOOLEAN :
       /\ WaitEvent(w, ok)
       /\ IF ok THEN step' = 2 /\ phase' = phase ELSE step' = step /\ phase' = "scan"
  /\ UNCHANGED <<kind, port, used, memory, short, mouse, descriptor, reports, ring>>

(* usb_enumerate_device: the descriptors and the address, which must come;  *)
(* what they tell, usb_is_boot_mouse; then the configuration, the protocol  *)
(* and the idle rate, whose answers nobody looks at.                        *)
Questions == IF kind = "xhci" THEN <<0, 0, 1, 1, 0, 0, 0>> ELSE <<1, 0, 3, 1, 4, 0, 0, 0>>
Asked == step = Len(Questions)
Must == step < Len(Questions) - 3
LastMust == step = Len(Questions) - 4

Ask ==
  /\ phase = "ask" /\ ~Asked /\ (kind = "xhci" => step >= 2)
  /\ \E ok \in BOOLEAN :
       /\ Control(Questions[step + 1], ok)
       /\ \/ (ok \/ ~Must) /\ step' = step + 1 /\ phase' = phase
          \/ (~ok \/ LastMust) /\ Must /\ step' = step /\ phase' = "scan"
  /\ UNCHANGED <<kind, port, mouse, descriptor, reports, ring>>

-----------------------------------------------------------------------------
(* The interrupt endpoint.  A mouse whose endpoint could not be set up is   *)
(* in the table all the same, and never polled.                             *)

Held == CASE kind = "ohci" -> 2 [] kind = "ehci" -> 1 [] OTHER -> 0

Polled ==
  /\ mouse' = TRUE /\ short' = short
  /\ td' = "active" /\ linked' = TRUE /\ want' = toggle /\ toggle' = toggle

NotPolled == short' = TRUE /\ UNCHANGED <<mouse, descriptor>>

Setup(k, cells, tds) ==
  /\ phase = "ask" /\ Asked /\ kind = k
  /\ phase' = "scan"
  /\ \/ memory >= cells /\ used + tds <= Pool
       /\ memory' = memory - cells /\ used' = used + tds /\ Polled
     \/ memory < cells /\ memory' = 0 /\ used' = used /\ NotPolled
     \/ memory >= cells /\ used + tds > Pool
       /\ memory' = memory - cells /\ used' = Pool /\ NotPolled
  /\ UNCHANGED <<kind, port, step, reports, ring, events>>

(* A queue head, a descriptor and a buffer of its own.                      *)
UhciSetup == Setup("uhci", 3, 0)
(* Two descriptors of the pool, the second ends the list.                   *)
OhciSetup == Setup("ohci", 1, 2)
(* One descriptor of the pool, which is not checked.                        *)
EhciSetup == Setup("ehci", 1, 1)

(* A ring and a buffer; when the endpoint is not configured the mouse is    *)
(* polled in vain.                                                          *)
XhciSetup ==
  /\ phase = "ask" /\ Asked /\ kind = "xhci"
  /\ phase' = "scan"
  /\ IF memory < 2
       THEN memory' = 0 /\ NotPolled /\ UNCHANGED <<ring, events>>
       ELSE /\ memory' = memory - 2 /\ mouse' = TRUE /\ short' = short
            /\ UNCHANGED <<toggle, td, want, hcdeq, hccyc>>
            /\ \E w \in {"done", "failed"}, ok \in BOOLEAN :
                 /\ WaitEvent(w, ok)
                 /\ linked' = (w = "done")
                 /\ IF ok THEN RingWrite ELSE UNCHANGED <<enq, cyc, trb>>
  /\ UNCHANGED <<kind, port, step, used, reports>>

-----------------------------------------------------------------------------
(* The mouse and the controller, while the driver polls. *)

Move ==
  /\ phase = "poll" /\ report < MaxReports
  /\ report' = report + 1
  /\ UNCHANGED <<kind, phase, port, step, used, memory, short, mouse, descriptor,
                 ours, acked, buffer, got, applied, ring, events>>

(* A transaction of the bus: the report goes into the buffer when its       *)
(* toggle is the expected one, and the descriptor leaves the list; the      *)
(* acknowledgement may be lost.  One whose toggle differs is acknowledged   *)
(* and thrown away as a repetition.  An error retires the descriptor, which *)
(* only a UHCI queue still reaches then.                                    *)
Transact ==
  /\ phase = "poll" /\ kind # "xhci" /\ td = "active" /\ linked /\ report > acked
  /\ \/ /\ want = ours
        /\ td' = "done" /\ linked' = FALSE /\ buffer' = report
        /\ \/ acked' = report /\ ours' = 1 - ours
           \/ UNCHANGED <<acked, ours>>
     \/ /\ want # ours /\ kind # "ohci"
        /\ acked' = report /\ ours' = 1 - ours
        /\ UNCHANGED <<td, linked, buffer>>
     \/ /\ td' = "error" /\ linked' = (kind = "uhci")
        /\ UNCHANGED <<ours, acked, buffer>>
  /\ UNCHANGED <<kind, phase, port, step, used, memory, short, mouse, toggle, want,
                 report, got, applied, ring, events>>

(* The xHCI controller: over the link, or the transfer of a report. *)
XhciTransact ==
  /\ phase = "poll" /\ kind = "xhci" /\ linked /\ trb[hcdeq] = hccyc
  /\ \/ /\ hcdeq = Ring - 1
        /\ hcdeq' = 0 /\ hccyc' = 1 - hccyc
        /\ UNCHANGED <<acked, buffer, events>>
     \/ /\ hcdeq < Ring - 1 /\ report > acked
        /\ hcdeq' = hcdeq + 1 /\ hccyc' = hccyc
        /\ buffer' = report /\ acked' = report
        /\ Post("report")
        /\ UNCHANGED <<deq, evcyc, stray>>
  /\ UNCHANGED <<kind, phase, port, step, used, memory, short, mouse, descriptor,
                 ours, report, got, applied, enq, cyc, trb>>

(* A port changes while the mouse is polled. *)
PortEvent ==
  /\ phase = "poll" /\ kind = "xhci" /\ ~stray
  /\ Post("port") /\ stray' = TRUE
  /\ UNCHANGED <<kind, phase, port, step, used, memory, short, mouse, descriptor,
                 reports, ring, deq, evcyc>>

-----------------------------------------------------------------------------
(* mouse_poll. *)

Apply == got' = buffer /\ applied' = 1 - applied

Rearm ==
  /\ toggle' = 1 - toggle /\ want' = 1 - toggle
  /\ td' = "active"
  /\ UNCHANGED <<kind, phase, port, step, used, memory, short, mouse, linked,
                 ours, report, acked, buffer, ring, events>>

(* uhci_poll_mouse: a descriptor that was retired is armed again, with the  *)
(* other toggle whatever became of it.                                      *)
UhciPoll ==
  /\ phase = "poll" /\ kind = "uhci" /\ td # "active"
  /\ IF td = "done" THEN Apply ELSE UNCHANGED <<got, applied>>
  /\ Rearm

(* ohci_poll_mouse: an armed descriptor looks like one that succeeded. *)
OhciPoll ==
  /\ phase = "poll" /\ kind = "ohci"
  /\ IF td # "error" THEN Apply ELSE UNCHANGED <<got, applied>>
  /\ Rearm

EhciPoll ==
  /\ phase = "poll" /\ kind = "ehci" /\ td # "active"
  /\ IF td = "done" THEN Apply ELSE UNCHANGED <<got, applied>>
  /\ Rearm

(* xhci_poll_mouse: one event, and one more transfer whatever it was. *)
XhciPoll ==
  /\ phase = "poll" /\ kind = "xhci" /\ Pending
  /\ IF evt[deq].what = "report" THEN Apply ELSE UNCHANGED <<got, applied>>
  /\ Taken
  /\ RingWrite
  /\ UNCHANGED <<kind, phase, port, step, used, memory, short, mouse, descriptor,
                 ours, report, acked, buffer, hcdeq, hccyc, evt, hcenq, hcevt, stray>>

Next ==
  \/ UhciInit \/ OhciInit \/ EhciInit \/ XhciInit
  \/ UhciPortReset \/ OhciPortReset \/ EhciPortReset \/ XhciPortReset
  \/ Scanned \/ XhciEnableSlot \/ XhciAddressDevice \/ Ask
  \/ UhciSetup \/ OhciSetup \/ EhciSetup \/ XhciSetup
  \/ Move \/ Transact \/ XhciTransact \/ PortEvent
  \/ UhciPoll \/ OhciPoll \/ EhciPoll \/ XhciPoll

Spec == Init /\ [][Next]_vars

-----------------------------------------------------------------------------
(* Whatever a device answers, the pools hold what the polling holds and     *)
(* nothing more, unless memory ran out; and a report is applied after the   *)
(* earlier ones, and once, by every driver but OHCI's and as long as every  *)
(* event of an xHCI ring was waited for.                                    *)
Balanced == ~short => used = IF mouse THEN Held ELSE 0

ReportsInOrder ==
  [][/\ Balanced'
     /\ applied' # applied =>
          /\ got' >= got
          /\ kind # "ohci" /\ ~stray => got' > got]_vars
=============================================================================
