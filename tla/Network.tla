------------------------------ MODULE Network ------------------------------
(***************************************************************************)
(* How the machine gets an address and finds the addresses of others: the  *)
(* bring-up with DHCP (network_bringup.c, wifi_autostart.c, NETSTART), the *)
(* one-name cache and the retries of dns_resolve, the ARP cache and        *)
(* ip_send (tcp_ip_stack.c), all fed by netif_poll (network_interface.c).  *)
(*                                                                         *)
(* Frames on their way are a set: they may be lost, come late, in another  *)
(* order or twice.  Host names are shorter than last_dns_host.             *)
(***************************************************************************)
EXTENDS Naturals, Sequences, FiniteSets

CONSTANTS
  Hosts,       \* names that are looked up
  StaticHosts, \* those in static_dns
  Offers,      \* addresses that DHCP servers offer
  Neighbours,  \* addresses on the own network, "gateway" among them
  CacheSize,   \* ARP_CACHE_SIZE
  Attempts,    \* DISCOVERs of a bring-up
  Retries      \* queries of a lookup

VARIABLES
  adapter,       \* what sending returns: "length" (VirtIO, RTL8139) or "zero" (NE2000)
  address,       \* ip_addr of the default interface, or None
  air,           \* frames on their way to the machine
  pc,            \* "idle", or inside a bring-up or a lookup
  left,          \* attempts that remain
  arp_cache,     \* a sequence of at most CacheSize [ip, mac]
  last_dns_host, last_dns_ip,  \* the cache of one name
  result,        \* what the last lookup returned: [host, ip], or Nothing
  foreign        \* history: answers for other names were on their way when
                 \* last_dns_host was set

vars == <<adapter, address, air, pc, left, arp_cache, last_dns_host,
          last_dns_ip, result, foreign>>

None == "none"
Fallback == "10.0.2.15"
Broadcast == "ff:ff"      \* where a packet goes whose neighbour is not known
Router == "52:55"         \* and one for the gateway, that of QEMU
OfHost(h) == h     \* the address of a host, and the hardware address of a
MacOf(n) == n      \* neighbour, are told apart by whose they are
Nothing == [host |-> None, ip |-> None]
Offer(a) == [kind |-> "offer", from |-> a, value |-> a]
Answer(h) == [kind |-> "answer", from |-> h, value |-> OfHost(h)]
Reply(n) == [kind |-> "arp", from |-> n, value |-> MacOf(n)]
Frames == {Offer(a) : a \in Offers} \cup {Answer(h) : h \in Hosts \ StaticHosts}
          \cup {Reply(n) : n \in Neighbours}

TypeOK ==
  /\ adapter \in {"length", "zero"}
  /\ address \in Offers \cup {Fallback, None}
  /\ air \subseteq Frames
  /\ pc \in {"idle", "ensure", "ensure wait", "start", "start wait",
             "autostart", "autostart wait", "query", "query wait"}
  /\ left \in 0..(Attempts + Retries)
  /\ arp_cache \in Seq([ip : Neighbours, mac : {MacOf(n) : n \in Neighbours}]) /\ Len(arp_cache) <= CacheSize
  /\ last_dns_host \in Hosts \cup {None}
  /\ last_dns_ip \in {OfHost(h) : h \in Hosts} \cup {None}
  /\ result \in [host : Hosts \cup {None}, ip : {OfHost(h) : h \in Hosts} \cup {None}]
  /\ foreign \in BOOLEAN

Init ==
  /\ adapter \in {"length", "zero"}
  /\ address = None /\ air = {} /\ pc = "idle" /\ left = 0
  /\ arp_cache = <<>>
  /\ last_dns_host = None /\ last_dns_ip = None
  /\ result = Nothing /\ foreign = FALSE

-----------------------------------------------------------------------------
(* The world. *)

Lose ==
  /\ \E f \in air : air' = air \ {f}
  /\ UNCHANGED <<adapter, address, pc, left, arp_cache, last_dns_host,
                 last_dns_ip, result, foreign>>

(* A neighbour answers a request, its own or one of before. *)
Speak ==
  /\ \E n \in Neighbours : air' = air \cup {Reply(n)}
  /\ UNCHANGED <<adapter, address, pc, left, arp_cache, last_dns_host,
                 last_dns_ip, result, foreign>>

-----------------------------------------------------------------------------
(* netif_poll: one frame, if there is one, goes through ip_receive. *)

(* arp_add_entry: a free entry, or the first; an address that is there        *)
(* already gets a second entry.                                               *)
arp_add_entry(n, m) ==
  IF Len(arp_cache) < CacheSize
    THEN Append(arp_cache, [ip |-> n, mac |-> m])
    ELSE [arp_cache EXCEPT ![1] = [ip |-> n, mac |-> m]]

(* arp_resolve: the first entry for an address. *)
arp_resolve(n) ==
  LET S == {i \in 1..Len(arp_cache) : arp_cache[i].ip = n}
  IN  IF S = {} THEN None ELSE arp_cache[CHOOSE i \in S : \A j \in S : i <= j].mac

(* Every OFFER configures the interface; every DNS answer is taken for one    *)
(* to the last question.                                                      *)
dhcp_process(f) == IF f.kind = "offer" THEN f.value ELSE address
udp_process(f) == IF f.kind = "answer" THEN f.value ELSE last_dns_ip
arp_process(f) == IF f.kind = "arp" THEN arp_add_entry(f.from, f.value) ELSE arp_cache

ip_receive(f) ==
  /\ address' = dhcp_process(f)
  /\ last_dns_ip' = udp_process(f)
  /\ arp_cache' = arp_process(f)
  /\ air' \in {air, air \ {f}}

(* While nothing is looked up: a connection or an open program polls. *)
IdlePoll ==
  /\ pc = "idle"
  /\ \E f \in air : ip_receive(f)
  /\ UNCHANGED <<adapter, pc, left, last_dns_host, result, foreign>>

(* ip_send: where a packet for a neighbour, or through the gateway, goes. *)
ip_send(n) ==
  IF arp_resolve(n) # None THEN arp_resolve(n)
  ELSE IF n = "gateway" THEN Router ELSE Broadcast

-----------------------------------------------------------------------------
(* Bring-up. *)

(* network_ensure_ready (pages), NETSTART (command), wifi_autostart (shell). *)
BringUp ==
  /\ pc = "idle"
  /\ \/ pc' = "ensure" /\ address = None
     \/ pc' \in {"start", "autostart"}
  /\ left' = Attempts
  /\ UNCHANGED <<adapter, address, air, arp_cache, last_dns_host, last_dns_ip,
                 result, foreign>>

Discovering == pc \in {"ensure", "start", "autostart"}
Waits == IF pc = "ensure" THEN adapter = "zero" ELSE TRUE

(* Faulty variant: an attempt after which nobody waits is not counted. *)
EndlessDiscover ==
  /\ Discovering /\ left > 0 /\ ~(pc = "ensure" /\ address # None)
  /\ \E offered \in SUBSET Offers : air' = air \cup {Offer(a) : a \in offered}
  /\ pc' = IF Waits THEN [ensure |-> "ensure wait", start |-> "start wait",
                          autostart |-> "autostart wait"][pc]
           ELSE pc
  /\ left' = IF Waits THEN left - 1 ELSE left
  /\ UNCHANGED <<adapter, address, arp_cache, last_dns_host, last_dns_ip,
                 result, foreign>>

(* dhcp_discover: the servers may answer.  network_ensure_ready waits only    *)
(* when sending returned 0, as the NE2000's does, and not with the others,    *)
(* which return the length.                                                   *)
Discover ==
  /\ Discovering /\ left > 0 /\ ~(pc = "ensure" /\ address # None)
  /\ \E offered \in SUBSET Offers : air' = air \cup {Offer(a) : a \in offered}
  /\ pc' = IF Waits THEN [ensure |-> "ensure wait", start |-> "start wait",
                          autostart |-> "autostart wait"][pc]
           ELSE pc
  /\ left' = left - 1
  /\ UNCHANGED <<adapter, address, arp_cache, last_dns_host, last_dns_ip,
                 result, foreign>>

Waiting == pc \in {"ensure wait", "start wait", "autostart wait"}
Again == CASE pc = "ensure wait" -> "ensure"
           [] pc = "start wait" -> "start"
           [] pc = "autostart wait" -> "autostart"

(* A poll that brings no address, or one that does and ends the bring-up. *)
WaitPoll ==
  /\ Waiting /\ address = None
  /\ \E f \in air : ip_receive(f)
  /\ pc' = IF address' # None THEN "idle" ELSE pc
  /\ UNCHANGED <<adapter, left, last_dns_host, result, foreign>>

(* Time is up; an address that was there before ends the waiting as well.    *)
WaitEnds ==
  /\ Waiting
  /\ pc' = IF address # None THEN "idle" ELSE Again
  /\ UNCHANGED <<adapter, address, air, left, arp_cache, last_dns_host,
                 last_dns_ip, result, foreign>>

(* No attempt is left: only wifi_autostart falls back to a fixed address.     *)
GiveUp ==
  /\ Discovering
  /\ left = 0 \/ (pc = "ensure" /\ address # None)
  /\ pc' = "idle"
  /\ address' = IF pc = "autostart" /\ address = None THEN Fallback ELSE address
  /\ UNCHANGED <<adapter, air, left, arp_cache, last_dns_host, last_dns_ip,
                 result, foreign>>

-----------------------------------------------------------------------------
(* dns_resolve. *)

(* Faulty variant: the answer to the previous question is kept.              *)
KeepingAsk(h) ==
  /\ last_dns_host' = h /\ UNCHANGED last_dns_ip
  /\ pc' = "query" /\ left' = Retries /\ UNCHANGED result
  /\ foreign' = (\E f \in air : f.kind = "answer" /\ f.from # h)

Ask(h) ==
  /\ last_dns_host' = h /\ last_dns_ip' = None
  /\ pc' = "query" /\ left' = Retries /\ UNCHANGED result
  /\ foreign' = (\E f \in air : f.kind = "answer" /\ f.from # h)

(* The cache, then the table, then a question to the server. *)
Lookup ==
  /\ pc = "idle"
  /\ \E h \in Hosts :
       IF last_dns_host = h /\ last_dns_ip # None
         THEN /\ result' = [host |-> h, ip |-> last_dns_ip]
              /\ UNCHANGED <<last_dns_host, last_dns_ip, pc, left, foreign>>
       ELSE IF h \in StaticHosts
         THEN /\ result' = [host |-> h, ip |-> OfHost(h)]
              /\ last_dns_host' = h /\ last_dns_ip' = OfHost(h)
              /\ foreign' = (\E f \in air : f.kind = "answer" /\ f.from # h)
              /\ UNCHANGED <<pc, left>>
       ELSE Ask(h)
  /\ UNCHANGED <<adapter, address, air, arp_cache>>

(* Every query carries the same number, and the port it comes from is not     *)
(* looked at when an answer comes.                                            *)
Query ==
  /\ pc = "query" /\ left > 0
  /\ air' \in {air, air \cup {Answer(last_dns_host)}}
  /\ pc' = "query wait" /\ left' = left - 1
  /\ UNCHANGED <<adapter, address, arp_cache, last_dns_host, last_dns_ip,
                 result, foreign>>

QueryPoll ==
  /\ pc = "query wait"
  /\ \E f \in air : ip_receive(f)
  /\ IF last_dns_ip' # None
       THEN pc' = "idle" /\ result' = [host |-> last_dns_host, ip |-> last_dns_ip']
       ELSE UNCHANGED <<pc, result>>
  /\ UNCHANGED <<adapter, left, last_dns_host, foreign>>

QueryTimeout ==
  /\ pc = "query wait"
  /\ pc' = "query"
  /\ UNCHANGED <<adapter, address, air, left, arp_cache, last_dns_host,
                 last_dns_ip, result, foreign>>

LookupFails ==
  /\ pc = "query" /\ left = 0
  /\ pc' = "idle" /\ result' = Nothing
  /\ UNCHANGED <<adapter, address, air, left, arp_cache, last_dns_host,
                 last_dns_ip, foreign>>

Next ==
  \/ Lose \/ Speak \/ IdlePoll
  \/ BringUp \/ Discover \/ WaitPoll \/ WaitEnds \/ GiveUp
  \/ Lookup \/ Query \/ QueryPoll \/ QueryTimeout \/ LookupFails

(* The waits are bounded by ticks and by turns, whatever arrives. *)
Own == Discover \/ WaitEnds \/ GiveUp \/ Query \/ QueryTimeout \/ LookupFails

Spec == Init /\ [][Next]_vars /\ WF_vars(Own)

-----------------------------------------------------------------------------
(* An address that a lookup returns was given for that very name: the one     *)
(* shared slot of the answers and of the cache is told apart from lookup to   *)
(* lookup, as long as no answer for another name was still on its way when    *)
(* the name was set.  A packet goes to the hardware address of its own        *)
(* neighbour, through every replacement of the ARP cache.                     *)
RightAddress ==
  /\ result # Nothing /\ result.host = last_dns_host /\ ~foreign
       => result.ip = OfHost(result.host)
  /\ \A n \in Neighbours : ip_send(n) \in {MacOf(n), Broadcast, Router}

(* A bring-up and a lookup return after their attempts, whether frames are    *)
(* lost or keep coming.                                                       *)
CallsReturn == pc # "idle" ~> pc = "idle"
=============================================================================
