----------------------------- MODULE Devices -------------------------------
(***************************************************************************)
(* The drivers and services: the PS/2 and VMware mouse, the USB            *)
(* mouse on each kind of host controller, the network adapters, and the    *)
(* protocols that find addresses.  They share no state that a property is  *)
(* about, so a behaviour is one of a single part, and part, set at the     *)
(* start, says of which.                                                   *)
(***************************************************************************)
EXTENDS Mouse

CONSTANTS
  Ports, Pool, Memories, Ring, Events, MaxReports,          \* of UsbMouse
  Buffers, RingSize, Words, Start, Stop,                  \* of Adapters
  MaxFrames, MaxPackets, MaxSends,                        \* of Adapters
  Hosts, StaticHosts, Offers, Neighbours, CacheSize, Attempts, Retries,  \* of Network
  Sectors, Slices, Values, MaxOps,                        \* of Ata
  Names, Secrets, MaxTicks, MaxCuts,                      \* of Installer
  MaxData, MaxIdle,                                       \* of Tls and Http
  MaxHeaders, MaxHeader, MaxStatus, MaxBody, MaxResponse, MinResponse,  \* of Http
  Lbas, DirSectors, SectorBytes, MaxVisited, MaxCalls,    \* of Fat
  Screens, MaxSectors, MaxTurns,                          \* of Pictures
  MaxDownload, MaxFile                                    \* of Wget

(* The values that are not numbers of things.                               *)
CONSTANTS
  Layouts,                                                \* of Ata
  Token,                                                  \* of Installer
  Responses,                                              \* of Http
  Volumes, FatCalls,                                      \* of Fat
  Icons, Paths, Medias,                                   \* of Pictures
  Downloads, Urls                                         \* of Wget

(* There is room for an ARP entry, and no host is called like no host.      *)
ASSUME NetworkAssumption == CacheSize \in Nat \ {0} /\ "none" \notin Hosts

(* Each buffer has an entry in a ring, ring indices go round a whole number *)
(* of times before they wrap, and a card has a page besides the boundary.   *)
ASSUME CardAssumption ==
  /\ Buffers \in Nat \ {0} /\ RingSize \in Nat /\ Buffers <= RingSize
  /\ Words \in Nat /\ Buffers < Words /\ Words % RingSize = 0
  /\ Start \in Nat /\ Stop \in Nat /\ Start + 1 < Stop

(* The progress bar moves.                                                  *)
ASSUME SetupAssumption == MaxTicks \in Nat \ {0}

(* A cluster fits into the buffer that directories are read to: neither a   *)
(* mount nor a read compares the two, and a larger one is not modelled.     *)
ASSUME VolumeAssumption ==
  \A l \in Lbas : Volumes[l].good => Volumes[l].span \in 1..DirSectors

(* The sectors of the disk are numbered from zero.                          *)
ASSUME DiskAssumption == Sectors \in Nat

(* A pool is large enough for a control transfer of four packets, and the   *)
(* transfer ring has two entries besides its link.                          *)
ASSUME UsbAssumption == Pool \in Nat /\ 6 <= Pool /\ Ring \in Nat /\ 3 <= Ring /\ Events \in Nat \ {0}

VARIABLES
  part,
  controller, phase, port, step, descriptors, memory, short, mouse,
  toggle, td, linked, want, ours, report, acked, transfer, got, applied,
  enq, cyc, trb, hcdeq, hccyc, evt, hcenq, hcevt, deq, evcyc, stray,
  kind, avail, availIdx, seen, used, usedIdx, lastUsed, buffer, txFree, txRing,
  txBuffer, pages, curr, boundary, prx, trans, ptx, txe, waiting, late, arrived, read,
  given, sent,
  adapter, address, air, pc, left, arp_cache, last_dns_host, last_dns_ip,
  result, foreign,
  attached, drives, boot, cdrom, place, round, chosen, status, command, image,
  diskOp, diskPc, nth, tries, diskBuffer, diskResult, ops, erred,
  page, name, pass, confirm, progress, ok, todo, users, files, contents,
  disk, erased, wanted, before, cuts,
  tlsPc, flight, wire, rx, told, mine, theirs, parts, clientSeq, serverSeq,
  serverRead, serverWrote, ready, open, plain, tlsIdle, tlsResult,
  webPc, webOpen, response, received, webIdle, webResult, line, headers, body,
  valid, base, call, fatPc, back, cluster, visited, sector, entry, shown,
  fatBuffer, fatFailed, fatResult, calls,
  machine, goal, stages, paths, parents, dir, turn, found, icon, toLoad, mode,
  switched, wall, screen, cache, rendered, artPc, artFailed, turns,
  getPc, url, download, getOpen, block, getReceived, file, announced, getResult

usbVars == <<controller, phase, port, step, descriptors, memory, short, mouse,
             toggle, td, linked, want, ours, report, acked, transfer, got, applied,
             enq, cyc, trb, hcdeq, hccyc, evt, hcenq, hcevt, deq, evcyc, stray>>
cardVars == <<kind, avail, availIdx, seen, used, usedIdx, lastUsed, buffer, txFree,
              txRing, txBuffer, pages, curr, boundary, prx, trans, ptx, txe, waiting,
              late, arrived, read, given, sent>>
netVars == <<adapter, address, air, pc, left, arp_cache, last_dns_host,
             last_dns_ip, result, foreign>>

diskVars == <<attached, drives, boot, cdrom, place, round, chosen, status, command,
              image, diskOp, diskPc, nth, tries, diskBuffer, diskResult, ops, erred>>
setupVars == <<page, name, pass, confirm, progress, ok, todo, users, files,
               contents, disk, erased, wanted, before, cuts>>
tlsVars == <<tlsPc, flight, wire, rx, told, mine, theirs, parts, clientSeq, serverSeq,
             serverRead, serverWrote, ready, open, plain, tlsIdle, tlsResult>>
webVars == <<webPc, webOpen, response, received, webIdle, webResult, line, headers, body>>
fatVars == <<valid, base, call, fatPc, back, cluster, visited, sector, entry, shown,
             fatBuffer, fatFailed, fatResult, calls>>
artVars == <<machine, goal, stages, paths, parents, dir, turn, found, icon, toLoad, mode,
             switched, wall, screen, cache, rendered, artPc, artFailed, turns>>
getVars == <<getPc, url, download, getOpen, block, getReceived, file, announced, getResult>>

Usb == INSTANCE UsbMouse
         WITH kind <- controller, used <- descriptors, buffer <- transfer
Card == INSTANCE Adapters
Net == INSTANCE Network
Storage == INSTANCE Ata
         WITH op <- diskOp, pc <- diskPc, n <- nth, buffer <- diskBuffer, result <- diskResult
Setup == INSTANCE Installer WITH Words <- Secrets
Secure == INSTANCE Tls
         WITH pc <- tlsPc, sent <- flight, seen <- parts, got <- plain, idle <- tlsIdle, result <- tlsResult
Page == INSTANCE Http
         WITH pc <- webPc, open <- webOpen, idle <- webIdle, result <- webResult, status <- line
Reader == INSTANCE Fat
         WITH op <- call, pc <- fatPc, buffer <- fatBuffer, failed <- fatFailed, result <- fatResult
Art == INSTANCE Pictures
         WITH left <- parents, at <- turn, queue <- toLoad, pc <- artPc, failed <- artFailed
Get == INSTANCE Wget
         WITH Responses <- Downloads, pc <- getPc, response <- download, open <- getOpen,
              received <- getReceived, result <- getResult

Of(p) == part = p /\ part' = p

DevicesInit ==
  /\ part \in {"mouse", "usb", "card", "network", "disk", "setup", "tls", "http",
               "volume", "pictures", "wget"}
  /\ Init /\ Usb!Init /\ Card!Init /\ Net!Init /\ Storage!Init
  /\ Setup!Init /\ Reader!Init /\ Get!Init /\ Secure!Init /\ Page!Init /\ Art!Init

drivers == <<vars, usbVars, cardVars, netVars>>
stores == <<diskVars, fatVars, artVars>>
services == <<setupVars, tlsVars, webVars, getVars>>

MouseNext == Of("mouse") /\ Next /\ UNCHANGED <<usbVars, cardVars, netVars, stores, services>>
UsbNext == Of("usb") /\ Usb!Next /\ UNCHANGED <<vars, cardVars, netVars, stores, services>>
CardNext == Of("card") /\ Card!Next /\ UNCHANGED <<vars, usbVars, netVars, stores, services>>
NetworkNext == Of("network") /\ Net!Next /\ UNCHANGED <<vars, usbVars, cardVars, stores, services>>
DiskNext == Of("disk") /\ Storage!Next /\ UNCHANGED <<drivers, fatVars, artVars, services>>
VolumeNext == Of("volume") /\ Reader!Next /\ UNCHANGED <<drivers, diskVars, artVars, services>>
PicturesNext == Of("pictures") /\ Art!Next /\ UNCHANGED <<drivers, diskVars, fatVars, services>>
SetupNext == Of("setup") /\ Setup!Next /\ UNCHANGED <<drivers, stores, tlsVars, webVars, getVars>>
TlsNext == Of("tls") /\ Secure!Next /\ UNCHANGED <<drivers, stores, setupVars, webVars, getVars>>
HttpNext == Of("http") /\ Page!Next /\ UNCHANGED <<drivers, stores, setupVars, tlsVars, getVars>>
WgetNext == Of("wget") /\ Get!Next /\ UNCHANGED <<drivers, stores, setupVars, tlsVars, webVars>>

Own == part = "network" /\ Net!Own

all == <<part, drivers, stores, services>>

DevicesNext ==
  \/ MouseNext \/ UsbNext \/ CardNext \/ NetworkNext \/ DiskNext \/ VolumeNext
  \/ PicturesNext \/ SetupNext \/ TlsNext \/ HttpNext \/ WgetNext
DevicesSpec == DevicesInit /\ [][DevicesNext]_all /\ WF_netVars(Own)

(* The type of the part that runs; the others stay as they start. *)
DevicesTypeOK ==
  CASE part = "mouse" -> TypeOK [] part = "usb" -> Usb!TypeOK [] part = "card" -> Card!TypeOK
    [] part = "network" -> Net!TypeOK [] part = "disk" -> Storage!TypeOK
    [] part = "setup" -> Setup!TypeOK [] part = "tls" -> Secure!TypeOK
    [] part = "http" -> Page!TypeOK [] part = "volume" -> Reader!TypeOK
    [] part = "pictures" -> Art!TypeOK [] part = "wget" -> Get!TypeOK

(* UsbMouse: descriptors are given back, reports applied once and in order. *)
ReportsInOrder == Usb!ReportsInOrder

(* Adapters: frames are handed on once and in order, no buffer is lost; and  *)
(* they go out once and in order unless one is written over another.        *)
FramesInOrder == Card!FramesInOrder

(* Network: a lookup returns the address of the name it was asked for, and  *)
(* a packet goes to the hardware address of its neighbour.                  *)
RightAddress == Net!RightAddress

(* Ata: a sector read is the one asked for.  Installer: what it left        *)
(* unfinished does not count as installed.  Tls, Http, Wget: what is        *)
(* returned or saved is what was sent, and connections are closed.  Fat: a  *)
(* chain is followed in order.  Pictures: each picture is the first that    *)
(* can be found.                                                            *)
ServicesSound ==
  /\ part = "disk" => Storage!DiskSound
  /\ part = "setup" => Setup!InstallSound
  /\ part = "tls" => Secure!TlsSound
  /\ part = "http" => Page!HttpSound
  /\ part = "volume" => Reader!FatSound
  /\ part = "pictures" => Art!PicturesSound
  /\ part = "wget" => Get!WgetSound

(* Network: a bring-up and a lookup return.                                 *)
CallsReturn == Net!CallsReturn
=============================================================================
