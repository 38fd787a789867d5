------------------------------- MODULE Fetch -------------------------------
(***************************************************************************)
(* Fetching a page in AurionOS: http_get_simple (src/src/Blaze/            *)
(* blaze_net.c) on top of its TCP, a web server and the network between    *)
(* them.  The kernel waits by polling the network interface; its timers    *)
(* are tick counts.                                                        *)
(*                                                                         *)
(* A response is a header, one cell, and an entity.  The server says how   *)
(* long the entity is ("length"), closes at its end ("close") or sends the *)
(* reader elsewhere ("redirect").                                          *)
(***************************************************************************)
EXTENDS Tcp

CONSTANTS
  EntitySize,    \* cells of an entity
  Mss, Window,   \* cells in a segment; cells sent ahead of their acknowledgement
  Modes,         \* kinds of responses, see above
  MaxRetry,      \* SYNs that tcp_connect sends (3)
  IdleLimit,     \* reads in a row that may bring nothing (5)
  MaxFaults,     \* bound: segments lost, duplicated, delayed, refused, sent again
  Hasty,         \* whether a timer may run out while the peer still answers
  ServerStops    \* whether a server stops once its client has closed

ASSUME FetchAssumption ==
  /\ EntitySize \in Nat /\ Mss \in Nat \ {0} /\ Window \in Nat \ {0}
  /\ Modes \subseteq {"length", "close", "redirect"} 
  /\ MaxRetry \in Nat \ {0} /\ IdleLimit \in Nat /\ MaxFaults \in Nat
  /\ {Hasty, ServerStops} \subseteq BOOLEAN

VARIABLES
  pc,        \* where the kernel is
  retry,     \* tcp_connect
  idle,      \* idle_polls
  got,       \* buf up to total
  outcome,   \* how the last fetch ended
  server,    \* the server's side of each connection
  toClient,  \* segments on their way to the kernel
  faults     \* bound

fetching == <<pc, retry, idle, got, outcome>>
vars == <<tcb, toServer, fetching, server, toClient, faults>>

-----------------------------------------------------------------------------
(* The server: una and nxt are offsets of its stream, in which the SYN is 0 *)
(* and the end comes after the last cell.                                   *)

StreamEnd == EntitySize + 1
Source(c) == [n \in 1..StreamEnd |-> At(c, n)]

Reply(c, flags, seq, cells) ==
  [conn |-> c, flags |-> flags, seq |-> At(c, seq),
   ack |-> At(c, IF server'[c].st = "serving" THEN 2 ELSE 1),
   cells |-> cells]

TakeSyn(p) ==
  /\ "syn" \in p.flags
  /\ \/ /\ server[p.conn].st = "none"
        /\ \E m \in Modes : server' = [server EXCEPT ![p.conn] =
             [st |-> "syn", mode |-> m, una |-> 0, nxt |-> 1]]
     \/ server[p.conn].st = "syn" /\ UNCHANGED server
  /\ toClient' = Append(toClient, Reply(p.conn, {"syn", "ack"}, 0, <<>>))

(* A SYN once more on an open connection, or one that is over. *)
TakeOldSyn(p) ==
  /\ "syn" \in p.flags /\ server[p.conn].st \notin {"none", "syn"}
  /\ UNCHANGED <<server, toClient>>

(* Acknowledgement, request and end of the client's stream. *)
TakeSegment(p) ==
  /\ "syn" \notin p.flags
  /\ LET c == p.conn
         s == server[c]
         una == IF p.ack.conn = c /\ p.ack.off \in s.una..s.nxt
                  THEN p.ack.off ELSE s.una
         st == IF s.st = "none" \/ una = 0 THEN s.st
               ELSE IF ServerStops /\ "fin" \in p.flags THEN "stopped"
               ELSE IF s.st # "stopped" /\ p.cells # <<>> THEN "serving"
               ELSE IF s.st = "syn" THEN "open" ELSE s.st
     IN /\ server' = [server EXCEPT ![c].una = una, ![c].st = st]
        /\ toClient' =
             IF st = "serving" /\ p.cells # <<>>
               THEN Append(toClient, Reply(c, {"ack"}, s.nxt, <<>>))
               ELSE toClient

(* The next cells, the last of them with the end of the stream or before it. *)
CanSend(c) ==
  /\ server[c].st = "serving"
  /\ \/ server[c].nxt <= StreamEnd /\ server[c].nxt - server[c].una < Window
     \/ server[c].nxt = StreamEnd + 1

ServerSend(c) ==
  LET s == server[c] IN
  /\ s.st = "serving" /\ s.nxt <= StreamEnd + 1
  /\ \E n \in 0..Mss, fin \in BOOLEAN :
       /\ n > 0 \/ fin
       /\ s.nxt + n - s.una <= Window
       /\ s.nxt + n <= StreamEnd + 1 /\ (fin => s.nxt + n = StreamEnd + 1)
       /\ server' = [server EXCEPT ![c].nxt = @ + n + (IF fin THEN 1 ELSE 0)]
       /\ toClient' = Append(toClient,
            Reply(c, IF fin THEN {"ack", "fin"} ELSE {"ack"}, s.nxt,
                  SubSeq(Source(c), s.nxt, s.nxt + n - 1)))
  /\ UNCHANGED <<tcb, toServer, fetching, faults>>

(* What is not acknowledged in time is sent again. *)
ServerRetransmit(c) ==
  LET s == server[c] IN
  /\ faults < MaxFaults /\ faults' = faults + 1
  /\ s.st = "serving" /\ s.una \in 1..StreamEnd /\ s.una < s.nxt
  /\ UNCHANGED <<tcb, toServer, fetching, server>>
  /\ toClient' = Append(toClient,
       Reply(c, {"ack"}, s.una, SubSeq(Source(c), s.una, s.una)))

ServerTake ==
  /\ toServer # <<>>
  /\ TakeSyn(Head(toServer)) \/ TakeOldSyn(Head(toServer))
       \/ TakeSegment(Head(toServer))
  /\ toServer' = Tail(toServer)
  /\ UNCHANGED <<tcb, fetching, faults>>

-----------------------------------------------------------------------------
(* The network. *)

Lose ==
  /\ faults < MaxFaults /\ faults' = faults + 1
  /\ \/ \E i \in DOMAIN toClient :
           toClient' = RemoveAt(toClient, i) /\ UNCHANGED toServer
     \/ \E i \in DOMAIN toServer :
           toServer' = RemoveAt(toServer, i) /\ UNCHANGED toClient
  /\ UNCHANGED <<tcb, fetching, server>>

(* A copy arrives later. *)
Duplicate ==
  /\ faults < MaxFaults /\ faults' = faults + 1
  /\ \/ \E i \in DOMAIN toClient :
           toClient' = Append(toClient, toClient[i]) /\ UNCHANGED toServer
     \/ \E i \in DOMAIN toServer :
           toServer' = Append(toServer, toServer[i]) /\ UNCHANGED toClient
  /\ UNCHANGED <<tcb, fetching, server>>

(* A segment is overtaken by all others. *)
Delay ==
  /\ faults < MaxFaults /\ faults' = faults + 1
  /\ \E i \in DOMAIN toClient :
        toClient' = Append(RemoveAt(toClient, i), toClient[i])
  /\ UNCHANGED <<tcb, toServer, fetching, server>>

(* Nothing more is on its way unless the kernel does something. *)
Quiet ==
  /\ toClient = <<>> /\ toServer = <<>>
  /\ \A c \in Connections : ~CanSend(c)

TimeOut == Hasty \/ Quiet

-----------------------------------------------------------------------------
(* The kernel. *)

Finish(result) == pc' = "idle" /\ outcome' = result

(* http_get_simple up to the first SYN of tcp_connect. *)
Start ==
  /\ pc = "idle" /\ TcpOpen
  /\ retry' = 0 /\ idle' = 0 /\ got' = <<>>
  /\ pc' = "syn" /\ outcome' = "none"
  /\ UNCHANGED <<server, toClient, faults>>

SendSyn ==
  /\ pc = "syn" /\ retry < MaxRetry
  /\ TcpSyn
  /\ pc' = "synwait"
  /\ UNCHANGED <<retry, idle, got, outcome, server, toClient, faults>>

(* The interface refuses the packet. *)
SynFails ==
  /\ pc = "syn" /\ retry < MaxRetry
  /\ faults < MaxFaults /\ faults' = faults + 1
  /\ retry' = retry + 1
  /\ UNCHANGED <<tcb, toServer, pc, idle, got, outcome, server, toClient>>

(* Faulty variant: the control block stays in SYN_SENT. *)
OpenEndedConnectFails ==
  /\ pc = "syn" /\ retry = MaxRetry
  /\ Finish("failed")
  /\ UNCHANGED <<tcb, toServer, retry, idle, got, server, toClient, faults>>

ConnectFails ==
  /\ pc = "syn" /\ retry = MaxRetry
  /\ state' = "closed"
  /\ Finish("failed")
  /\ UNCHANGED <<conn, snd, rcv, rx, processed, hasData, toServer>>
  /\ UNCHANGED <<retry, idle, got, server, toClient, faults>>

(* netif_poll: one packet, in a place where the kernel waits. *)
Poll ==
  /\ \/ pc \in {"synwait", "polls"}
     \/ pc = "receive" /\ ~hasData /\ state = "established"
  /\ toClient # <<>>
  /\ TcpProcess(Head(toClient))
  /\ toClient' = Tail(toClient)
  /\ UNCHANGED <<fetching, server, faults>>

Connected ==
  /\ pc = "synwait" /\ state = "established"
  /\ pc' = "request"
  /\ UNCHANGED <<tcb, toServer, retry, idle, got, outcome, server, toClient, faults>>

SynTimeout ==
  /\ pc = "synwait" /\ state # "established" /\ TimeOut
  /\ retry' = retry + 1
  /\ pc' = "syn"
  /\ UNCHANGED <<tcb, toServer, idle, got, outcome, server, toClient, faults>>

SendRequest ==
  /\ pc = "request"
  /\ TcpSend(<<At(conn, 1)>>)
  /\ pc' = "allocate"
  /\ UNCHANGED <<retry, idle, got, outcome, server, toClient, faults>>

(* The buffer of the response. *)
Allocate ==
  /\ pc = "allocate"
  /\ pc' = "polls"
  /\ UNCHANGED <<tcb, toServer, retry, idle, got, outcome, server, toClient, faults>>

(* No memory for it, or the user presses ESC. *)
GiveUp ==
  /\ pc \in {"allocate", "polls"}
  /\ TcpClose
  /\ Finish("failed")
  /\ UNCHANGED <<retry, idle, got, server, toClient, faults>>

EndPolls ==
  /\ pc = "polls"
  /\ pc' = "receive"
  /\ UNCHANGED <<tcb, toServer, retry, idle, got, outcome, server, toClient, faults>>

(* The header, if the cells begin with one. *)
HasHeader(cells) == cells # <<>> /\ cells[1].off = 1
Mode(cells) == server[cells[1].conn].mode

(* Faulty variant: a read that brings nothing is not counted. *)
UncountedIdlePolls == IF Handed # <<>> THEN 0 ELSE idle

IdlePolls == IF Handed # <<>> THEN 0 ELSE idle + 1

(* tcp_receive returns, and the loop of http_get_simple decides what next. *)
Receive ==
  LET cells == got \o Handed
      tired == IdlePolls > IdleLimit
      complete ==
        /\ HasHeader(cells)
        /\ \/ Mode(cells) = "length" /\ Len(cells) >= StreamEnd
           \/ Mode(cells) = "close" /\ IdlePolls > 2 /\ cells # <<>>
  IN
  /\ pc = "receive"
  /\ hasData \/ state # "established" \/ TimeOut
  /\ TcpRead
  /\ got' = cells /\ idle' = IdlePolls
  /\ pc' = IF ~tired /\ HasHeader(cells) /\ Mode(cells) = "redirect" THEN "moved"
           ELSE IF tired \/ complete THEN "done" ELSE "polls"
  /\ UNCHANGED <<retry, outcome, server, toClient, faults>>

(* A redirection leaves the connection at once. *)
Moved ==
  /\ pc = "moved"
  /\ TcpClose
  /\ Finish("redirect")
  /\ UNCHANGED <<retry, idle, got, server, toClient, faults>>

Done ==
  /\ pc = "done"
  /\ TcpClose
  /\ Finish(IF ~HasHeader(got) THEN "failed"
            ELSE IF Mode(got) = "redirect" THEN "redirect" ELSE "ok")
  /\ UNCHANGED <<retry, idle, got, server, toClient, faults>>

-----------------------------------------------------------------------------
Init ==
  /\ TcpInit
  /\ pc = "idle" /\ retry = 0 /\ idle = 0 /\ got = <<>> /\ outcome = "none"
  /\ server = [c \in Connections |->
                 [st |-> "none", mode |-> "none", una |-> 0, nxt |-> 0]]
  /\ toClient = <<>>
  /\ faults = 0

Kernel ==
  \/ SendSyn \/ SynFails \/ ConnectFails \/ Poll \/ Connected \/ SynTimeout
  \/ SendRequest \/ Allocate \/ GiveUp \/ EndPolls \/ Receive \/ Moved \/ Done

World ==
  \/ ServerTake
  \/ \E c \in Connections : ServerSend(c) \/ ServerRetransmit(c)
  \/ Lose \/ Duplicate \/ Delay

(* The user has fetched enough. *)
Stop == pc = "idle" /\ conn = MaxConnects /\ UNCHANGED vars

Next == Start \/ Kernel \/ World \/ Stop

(* The loops of the kernel count their rounds and watch the clock, whatever *)
(* the network does.                                                        *)
Spec == Init /\ [][Next]_vars /\ WF_vars(Kernel)

-----------------------------------------------------------------------------
(* Properties *)

TypeOK ==
  /\ conn \in 0..MaxConnects
  /\ state \in {"closed", "syn_sent", "established"}
  /\ Len(rx) < BufferSize /\ processed \in 0..Len(rx)
  /\ hasData \in BOOLEAN
  /\ pc \in {"idle", "syn", "synwait", "request", "allocate", "polls",
             "receive", "moved", "done"}
  /\ retry \in 0..MaxRetry /\ idle \in 0..(IdleLimit + 1)
  /\ outcome \in {"none", "ok", "redirect", "failed"}

(* The reader reads what the server of this connection sent, in order and   *)
(* each cell once: the TCP implements a stream.  This takes a network that  *)
(* neither loses, repeats nor reorders: tcp_process looks at no sequence    *)
(* number and at no port.                                                   *)
Streams == INSTANCE Stream
ReliableStream == Streams!Spec

(* What the server takes for delivered is in the buffer of the kernel: it   *)
(* will never be sent again.                                                *)
AcknowledgedIsKept ==
  conn > 0 =>
    LET delivered == server[conn].una - 1
    IN  \A n \in 1..StreamEnd : n <= delivered => Contains(rx, At(conn, n))

(* "read full entity body using Content-Length, chunked, or until close"    *)
(* (blaze_net.c): a fetch that succeeds has all of the entity.              *)
EntityComplete == (pc = "idle" /\ outcome = "ok") => got = Source(conn)

(* has_data says exactly whether something is unread: were it lost, the     *)
(* wait of tcp_receive would not end on what has already arrived.           *)
FlagMeansUnread == hasData <=> processed < Len(rx)

(* However a fetch ends, the one control block is closed: a late segment    *)
(* cannot open or feed a connection that nobody reads.                      *)
EveryReturnCloses == pc = "idle" => state = "closed"

(* What a connection kept stays in the buffer, and an unread cell is never  *)
(* skipped: the cells read are those kept, in the order of arrival.         *)
ReadsInOrder == pc # "idle" => got = SubSeq(rx, 1, processed)

(* Every fetch comes back, whatever the network and the server do.          *)
FetchReturns == (pc # "idle") ~> (pc = "idle")
=============================================================================
