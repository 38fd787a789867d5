-------------------------------- MODULE Tcp --------------------------------
(***************************************************************************)
(* The TCP of AurionOS (src/src/tcp_ip_stack.c): one connection at a time, *)
(* held in the control block tcb.  Segments are handled when the caller    *)
(* polls the network interface; nothing runs beside it.                    *)
(*                                                                         *)
(* A payload is a sequence of cells, each standing for some bytes of the   *)
(* stream.  A sequence number is a position: the connection whose initial  *)
(* number it counts from, and an offset.                                   *)
(***************************************************************************)
EXTENDS Naturals, Sequences, SequencesExt

CONSTANTS
  MaxConnects,   \* bound: connections that are opened
  BufferSize,    \* cells of tcb.rx_buffer
  MaxRead        \* cells that a caller of tcp_receive has room for

ASSUME TcpAssumption ==
  MaxConnects \in Nat /\ BufferSize \in Nat \ {0} /\ MaxRead \in Nat \ {0}

VARIABLES
  conn,         \* number of the last connection: the port it is bound to
  state,        \* tcb.state
  snd,          \* tcb.snd_nxt
  rcv,          \* tcb.rcv_nxt
  rx,           \* tcb.rx_buffer up to rx_len
  processed,    \* tcb.rx_processed
  hasData,      \* tcb.has_data
  toServer      \* segments on their way to the server

tcb == <<conn, state, snd, rcv, rx, processed, hasData>>

Connections == 1..MaxConnects
At(c, n) == [conn |-> c, off |-> n]
Advance(p, n) == [p EXCEPT !.off = @ + n]

Segment(flags, seq, ack, cells) ==
  [conn |-> conn, flags |-> flags, seq |-> seq, ack |-> ack, cells |-> cells]

TcpInit ==
  /\ conn = 0 /\ state = "closed"
  /\ snd = At(0, 0) /\ rcv = At(0, 0)
  /\ rx = <<>> /\ processed = 0 /\ hasData = FALSE
  /\ toServer = <<>>

-----------------------------------------------------------------------------
(* tcp_process: what a segment p does. *)

IsSynAck(p) == {"syn", "ack"} \subseteq p.flags

(* Closed, or a segment that is not the answer to the SYN. *)
IgnoreSegment(p) ==
  /\ state = "closed" \/ (state = "syn_sent" /\ ~IsSynAck(p))
  /\ UNCHANGED <<tcb, toServer>>

AcceptSynAck(p) ==
  /\ state = "syn_sent" /\ IsSynAck(p)
  /\ state' = "established"
  /\ rcv' = Advance(p.seq, 1)
  /\ snd' = p.ack
  /\ toServer' = Append(toServer, Segment({"ack"}, snd', rcv', <<>>))
  /\ UNCHANGED <<conn, rx, processed, hasData>>

(* Faulty variant: the buffer may be filled to its last cell. *)
LooseFits(cells) == Len(rx) + Len(cells) <= BufferSize

(* Room for the payload: without it the segment is dropped unacknowledged. *)
Fits(cells) == Len(rx) + Len(cells) < BufferSize

(* Faulty variant: the end of the stream is taken before the last payload. *)
FinFirstReceive(p) ==
  /\ state = "established"
  /\ LET fin == "fin" \in p.flags
         keep == p.cells # <<>> /\ Fits(p.cells) /\ ~fin
         after == IF keep THEN Advance(rcv, Len(p.cells)) ELSE rcv
     IN /\ rx' = IF keep THEN rx \o p.cells ELSE rx
        /\ hasData' = (hasData \/ keep)
        /\ rcv' = IF fin THEN Advance(after, 1) ELSE after
        /\ state' = IF fin THEN "closed" ELSE state
        /\ toServer' = toServer
             \o (IF keep THEN <<Segment({"ack"}, snd, after, <<>>)>> ELSE <<>>)
             \o (IF fin THEN <<Segment({"ack", "fin"}, snd, rcv', <<>>)>> ELSE <<>>)
  /\ UNCHANGED <<conn, snd, processed>>

ReceiveSegment(p) ==
  /\ state = "established"
  /\ LET keep == p.cells # <<>> /\ Fits(p.cells)
         after == IF keep THEN Advance(rcv, Len(p.cells)) ELSE rcv
         fin == "fin" \in p.flags
     IN /\ rx' = IF keep THEN rx \o p.cells ELSE rx
        /\ hasData' = (hasData \/ keep)
        /\ rcv' = IF fin THEN Advance(after, 1) ELSE after
        /\ state' = IF fin THEN "closed" ELSE state
        /\ toServer' = toServer
             \o (IF keep THEN <<Segment({"ack"}, snd, after, <<>>)>> ELSE <<>>)
             \o (IF fin THEN <<Segment({"ack", "fin"}, snd, rcv', <<>>)>> ELSE <<>>)
  /\ UNCHANGED <<conn, snd, processed>>

TcpProcess(p) == IgnoreSegment(p) \/ AcceptSynAck(p) \/ ReceiveSegment(p)

-----------------------------------------------------------------------------
(* The calls. *)

(* Faulty variant: the buffer of the previous connection is kept. *)
KeepBufferOpen ==
  /\ conn < MaxConnects
  /\ conn' = conn + 1
  /\ state' = "closed"
  /\ snd' = At(conn', 0) /\ rcv' = At(conn', 0)
  /\ UNCHANGED <<rx, processed, hasData, toServer>>

(* The head of tcp_connect: a fresh control block. *)
TcpOpen ==
  /\ conn < MaxConnects
  /\ conn' = conn + 1
  /\ state' = "closed"
  /\ rx' = <<>> /\ processed' = 0 /\ hasData' = FALSE
  /\ snd' = At(conn', 0) /\ rcv' = At(conn', 0)
  /\ UNCHANGED toServer

TcpSyn ==
  /\ toServer' = Append(toServer, Segment({"syn"}, snd, At(conn, 0), <<>>))
  /\ state' = "syn_sent"
  /\ UNCHANGED <<conn, snd, rcv, rx, processed, hasData>>

TcpSend(cells) ==
  IF state = "established"
    THEN /\ toServer' =
              Append(toServer, Segment({"psh", "ack"}, snd, rcv, cells))
         /\ snd' = Advance(snd, Len(cells))
         /\ UNCHANGED <<conn, state, rcv, rx, processed, hasData>>
    ELSE UNCHANGED <<tcb, toServer>>

(* What tcp_receive hands out once its wait is over. *)
ReadTo == IF Len(rx) - processed > MaxRead THEN processed + MaxRead ELSE Len(rx)
Handed == SubSeq(rx, processed + 1, ReadTo)

(* Faulty variant: the flag stays set. *)
FlagKeptRead ==
  /\ processed' = ReadTo
  /\ UNCHANGED <<conn, state, snd, rcv, rx, hasData, toServer>>

(* Faulty variant: rx_processed is set to the cells of this read. *)
AssigningRead ==
  /\ processed' = ReadTo - processed
  /\ hasData' = (hasData /\ (Handed = <<>> \/ ReadTo < Len(rx)))
  /\ UNCHANGED <<conn, state, snd, rcv, rx, toServer>>

TcpRead ==
  /\ processed' = ReadTo
  /\ hasData' = (hasData /\ (Handed = <<>> \/ ReadTo < Len(rx)))
  /\ UNCHANGED <<conn, state, snd, rcv, rx, toServer>>

TcpClose ==
  IF state = "established"
    THEN /\ toServer' =
              Append(toServer, Segment({"fin", "ack"}, snd, rcv, <<>>))
         /\ state' = "closed"
         /\ UNCHANGED <<conn, snd, rcv, rx, processed, hasData>>
    ELSE UNCHANGED <<tcb, toServer>>
=============================================================================
