---------------------------- MODULE Fetch_proofs ----------------------------
(***************************************************************************)
(* What holds of every fetch of a page, for all sizes of buffers, segments *)
(* and entities: first under all faults of the network (IInv), then what   *)
(* an orderly one adds (Orderly, OInv): nothing acknowledged is lost, the  *)
(* entity is whole, and the kernel implements Stream.                      *)
(***************************************************************************)
EXTENDS Fetch, SequenceTheorems, TLAPS

Positions == [conn : Nat, off : Nat]

Segments ==
  [conn : Connections, flags : SUBSET {"syn", "ack", "psh", "fin"},
   seq : Positions, ack : Positions, cells : Seq(Positions)]

Peers ==
  [st : {"none", "syn", "open", "serving", "stopped"},
   mode : {"none", "length", "close", "redirect"}, una : Nat, nxt : Nat]

-----------------------------------------------------------------------------
(* The inductive invariant. *)

TcbTyped ==
  /\ conn \in 0..MaxConnects
  /\ state \in {"closed", "syn_sent", "established"}
  /\ snd \in Positions /\ rcv \in Positions
  /\ rx \in Seq(Positions) /\ Len(rx) < BufferSize
  /\ processed \in 0..Len(rx)
  /\ hasData \in BOOLEAN

FetchTyped ==
  /\ pc \in {"idle", "syn", "synwait", "request", "allocate", "polls",
             "receive", "moved", "done"}
  /\ retry \in 0..MaxRetry /\ idle \in 0..(IdleLimit + 1)
  /\ outcome \in {"none", "ok", "redirect", "failed"}

WireTyped == toServer \in Seq(Segments) /\ toClient \in Seq(Segments)

(* A server that was reached has sent its SYN. *)
ServerTyped ==
  /\ server \in [Connections -> Peers]
  /\ \A c \in Connections : server[c].st # "none" => server[c].nxt > 0

(* Where the kernel may be while the control block is in which state. *)
Phases ==
  /\ pc # "idle" => conn > 0
  /\ pc = "idle" => state = "closed"
  /\ state = "syn_sent" => pc \in {"syn", "synwait"}

(* Each pass of the loops that count leaves room for the next count. *)
Counted ==
  /\ pc = "synwait" => retry < MaxRetry
  /\ pc \notin {"idle", "moved", "done"} => idle <= IdleLimit

IInv ==
  /\ TcbTyped /\ FetchTyped /\ WireTyped /\ ServerTyped
  /\ Phases /\ Counted
  /\ FlagMeansUnread /\ ReadsInOrder

-----------------------------------------------------------------------------
(* Facts about the operators. *)

(* A queue without one of its members. *)
LEMMA RemoveAtTyped ==
  ASSUME NEW S, NEW q \in Seq(S), NEW i \in DOMAIN q
  PROVE  RemoveAt(q, i) \in Seq(S)
<1>1. i \in 1..Len(q) /\ Len(q) \in Nat
  BY LenProperties
<1>2. SubSeq(q, 1, i - 1) \in Seq(S) /\ SubSeq(q, i + 1, Len(q)) \in Seq(S)
  BY <1>1, SubSeqProperties
<1>3. QED
  BY <1>2, ConcatProperties DEF RemoveAt

(* What a read hands out: up to the end of the buffer or of the caller's    *)
(* room, and something whenever there is something.                         *)
LEMMA ReadToFacts ==
  ASSUME TcbTyped
  PROVE  /\ ReadTo \in processed..Len(rx)
         /\ processed < Len(rx) => ReadTo > processed
         /\ Handed \in Seq(Positions)
         /\ Len(Handed) = ReadTo - processed
<1>1. Len(rx) \in Nat
  BY LenProperties DEF TcbTyped
<1>2. /\ ReadTo \in processed..Len(rx)
      /\ processed < Len(rx) => ReadTo > processed
  BY <1>1, TcpAssumption DEF TcbTyped, ReadTo
<1>3. \A i \in (processed + 1)..ReadTo : rx[i] \in Positions
  BY <1>1, <1>2, ElementOfSeq DEF TcbTyped
<1>4. processed + 1 \in Int /\ ReadTo \in Int
  BY <1>1, <1>2 DEF TcbTyped
<1>5. Handed \in Seq(Positions) /\ Len(Handed) = ReadTo - processed
  BY <1>1, <1>2, <1>3, <1>4, SubSeqProperties DEF TcbTyped, Handed
<1>6. QED
  BY <1>2, <1>5

(* Reading on from what was read. *)
LEMMA ReadOn ==
  ASSUME TcbTyped
  PROVE  SubSeq(rx, 1, processed) \o Handed = SubSeq(rx, 1, ReadTo)
<1>1. Len(rx) \in Nat
  BY LenProperties DEF TcbTyped
<1>2. /\ 1 \in 1..(Len(rx) + 1) /\ processed \in (1 - 1)..Len(rx)
      /\ ReadTo \in processed..Len(rx)
  BY <1>1, ReadToFacts DEF TcbTyped
<1>3. rx \in Seq(Positions)
  BY DEF TcbTyped
<1>4. QED
  BY <1>2, <1>3, ConcatAdjacentSubSeq DEF Handed

(* What was read stays what was read when the buffer grows. *)
LEMMA Kept ==
  ASSUME TcbTyped, NEW cells \in Seq(Positions)
  PROVE  SubSeq(rx \o cells, 1, processed) = SubSeq(rx, 1, processed)
<1>1. Len(rx) \in Nat /\ Len(cells) \in Nat /\ processed \in 0..Len(rx)
  BY LenProperties DEF TcbTyped
<1>2. rx \in Seq(Positions)
  BY DEF TcbTyped
<1>3. CASE processed = 0
  BY <1>3, SubSeqEmpty
<1>4. CASE processed # 0
  BY <1>1, <1>2, <1>4, SubSeqOfConcat1
<1>5. QED
  BY <1>3, <1>4

-----------------------------------------------------------------------------
(* The control block: what each operation of the TCP keeps. *)

TcbInv == TcbTyped /\ FlagMeansUnread /\ toServer \in Seq(Segments)

(* A segment that the kernel sends. *)
LEMMA SegmentTyped ==
  ASSUME conn \in Connections,
         NEW flags \in SUBSET {"syn", "ack", "psh", "fin"},
         NEW s \in Positions, NEW a \in Positions, NEW cells \in Seq(Positions)
  PROVE  Segment(flags, s, a, cells) \in Segments
BY DEF Segment, Segments

LEMMA PositionsTyped ==
  /\ \A c, n \in Nat : At(c, n) \in Positions
  /\ \A p \in Positions, n \in Nat : Advance(p, n) \in Positions
BY DEF At, Advance, Positions

(* A segment is handled. *)
LEMMA ProcessFacts ==
  ASSUME TcbInv, conn \in Connections, NEW p \in Segments, TcpProcess(p)
  PROVE  /\ TcbInv'
         /\ conn' = conn /\ processed' = processed
         /\ \E cells \in Seq(Positions) : rx' = rx \o cells
         /\ state' = state \/ state' \in {"closed", "established"}
         /\ state # "syn_sent" => state' # "syn_sent"
<1>1. /\ p.seq \in Positions /\ p.ack \in Positions /\ p.cells \in Seq(Positions)
      /\ Len(p.cells) \in Nat /\ Len(rx) \in Nat
  BY LenProperties DEF Segments, TcbInv, TcbTyped
<1>2. <<>> \in Seq(Positions) /\ rx \o <<>> = rx
  BY EmptySeq, ConcatEmptySeq DEF TcbInv, TcbTyped
<1>3. CASE IgnoreSegment(p)
  BY <1>2, <1>3 DEF IgnoreSegment, tcb, TcbInv, TcbTyped, FlagMeansUnread
<1>4. CASE AcceptSynAck(p)
  <2>1. rcv' \in Positions /\ snd' \in Positions
    BY <1>1, <1>4, PositionsTyped DEF AcceptSynAck
  <2>2. Segment({"ack"}, snd', rcv', <<>>) \in Segments
    BY <1>2, <2>1, SegmentTyped
  <2>3. toServer' \in Seq(Segments)
    BY <1>4, <2>2, AppendProperties DEF AcceptSynAck, TcbInv
  <2>4. QED
    BY <1>2, <1>4, <2>1, <2>3 DEF AcceptSynAck, TcbInv, TcbTyped, FlagMeansUnread
<1>5. CASE ReceiveSegment(p)
  <2> DEFINE keep == p.cells # <<>> /\ Fits(p.cells)
             after == IF keep THEN Advance(rcv, Len(p.cells)) ELSE rcv
             fin == "fin" \in p.flags
             one == IF keep THEN <<Segment({"ack"}, snd, after, <<>>)>> ELSE <<>>
             two == IF fin THEN <<Segment({"ack", "fin"}, snd, rcv', <<>>)>> ELSE <<>>
  <2>1. after \in Positions
    BY <1>1, PositionsTyped DEF TcbInv, TcbTyped
  <2>2. rcv' \in Positions
    BY <1>5, <2>1, PositionsTyped DEF ReceiveSegment
  <2>3. snd \in Positions
    BY DEF TcbInv, TcbTyped
  <2>4. one \in Seq(Segments)
    <3>1. Segment({"ack"}, snd, after, <<>>) \in Segments
      BY <1>2, <2>1, <2>3, SegmentTyped
    <3>2. QED
      BY <3>1, EmptySeq
  <2>5. two \in Seq(Segments)
    <3>1. Segment({"ack", "fin"}, snd, rcv', <<>>) \in Segments
      BY <1>2, <2>2, <2>3, SegmentTyped
    <3>2. QED
      BY <3>1, EmptySeq
  <2>6. toServer' = toServer \o one \o two
    BY <1>5 DEF ReceiveSegment
  <2>7. toServer' \in Seq(Segments)
    <3> HIDE DEF one, two
    <3>1. toServer \o one \in Seq(Segments)
      BY <2>4, ConcatProperties DEF TcbInv
    <3>2. QED
      BY <2>5, <2>6, <3>1, ConcatProperties
  <2>8. CASE keep
    <3>1. rx' = rx \o p.cells /\ hasData' = TRUE
      BY <1>5, <2>8 DEF ReceiveSegment
    <3>2. rx' \in Seq(Positions) /\ Len(rx') = Len(rx) + Len(p.cells)
      BY <1>1, <3>1, ConcatProperties DEF TcbInv, TcbTyped
    <3>3. Len(p.cells) > 0 /\ Len(rx) + Len(p.cells) < BufferSize
      BY <1>1, <2>8, EmptySeq DEF Fits
    <3>4. /\ conn' = conn /\ snd' = snd /\ processed' = processed
          /\ state' \in {"closed", "established"}
      BY <1>5 DEF ReceiveSegment
    <3>5. processed' \in 0..Len(rx') /\ processed' < Len(rx')
      BY <1>1, <3>2, <3>3, <3>4 DEF TcbInv, TcbTyped
    <3>6. TcbTyped'
      BY <1>1, <2>2, <3>1, <3>2, <3>3, <3>4, <3>5 DEF TcbInv, TcbTyped
    <3>7. FlagMeansUnread'
      BY <3>1, <3>5 DEF FlagMeansUnread
    <3>8. QED
      BY <1>1, <2>7, <3>1, <3>4, <3>6, <3>7 DEF TcbInv
  <2>9. CASE ~keep
    <3>1. /\ rx' = rx /\ hasData' = hasData
          /\ conn' = conn /\ snd' = snd /\ processed' = processed
          /\ state' \in {"closed", "established"}
      BY <1>5, <2>9 DEF ReceiveSegment, TcbInv, TcbTyped
    <3>2. QED
      BY <1>2, <2>2, <2>7, <3>1 DEF TcbInv, TcbTyped, FlagMeansUnread
  <2>10. QED
    BY <2>8, <2>9
<1>6. QED
  BY <1>3, <1>4, <1>5 DEF TcpProcess

(* A read. *)
LEMMA ReadFacts ==
  ASSUME TcbInv, TcpRead
  PROVE  TcbInv' /\ UNCHANGED <<conn, state, rx>> /\ processed' = ReadTo
<1>1. Len(rx) \in Nat /\ processed \in Nat /\ ReadTo \in processed..Len(rx)
  BY LenProperties, ReadToFacts DEF TcbInv, TcbTyped
<1>2. Handed = <<>> <=> ReadTo = processed
  <2>1. Handed \in Seq(Positions) /\ Len(Handed) = ReadTo - processed
    BY ReadToFacts DEF TcbInv
  <2>2. QED
    BY <1>1, <2>1, EmptySeq
<1>3. TcbTyped'
  BY <1>1 DEF TcpRead, TcbInv, TcbTyped
<1>4. FlagMeansUnread'
  <2>1. processed < Len(rx) => ReadTo # processed
    BY <1>1, ReadToFacts DEF TcbInv
  <2>2. ReadTo < Len(rx) => processed < Len(rx)
    BY <1>1
  <2>3. QED
    BY <1>2, <2>1, <2>2 DEF TcpRead, TcbInv, FlagMeansUnread
<1>5. QED
  BY <1>3, <1>4 DEF TcpRead, TcbInv

(* The end of a fetch: whatever the state, but for a SYN that is out, the   *)
(* control block is closed.                                                 *)
LEMMA CloseFacts ==
  ASSUME TcbInv, conn \in Connections, TcpClose, state # "syn_sent"
  PROVE  TcbInv' /\ state' = "closed" /\ UNCHANGED <<conn, rx, processed>>
<1>1. CASE state = "established"
  <2>1. Segment({"fin", "ack"}, snd, rcv, <<>>) \in Segments
    BY SegmentTyped, EmptySeq DEF TcbInv, TcbTyped
  <2>2. toServer' \in Seq(Segments)
    BY <1>1, <2>1, AppendProperties DEF TcpClose, TcbInv
  <2>3. QED
    BY <1>1, <2>2 DEF TcpClose, TcbInv, TcbTyped, FlagMeansUnread
<1>2. CASE state # "established"
  BY <1>2 DEF TcpClose, tcb, TcbInv, TcbTyped, FlagMeansUnread
<1>3. QED
  BY <1>1, <1>2

(* The segments that a caller sends. *)
LEMMA SendFacts ==
  ASSUME TcbInv, conn \in Connections, NEW cells \in Seq(Positions), TcpSend(cells)
  PROVE  TcbInv' /\ UNCHANGED <<conn, state, rx, processed>>
<1>1. CASE state = "established"
  <2>1. Segment({"psh", "ack"}, snd, rcv, cells) \in Segments
    BY SegmentTyped DEF TcbInv, TcbTyped
  <2>2. toServer' \in Seq(Segments)
    BY <1>1, <2>1, AppendProperties DEF TcpSend, TcbInv
  <2>3. Advance(snd, Len(cells)) \in Positions
    BY PositionsTyped, LenProperties DEF TcbInv, TcbTyped
  <2>4. QED
    BY <1>1, <2>2, <2>3 DEF TcpSend, TcbInv, TcbTyped, FlagMeansUnread
<1>2. CASE state # "established"
  BY <1>2 DEF TcpSend, tcb, TcbInv, TcbTyped, FlagMeansUnread
<1>3. QED
  BY <1>1, <1>2

LEMMA SynFacts ==
  ASSUME TcbInv, conn \in Connections, TcpSyn
  PROVE  TcbInv' /\ state' = "syn_sent" /\ UNCHANGED <<conn, rx, processed>>
<1>1. At(conn, 0) \in Positions
  BY PositionsTyped DEF Connections
<1>2. Segment({"syn"}, snd, At(conn, 0), <<>>) \in Segments
  BY <1>1, SegmentTyped, EmptySeq DEF TcbInv, TcbTyped
<1>3. toServer' \in Seq(Segments)
  BY <1>2, AppendProperties DEF TcpSyn, TcbInv
<1>4. QED
  BY <1>3 DEF TcpSyn, TcbInv, TcbTyped, FlagMeansUnread

LEMMA OpenFacts ==
  ASSUME TcbInv, TcpOpen
  PROVE  /\ TcbInv' /\ conn' > 0 /\ state' = "closed"
         /\ rx' = <<>> /\ processed' = 0
<1>1. conn' \in Nat /\ conn' > 0 /\ conn' \in 0..MaxConnects
  BY TcpAssumption DEF TcpOpen, TcbInv, TcbTyped
<1>2. snd' \in Positions /\ rcv' \in Positions
  BY <1>1, PositionsTyped DEF TcpOpen
<1>3. <<>> \in Seq(Positions) /\ Len(<<>>) = 0
  BY EmptySeq
<1>4. rx' = <<>> /\ Len(rx') = 0 /\ processed' = 0 /\ hasData' = FALSE
  BY <1>3 DEF TcpOpen
<1>5. Len(rx') < BufferSize /\ processed' \in 0..Len(rx')
  BY <1>4, TcpAssumption
<1>6. TcbTyped'
  BY <1>1, <1>2, <1>3, <1>4, <1>5 DEF TcpOpen, TcbTyped
<1>7. FlagMeansUnread'
  <2>1. ~(processed' < Len(rx'))
    BY <1>4
  <2>2. QED
    BY <1>4, <2>1 DEF FlagMeansUnread
<1>8. QED
  BY <1>1, <1>4, <1>6, <1>7 DEF TcpOpen, TcbInv

-----------------------------------------------------------------------------
(* The steps of the kernel. *)

(* What the control block's part and the rest of the kernel's part make. *)
KernelInv == TcbInv /\ FetchTyped /\ Phases /\ Counted /\ ReadsInOrder

LEMMA KernelStep ==
  ASSUME KernelInv, toClient \in Seq(Segments), Start \/ Kernel
  PROVE  KernelInv'
<1> USE DEF KernelInv
<1>0. /\ pc # "idle" => conn \in Connections
      /\ pc = "idle" => conn \in 0..MaxConnects
  BY DEF Phases, TcbInv, TcbTyped, Connections
<1>1. CASE Start
  <2>1. TcbInv' /\ conn' > 0 /\ rx' = <<>> /\ processed' = 0
    BY <1>1, OpenFacts DEF Start
  <2>2. SubSeq(rx', 1, processed') = <<>>
    BY <2>1, SubSeqEmpty
  <2>3. QED
    BY <1>1, <2>1, <2>2, FetchAssumption, OpenFacts
    DEF Start, FetchTyped, Phases, Counted, ReadsInOrder
<1>2. CASE SendSyn
  <2>1. TcbInv' /\ state' = "syn_sent" /\ UNCHANGED <<conn, rx, processed>>
    BY <1>0, <1>2, SynFacts DEF SendSyn
  <2>2. QED
    BY <1>2, <2>1 DEF SendSyn, FetchTyped, Phases, Counted, ReadsInOrder
<1>3. CASE SynFails
  BY <1>3, FetchAssumption DEF SynFails, tcb, TcbInv, TcbTyped, FlagMeansUnread,
     FetchTyped, Phases, Counted, ReadsInOrder
<1>4. CASE ConnectFails
  BY <1>4 DEF ConnectFails, Finish, TcbInv, TcbTyped, FlagMeansUnread,
     FetchTyped, Phases, Counted, ReadsInOrder
<1>5. CASE Poll
  <2> DEFINE p == Head(toClient)
  <2>1. p \in Segments /\ TcpProcess(p)
    BY <1>5, HeadTailProperties DEF Poll
  <2> HIDE DEF p
  <2>2. pc \in {"synwait", "polls", "receive"}
    BY <1>5 DEF Poll
  <2>3. /\ TcbInv' /\ conn' = conn /\ processed' = processed
        /\ state' = state \/ state' \in {"closed", "established"}
    BY <1>0, <2>1, <2>2, ProcessFacts
  <2>4. PICK cells \in Seq(Positions) : rx' = rx \o cells
    BY <1>0, <2>1, <2>2, ProcessFacts
  <2>5. SubSeq(rx', 1, processed') = SubSeq(rx, 1, processed)
    BY <2>3, <2>4, Kept DEF TcbInv
  <2>6. QED
    BY <1>5, <2>2, <2>3, <2>5
    DEF Poll, fetching, FetchTyped, Phases, Counted, ReadsInOrder
<1>6. CASE Connected
  BY <1>6 DEF Connected, tcb, TcbInv, TcbTyped, FlagMeansUnread,
     FetchTyped, Phases, Counted, ReadsInOrder
<1>7. CASE SynTimeout
  BY <1>7, FetchAssumption DEF SynTimeout, tcb, TcbInv, TcbTyped, FlagMeansUnread,
     FetchTyped, Phases, Counted, ReadsInOrder
<1>8. CASE SendRequest
  <2>1. <<At(conn, 1)>> \in Seq(Positions)
    BY <1>0, <1>8, PositionsTyped DEF SendRequest, Connections
  <2>2. TcbInv' /\ UNCHANGED <<conn, state, rx, processed>>
    <3> DEFINE cells == <<At(conn, 1)>>
    <3>1. TcpSend(cells) /\ conn \in Connections /\ cells \in Seq(Positions)
      BY <1>0, <1>8, <2>1 DEF SendRequest
    <3> HIDE DEF cells
    <3>2. QED
      BY <3>1, SendFacts
  <2>3. QED
    BY <1>8, <2>2 DEF SendRequest, FetchTyped, Phases, Counted, ReadsInOrder
<1>9. CASE Allocate \/ EndPolls
  BY <1>9 DEF Allocate, EndPolls, tcb, TcbInv, TcbTyped, FlagMeansUnread,
     FetchTyped, Phases, Counted, ReadsInOrder
<1>10. CASE GiveUp \/ Moved \/ Done
  <2>1. TcpClose /\ pc \in {"allocate", "polls", "moved", "done"}
    BY <1>10 DEF GiveUp, Moved, Done
  <2>2. TcbInv' /\ state' = "closed" /\ UNCHANGED <<conn, rx, processed>>
    BY <1>0, <2>1, CloseFacts DEF Phases
  <2>3. pc' = "idle" /\ outcome' \in {"failed", "redirect", "ok"} /\ UNCHANGED <<retry, idle>>
    BY <1>10 DEF GiveUp, Moved, Done, Finish
  <2>4. QED
    BY <2>2, <2>3 DEF FetchTyped, Phases, Counted, ReadsInOrder
<1>11. CASE Receive
  <2>1. TcbInv' /\ UNCHANGED <<conn, state, rx>> /\ processed' = ReadTo
    BY <1>11, ReadFacts DEF Receive
  <2>2. got' = SubSeq(rx', 1, processed')
    BY <1>11, <2>1, ReadOn DEF Receive, ReadsInOrder, TcbInv
  <2>3. idle <= IdleLimit /\ IdlePolls \in 0..(IdleLimit + 1)
    BY <1>11, FetchAssumption DEF Receive, Counted, FetchTyped, IdlePolls
  <2>4. /\ pc' \in {"moved", "done", "polls"}
        /\ pc' = "polls" => ~(IdlePolls > IdleLimit)
        /\ idle' = IdlePolls /\ UNCHANGED <<retry, outcome>>
    BY <1>11 DEF Receive
  <2>5. IdlePolls > IdleLimit \/ IdlePolls <= IdleLimit
    BY <2>3, FetchAssumption
  <2>6. pc = "receive"
    BY <1>11 DEF Receive
  <2>7. QED
    BY <2>1, <2>2, <2>3, <2>4, <2>5, <2>6 DEF FetchTyped, Phases, Counted, ReadsInOrder
<1>12. QED
  BY <1>1, <1>2, <1>3, <1>4, <1>5, <1>6, <1>7, <1>8, <1>9, <1>10, <1>11 DEF Kernel

-----------------------------------------------------------------------------
(* The steps of the server and of the network. *)

LEMMA SourceTyped ==
  ASSUME NEW c \in Connections, NEW m \in Nat, NEW n \in Nat,
         m > 0, n <= StreamEnd
  PROVE  SubSeq(Source(c), m, n) \in Seq(Positions)
<1>1. c \in Nat /\ StreamEnd \in Nat
  BY TcpAssumption, FetchAssumption DEF Connections, StreamEnd
<1>2. \A i \in m..n : Source(c)[i] \in Positions
  BY <1>1, PositionsTyped DEF Source
<1>3. m \in Int /\ n \in Int
  OBVIOUS
<1>4. QED
  BY <1>2, <1>3, SubSeqProperties

LEMMA ReplyTyped ==
  ASSUME NEW c \in Connections, NEW flags \in SUBSET {"syn", "ack", "psh", "fin"},
         NEW n \in Nat, NEW cells \in Seq(Positions)
  PROVE  Reply(c, flags, n, cells) \in Segments
<1>1. c \in Nat
  BY TcpAssumption DEF Connections
<1>2. /\ At(c, n) \in Positions
      /\ At(c, IF server'[c].st = "serving" THEN 2 ELSE 1) \in Positions
  BY <1>1, PositionsTyped
<1>3. QED
  BY <1>2 DEF Reply, Segments

LEMMA WorldStep ==
  ASSUME WireTyped, ServerTyped, World
  PROVE  WireTyped' /\ ServerTyped' /\ UNCHANGED <<tcb, fetching>>
<1> DEFINE p == Head(toServer)
<1>0. toServer # <<>> => p \in Segments /\ Tail(toServer) \in Seq(Segments)
  BY HeadTailProperties DEF WireTyped
<1>1. CASE ServerTake
  <2>1. p \in Segments /\ p.conn \in Connections /\ toServer' \in Seq(Segments)
    BY <1>0, <1>1 DEF ServerTake, Segments
  <2> HIDE DEF p
  <2>2. CASE TakeSyn(p)
    <3>1. ServerTyped'
      <4>1. CASE UNCHANGED server
        BY <4>1 DEF ServerTyped
      <4>2. ASSUME NEW m \in Modes,
                   server' = [server EXCEPT ![p.conn] =
                                [st |-> "syn", mode |-> m, una |-> 0, nxt |-> 1]]
            PROVE  ServerTyped'
        <5>1. [st |-> "syn", mode |-> m, una |-> 0, nxt |-> 1] \in Peers
          BY FetchAssumption DEF Peers
        <5>2. server' \in [Connections -> Peers]
          BY <2>1, <4>2, <5>1 DEF ServerTyped
        <5>3. \A d \in Connections :
                 server'[d] = server[d] \/ server'[d].nxt = 1
          BY <2>1, <4>2 DEF ServerTyped
        <5>4. QED
          BY <5>2, <5>3 DEF ServerTyped
      <4>3. QED
        BY <2>2, <4>1, <4>2 DEF TakeSyn
    <3>2. Reply(p.conn, {"syn", "ack"}, 0, <<>>) \in Segments
      BY <2>1, ReplyTyped, EmptySeq
    <3>3. toClient' \in Seq(Segments)
      BY <2>2, <3>2, AppendProperties DEF TakeSyn, WireTyped
    <3>4. QED
      BY <1>1, <2>1, <3>1, <3>3 DEF ServerTake, WireTyped
  <2>3. CASE TakeOldSyn(p)
    BY <1>1, <2>1, <2>3 DEF ServerTake, TakeOldSyn, WireTyped, ServerTyped
  <2>4. CASE TakeSegment(p)
    <3> DEFINE c == p.conn
               s == server[c]
               una == IF p.ack.conn = c /\ p.ack.off \in s.una..s.nxt
                        THEN p.ack.off ELSE s.una
               st == IF s.st = "none" \/ una = 0 THEN s.st
                     ELSE IF ServerStops /\ "fin" \in p.flags THEN "stopped"
                     ELSE IF s.st # "stopped" /\ p.cells # <<>> THEN "serving"
                     ELSE IF s.st = "syn" THEN "open" ELSE s.st
    <3>1. /\ server' = [server EXCEPT ![c].una = una, ![c].st = st]
          /\ \/ toClient' = toClient
             \/ toClient' = Append(toClient, Reply(c, {"ack"}, s.nxt, <<>>))
      BY <2>4 DEF TakeSegment
    <3>2. s \in Peers /\ s.una \in Nat /\ s.nxt \in Nat
      BY <2>1 DEF ServerTyped, Peers
    <3>3. una \in Nat
      <4>1. p.ack.off \in Nat
        BY <2>1 DEF Segments, Positions
      <4>2. QED
        BY <3>2, <4>1
    <3>4. /\ st \in {"none", "syn", "open", "serving", "stopped"}
          /\ s.st = "none" => st = "none"
      <4>1. s.st \in {"none", "syn", "open", "serving", "stopped"}
        BY <3>2 DEF Peers
      <4> HIDE DEF s, una
      <4>2. QED
        BY <4>1
    <3> HIDE DEF una, st
    <3>5. [s EXCEPT !.una = una, !.st = st] \in Peers
      BY <3>2, <3>3, <3>4 DEF Peers
    <3>6. /\ server' \in [Connections -> Peers]
          /\ \A d \in Connections : d # c => server'[d] = server[d]
          /\ server'[c].st = st /\ server'[c].nxt = s.nxt
      <4>1. server' = [server EXCEPT ![c] = [s EXCEPT !.una = una, !.st = st]]
        BY <2>1, <3>1 DEF ServerTyped
      <4>2. server \in [Connections -> Peers]
        BY DEF ServerTyped
      <4> DEFINE r == [s EXCEPT !.una = una, !.st = st]
      <4>3. r \in Peers /\ r.st = st /\ r.nxt = s.nxt
        BY <3>2, <3>5 DEF Peers
      <4> HIDE DEF r
      <4>4. server' = [server EXCEPT ![c] = r]
        BY <4>1 DEF r
      <4>5. QED
        BY <2>1, <4>2, <4>3, <4>4
    <3>7. ServerTyped'
      BY <2>1, <3>4, <3>6 DEF ServerTyped
    <3>8. Reply(c, {"ack"}, s.nxt, <<>>) \in Segments
      BY <2>1, <3>2, ReplyTyped, EmptySeq
    <3>9. toClient' \in Seq(Segments)
      <4>1. PICK q, x : q = toClient /\ x = Reply(c, {"ack"}, s.nxt, <<>>)
        OBVIOUS
      <4>2. q \in Seq(Segments)
        BY <4>1 DEF WireTyped
      <4>3. x \in Segments
        BY <3>8, <4>1
      <4>4. Append(q, x) \in Seq(Segments)
        BY <4>2, <4>3, AppendProperties
      <4>5. toClient' = q \/ toClient' = Append(q, x)
        BY <3>1, <4>1
      <4>6. QED
        BY <4>2, <4>4, <4>5
    <3>10. QED
      BY <1>1, <2>1, <3>7, <3>9 DEF ServerTake, WireTyped
  <2>5. tcb' = tcb /\ fetching' = fetching
    BY <1>1 DEF ServerTake
  <2>6. QED
    BY <1>1, <2>2, <2>3, <2>4, <2>5 DEF ServerTake, p
<1>2. ASSUME NEW c \in Connections, ServerSend(c)
      PROVE  WireTyped' /\ ServerTyped' /\ UNCHANGED <<tcb, fetching>>
  <2> DEFINE s == server[c]
  <2>1. s \in Peers /\ s.nxt \in Nat /\ s.nxt > 0 /\ s.st = "serving"
    BY <1>2 DEF ServerSend, ServerTyped, Peers
  <2>2. PICK n \in 0..Mss, fin \in BOOLEAN :
          /\ s.nxt + n <= StreamEnd + 1
          /\ server' = [server EXCEPT ![c].nxt = @ + n + (IF fin THEN 1 ELSE 0)]
          /\ toClient' = Append(toClient,
               Reply(c, IF fin THEN {"ack", "fin"} ELSE {"ack"}, s.nxt,
                     SubSeq(Source(c), s.nxt, s.nxt + n - 1)))
    BY <1>2 DEF ServerSend
  <2>3. n \in Nat /\ StreamEnd \in Nat /\ s.nxt + n - 1 \in Nat /\ s.nxt + n - 1 <= StreamEnd
    <3>1. n \in Nat /\ StreamEnd \in Nat
      BY FetchAssumption DEF StreamEnd
    <3>2. PICK a : a = s.nxt
      OBVIOUS
    <3>3. a \in Nat /\ a > 0 /\ a + n <= StreamEnd + 1
      BY <2>1, <2>2, <3>2
    <3>4. a + n - 1 \in Nat /\ a + n - 1 <= StreamEnd
      BY <3>1, <3>3
    <3>5. QED
      BY <3>1, <3>2, <3>4
  <2>4. SubSeq(Source(c), s.nxt, s.nxt + n - 1) \in Seq(Positions)
    BY <2>1, <2>3, SourceTyped
  <2>5. Reply(c, IF fin THEN {"ack", "fin"} ELSE {"ack"}, s.nxt,
              SubSeq(Source(c), s.nxt, s.nxt + n - 1)) \in Segments
    <3> DEFINE cells == SubSeq(Source(c), s.nxt, s.nxt + n - 1)
               flags == IF fin THEN {"ack", "fin"} ELSE {"ack"}
    <3>1. flags \in SUBSET {"syn", "ack", "psh", "fin"} /\ cells \in Seq(Positions)
      BY <2>4
    <3> HIDE DEF cells, flags
    <3>2. Reply(c, flags, s.nxt, cells) \in Segments
      BY <2>1, <3>1, ReplyTyped
    <3>3. QED
      BY <3>2 DEF cells, flags
  <2>6. toClient' \in Seq(Segments)
    BY <2>2, <2>5, AppendProperties DEF WireTyped
  <2>7. s.nxt + n + (IF fin THEN 1 ELSE 0) \in Nat \ {0}
    BY <2>1, <2>3
  <2>8. ServerTyped'
    <3> DEFINE r == [s EXCEPT !.nxt = @ + n + (IF fin THEN 1 ELSE 0)]
    <3>1. r \in Peers /\ r.nxt > 0
      BY <2>1, <2>7 DEF Peers
    <3>2. server' = [server EXCEPT ![c] = r]
      BY <2>2 DEF ServerTyped
    <3> HIDE DEF r
    <3>3. /\ server' \in [Connections -> Peers]
          /\ \A d \in Connections : server'[d] = server[d] \/ server'[d] = r
      BY <3>1, <3>2 DEF ServerTyped
    <3>4. QED
      BY <3>1, <3>3 DEF ServerTyped
  <2>9. QED
    BY <1>2, <2>6, <2>8 DEF ServerSend, WireTyped
<1>3. ASSUME NEW c \in Connections, ServerRetransmit(c)
      PROVE  WireTyped' /\ ServerTyped' /\ UNCHANGED <<tcb, fetching>>
  <2>1. server[c].una \in 1..StreamEnd /\ server[c].una \in Nat
    BY <1>3 DEF ServerRetransmit, ServerTyped, Peers
  <2>2. StreamEnd \in Nat
    BY FetchAssumption DEF StreamEnd
  <2> DEFINE cells == SubSeq(Source(c), server[c].una, server[c].una)
  <2>3. cells \in Seq(Positions)
    <3>1. \A m \in Nat : m > 0 /\ m <= StreamEnd
                            => SubSeq(Source(c), m, m) \in Seq(Positions)
      BY SourceTyped
    <3>2. QED
      BY <2>1, <2>2, <3>1
  <2>4. toClient' = Append(toClient, Reply(c, {"ack"}, server[c].una, cells))
    BY <1>3 DEF ServerRetransmit
  <2> HIDE DEF cells
  <2>5. Reply(c, {"ack"}, server[c].una, cells) \in Segments
    BY <2>1, <2>3, ReplyTyped
  <2>6. toClient' \in Seq(Segments)
    BY <2>4, <2>5, AppendProperties DEF WireTyped
  <2>7. QED
    BY <1>3, <2>6 DEF ServerRetransmit, WireTyped, ServerTyped
<1>4. CASE Lose \/ Duplicate \/ Delay
  <2>1. \A i \in DOMAIN toClient :
          /\ RemoveAt(toClient, i) \in Seq(Segments) /\ toClient[i] \in Segments
          /\ Append(RemoveAt(toClient, i), toClient[i]) \in Seq(Segments)
          /\ Append(toClient, toClient[i]) \in Seq(Segments)
    BY RemoveAtTyped, ElementOfSeq, LenProperties, AppendProperties DEF WireTyped
  <2>2. \A i \in DOMAIN toServer :
          /\ RemoveAt(toServer, i) \in Seq(Segments) /\ toServer[i] \in Segments
          /\ Append(toServer, toServer[i]) \in Seq(Segments)
    BY RemoveAtTyped, ElementOfSeq, LenProperties, AppendProperties DEF WireTyped
  <2>3. WireTyped' /\ UNCHANGED <<tcb, fetching, server>>
    BY <1>4, <2>1, <2>2 DEF Lose, Duplicate, Delay, WireTyped
  <2>4. QED
    BY <2>3 DEF ServerTyped
<1>5. QED
  BY <1>1, <1>2, <1>3, <1>4 DEF World

-----------------------------------------------------------------------------
(* The theorems. *)

LEMMA IInvInvariant == Spec => []IInv
<1>1. Init => IInv
  <2> SUFFICES ASSUME Init
               PROVE  IInv
    OBVIOUS
  <2>1. <<>> \in Seq(Positions) /\ <<>> \in Seq(Segments) /\ Len(<<>>) = 0
    BY EmptySeq
  <2>2. TcbTyped
    <3>1. snd \in Positions /\ rcv \in Positions
      BY PositionsTyped DEF Init, TcpInit
    <3>2. Len(rx) = 0 /\ processed = 0
      BY <2>1 DEF Init, TcpInit
    <3>3. conn \in 0..MaxConnects /\ Len(rx) < BufferSize /\ processed \in 0..Len(rx)
      BY <3>2, TcpAssumption DEF Init, TcpInit
    <3>4. QED
      BY <2>1, <3>1, <3>3 DEF Init, TcpInit, TcbTyped
  <2>3. FlagMeansUnread
    <3>1. ~(processed < Len(rx)) /\ hasData = FALSE
      BY <2>1 DEF Init, TcpInit
    <3>2. QED
      BY <3>1 DEF FlagMeansUnread
  <2>4. ServerTyped
    BY DEF Init, ServerTyped, Peers
  <2>5. WireTyped
    BY <2>1 DEF Init, TcpInit, WireTyped
  <2>6. FetchTyped /\ Phases /\ Counted /\ ReadsInOrder
    BY FetchAssumption DEF Init, TcpInit, FetchTyped, Phases, Counted, ReadsInOrder
  <2>7. QED
    BY <2>2, <2>3, <2>4, <2>5, <2>6 DEF IInv
<1>2. IInv /\ [Next]_vars => IInv'
  <2> SUFFICES ASSUME IInv, [Next]_vars
               PROVE  IInv'
    OBVIOUS
  <2>1. CASE UNCHANGED vars \/ Stop
    <3>1. UNCHANGED <<tcb, toServer, fetching, server, toClient>>
      BY <2>1 DEF Stop, vars
    <3>2. UNCHANGED <<conn, state, snd, rcv, rx, processed, hasData,
                      pc, retry, idle, got, outcome>>
      BY <3>1 DEF tcb, fetching
    <3>3. TcbTyped' /\ FetchTyped' /\ WireTyped' /\ ServerTyped'
      BY <3>1, <3>2 DEF IInv, TcbTyped, FetchTyped, WireTyped, ServerTyped
    <3>4. Phases' /\ Counted' /\ FlagMeansUnread' /\ ReadsInOrder'
      BY <3>1, <3>2 DEF IInv, Phases, Counted, FlagMeansUnread, ReadsInOrder
    <3>5. QED
      BY <3>3, <3>4 DEF IInv
  <2>2. CASE Start \/ Kernel
    <3>1. KernelInv' /\ toServer' \in Seq(Segments)
      BY <2>2, KernelStep DEF IInv, KernelInv, TcbInv, WireTyped
    <3>2. server' = server
      BY <2>2 DEF Start, Kernel, SendSyn, SynFails, ConnectFails, Poll, Connected,
         SynTimeout, SendRequest, Allocate, GiveUp, EndPolls, Receive, Moved, Done
    <3>3. toClient' \in Seq(Segments)
      <4>1. CASE Poll
        BY <4>1, HeadTailProperties DEF Poll, IInv, WireTyped
      <4>2. CASE ~Poll
        BY <2>2, <4>2 DEF Start, Kernel, SendSyn, SynFails, ConnectFails, Connected,
           SynTimeout, SendRequest, Allocate, GiveUp, EndPolls, Receive, Moved, Done,
           IInv, WireTyped
      <4>3. QED
        BY <4>1, <4>2
    <3>4. QED
      BY <3>1, <3>2, <3>3 DEF IInv, KernelInv, TcbInv, WireTyped, ServerTyped
  <2>3. CASE World
    <3>1. WireTyped' /\ ServerTyped' /\ UNCHANGED <<tcb, fetching>>
      BY <2>3, WorldStep DEF IInv
    <3>2. QED
      BY <3>1 DEF IInv, TcbTyped, FetchTyped, Phases, Counted, FlagMeansUnread,
         ReadsInOrder, tcb, fetching
  <2>4. QED
    BY <2>1, <2>2, <2>3 DEF Next
<1>3. QED
  BY <1>1, <1>2, PTL DEF Spec

(* Whatever arrives and however often, the kernel stays within its buffer   *)
(* and its counts: tcp_process drops a payload that would not fit.          *)
THEOREM TypeCorrect == Spec => []TypeOK
<1>1. IInv => TypeOK
  BY DEF IInv, TcbTyped, FetchTyped, TypeOK
<1>2. QED
  BY <1>1, IInvInvariant, PTL

(* has_data and rx_processed never disagree, so tcp_receive neither waits   *)
(* for what it has nor returns without what it waits for.                   *)
THEOREM FlagIsRight == Spec => []FlagMeansUnread
<1>1. IInv => FlagMeansUnread
  BY DEF IInv
<1>2. QED
  BY <1>1, IInvInvariant, PTL

(* Every return of http_get_simple leaves the control block closed, the     *)
(* failed connect and the user's ESC included.                              *)
THEOREM AlwaysCloses == Spec => []EveryReturnCloses
<1>1. IInv => EveryReturnCloses
  BY DEF IInv, Phases, EveryReturnCloses
<1>2. QED
  BY <1>1, IInvInvariant, PTL

(* However arrivals and reads alternate, the page is put together from the  *)
(* receive buffer without a gap and without a repetition.                   *)
THEOREM PageIsBuffer == Spec => []ReadsInOrder
<1>1. IInv => ReadsInOrder
  BY DEF IInv
<1>2. QED
  BY <1>1, IInvInvariant, PTL

-----------------------------------------------------------------------------
(* An orderly network: it keeps what it is given and the order, a timer does *)
(* not run out while something is on its way, a server stops once its client *)
(* has closed, and the buffer has room for the page.                          *)
Orderly == MaxFaults = 0 /\ ~Hasty /\ ServerStops /\ StreamEnd < BufferSize

(* What is on its way to the server of connection c, whose acknowledgements  *)
(* reach at most n; and to the kernel, apart from an answer to a SYN.        *)
FromClient(c, n) ==
  {p \in Segments : /\ p.conn = c /\ "syn" \notin p.flags
                    /\ p.ack.conn = c /\ p.ack.off \in 1..n}
Data == {p \in Segments : ~IsSynAck(p)}

HasFin(p) == "fin" \in p.flags
End(p) == p.seq.off + Len(p.cells) + (IF HasFin(p) THEN 1 ELSE 0)

(* A piece of the stream of connection c, perhaps an empty one.              *)
Pieces(c) ==
  {p \in Segments :
     /\ "syn" \notin p.flags
     /\ \A n \in 1..Len(p.cells) : p.cells[n] = At(c, p.seq.off + n - 1)
     /\ p.cells # <<>> => p.seq.off + Len(p.cells) <= StreamEnd + 1
     /\ HasFin(p) => p.seq.off + Len(p.cells) = StreamEnd + 1}

(* The servers before that of c have stopped, those after it have not begun. *)
Others(c) ==
  \A d \in Connections :
    /\ d < c => server[d].st = "stopped"
    /\ d > c => server[d].st = "none" /\ server[d].una = 0

(* The server of c has been told that its client has closed, or q tells it.  *)
Ended(c, q) ==
  server[c].st = "stopped" \/ \E i \in 1..Len(q) : HasFin(q[i])

(* Connection c is over, and q is what of it is still on its way.            *)
Over(c, q) ==
  /\ Others(c)
  /\ IF c = 0 THEN q = <<>>
     ELSE /\ server[c].st # "none" /\ Ended(c, q)
          /\ q \in Seq(FromClient(c, server[c].nxt))

(* The buffer holds the stream up to what the kernel acknowledges.           *)
Buffered ==
  /\ rcv.conn = conn /\ rcv.off \in 1..(StreamEnd + 2)
  /\ Len(rx) = IF rcv.off > StreamEnd THEN StreamEnd ELSE rcv.off - 1
  /\ \A n \in 1..Len(rx) : rx[n] = At(conn, n)
  /\ server[conn].una <= rcv.off
  /\ toServer \in Seq(FromClient(conn, rcv.off))

(* What is on its way to the kernel goes on where the buffer ends.           *)
Chain ==
  /\ toClient \in Seq(Pieces(conn))
  /\ \A i \in 1..Len(toClient) :
       /\ toClient[i].seq.off = IF i = 1 THEN rcv.off ELSE End(toClient[i - 1])
       /\ End(toClient[i]) <= server[conn].nxt
  /\ server[conn].nxt = IF toClient = <<>> THEN rcv.off ELSE End(toClient[Len(toClient)])
  /\ rcv.off <= server[conn].nxt /\ server[conn].nxt <= StreamEnd + 2

(* Client and server talk. *)
Greeting == pc \in {"synwait", "request"}
Talk ==
  /\ Others(conn) /\ server[conn].st # "none"
  /\ Buffered /\ Chain
  /\ state = IF rcv.off = StreamEnd + 2 THEN "closed" ELSE "established"
  /\ state = "closed" => Ended(conn, toServer)
  /\ state = "established" =>
       /\ ~Ended(conn, toServer)
       /\ \/ server[conn].una = rcv.off
          \/ \E i \in 1..Len(toServer) : toServer[i].ack.off = rcv.off
       /\ ~Greeting => \/ server[conn].st = "serving"
                       \/ \E i \in 1..Len(toServer) : toServer[i].cells # <<>>
  /\ Greeting => /\ toClient = <<>> /\ rcv.off = 1 /\ server[conn].st \in {"syn", "open"}
                 /\ \A i \in 1..Len(toServer) : toServer[i].cells = <<>>
  /\ pc = "done" => got = Source(conn)

(* The SYN is on its way to the server, with the rest of the connection      *)
(* before it, or its answer to the kernel.                                   *)
SynUnderWay ==
  /\ toClient \in Seq(Data)
  /\ \E q \in Seq(Segments), p \in Segments :
       /\ toServer = Append(q, p) /\ p.conn = conn /\ "syn" \in p.flags
       /\ Over(conn - 1, q)
SynAnswered ==
  /\ Others(conn) /\ toServer = <<>>
  /\ server[conn].st = "syn" /\ server[conn].una = 0 /\ server[conn].nxt = 1
  /\ \E q \in Seq(Data), p \in Segments :
       toClient = Append(q, p) /\ IsSynAck(p) /\ p.seq = At(conn, 0)

Idle ==
  /\ Over(conn, toServer) /\ toClient \in Seq(Data)
  /\ conn > 0 => Buffered
  /\ outcome = "ok" => conn > 0 /\ got = Source(conn)
Opened ==
  /\ Over(conn - 1, toServer) /\ toClient \in Seq(Data)
  /\ state = "closed" /\ rx = <<>> /\ retry = 0

OInv ==
  /\ faults = 0
  /\ CASE pc = "idle" -> Idle
       [] pc = "syn" -> Opened
       [] pc = "synwait" /\ state = "syn_sent" -> rx = <<>> /\ (SynUnderWay \/ SynAnswered)
       [] OTHER -> Talk

(* Queues. *)
LEMMA Put ==
  ASSUME NEW S, NEW q \in Seq(S), NEW x \in S
  PROVE  /\ Append(q, x) \in Seq(S) /\ Len(Append(q, x)) = Len(q) + 1
         /\ Append(q, x) # <<>> /\ Len(q) \in Nat
         /\ \A i \in 1..Len(q) : Append(q, x)[i] = q[i]
         /\ Append(q, x)[Len(q) + 1] = x
BY AppendProperties, LenProperties

LEMMA Pop ==
  ASSUME NEW S, NEW q \in Seq(S), q # <<>>
  PROVE  /\ Len(q) \in Nat /\ Len(q) > 0 /\ Head(q) = q[1] /\ Head(q) \in S
         /\ Tail(q) \in Seq(S) /\ Len(Tail(q)) = Len(q) - 1
         /\ \A i \in 1..Len(Tail(q)) : Tail(q)[i] = q[i + 1]
BY HeadTailProperties, LenProperties

LEMMA Wider ==
  ASSUME NEW S, NEW T, S \subseteq T, NEW q \in Seq(S)
  PROVE  q \in Seq(T)
<1>1. \A i \in 1..Len(q) : q[i] \in T
  BY ElementOfSeq
<1>2. Len(q) \in Nat /\ q = [i \in 1..Len(q) |-> q[i]]
  BY LenProperties
<1>3. QED
  BY <1>1, <1>2, IsASeq

LEMMA PopPut ==
  ASSUME NEW S, NEW q \in Seq(S), NEW x \in S
  PROVE  /\ q = <<>> => Head(Append(q, x)) = x /\ Tail(Append(q, x)) = <<>>
         /\ q # <<>> => /\ Head(Append(q, x)) = Head(q)
                        /\ Tail(Append(q, x)) = Append(Tail(q), x)
<1>1. Append(q, x) \in Seq(S) /\ Append(q, x) # <<>> /\ Len(q) \in Nat
  BY Put
<1>2. CASE q = <<>>
  BY <1>2
<1>3. CASE q # <<>>
  <2>1. Head(Append(q, x)) = Head(q)
    BY <1>1, <1>3, Put, Pop
  <2>2. /\ Tail(q) \in Seq(S) /\ Len(Tail(q)) = Len(q) - 1 /\ Len(q) > 0
        /\ \A i \in 1..Len(Tail(q)) : Tail(q)[i] = q[i + 1]
    BY <1>3, Pop
  <2>3. /\ Append(Tail(q), x) \in Seq(S) /\ Len(Append(Tail(q), x)) = Len(q)
        /\ \A i \in 1..(Len(q) - 1) : Append(Tail(q), x)[i] = q[i + 1]
        /\ Append(Tail(q), x)[Len(q)] = x
    BY <1>1, <2>2, Put
  <2>4. /\ Len(Append(q, x)) = Len(q) + 1
        /\ \A i \in 1..Len(q) : Append(q, x)[i] = q[i]
        /\ Append(q, x)[Len(q) + 1] = x
    BY Put
  <2>5. /\ Tail(Append(q, x)) \in Seq(S) /\ Len(Tail(Append(q, x))) = Len(q)
        /\ \A i \in 1..Len(q) : Tail(Append(q, x))[i] = Append(q, x)[i + 1]
    <3> DEFINE r == Append(q, x)
    <3>1. r \in Seq(S) /\ r # <<>> /\ Len(r) = Len(q) + 1
      BY <1>1, <2>4
    <3> HIDE DEF r
    <3>2. /\ Tail(r) \in Seq(S) /\ Len(Tail(r)) = Len(r) - 1
          /\ \A i \in 1..Len(Tail(r)) : Tail(r)[i] = r[i + 1]
      BY <3>1, Pop
    <3>3. Tail(r) \in Seq(S) /\ Len(Tail(r)) = Len(q) /\ \A i \in 1..Len(q) : Tail(r)[i] = r[i + 1]
      BY <1>1, <3>1, <3>2
    <3>4. QED
      BY <3>3 DEF r
  <2> DEFINE a == Tail(Append(q, x))
             b == Append(Tail(q), x)
  <2>6. a \in Seq(S) /\ b \in Seq(S) /\ Len(a) = Len(b) /\ Len(a) = Len(q)
    BY <2>3, <2>5
  <2>7. ASSUME NEW i \in 1..Len(q) PROVE a[i] = b[i]
    <3>1. a[i] = Append(q, x)[i + 1]
      BY <2>5
    <3>2. CASE i = Len(q)
      BY <1>1, <2>3, <2>4, <3>1, <3>2
    <3>3. CASE i # Len(q)
      <4>1. i \in 1..(Len(q) - 1) /\ i + 1 \in 1..Len(q)
        BY <1>1, <3>3
      <4>2. QED
        BY <2>3, <2>4, <3>1, <4>1
    <3>4. QED
      BY <3>2, <3>3
  <2> HIDE DEF a, b
  <2>8. a = b
    BY <2>6, <2>7, SeqEqual
  <2>9. QED
    BY <2>1, <2>8, <1>3 DEF a, b
<1>4. QED
  BY <1>2, <1>3

LEMMA Wide == \A c, m, n \in Nat : m <= n => FromClient(c, m) \subseteq FromClient(c, n)
BY DEF FromClient

(* What a segment of the client does to the server of c. *)
LEMMA TakeFacts ==
  ASSUME Orderly, ServerTyped, NEW c \in Connections, server[c].st # "none",
         NEW p \in FromClient(c, server[c].nxt), TakeSegment(p)
  PROVE  /\ \A d \in Connections : d # c => server'[d] = server[d]
         /\ server'[c].nxt = server[c].nxt
         /\ server'[c].una \in {server[c].una, p.ack.off} /\ server'[c].una >= p.ack.off
         /\ server'[c].una >= server[c].una
         /\ server'[c].st = IF HasFin(p) THEN "stopped"
                            ELSE IF server[c].st # "stopped" /\ p.cells # <<>> THEN "serving"
                            ELSE IF server[c].st = "syn" THEN "open" ELSE server[c].st
         /\ \/ toClient' = toClient
            \/ /\ toClient' = Append(toClient, Reply(c, {"ack"}, server[c].nxt, <<>>))
               /\ p.cells # <<>>
<1> DEFINE s == server[c]
           una == IF p.ack.conn = c /\ p.ack.off \in s.una..s.nxt
                    THEN p.ack.off ELSE s.una
           st == IF s.st = "none" \/ una = 0 THEN s.st
                 ELSE IF ServerStops /\ "fin" \in p.flags THEN "stopped"
                 ELSE IF s.st # "stopped" /\ p.cells # <<>> THEN "serving"
                 ELSE IF s.st = "syn" THEN "open" ELSE s.st
<1>1. p.conn = c /\ p.ack.conn = c /\ p.ack.off \in 1..s.nxt
  BY DEF FromClient
<1>2. /\ server' = [server EXCEPT ![c].una = una, ![c].st = st]
      /\ toClient' = IF st = "serving" /\ p.cells # <<>>
                     THEN Append(toClient, Reply(c, {"ack"}, s.nxt, <<>>)) ELSE toClient
  BY <1>1 DEF TakeSegment
<1>3. s \in Peers /\ s.una \in Nat /\ s.nxt \in Nat
  BY DEF ServerTyped, Peers
<1>4. una \in {s.una, p.ack.off} /\ una >= p.ack.off /\ una >= s.una /\ una # 0
  BY <1>1, <1>3
<1>5. st = IF HasFin(p) THEN "stopped"
           ELSE IF s.st # "stopped" /\ p.cells # <<>> THEN "serving"
           ELSE IF s.st = "syn" THEN "open" ELSE s.st
  BY <1>4 DEF Orderly, HasFin
<1> DEFINE r == [s EXCEPT !.una = una, !.st = st]
<1>6. r.una = una /\ r.st = st /\ r.nxt = s.nxt
  BY <1>3 DEF Peers
<1>7. server' = [server EXCEPT ![c] = r]
  BY <1>2 DEF ServerTyped
<1> HIDE DEF r, una, st, s
<1>8. \A d \in Connections : server'[d] = IF d = c THEN r ELSE server[d]
  BY <1>7 DEF ServerTyped
<1>9. server'[c] = r /\ \A d \in Connections : d # c => server'[d] = server[d]
  BY <1>8
<1>10. QED
  BY <1>2, <1>4, <1>5, <1>6, <1>9 DEF s

(* What the server of c sends. *)
LEMMA SentPiece ==
  ASSUME ServerTyped, NEW c \in Connections, ServerSend(c)
  PROVE  /\ server[c].st = "serving" /\ server'[c].st = "serving"
         /\ server'[c].una = server[c].una
         /\ \A d \in Connections : d # c => server'[d] = server[d]
         /\ \E p \in Pieces(c) :
              /\ toClient' = Append(toClient, p) /\ p.seq.off = server[c].nxt
              /\ End(p) = server'[c].nxt
         /\ server'[c].nxt >= server[c].nxt /\ server'[c].nxt <= StreamEnd + 2
<1> DEFINE s == server[c]
<1>1. s \in Peers /\ s.nxt \in Nat /\ s.nxt > 0 /\ s.st = "serving"
  BY DEF ServerSend, ServerTyped, Peers
<1>2. PICK n \in 0..Mss, fin \in BOOLEAN :
        /\ s.nxt + n <= StreamEnd + 1 /\ (fin => s.nxt + n = StreamEnd + 1)
        /\ server' = [server EXCEPT ![c].nxt = @ + n + (IF fin THEN 1 ELSE 0)]
        /\ toClient' = Append(toClient,
             Reply(c, IF fin THEN {"ack", "fin"} ELSE {"ack"}, s.nxt,
                   SubSeq(Source(c), s.nxt, s.nxt + n - 1)))
  BY DEF ServerSend
<1> DEFINE r == [s EXCEPT !.nxt = @ + n + (IF fin THEN 1 ELSE 0)]
           cells == SubSeq(Source(c), s.nxt, s.nxt + n - 1)
           flags == IF fin THEN {"ack", "fin"} ELSE {"ack"}
           p == Reply(c, flags, s.nxt, cells)
<1>3. n \in Nat /\ StreamEnd \in Nat /\ s.nxt + n - 1 \in Nat /\ s.nxt + n - 1 <= StreamEnd
  <2>1. s.nxt + n <= StreamEnd + 1
    BY <1>2
  <2>2. StreamEnd \in Nat /\ n \in Nat
    BY FetchAssumption DEF StreamEnd
  <2> HIDE DEF s
  <2>3. QED
    BY <1>1, <2>1, <2>2
<1>4. r.nxt = s.nxt + n + (IF fin THEN 1 ELSE 0) /\ r.st = s.st /\ r.una = s.una
  BY <1>1 DEF Peers
<1>5. server'[c] = r /\ \A d \in Connections : d # c => server'[d] = server[d]
  <2>1. server' = [server EXCEPT ![c] = r]
    BY <1>2 DEF ServerTyped
  <2> HIDE DEF r
  <2>2. QED
    BY <2>1 DEF ServerTyped
<1>6. /\ cells \in Seq(Positions) /\ Len(cells) = n
      /\ \A i \in 1..n : cells[i] = At(c, s.nxt + i - 1)
  <2>1. cells \in Seq(Positions)
    BY <1>1, <1>3, SourceTyped
  <2>2. \A i \in s.nxt..(s.nxt + n - 1) : Source(c)[i] = At(c, i)
    BY <1>1, <1>3 DEF Source
  <2>3. s.nxt \in Int /\ s.nxt + n - 1 \in Int
    BY <1>1, <1>3
  <2>4. \A i \in s.nxt..(s.nxt + n - 1) : Source(c)[i] \in {At(c, j) : j \in Nat}
    BY <1>1, <1>3, <2>2
  <2>5. /\ Len(cells) = IF s.nxt <= s.nxt + n - 1 THEN s.nxt + n - 1 - s.nxt + 1 ELSE 0
        /\ \A i \in 1..(s.nxt + n - 1 - s.nxt + 1) : cells[i] = Source(c)[s.nxt + i - 1]
    BY <2>3, <2>4, SubSeqProperties
  <2>6. Len(cells) = n
    BY <1>1, <1>3, <2>5
  <2> HIDE DEF cells
  <2>7. ASSUME NEW i \in 1..n PROVE cells[i] = At(c, s.nxt + i - 1)
    <3>1. cells[i] = Source(c)[s.nxt + i - 1]
      BY <1>1, <1>3, <2>5
    <3>2. s.nxt + i - 1 \in s.nxt..(s.nxt + n - 1)
      BY <1>1, <1>3
    <3>3. QED
      BY <2>2, <3>1, <3>2
  <2>8. QED
    BY <2>1, <2>6, <2>7
<1>7. p \in Segments
  <2>1. flags \in SUBSET {"syn", "ack", "psh", "fin"}
    OBVIOUS
  <2> HIDE DEF flags, cells
  <2>2. QED
    BY <1>1, <1>6, <2>1, ReplyTyped
<1>8. p.flags = flags /\ p.seq.off = s.nxt /\ p.cells = cells
  BY DEF Reply, At
<1>9. toClient' = Append(toClient, p)
  BY <1>2
<1>10. ("fin" \in flags <=> fin) /\ "syn" \notin flags
  OBVIOUS
<1> HIDE DEF p, flags, cells, r
<1>11. p \in Pieces(c)
  <2>1. Len(p.cells) = n /\ (n = 0 <=> p.cells = <<>>)
    BY <1>6, <1>8
  <2>2. QED
    BY <1>2, <1>3, <1>6, <1>7, <1>8, <1>10, <2>1 DEF Pieces, HasFin
<1>12. End(p) = r.nxt
  BY <1>4, <1>6, <1>8, <1>10 DEF End, HasFin
<1>13. r.nxt >= s.nxt /\ r.nxt <= StreamEnd + 2
  <2>1. PICK a, b : a = s.nxt /\ b = r.nxt
    OBVIOUS
  <2>2. a \in Nat /\ n \in Nat /\ StreamEnd \in Nat
    BY <1>1, <1>3, <2>1
  <2>3. a + n <= StreamEnd + 1
    BY <1>2, <2>1
  <2>4. b = a + n \/ b = a + n + 1
    BY <1>4, <2>1, <2>2
  <2>5. b >= a /\ b <= StreamEnd + 2
    BY <2>2, <2>3, <2>4
  <2>6. QED
    BY <2>1, <2>5
<1>14. QED
  BY <1>1, <1>4, <1>5, <1>9, <1>8, <1>11, <1>12, <1>13

(* A connection that is over stays so, whatever its server does. *)
LEMMA OverTake ==
  ASSUME Orderly, ServerTyped, ServerTyped', NEW c \in 0..MaxConnects,
         NEW q \in Seq(Segments), Over(c, q), q # <<>>, toClient \in Seq(Data),
         TakeSyn(Head(q)) \/ TakeOldSyn(Head(q)) \/ TakeSegment(Head(q))
  PROVE  /\ c > 0 /\ Over(c, Tail(q))' /\ toClient' \in Seq(Data)
         /\ \A d \in Connections : d # c => server'[d] = server[d]
         /\ server'[c].una \in {server[c].una, Head(q).ack.off}
<1> DEFINE p == Head(q)
<1>1. c \in Connections /\ c > 0
  BY DEF Over, Connections
<1>2. /\ Others(c) /\ server[c].st # "none" /\ Ended(c, q)
      /\ q \in Seq(FromClient(c, server[c].nxt))
  BY <1>1 DEF Over
<1>3. /\ p \in FromClient(c, server[c].nxt) /\ Tail(q) \in Seq(FromClient(c, server[c].nxt))
      /\ p = q[1] /\ Len(q) > 0 /\ Len(q) \in Nat /\ Len(Tail(q)) = Len(q) - 1
      /\ \A i \in 1..Len(Tail(q)) : Tail(q)[i] = q[i + 1]
  BY <1>2, Pop
<1>4. TakeSegment(p)
  BY <1>3 DEF TakeSyn, TakeOldSyn, FromClient
<1> HIDE DEF p
<1>5. /\ \A d \in Connections : d # c => server'[d] = server[d]
      /\ server'[c].nxt = server[c].nxt
      /\ server'[c].una \in {server[c].una, p.ack.off}
      /\ server'[c].st = IF HasFin(p) THEN "stopped"
                         ELSE IF server[c].st # "stopped" /\ p.cells # <<>> THEN "serving"
                         ELSE IF server[c].st = "syn" THEN "open" ELSE server[c].st
      /\ \/ toClient' = toClient
         \/ toClient' = Append(toClient, Reply(c, {"ack"}, server[c].nxt, <<>>))
  BY <1>1, <1>2, <1>3, <1>4, TakeFacts
<1>6. Others(c)'
  BY <1>1, <1>2, <1>5 DEF Others
<1>7. server'[c].st # "none"
  BY <1>2, <1>5
<1>8. Ended(c, Tail(q))'
  <2>1. CASE server[c].st = "stopped"
    BY <1>5, <2>1 DEF Ended
  <2>2. ASSUME NEW i \in 1..Len(q), HasFin(q[i]) PROVE Ended(c, Tail(q))'
    <3>1. CASE i = 1
      BY <1>3, <1>5, <2>2, <3>1 DEF Ended
    <3>2. CASE i # 1
      <4>1. i - 1 \in 1..Len(Tail(q)) /\ Tail(q)[i - 1] = q[i]
        BY <1>3, <3>2
      <4>2. QED
        BY <2>2, <4>1 DEF Ended
    <3>3. QED
      BY <3>1, <3>2
  <2>3. QED
    BY <1>2, <2>1, <2>2 DEF Ended
<1>9. toClient' \in Seq(Data)
  <2>1. Reply(c, {"ack"}, server[c].nxt, <<>>) \in Data
    <3>1. server[c].nxt \in Nat
      BY <1>1 DEF ServerTyped, Peers
    <3>2. Reply(c, {"ack"}, server[c].nxt, <<>>) \in Segments
      BY <1>1, <3>1, ReplyTyped, EmptySeq
    <3>3. QED
      BY <3>2 DEF Data, IsSynAck, Reply
  <2>2. QED
    BY <1>5, <2>1, Put
<1>10. Over(c, Tail(q))'
  BY <1>1, <1>3, <1>5, <1>6, <1>7, <1>8 DEF Over
<1>11. QED
  BY <1>1, <1>5, <1>9, <1>10 DEF p

LEMMA OverSend ==
  ASSUME Orderly, ServerTyped, NEW c \in 0..MaxConnects,
         NEW q \in Seq(Segments), Over(c, q), toClient \in Seq(Data),
         NEW d \in Connections, ServerSend(d)
  PROVE  /\ c > 0 /\ Over(c, q)' /\ toClient' \in Seq(Data)
         /\ \A e \in Connections : e # c => server'[e] = server[e]
         /\ server'[c].una = server[c].una
<1>1. server[d].st = "serving"
  BY SentPiece
<1>2. d = c
  BY <1>1 DEF Over, Others, Connections
<1>3. c \in Connections /\ c > 0 /\ ServerSend(c)
  BY <1>2, TcpAssumption DEF Connections
<1>4. /\ server[c].st = "serving" /\ server'[c].st = "serving"
      /\ server'[c].una = server[c].una
      /\ \A e \in Connections : e # c => server'[e] = server[e]
      /\ \E p \in Pieces(c) : toClient' = Append(toClient, p)
      /\ server'[c].nxt >= server[c].nxt /\ server'[c].nxt <= StreamEnd + 2
  BY <1>3, SentPiece
<1>5. Pieces(c) \subseteq Data
  BY DEF Pieces, Data, IsSynAck
<1>6. toClient' \in Seq(Data)
  BY <1>4, <1>5, Put
<1>7. /\ Others(c) /\ server[c].st # "none" /\ Ended(c, q)
      /\ q \in Seq(FromClient(c, server[c].nxt))
  BY <1>3 DEF Over
<1>8. Others(c)' /\ Ended(c, q)' /\ server'[c].st # "none"
  BY <1>3, <1>4, <1>7 DEF Others, Ended
<1>9. q \in Seq(FromClient(c, server'[c].nxt))
  <2>1. server[c].nxt \in Nat /\ server'[c].nxt \in Nat
    <3>1. server[c].nxt \in Nat
      BY <1>3 DEF ServerTyped, Peers
    <3>2. PICK p \in Pieces(c) : End(p) = server'[c].nxt
      BY <1>3, SentPiece
    <3>3. p \in Segments /\ Len(p.cells) \in Nat
      BY LenProperties DEF Pieces, Segments
    <3>4. End(p) \in Nat
      BY <3>3 DEF End, Segments, Positions
    <3>5. QED
      BY <3>1, <3>2, <3>4
  <2>2. c \in Nat
    BY <1>3 DEF Connections
  <2>3. FromClient(c, server[c].nxt) \subseteq FromClient(c, server'[c].nxt)
    BY <1>4, <2>1, <2>2, Wide
  <2>4. QED
    BY <1>7, <2>3, Wider
<1>10. Over(c, q)'
  BY <1>3, <1>8, <1>9 DEF Over
<1>11. QED
  BY <1>3, <1>4, <1>6, <1>10

(* The server and the network while client and server talk. *)
LEMMA NotEnded ==
  ASSUME NEW c, NEW q
  PROVE  ~Ended(c, q) <=> server[c].st # "stopped" /\ \A i \in 1..Len(q) : ~HasFin(q[i])
BY DEF Ended

LEMMA ChainGrows ==
  ASSUME ServerTyped, conn \in Connections, Chain, rcv' = rcv, conn' = conn,
         rcv.off \in Nat,
         NEW p \in Pieces(conn), toClient' = Append(toClient, p),
         p.seq.off = server[conn].nxt, End(p) = server'[conn].nxt,
         server'[conn].nxt >= server[conn].nxt, server'[conn].nxt <= StreamEnd + 2
  PROVE  Chain'
<1>1. toClient \in Seq(Pieces(conn))
  BY DEF Chain
<1>2. /\ toClient' \in Seq(Pieces(conn)) /\ Len(toClient') = Len(toClient) + 1
      /\ Len(toClient) \in Nat /\ toClient' # <<>>
      /\ \A i \in 1..Len(toClient) : toClient'[i] = toClient[i]
      /\ toClient'[Len(toClient) + 1] = p
  BY <1>1, Put
<1>3. server[conn].nxt \in Nat /\ server'[conn].nxt \in Nat
  <2>1. p \in Segments /\ Len(p.cells) \in Nat
    BY LenProperties DEF Pieces, Segments
  <2>2. End(p) \in Nat
    BY <2>1 DEF End, Segments, Positions
  <2>3. QED
    BY <2>2 DEF ServerTyped, Peers
<1>4. \A i \in 1..Len(toClient) : End(toClient[i]) \in Nat
  <2>1. ASSUME NEW i \in 1..Len(toClient) PROVE End(toClient[i]) \in Nat
    <3>1. toClient[i] \in Segments
      BY <1>1, ElementOfSeq DEF Pieces
    <3>2. toClient[i].seq.off \in Nat /\ Len(toClient[i].cells) \in Nat
      BY <3>1, LenProperties DEF Segments, Positions
    <3>3. PICK a \in Nat, b \in Nat :
            a = toClient[i].seq.off /\ b = Len(toClient[i].cells)
      BY <3>2
    <3>4. End(toClient[i]) = a + b + (IF HasFin(toClient[i]) THEN 1 ELSE 0)
      BY <3>3 DEF End
    <3>5. QED
      BY <3>4
  <2>2. QED
    BY <2>1
<1>5. toClient = <<>> <=> Len(toClient) = 0
  BY <1>1, EmptySeq
<1>6. ASSUME NEW i \in 1..Len(toClient')
      PROVE  /\ toClient'[i].seq.off = IF i = 1 THEN rcv.off ELSE End(toClient'[i - 1])
             /\ End(toClient'[i]) <= server'[conn].nxt
  <2>1. CASE i = Len(toClient) + 1
    <3>1. toClient'[i] = p
      BY <1>2, <2>1
    <3>2. p.seq.off = IF i = 1 THEN rcv.off ELSE End(toClient[i - 1])
      BY <1>2, <1>5, <2>1 DEF Chain
    <3>3. i # 1 => toClient'[i - 1] = toClient[i - 1]
      BY <1>2, <2>1
    <3>4. QED
      BY <1>3, <3>1, <3>2, <3>3
  <2>2. CASE i # Len(toClient) + 1
    <3>1. i \in 1..Len(toClient) /\ toClient'[i] = toClient[i]
      BY <1>2, <2>2
    <3>2. /\ toClient[i].seq.off = IF i = 1 THEN rcv.off ELSE End(toClient[i - 1])
          /\ End(toClient[i]) <= server[conn].nxt
      BY <3>1 DEF Chain
    <3>3. i # 1 => toClient'[i - 1] = toClient[i - 1]
      BY <1>2, <3>1
    <3>4. QED
      BY <1>3, <1>4, <3>1, <3>2, <3>3
  <2>3. QED
    BY <2>1, <2>2
<1>7. server'[conn].nxt = IF toClient' = <<>> THEN rcv.off ELSE End(toClient'[Len(toClient')])
  BY <1>2
<1>8. rcv.off <= server'[conn].nxt
  BY <1>3 DEF Chain
<1>9. QED
  BY <1>2, <1>6, <1>7, <1>8 DEF Chain

LEMMA TalkTake ==
  ASSUME Orderly, IInv, IInv', OInv, Talk, conn \in Connections, ServerTake,
         UNCHANGED <<conn, state, rcv, rx, pc, got>>
  PROVE  Talk'
<1> DEFINE p == Head(toServer)
           s == server[conn]
<1>1. /\ ServerTyped /\ toServer \in Seq(FromClient(conn, rcv.off))
      /\ Others(conn) /\ s.st # "none"
      /\ rcv.off \in Nat /\ rcv.off <= s.nxt /\ s.nxt \in Nat /\ s.una \in Nat /\ s.una <= rcv.off
      /\ conn \in Nat
  BY DEF IInv, Talk, Buffered, Chain, ServerTyped, Peers, Connections, TcbTyped, Positions
<1>2. toServer # <<>> /\ toServer' = Tail(toServer)
  BY DEF ServerTake
<1>3. /\ p \in FromClient(conn, rcv.off) /\ Tail(toServer) \in Seq(FromClient(conn, rcv.off))
      /\ p = toServer[1] /\ Len(toServer) > 0 /\ Len(toServer) \in Nat
      /\ Len(Tail(toServer)) = Len(toServer) - 1
      /\ \A i \in 1..Len(Tail(toServer)) : Tail(toServer)[i] = toServer[i + 1]
  BY <1>1, <1>2, Pop
<1>4. p \in FromClient(conn, s.nxt)
  BY <1>1, <1>3, Wide
<1>5. TakeSegment(p)
  BY <1>3 DEF ServerTake, TakeSyn, TakeOldSyn, FromClient
<1> HIDE DEF p
<1>6. /\ \A d \in Connections : d # conn => server'[d] = server[d]
      /\ server'[conn].nxt = s.nxt
      /\ server'[conn].una \in {s.una, p.ack.off} /\ server'[conn].una >= p.ack.off
      /\ server'[conn].una >= s.una
      /\ server'[conn].st = IF HasFin(p) THEN "stopped"
                            ELSE IF s.st # "stopped" /\ p.cells # <<>> THEN "serving"
                            ELSE IF s.st = "syn" THEN "open" ELSE s.st
      /\ \/ toClient' = toClient
         \/ /\ toClient' = Append(toClient, Reply(conn, {"ack"}, s.nxt, <<>>))
            /\ p.cells # <<>>
  BY <1>1, <1>4, <1>5, TakeFacts
<1>7. p.ack.off \in 1..rcv.off
  BY <1>3 DEF FromClient
<1>8. Others(conn)' /\ server'[conn].st # "none"
  BY <1>1, <1>6 DEF Others
<1>9. server'[conn].una <= rcv.off /\ server'[conn].una \in Nat
  BY <1>1, <1>6, <1>7
<1>10. Buffered'
  BY <1>2, <1>3, <1>9 DEF Talk, Buffered
<1>11. Chain'
  <2>1. CASE toClient' = toClient
    BY <1>6, <2>1 DEF Talk, Chain
  <2>2. CASE toClient' = Append(toClient, Reply(conn, {"ack"}, s.nxt, <<>>))
    <3> DEFINE a == Reply(conn, {"ack"}, s.nxt, <<>>)
    <3>1. a \in Segments
      BY <1>1, ReplyTyped, EmptySeq
    <3>2. a.flags = {"ack"} /\ a.cells = <<>> /\ a.seq.off = s.nxt
      BY DEF Reply, At
    <3>3. toClient' = Append(toClient, a)
      BY <2>2
    <3> HIDE DEF a
    <3>4. ~HasFin(a) /\ "syn" \notin a.flags /\ Len(a.cells) = 0
      BY <3>2, EmptySeq DEF HasFin
    <3>5. a \in Pieces(conn) /\ End(a) = s.nxt
      BY <1>1, <3>1, <3>2, <3>4 DEF Pieces, End
    <3>6. s.nxt <= StreamEnd + 2 /\ Chain
      BY DEF Talk, Chain
    <3>7. QED
      BY <1>1, <1>6, <3>2, <3>3, <3>5, <3>6, ChainGrows
  <2>3. QED
    BY <1>6, <2>1, <2>2
<1>12. state' = IF rcv'.off = StreamEnd + 2 THEN "closed" ELSE "established"
  BY DEF Talk
<1>13. state' = "closed" => Ended(conn, toServer)'
  <2>1. ASSUME Ended(conn, toServer) PROVE Ended(conn, toServer)'
    <3>1. CASE s.st = "stopped"
      BY <1>6, <3>1 DEF Ended
    <3>2. ASSUME NEW i \in 1..Len(toServer), HasFin(toServer[i]) PROVE Ended(conn, toServer)'
      <4>1. CASE i = 1
        BY <1>3, <1>6, <3>2, <4>1 DEF Ended
      <4>2. CASE i # 1
        <5>1. i - 1 \in 1..Len(Tail(toServer)) /\ Tail(toServer)[i - 1] = toServer[i]
          BY <1>3, <4>2
        <5>2. QED
          BY <1>2, <3>2, <5>1 DEF Ended
      <4>3. QED
        BY <4>1, <4>2
    <3>3. QED
      BY <2>1, <3>1, <3>2 DEF Ended
  <2>2. QED
    BY <2>1 DEF Talk
<1>14. ASSUME state' = "established"
       PROVE  /\ ~Ended(conn, toServer)'
              /\ \/ server'[conn].una = rcv.off
                 \/ \E i \in 1..Len(toServer') : toServer'[i].ack.off = rcv.off
              /\ ~Greeting' => \/ server'[conn].st = "serving"
                               \/ \E i \in 1..Len(toServer') : toServer'[i].cells # <<>>
  <2>1. /\ ~Ended(conn, toServer)
        /\ \/ s.una = rcv.off
           \/ \E i \in 1..Len(toServer) : toServer[i].ack.off = rcv.off
        /\ ~Greeting => \/ s.st = "serving"
                        \/ \E i \in 1..Len(toServer) : toServer[i].cells # <<>>
    BY <1>14 DEF Talk
  <2>2. s.st # "stopped" /\ \A i \in 1..Len(toServer) : ~HasFin(toServer[i])
    BY <2>1, NotEnded
  <2>3. ~HasFin(p)
    BY <1>3, <2>2
  <2>4. ~Ended(conn, toServer)'
    BY <1>2, <1>3, <1>6, <2>2, <2>3 DEF Ended
  <2>5. ASSUME NEW i \in 1..Len(toServer), i # 1
        PROVE  i - 1 \in 1..Len(toServer') /\ toServer'[i - 1] = toServer[i]
    BY <1>2, <1>3, <2>5
  <2>6. \/ server'[conn].una = rcv.off
        \/ \E i \in 1..Len(toServer') : toServer'[i].ack.off = rcv.off
    <3>1. CASE s.una = rcv.off
      BY <1>1, <1>6, <1>9, <3>1
    <3>2. ASSUME NEW i \in 1..Len(toServer), toServer[i].ack.off = rcv.off
          PROVE  \/ server'[conn].una = rcv.off
                 \/ \E j \in 1..Len(toServer') : toServer'[j].ack.off = rcv.off
      <4>1. CASE i = 1
        BY <1>1, <1>3, <1>6, <1>9, <3>2, <4>1
      <4>2. CASE i # 1
        BY <2>5, <3>2, <4>2
      <4>3. QED
        BY <4>1, <4>2
    <3>3. QED
      BY <2>1, <3>1, <3>2
  <2>7. ASSUME ~Greeting
        PROVE  \/ server'[conn].st = "serving"
               \/ \E i \in 1..Len(toServer') : toServer'[i].cells # <<>>
    <3>1. CASE s.st = "serving"
      BY <1>6, <2>3, <3>1
    <3>2. ASSUME NEW i \in 1..Len(toServer), toServer[i].cells # <<>>
          PROVE  \/ server'[conn].st = "serving"
                 \/ \E j \in 1..Len(toServer') : toServer'[j].cells # <<>>
      <4>1. CASE i = 1
        BY <1>3, <1>6, <2>2, <2>3, <3>2, <4>1
      <4>2. CASE i # 1
        BY <2>5, <3>2, <4>2
      <4>3. QED
        BY <4>1, <4>2
    <3>3. QED
      BY <2>1, <2>7, <3>1, <3>2
  <2>8. Greeting' <=> Greeting
    BY DEF Greeting
  <2>9. QED
    BY <2>4, <2>6, <2>7, <2>8
<1>15. ASSUME Greeting'
       PROVE  /\ toClient' = <<>> /\ rcv.off = 1 /\ server'[conn].st \in {"syn", "open"}
              /\ \A i \in 1..Len(toServer') : toServer'[i].cells = <<>>
  <2>1. /\ toClient = <<>> /\ rcv.off = 1 /\ s.st \in {"syn", "open"}
        /\ \A i \in 1..Len(toServer) : toServer[i].cells = <<>>
    BY <1>15 DEF Talk, Greeting
  <2>2. state = "established" /\ ~HasFin(p) /\ p.cells = <<>>
    <3>1. StreamEnd \in Nat
      BY FetchAssumption DEF StreamEnd
    <3>2. state = "established"
      BY <2>1, <3>1 DEF Talk
    <3>3. ~Ended(conn, toServer)
      BY <3>2 DEF Talk
    <3>4. QED
      BY <1>3, <2>1, <3>2, <3>3 DEF Ended
  <2>3. QED
    BY <1>2, <1>3, <1>6, <2>1, <2>2
<1>16. pc' = "done" => got' = Source(conn')
  BY DEF Talk, Source
<1>17. QED
  BY <1>8, <1>10, <1>11, <1>12, <1>13, <1>14, <1>15, <1>16 DEF Talk

LEMMA TalkSend ==
  ASSUME Orderly, IInv, OInv, Talk, conn \in Connections, NEW d \in Connections, ServerSend(d),
         UNCHANGED <<conn, state, rcv, rx, pc, got, toServer>>
  PROVE  Talk'
<1>1. /\ ServerTyped /\ Others(conn) /\ Chain /\ rcv.off \in Nat
  BY DEF IInv, Talk, TcbTyped, Positions
<1>2. d = conn
  <2>1. server[d].st = "serving"
    BY <1>1, SentPiece
  <2>2. QED
    BY <1>1, <2>1 DEF Others, Connections
<1>3. /\ server[conn].st = "serving" /\ server'[conn].st = "serving"
      /\ server'[conn].una = server[conn].una
      /\ \A e \in Connections : e # conn => server'[e] = server[e]
      /\ \E p \in Pieces(conn) :
              /\ toClient' = Append(toClient, p) /\ p.seq.off = server[conn].nxt
              /\ End(p) = server'[conn].nxt
      /\ server'[conn].nxt >= server[conn].nxt /\ server'[conn].nxt <= StreamEnd + 2
  BY <1>1, <1>2, SentPiece
<1>4. Chain'
  BY <1>1, <1>3, ChainGrows
<1>5. Others(conn)'
  BY <1>1, <1>3 DEF Others
<1>6. Buffered'
  BY <1>3 DEF Talk, Buffered
<1>7. ~Greeting
  BY <1>3 DEF Talk
<1>8. Greeting' <=> Greeting
  BY DEF Greeting
<1>9. Ended(conn, toServer)' <=> Ended(conn, toServer)
  BY <1>3 DEF Ended
<1>10. QED
  BY <1>3, <1>4, <1>5, <1>6, <1>7, <1>8, <1>9 DEF Talk, Source

(* So it does while the server and the network go on.                        *)
LEMMA OverStays ==
  ASSUME Orderly, ServerTyped, ServerTyped', WireTyped, NEW c \in 0..MaxConnects,
         Over(c, toServer), toClient \in Seq(Data),
         ServerTake \/ \E d \in Connections : ServerSend(d)
  PROVE  /\ c > 0 /\ Over(c, toServer)' /\ toClient' \in Seq(Data)
         /\ \A d \in Connections : d # c => server'[d] = server[d]
         /\ \/ server'[c].una = server[c].una /\ toServer' = toServer
            \/ /\ toServer # <<>> /\ toServer' = Tail(toServer)
               /\ server'[c].una \in {server[c].una, Head(toServer).ack.off}
<1> SUFFICES ASSUME NEW q, q = toServer
             PROVE  /\ c > 0 /\ Over(c, toServer)' /\ toClient' \in Seq(Data)
                    /\ \A d \in Connections : d # c => server'[d] = server[d]
                    /\ \/ server'[c].una = server[c].una /\ toServer' = toServer
                       \/ /\ toServer # <<>> /\ toServer' = Tail(toServer)
                          /\ server'[c].una \in {server[c].una, Head(toServer).ack.off}
  OBVIOUS
<1>1. q \in Seq(Segments) /\ Over(c, q)
  BY DEF WireTyped
<1>2. CASE ServerTake
  <2>1. /\ q # <<>> /\ toServer' = Tail(q)
        /\ TakeSyn(Head(q)) \/ TakeOldSyn(Head(q)) \/ TakeSegment(Head(q))
    BY <1>2 DEF ServerTake
  <2>2. /\ c > 0 /\ Over(c, Tail(q))' /\ toClient' \in Seq(Data)
        /\ \A d \in Connections : d # c => server'[d] = server[d]
        /\ server'[c].una \in {server[c].una, Head(q).ack.off}
    BY <1>1, <2>1, OverTake
  <2>3. Over(c, toServer)'
    BY <2>1, <2>2 DEF Over, Ended
  <2>4. QED
    BY <2>1, <2>2, <2>3
<1>3. ASSUME NEW d \in Connections, ServerSend(d)
      PROVE  /\ c > 0 /\ Over(c, toServer)' /\ toClient' \in Seq(Data)
             /\ \A e \in Connections : e # c => server'[e] = server[e]
             /\ server'[c].una = server[c].una /\ toServer' = toServer
  <2>1. toServer' = q
    BY <1>3 DEF ServerSend
  <2>2. /\ c > 0 /\ Over(c, q)' /\ toClient' \in Seq(Data)
        /\ \A e \in Connections : e # c => server'[e] = server[e]
        /\ server'[c].una = server[c].una
    BY <1>1, <1>3, OverSend
  <2>3. Over(c, toServer)'
    BY <2>1, <2>2 DEF Over, Ended
  <2>4. QED
    BY <2>1, <2>2, <2>3
<1>4. QED
  BY <1>2, <1>3

LEMMA IdleWorld ==
  ASSUME Orderly, IInv, IInv', Idle, UNCHANGED <<tcb, fetching>>,
         ServerTake \/ \E d \in Connections : ServerSend(d)
  PROVE  Idle'
<1>1. /\ ServerTyped /\ ServerTyped' /\ WireTyped /\ conn \in 0..MaxConnects
      /\ rcv.off \in Nat
  BY DEF IInv, TcbTyped, Positions
<1>2. /\ conn' = conn /\ rcv' = rcv /\ rx' = rx /\ outcome' = outcome /\ got' = got
  BY DEF tcb, fetching
<1>3. /\ Over(conn, toServer) /\ toClient \in Seq(Data)
      /\ conn > 0 => Buffered
      /\ outcome = "ok" => conn > 0 /\ got = Source(conn)
  BY DEF Idle
<1>4. ASSUME NEW k \in 0..MaxConnects, k = conn
      PROVE  /\ k > 0 /\ Over(k, toServer)' /\ toClient' \in Seq(Data)
             /\ \/ server'[k].una = server[k].una /\ toServer' = toServer
                \/ /\ toServer # <<>> /\ toServer' = Tail(toServer)
                   /\ server'[k].una \in {server[k].una, Head(toServer).ack.off}
  <2>1. Over(k, toServer)
    BY <1>3, <1>4
  <2>2. QED
    BY <1>1, <1>3, <2>1, OverStays
<1>5. /\ Over(conn, toServer)' /\ toClient' \in Seq(Data) /\ conn > 0
  <2>1. PICK k \in 0..MaxConnects : k = conn
    BY <1>1
  <2>2. k > 0 /\ Over(k, toServer)' /\ toClient' \in Seq(Data)
    BY <1>4, <2>1
  <2>3. QED
    BY <1>2, <2>1, <2>2 DEF Over, Others, Ended
<1>6. \/ server'[conn].una = server[conn].una /\ toServer' = toServer
      \/ /\ toServer # <<>> /\ toServer' = Tail(toServer)
         /\ server'[conn].una \in {server[conn].una, Head(toServer).ack.off}
  BY <1>1, <1>4
<1>7. Buffered
  BY <1>3, <1>5
<1>8. toServer \in Seq(FromClient(conn, rcv.off)) /\ server[conn].una <= rcv.off
  BY <1>7 DEF Buffered
<1>9. toServer # <<>> => /\ Tail(toServer) \in Seq(FromClient(conn, rcv.off))
                         /\ Head(toServer).ack.off <= rcv.off
  <2>1. ASSUME toServer # <<>>
        PROVE  /\ Tail(toServer) \in Seq(FromClient(conn, rcv.off))
               /\ Head(toServer) \in FromClient(conn, rcv.off)
    BY <1>8, <2>1, Pop
  <2>2. QED
    BY <1>1, <2>1 DEF FromClient
<1>10. toServer' \in Seq(FromClient(conn, rcv.off)) /\ server'[conn].una <= rcv.off
  BY <1>6, <1>8, <1>9
<1>11. Buffered'
  BY <1>2, <1>7, <1>10 DEF Buffered
<1>12. QED
  BY <1>2, <1>3, <1>5, <1>11 DEF Idle, Source

LEMMA OpenedWorld ==
  ASSUME Orderly, IInv, IInv', Opened, conn > 0, UNCHANGED <<tcb, fetching>>,
         ServerTake \/ \E d \in Connections : ServerSend(d)
  PROVE  Opened'
<1>1. /\ ServerTyped /\ ServerTyped' /\ WireTyped /\ conn \in 0..MaxConnects
  BY DEF IInv, TcbTyped
<1>2. /\ conn' = conn /\ rx' = rx /\ state' = state /\ retry' = retry
  BY DEF tcb, fetching
<1>3. PICK k \in 0..MaxConnects : k = conn - 1
  BY <1>1, TcpAssumption
<1>4. Over(k, toServer) /\ toClient \in Seq(Data)
  BY <1>3 DEF Opened
<1>5. Over(k, toServer)' /\ toClient' \in Seq(Data)
  BY <1>1, <1>4, OverStays
<1>6. Over(conn - 1, toServer)'
  BY <1>2, <1>3, <1>5 DEF Over, Others, Ended
<1>7. QED
  BY <1>2, <1>5, <1>6 DEF Opened

(* The SYN reaches the server behind what was under way before it.           *)
LEMMA SynWorld ==
  ASSUME Orderly, IInv, IInv', conn \in Connections, UNCHANGED <<tcb, fetching>>,
         SynUnderWay \/ SynAnswered,
         ServerTake \/ \E d \in Connections : ServerSend(d)
  PROVE  (SynUnderWay \/ SynAnswered)'
<1>1. /\ ServerTyped /\ ServerTyped' /\ conn' = conn /\ conn \in Nat /\ conn > 0
  BY DEF IInv, tcb, Connections
<1>2. PICK k \in 0..MaxConnects : k = conn - 1
  BY <1>1, TcpAssumption DEF Connections
<1>3. CASE SynUnderWay
  <2>1. PICK q \in Seq(Segments), p \in Segments :
          /\ toServer = Append(q, p) /\ p.conn = conn /\ "syn" \in p.flags
          /\ Over(conn - 1, q)
    BY <1>3 DEF SynUnderWay
  <2>2. Over(k, q) /\ toClient \in Seq(Data)
    BY <1>2, <1>3, <2>1 DEF SynUnderWay
  <2>3. ASSUME NEW d \in Connections, ServerSend(d) PROVE SynUnderWay'
    <3>1. toServer' = toServer
      BY <2>3 DEF ServerSend
    <3>2. Over(k, q)' /\ toClient' \in Seq(Data)
      BY <1>1, <2>2, <2>3, OverSend
    <3>3. Over(conn - 1, q)'
      BY <1>1, <1>2, <3>2 DEF Over, Others, Ended
    <3>4. QED
      BY <1>1, <2>1, <3>1, <3>2, <3>3 DEF SynUnderWay
  <2>4. CASE ServerTake /\ q # <<>>
    <3>1. /\ Head(toServer) = Head(q) /\ Tail(toServer) = Append(Tail(q), p)
          /\ Tail(q) \in Seq(Segments)
      BY <2>1, <2>4, PopPut, Pop
    <3>2. /\ toServer' = Append(Tail(q), p)
          /\ TakeSyn(Head(q)) \/ TakeOldSyn(Head(q)) \/ TakeSegment(Head(q))
      BY <2>4, <3>1 DEF ServerTake
    <3>3. Over(k, Tail(q))' /\ toClient' \in Seq(Data)
      BY <1>1, <2>2, <2>4, <3>2, OverTake
    <3>4. Over(conn - 1, Tail(q))'
      BY <1>1, <1>2, <3>3 DEF Over, Others, Ended
    <3>5. QED
      BY <1>1, <2>1, <3>1, <3>2, <3>3, <3>4 DEF SynUnderWay
  <2>5. CASE ServerTake /\ q = <<>>
    <3>1. Head(toServer) = p /\ toServer' = <<>>
      <4>1. Head(toServer) = p /\ Tail(toServer) = <<>>
        BY <2>1, <2>5, PopPut
      <4>2. QED
        BY <2>5, <4>1 DEF ServerTake
    <3>2. \A d \in Connections :
            /\ d < conn => server[d].st = "stopped"
            /\ d >= conn => server[d].st = "none" /\ server[d].una = 0
      <4>1. Others(k) /\ (k # 0 => server[k].st = "stopped")
        <5>1. k # 0 => Ended(k, q) /\ Others(k)
          BY <2>2 DEF Over
        <5>2. Others(k)
          BY <2>2 DEF Over
        <5>3. Len(q) = 0
          BY <2>5, EmptySeq
        <5>4. QED
          BY <5>1, <5>2, <5>3 DEF Ended
      <4>2. ASSUME NEW d \in Connections
            PROVE  /\ d < conn => server[d].st = "stopped"
                   /\ d >= conn => server[d].st = "none" /\ server[d].una = 0
        <5>1. d \in Nat /\ d > 0
          BY DEF Connections
        <5>2. /\ d < k => server[d].st = "stopped"
              /\ d > k => server[d].st = "none" /\ server[d].una = 0
          BY <4>1 DEF Others
        <5>3. QED
          BY <1>1, <1>2, <4>1, <5>1, <5>2
      <4>3. QED
        BY <4>2
    <3>3. server[conn].st = "none"
      BY <1>1, <3>2
    <3>4. TakeSyn(p)
      <4>1. TakeSyn(p) \/ TakeOldSyn(p) \/ TakeSegment(p)
        BY <2>5, <3>1 DEF ServerTake
      <4>2. QED
        BY <2>1, <3>3, <4>1 DEF TakeOldSyn, TakeSegment
    <3>5. PICK m \in Modes :
            server' = [server EXCEPT ![conn] =
                         [st |-> "syn", mode |-> m, una |-> 0, nxt |-> 1]]
      BY <2>1, <3>3, <3>4 DEF TakeSyn
    <3>6. /\ server'[conn].st = "syn" /\ server'[conn].una = 0 /\ server'[conn].nxt = 1
          /\ \A d \in Connections : d # conn => server'[d] = server[d]
      BY <1>1, <3>5 DEF ServerTyped
    <3>7. Others(conn)'
      <4>1. ASSUME NEW d \in Connections
            PROVE  /\ d < conn => server'[d].st = "stopped"
                   /\ d > conn => server'[d].st = "none" /\ server'[d].una = 0
        <5>1. d \in Nat
          BY DEF Connections
        <5>2. d < conn \/ d > conn => server'[d] = server[d]
          BY <1>1, <3>6, <5>1
        <5>3. QED
          BY <1>1, <3>2, <5>1, <5>2
      <4>2. QED
        BY <1>1, <4>1 DEF Others
    <3> DEFINE a == Reply(conn, {"syn", "ack"}, 0, <<>>)
    <3>8. a \in Segments
      BY <1>1, ReplyTyped, EmptySeq
    <3>9. IsSynAck(a) /\ a.seq = At(conn, 0)
      BY DEF Reply, IsSynAck
    <3>10. toClient' = Append(toClient, a)
      BY <2>1, <3>4 DEF TakeSyn
    <3> HIDE DEF a
    <3>11. \E r \in Seq(Data), b \in Segments :
             toClient' = Append(r, b) /\ IsSynAck(b) /\ b.seq = At(conn, 0)
      BY <2>2, <3>8, <3>9, <3>10
    <3>12. QED
      BY <1>1, <3>1, <3>6, <3>7, <3>11 DEF SynAnswered, IsSynAck, At
  <2>6. QED
    BY <2>3, <2>4, <2>5
<1>4. CASE SynAnswered
  <2>1. toServer = <<>> /\ Others(conn) /\ server[conn].st = "syn"
    BY <1>4 DEF SynAnswered
  <2>2. ~ServerTake
    BY <2>1 DEF ServerTake
  <2>3. ASSUME NEW d \in Connections, ServerSend(d) PROVE FALSE
    <3>1. server[d].st = "serving" /\ d \in Nat
      BY <2>3 DEF ServerSend, Connections
    <3>2. QED
      BY <1>1, <2>1, <3>1 DEF Others
  <2>4. QED
    BY <2>2, <2>3
<1>5. QED
  BY <1>3, <1>4

LEMMA OrderlyWorld ==
  ASSUME Orderly, IInv, IInv', OInv, World
  PROVE  OInv'
<1>1. faults = 0 /\ MaxFaults = 0
  BY DEF OInv, Orderly
<1>2. ServerTake \/ \E d \in Connections : ServerSend(d)
  BY <1>1 DEF World, ServerRetransmit, Lose, Duplicate, Delay
<1>3. UNCHANGED <<tcb, fetching>> /\ faults' = 0
  BY <1>1, <1>2 DEF ServerTake, ServerSend, TakeSyn, TakeOldSyn, TakeSegment
<1>4. UNCHANGED <<conn, state, snd, rcv, rx, processed, hasData,
                  pc, retry, idle, got, outcome>>
  BY <1>3 DEF tcb, fetching
<1>5. pc # "idle" => conn \in Connections /\ conn > 0
  BY DEF IInv, TcbTyped, Phases, Connections
<1>6. CASE pc = "idle"
  BY <1>2, <1>3, <1>4, <1>6, IdleWorld DEF OInv
<1>7. CASE pc = "syn"
  BY <1>2, <1>3, <1>4, <1>5, <1>7, OpenedWorld DEF OInv
<1>8. CASE pc = "synwait" /\ state = "syn_sent"
  <2>1. (SynUnderWay \/ SynAnswered)'
    BY <1>2, <1>3, <1>5, <1>8, SynWorld DEF OInv
  <2>2. QED
    BY <1>3, <1>4, <1>8, <2>1 DEF OInv
<1>9. CASE pc \notin {"idle", "syn"} /\ ~(pc = "synwait" /\ state = "syn_sent")
  <2>1. Talk
    BY <1>9 DEF OInv
  <2>2. Talk'
    <3>1. CASE ServerTake
      BY <1>4, <1>5, <1>9, <2>1, <3>1, TalkTake
    <3>2. ASSUME NEW d \in Connections, ServerSend(d) PROVE Talk'
      <4>1. toServer' = toServer
        BY <3>2 DEF ServerSend
      <4>2. QED
        BY <1>4, <1>5, <1>9, <2>1, <3>2, <4>1, TalkSend
    <3>3. QED
      BY <1>2, <3>1, <3>2
  <2>3. QED
    BY <1>3, <1>4, <1>9, <2>2 DEF OInv
<1>10. QED
  BY <1>6, <1>7, <1>8, <1>9

(* The kernel opens a connection and sends its SYN. *)
LEMMA OrderlyStart ==
  ASSUME IInv, OInv, Start
  PROVE  OInv'
<1>1. /\ Over(conn, toServer) /\ toClient \in Seq(Data) /\ faults = 0
  BY DEF OInv, Idle, Start
<1>2. /\ conn' = conn + 1 /\ conn \in Nat /\ state' = "closed" /\ rx' = <<>> /\ retry' = 0
      /\ pc' = "syn" /\ UNCHANGED <<server, toClient, toServer, faults>>
  BY TcpAssumption DEF Start, TcpOpen, IInv, TcbTyped
<1>3. PICK k \in Nat : k = conn
  BY <1>2
<1>4. Over(k, toServer)' /\ conn' - 1 = k
  BY <1>1, <1>2, <1>3 DEF Over, Others, Ended
<1>5. Over(conn - 1, toServer)'
  BY <1>4 DEF Over, Others, Ended
<1>6. QED
  BY <1>1, <1>2, <1>5 DEF OInv, Opened

LEMMA OrderlySyn ==
  ASSUME IInv, OInv, SendSyn
  PROVE  OInv'
<1>1. /\ Over(conn - 1, toServer) /\ toClient \in Seq(Data) /\ faults = 0 /\ rx = <<>>
  BY DEF OInv, Opened, SendSyn
<1>2. /\ toServer' = Append(toServer, Segment({"syn"}, snd, At(conn, 0), <<>>))
      /\ state' = "syn_sent" /\ pc' = "synwait"
      /\ UNCHANGED <<conn, rx, server, toClient, faults>>
  BY DEF SendSyn, TcpSyn
<1>3. conn \in Connections /\ conn \in Nat /\ snd \in Positions /\ toServer \in Seq(Segments)
  BY DEF SendSyn, IInv, TcbTyped, Phases, Connections, WireTyped
<1> DEFINE p == Segment({"syn"}, snd, At(conn, 0), <<>>)
<1>4. p \in Segments
  BY <1>3, PositionsTyped, SegmentTyped, EmptySeq
<1>5. p.conn = conn /\ "syn" \in p.flags
  BY DEF Segment
<1>6. toServer' = Append(toServer, p)
  BY <1>2
<1> HIDE DEF p
<1>7. PICK q \in Seq(Segments), s \in Segments :
        /\ toServer' = Append(q, s) /\ s.conn = conn /\ "syn" \in s.flags
        /\ Over(conn - 1, q)
  BY <1>1, <1>3, <1>4, <1>5, <1>6
<1>8. Over(conn - 1, q)'
  BY <1>2, <1>7 DEF Over, Others, Ended
<1>9. SynUnderWay'
  BY <1>1, <1>2, <1>7, <1>8 DEF SynUnderWay
<1>10. QED
  BY <1>1, <1>2, <1>9 DEF OInv

(* What arrives before the answer to the SYN is left aside. *)
LEMMA OrderlyAnswer ==
  ASSUME IInv, OInv, Poll, pc = "synwait", state = "syn_sent"
  PROVE  OInv'
<1>1. faults = 0 /\ rx = <<>> /\ (SynUnderWay \/ SynAnswered)
  BY DEF OInv
<1>2. /\ toClient # <<>> /\ toClient' = Tail(toClient) /\ TcpProcess(Head(toClient))
      /\ UNCHANGED <<pc, server, faults>>
  BY DEF Poll, fetching
<1>3. /\ conn \in Connections /\ conn \in Nat /\ conn > 0
      /\ toServer \in Seq(Segments) /\ toClient \in Seq(Segments)
  BY DEF IInv, TcbTyped, Phases, Connections, WireTyped
<1>4. ASSUME Head(toClient) \in Data
      PROVE  UNCHANGED <<conn, state, snd, rcv, rx, toServer>>
  BY <1>2, <1>4 DEF TcpProcess, IgnoreSegment, AcceptSynAck, ReceiveSegment, Data, tcb
<1>5. CASE SynUnderWay
  <2>1. toClient \in Seq(Data)
    BY <1>5 DEF SynUnderWay
  <2>2. Head(toClient) \in Data /\ toClient' \in Seq(Data)
    BY <1>2, <2>1, Pop
  <2>3. UNCHANGED <<conn, state, snd, rcv, rx, toServer>>
    BY <1>4, <2>2
  <2>4. PICK q \in Seq(Segments), p \in Segments :
          /\ toServer = Append(q, p) /\ p.conn = conn /\ "syn" \in p.flags
          /\ Over(conn - 1, q)
    BY <1>5 DEF SynUnderWay
  <2>5. Over(conn - 1, q)'
    BY <1>2, <2>3, <2>4 DEF Over, Others, Ended
  <2>6. SynUnderWay'
    BY <2>2, <2>3, <2>4, <2>5 DEF SynUnderWay
  <2>7. QED
    BY <1>1, <1>2, <2>3, <2>6 DEF OInv
<1>6. CASE SynAnswered
  <2>1. PICK q \in Seq(Data), p \in Segments :
          toClient = Append(q, p) /\ IsSynAck(p) /\ p.seq = At(conn, 0)
    BY <1>6 DEF SynAnswered
  <2>2. /\ Others(conn) /\ toServer = <<>>
        /\ server[conn].st = "syn" /\ server[conn].una = 0 /\ server[conn].nxt = 1
    BY <1>6 DEF SynAnswered
  <2>3. q \in Seq(Segments)
    BY <2>1, Wider DEF Data
  <2>4. CASE q # <<>>
    <3>1. Head(toClient) = Head(q) /\ toClient' = Append(Tail(q), p)
      BY <1>2, <2>1, <2>3, <2>4, PopPut
    <3>2. Head(q) \in Data /\ Tail(q) \in Seq(Data)
      BY <2>4, Pop
    <3>3. UNCHANGED <<conn, state, snd, rcv, rx, toServer>>
      BY <1>4, <3>1, <3>2
    <3>4. SynAnswered'
      BY <1>2, <2>1, <2>2, <3>1, <3>2, <3>3 DEF SynAnswered, Others
    <3>5. QED
      BY <1>1, <1>2, <3>3, <3>4 DEF OInv
  <2>5. CASE q = <<>>
    <3>1. Head(toClient) = p /\ toClient' = <<>>
      BY <1>2, <2>1, <2>3, <2>5, PopPut
    <3>2. AcceptSynAck(p)
      BY <1>2, <2>1, <3>1 DEF TcpProcess, IgnoreSegment, ReceiveSegment
    <3>3. /\ state' = "established" /\ rcv' = At(conn, 1) /\ rx' = <<>>
          /\ toServer' = Append(<<>>, Segment({"ack"}, snd', rcv', <<>>))
          /\ conn' = conn /\ snd' = p.ack
      <4>1. Advance(At(conn, 0), 1) = At(conn, 1)
        BY DEF Advance, At
      <4>2. rcv' = At(conn, 1)
        BY <2>1, <3>2, <4>1 DEF AcceptSynAck
      <4>3. toServer' = Append(<<>>, Segment({"ack"}, snd', rcv', <<>>))
        BY <2>2, <3>2 DEF AcceptSynAck
      <4>4. QED
        BY <1>1, <3>2, <4>2, <4>3 DEF AcceptSynAck
    <3> DEFINE a == Segment({"ack"}, snd', rcv', <<>>)
    <3>4. a \in Segments
      <4>1. rcv' \in Positions /\ snd' \in Positions
        BY <1>3, <3>3, PositionsTyped DEF Segments
      <4>2. QED
        BY <1>3, <4>1, SegmentTyped, EmptySeq
    <3>5. /\ a.conn = conn /\ a.flags = {"ack"} /\ a.ack = At(conn, 1) /\ a.cells = <<>>
      BY <3>3 DEF Segment
    <3>6. toServer' = <<a>>
      BY <3>3
    <3> HIDE DEF a
    <3>7. rcv'.conn = conn /\ rcv'.off = 1 /\ a.ack.conn = conn /\ a.ack.off = 1
      BY <3>3, <3>5 DEF At
    <3>8. StreamEnd \in Nat /\ StreamEnd > 0 /\ Len(<<>>) = 0
      BY FetchAssumption, EmptySeq DEF StreamEnd
    <3>9. /\ toServer' \in Seq(FromClient(conn, 1)) /\ Len(toServer') = 1 /\ toServer'[1] = a
      BY <3>4, <3>5, <3>6, <3>7 DEF FromClient
    <3>10. Buffered'
      <4>1. toServer' \in Seq(FromClient(conn', rcv'.off))
        BY <3>3, <3>7, <3>9
      <4>2. Len(rx') = 0 /\ \A n \in 1..Len(rx') : FALSE
        BY <3>3, <3>8
      <4>3. server'[conn'].una <= rcv'.off
        BY <1>2, <2>2, <3>3, <3>7
      <4>4. Len(rx') = IF rcv'.off > StreamEnd THEN StreamEnd ELSE rcv'.off - 1
        BY <3>7, <3>8, <4>2
      <4>5. rcv'.conn = conn' /\ rcv'.off \in 1..(StreamEnd + 2)
        BY <3>3, <3>7, <3>8
      <4>6. QED
        BY <4>1, <4>2, <4>3, <4>4, <4>5 DEF Buffered
    <3>11. Chain'
      <4>1. toClient' \in Seq(Pieces(conn')) /\ Len(toClient') = 0
        BY <3>1, EmptySeq
      <4>2. server'[conn'].nxt = rcv'.off /\ rcv'.off <= StreamEnd + 2
        BY <1>2, <2>2, <3>3, <3>7, <3>8
      <4>3. rcv'.off <= rcv'.off
        BY <3>7
      <4>4. \A i \in 1..Len(toClient') : FALSE
        BY <4>1
      <4>5. QED
        BY <3>1, <4>1, <4>2, <4>3, <4>4 DEF Chain
    <3>12. server'[conn'].st = "syn" /\ Others(conn)' /\ Greeting' /\ pc' # "done"
      BY <1>2, <2>2, <3>3 DEF Others, Greeting
    <3>13. ~Ended(conn, toServer)'
      BY <3>5, <3>9, <3>12 DEF Ended, HasFin
    <3>14. rcv'.off # StreamEnd + 2
      BY <3>7, <3>8
    <3>15. Talk'
      BY <3>1, <3>3, <3>5, <3>7, <3>9, <3>10, <3>11, <3>12, <3>13, <3>14 DEF Talk
    <3>16. QED
      BY <1>1, <1>2, <3>3, <3>15 DEF OInv
  <2>6. QED
    BY <2>4, <2>5
<1>7. QED
  BY <1>1, <1>5, <1>6

(* The first segment on its way to the kernel, and the rest behind it. *)
LEMMA ChainHead ==
  ASSUME IInv, OInv, Chain, conn \in Connections, rcv.off \in Nat, toClient # <<>>
  PROVE  /\ Head(toClient) \in Pieces(conn) /\ Head(toClient).seq.off = rcv.off
         /\ End(Head(toClient)) \in Nat
         /\ End(Head(toClient)) <= server[conn].nxt
         /\ \A i \in 1..Len(Tail(toClient)) :
              /\ Tail(toClient)[i].seq.off =
                   IF i = 1 THEN End(Head(toClient)) ELSE End(Tail(toClient)[i - 1])
              /\ End(Tail(toClient)[i]) <= server[conn].nxt
         /\ server[conn].nxt = IF Tail(toClient) = <<>> THEN End(Head(toClient))
                               ELSE End(Tail(toClient)[Len(Tail(toClient))])
         /\ Tail(toClient) \in Seq(Pieces(conn))
<1> DEFINE p == Head(toClient)
           q == Tail(toClient)
<1>1. /\ Len(toClient) \in Nat /\ Len(toClient) > 0 /\ p = toClient[1] /\ p \in Pieces(conn)
      /\ q \in Seq(Pieces(conn)) /\ Len(q) = Len(toClient) - 1
      /\ \A i \in 1..Len(q) : q[i] = toClient[i + 1]
  BY Pop DEF Chain
<1>2. q = <<>> <=> Len(q) = 0
  BY <1>1, EmptySeq
<1> HIDE DEF p, q
<1>3. End(p) \in Nat
  <2>1. p \in Segments
    BY <1>1 DEF Pieces
  <2>2. p.seq.off \in Nat /\ Len(p.cells) \in Nat
    BY <2>1, LenProperties DEF Segments, Positions
  <2>3. QED
    BY <2>2 DEF End
<1>4. p.seq.off = rcv.off /\ End(p) <= server[conn].nxt
  BY <1>1 DEF Chain
<1>5. ASSUME NEW i \in 1..Len(q)
      PROVE  /\ q[i].seq.off = IF i = 1 THEN End(p) ELSE End(q[i - 1])
             /\ End(q[i]) <= server[conn].nxt
  <2>1. i + 1 \in 1..Len(toClient) /\ q[i] = toClient[i + 1] /\ i + 1 # 1 /\ (i + 1) - 1 = i
    BY <1>1
  <2>2. /\ toClient[i + 1].seq.off = End(toClient[i])
        /\ End(toClient[i + 1]) <= server[conn].nxt
    BY <2>1 DEF Chain
  <2>3. i # 1 => i - 1 \in 1..Len(q) /\ q[i - 1] = toClient[i]
    <3>1. i # 1 => i - 1 \in 1..Len(q) /\ (i - 1) + 1 = i
      BY <1>1
    <3>2. QED
      BY <1>1, <3>1
  <2>4. QED
    BY <1>1, <2>1, <2>2, <2>3
<1>6. server[conn].nxt = IF q = <<>> THEN End(p) ELSE End(q[Len(q)])
  <2>1. server[conn].nxt = End(toClient[Len(toClient)])
    BY DEF Chain
  <2>2. q # <<>> => Len(q) \in 1..Len(q) /\ Len(q) + 1 = Len(toClient)
    BY <1>1, <1>2
  <2>3. q = <<>> => Len(toClient) = 1
    BY <1>1, <1>2
  <2>4. QED
    BY <1>1, <2>1, <2>2, <2>3
<1>7. QED
  BY <1>1, <1>3, <1>4, <1>5, <1>6 DEF p, q

LEMMA AdvanceFacts ==
  ASSUME NEW s \in Positions, NEW n \in Nat
  PROVE  /\ Advance(s, n) \in Positions /\ Advance(s, n).conn = s.conn
         /\ Advance(s, n).off = s.off + n
BY DEF Advance, Positions

(* What the kernel answers to a piece p of the stream. *)
Acknowledges(p) ==
  \E one, two \in Seq(FromClient(conn, rcv'.off)) :
    /\ toServer' = (toServer \o one) \o two
    /\ ~HasFin(p) => two = <<>>
    /\ HasFin(p) => Len(two) = 1 /\ HasFin(two[1])
    /\ p.cells = <<>> => one = <<>>
    /\ p.cells # <<>> => Len(one) = 1 /\ ~HasFin(one[1])
                         /\ one[1].ack.off = rcv.off + Len(p.cells)

(* A cell that the buffer of k cells lacks comes with the l cells after it. *)
LEMMA Past ==
  ASSUME NEW k \in Nat, NEW l \in Nat, NEW n \in Nat, NEW o \in Nat,
         k = o - 1, n <= k + l, ~(n <= k)
  PROVE  n - k \in 1..l /\ o + (n - k) - 1 = n
OBVIOUS

(* What the kernel takes next is what its buffer lacks, and there is room. *)
LEMMA OrderlyReceive ==
  ASSUME Orderly, IInv, OInv, Talk, Poll, state = "established", conn \in Connections,
         NEW p, p = Head(toClient)
  PROVE  /\ rcv'.conn = conn /\ rcv'.off = End(p)
         /\ rx' = rx \o p.cells
         /\ Len(rx') = IF rcv'.off > StreamEnd THEN StreamEnd ELSE rcv'.off - 1
         /\ \A n \in 1..Len(rx') : rx'[n] = At(conn, n)
         /\ rcv'.off \in 1..(StreamEnd + 2) /\ rcv'.off >= rcv.off
         /\ HasFin(p) <=> rcv'.off = StreamEnd + 2
         /\ state' = IF HasFin(p) THEN "closed" ELSE "established"
         /\ Acknowledges(p)
         /\ UNCHANGED <<conn, server>>
<1>1. /\ Buffered /\ Chain /\ rcv.off \in Nat /\ rcv.off # StreamEnd + 2
      /\ conn \in Nat /\ rx \in Seq(Positions) /\ snd \in Positions /\ rcv \in Positions
      /\ toClient # <<>>
  BY DEF Talk, IInv, TcbTyped, Positions, Connections, Poll
<1>2. p \in Pieces(conn) /\ p.seq.off = rcv.off
  BY <1>1, ChainHead
<1>3. p \in Segments /\ p.cells \in Seq(Positions) /\ Len(p.cells) \in Nat
      /\ StreamEnd \in Nat /\ StreamEnd > 0 /\ Len(rx) \in Nat /\ (p.cells = <<>> <=> Len(p.cells) = 0)
  BY <1>1, <1>2, FetchAssumption, LenProperties, EmptySeq DEF Pieces, Segments, StreamEnd
<1> DEFINE l == Len(p.cells)
<1>4. /\ \A n \in 1..l : p.cells[n] = At(conn, rcv.off + n - 1)
      /\ p.cells # <<>> => rcv.off + l <= StreamEnd + 1
      /\ HasFin(p) => rcv.off + l = StreamEnd + 1
      /\ End(p) = rcv.off + l + (IF HasFin(p) THEN 1 ELSE 0)
  BY <1>2 DEF Pieces, End
<1>5. /\ rcv.off \in 1..(StreamEnd + 1) /\ rcv.conn = conn
      /\ Len(rx) = rcv.off - 1
      /\ \A n \in 1..Len(rx) : rx[n] = At(conn, n)
  BY <1>1, <1>3 DEF Buffered
<1>6. l # 0 => Fits(p.cells)
  BY <1>1, <1>3, <1>4, <1>5, TcpAssumption DEF Fits, Orderly
<1>7. ReceiveSegment(p)
  BY DEF Poll, TcpProcess, IgnoreSegment, AcceptSynAck
<1> DEFINE after == IF l # 0 THEN Advance(rcv, l) ELSE rcv
           fin == "fin" \in p.flags
           one == IF l # 0 THEN <<Segment({"ack"}, snd, after, <<>>)>> ELSE <<>>
           two == IF fin THEN <<Segment({"ack", "fin"}, snd, rcv', <<>>)>> ELSE <<>>
<1>8. (p.cells # <<>> /\ Fits(p.cells)) <=> l # 0
  BY <1>3, <1>6
<1>9. /\ rx' = IF l # 0 THEN rx \o p.cells ELSE rx
      /\ rcv' = IF fin THEN Advance(after, 1) ELSE after
      /\ state' = IF fin THEN "closed" ELSE state
      /\ toServer' = toServer \o one \o two
      /\ conn' = conn
  BY <1>7, <1>8 DEF ReceiveSegment
<1>10. after.conn = conn /\ after.off = rcv.off + l /\ after \in Positions
  <2>1. Advance(rcv, l) \in Positions /\ Advance(rcv, l).conn = conn
        /\ Advance(rcv, l).off = rcv.off + l
    BY <1>1, <1>3, <1>5, AdvanceFacts
  <2>2. QED
    BY <1>1, <1>3, <1>5, <2>1
<1> HIDE DEF after
<1>11. rcv'.conn = conn /\ rcv'.off = End(p) /\ rcv' \in Positions
  <2>1. /\ Advance(after, 1).conn = conn /\ Advance(after, 1).off = rcv.off + l + 1
        /\ Advance(after, 1) \in Positions
    <3>1. /\ Advance(after, 1) \in Positions /\ Advance(after, 1).conn = after.conn
          /\ Advance(after, 1).off = after.off + 1
      BY <1>10, AdvanceFacts
    <3>2. QED
      BY <1>10, <3>1
  <2>2. CASE fin
    <3>1. rcv' = Advance(after, 1)
      BY <1>9, <2>2
    <3>2. End(p) = rcv.off + l + 1
      BY <1>4, <2>2 DEF HasFin
    <3>3. QED
      BY <2>1, <3>1, <3>2
  <2>3. CASE ~fin
    <3>1. rcv' = after
      BY <1>9, <2>3
    <3>2. End(p) = rcv.off + l + 0
      BY <1>4, <2>3 DEF HasFin
    <3>3. rcv.off + l + 0 = rcv.off + l
      BY <1>1, <1>3
    <3>4. QED
      BY <1>10, <3>1, <3>2, <3>3
  <2>4. QED
    BY <2>2, <2>3
<1>12. rx' = rx \o p.cells
  BY <1>1, <1>3, <1>9, ConcatEmptySeq
<1>13. /\ Len(rx') = Len(rx) + l
       /\ \A n \in 1..Len(rx') : rx'[n] = IF n <= Len(rx) THEN rx[n] ELSE p.cells[n - Len(rx)]
  BY <1>1, <1>3, <1>12, ConcatProperties
<1>14. /\ Len(rx') = IF rcv'.off > StreamEnd THEN StreamEnd ELSE rcv'.off - 1
       /\ rcv'.off \in 1..(StreamEnd + 2) /\ rcv'.off >= rcv.off
       /\ HasFin(p) <=> rcv'.off = StreamEnd + 2
       /\ rcv.off + l <= rcv'.off /\ rcv.off + l <= StreamEnd + 1
  <2>1. l \in Nat /\ (p.cells = <<>> <=> l = 0)
    BY <1>3
  <2> DEFINE r == rcv.off
             e == rcv'.off
             m == Len(rx')
  <2>2. /\ r \in 1..(StreamEnd + 1) /\ m = r - 1 + l
        /\ l # 0 => r + l <= StreamEnd + 1
        /\ HasFin(p) => r + l = StreamEnd + 1
        /\ e = r + l + (IF HasFin(p) THEN 1 ELSE 0)
    BY <1>4, <1>5, <1>11, <1>13, <2>1
  <2> HIDE DEF l, r, e, m
  <2>3. /\ m = IF e > StreamEnd THEN StreamEnd ELSE e - 1
        /\ e \in 1..(StreamEnd + 2) /\ e >= r
        /\ HasFin(p) <=> e = StreamEnd + 2
        /\ r + l <= e /\ r + l <= StreamEnd + 1
    <3>1. CASE HasFin(p)
      BY <1>3, <2>1, <2>2, <3>1
    <3>2. CASE ~HasFin(p)
      BY <1>3, <2>1, <2>2, <3>2
    <3>3. QED
      BY <3>1, <3>2
  <2>4. QED
    BY <2>3 DEF r, e, m
<1>15. ASSUME NEW n \in 1..Len(rx') PROVE rx'[n] = At(conn, n)
  <2>1. l \in Nat /\ n \in Nat /\ n > 0 /\ n <= Len(rx) + l
    BY <1>3, <1>13
  <2> HIDE DEF l
  <2>2. CASE n <= Len(rx)
    <3>1. n \in 1..Len(rx)
      BY <1>3, <2>1, <2>2
    <3>2. QED
      BY <1>5, <1>13, <2>2, <3>1
  <2>3. CASE ~(n <= Len(rx))
    <3>1. n - Len(rx) \in 1..l /\ rcv.off + (n - Len(rx)) - 1 = n
      <4>1. PICK k, o : k = Len(rx) /\ o = rcv.off
        OBVIOUS
      <4>2. k \in Nat
        BY <1>3, <4>1
      <4>3. o \in Nat
        BY <1>1, <4>1
      <4>4. k = o - 1
        BY <1>5, <4>1
      <4>5. n <= k + l /\ ~(n <= k)
        BY <2>1, <2>3, <4>1
      <4>6. n - k \in 1..l /\ o + (n - k) - 1 = n
        BY <2>1, <4>2, <4>3, <4>4, <4>5, Past
      <4>7. QED
        BY <4>1, <4>6
    <3>2. rx'[n] = p.cells[n - Len(rx)]
      BY <1>13, <2>3
    <3>3. p.cells[n - Len(rx)] = At(conn, rcv.off + (n - Len(rx)) - 1)
      BY <1>4, <3>1
    <3>4. QED
      BY <3>1, <3>2, <3>3
  <2>4. QED
    BY <2>2, <2>3
<1>16. Segment({"ack"}, snd, after, <<>>) \in FromClient(conn, rcv'.off)
  <2>1. Segment({"ack"}, snd, after, <<>>) \in Segments
    BY <1>1, <1>10, SegmentTyped, EmptySeq
  <2>2. after.off \in 1..rcv'.off
    BY <1>1, <1>3, <1>5, <1>10, <1>14
  <2>3. QED
    BY <1>10, <2>1, <2>2 DEF FromClient, Segment
<1>17. Segment({"ack", "fin"}, snd, rcv', <<>>) \in FromClient(conn, rcv'.off)
  <2>1. Segment({"ack", "fin"}, snd, rcv', <<>>) \in Segments
    BY <1>1, <1>11, SegmentTyped, EmptySeq
  <2>2. rcv'.off \in 1..rcv'.off
    BY <1>14
  <2>3. QED
    BY <1>11, <2>1, <2>2 DEF FromClient, Segment
<1>18. /\ one \in Seq(FromClient(conn, rcv'.off)) /\ two \in Seq(FromClient(conn, rcv'.off))
       /\ ~HasFin(p) => two = <<>>
       /\ HasFin(p) => Len(two) = 1 /\ HasFin(two[1])
       /\ p.cells = <<>> => one = <<>>
       /\ p.cells # <<>> => Len(one) = 1 /\ ~HasFin(one[1])
                            /\ one[1].ack.off = rcv.off + l
  <2> DEFINE a == Segment({"ack"}, snd, after, <<>>)
             b == Segment({"ack", "fin"}, snd, rcv', <<>>)
  <2>1. a.ack = after /\ ~HasFin(a) /\ HasFin(b)
    BY DEF Segment, HasFin
  <2>2. a \in FromClient(conn, rcv'.off) /\ b \in FromClient(conn, rcv'.off)
    BY <1>16, <1>17
  <2>3. /\ one = IF l # 0 THEN <<a>> ELSE <<>>
        /\ two = IF HasFin(p) THEN <<b>> ELSE <<>>
    BY DEF HasFin
  <2>4. (p.cells = <<>> <=> l = 0) /\ a.ack.off = rcv.off + l
    BY <1>3, <1>10, <2>1
  <2> HIDE DEF a, b, one, two, l
  <2>5. <<a>> \in Seq(FromClient(conn, rcv'.off)) /\ Len(<<a>>) = 1 /\ <<a>>[1] = a
        /\ <<b>> \in Seq(FromClient(conn, rcv'.off)) /\ Len(<<b>>) = 1 /\ <<b>>[1] = b
        /\ <<>> \in Seq(FromClient(conn, rcv'.off))
    BY <2>2, EmptySeq
  <2>6. CASE l = 0
    BY <2>1, <2>3, <2>4, <2>5, <2>6
  <2>7. CASE l # 0
    BY <2>1, <2>3, <2>4, <2>5, <2>7
  <2>8. QED
    BY <2>6, <2>7
<1> HIDE DEF one, two
<1>19. Acknowledges(p)
  BY <1>9, <1>18 DEF Acknowledges
<1>20. UNCHANGED <<conn, server>>
  BY <1>9 DEF Poll
<1>21. state' = IF HasFin(p) THEN "closed" ELSE "established"
  BY <1>9 DEF HasFin
<1>22. QED
  BY <1>11, <1>12, <1>14, <1>15, <1>19, <1>20, <1>21

(* The elements of b are those of q, and behind them those of r.            *)
Joined(q, r, b) ==
  /\ Len(q) \in Nat /\ Len(r) \in Nat /\ Len(b) = Len(q) + Len(r)
  /\ \A i \in 1..Len(q) : i \in 1..Len(b) /\ b[i] = q[i]
  /\ \A i \in 1..Len(r) : Len(q) + i \in 1..Len(b) /\ b[Len(q) + i] = r[i]
  /\ \A i \in 1..Len(b) : \/ \E k \in 1..Len(q) : b[i] = q[k]
                          \/ \E k \in 1..Len(r) : b[i] = r[k]

LEMMA Behind ==
  ASSUME NEW S, NEW q \in Seq(S), NEW r \in Seq(S)
  PROVE  q \o r \in Seq(S) /\ Joined(q, r, q \o r)
<1>1. /\ q \o r \in Seq(S) /\ Len(q) \in Nat /\ Len(r) \in Nat
      /\ Len(q \o r) = Len(q) + Len(r)
      /\ \A i \in 1..Len(q \o r) : (q \o r)[i] = IF i <= Len(q) THEN q[i] ELSE r[i - Len(q)]
  BY ConcatProperties, LenProperties
<1> DEFINE b == q \o r
<1> HIDE DEF b
<1>2. ASSUME NEW i \in 1..Len(q) PROVE i \in 1..Len(b) /\ b[i] = q[i]
  BY <1>1 DEF b
<1>3. ASSUME NEW i \in 1..Len(r)
      PROVE  Len(q) + i \in 1..Len(b) /\ b[Len(q) + i] = r[i]
  <2>1. Len(q) + i \in 1..Len(b) /\ ~(Len(q) + i <= Len(q)) /\ Len(q) + i - Len(q) = i
    BY <1>1 DEF b
  <2>2. b[Len(q) + i] = r[Len(q) + i - Len(q)]
    BY <1>1, <2>1 DEF b
  <2>3. QED
    BY <2>1, <2>2
<1>4. ASSUME NEW i \in 1..Len(b)
      PROVE  \/ \E k \in 1..Len(q) : b[i] = q[k]
             \/ \E k \in 1..Len(r) : b[i] = r[k]
  <2>1. CASE i <= Len(q)
    <3>1. i \in 1..Len(q)
      BY <1>1, <2>1 DEF b
    <3>2. QED
      BY <1>2, <3>1
  <2>2. CASE ~(i <= Len(q))
    <3>1. i - Len(q) \in 1..Len(r) /\ b[i] = r[i - Len(q)]
      BY <1>1, <2>2 DEF b
    <3>2. QED
      BY <3>1
  <2>3. QED
    BY <2>1, <2>2
<1>5. q \o r = b
  BY DEF b
<1>6. Joined(q, r, b)
  BY <1>1, <1>2, <1>3, <1>4, <1>5 DEF Joined
<1>7. QED
  BY <1>1, <1>5, <1>6, Zenon

LEMMA OrderlyPoll ==
  ASSUME Orderly, IInv, IInv', OInv, Talk, Poll, conn \in Connections,
         pc # "synwait" \/ state # "syn_sent"
  PROVE  Talk'
<1> SUFFICES ASSUME NEW p, p = Head(toClient)
             PROVE  Talk'
  OBVIOUS
<1>1. /\ toClient # <<>> /\ toClient' = Tail(toClient) /\ TcpProcess(p)
      /\ UNCHANGED <<pc, got, server>>
  BY DEF Poll, fetching
<1>2. /\ Others(conn) /\ server[conn].st # "none" /\ Buffered /\ Chain
      /\ state = IF rcv.off = StreamEnd + 2 THEN "closed" ELSE "established"
      /\ ~Greeting
  BY <1>1 DEF Talk
<1>3. /\ conn \in Nat /\ rcv.off \in Nat /\ StreamEnd \in Nat /\ Len(p.cells) \in Nat
      /\ server[conn].nxt \in Nat /\ server[conn].una \in Nat
  <2>1. p \in Segments
    BY <1>1, Pop DEF IInv, WireTyped
  <2>2. QED
    <3>1. conn \in Nat /\ rcv.off \in Nat /\ StreamEnd \in Nat
      BY FetchAssumption DEF IInv, TcbTyped, Positions, StreamEnd, Connections
    <3>2. Len(p.cells) \in Nat
      BY <2>1, LenProperties DEF Segments
    <3>3. server[conn].nxt \in Nat /\ server[conn].una \in Nat
      BY DEF IInv, ServerTyped, Peers
    <3>4. QED
      BY <3>1, <3>2, <3>3
<1>4. /\ p \in Pieces(conn) /\ p.seq.off = rcv.off
      /\ End(p) \in Nat /\ End(p) <= server[conn].nxt
      /\ \A i \in 1..Len(toClient') :
           /\ toClient'[i].seq.off = IF i = 1 THEN End(p) ELSE End(toClient'[i - 1])
           /\ End(toClient'[i]) <= server[conn].nxt
      /\ server[conn].nxt = IF toClient' = <<>> THEN End(p) ELSE End(toClient'[Len(toClient')])
      /\ toClient' \in Seq(Pieces(conn))
  BY <1>1, <1>2, <1>3, ChainHead
<1>5. server[conn].nxt <= StreamEnd + 2 /\ rcv.off <= server[conn].nxt
  BY <1>2 DEF Chain
<1>6. ASSUME rcv'.off = End(p), conn' = conn PROVE Chain'
  BY <1>1, <1>4, <1>5, <1>6 DEF Chain
<1>7. Greeting' <=> Greeting
  BY <1>1 DEF Greeting
<1>8. pc' # "done" /\ pc \in {"synwait", "polls", "receive"}
  BY <1>1 DEF Poll
<1>9. CASE state = "closed"
  <2>1. UNCHANGED <<conn, state, rcv, rx, toServer>>
    BY <1>1, <1>9 DEF TcpProcess, IgnoreSegment, AcceptSynAck, ReceiveSegment, tcb
  <2>2. End(p) = rcv.off
    <3>1. rcv.off = StreamEnd + 2
      BY <1>2, <1>9
    <3>2. End(p) >= rcv.off
      BY <1>3, <1>4 DEF End
    <3>3. QED
      BY <1>3, <1>4, <1>5, <3>1, <3>2
  <2>3. Chain'
    BY <1>6, <2>1, <2>2
  <2>4. Others(conn)' /\ Buffered' /\ Ended(conn, toServer)'
    BY <1>1, <1>2, <1>9, <2>1 DEF Others, Buffered, Ended, Talk
  <2>5. QED
    BY <1>1, <1>2, <1>7, <1>8, <1>9, <2>1, <2>3, <2>4 DEF Talk
<1>10. CASE state = "established"
  <2>1. /\ rcv'.conn = conn /\ rcv'.off = End(p)
        /\ Len(rx') = IF rcv'.off > StreamEnd THEN StreamEnd ELSE rcv'.off - 1
        /\ \A n \in 1..Len(rx') : rx'[n] = At(conn, n)
        /\ rcv'.off \in 1..(StreamEnd + 2) /\ rcv'.off >= rcv.off
        /\ HasFin(p) <=> rcv'.off = StreamEnd + 2
        /\ state' = IF HasFin(p) THEN "closed" ELSE "established"
        /\ UNCHANGED <<conn, server>>
    BY <1>10, OrderlyReceive
  <2>14. PICK S : S = FromClient(conn, rcv'.off)
    OBVIOUS
  <2>15. Acknowledges(p)
    BY <1>10, OrderlyReceive
  <2>2. PICK one, two \in Seq(S) :
              /\ toServer' = (toServer \o one) \o two
              /\ ~HasFin(p) => two = <<>>
              /\ HasFin(p) => Len(two) = 1 /\ HasFin(two[1])
              /\ p.cells = <<>> => one = <<>>
              /\ p.cells # <<>> => Len(one) = 1 /\ ~HasFin(one[1])
                                   /\ one[1].ack.off = rcv.off + Len(p.cells)
    BY <2>14, <2>15 DEF Acknowledges
  <2>3. rcv'.off \in Nat
    BY <1>4, <2>1
  <2>4. toServer \in Seq(S)
    <3>1. FromClient(conn, rcv.off) \subseteq FromClient(conn, rcv'.off)
      BY <1>3, <2>1, <2>3, Wide
    <3>2. QED
      BY <1>2, <2>14, <3>1, Wider DEF Buffered
  <2> DEFINE t == toServer \o one
  <2>5. /\ t \in Seq(S) /\ Len(t) \in Nat
        /\ \A i \in 1..Len(toServer) : i \in 1..Len(t) /\ t[i] = toServer[i]
        /\ \A i \in 1..Len(one) : /\ Len(toServer) + i \in 1..Len(t)
                                  /\ t[Len(toServer) + i] = one[i]
        /\ \A i \in 1..Len(t) : \/ \E k \in 1..Len(toServer) : t[i] = toServer[k]
                                \/ \E k \in 1..Len(one) : t[i] = one[k]
    <3>1. t \in Seq(S) /\ Joined(toServer, one, t)
      BY <2>2, <2>4, Behind, Zenon
    <3> HIDE DEF t
    <3>2. Len(t) \in Nat
      BY <3>1, LenProperties
    <3>3. QED
      BY <3>1, <3>2, Zenon DEF Joined
  <2> HIDE DEF t
  <2>6. toServer' = t \o two
    BY <2>2 DEF t
  <2>7. /\ toServer' \in Seq(S)
        /\ \A i \in 1..Len(t) : i \in 1..Len(toServer') /\ toServer'[i] = t[i]
        /\ \A i \in 1..Len(two) : /\ Len(t) + i \in 1..Len(toServer')
                                  /\ toServer'[Len(t) + i] = two[i]
        /\ \A i \in 1..Len(toServer') : \/ \E k \in 1..Len(t) : toServer'[i] = t[k]
                                        \/ \E k \in 1..Len(two) : toServer'[i] = two[k]
    <3>1. PICK b : b = t \o two
      OBVIOUS
    <3>2. b \in Seq(S) /\ Joined(t, two, b)
      BY <2>2, <2>5, <3>1, Behind, Zenon
    <3>3. toServer' = b
      BY <2>6, <3>1, Zenon
    <3>4. QED
      BY <3>2, <3>3, Zenon DEF Joined
  <2>8. Chain' /\ Others(conn)' /\ server'[conn'].st # "none"
    BY <1>1, <1>2, <1>6, <2>1 DEF Others
  <2>9. Buffered'
    <3>1. server[conn].una <= rcv'.off
      BY <1>2, <1>3, <2>1, <2>3 DEF Buffered
    <3>2. QED
      BY <2>1, <2>14, <2>7, <3>1 DEF Buffered
  <2>10. state' = IF rcv'.off = StreamEnd + 2 THEN "closed" ELSE "established"
    BY <2>1
  <2>11. state' = "closed" => Ended(conn, toServer)'
    <3>1. ASSUME HasFin(p) PROVE \E i \in 1..Len(toServer') : HasFin(toServer'[i])
      <4>1. Len(two) = 1 /\ HasFin(two[1]) /\ 1 \in 1..Len(two)
        BY <2>2, <3>1 DEF HasFin
      <4>2. Len(t) + 1 \in 1..Len(toServer') /\ toServer'[Len(t) + 1] = two[1]
        BY <2>7, <4>1
      <4>3. QED
        BY <4>1, <4>2
    <3>2. QED
      BY <2>1, <3>1 DEF Ended
  <2>12. ASSUME ~HasFin(p)
         PROVE  /\ ~Ended(conn, toServer)'
                /\ \/ server'[conn'].una = rcv'.off
                   \/ \E i \in 1..Len(toServer') : toServer'[i].ack.off = rcv'.off
                /\ \/ server'[conn'].st = "serving"
                   \/ \E i \in 1..Len(toServer') : toServer'[i].cells # <<>>
    <3>1. /\ ~Ended(conn, toServer)
          /\ \/ server[conn].una = rcv.off
             \/ \E i \in 1..Len(toServer) : toServer[i].ack.off = rcv.off
          /\ \/ server[conn].st = "serving"
             \/ \E i \in 1..Len(toServer) : toServer[i].cells # <<>>
      BY <1>2, <1>10 DEF Talk
    <3>2. /\ \A i \in 1..Len(toServer) : i \in 1..Len(toServer') /\ toServer'[i] = toServer[i]
          /\ \A i \in 1..Len(one) : /\ Len(toServer) + i \in 1..Len(toServer')
                                    /\ toServer'[Len(toServer) + i] = one[i]
      BY <2>5, <2>7
    <3>3. ASSUME NEW i \in 1..Len(toServer') PROVE ~HasFin(toServer'[i])
      <4>1. Len(two) = 0
        BY <2>2, <2>12, EmptySeq
      <4>2. PICK k \in 1..Len(t) : toServer'[i] = t[k]
        BY <2>7, <4>1
      <4>3. CASE \E m \in 1..Len(toServer) : t[k] = toServer[m]
        BY <3>1, <4>2, <4>3 DEF Ended
      <4>4. ASSUME NEW m \in 1..Len(one), t[k] = one[m] PROVE ~HasFin(toServer'[i])
        <5>1. p.cells # <<>>
          BY <2>2, <4>4, EmptySeq
        <5>2. Len(one) = 1 /\ ~HasFin(one[1]) /\ m = 1
          BY <2>2, <4>4, <5>1
        <5>3. QED
          BY <4>2, <4>4, <5>2
      <4>5. QED
        BY <2>5, <4>3, <4>4
    <3>4. ~Ended(conn, toServer)'
      BY <2>1, <3>1, <3>3 DEF Ended
    <3>5. \/ server'[conn'].una = rcv'.off
          \/ \E i \in 1..Len(toServer') : toServer'[i].ack.off = rcv'.off
      <4>1. CASE p.cells = <<>>
        <5>1. rcv'.off = rcv.off
          <6>1. Len(p.cells) = 0
            BY <4>1, EmptySeq
          <6>2. End(p) = rcv.off + 0 + 0
            BY <1>4, <2>12, <6>1 DEF End
          <6>3. QED
            BY <1>3, <2>1, <6>2
        <5>2. QED
          BY <2>1, <3>1, <3>2, <5>1
      <4>2. CASE p.cells # <<>>
        <5>1. Len(one) = 1 /\ one[1].ack.off = rcv.off + Len(p.cells) /\ 1 \in 1..Len(one)
          BY <2>2, <4>2
        <5>2. rcv'.off = rcv.off + Len(p.cells)
          BY <1>3, <1>4, <2>1, <2>12 DEF End
        <5>3. /\ Len(toServer) + 1 \in 1..Len(toServer')
              /\ toServer'[Len(toServer) + 1] = one[1]
          BY <3>2, <5>1
        <5>4. QED
          BY <5>1, <5>2, <5>3
      <4>3. QED
        BY <4>1, <4>2
    <3>6. \/ server'[conn'].st = "serving"
          \/ \E i \in 1..Len(toServer') : toServer'[i].cells # <<>>
      BY <2>1, <3>1, <3>2
    <3>7. QED
      BY <3>4, <3>5, <3>6
  <2>13. QED
    BY <1>2, <1>7, <1>8, <2>1, <2>8, <2>9, <2>10, <2>11, <2>12 DEF Talk
<1>11. QED
  BY <1>2, <1>9, <1>10

(* A step of http_get_simple that leaves the connection alone. *)
LEMMA OrderlyWait ==
  ASSUME Orderly, IInv, OInv, Connected \/ SynTimeout \/ Allocate \/ EndPolls
  PROVE  OInv'
<1>1. conn \in Connections /\ UNCHANGED <<conn, state, rcv, rx, got, toServer, toClient, server, faults>>
  BY DEF IInv, TcbTyped, Phases, Connections, Connected, SynTimeout, Allocate, EndPolls, tcb
<1>2. ~SynTimeout
  <2> SUFFICES ASSUME SynTimeout
               PROVE  FALSE
    OBVIOUS
  <2>1. toClient = <<>> /\ toServer = <<>> /\ pc = "synwait" /\ state # "established"
    BY DEF SynTimeout, TimeOut, Quiet, Orderly
  <2>2. CASE state = "syn_sent"
    <3>1. SynUnderWay \/ SynAnswered
      BY <2>1, <2>2 DEF OInv
    <3>2. ASSUME NEW q \in Seq(Segments), NEW p \in Segments PROVE Append(q, p) # <<>>
      BY Put
    <3>3. ASSUME NEW q \in Seq(Data), NEW p \in Segments PROVE Append(q, p) # <<>>
      <4>1. q \in Seq(Segments)
        BY Wider DEF Data
      <4>2. QED
        BY <4>1, Put
    <3>4. QED
      BY <2>1, <3>1, <3>2, <3>3 DEF SynUnderWay, SynAnswered
  <2>3. CASE state # "syn_sent"
    <3>1. Talk /\ Greeting
      BY <2>1, <2>3 DEF OInv, Greeting
    <3>2. rcv.off = 1 /\ StreamEnd \in Nat /\ state # "established"
      BY <2>1, <3>1, FetchAssumption DEF Talk, StreamEnd
    <3>3. QED
      BY <3>1, <3>2 DEF Talk
  <2>4. QED
    BY <2>2, <2>3
<1>3. /\ pc = "synwait" => state = "established"
      /\ pc \in {"synwait", "allocate", "polls"}
      /\ pc' = IF pc = "synwait" THEN "request" ELSE IF pc = "allocate" THEN "polls" ELSE "receive"
  BY <1>2 DEF Connected, Allocate, EndPolls
<1>4. Talk
  BY <1>3 DEF OInv
<1>5. (Greeting' <=> Greeting) /\ pc' # "done" /\ pc' \notin {"idle", "syn", "synwait"}
  BY <1>3 DEF Greeting
<1>6. Others(conn)' /\ Buffered' /\ Chain' /\ (Ended(conn, toServer)' <=> Ended(conn, toServer))
  BY <1>1, <1>4 DEF Talk, Others, Buffered, Chain, Ended
<1>7. Talk'
  BY <1>1, <1>4, <1>5, <1>6 DEF Talk
<1>8. QED
  BY <1>1, <1>5, <1>7 DEF OInv

(* A segment of the client's behind what is on its way. *)
LEMMA SentBehind ==
  ASSUME Buffered, conn \in Connections, rcv \in Positions, snd \in Positions,
         NEW flags \in SUBSET {"ack", "psh", "fin"}, NEW cells \in Seq(Positions),
         toServer' = Append(toServer, Segment(flags, snd, rcv, cells))
  PROVE  /\ toServer' \in Seq(FromClient(conn, rcv.off))
         /\ Len(toServer) \in Nat /\ Len(toServer') = Len(toServer) + 1
         /\ \A i \in 1..Len(toServer) : toServer'[i] = toServer[i]
         /\ toServer'[Len(toServer) + 1].flags = flags
         /\ toServer'[Len(toServer) + 1].cells = cells
<1> DEFINE p == Segment(flags, snd, rcv, cells)
<1>1. p \in Segments
  <2>1. flags \in SUBSET {"syn", "ack", "psh", "fin"}
    OBVIOUS
  <2>2. QED
    BY <2>1, SegmentTyped
<1>2. /\ p.conn = conn /\ p.flags = flags /\ p.cells = cells /\ p.ack = rcv
  BY DEF Segment
<1> HIDE DEF p
<1>3. rcv.conn = conn /\ rcv.off \in Nat /\ rcv.off > 0
  BY DEF Buffered, Positions
<1>4. p \in FromClient(conn, rcv.off)
  BY <1>1, <1>2, <1>3 DEF FromClient
<1>5. toServer \in Seq(FromClient(conn, rcv.off)) /\ toServer' = Append(toServer, p)
  BY DEF Buffered, p
<1>6. QED
  BY <1>2, <1>4, <1>5, Put

LEMMA OrderlyRequest ==
  ASSUME IInv, OInv, SendRequest
  PROVE  OInv'
<1>1. /\ conn \in Connections /\ conn \in Nat /\ rcv \in Positions /\ snd \in Positions
      /\ StreamEnd \in Nat
  BY FetchAssumption DEF IInv, TcbTyped, Phases, Connections, SendRequest, StreamEnd
<1>2. Talk /\ Greeting /\ pc = "request" /\ faults = 0
  BY DEF SendRequest, OInv, Greeting
<1>3. /\ rcv.off = 1 /\ state = "established" /\ server[conn].st \in {"syn", "open"}
      /\ Buffered /\ Chain /\ Others(conn)
  BY <1>1, <1>2 DEF Talk
<1>4. /\ toServer' = Append(toServer, Segment({"psh", "ack"}, snd, rcv, <<At(conn, 1)>>))
      /\ pc' = "allocate"
      /\ UNCHANGED <<conn, state, rcv, rx, got, toClient, server, faults>>
  BY <1>3 DEF SendRequest, TcpSend
<1>5. PICK cells \in Seq(Positions) : cells = <<At(conn, 1)>> /\ cells # <<>>
  <2>1. <<At(conn, 1)>> \in Seq(Positions) /\ <<At(conn, 1)>> # <<>>
    BY <1>1, PositionsTyped
  <2>2. QED
    BY <2>1
<1>6. PICK flags \in SUBSET {"ack", "psh", "fin"} : flags = {"psh", "ack"}
  OBVIOUS
<1>7. toServer' = Append(toServer, Segment(flags, snd, rcv, cells))
  BY <1>4, <1>5, <1>6
<1>8. /\ toServer' \in Seq(FromClient(conn, rcv.off))
      /\ Len(toServer) \in Nat /\ Len(toServer') = Len(toServer) + 1
      /\ \A i \in 1..Len(toServer) : toServer'[i] = toServer[i]
      /\ toServer'[Len(toServer) + 1].flags = flags
      /\ toServer'[Len(toServer) + 1].cells = cells
  BY <1>1, <1>3, <1>7, SentBehind
<1>9. /\ ~HasFin(toServer'[Len(toServer) + 1])
      /\ toServer'[Len(toServer) + 1].cells # <<>>
  BY <1>5, <1>6, <1>8 DEF HasFin
<1>10. /\ ~Ended(conn, toServer)
       /\ \/ server[conn].una = rcv.off
          \/ \E i \in 1..Len(toServer) : toServer[i].ack.off = rcv.off
  BY <1>2, <1>3 DEF Talk
<1>11. ~Ended(conn, toServer)'
  <2>1. ASSUME NEW i \in 1..Len(toServer') PROVE ~HasFin(toServer'[i])
    <3>1. CASE i = Len(toServer) + 1
      BY <1>9, <3>1
    <3>2. CASE i # Len(toServer) + 1
      <4>1. i \in 1..Len(toServer)
        BY <1>8, <3>2
      <4>2. QED
        BY <1>8, <1>10, <4>1 DEF Ended
    <3>3. QED
      BY <3>1, <3>2
  <2>2. QED
    BY <1>4, <1>10, <2>1 DEF Ended
<1>12. \/ server'[conn'].una = rcv'.off
       \/ \E i \in 1..Len(toServer') : toServer'[i].ack.off = rcv'.off
  <2>1. \A i \in 1..Len(toServer) : i \in 1..Len(toServer')
    BY <1>8
  <2>2. QED
    BY <1>4, <1>8, <1>10, <2>1
<1>13. \E i \in 1..Len(toServer') : toServer'[i].cells # <<>>
  <2>1. Len(toServer) + 1 \in 1..Len(toServer')
    BY <1>8
  <2>2. QED
    BY <1>9, <2>1
<1>14. Others(conn)' /\ Chain' /\ Buffered'
  BY <1>3, <1>4, <1>8 DEF Others, Chain, Buffered
<1>15. ~Greeting' /\ pc' # "done"
  BY <1>4 DEF Greeting
<1>16. server'[conn'].st # "none" /\ rcv'.off # StreamEnd + 2 /\ state' = "established"
  BY <1>1, <1>3, <1>4
<1>17. Talk'
  BY <1>11, <1>12, <1>13, <1>14, <1>15, <1>16 DEF Talk
<1>18. QED
  BY <1>2, <1>4, <1>17 DEF OInv

(* The connection is closed and the fetch comes back. *)
LEMMA OrderlyClose ==
  ASSUME IInv, OInv, GiveUp \/ Moved \/ Done
  PROVE  OInv'
<1>1. /\ conn \in Connections /\ conn \in Nat /\ conn > 0
      /\ rcv \in Positions /\ snd \in Positions
  BY DEF IInv, TcbTyped, Phases, Connections, GiveUp, Moved, Done
<1>2. Talk /\ faults = 0
  BY DEF OInv, GiveUp, Moved, Done
<1>3. /\ TcpClose /\ pc' = "idle" /\ UNCHANGED <<got, server, toClient, faults>>
      /\ outcome' = "ok" => pc = "done"
  BY DEF GiveUp, Moved, Done, Finish
<1>4. UNCHANGED <<conn, rcv, rx>>
  BY <1>3 DEF TcpClose, tcb
<1>5. /\ Buffered /\ Chain /\ Others(conn) /\ server[conn].st # "none"
      /\ toServer \in Seq(FromClient(conn, rcv.off))
  BY <1>2 DEF Talk, Buffered
<1>6. toServer' \in Seq(FromClient(conn, rcv.off)) /\ Ended(conn, toServer)'
  <2>1. CASE state = "established"
    <3>1. toServer' = Append(toServer, Segment({"fin", "ack"}, snd, rcv, <<>>))
      BY <1>3, <2>1 DEF TcpClose
    <3>2. PICK flags \in SUBSET {"ack", "psh", "fin"}, cells \in Seq(Positions) :
            flags = {"fin", "ack"} /\ cells = <<>>
      BY EmptySeq
    <3>3. toServer' = Append(toServer, Segment(flags, snd, rcv, cells))
      BY <3>1, <3>2
    <3>4. /\ toServer' \in Seq(FromClient(conn, rcv.off))
          /\ Len(toServer) \in Nat /\ Len(toServer') = Len(toServer) + 1
          /\ toServer'[Len(toServer) + 1].flags = flags
      BY <1>1, <1>5, <3>3, SentBehind
    <3>5. /\ toServer' \in Seq(FromClient(conn, rcv.off))
          /\ Len(toServer) + 1 \in 1..Len(toServer')
          /\ HasFin(toServer'[Len(toServer) + 1])
      BY <3>2, <3>4 DEF HasFin
    <3>6. QED
      BY <3>5 DEF Ended
  <2>2. CASE state # "established"
    <3>1. toServer' = toServer /\ state = "closed"
      BY <1>2, <1>3, <2>2 DEF TcpClose, Talk
    <3>2. Ended(conn, toServer)
      BY <1>2, <3>1 DEF Talk
    <3>3. QED
      BY <1>3, <1>4, <1>5, <3>1, <3>2 DEF Ended
  <2>3. QED
    BY <2>1, <2>2
<1>7. Buffered'
  BY <1>3, <1>4, <1>5, <1>6 DEF Buffered
<1>8. toServer' \in Seq(FromClient(conn', server'[conn'].nxt))
  <2>1. rcv.off \in Nat /\ server[conn].nxt \in Nat /\ rcv.off <= server[conn].nxt
    BY <1>1, <1>5 DEF Positions, IInv, ServerTyped, Peers, Chain
  <2>2. FromClient(conn, rcv.off) \subseteq FromClient(conn, server[conn].nxt)
    BY <1>1, <2>1, Wide
  <2>3. toServer' \in Seq(FromClient(conn, server[conn].nxt))
    BY <1>6, <2>2, Wider
  <2>4. QED
    BY <1>3, <1>4, <2>3
<1>9. toClient' \in Seq(Data)
  <2>1. Pieces(conn) \subseteq Data
    BY DEF Pieces, Data, IsSynAck
  <2>2. QED
    BY <1>3, <1>5, <2>1, Wider DEF Chain
<1>10. Others(conn)' /\ server'[conn'].st # "none"
  BY <1>3, <1>4, <1>5 DEF Others
<1>11. Over(conn, toServer)'
  BY <1>1, <1>4, <1>6, <1>8, <1>10 DEF Over
<1>12. outcome' = "ok" => conn' > 0 /\ got' = Source(conn)'
  BY <1>1, <1>2, <1>3, <1>4 DEF Talk, Source
<1>13. Idle'
  BY <1>7, <1>9, <1>11, <1>12 DEF Idle
<1>14. QED
  BY <1>2, <1>3, <1>13 DEF OInv

(* A connection that brings nothing more has brought all: its server has no *)
(* more to send, or the kernel still waits.                                 *)
LEMMA OrderlyDone ==
  ASSUME Orderly, IInv, IInv', OInv, Receive
  PROVE  pc' = "done" => got' = Source(conn)
<1> SUFFICES ASSUME pc' = "done"
             PROVE  got' = Source(conn)
  OBVIOUS
<1>1. /\ conn \in Connections /\ conn \in Nat /\ StreamEnd \in Nat /\ IdleLimit \in Nat
      /\ rcv.off \in Nat /\ Len(rx) \in Nat /\ rx \in Seq(Positions)
      /\ processed \in 0..Len(rx) /\ (hasData <=> processed < Len(rx))
  BY FetchAssumption, LenProperties
  DEF IInv, TcbTyped, Phases, Connections, Receive, StreamEnd, Positions, FlagMeansUnread
<1>2. Talk /\ ~Greeting
  BY DEF Receive, OInv, Greeting
<1>3. /\ Buffered /\ Chain
      /\ Len(rx) = IF rcv.off > StreamEnd THEN StreamEnd ELSE rcv.off - 1
      /\ \A n \in 1..Len(rx) : rx[n] = At(conn, n)
      /\ rcv.off \in 1..(StreamEnd + 2)
  BY <1>2 DEF Talk, Buffered
<1>4. /\ UNCHANGED <<conn, rx>> /\ processed' = ReadTo /\ got' = SubSeq(rx, 1, ReadTo)
      /\ got' = got \o Handed
  <2>1. UNCHANGED <<conn, rx>> /\ processed' = ReadTo /\ got' = got \o Handed
    BY DEF Receive, TcpRead
  <2>2. got' = SubSeq(rx', 1, processed')
    BY DEF IInv, ReadsInOrder
  <2>3. QED
    BY <2>1, <2>2
<1>5. /\ ReadTo \in processed..Len(rx)
      /\ processed < Len(rx) => ReadTo > processed
      /\ Handed = <<>> <=> ReadTo = processed
  <2>1. /\ ReadTo \in processed..Len(rx)
        /\ processed < Len(rx) => ReadTo > processed
        /\ Handed \in Seq(Positions)
        /\ Len(Handed) = ReadTo - processed
    BY ReadToFacts DEF IInv
  <2>2. Handed = <<>> <=> Len(Handed) = 0
    BY <2>1, EmptySeq
  <2>3. QED
    BY <1>1, <2>1, <2>2
<1>6. ReadTo = StreamEnd => got' = Source(conn)
  <2> SUFFICES ASSUME ReadTo = StreamEnd
               PROVE  got' = Source(conn)
    OBVIOUS
  <2>1. Len(rx) = StreamEnd
    BY <1>1, <1>3, <1>5
  <2>2. rx = Source(conn)
    <3>1. rx = [n \in 1..Len(rx) |-> rx[n]]
      BY <1>1, LenProperties
    <3>2. QED
      BY <1>3, <2>1, <3>1 DEF Source
  <2>3. SubSeq(rx, 1, Len(rx)) = rx
    BY <1>1, SubSeqFull
  <2>4. QED
    BY <1>4, <2>1, <2>2, <2>3
<1>7. CASE Handed # <<>>
  <2>1. IdlePolls = 0 /\ ~(IdlePolls > IdleLimit) /\ ~(IdlePolls > 2)
    BY <1>1, <1>7 DEF IdlePolls
  <2>2. Len(got \o Handed) >= StreamEnd
    BY <2>1 DEF Receive
  <2>3. Len(got') = ReadTo
    <3>1. ReadTo \in Nat /\ ReadTo <= Len(rx)
      BY <1>1, <1>5
    <3>2. \A i \in 1..ReadTo : rx[i] \in Positions
      BY <1>1, <3>1, ElementOfSeq
    <3>3. Len(SubSeq(rx, 1, ReadTo)) = ReadTo
      BY <3>1, <3>2, SubSeqProperties
    <3>4. QED
      BY <1>4, <3>3
  <2>4. ReadTo = StreamEnd
    BY <1>1, <1>3, <1>4, <1>5, <2>2, <2>3
  <2>5. QED
    BY <1>6, <2>4
<1>8. CASE Handed = <<>>
  <2>1. processed = Len(rx) /\ ReadTo = Len(rx) /\ ~hasData
    BY <1>1, <1>5, <1>8
  <2>2. state # "established" \/ Quiet
    BY <2>1 DEF Receive, TimeOut, Orderly
  <2>3. rcv.off > StreamEnd
    <3>1. CASE state # "established"
      BY <1>1, <1>2, <3>1 DEF Talk
    <3>2. CASE state = "established" /\ Quiet
      <4>1. toClient = <<>> /\ Len(toServer) = 0 /\ ~CanSend(conn)
        BY <1>1, <3>2, EmptySeq DEF Quiet
      <4>2. server[conn].una = rcv.off /\ server[conn].st = "serving"
        BY <1>2, <3>2, <4>1 DEF Talk
      <4>3. server[conn].nxt = rcv.off
        BY <1>3, <4>1 DEF Chain
      <4>4. rcv.off - rcv.off < Window
        BY <1>1, FetchAssumption
      <4>5. QED
        BY <1>1, <4>1, <4>2, <4>3, <4>4 DEF CanSend
    <3>3. QED
      BY <2>2, <3>1, <3>2
  <2>4. ReadTo = StreamEnd
    BY <1>1, <1>3, <2>1, <2>3
  <2>5. QED
    BY <1>6, <2>4
<1>9. QED
  BY <1>7, <1>8

LEMMA OrderlyRead ==
  ASSUME Orderly, IInv, IInv', OInv, Receive
  PROVE  OInv'
<1>1. Talk /\ ~Greeting /\ faults = 0
  BY DEF Receive, OInv, Greeting
<1>2. /\ UNCHANGED <<conn, state, rcv, rx, toServer, toClient, server, faults>>
      /\ pc' \in {"moved", "done", "polls"}
  BY DEF Receive, TcpRead
<1>3. pc' = "done" => got' = Source(conn)'
  BY <1>2, OrderlyDone DEF Source
<1>4. Others(conn)' /\ Buffered' /\ Chain' /\ (Ended(conn, toServer)' <=> Ended(conn, toServer))
  BY <1>1, <1>2 DEF Talk, Others, Buffered, Chain, Ended
<1>5. ~Greeting'
  BY <1>2 DEF Greeting
<1>6. Talk'
  BY <1>1, <1>2, <1>3, <1>4, <1>5 DEF Talk
<1>7. QED
  BY <1>1, <1>2, <1>6 DEF OInv

LEMMA OrderlyStep ==
  ASSUME Orderly, IInv, IInv', OInv, [Next]_vars
  PROVE  OInv'
<1>1. CASE UNCHANGED vars \/ Stop
  <2>1. UNCHANGED <<conn, state, snd, rcv, rx, processed, hasData, toServer,
                    pc, retry, idle, got, outcome, server, toClient, faults>>
    BY <1>1 DEF Stop, vars, tcb, fetching
  <2>2. /\ Others(conn)' <=> Others(conn)
        /\ Over(conn, toServer)' <=> Over(conn, toServer)
        /\ Over(conn - 1, toServer)' <=> Over(conn - 1, toServer)
        /\ Ended(conn, toServer)' <=> Ended(conn, toServer)
        /\ Buffered' <=> Buffered
        /\ Chain' <=> Chain
    BY <2>1 DEF Over, Others, Ended, Buffered, Chain
  <2>3. SynUnderWay => SynUnderWay'
    <3> SUFFICES ASSUME SynUnderWay
                 PROVE  SynUnderWay'
      OBVIOUS
    <3>1. PICK q \in Seq(Segments), p \in Segments :
            /\ toServer = Append(q, p) /\ p.conn = conn /\ "syn" \in p.flags
            /\ Over(conn - 1, q)
      BY DEF SynUnderWay
    <3>2. Over(conn - 1, q)'
      BY <2>1, <3>1 DEF Over, Others, Ended
    <3>3. QED
      BY <2>1, <3>1, <3>2 DEF SynUnderWay
  <2>4. SynAnswered => SynAnswered'
    BY <2>1, <2>2 DEF SynAnswered
  <2>5. Talk => Talk'
    BY <2>1, <2>2 DEF Talk, Greeting, Source
  <2>6. (Idle => Idle') /\ (Opened => Opened')
    BY <2>1, <2>2 DEF Idle, Opened, Source
  <2>7. QED
    BY <2>1, <2>3, <2>4, <2>5, <2>6 DEF OInv
<1>2. CASE World
  BY <1>2, OrderlyWorld
<1>3. CASE Start
  BY <1>3, OrderlyStart
<1>4. CASE SendSyn
  BY <1>4, OrderlySyn
<1>5. CASE SynFails \/ ConnectFails
  <2>1. faults = 0 /\ MaxFaults = 0 /\ MaxRetry \in Nat \ {0}
    BY FetchAssumption DEF OInv, Orderly
  <2>2. ConnectFails => retry = 0
    BY DEF ConnectFails, OInv, Opened
  <2>3. QED
    BY <1>5, <2>1, <2>2 DEF SynFails, ConnectFails
<1>6. CASE Poll
  <2>1. CASE pc = "synwait" /\ state = "syn_sent"
    BY <1>6, <2>1, OrderlyAnswer
  <2>2. CASE pc # "synwait" \/ state # "syn_sent"
    <3>1. Talk /\ faults = 0 /\ conn \in Connections
      BY <1>6, <2>2 DEF OInv, Poll, IInv, TcbTyped, Phases, Connections
    <3>2. Talk'
      BY <1>6, <2>2, <3>1, OrderlyPoll
    <3>3. faults' = 0 /\ pc' = pc /\ pc \notin {"idle", "syn"}
      BY <1>6, <3>1 DEF Poll, fetching
    <3>4. state' # "syn_sent"
      BY <3>2 DEF Talk
    <3>5. QED
      BY <3>2, <3>3, <3>4 DEF OInv
  <2>3. QED
    BY <2>1, <2>2
<1>7. CASE Connected \/ SynTimeout \/ Allocate \/ EndPolls
  BY <1>7, OrderlyWait
<1>8. CASE SendRequest
  BY <1>8, OrderlyRequest
<1>9. CASE Receive
  BY <1>9, OrderlyRead
<1>10. CASE GiveUp \/ Moved \/ Done
  BY <1>10, OrderlyClose
<1>11. QED
  BY <1>1, <1>2, <1>3, <1>4, <1>5, <1>6, <1>7, <1>8, <1>9, <1>10 DEF Next, Kernel

LEMMA OInvInvariant == Orderly => (Spec => [](IInv /\ OInv))
<1> SUFFICES ASSUME Orderly
             PROVE  Spec => [](IInv /\ OInv)
  OBVIOUS
<1>1. Init => OInv
  <2> SUFFICES ASSUME Init
               PROVE  OInv
    OBVIOUS
  <2>1. conn = 0 /\ toServer = <<>> /\ toClient \in Seq(Data) /\ outcome = "none"
    BY EmptySeq DEF Init, TcpInit
  <2>2. Others(conn)
    BY <2>1 DEF Init, Others, Connections
  <2>3. QED
    BY <2>1, <2>2 DEF Init, OInv, Idle, Over
<1>2. IInv /\ IInv' /\ OInv /\ [Next]_vars => OInv'
  BY OrderlyStep
<1>3. QED
  BY <1>1, <1>2, IInvInvariant, PTL DEF Spec

(* On an orderly network nothing that the server takes for delivered is      *)
(* missing from the buffer, through all connections that follow one another: *)
(* what the kernel acknowledges it has, and nothing of the server before     *)
(* reaches it.                                                               *)
THEOREM NothingAcknowledgedIsLost == Orderly => (Spec => []AcknowledgedIsKept)
<1> SUFFICES ASSUME Orderly
             PROVE  Spec => []AcknowledgedIsKept
  OBVIOUS
<1>1. IInv /\ OInv => AcknowledgedIsKept
  <2> SUFFICES ASSUME IInv, OInv, conn > 0,
                      NEW n \in 1..StreamEnd, n <= server[conn].una - 1
               PROVE  Contains(rx, At(conn, n))
    BY DEF AcknowledgedIsKept
  <2>1. /\ conn \in Connections /\ conn \in Nat /\ StreamEnd \in Nat /\ Len(rx) \in Nat
        /\ rcv.off \in Nat /\ server[conn].una \in Nat /\ n \in Nat /\ n > 0
    <3>1. conn \in Connections /\ conn \in Nat
      BY DEF IInv, TcbTyped, Connections
    <3>2. StreamEnd \in Nat /\ rcv.off \in Nat /\ Len(rx) \in Nat
      BY FetchAssumption, LenProperties DEF IInv, TcbTyped, StreamEnd, Positions
    <3>3. server[conn].una \in Nat
      BY <3>1 DEF IInv, ServerTyped, Peers
    <3>4. QED
      BY <3>1, <3>2, <3>3
  <2>2. CASE Buffered
    <3>1. n \in 1..Len(rx)
      BY <2>1, <2>2 DEF Buffered
    <3>2. rx[n] = At(conn, n)
      BY <2>2, <3>1 DEF Buffered
    <3>3. QED
      BY <3>1, <3>2 DEF Contains
  <2>3. CASE server[conn].una = 0
    BY <2>1, <2>3
  <2>4. Opened => server[conn].una = 0
    <3>1. Opened => Others(conn - 1)
      BY DEF Opened, Over
    <3>2. QED
      BY <2>1, <3>1 DEF Others
  <2>5. SynUnderWay => server[conn].una = 0
    <3>1. SynUnderWay => Others(conn - 1)
      BY DEF SynUnderWay, Over
    <3>2. QED
      BY <2>1, <3>1 DEF Others
  <2>6. QED
    BY <2>1, <2>2, <2>3, <2>4, <2>5 DEF OInv, Idle, SynAnswered, Talk
<1>2. QED
  BY <1>1, OInvInvariant, PTL

(* On an orderly network a fetch that succeeds has the whole entity: the     *)
(* loop of http_get_simple does not stop at a pause, neither after a reply   *)
(* with a length nor after one that ends with the connection.                *)
THEOREM WholeEntity == Orderly => (Spec => []EntityComplete)
<1> SUFFICES ASSUME Orderly
             PROVE  Spec => []EntityComplete
  OBVIOUS
<1>1. IInv /\ OInv => EntityComplete
  BY DEF OInv, Idle, EntityComplete
<1>2. QED
  BY <1>1, OInvInvariant, PTL

(* A read hands out what comes next in the stream of this connection. *)
LEMMA ReadIsNext ==
  ASSUME Orderly, IInv, IInv', OInv, Receive
  PROVE  Streams!Read \/ UNCHANGED <<conn, got>>
<1>1. Talk /\ Buffered /\ conn \in Connections
  BY DEF Receive, OInv, Talk, IInv, Phases, TcbTyped, Connections
<1>2. /\ Len(rx) \in Nat /\ rx \in Seq(Positions) /\ StreamEnd \in Nat /\ processed \in 0..Len(rx)
      /\ rcv.off \in Nat
  BY FetchAssumption, LenProperties DEF IInv, TcbTyped, StreamEnd, Positions
<1>3. /\ UNCHANGED <<conn, rx>> /\ got' = got \o Handed
      /\ got' = SubSeq(rx, 1, ReadTo) /\ got = SubSeq(rx, 1, processed)
  BY DEF Receive, TcpRead, IInv, ReadsInOrder
<1>4. ReadTo \in processed..Len(rx)
  BY ReadToFacts DEF IInv
<1>5. CASE ReadTo = processed
  BY <1>3, <1>5
<1>6. CASE ReadTo # processed
  <2>1. /\ Len(rx) <= StreamEnd
        /\ \A n \in 1..Len(rx) : rx[n] = At(conn, n)
    BY <1>1, <1>2 DEF Buffered
  <2>2. /\ Source(conn) \in Seq(Positions) /\ Len(Source(conn)) = StreamEnd
        /\ \A n \in 1..StreamEnd : Source(conn)[n] = At(conn, n)
    <3>1. conn \in Nat
      BY <1>1 DEF Connections
    <3>2. \A n \in 1..StreamEnd : At(conn, n) \in Positions
      BY <1>2, <3>1, PositionsTyped
    <3>3. QED
      BY <1>2, <3>2, IsASeq, LenProperties DEF Source
  <2>3. ASSUME NEW m \in 0..Len(rx)
        PROVE  SubSeq(rx, 1, m) = SubSeq(Source(conn), 1, m) /\ Len(SubSeq(rx, 1, m)) = m
    <3>1. m \in Nat /\ m <= Len(rx) /\ m <= StreamEnd
      BY <1>2, <2>1
    <3>2. /\ \A i \in 1..m : rx[i] \in Positions
          /\ \A i \in 1..m : Source(conn)[i] \in Positions
      BY <1>2, <2>2, <3>1, ElementOfSeq
    <3>3. /\ SubSeq(rx, 1, m) \in Seq(Positions) /\ Len(SubSeq(rx, 1, m)) = m
          /\ \A i \in 1..m : SubSeq(rx, 1, m)[i] = rx[i]
      BY <3>1, <3>2, SubSeqProperties
    <3>4. PICK z : z = Source(conn)
      OBVIOUS
    <3>5. /\ SubSeq(z, 1, m) \in Seq(Positions) /\ Len(SubSeq(z, 1, m)) = m
          /\ \A i \in 1..m : SubSeq(z, 1, m)[i] = z[i]
      BY <3>1, <3>2, <3>4, SubSeqProperties
    <3>6. \A i \in 1..m : rx[i] = z[i]
      BY <2>1, <2>2, <3>1, <3>4
    <3>7. SubSeq(rx, 1, m) = SubSeq(z, 1, m)
      BY <3>3, <3>5, <3>6, SeqEqual
    <3>8. QED
      BY <3>3, <3>4, <3>7
  <2>4. got' = SubSeq(Source(conn), 1, ReadTo) /\ Len(got) = processed
    BY <1>2, <1>3, <1>4, <2>3
  <2>5. ReadTo \in (Len(got) + 1)..Len(Source(conn))
    BY <1>2, <1>4, <1>6, <2>1, <2>2, <2>4
  <2>6. QED
    BY <1>1, <1>3, <2>4, <2>5 DEF Streams!Read
<1>7. QED
  BY <1>5, <1>6

(* On an orderly network the TCP implements the stream: whatever the sizes of *)
(* segments and reads, and however arrivals and reads alternate, the reader   *)
(* of a connection gets its server's cells in order, each once.               *)
THEOREM TcpImplementsStream == Orderly => (Spec => ReliableStream)
<1> SUFFICES ASSUME Orderly
             PROVE  Spec => ReliableStream
  OBVIOUS
<1>1. Init => Streams!Init
  BY DEF Init, TcpInit, Streams!Init
<1>2. IInv /\ IInv' /\ OInv /\ [Next]_vars => [Streams!Open \/ Streams!Read]_<<conn, got>>
  <2> SUFFICES ASSUME IInv, IInv', OInv, [Next]_vars
               PROVE  Streams!Open \/ Streams!Read \/ UNCHANGED <<conn, got>>
    OBVIOUS
  <2>1. CASE Start
    <3>1. conn \in Nat /\ conn + 1 \in Connections
      BY <2>1, TcpAssumption DEF Start, TcpOpen, IInv, TcbTyped, Connections
    <3>2. QED
      BY <2>1, <3>1 DEF Start, TcpOpen, Streams!Open
  <2>2. CASE Receive
    BY <2>2, ReadIsNext
  <2>3. CASE World
    <3>1. UNCHANGED <<tcb, fetching>>
      BY <2>3, WorldStep DEF IInv
    <3>2. QED
      BY <3>1 DEF tcb, fetching
  <2>4. CASE Poll
    BY <2>4 DEF Poll, TcpProcess, IgnoreSegment, AcceptSynAck, ReceiveSegment, tcb, fetching
  <2>5. CASE \/ SendSyn \/ SynFails \/ ConnectFails \/ Connected \/ SynTimeout
             \/ SendRequest \/ Allocate \/ EndPolls
    BY <2>5 DEF SendSyn, TcpSyn, SynFails, ConnectFails, Connected, SynTimeout,
       SendRequest, TcpSend, Allocate, EndPolls, tcb
  <2>6. CASE GiveUp \/ Moved \/ Done
    BY <2>6 DEF GiveUp, Moved, Done, TcpClose, tcb
  <2>7. CASE Stop \/ UNCHANGED vars
    BY <2>7 DEF Stop, vars, tcb, fetching
  <2>8. QED
    BY <2>1, <2>2, <2>3, <2>4, <2>5, <2>6, <2>7 DEF Next, Kernel
<1>3. QED
  BY <1>1, <1>2, OInvInvariant, PTL DEF Spec, ReliableStream, Streams!Spec

=============================================================================
