-------------------------------- MODULE Tls --------------------------------
(***************************************************************************)
(* HTTPS (src/Network/https_client.c) over TLS 1.2                         *)
(* (src/Network/tls12_client.c): the handshake, the record layer and one   *)
(* fetch.  What arrives is a sequence of units, the head and the body of   *)
(* records; the stream under them keeps their order.  Keys and texts are   *)
(* not looked into: a record is opened when it is read as it was sent, and *)
(* under the number it was sent with.                                      *)
(***************************************************************************)
EXTENDS Integers, Sequences

CONSTANTS
  MaxData,    \* records of data a server sends
  MaxIdle     \* empty reads before a fetch ends

(* What a server may make of its side of the handshake: one record for each *)
(* message, one for all, or a message that goes on in the next record.      *)
Flights == {<<<<"hello">>, <<"certificate">>, <<"done">>>>,
            <<<<"hello", "certificate", "done">>>>,
            <<<<"hello", "part">>, <<"rest">>, <<"done">>>>,
            <<<<"ecdhe", "certificate", "done">>>>}

VARIABLES
  pc,
  sent,       \* the records the server has sent
  wire, rx,   \* units on their way; tls_rx
  told,       \* what the client has sent: messages
  mine, theirs, \* transcripts of the handshake
  seen,       \* got_sh, got_cert, got_done
  clientSeq, serverSeq,   \* client_seq, server_seq
  serverRead, serverWrote, \* the numbers the server is at
  ready,      \* tls_enc_ready
  open,       \* the connection
  got,        \* the numbers of the records whose data are in the buffer
  idle, result

vars == <<pc, sent, wire, rx, told, mine, theirs, seen, clientSeq, serverSeq,
          serverRead, serverWrote, ready, open, got, idle, result>>

TypeOK ==
  /\ pc \in {"flight", "finish", "change", "finished", "ask", "read", "end"}
  /\ wire \in Seq(Nat \X {"head", "body"}) /\ rx \in Seq(Nat \X {"head", "body"})
  /\ seen \subseteq {"hello", "certificate", "done"}
  /\ {ready, open} \subseteq BOOLEAN /\ idle \in 0..MaxIdle + 1
  /\ result \in {"none", "page", "error"}

Units(from, n) == [i \in 1..2 * n |-> <<from + (i - 1) \div 2, IF i % 2 = 1 THEN "head" ELSE "body">>]

(* tls12_client_reset; the hello is sent at once, and answered.             *)
Init ==
  /\ \E f \in Flights :
       /\ sent = [i \in 1..Len(f) |-> [type |-> 22, body |-> f[i]]]
       /\ wire = Units(1, Len(f))
  /\ pc = "flight" /\ rx = <<>> /\ told = <<"client hello">>
  /\ mine = <<"client hello">>
  /\ theirs = <<"client hello">> \o
        SelectSeq(<<"hello", "certificate", "done">>,
                  LAMBDA m : \A i \in DOMAIN sent : sent[i].body # <<"ecdhe", "certificate", "done">>)
  /\ seen = {} /\ clientSeq = 0 /\ serverSeq = 0 /\ serverRead = 0 /\ serverWrote = 0
  /\ ready = FALSE /\ open = TRUE /\ got = <<>> /\ idle = 0 /\ result = "none"

server == <<sent, theirs, serverRead, serverWrote>>
keys == <<clientSeq, serverSeq, ready>>

-----------------------------------------------------------------------------
(* tcp_pull: any part of what has arrived.                                  *)
Pull ==
  /\ open /\ wire # <<>>
  /\ \E n \in 1..Len(wire) :
       /\ rx' = rx \o SubSeq(wire, 1, n)
       /\ wire' = SubSeq(wire, n + 1, Len(wire))
  /\ UNCHANGED <<pc, told, mine, seen, got, idle, result, open, keys, server>>

(* tls_need gives up when nothing at all has arrived; a part of a record is *)
(* waited for without end.                                                  *)
Starved == rx = <<>>
Whole == Len(rx) >= 2
Record == sent[rx[1][1]]
Rest == SubSeq(rx, 3, Len(rx))

(* The fetch ends: tcp_close, tls12_client_reset.                           *)
Over(r) ==
  /\ pc' = "end" /\ open' = FALSE /\ ready' = FALSE /\ result' = r
  /\ rx' = <<>> /\ clientSeq' = 0 /\ serverSeq' = 0
  /\ mine' = <<>> /\ UNCHANGED wire

(* The messages of one record, up to one that is not complete.              *)
Cut(b) == {i \in DOMAIN b : b[i] \in {"part", "rest"}}
Read(b) == IF Cut(b) = {} THEN b
           ELSE SubSeq(b, 1, (CHOOSE i \in Cut(b) : \A j \in Cut(b) : i <= j) - 1)

(* tls12_client_handshake: the server's messages                            *)
Flight ==
  /\ pc = "flight"
  /\ \/ /\ Whole
        /\ LET b == IF Record.type = 22 THEN Read(Record.body) ELSE <<>>
               heard == {b[i] : i \in DOMAIN b}
           IN IF "ecdhe" \in heard
              THEN Over("error") /\ UNCHANGED <<seen, told>>
              ELSE /\ seen' = seen \cup heard
                   /\ mine' = mine \o b
                   /\ rx' = Rest
                   /\ pc' = IF "done" \in seen' THEN "finish" ELSE "flight"
                   /\ UNCHANGED <<wire, told, open, result, keys>>
     \/ Starved /\ Over("error") /\ UNCHANGED <<seen, told>>
  /\ UNCHANGED <<got, idle, server>>

(* The key, the change of ciphers and the first encrypted record.  The      *)
(* server answers when what it has heard is what it is told.                *)
Finish ==
  /\ pc = "finish"
  /\ IF {"hello", "certificate"} \subseteq seen
     THEN /\ mine' = Append(mine, "key") /\ clientSeq' = clientSeq + 1
          /\ told' = told \o <<"key", "change", "finished">>
          /\ pc' = "change"
          /\ theirs' = Append(theirs, "key") /\ serverRead' = serverRead + 1
          /\ IF mine' = theirs'
             THEN /\ sent' = sent \o <<[type |-> 20, body |-> <<>>],
                                       [type |-> 22, body |-> <<>>, seq |-> serverWrote]>>
                  /\ wire' = wire \o Units(Len(sent) + 1, 2)
                  /\ serverWrote' = serverWrote + 1
             ELSE UNCHANGED <<sent, wire, serverWrote>>
          /\ UNCHANGED <<rx, open, result, ready, serverSeq>>
     ELSE Over("error") /\ UNCHANGED <<told, server>>
  /\ UNCHANGED <<seen, got, idle>>

Change ==
  /\ pc = "change"
  /\ \/ /\ Whole
        /\ IF Record.type = 20
           THEN rx' = Rest /\ pc' = "finished" /\ UNCHANGED <<wire, mine, open, result, keys>>
           ELSE Over("error")
     \/ Starved /\ Over("error")
  /\ UNCHANGED <<told, seen, got, idle, server>>

Finished ==
  /\ pc = "finished"
  /\ \/ /\ Whole
        /\ IF Record.type = 22 /\ Record.seq = serverSeq
           THEN /\ rx' = Rest /\ serverSeq' = serverSeq + 1 /\ ready' = TRUE /\ pc' = "ask"
                /\ UNCHANGED <<wire, mine, open, result, clientSeq>>
           ELSE Over("error")
     \/ Starved /\ Over("error")
  /\ UNCHANGED <<told, seen, got, idle, server>>

-----------------------------------------------------------------------------
(* network_https_fetch: the request, answered with data and the alert that  *)
(* ends the session.                                                        *)
Ask ==
  /\ pc = "ask"
  /\ \/ /\ pc' = "read" /\ clientSeq' = clientSeq + 1 /\ told' = Append(told, "request")
        /\ serverRead' = serverRead + 1
        /\ \E n \in 0..MaxData :
             /\ sent' = sent \o [i \in 1..n + 1 |->
                   [type |-> IF i <= n THEN 23 ELSE 21, body |-> <<>>, seq |-> serverWrote + i - 1]]
             /\ wire' = wire \o Units(Len(sent) + 1, n + 1)
             /\ serverWrote' = serverWrote + n + 1
        /\ UNCHANGED <<rx, mine, open, result, ready, serverSeq, theirs>>
     \/ Over("error") /\ UNCHANGED <<told, server>>
  /\ UNCHANGED <<seen, got, idle>>

(* tls_decrypt_app: the record is taken out of the buffer before its body   *)
(* is read, so that a second one behind it is read in its place.  An alert  *)
(* is data like any other.                                                  *)
ReadRecord ==
  /\ pc = "read" /\ idle <= MaxIdle
  /\ \/ /\ Whole /\ rx' = Rest
        /\ IF Len(Rest) < 2 /\ Record.seq = serverSeq
           THEN got' = Append(got, Record.seq) /\ serverSeq' = serverSeq + 1 /\ idle' = 0
           ELSE idle' = idle + 1 /\ UNCHANGED <<got, serverSeq>>
     \/ Starved /\ idle' = idle + 1 /\ UNCHANGED <<rx, got, serverSeq>>
  /\ UNCHANGED <<pc, wire, told, mine, seen, clientSeq, ready, open, result, server>>

(* A fetch that has read anything is a page. *)
Done ==
  /\ pc = "read" /\ idle > MaxIdle
  /\ Over(IF got = <<>> THEN "error" ELSE "page")
  /\ UNCHANGED <<told, seen, got, idle, server>>

Next ==
  \/ Pull \/ Flight \/ Finish \/ Change \/ Finished \/ Ask \/ ReadRecord \/ Done

Spec == Init /\ [][Next]_vars

-----------------------------------------------------------------------------
(* The page is made of the first records that the server sent, each once    *)
(* and in their order; data are exchanged by two that have heard the same   *)
(* handshake and count alike; and whatever the end, the connection is       *)
(* closed and nothing of the session is left.                               *)
TlsSound ==
  /\ \A i \in 1..Len(got) : got[i] = i
  /\ ready => mine = theirs /\ clientSeq = serverRead /\ serverSeq <= serverWrote
  /\ pc = "end" <=> result # "none"
  /\ pc = "end" => ~open /\ ~ready /\ rx = <<>>
=============================================================================
