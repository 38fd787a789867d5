-------------------------------- MODULE Http --------------------------------
(***************************************************************************)
(* The HTTP library (src/http_client.c), as the command HTTP_GET uses it:  *)
(* one request over one connection, the response collected until the other *)
(* side is quiet, and taken apart.  A response is a status line, header    *)
(* lines, an empty line and a body; all characters but line ends are alike.*)
(***************************************************************************)
EXTENDS Integers, Sequences

CONSTANTS
  MaxHeaders,   \* HTTP_MAX_HEADERS
  MaxHeader,    \* HTTP_MAX_HEADER_LEN - 1
  MaxStatus,    \* characters of the status line that are kept
  MaxBody,      \* HTTP_MAX_BODY_LEN - 1
  MaxResponse,  \* HTTP_MAX_RESPONSE_LEN - 1
  MinResponse,  \* a shorter response is none
  MaxIdle,      \* empty reads before the response is complete
  Responses     \* what servers send: the lengths of the lines and of the body

VARIABLES
  pc,
  open,         \* the connection
  response,     \* what this server sends
  received,     \* response_len
  idle,         \* idle_polls
  result,
  status, headers, body   \* lengths of status_text, of the headers, of the body

vars == <<pc, open, response, received, idle, result, status, headers, body>>

TypeOK ==
  /\ pc \in {"idle", "resolve", "connect", "send", "receive", "parse"}
  /\ open \in BOOLEAN /\ received \in 0..MaxResponse /\ idle \in 0..MaxIdle + 1
  /\ result \in {0, -1} /\ status \in 0..MaxStatus
  /\ headers \in Seq(1..MaxHeader) /\ Len(headers) <= MaxHeaders
  /\ body \in 0..MaxBody

Init ==
  /\ pc = "idle" /\ open = FALSE /\ response \in Responses
  /\ received = 0 /\ idle = 0 /\ result = -1
  /\ status = 0 /\ headers = <<>> /\ body = 0

(* The characters sent: x, and n for the end of a line.                     *)
Line(l) == [i \in 1..l |-> "x"] \o <<"n">>
Text(r) ==
  LET head[i \in 0..Len(r.lines)] == IF i = 0 THEN <<>> ELSE head[i - 1] \o Line(r.lines[i])
  IN head[Len(r.lines)] \o <<"n">> \o [i \in 1..r.body |-> "x"]

reply == <<status, headers, body>>

-----------------------------------------------------------------------------
(* http_get: the address is taken apart, the host is looked up.             *)
Get ==
  /\ pc = "idle"
  /\ response' \in Responses
  /\ received' = 0 /\ idle' = 0
  /\ pc' \in {"resolve", "idle"} /\ result' = -1
  /\ UNCHANGED <<open, reply>>
Resolve ==
  /\ pc = "resolve" /\ pc' \in {"connect", "idle"}
  /\ UNCHANGED <<open, response, received, idle, result, reply>>
Connect ==
  /\ pc = "connect"
  /\ \/ open' = TRUE /\ pc' = "send"
     \/ pc' = "idle" /\ UNCHANGED open
  /\ UNCHANGED <<response, received, idle, result, reply>>

Send ==
  /\ pc = "send"
  /\ \/ pc' = "receive" /\ UNCHANGED open
     \/ pc' = "idle" /\ open' = FALSE
  /\ UNCHANGED <<response, received, idle, result, reply>>

(* Reads go on until several in a row find nothing or the buffer is full.   *)
Receive ==
  /\ pc = "receive" /\ received < MaxResponse /\ idle <= MaxIdle
  /\ \/ \E n \in 1..MaxResponse - received :
          /\ received + n <= Len(Text(response))
          /\ received' = received + n /\ idle' = 0
     \/ idle' = idle + 1 /\ UNCHANGED received
  /\ UNCHANGED <<pc, open, response, result, reply>>
Close ==
  /\ pc = "receive" /\ (received = MaxResponse \/ idle > MaxIdle)
  /\ open' = FALSE /\ pc' = "parse"
  /\ UNCHANGED <<response, received, idle, result, reply>>

-----------------------------------------------------------------------------
(* http_parse_response                                                      *)
Smaller(a, b) == IF a < b THEN a ELSE b
Got == SubSeq(Text(response), 1, received)
(* Characters up to the end of the line that begins at p, at most max.      *)
Run(p, max) ==
  CHOOSE n \in 0..max :
    /\ \A i \in p..p + n - 1 : i <= received /\ Got[i] = "x"
    /\ n < max => p + n > received \/ Got[p + n] = "n"
Past(p) == IF p <= received /\ Got[p] = "n" THEN p + 1 ELSE p

StatusText == Run(1, MaxStatus)

(* Where the line after each header begins, and the length kept of it: what *)
(* is too long for one header is the next one.                              *)
Headers ==
  LET from[i \in 0..MaxHeaders] ==
        IF i = 0 THEN [p |-> Past(StatusText + 1), len |-> 0]
        ELSE LET p == from[i - 1].p
                 l == Run(p, MaxHeader)
             IN [p |-> Past(p + l), len |-> l]
      last == CHOOSE i \in 0..MaxHeaders :
                /\ \A j \in 1..i : from[j].len > 0
                /\ i < MaxHeaders => from[i + 1].len = 0
  IN [lens |-> [i \in 1..last |-> from[i].len], p |-> Past(from[last].p)]

(* A body that is too long is dropped. *)
Body(p) == LET l == received - p + 1 IN IF l > 0 /\ l <= MaxBody THEN l ELSE 0

Parse ==
  /\ pc = "parse" /\ pc' = "idle"
  /\ IF received < MinResponse THEN result' = -1 /\ UNCHANGED reply
     ELSE /\ result' = 0 /\ status' = StatusText
          /\ headers' = Headers.lens
          /\ body' = Body(Headers.p)
  /\ UNCHANGED <<open, response, received, idle>>

Next == Get \/ Resolve \/ Connect \/ Send \/ Receive \/ Close \/ Parse

Spec == Init /\ [][Next]_vars

-----------------------------------------------------------------------------
(* A response that has come whole and keeps to the limits is taken apart as *)
(* it was sent.  And a call that has returned, however it went, has closed  *)
(* its connection.                                                          *)
Fits ==
  /\ received = Len(Text(response))
  /\ response.lines[1] < MaxStatus + 1 /\ Len(response.lines) <= MaxHeaders + 1
  /\ \A i \in 2..Len(response.lines) : response.lines[i] <= MaxHeader
  /\ response.body <= MaxBody
HttpSound ==
  /\ pc = "idle" => ~open
  /\ pc = "idle" /\ result = 0 /\ Fits =>
       /\ status = response.lines[1]
       /\ headers = Tail(response.lines)
       /\ body = response.body
=============================================================================
