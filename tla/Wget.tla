-------------------------------- MODULE Wget --------------------------------
(***************************************************************************)
(* The command WGET (cmd_wget in src/commands.c): one request over a       *)
(* connection of its own, what comes until a read finds nothing, the body  *)
(* behind the first empty line, saved under a name from the address.       *)
(*                                                                         *)
(* Texts are sequences of "r" (CR), "n" (LF) and "x", paths of "/", "?"    *)
(* and "p".  A read finds nothing when the server has closed, but also     *)
(* when it was slow: see Tcp.                                              *)
(***************************************************************************)
EXTENDS Integers, Sequences, FiniteSetsExt

CONSTANTS
  Responses,   \* what servers send: [crlf, lines, body]
  Urls,        \* [named, port, path, given]: a host name, a port, -O
  MaxDownload, \* DOWNLOAD_BUF_SIZE
  MaxFile      \* MAX_FILE_SIZE

VARIABLES
  pc,
  url, response,
  open,        \* the connection
  block,       \* down_buf is allocated
  received,    \* total_recvd
  file,        \* what this call has saved: name and contents
  announced,   \* SUCCESS was printed
  result

vars == <<pc, url, response, open, block, received, file, announced, result>>
job == <<url, response>>

NoFile == [name |-> <<>>, data |-> <<>>]

TypeOK ==
  /\ pc \in {"prompt", "resolve", "connect", "send", "receive", "save"}
  /\ {open, block, announced} \subseteq BOOLEAN
  /\ received \in 0..MaxDownload /\ Len(file.data) <= MaxFile /\ result \in {0, -1}

Init ==
  /\ pc = "prompt"
  /\ url = (CHOOSE u \in Urls : TRUE) /\ response = (CHOOSE r \in Responses : TRUE)
  /\ open = FALSE /\ block = FALSE /\ received = 0
  /\ file = NoFile /\ announced = FALSE /\ result = 0

(* What a server sends. *)
Eol(r) == IF r.crlf THEN <<"r", "n">> ELSE <<"n">>
Text(r) ==
  LET head[i \in 0..r.lines] == IF i = 0 THEN <<>> ELSE head[i - 1] \o <<"x">> \o Eol(r)
  IN head[r.lines] \o Eol(r) \o r.body

(* The path behind a port is not looked for. *)
Path == IF url.port \/ url.path = <<>> THEN <<"/">> ELSE url.path

Fails == pc' = "prompt" /\ result' = -1

-----------------------------------------------------------------------------
(* The command line, with a network or without one.                         *)
Call ==
  /\ pc = "prompt"
  /\ url' \in Urls /\ response' \in Responses
  /\ received' = 0 /\ announced' = FALSE /\ file' = NoFile
  /\ \/ Fails
     \/ pc' = (IF url'.named THEN "resolve" ELSE "connect") /\ UNCHANGED result
  /\ UNCHANGED <<open, block>>

Resolve ==
  /\ pc = "resolve"
  /\ Fails \/ (pc' = "connect" /\ UNCHANGED result)
  /\ UNCHANGED <<job, open, block, received, file, announced>>

Connect ==
  /\ pc = "connect"
  /\ \/ Fails /\ UNCHANGED open
     \/ pc' = "send" /\ open' = TRUE /\ UNCHANGED result
  /\ UNCHANGED <<job, block, received, file, announced>>

(* Nobody looks at the outcome of tcp_send; then the buffer is allocated.   *)
Send ==
  /\ pc = "send"
  /\ \/ pc' = "receive" /\ block' = TRUE /\ UNCHANGED <<open, result>>
     \/ Fails /\ open' = FALSE /\ UNCHANGED block
  /\ UNCHANGED <<job, received, file, announced>>

Receive ==
  /\ pc = "receive"
  /\ \/ /\ received < MaxDownload
        /\ \E n \in 1..MaxDownload - received :
             received + n <= Len(Text(response)) /\ received' = received + n
        /\ UNCHANGED pc
     \/ pc' = "save" /\ UNCHANGED received     \* nothing came, or the buffer is full
  /\ UNCHANGED <<job, open, block, file, announced, result>>

Got == SubSeq(Text(response), 1, received)
Behind(mark) ==
  {i + Len(mark) : i \in {k \in 0..received : k + Len(mark) <= received
                                              /\ SubSeq(Got, k + 1, k + Len(mark)) = mark}}

(* The first empty line, with CR and LF; if there is none, one with LF;     *)
(* else all is body.                                                        *)
BodyFrom ==
  LET strict == Behind(<<"r", "n", "r", "n">>)
      loose == Behind(<<"n", "n">>)
  IN CASE strict # {} -> Min(strict)
       [] strict = {} /\ loose # {} -> Min(loose)
       [] OTHER -> 0
Body == SubSeq(Got, BodyFrom + 1, received)

(* The name behind the last slash, of the query too, up to a question mark. *)
FileName ==
  IF url.given THEN <<"given">>
  ELSE LET last == Max({i \in 1..Len(Path) : Path[i] = "/"})
           ends == {i \in last + 1..Len(Path) : Path[i] = "?"} \cup {Len(Path) + 1}
       IN IF Min(ends) = last + 1 THEN <<"index.html">>
          ELSE SubSeq(Path, last + 1, Min(ends) - 1)

(* save_file_content cuts what is too long; a failure is only mentioned.    *)
Save ==
  /\ pc = "save"
  /\ \/ /\ file' = [name |-> FileName,
                    data |-> SubSeq(Body, 1, IF Len(Body) < MaxFile THEN Len(Body) ELSE MaxFile)]
        /\ announced' = TRUE
     \/ UNCHANGED <<file, announced>>
  /\ block' = FALSE /\ open' = FALSE /\ pc' = "prompt" /\ result' = 0
  /\ UNCHANGED <<job, received>>

Next == Call \/ Resolve \/ Connect \/ Send \/ Receive \/ Save

Spec == Init /\ [][Next]_vars

-----------------------------------------------------------------------------
(* However the command ends, the connection is closed and the buffer freed. *)
(* A success it announces is a file with a name of its own, without slash   *)
(* or query; of a response that came whole it has the body, if its lines    *)
(* end in CR LF or nothing in its body looks like the end of such a head.   *)
(* (It is announced, too, for a response that was cut off.)                 *)
Whole == received = Len(Text(response))
Clear == response.crlf \/ Behind(<<"r", "n", "r", "n">>) = {}
WgetSound ==
  /\ pc = "prompt" => ~open /\ ~block
  /\ pc = "prompt" /\ announced =>
       /\ file.name # <<>> /\ \A i \in 1..Len(file.name) : file.name[i] \notin {"/", "?"}
       /\ Whole /\ Clear /\ Len(response.body) <= MaxFile => file.data = response.body
=============================================================================
