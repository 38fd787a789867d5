----------------------------- MODULE Accounts -----------------------------
(***************************************************************************)
(* Who is let in: the user table and the commands that change it, LOGIN,   *)
(* LOGOUT and SUDO with its grace period (commands.c), and the login       *)
(* screen in front of the desktop (login_screen.c).                        *)
(*                                                                         *)
(* A password is a member of a small set and Hash what hash_string makes   *)
(* of it: two passwords may share a hash.  A command reads its passwords   *)
(* at its prompts while nothing else runs, so it is one step.              *)
(***************************************************************************)
EXTENDS Integers, Sequences, FiniteSets

CONSTANTS
  Names,       \* user names, "root" among them; upper case is another name
  Words,       \* passwords, the empty one among them
  Hash,        \* [Words -> hashes]
  MaxUsers,    \* FS_MAX_USERS
  Timeout,     \* SUDO_TIMEOUT_TICKS
  TickWords,   \* the tick counter wraps here
  Starts,      \* ticks at which the machine may be when the model begins
  MaxElapsed   \* bound: ticks that pass, fewer than TickWords

VARIABLES
  users,       \* user_table: a sequence of [name, hash]
  user,        \* current_user
  profile,     \* the contents of /System/current_user
  start, now,  \* ticks since power on, not wrapped
  grace,       \* [tick |-> sudo_last_tick, user |-> sudo_last_user]
  asRoot,      \* history: SUDO has just run a command without asking
  screen,      \* the LoginState
  inside,      \* the login screen has let someone in
  proof        \* history: the last time a prompt of SUDO was passed, and by whom

vars == <<users, user, profile, start, now, grace, asRoot, screen, inside, proof>>

Nobody == "nobody"
get_ticks == now % TickWords

Fold(n) == IF n = "ROOT" THEN "root" ELSE n   \* login_str_cmp ignores case
Named(n) == {i \in 1..Len(users) : users[i].name = n}
First(S) == CHOOSE i \in S : \A j \in S : i <= j

(* The first entry of that name holds the hash of w. *)
Knows(n, w) == Named(n) # {} /\ users[First(Named(n))].hash = Hash[w]

Screen == [username : Names \cup {""}, password : Words,
           focus : {"username", "password"}, running : BOOLEAN,
           result : BOOLEAN, prev_left : BOOLEAN]

TypeOK ==
  /\ users \in Seq([name : Names, hash : {Hash[w] : w \in Words}])
  /\ Len(users) \in 1..MaxUsers
  /\ user \in Names /\ profile \in Names
  /\ start \in Starts /\ now \in start..(start + MaxElapsed)
  /\ grace \in [tick : 0..(TickWords - 1), user : Names \cup {Nobody}]
  /\ asRoot \in BOOLEAN
  /\ screen \in Screen /\ inside \in BOOLEAN
  /\ proof \in [at : Int, user : Names \cup {Nobody}]

Fresh == [username |-> "", password |-> "", focus |-> "username",
          running |-> TRUE, result |-> FALSE, prev_left |-> FALSE]

(* cmd_init: a disk without users gets root, whose password is "root". *)
Init ==
  /\ users = <<[name |-> "root", hash |-> Hash["root"]]>>
  /\ user = "root" /\ profile = "root"
  /\ start \in Starts /\ now = start
  /\ grace = [tick |-> 0, user |-> Nobody]
  /\ asRoot = FALSE
  /\ screen = Fresh /\ inside = FALSE
  /\ proof = [at |-> -TickWords, user |-> Nobody]

Tick ==
  /\ now < start + MaxElapsed
  /\ now' = now + 1
  /\ asRoot' = FALSE
  /\ UNCHANGED <<users, user, profile, start, grace, screen, inside, proof>>

-----------------------------------------------------------------------------
(* The login screen, before the desktop. *)

OnScreen == ~inside /\ screen.running /\ UNCHANGED
  <<inside, users, user, profile, start, now, grace, asRoot, proof>>

(* login_validate_credentials: the first entry of that name, in either case. *)
Valid(n, w) ==
  LET Same == {i \in 1..Len(users) : Fold(users[i].name) = Fold(n)}
  IN  n # "" /\ w # "" /\ Same # {} /\ users[First(Same)].hash = Hash[w]

Try(s) ==
  IF Valid(s.username, s.password) THEN [s EXCEPT !.result = TRUE, !.running = FALSE]
                                   ELSE s

(* handle_keyboard_input, one key: Escape, Tab, Enter, and Backspace or a    *)
(* character, which make the field any text.                                  *)
Key(s) ==
  {[s EXCEPT !.result = FALSE, !.running = FALSE],
   [s EXCEPT !.focus = IF @ = "username" THEN "password" ELSE "username"],
   IF s.username = "" THEN [s EXCEPT !.focus = "username"]
   ELSE IF s.focus = "username" THEN [s EXCEPT !.focus = "password"]
   ELSE Try(s)}
  \cup
  IF s.focus = "username" THEN {[s EXCEPT !.username = n] : n \in Names \cup {""}}
                          ELSE {[s EXCEPT !.password = w] : w \in Words}

(* handle_mouse_input: a press in a field or on the button. *)
Mouse(s) ==
  LET after == [s EXCEPT !.prev_left = TRUE]
  IN  {[s EXCEPT !.prev_left = FALSE], after} \cup
      IF s.prev_left THEN {}
      ELSE {[after EXCEPT !.focus = "username"], [after EXCEPT !.focus = "password"],
            IF s.username = "" THEN after ELSE Try(after)}

(* One round of the loop: the mouse, then every key that has come, here at   *)
(* most two.  A round that has ended the loop still takes its keys.           *)
Round ==
  /\ OnScreen
  /\ \E m \in Mouse(screen) :
       \/ screen' = m
       \/ screen' \in Key(m)
       \/ \E k \in Key(m) : k.running # m.running /\ screen' \in Key(k)

(* The screen returns: to the desktop, or, when it was escaped from, to be   *)
(* shown anew by the next session.                                            *)
Return ==
  /\ ~inside /\ ~screen.running
  /\ inside' = screen.result
  /\ screen' = Fresh
  /\ UNCHANGED <<users, user, profile, start, now, grace, asRoot, proof>>

-----------------------------------------------------------------------------
(* Commands, on the desktop. *)

InShell == inside /\ UNCHANGED <<inside, screen>>
Kept(vs) == UNCHANGED <<start, now, profile>> /\ UNCHANGED vs

(* Faulty variant: the table is not searched for the name. *)
BlindUseradd(n, w) ==
  /\ w # "" /\ Len(users) < MaxUsers
  /\ users' = Append(users, [name |-> n, hash |-> Hash[w]])

cmd_useradd(n, w) ==
  /\ w # "" /\ Len(users) < MaxUsers /\ Named(n) = {}
  /\ users' = Append(users, [name |-> n, hash |-> Hash[w]])

(* Faulty variant: root may be deleted. *)
RootlessUserdel(who, n, typed) ==
  /\ Knows(who, typed) /\ Named(n) # {}
  /\ users' = LET i == First(Named(n))
              IN  SubSeq(users, 1, i - 1) \o SubSeq(users, i + 1, Len(users))

(* The current user's own password is asked for, never root's. *)
cmd_userdel(who, n, typed) ==
  /\ n \notin {"root", "ROOT"} /\ Knows(who, typed) /\ Named(n) # {}
  /\ users' = LET i == First(Named(n))
              IN  SubSeq(users, 1, i - 1) \o SubSeq(users, i + 1, Len(users))

(* With the new password as an argument nothing is asked; otherwise root,    *)
(* and only for others, need not know the old one.                            *)
cmd_passwd(who, n, old, new) ==
  /\ Named(n) # {} /\ new # ""
  /\ \/ old = "given"
     \/ who = "root" /\ n # "root"
     \/ old \in Words /\ Knows(n, old)
  /\ users' = [users EXCEPT ![First(Named(n))].hash = Hash[new]]

cmd_login(n, w) ==
  /\ w # "" /\ Knows(n, w)
  /\ user' = n

cmd_logout == user' = "root"

(* A command run by who: it succeeds, or it fails and changes nothing. *)
TableCommand(who) ==
  \/ \E n \in Names, w \in Words : cmd_useradd(n, w) \/ cmd_userdel(who, n, w)
  \/ \E n \in Names, old \in Words \cup {"given"}, new \in Words : cmd_passwd(who, n, old, new)
  \/ UNCHANGED users

Command ==
  \/ TableCommand(user) /\ UNCHANGED user
  \/ (\E n \in Names, w \in Words : cmd_login(n, w)) /\ UNCHANGED users
  \/ cmd_logout /\ UNCHANGED users

Shell ==
  /\ InShell
  /\ Command
  /\ asRoot' = FALSE
  /\ Kept(<<grace, proof>>)

(* Faulty variant: the grace period is that of the machine. *)
SharedGrace ==
  /\ grace.tick # 0
  /\ (get_ticks - grace.tick) % TickWords < Timeout

Grace ==
  /\ grace.tick # 0
  /\ (get_ticks - grace.tick) % TickWords < Timeout
  /\ grace.user = user

(* As root, or within the grace period: the command is run as it is. *)
SudoAtOnce ==
  /\ InShell
  /\ user = "root" \/ Grace
  /\ Command
  /\ asRoot' = (user # "root")
  /\ Kept(<<grace, proof>>)

(* The password of the user or of root is asked for; the command runs as     *)
(* root, and whoever it logged in, the user comes back.                       *)
SudoAsks ==
  /\ InShell
  /\ user # "root" /\ ~Grace
  /\ \E w \in Words : \E i \in Named(user) \cup Named("root") : users[i].hash = Hash[w]
  /\ grace' = [tick |-> get_ticks, user |-> user]
  /\ proof' = [at |-> now, user |-> user]
  /\ TableCommand("root")
  /\ asRoot' = FALSE
  /\ UNCHANGED <<user, profile, start, now>>

(* A terminal window that closes ends the grace period. *)
TerminalClosed ==
  /\ InShell
  /\ grace' = [tick |-> 0, user |-> Nobody]
  /\ asRoot' = FALSE
  /\ Kept(<<users, user, proof>>)

(* The installer, or a command, writes the profile of the next start. *)
SetProfile ==
  /\ InShell
  /\ \E i \in 1..Len(users) : profile' = users[i].name
  /\ asRoot' = FALSE
  /\ UNCHANGED <<users, user, start, now, grace, proof>>

(* The machine starts anew: the profile's user is the current one. *)
Boot ==
  /\ inside /\ inside' = FALSE
  /\ user' = profile
  /\ grace' = [tick |-> 0, user |-> Nobody]
  /\ asRoot' = FALSE
  /\ screen' = Fresh
  /\ start' \in Starts /\ now' = start'
  /\ proof' = [at |-> -TickWords, user |-> Nobody]
  /\ UNCHANGED <<users, profile>>

Next ==
  \/ Tick \/ Round \/ Return \/ Shell \/ SudoAtOnce \/ SudoAsks
  \/ TerminalClosed \/ SetProfile \/ Boot

Spec == Init /\ [][Next]_vars

-----------------------------------------------------------------------------
(* The user table keeps root, and one entry for a name, through every order  *)
(* of USERADD, USERDEL, PASSWD and SUDO: the lookups that stop at the first   *)
(* entry of a name would never reach a second.                                *)
TableSound ==
  /\ Named("root") # {}
  /\ \A i, j \in 1..Len(users) : users[i].name = users[j].name => i = j

(* SUDO runs a command without asking only for a user who passed its prompt   *)
(* less than Timeout ago, however the tick counter has wrapped since, who      *)
(* logged in or out in between, and whose account was deleted and made anew.   *)
GraceIsEarned ==
  [][asRoot' => proof.user = user /\ now - proof.at < Timeout]_vars
=============================================================================
