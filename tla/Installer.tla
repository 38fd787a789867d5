----------------------------- MODULE Installer -----------------------------
(***************************************************************************)
(* The installer (src/installer.c): its pages, the account it is asked to  *)
(* make, and the steps of do_install, each of which ends by saving the     *)
(* file system.  A save writes the volume's name, the file table, the      *)
(* accounts and the contents, in that order.  It does not notice that the  *)
(* name was not written or a place not cleared, and gives up at the first  *)
(* other write that fails; nobody looks at the outcome of a step but of    *)
(* the last.  The machine may be switched off at any time, and one that    *)
(* starts from a disk without a name saves an empty file system over it;   *)
(* its reads succeed.  The wallpaper, the programs to be hidden and the    *)
(* keyboard layout are files like the others.                              *)
(***************************************************************************)
EXTENDS Integers, Sequences

CONSTANTS
  Names,      \* what is typed as a name; root is one of them
  Words,      \* what is typed as a password
  Token,      \* get_token: the first word of a password, "" of blanks only
  MaxTicks,   \* progress of 100
  MaxCuts     \* bound of the model: how often the power fails

VARIABLES
  page,                    \* step
  name, pass, confirm,     \* what the form holds
  progress,
  ok,                      \* install_ok
  todo,                    \* the step of do_install that is next
  users,                   \* user_table
  files, contents,         \* fs_table, file_contents: which files are there
  disk,                    \* what has been written
  erased,                  \* history: a start has lost entries of the disk
  wanted, before,          \* what do_install was asked for, and who was there
  cuts

vars == <<page, name, pass, confirm, progress, ok, todo, users, files,
          contents, disk, erased, wanted, before, cuts>>

form == <<name, pass, confirm>>

Pages == {"welcome", "keyboard", "credentials", "apps", "installing",
          "finished", "desktop"}

(* do_install                                                               *)
(* Faulty variant: the marker is written with the other files.              *)
HastySteps == <<"user", "dirs", "samples", "config", "marker", "root", "sync", "verify">>

Steps == <<"user", "dirs", "samples", "root", "config", "marker", "sync", "verify">>

(* The steps that write files, and the files that are followed: those whose *)
(* absence would matter to the next start.                                  *)
Writes == {"dirs", "samples", "config", "marker"}
Files == {"config", "marker"}
None == [user |-> "", word |-> ""]
Nobody == [u \in {"root"} |-> "root"]

TypeOK ==
  /\ page \in Pages /\ name \in Names \cup {""}
  /\ {pass, confirm} \subseteq Words \cup {""}
  /\ progress \in 0..MaxTicks /\ ok \in BOOLEAN
  /\ todo \in 1..Len(Steps) /\ cuts \in 0..MaxCuts
  /\ files \subseteq Files /\ contents \subseteq files /\ erased \in BOOLEAN
  /\ DOMAIN users # {} /\ DOMAIN users \cup DOMAIN disk.users \subseteq Names \cup {"root"}
  /\ disk.vol \in BOOLEAN /\ disk.files \subseteq Files /\ disk.contents \subseteq Files

(* check_installed *)
Installed(d) == "marker" \in d.files \cap d.contents

-----------------------------------------------------------------------------
(* app_installer_create *)
Fresh ==
  /\ name' = "" /\ pass' = "" /\ confirm' = ""
  /\ progress' = 0 /\ ok' = FALSE /\ todo' = 1

Init ==
  /\ page = "welcome" /\ name = "" /\ pass = "" /\ confirm = ""
  /\ progress = 0 /\ ok = FALSE /\ todo = 1
  /\ users = Nobody /\ files = {} /\ contents = {}
  /\ \E v \in BOOLEAN : disk = [vol |-> v, files |-> {}, users |-> Nobody, contents |-> {}]
  /\ erased = FALSE /\ wanted = None /\ before = {} /\ cuts = 0

engine == <<progress, ok, todo, users, files, contents, disk, erased, wanted, before, cuts>>

(* installer_on_mouse: the buttons Next and Back *)
Go(from, to) ==
  /\ page = from /\ page' = to
  /\ UNCHANGED <<form, engine>>

Complete == name # "" /\ pass # "" /\ pass = confirm

(* The programs have been chosen. *)
Deploy ==
  /\ page = "apps" /\ page' = "installing"
  /\ progress' = 0
  /\ UNCHANGED <<form, ok, todo, users, files, contents, disk, erased, wanted, before, cuts>>

(* installer_on_key: the field is the one that was clicked, or Tab has come to. *)
Type ==
  /\ page = "credentials"
  /\ \/ name' \in Names \cup {""} /\ UNCHANGED <<pass, confirm>>
     \/ pass' \in Words \cup {""} /\ UNCHANGED <<name, confirm>>
     \/ confirm' \in Words \cup {""} /\ UNCHANGED <<name, pass>>
  /\ UNCHANGED <<page, engine>>
Submit ==
  /\ Complete
  /\ Go("credentials", "apps")

-----------------------------------------------------------------------------
(* draw_installing: the last tick of the progress bar does it all.          *)
Tick ==
  /\ page = "installing" /\ progress < MaxTicks
  /\ progress' = progress + 1
  /\ IF progress' = MaxTicks
     THEN /\ wanted' = [user |-> name, word |-> Token[pass]]
          /\ before' = DOMAIN users /\ todo' = 1
     ELSE UNCHANGED <<wanted, before, todo>>
  /\ UNCHANGED <<page, form, ok, users, files, contents, disk, erased, cuts>>

At(step) == page = "installing" /\ progress = MaxTicks /\ Steps[todo] = step

(* The accounts D of v written over those of u. *)
Over(u, v, D) == [a \in DOMAIN u \cup D |-> IF a \in D THEN v[a] ELSE u[a]]

(* What is on d once F, the accounts us and C have been written; the name   *)
(* may be missing for all that.                                             *)
Written(d, F, us, C) ==
  {[vol |-> v, files |-> d.files \cup F, users |-> us, contents |-> d.contents \cup C] :
     v \in {d.vol, TRUE}}

(* fs_save_to_disk over d: what is there when it stops, in the directory,   *)
(* the table, the accounts or the contents, or comes to the end; and which. *)
Stopped(d, u, f, c) ==
  {d} \cup (UNION {Written(d, F, d.users, {}) : F \in SUBSET (f \ d.files)})
      \cup (UNION {Written(d, f, Over(d.users, u, D), {}) : D \in SUBSET DOMAIN u})
      \cup (UNION {Written(d, f, u, C) : C \in SUBSET (c \ d.contents)})
Saved(d, u, f, c) == (Stopped(d, u, f, c) \X {FALSE}) \cup (Written(d, f, u, c) \X {TRUE})
Save == \E s \in Saved(disk, users', files', contents') : disk' = s[1]

Step ==
  /\ todo' = todo + 1
  /\ UNCHANGED <<page, form, progress, ok, erased, wanted, before, cuts>>

(* cmd_useradd refuses blanks and a name that is taken; its table is large  *)
(* enough.                                                                  *)
UserAdd ==
  /\ At("user")
  /\ UNCHANGED <<files, contents>>
  /\ IF wanted.word = "" \/ wanted.user \in DOMAIN users THEN UNCHANGED <<users, disk>>
     ELSE /\ users' = [u \in DOMAIN users \cup {wanted.user} |->
                          IF u = wanted.user THEN wanted.word ELSE users[u]]
          /\ Save
  /\ Step

(* cmd_mkdir, save_file_content: without room for the entry or for its      *)
(* content nothing is saved; files that are not followed are saved like the *)
(* others.                                                                  *)
Write(step) ==
  /\ At(step)
  /\ UNCHANGED users
  /\ LET written == {step} \cap Files
     IN \/ files' = files \cup written /\ contents' = contents \cup written /\ Save
        \/ files' \in {files, files \cup written} /\ UNCHANGED <<contents, disk>>
  /\ Step

(* cmd_passwd asks for the password when it is given none; any word may be  *)
(* the answer.  Without root it does nothing.                                *)
RootPassword ==
  /\ At("root")
  /\ UNCHANGED <<files, contents>>
  /\ \/ (wanted.word = "" \/ "root" \notin DOMAIN users) /\ UNCHANGED <<users, disk>>
     \/ /\ "root" \in DOMAIN users
        /\ \E w \in IF wanted.word = "" THEN Words ELSE {wanted.word} :
             users' = [users EXCEPT !["root"] = w]
        /\ Save
  /\ Step

Sync ==
  /\ At("sync")
  /\ \E s \in Saved(disk, users, files, contents) :
       /\ disk' = s[1]
       /\ IF s[2] THEN todo' = todo + 1 /\ UNCHANGED page
          ELSE page' = "finished" /\ UNCHANGED todo
  /\ UNCHANGED <<form, progress, ok, users, files, contents, erased, wanted, before, cuts>>

(* The comparison reads a byte behind the 16 that have been read.           *)
Verify ==
  /\ At("verify")
  /\ ok' \in IF "marker" \in files \cap contents THEN BOOLEAN ELSE {FALSE}
  /\ page' = "finished"
  /\ UNCHANGED <<form, progress, todo, users, files, contents, disk, erased, wanted, before, cuts>>

(* fs_load_from_disk: a disk without a name is first saved over with the    *)
(* memory, which is still empty.  Entries that cannot be cleared remain,    *)
(* and so do the contents, for entries that come to the same places.        *)
Loaded(d) ==
  IF d.vol THEN {d}
  ELSE {[vol |-> v, files |-> F, users |-> [a \in D |-> d.users[a]], contents |-> d.contents] :
          v \in BOOLEAN, F \in SUBSET d.files, D \in SUBSET DOMAIN d.users}

(* fs_init_commands saves what it has loaded, with root if there is nobody: *)
(* of this only the name and root can be news to the disk.                  *)
Boot(d) ==
  /\ \E l \in Loaded(d) :
       /\ users' = IF DOMAIN l.users = {} THEN Nobody ELSE l.users
       /\ files' = l.files /\ contents' = l.files \cap l.contents
       /\ page' = IF Installed(l) THEN "desktop" ELSE "welcome"
       /\ \E v \in {l.vol, TRUE}, u \in {l.users, users'} :
            disk' = [vol |-> v, files |-> l.files, users |-> u, contents |-> l.contents]
  /\ erased' = (erased \/ disk'.files # d.files \/ disk'.users # d.users)
  /\ Fresh
  /\ UNCHANGED <<wanted, before>>

(* The buttons Reboot and Continue save once more.                          *)
Reboot ==
  /\ page = "finished"
  /\ cuts < MaxCuts /\ cuts' = cuts + 1
  /\ \E s \in Saved(disk, users, files, contents) : Boot(s[1])
Continue ==
  /\ page = "finished" /\ page' = "desktop"
  /\ UNCHANGED <<form, progress, ok, todo, users, files, contents, erased, wanted, before, cuts>>
  /\ Save

PowerCut ==
  /\ cuts < MaxCuts /\ cuts' = cuts + 1
  /\ page # "desktop"
  /\ Boot(disk)

Next ==
  \/ Go("welcome", "keyboard") \/ Go("keyboard", "credentials")
  \/ Go("keyboard", "welcome") \/ Go("credentials", "keyboard") \/ Go("apps", "credentials")
  \/ \E f \in Writes : Write(f)
  \/ Type \/ Submit \/ Deploy \/ Tick \/ UserAdd \/ RootPassword \/ Sync \/ Verify
  \/ Reboot \/ Continue \/ PowerCut

Spec == Init /\ [][Next]_vars

-----------------------------------------------------------------------------
(* As long as no start has lost entries of the disk, a machine that starts  *)
(* as an installed one has been given what was asked for: the password of   *)
(* root is the first word of the one typed and the account exists, with     *)
(* that password if it is a new one.  Blanks are no password.  And an       *)
(* installation that says it went well is on the disk, although a start     *)
(* keeps it only if the volume's name is there too.                         *)
Given(d) ==
  wanted.word # "" =>
    /\ d.users["root"] = wanted.word
    /\ wanted.user \in DOMAIN d.users
    /\ wanted.user \in before \/ d.users[wanted.user] = wanted.word
InstallSound ==
  /\ Installed(disk) /\ ~erased => Given(disk)
  /\ page = "finished" /\ ok => Installed(disk)
=============================================================================
