--------------------------- MODULE FileSystemMC ---------------------------
(* Small instances of FileSystem: five default entries, one of each kind   *)
(* the boot creates, and the files and directories of a user.              *)
EXTENDS FileSystem

CONSTANTS A, B, D, Z   \* data sectors: two of the user, a default, zeros

Paths == {"/Desktop", "/Documents", "/Documents/index.html", "/Code",
          "/Code/hello.py", "/System/current_user", "/users/u", "/users/u/",
          "/a", "/b"}
Stripped == [n \in Paths |-> IF n = "/users/u/" THEN "/users/u" ELSE n]

(* Without the files that only the removing runs use. *)
KeptPaths == Paths \ {"/Code", "/a", "/b"}
StrippedKept == [n \in KeptPaths |-> Stripped[n]]

Blocks == {A, B, D, Z}
Texts == {<<A>>, <<B, A>>}
OneText == {<<A>>}
Default == <<D>>

Desktop == <<[name |-> "/Desktop", dir |-> TRUE]>>
Pages == <<"/Documents/index.html">>
Dirs1 == <<"/Code">>
Starters == <<"/Code/hello.py">>

TwoFiles == {"/a", "/b"}
ProfileAndFile == {"/a", "/System/current_user"}
ProfileAndStarter == {"/Code/hello.py", "/System/current_user"}
OneDir == {"/users/u"}
FileOrDir == {"/a"}
NoPaths == <<>>

AllAreas == {"curdir", "volume", "table", "users", "data"}
AllButVolume == AllAreas \ {"volume"}
===========================================================================
