----------------------------- MODULE DevicesMC -----------------------------
(* A small instance of the drivers and services.                            *)
EXTENDS Devices, TLC

(* The disk is the first drive or the second of a bus, or the only one.     *)
FourLayouts == {[disk |-> <<0, 0>>, cd |-> <<1, 0>>], [disk |-> <<0, 1>>, cd |-> <<0, 0>>],
            [disk |-> <<1, 0>>, cd |-> <<0, 0>>], [disk |-> <<0, 0>>, cd |-> <<>>]}

FirstWords == [s \in Secrets |-> IF s = "p q" THEN "p" ELSE ""]

(* Responses of a few lines, some too long or too many to be kept.          *)
SmallResponses == {[lines |-> l, body |-> b] : l \in {<<2>>, <<2, 1>>, <<2, 3, 1>>, <<3, 1>>, <<1, 2, 1, 1>>},
                                         b \in {0, 2, 4}}

(* Volumes: a chain in a directory and a file of two clusters; a directory  *)
(* whose chain is a circle and a file whose chain breaks off; and none.     *)
File(f, c, s) == [name |-> f, kind |-> "file", cluster |-> c, size |-> s]
Dir(f, c) == [name |-> f, kind |-> "dir", cluster |-> c, size |-> 0]
Other(k) == [name |-> "x", kind |-> k, cluster |-> 0, size |-> 0]
Ends == 99
ThreeVolumes ==
  0 :> [good |-> TRUE, span |-> 2, root |-> 2,
        fat |-> [c \in 0..7 |-> CASE c = 2 -> 3 [] c = 4 -> 5 [] OTHER -> Ends],
        entries |-> [c \in 2..7 |->
          CASE c = 2 -> <<Other("label"), File("f", 4, 7), Other("deleted")>>
            [] c = 3 -> <<Dir("d", 6), File("g", 7, 9), Other("end")>>
            [] c = 6 -> <<File("h", 7, 1), Other("end"), Other("deleted")>>
            [] OTHER -> <<>>]]
  @@ 1 :> [good |-> TRUE, span |-> 1, root |-> 2,
           fat |-> [c \in 0..4 |-> CASE c = 2 -> 2 [] c = 3 -> 4 [] c = 4 -> 0 [] OTHER -> Ends],
           entries |-> [c \in 2..4 |->
             IF c = 2 THEN <<File("f", 3, 6), File("g", 0, 0)>> ELSE <<>>]]
  @@ 2 :> [good |-> FALSE]
ManyCalls ==
  {[kind |-> "mount", lba |-> l] : l \in Lbas} \cup {[kind |-> "unmount"]}
  \cup {[kind |-> k, name |-> f, max |-> 6] : k \in {"find", "read"}, f \in {"f", "g"}}
  \cup {[kind |-> "list", name |-> f] : f \in {"/", "d"}}

(* Two icons and two wallpapers, and where they may be found.               *)
TwoIcons == <<"a", "b">>
FewPaths == [a |-> <<<<"icons", "a">>, <<"a">>>>, b |-> <<<<"icons", "b">>, <<"b">>>>,
          desktop |-> <<<<"wall", "w">>, <<"w">>>>, installer |-> <<<<"bg">>>>]
Named(f, l) == [name |-> f, lba |-> l]
Picture(f) == <<f, 1>>
Tree ==
  "root" :> <<<<Named("icons", "idir"), Named("wall", "wdir"), Named("", "")>>,
              <<Named("b", Picture("b")), Named("bg", Picture("installer"))>>>>
  @@ "idir" :> <<<<Named("a", Picture("a"))>>>>
  @@ "wdir" :> <<<<Named("x", Picture("a"))>>, <<Named("w", Picture("desktop"))>>>>
Media(f, h, c, g) ==
  [fs |-> {Picture(i) : i \in f}, hdd |-> {Picture(i) : i \in h}, cd |-> c,
   good |-> {Picture(i) : i \in g}, tree |-> Tree, root |-> "root"]
ThreeMedias ==
  <<Media({}, {"desktop", "installer"}, TRUE, {"a", "b", "desktop", "installer"}),
    Media({"desktop"}, {"a"}, FALSE, {"a", "b", "desktop", "installer"}),
    Media({"a"}, {}, TRUE, {"b", "desktop"})>>

(* Responses with CR LF or LF, some with an empty line in the body;         *)
(* and addresses with a port, a query and without a name.                   *)
SmallDownloads ==
  {[crlf |-> c, lines |-> l, body |-> b] :
     c \in BOOLEAN, l \in {1, 2},
     b \in {<<>>, <<"x">>, <<"r", "n", "r", "n">>, <<"r", "n", "r", "n", "x">>}}
FiveUrls ==
  {[named |-> FALSE, port |-> FALSE, path |-> <<>>, given |-> TRUE],
   [named |-> TRUE, port |-> TRUE, path |-> <<"/", "p">>, given |-> FALSE]}
  \cup {[named |-> TRUE, port |-> FALSE, path |-> p, given |-> FALSE] :
          p \in {<<"/", "p">>, <<"/", "p", "?", "/">>, <<"/", "?", "p">>,
                <<"/", "p", "/", "p", "?">>}}

(* What a part that is not run starts with does not matter.                 *)
SmallInit ==
  /\ DevicesInit
  /\ part # "mouse" => limit = CHOOSE l \in Limits : TRUE
  /\ part # "usb" => controller = "uhci" /\ memory = CHOOSE m \in Memories : TRUE
  /\ part # "card" => kind = "virtio"
  /\ part # "network" => adapter = "length"
  /\ part # "disk" => attached[<<0, 0>>] = "disk" /\ attached[<<1, 0>>] = "cd"
  /\ image[0] = CHOOSE v \in Values : TRUE      \* the values are alike
  /\ part # "setup" => disk.vol
  /\ part # "tls" => flight = <<[type |-> 22, body |-> <<"hello", "certificate", "done">>]>>
  /\ part # "http" => response = CHOOSE r \in Responses : TRUE
  /\ part # "pictures" => machine = 1 /\ screen = CHOOSE s \in Screens : TRUE

SmallSpec == SmallInit /\ [][DevicesNext]_all /\ WF_netVars(Own)
=============================================================================
