------------------------------ MODULE Pictures ------------------------------
(***************************************************************************)
(* Where the desktop gets its pictures from: the icons (src/icon_loader.c) *)
(* and the wallpaper (src/window_manager.c) are looked for in the file     *)
(* system, on the CD-ROM (src/iso9660.c) and at fixed places of the disk.  *)
(* A picture that a medium holds has a usable format or not.  The          *)
(* wallpaper is drawn once into a cache of the size of the screen.  Reads  *)
(* of the CD-ROM may fail, and the cache may find no memory.               *)
(***************************************************************************)
EXTENDS Integers, Sequences

CONSTANTS
  Icons,        \* the icons to be loaded, in order
  Medias,       \* what a machine finds: [fs, hdd, cd, good, tree, root], a function
  Paths,        \* Paths[goal]: the paths tried on the CD-ROM for it
  Screens,      \* sizes of the screen
  MaxSectors,   \* of a directory that are read
  MaxTurns      \* bound of the model

VARIABLES
  machine,
  goal, stages, \* what is looked for, and where still
  paths,        \* the paths still to be tried on the CD-ROM
  left, dir, at, \* components left of the path, the directory, its sector
  found,        \* the picture found on the CD-ROM
  icon,         \* of each icon: where its picture is from
  queue,        \* the icons still to be loaded
  mode,         \* inst_mode
  switched,     \* whether the search is one of wm_set_installer_mode
  wall,         \* g_wallpaper
  screen, cache, rendered, \* g_wallpaper_cache, wallpaper_rendered
  pc, failed, turns

vars == <<machine, goal, stages, paths, left, dir, at, found, icon, queue, mode,
          switched, wall, screen, cache, rendered, pc, failed, turns>>

media == Medias[machine]
None == [from |-> "none", of |-> "none"]
Uncached == [of |-> "none", screen |-> 0, mode |-> FALSE]
Goal(m) == IF m THEN "installer" ELSE "desktop"

TypeOK ==
  /\ pc \in {"idle", "stage", "path", "sector", "mount"}
  /\ {mode, switched, rendered, failed} \subseteq BOOLEAN
  /\ \A i \in DOMAIN Icons : icon[Icons[i]] \in {"none", "fs", "iso", "hdd", "fallback"}
  /\ wall.from \in {"none", "fs", "iso", "hdd"} /\ screen \in Screens /\ turns \in 0..MaxTurns

(* At WALLPAPER_LBA, the first place of the disk, is the desktop's picture. *)
Order == [icon |-> <<"fs", "iso", "hdd">>, init |-> <<"first", "iso", "fs">>,
          mode |-> <<"fs", "iso", "hdd">>]

lookup == <<paths, left, dir, at, found>>
desktop == <<mode, switched, screen>>

(* desktop_main: wm_init looks for the wallpaper, then icons_load_all.      *)
Init ==
  /\ machine \in DOMAIN Medias
  /\ goal = "desktop" /\ stages = Order.init /\ pc = "stage"
  /\ paths = <<>> /\ left = <<>> /\ dir = <<>> /\ at = 1 /\ found = "none"
  /\ icon = [i \in {Icons[j] : j \in DOMAIN Icons} |-> "none"] /\ queue = Icons
  /\ mode = FALSE /\ switched = FALSE /\ wall = None
  /\ screen \in Screens /\ cache = Uncached /\ rendered = FALSE
  /\ failed = FALSE /\ turns = 0

-----------------------------------------------------------------------------
(* The search ends with a picture from a medium, or with none: an icon is   *)
(* then a coloured square, the wallpaper stays what it is.  The next icon   *)
(* follows.  A change of the mode ends by giving up the cache.              *)
IsIcon == goal \in DOMAIN icon
Settle(from, p) ==
  /\ IF IsIcon THEN icon' = [icon EXCEPT ![goal] = IF from = "none" \/ p \notin media.good
                                                   THEN "fallback" ELSE from]
                    /\ UNCHANGED wall
     ELSE wall' = (IF from = "none" THEN wall ELSE [from |-> from, of |-> p[1]]) /\ UNCHANGED icon
  /\ IF queue # <<>>
     THEN goal' = queue[1] /\ queue' = Tail(queue) /\ stages' = Order.icon /\ pc' = "stage"
     ELSE pc' = "idle" /\ UNCHANGED <<goal, queue, stages>>
  /\ IF switched /\ ~IsIcon /\ cache # Uncached
     THEN cache' = Uncached /\ rendered' = FALSE
     ELSE UNCHANGED <<cache, rendered>>

(* load_bmp_icon takes what it finds, wm_load_wallpaper_from_fs and the     *)
(* others only what they can use.                                           *)
Usable(p) == IsIcon \/ p \in media.good
Elsewhere == stages' = Tail(stages) /\ pc' = "stage" /\ UNCHANGED <<goal, icon, queue, wall, cache, rendered>>

(* load_file_content, wm_load_wallpaper_from_fs; the disk read at its       *)
(* fixed places, where a read may fail.                                     *)
Held(medium, g) == {p \in medium : p[1] = g /\ Usable(p)}
Stage ==
  /\ pc = "stage"
  /\ IF stages = <<>> THEN Settle("none", <<>>) /\ UNCHANGED <<paths, failed>>
     ELSE CASE stages[1] = "fs" ->
                 /\ IF Held(media.fs, goal) # {}
                    THEN Settle("fs", CHOOSE p \in Held(media.fs, goal) : TRUE)
                    ELSE Elsewhere
                 /\ UNCHANGED <<paths, failed>>
            [] stages[1] \in {"hdd", "first"} ->
                 /\ \/ /\ LET place == Held(media.hdd, IF stages[1] = "first" THEN "desktop" ELSE goal)
                          IN IF place # {} THEN Settle("hdd", CHOOSE p \in place : TRUE) ELSE Elsewhere
                       /\ UNCHANGED failed
                    \/ Elsewhere /\ failed' = TRUE
                 /\ UNCHANGED paths
            [] OTHER ->
                 /\ pc' = "path" /\ paths' = IF media.cd THEN Paths[goal] ELSE <<>>
                 /\ UNCHANGED <<goal, stages, icon, queue, wall, cache, rendered, failed>>
  /\ UNCHANGED <<machine, left, dir, at, found, desktop, turns>>

-----------------------------------------------------------------------------
(* iso9660_find_file: the volume descriptor, then a directory for each      *)
(* component.  What has been found is read and looked at.                   *)
Path ==
  /\ pc = "path"
  /\ IF paths = <<>>
     THEN Elsewhere /\ UNCHANGED lookup
     ELSE /\ pc' = "mount" /\ left' = paths[1] /\ paths' = Tail(paths)
          /\ UNCHANGED <<dir, at, found, goal, stages, icon, queue, wall, cache, rendered>>
  /\ UNCHANGED <<machine, desktop, failed, turns>>

choosing == <<goal, stages, icon, queue, wall, cache, rendered>>
Missed == pc' = "path" /\ UNCHANGED <<dir, at, left, found, choosing>>

Descriptor ==
  /\ pc = "mount"
  /\ \/ pc' = "sector" /\ dir' = media.tree[media.root] /\ at' = 1
        /\ UNCHANGED <<left, found, failed, choosing>>
     \/ Missed /\ failed' = TRUE
  /\ UNCHANGED <<machine, paths, desktop, turns>>

(* iso9660_find_in_dir, one sector: the records up to the first of length   *)
(* zero.  No more than MaxSectors are read.  The picture at the end of the  *)
(* path is read too: another path is tried for an icon that cannot be read, *)
(* but not for the wallpaper.                                               *)
Filled(s) == SubSeq(s, 1, CHOOSE n \in 0..Len(s) :
                            /\ \A i \in 1..n : s[i].name # ""
                            /\ n < Len(s) => s[n + 1].name = "")
Matches(s) == {i \in DOMAIN Filled(s) : s[i].name = left[1]}
First(s) == s[CHOOSE i \in Matches(s) : \A j \in Matches(s) : i <= j]

Sector ==
  /\ pc = "sector"
  /\ IF at > Len(dir) \/ at > MaxSectors THEN Missed /\ UNCHANGED failed
     ELSE \/ Missed /\ failed' = TRUE
          \/ /\ ~IsIcon /\ Len(left) = 1 /\ Matches(dir[at]) # {}
             /\ Elsewhere /\ failed' = TRUE /\ UNCHANGED <<left, dir, at, found>>
          \/ /\ IF Matches(dir[at]) = {}
                THEN at' = at + 1 /\ UNCHANGED <<pc, left, dir, found, choosing>>
                ELSE LET e == First(dir[at])
                     IN IF Len(left) = 1
                        THEN /\ found' = e.lba
                             /\ IF Usable(e.lba) THEN Settle("iso", e.lba) ELSE Elsewhere
                             /\ UNCHANGED <<left, dir, at>>
                        ELSE /\ left' = Tail(left) /\ dir' = media.tree[e.lba] /\ at' = 1
                             /\ UNCHANGED <<pc, found, choosing>>
             /\ UNCHANGED failed
  /\ UNCHANGED <<machine, paths, desktop, turns>>

-----------------------------------------------------------------------------
(* What the user does *)
Turn == pc = "idle" /\ turns < MaxTurns /\ turns' = turns + 1

(* wm_set_installer_mode *)
SetMode ==
  /\ Turn /\ UNCHANGED failed /\ mode' = ~mode /\ switched' = TRUE
  /\ wall' = None /\ goal' = Goal(mode') /\ stages' = Order.mode /\ pc' = "stage"
  /\ UNCHANGED <<machine, lookup, icon, queue, screen, cache, rendered>>

(* wm_init and icons_load_all, when the desktop is entered again, perhaps   *)
(* on another screen: the wallpaper that was found before stays if none is  *)
(* found, and its cache in any case.                                        *)
Reenter ==
  /\ Turn /\ failed' = FALSE /\ switched' = FALSE /\ goal' = Goal(mode) /\ screen' \in Screens
  /\ stages' = Order.init /\ queue' = Icons /\ pc' = "stage"
  /\ UNCHANGED <<machine, lookup, icon, mode, wall, cache, rendered>>

(* wm_set_screen_size *)
Resize ==
  /\ Turn /\ UNCHANGED failed /\ screen' \in Screens
  /\ cache' = Uncached
  /\ rendered' = (rendered /\ cache = Uncached)
  /\ UNCHANGED <<machine, goal, stages, lookup, icon, queue, mode, switched, wall, pc>>

(* wm_draw_desktop_bg, wm_render_wallpaper: a cache of another size is made *)
(* anew; one that got no memory is not asked for again.                     *)
Draw ==
  /\ pc = "idle" /\ wall # None
  /\ IF cache = Uncached THEN ~rendered ELSE cache.screen # screen
  /\ rendered' = TRUE
  /\ cache' \in {Uncached, [of |-> wall.of, screen |-> screen, mode |-> mode]}
  /\ UNCHANGED <<machine, goal, stages, lookup, icon, queue, desktop, wall, pc, failed, turns>>

Next ==
  \/ Stage \/ Path \/ Descriptor \/ Sector
  \/ SetMode \/ Reenter \/ Resize \/ Draw

Spec == Init /\ [][Next]_vars

-----------------------------------------------------------------------------
(* What is at the end of a path: every record of its directories, those     *)
(* behind a length of zero and past MaxSectors excepted.                    *)
Resolves(p) ==
  LET in(l, n) == {e \in UNION {{Filled(s)[i] : i \in DOMAIN Filled(s)} :
                                 s \in {media.tree[l][k] : k \in 1..Len(media.tree[l])}} : e.name = n}
      walk[i \in 0..Len(p)] ==
        IF i = 0 THEN {media.root} ELSE UNION {{e.lba : e \in in(l, p[i])} : l \in walk[i - 1]}
  IN walk[Len(p)]
OnCd(g) == media.cd /\ \E i \in DOMAIN Paths[g] : Resolves(Paths[g][i]) # {}

(* While no read fails a picture is found if there is one: an icon is its   *)
(* picture or, if no medium has one it can use, a square.  Out of the       *)
(* installer the wallpaper is never the installer's, nor is the picture in  *)
(* the cache.                                                               *)
Of(medium, g) == \E p \in medium : p[1] = g
PicturesSound ==
  /\ found # "none" => \E g \in DOMAIN Paths : \E i \in DOMAIN Paths[g] : found \in Resolves(Paths[g][i])
  /\ pc = "idle" => \A i \in DOMAIN icon : icon[i] # "none"
  /\ pc = "idle" /\ ~failed =>
       \A i \in DOMAIN icon :
         Of(media.good, i) => (icon[i] = "fallback" <=> ~Of(media.fs, i) /\ ~OnCd(i) /\ ~Of(media.hdd, i))
  /\ pc = "idle" /\ ~mode => "installer" \notin {wall.of, cache.of}
  /\ pc = "idle" /\ cache # Uncached => rendered /\ cache.mode = mode
=============================================================================
