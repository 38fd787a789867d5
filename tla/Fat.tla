-------------------------------- MODULE Fat --------------------------------
(***************************************************************************)
(* The reader of FAT32 volumes (src/fat32.c) and the command FATLOAD that  *)
(* uses it: a volume is mounted, a name is looked for in the root, a       *)
(* directory is listed, a file is read.  Every read of the disk may fail.  *)
(* A directory is the entries of the clusters of its chain, a file their   *)
(* sectors; chains may be too short, broken, or run in a circle.           *)
(* A cluster of a directory is read to fat_dir_buffer, which holds         *)
(* DirSectors sectors, whatever its size: larger ones are left out.        *)
(***************************************************************************)
EXTENDS Integers, Sequences, SequencesExt

CONSTANTS
  Lbas,         \* where a volume is looked for
  Volumes,      \* what is there: [good, span, root, fat, entries], a function
  FatCalls,     \* the calls made: [kind, lba, name, max]
  DirSectors,   \* sectors of fat_dir_buffer, at least the span of a volume
  SectorBytes,  \* FAT_SECTOR_SIZE
  MaxVisited,   \* clusters of a chain that are looked at
  MaxCalls      \* bound of the model

VARIABLES
  valid,        \* g_fat.valid, g_fat.mounted
  base,         \* the rest of g_fat, by the volume it describes
  op, pc, back, \* the call, where it is, and where it goes on to
  cluster, visited, sector,
  entry,        \* the entry that has been found
  shown,        \* what the listing has shown
  buffer,
  failed,       \* whether a read has failed
  result, calls

vars == <<valid, base, op, pc, back, cluster, visited, sector, entry, shown,
          buffer, failed, result, calls>>

End == 99       \* 0x0FFFFFF8, and 0xFFFFFFFF for an entry that is not read
None == [name |-> "", kind |-> "file", cluster |-> 0, size |-> 0]
volume == Volumes[base]
Smaller(a, b) == IF a < b THEN a ELSE b

TypeOK ==
  /\ {valid, failed, result} \subseteq BOOLEAN
  /\ pc \in {"idle", "boot", "search", "list", "file", "fat"}
  /\ back \in {"search", "list", "file"}
  /\ cluster \in 0..End /\ visited \in 0..MaxVisited /\ calls \in 0..MaxCalls

Init ==
  /\ valid = FALSE /\ base = CHOOSE l \in Lbas : TRUE
  /\ op = [kind |-> "none"] /\ pc = "idle" /\ back = "search"
  /\ cluster = 0 /\ visited = 0 /\ sector = 0 /\ entry = None
  /\ shown = <<>> /\ buffer = <<>> /\ failed = FALSE /\ result = FALSE /\ calls = 0

place == <<cluster, visited, sector>>
made == <<entry, shown, buffer>>

(* A walk along the chain begins at a cluster. *)
Walk(c, p) == cluster' = c /\ visited' = 0 /\ sector' = 0 /\ pc' = p

-----------------------------------------------------------------------------
(* cmd_fatload, fat32_mount, fat32_unmount, and the calls that look for a   *)
(* name; a call on no volume is refused.  A mount that fails leaves none.   *)
Call(o) ==
  /\ pc = "idle" /\ calls < MaxCalls /\ calls' = calls + 1
  /\ op' = o /\ failed' = FALSE /\ result' = (o.kind = "unmount" /\ valid)
  /\ entry' = None /\ shown' = <<>> /\ buffer' = <<>>
  /\ valid' = (valid /\ o.kind \notin {"mount", "unmount"})
  /\ CASE o.kind = "mount" -> Walk(0, "boot")
       [] o.kind = "unmount" \/ (o.kind # "mount" /\ ~valid) -> Walk(0, "idle")
       [] o.kind = "list" /\ valid /\ o.name = "/" -> Walk(volume.root, "list")
       [] OTHER -> Walk(volume.root, "search")
  /\ UNCHANGED <<base, back>>

Return(r) == pc' = "idle" /\ result' = r /\ UNCHANGED <<back, place>>
Lost == Return(FALSE) /\ failed' = TRUE

Boot ==
  /\ pc = "boot"
  /\ \/ /\ Return(Volumes[op.lba].good) /\ valid' = Volumes[op.lba].good
        /\ base' = IF valid' THEN op.lba ELSE base
        /\ UNCHANGED failed
     \/ Lost /\ UNCHANGED <<valid, base>>
  /\ UNCHANGED <<op, made, calls>>

-----------------------------------------------------------------------------
(* The loops over a chain end after MaxVisited clusters. *)
Ended == cluster >= End \/ visited >= MaxVisited

(* fat_get_fat_entry: an entry that cannot be read ends the chain.          *)
FatEntry ==
  /\ pc = "fat" /\ pc' = back /\ visited' = visited + 1
  /\ \/ cluster' = volume.fat[cluster] /\ UNCHANGED failed
     \/ cluster' = End /\ failed' = TRUE
  /\ UNCHANGED <<valid, base, op, back, sector, made, result, calls>>

Onwards(p) == pc' = "fat" /\ back' = p /\ UNCHANGED <<cluster, visited>>

(* Entries up to the mark that ends the directory, without those that are   *)
(* deleted, labels or parts of long names.                                  *)
UpTo(es) ==
  SubSeq(es, 1, CHOOSE n \in 0..Len(es) :
                  /\ \A i \in 1..n : es[i].kind # "end"
                  /\ n < Len(es) => es[n + 1].kind = "end")
Visible(es) == SelectSeq(UpTo(es), LAMBDA e : e.kind \in {"file", "dir"})

(* fat_find_in_buffer *)
Hits(c) == SelectSeq(Visible(volume.entries[c]), LAMBDA e : e.name = op.name)

(* fat_search_directory: the end of the directory is that of the cluster.   *)
(* What has been found is listed or read, if that was asked for; a file     *)
(* without a cluster is not read, not even when it is empty.                *)
Found(e) ==
  /\ entry' = e
  /\ CASE op.kind = "find" -> Return(TRUE)
       [] op.kind = "list" -> Walk(e.cluster, "list") /\ UNCHANGED <<back, result>>
       [] op.kind = "read" /\ e.cluster \in {0, End} -> Return(FALSE)
       [] OTHER -> Walk(e.cluster, "file") /\ UNCHANGED <<back, result>>
Search ==
  /\ pc = "search"
  /\ \/ (Ended \/ cluster < 2) /\ Return(FALSE) /\ UNCHANGED <<entry, failed>>
     \/ ~Ended /\ cluster >= 2 /\ Lost /\ UNCHANGED entry
     \/ /\ ~Ended /\ cluster >= 2
        /\ IF Hits(cluster) # <<>> THEN Found(Hits(cluster)[1])
           ELSE Onwards("search") /\ UNCHANGED <<entry, sector, result>>
        /\ UNCHANGED failed
  /\ UNCHANGED <<valid, base, op, shown, buffer, calls>>

(* fat32_list_directory: the end of the directory ends the listing.         *)
List ==
  /\ pc = "list"
  /\ \/ (Ended \/ cluster < 2) /\ Return(TRUE) /\ UNCHANGED <<shown, failed>>
     \/ ~Ended /\ cluster >= 2 /\ Lost /\ UNCHANGED shown
     \/ /\ ~Ended /\ cluster >= 2
        /\ LET es == volume.entries[cluster]
           IN /\ shown' = shown \o Visible(es)
              /\ IF UpTo(es) # es THEN Return(TRUE)
                 ELSE Onwards("list") /\ UNCHANGED <<sector, result>>
        /\ UNCHANGED failed
  /\ UNCHANGED <<valid, base, op, entry, buffer, calls>>

(* fat32_read_file from the beginning, one sector: of a chain that comes to *)
(* a cluster not in use the first sectors of the disk are read.             *)
Asked == Smaller(entry.size, op.max)
File ==
  /\ pc = "file"
  /\ \/ (Ended \/ Len(buffer) >= Asked) /\ Return(TRUE) /\ UNCHANGED <<buffer, failed>>
     \/ /\ ~Ended /\ Len(buffer) < Asked
        /\ Return(buffer # <<>>) /\ failed' = TRUE /\ UNCHANGED buffer
     \/ /\ ~Ended /\ Len(buffer) < Asked
        /\ LET n == Smaller(SectorBytes, Asked - Len(buffer))
           IN buffer' = buffer \o [i \in 1..n |->
                IF cluster < 2 THEN <<0, sector, i>> ELSE <<cluster, sector, i>>]
        /\ IF sector + 1 < volume.span /\ Len(buffer') < Asked
           THEN sector' = sector + 1 /\ UNCHANGED <<cluster, visited, pc, back>>
           ELSE sector' = 0 /\ Onwards("file")
        /\ UNCHANGED <<failed, result>>
  /\ UNCHANGED <<valid, base, op, entry, shown, calls>>

Next ==
  \/ \E o \in FatCalls : Call(o)
  \/ Boot \/ FatEntry \/ Search \/ List \/ File

Spec == Init /\ [][Next]_vars

-----------------------------------------------------------------------------
(* The clusters of a chain, up to the first that is none. *)
Chain(c) ==
  LET walk[i \in 1..MaxVisited] ==
        IF i = 1 THEN c ELSE IF walk[i - 1] \in 2..End - 1 THEN volume.fat[walk[i - 1]] ELSE End
      whole == SelectSeq([i \in 1..MaxVisited |-> walk[i]], LAMBDA x : x \in 2..End - 1)
  IN whole
Entries(c) ==
  FoldLeft(LAMBDA all, d : all \o volume.entries[d], <<>>, Chain(c))

(* The bytes of a file: of cluster i / bytes of a cluster in the chain.     *)
Byte(i) ==
  LET bytes == volume.span * SectorBytes
  IN <<Chain(entry.cluster)[(i - 1) \div bytes + 1],
       ((i - 1) % bytes) \div SectorBytes, ((i - 1) % SectorBytes) + 1>>
Holds == Len(Chain(entry.cluster)) * volume.span * SectorBytes
Broken(c) == \E i \in DOMAIN Chain(c) : volume.fat[Chain(c)[i]] < 2

(* What is read of a file is its beginning, also when reads fail, unless    *)
(* its chain is broken; when none fails the call does all it says: a        *)
(* listing shows the directory once and in order, a file is read as far as  *)
(* it was asked for and its chain goes, a name is found if and only if it   *)
(* is in the root.                                                          *)
FatSound ==
  /\ buffer # <<>> /\ ~Broken(entry.cluster) =>
       Len(buffer) <= Holds /\ \A i \in 1..Len(buffer) : buffer[i] = Byte(i)
  /\ pc = "idle" /\ valid /\ ~failed =>
       /\ op.kind = "list" /\ result =>
            shown = Visible(Entries(IF op.name = "/" THEN volume.root ELSE entry.cluster))
       /\ op.kind = "read" /\ result /\ ~Broken(entry.cluster) =>
            Len(buffer) = Smaller(Asked, Holds)
       /\ op.kind \in {"find", "list", "read"} /\ op.name # "/" /\ entry = None =>
            op.name \notin {Visible(Entries(volume.root))[i].name :
                              i \in DOMAIN Visible(Entries(volume.root))}
=============================================================================
