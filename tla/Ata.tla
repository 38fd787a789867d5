-------------------------------- MODULE Ata --------------------------------
(***************************************************************************)
(* The ATA driver (src/drivers/ata.c): the search for drives, sectors read *)
(* from and written to the boot disk, and sectors of the CD-ROM, four to   *)
(* one of its own.  The two drives hang on one bus or on two, a drive may  *)
(* be slow, so that a wait runs out, and it may fail.  It shows itself     *)
(* busy as soon as a command has been written.                             *)
(***************************************************************************)
EXTENDS Integers, Sequences, FiniteSets

CONSTANTS
  Sectors,     \* of the disk
  Slices,      \* sectors of 512 bytes in one of the CD-ROM
  Values,      \* what a sector of the disk may hold
  Layouts,     \* where the disk and the CD-ROM may be
  Retries,     \* attempts to read a sector of the CD-ROM
  MaxOps       \* bound of the model

VARIABLES
  attached,    \* the drive in each place: a place is a bus and a role
  drives,      \* ata_drives, up to ata_drive_count
  boot, cdrom, \* ata_boot_drive, ata_cdrom_drive, from one; zero is none
  place, round, \* how far the search has come
  chosen,      \* the drive each bus has selected
  status,      \* of each drive: idle, busy, data or error
  command,     \* of each drive: its command, where it is and what is left
  image,       \* the disk
  op,          \* the call being served
  pc, n, tries,
  buffer, result, ops,
  erred        \* whether a drive has failed since the call began

vars == <<attached, drives, boot, cdrom, place, round, chosen, status, command,
          image, op, pc, n, tries, buffer, result, ops, erred>>

Places == <<<<0, 0>>, <<0, 1>>, <<1, 0>>, <<1, 1>>>>
Kinds == {"disk", "cd"}
SectorNumbers == 0..Sectors - 1
None == [kind |-> "none", lba |-> 0, left |-> 0]
CdSector(l) == l \div Slices

TypeOK ==
  /\ Len(drives) <= 4 /\ boot \in 0..4 /\ cdrom \in 0..4
  /\ \A b \in 0..1 : chosen[b] \in Kinds \cup {"none"}
  /\ \A k \in Kinds : status[k] \in {"idle", "busy", "data", "error"}
  /\ image \in [SectorNumbers -> Values]
  /\ pc \in {"search", "idle", "ready", "data", "settle", "flush", "packet", "sector", "end"}
  /\ result \in {0, -1} /\ ops \in 0..MaxOps /\ erred \in BOOLEAN

Bus(k) == LET p == CHOOSE p \in DOMAIN attached : attached[p] = k IN p[1]

Init ==
  /\ \E l \in Layouts :
       attached = [p \in {Places[i] : i \in 1..4} |->
                     IF p = l.disk THEN "disk" ELSE IF p = l.cd THEN "cd" ELSE "none"]
  /\ drives = <<>> /\ boot = 0 /\ cdrom = 0 /\ place = 1 /\ round = 1
  /\ chosen = [b \in 0..1 |-> "none"]
  /\ status = [k \in Kinds |-> "idle"] /\ command = [k \in Kinds |-> None]
  /\ \E v \in Values : image = [l \in SectorNumbers |-> v]
  /\ op = None /\ pc = "search" /\ n = 0 /\ tries = 0
  /\ buffer = <<>> /\ result = 0 /\ ops = 0 /\ erred = FALSE

lines == <<attached, chosen, status, command, image>>
call == <<op, n, tries, buffer, result, ops>>
found == <<drives, boot, cdrom, place, round>>

-----------------------------------------------------------------------------
(* ata_identify_drive: a slow drive does not answer in time.                *)
Answers(p) == IF attached[p] = "none" THEN {"none"} ELSE {attached[p], "none"}

(* ata_init: one place after the other, and all of them again when there    *)
(* was no disk.  The second search starts with an empty table, but the      *)
(* CD-ROM keeps the index of the first.                                     *)
Search ==
  /\ pc = "search" /\ place <= 4
  /\ \E k \in Answers(Places[place]) :
       /\ drives' = IF k = "none" THEN drives ELSE Append(drives, k)
       /\ boot' = IF k = "disk" /\ boot = 0 THEN Len(drives) + 1 ELSE boot
       /\ cdrom' = IF k = "cd" /\ cdrom = 0 THEN Len(drives) + 1 ELSE cdrom
  /\ chosen' = [chosen EXCEPT ![Places[place][1]] = attached[Places[place]]]
  /\ place' = place + 1
  /\ UNCHANGED <<round, attached, status, command, image, pc, call, erred>>
SearchEnds ==
  /\ pc = "search" /\ place = 5
  /\ IF boot = 0 /\ round = 1
     THEN /\ round' = 2 /\ place' = 1 /\ drives' = <<>>
          /\ UNCHANGED pc
     ELSE pc' = "idle" /\ UNCHANGED <<round, place, drives>>
  /\ UNCHANGED <<boot, cdrom, lines, call, erred>>

-----------------------------------------------------------------------------
(* ata_read_sectors, ata_write_sectors, ata_read_cdrom_512: the calls       *)
Call(o) ==
  /\ pc = "idle" /\ ops < MaxOps /\ ops' = ops + 1
  /\ op' = o /\ n' = 0 /\ tries' = 0 /\ erred' = FALSE
  /\ buffer' = IF o.kind = "write" THEN o.data ELSE <<>>
  /\ LET refused == IF o.kind = "cd" THEN cdrom = 0
                    ELSE boot = 0 \/ o.left = 0 \/ o.lba + o.left > Sectors
     IN /\ result' = IF refused THEN -1 ELSE 0
        /\ pc' = IF refused THEN "end" ELSE IF o.kind = "cd" THEN "sector" ELSE "ready"
  /\ UNCHANGED <<lines, found>>

Fails == pc' = "end" /\ result' = -1 /\ UNCHANGED <<op, n, tries, buffer, ops>>

(* ata_wait_ready, ata_wait_drq run out when the drive is busy.             *)
Idle(k) == LET c == chosen[Bus(k)] IN IF c = "none" THEN TRUE ELSE status[c] # "busy"

(* The disk is selected and told what to do: the command it was in is over. *)
Issue(k, c) ==
  /\ chosen' = [chosen EXCEPT ![Bus(k)] = k]
  /\ status' = [status EXCEPT ![k] = "busy"]
  /\ command' = [command EXCEPT ![k] = c]

Ready ==
  /\ pc = "ready"
  /\ \/ /\ Idle("disk")
        /\ Issue("disk", [kind |-> op.kind, lba |-> op.lba, left |-> op.left])
        /\ pc' = "data" /\ UNCHANGED call
     \/ ~Idle("disk") /\ Fails /\ UNCHANGED <<chosen, status, command>>
  /\ UNCHANGED <<attached, image, found, erred>>

(* One sector is moved, when the drive asks for it.                         *)
Taken(c) == [kind |-> c.kind, lba |-> c.lba + 1, left |-> c.left - 1]
Data ==
  /\ pc = "data"
  /\ \/ /\ status["disk"] = "data" /\ op.kind = "read"
        /\ buffer' = Append(buffer, image[command["disk"].lba])
        /\ command' = [command EXCEPT !["disk"] = Taken(@)]
        /\ status' = [status EXCEPT !["disk"] = IF command["disk"].left = 1 THEN "idle" ELSE "busy"]
        /\ n' = n + 1 /\ pc' = IF n' = op.left THEN "end" ELSE "data"
        /\ UNCHANGED <<op, tries, result, ops>>
     \/ /\ status["disk"] = "data" /\ op.kind = "write"
        /\ status' = [status EXCEPT !["disk"] = "busy"]
        /\ command' = [command EXCEPT !["disk"] =
                         [kind |-> "store", lba |-> @.lba, left |-> @.left, value |-> buffer[n + 1]]]
        /\ n' = n + 1 /\ pc' = "settle"
        /\ UNCHANGED <<op, tries, buffer, result, ops>>
     \/ status["disk"] # "data" /\ Fails /\ UNCHANGED <<status, command>>
  /\ UNCHANGED <<attached, chosen, image, found, erred>>

(* ata_write_sectors waits for the sector to be written, but looks only at  *)
(* whether the drive is busy: after the last sector nobody asks for errors. *)
Settle ==
  /\ pc = "settle"
  /\ \/ status["disk"] # "busy" /\ pc' = (IF n < op.left THEN "data" ELSE "flush") /\ UNCHANGED call
     \/ status["disk"] = "busy" /\ Fails
  /\ UNCHANGED <<lines, found, erred>>
Flush ==
  /\ pc = "flush" /\ pc' = "end"
  /\ Issue("disk", None)
  /\ UNCHANGED <<attached, image, call, found, erred>>

(* atapi_read_sector and its three attempts: an index that is not that of   *)
(* a CD-ROM fails.                                                          *)
IsCd == IF cdrom <= Len(drives) THEN drives[cdrom] = "cd" ELSE FALSE
CdWanted == CdSector(op.lba + n)
CdFails ==
  /\ IF tries + 1 < Retries THEN tries' = tries + 1 /\ pc' = "sector" /\ UNCHANGED result
     ELSE pc' = "end" /\ result' = -1 /\ UNCHANGED tries
  /\ UNCHANGED <<op, n, buffer, ops>>
CdSelect ==
  /\ pc = "sector"
  /\ \/ /\ IsCd /\ Idle("cd")
        /\ Issue("cd", [kind |-> "cd", lba |-> CdWanted, left |-> 1])
        /\ pc' = "packet" /\ UNCHANGED call
     \/ /\ ~(IsCd /\ Idle("cd"))
        /\ CdFails /\ UNCHANGED <<chosen, status, command>>
  /\ UNCHANGED <<attached, image, found, erred>>

(* All slices of the sector that are asked for are taken from it.           *)
SlicesHere == {i \in n..op.left - 1 : CdSector(op.lba + i) = CdWanted}
CdRead ==
  /\ pc = "packet"
  /\ \/ /\ status["cd"] = "data"
        /\ LET m == Cardinality(SlicesHere)
           IN /\ buffer' = buffer \o [i \in 1..m |->
                             <<command["cd"].lba, (op.lba + n + i - 1) % Slices>>]
              /\ n' = n + m
              /\ pc' = IF n' = op.left THEN "end" ELSE "sector"
        /\ tries' = 0
        /\ status' = [status EXCEPT !["cd"] = "idle"]
        /\ UNCHANGED <<op, result, ops>>
     \/ status["cd"] # "data" /\ CdFails /\ UNCHANGED status
  /\ UNCHANGED <<attached, chosen, command, image, found, erred>>

Return == pc = "end" /\ pc' = "idle" /\ UNCHANGED <<call, lines, found, erred>>

(* A drive gets on with its command, or fails it.                           *)
Work(k) ==
  /\ status[k] = "busy"
  /\ \/ status' = [status EXCEPT ![k] = "error"] /\ erred' = TRUE /\ UNCHANGED <<command, image>>
     \/ /\ command[k].kind = "store"
        /\ image' = [image EXCEPT ![command[k].lba] = command[k].value]
        /\ command' = [command EXCEPT ![k] = [kind |-> "write", lba |-> @.lba + 1, left |-> @.left - 1]]
        /\ status' = [status EXCEPT ![k] = IF command[k].left = 1 THEN "idle" ELSE "data"]
        /\ UNCHANGED erred
     \/ /\ command[k].kind # "store"
        /\ status' = [status EXCEPT ![k] = IF command[k].kind = "none" THEN "idle" ELSE "data"]
        /\ UNCHANGED <<command, image, erred>>
  /\ UNCHANGED <<attached, chosen, found, pc, call>>

Calls ==
  [kind : {"read"}, lba : SectorNumbers, left : 0..2] \cup
  [kind : {"cd"}, lba : 0..Slices, left : 1..2] \cup
  {[kind |-> "write", lba |-> l, left |-> m, data |-> d] :
     l \in SectorNumbers, m \in 1..2, d \in [1..2 -> Values]}

Next ==
  \/ Search \/ SearchEnds
  \/ \E o \in Calls : Call(o)
  \/ Ready \/ Data \/ Settle \/ Flush \/ CdSelect \/ CdRead \/ Return
  \/ \E k \in Kinds : Work(k)

Spec == Init /\ [][Next]_vars

-----------------------------------------------------------------------------
(* A call that says it went well has done what it was asked for: the buffer *)
(* holds the sectors read; the disk holds the sectors written, but perhaps  *)
(* the last when a drive failed, which is not noticed there.  A drive that  *)
(* is busy is the one its bus has selected, so that a wait before a command *)
(* sees it.  And the disk is a disk.                                        *)
DiskSound ==
  /\ pc = "end" /\ result = 0 =>
       /\ op.kind = "read" => buffer = [i \in 1..op.left |-> image[op.lba + i - 1]]
       /\ op.kind = "write" =>
            \A i \in 1..(IF erred THEN op.left - 1 ELSE op.left) : image[op.lba + i - 1] = op.data[i]
       /\ op.kind = "cd" =>
            buffer = [i \in 1..op.left |-> <<CdSector(op.lba + i - 1), (op.lba + i - 1) % Slices>>]
  /\ \A k \in Kinds : status[k] = "busy" => chosen[Bus(k)] = k
  /\ boot # 0 => boot <= Len(drives) /\ drives[boot] = "disk"
=============================================================================
