---------------------------- MODULE FileSystem ----------------------------
(***************************************************************************)
(* The native file system of AurionOS (src/src/commands.c, include/fs.h).  *)
(*                                                                         *)
(* In memory it is two arrays: fs_table, one entry per file or directory,  *)
(* and file_contents, the bytes of the files, each tagged with the index   *)
(* of its table entry.  Every command changes the arrays and then calls    *)
(* fs_save_to_disk, which rewrites every sector of the image, one after    *)
(* another: current directory, volume, table, users, contents.  A boot     *)
(* reads the image back and completes it with the default entries.         *)
(*                                                                         *)
(* One step of this module is one command, one sector written by a save,   *)
(* one sector or entry visited by a loop of the boot, or a power failure.  *)
(* Commands run to the end of their save before the next one is accepted:  *)
(* the kernel has a single thread and the save never yields.               *)
(*                                                                         *)
(* Abstractions: a path is a member of Name; the bytes of a file are a     *)
(* sequence of sector-sized blocks, so sizes count sectors; attributes,    *)
(* parent indices, the contents of the current-directory and user sectors  *)
(* are left out, the writes of those sectors are not.                      *)
(***************************************************************************)
EXTENDS Naturals, Sequences

CONSTANTS
  Name,            \* paths
  Block,           \* contents of a 512-byte data sector
  ZeroBlock,       \* the all-zero sector
  Missing,         \* what a failed lookup returns
  NoEntry,         \* an empty sector of the table on disk
  MaxFiles,        \* FS_MAX_FILES
  MaxContents,     \* FS_MAX_FILE_CONTENTS
  MaxBlocks,       \* MAX_FILE_SIZE in sectors
  DesktopCap,      \* the entry count desktop_main accepts
  Bare,            \* a path without its trailing slash
  FileName,        \* paths the files of the workload use
  DirName,         \* paths the directories of the workload use
  Payload,         \* contents the workload stores
  DesktopEntries,  \* default entries of fs_ensure_desktop_dir
  WebPages,        \* default pages of fs_ensure_documents_dir
  Documents,       \* /Documents
  ExtraDirs,       \* default directories of fs_init_commands
  Seeds,           \* starter files of fs_init_commands
  DefaultData,     \* contents of the default pages and starter files
  UserProfile,     \* /System/current_user
  HomeDir,         \* /users/<current user>/, with its trailing slash
  FailingAreas,    \* the areas of the disk whose writes may fail
  MaxOps,          \* bound: commands run
  MaxCrashes,      \* bound: power failures
  MaxFaults        \* bound: failed sector writes

Area == {"none", "curdir", "volume", "table", "users", "data"}
Bytes == UNION {[1..k -> Block] : k \in 0..MaxBlocks}
Entry == [name : Name, size : 0..MaxBlocks, dir : BOOLEAN]
Content == [idx : 1..MaxFiles, data : Bytes]
DefaultEntry == [name : Name, dir : BOOLEAN]

ASSUME SizesAssumption ==
  /\ MaxFiles \in Nat \ {0}
  /\ MaxContents \in Nat
  /\ MaxBlocks \in Nat \ {0}
  /\ DesktopCap \in Nat
  /\ MaxOps \in Nat /\ MaxCrashes \in Nat /\ MaxFaults \in Nat

ASSUME NamesAssumption ==
  /\ FileName \subseteq Name /\ DirName \subseteq Name
  /\ Documents \in Name /\ UserProfile \in Name /\ HomeDir \in Name
  /\ Bare \in [Name -> Name]
  /\ \A n \in Name : Bare[Bare[n]] = Bare[n]
  /\ NoEntry \notin Entry

ASSUME DataAssumption ==
  /\ ZeroBlock \in Block
  /\ Missing \notin Bytes
  /\ Payload \subseteq Bytes \ {<<>>}
  /\ DefaultData \in Bytes \ {<<>>}

ASSUME DefaultsAssumption ==
  /\ DesktopEntries \in Seq(DefaultEntry)
  /\ WebPages \in Seq(Name)
  /\ ExtraDirs \in Seq(Name)
  /\ Seeds \in Seq(Name)

ASSUME FailuresAssumption == FailingAreas \subseteq Area \ {"none"}

VARIABLES
  table,      \* fs_table[0 .. fs_count - 1]
  contents,   \* file_contents[0 .. file_content_count - 1]
  diskTable,  \* the table sectors
  diskData,   \* the content sectors, MaxBlocks for each table index
  diskVol,    \* TRUE when the volume sector is not blank
  area,       \* the part of the image the save in progress is writing
  slot, sector, \* its loop indices there
  failed,     \* a write of the current or of the last save has failed
  pc,         \* what the kernel does once the save in progress is over
  cursor,     \* index of the loop that runs at pc
  op,         \* the last command accepted since power-on
  terminal,   \* whether the first terminal window of the desktop session is due
  ops, crashes, faults   \* counters for the bounds

ram == <<table, contents>>
disk == <<diskTable, diskData, diskVol>>
saving == <<area, slot, sector, failed>>
bounds == <<ops, crashes, faults>>
vars == <<table, contents, diskTable, diskData, diskVol, area, slot, sector,
          failed, pc, cursor, op, terminal, ops, crashes, faults>>

BootStage == {"volume", "entries", "contents", "desktop", "documents",
              "pages", "dirs", "seeds", "home", "gui"}
Stage == BootStage \cup {"off", "chkdsk", "idle"}
Command == {"save", "nano", "touch", "mkdir", "sync", "copy", "move",
            "del", "rmdir", "chkdsk", "format", "reinit"}

TypeOK ==
  /\ table \in Seq(Entry) /\ Len(table) <= MaxFiles
  /\ contents \in Seq(Content) /\ Len(contents) <= MaxContents
  /\ diskTable \in [1..MaxFiles -> Entry \cup {NoEntry}]
  /\ diskData \in [1..MaxFiles -> [1..MaxBlocks -> Block]]
  /\ diskVol \in BOOLEAN
  /\ area \in Area
  /\ slot \in Nat \ {0} /\ sector \in Nat \ {0}
  /\ area = "table" => slot <= MaxFiles
  /\ area = "data" => slot <= Len(contents) /\ sector <= MaxBlocks
  /\ failed \in BOOLEAN
  /\ pc \in Stage
  /\ cursor \in Nat \ {0}
  /\ op \in Command \cup {"none"}
  /\ terminal \in {"none", "unused", "used"}
  /\ ops \in Nat /\ crashes \in Nat /\ faults \in Nat

-----------------------------------------------------------------------------
(* Lookups.  Every one is a linear scan that stops at the first match. *)

First(S) == CHOOSE i \in S : \A j \in S : i <= j

Named(n) == {i \in 1..Len(table) : table[i].name = n}
Files(n) == {i \in Named(n) : ~table[i].dir}
Dirs(n) == {i \in Named(n) : table[i].dir}
SlotsOf(i) == {k \in 1..Len(contents) : contents[k].idx = i}

(* load_file_content: -1 without an entry or without a content slot. *)
LoadFileContent(n) ==
  IF Named(n) = {} \/ SlotsOf(First(Named(n))) = {}
    THEN Missing
    ELSE contents[First(SlotsOf(First(Named(n))))].data

NewEntry(n, size, dir) == [name |-> n, size |-> size, dir |-> dir]

(* The shift loop that closes the gap left by element i. *)
Shifted(s, i) == [j \in 1..(Len(s) - 1) |-> IF j < i THEN s[j] ELSE s[j + 1]]

-----------------------------------------------------------------------------
(* fs_save_to_disk, one sector for each step.  The tables in memory do not *)
(* change until it is over.                                                *)

Quiet == area = "none"

BeginSave == area' = "curdir" /\ slot' = 1 /\ sector' = 1 /\ failed' = FALSE
EndSave == area' = "none" /\ slot' = 1 /\ sector' = 1
NoSave == UNCHANGED saving

(* Faulty variant: the table is saved before the volume sector. *)
TableFirstAdvance ==
  CASE area = "curdir" ->
         area' = "table" /\ slot' = 1 /\ UNCHANGED sector
    [] area = "table" /\ slot < MaxFiles ->
         slot' = slot + 1 /\ UNCHANGED <<area, sector>>
    [] area = "table" /\ slot = MaxFiles ->
         area' = "volume" /\ UNCHANGED <<slot, sector>>
    [] OTHER -> EndSave

(* The position of the write that follows the current one. *)
Advance ==
  CASE area = "curdir" ->
         area' = "volume" /\ UNCHANGED <<slot, sector>>
    [] area = "volume" ->
         area' = "table" /\ slot' = 1 /\ UNCHANGED sector
    [] area = "table" /\ slot < MaxFiles ->
         slot' = slot + 1 /\ UNCHANGED <<area, sector>>
    [] area = "table" /\ slot = MaxFiles ->
         area' = "users" /\ UNCHANGED <<slot, sector>>
    [] area = "users" /\ contents # <<>> ->
         area' = "data" /\ slot' = 1 /\ sector' = 1
    [] area = "data" /\ sector < MaxBlocks ->
         sector' = sector + 1 /\ UNCHANGED <<area, slot>>
    [] area = "data" /\ sector = MaxBlocks /\ slot < Len(contents) ->
         slot' = slot + 1 /\ sector' = 1 /\ UNCHANGED area
    [] OTHER -> EndSave

(* A failure of these writes ends the save with -1; the others are ignored: *)
(* the volume sector and the clearing of unused table and content sectors.  *)
CriticalWrite ==
  \/ area \in {"curdir", "users"}
  \/ area = "table" /\ slot <= Len(table)
  \/ area = "data" /\ (sector = 1 \/ sector <= Len(contents[slot].data))

kernel == <<table, contents, pc, cursor, op, terminal, ops, crashes>>

WriteVolume ==
  /\ area = "volume"
  /\ diskVol' = TRUE
  /\ Advance
  /\ UNCHANGED <<diskTable, diskData, failed, faults, kernel>>

(* Faulty variant: the sectors behind the last entry are not cleared. *)
NoClearWriteTableSector ==
  /\ area = "table"
  /\ diskTable' = IF slot <= Len(table)
       THEN [diskTable EXCEPT ![slot] = table[slot]] ELSE diskTable
  /\ Advance
  /\ UNCHANGED <<diskData, diskVol, failed, faults, kernel>>

WriteTableSector ==
  /\ area = "table"
  /\ diskTable' = [diskTable EXCEPT
        ![slot] = IF slot <= Len(table) THEN table[slot] ELSE NoEntry]
  /\ Advance
  /\ UNCHANGED <<diskData, diskVol, failed, faults, kernel>>

(* Faulty variant: the sectors are those of the loop position, not those of *)
(* file_idx (the bug that the comment on fs_save_to_disk says was fixed).   *)
ByPositionWriteDataSector ==
  /\ area = "data"
  /\ diskData' = [diskData EXCEPT ![slot][sector] =
        IF sector <= Len(contents[slot].data)
          THEN contents[slot].data[sector] ELSE ZeroBlock]
  /\ Advance
  /\ UNCHANGED <<diskTable, diskVol, failed, faults, kernel>>

WriteDataSector ==
  /\ area = "data"
  /\ diskData' = [diskData EXCEPT ![contents[slot].idx][sector] =
        IF sector <= Len(contents[slot].data)
          THEN contents[slot].data[sector] ELSE ZeroBlock]
  /\ Advance
  /\ UNCHANGED <<diskTable, diskVol, failed, faults, kernel>>

(* The sectors whose contents are not modelled. *)
WriteOtherSector ==
  /\ area \in {"curdir", "users"}
  /\ Advance
  /\ UNCHANGED <<disk, failed, faults, kernel>>

(* ata_write_sectors reports an error: the sector keeps what it held. *)
WriteFails ==
  /\ area \in FailingAreas
  /\ faults < MaxFaults
  /\ faults' = faults + 1
  /\ failed' = TRUE
  /\ IF CriticalWrite THEN EndSave ELSE Advance
  /\ UNCHANGED <<disk, kernel>>

SaveStep ==
  WriteVolume \/ WriteTableSector \/ WriteDataSector \/ WriteOtherSector

-----------------------------------------------------------------------------
(* Changes of the tables that several handlers share. *)

(* Faulty variant: off by one. *)
OneTooManyHasRoom == Len(table) <= MaxFiles

HasRoom == Len(table) < MaxFiles

Add(e) == table' = Append(table, e)

(* save_file_content up to its call of fs_save_to_disk, and create_web_file: *)
(* the entry is found or added, gets its size, and only then is a content    *)
(* slot looked for.                                                          *)
(* Faulty variant: the slot of a new entry gets the count from before. *)
StaleCountSlotIndex(n) ==
  IF Named(n) = {} THEN IF table = <<>> THEN 1 ELSE Len(table)
                   ELSE First(Named(n))

SlotIndex(n) == IF Named(n) = {} THEN Len(table) + 1 ELSE First(Named(n))

(* Faulty variant: overwriting a file leaves its recorded size. *)
KeepSizeStoreEntry(n, d) ==
  IF Named(n) = {}
    THEN Add(NewEntry(n, Len(d), FALSE))
    ELSE UNCHANGED table

StoreEntry(n, d) ==
  IF Named(n) = {}
    THEN Add(NewEntry(n, Len(d), FALSE))
    ELSE table' = [table EXCEPT ![First(Named(n))].size = Len(d)]

HasSlot(i) == SlotsOf(i) # {} \/ Len(contents) < MaxContents

StoreBytes(i, d) ==
  IF SlotsOf(i) = {}
    THEN contents' = Append(contents, [idx |-> i, data |-> d])
    ELSE contents' = [contents EXCEPT ![First(SlotsOf(i))].data = d]

SaveFileContent(n, d) ==
  \/ /\ Named(n) = {} /\ ~HasRoom             \* "Disk full"
     /\ UNCHANGED ram /\ NoSave
  \/ /\ Named(n) # {} \/ HasRoom
     /\ StoreEntry(n, d)
     /\ IF HasSlot(SlotIndex(n))
          THEN StoreBytes(SlotIndex(n), d) /\ BeginSave
          ELSE UNCHANGED contents /\ NoSave   \* "Content storage full"

-----------------------------------------------------------------------------
(* Boot: fs_init_commands, with fs_load_from_disk and its helpers. *)

BootStep(stage) ==
  /\ pc = stage /\ Quiet
  /\ terminal' = IF stage = "gui" THEN "unused" ELSE terminal
  /\ UNCHANGED <<disk, op, bounds>>

Goto(stage) == pc' = stage /\ cursor' = 1
NextIteration == cursor' = cursor + 1 /\ UNCHANGED pc

(* Where fs_init_commands starts: all counts are zeroed. *)
Reset ==
  /\ table' = <<>> /\ contents' = <<>>
  /\ Goto("volume")

PowerOn ==
  /\ pc = "off"
  /\ Reset
  /\ op' = "none" /\ terminal' = "none"
  /\ UNCHANGED <<disk, saving, bounds>>

(* Without a volume sector the image counts as unformatted: a new identity  *)
(* is saved before anything is loaded, over whatever the table holds.       *)
LoadVolume ==
  /\ BootStep("volume")
  /\ IF diskVol THEN NoSave ELSE BeginSave
  /\ Goto("entries")
  /\ UNCHANGED ram

EntryPresent == IF cursor <= MaxFiles THEN diskTable[cursor] # NoEntry ELSE FALSE

LoadEntry ==
  /\ BootStep("entries")
  /\ EntryPresent
  /\ Add([diskTable[cursor] EXCEPT !.name = Bare[diskTable[cursor].name]])
  /\ NextIteration
  /\ UNCHANGED contents /\ NoSave

LoadEntriesDone ==
  /\ BootStep("entries")
  /\ ~EntryPresent
  /\ Goto("contents")
  /\ UNCHANGED ram /\ NoSave

LoadContent ==
  /\ BootStep("contents")
  /\ cursor <= Len(table) /\ Len(contents) < MaxContents
  /\ IF table[cursor].size > 0 /\ ~table[cursor].dir
       THEN contents' = Append(contents,
              [idx |-> cursor,
               data |-> [s \in 1..table[cursor].size |-> diskData[cursor][s]]])
       ELSE UNCHANGED contents
  /\ NextIteration
  /\ UNCHANGED table /\ NoSave

LoadContentsDone ==
  /\ BootStep("contents")
  /\ cursor > Len(table) \/ Len(contents) >= MaxContents
  /\ Goto("desktop")
  /\ UNCHANGED ram /\ NoSave

(* fs_ensure_desktop_dir: directories must exist as directories, shortcuts  *)
(* under any type.                                                          *)
EnsureDesktopEntry ==
  /\ BootStep("desktop")
  /\ cursor <= Len(DesktopEntries)
  /\ LET e == DesktopEntries[cursor]
     IN IF (IF e.dir THEN Dirs(e.name) ELSE Named(e.name)) = {} /\ HasRoom
          THEN Add(NewEntry(e.name, 0, e.dir))
          ELSE UNCHANGED table
  /\ NextIteration
  /\ UNCHANGED contents /\ NoSave

EnsureDesktopDone ==
  /\ BootStep("desktop")
  /\ cursor > Len(DesktopEntries)
  /\ BeginSave
  /\ Goto("documents")
  /\ UNCHANGED ram

EnsureDocuments ==
  /\ BootStep("documents")
  /\ IF Dirs(Documents) = {} /\ HasRoom
       THEN Add(NewEntry(Documents, 0, TRUE)) /\ BeginSave
       ELSE UNCHANGED table /\ NoSave
  /\ Goto("pages")
  /\ UNCHANGED contents

(* create_web_file: the page is rewritten on every boot; nothing happens    *)
(* when the table is full, only the size is set when the slots are.         *)
CreateWebFile ==
  /\ BootStep("pages")
  /\ cursor <= Len(WebPages)
  /\ LET n == WebPages[cursor]
     IN IF Named(n) = {} /\ ~HasRoom
          THEN UNCHANGED ram
          ELSE /\ StoreEntry(n, DefaultData)
               /\ IF HasSlot(SlotIndex(n))
                    THEN StoreBytes(SlotIndex(n), DefaultData)
                    ELSE UNCHANGED contents
  /\ NextIteration
  /\ NoSave

CreateWebFilesDone ==
  /\ BootStep("pages")
  /\ cursor > Len(WebPages)
  /\ BeginSave
  /\ Goto("dirs")
  /\ UNCHANGED ram

EnsureDir ==
  /\ BootStep("dirs")
  /\ cursor <= Len(ExtraDirs)
  /\ IF Named(ExtraDirs[cursor]) = {} /\ HasRoom
       THEN Add(NewEntry(ExtraDirs[cursor], 0, TRUE))
       ELSE UNCHANGED table
  /\ NextIteration
  /\ UNCHANGED contents /\ NoSave

EnsureDirsDone ==
  /\ BootStep("dirs")
  /\ cursor > Len(ExtraDirs)
  /\ Goto("seeds")
  /\ UNCHANGED ram /\ NoSave

SeedFile ==
  /\ BootStep("seeds")
  /\ cursor <= Len(Seeds)
  /\ IF LoadFileContent(Seeds[cursor]) \in {Missing, <<>>}
       THEN SaveFileContent(Seeds[cursor], DefaultData)
       ELSE UNCHANGED ram /\ NoSave
  /\ NextIteration

SeedFilesDone ==
  /\ BootStep("seeds")
  /\ cursor > Len(Seeds)
  /\ Goto("home")
  /\ UNCHANGED ram /\ NoSave

(* The home directory is looked up and added with a trailing slash, which   *)
(* fs_load_from_disk strips.  FORMAT ends with one more save; at power-on   *)
(* the kernel continues in the shell or in the desktop.                     *)
EnterHome ==
  /\ BootStep("home")
  /\ IF /\ LoadFileContent(UserProfile) \notin {Missing, <<>>}
        /\ Named(HomeDir) = {} /\ HasRoom
       THEN Add(NewEntry(HomeDir, 0, TRUE))
       ELSE UNCHANGED table
  /\ IF op = "format" THEN BeginSave ELSE NoSave
  /\ cursor' = 1
  /\ pc' = "idle" \/ (op = "none" /\ pc' = "gui")
  /\ UNCHANGED contents

(* desktop_main drops the whole table when it has more than 128 entries.    *)
StartDesktop ==
  /\ BootStep("gui")
  /\ table' = IF Len(table) > DesktopCap THEN <<>> ELSE table
  /\ Goto("idle")
  /\ UNCHANGED contents /\ NoSave

Boot ==
  \/ PowerOn \/ LoadVolume
  \/ LoadEntry \/ LoadEntriesDone \/ LoadContent \/ LoadContentsDone
  \/ EnsureDesktopEntry \/ EnsureDesktopDone \/ EnsureDocuments
  \/ CreateWebFile \/ CreateWebFilesDone \/ EnsureDir \/ EnsureDirsDone
  \/ SeedFile \/ SeedFilesDone \/ EnterHome \/ StartDesktop

-----------------------------------------------------------------------------
(* Commands.  One is accepted when the kernel waits for input; a command    *)
(* that would only print an error and change nothing has no step.           *)

Accept(c) ==
  /\ pc = "idle" /\ Quiet
  /\ ops < MaxOps /\ ops' = ops + 1
  /\ op' = c
  /\ UNCHANGED <<disk, terminal, crashes, faults>>

Stay == UNCHANGED <<pc, cursor>>

(* save_file_content, as Notepad, Settings, WGET and the installer call it. *)
SaveFile(n, d) ==
  /\ Accept("save") /\ Stay
  /\ SaveFileContent(n, d)

(* NANO up to the moment the editor is left with some text: the entry added *)
(* for a new file is taken back when there is no content slot for it.       *)
Nano(n, d) ==
  /\ Accept("nano") /\ Stay
  /\ LET i == IF Files(n) = {} THEN Len(table) + 1 ELSE First(Files(n))
     IN /\ i <= MaxFiles /\ HasSlot(i)
        /\ IF Files(n) = {}
             THEN Add(NewEntry(n, Len(d), FALSE))
             ELSE table' = [table EXCEPT ![i].size = Len(d)]
        /\ StoreBytes(i, d)
  /\ BeginSave

(* TOUCH, MKDIR and fs_mkdir_abs. *)
Create(c, n, dir) ==
  /\ Accept(c) /\ Stay
  /\ Named(n) = {} /\ HasRoom
  /\ Add(NewEntry(n, 0, dir))
  /\ BeginSave
  /\ UNCHANGED contents

(* CD, LABEL, CHMOD, UNHIDE, USERADD...: the tables modelled here stay as   *)
(* they are and the whole image is saved.                                   *)
Sync ==
  /\ Accept("sync") /\ Stay
  /\ BeginSave
  /\ UNCHANGED ram

(* COPY never looks whether the destination exists. *)
Copy(n, m) ==
  /\ Accept("copy") /\ Stay
  /\ Files(n) # {} /\ HasRoom
  /\ LET i == First(Files(n))
     IN /\ Add(NewEntry(m, table[i].size, FALSE))
        /\ contents' = IF SlotsOf(i) # {} /\ Len(contents) < MaxContents
             THEN Append(contents, [idx |-> Len(table) + 1,
                                    data |-> contents[First(SlotsOf(i))].data])
             ELSE contents
  /\ BeginSave

(* MOVE and REN never look whether the destination exists either. *)
Move(n, m) ==
  /\ Accept("move") /\ Stay
  /\ Named(n) # {}
  /\ table' = [table EXCEPT ![First(Named(n))].name = m]
  /\ BeginSave
  /\ UNCHANGED contents

(* DEL and RMDIR close the gap in the table and leave the contents alone. *)
Remove(c, candidates) ==
  /\ Accept(c) /\ Stay
  /\ candidates # {}
  /\ table' = Shifted(table, First(candidates))
  /\ BeginSave
  /\ UNCHANGED contents

Del(n) == Remove("del", Files(n))
Rmdir(n) == Remove("rmdir", Dirs(n))

Orphan(k) == contents[k].idx > Len(table)

(* CHKDSK /F drops the content slots of indices past the table. *)
Chkdsk ==
  /\ Accept("chkdsk")
  /\ \E k \in 1..Len(contents) : Orphan(k)
  /\ Goto("chkdsk")
  /\ UNCHANGED ram /\ NoSave

(* Faulty variant: the element that moved into the gap is not looked at. *)
SkippingChkdskSlot ==
  /\ BootStep("chkdsk")
  /\ cursor <= Len(contents)
  /\ contents' = IF Orphan(cursor) THEN Shifted(contents, cursor) ELSE contents
  /\ cursor' = cursor + 1
  /\ UNCHANGED <<table, pc>> /\ NoSave

(* Faulty variant: the slot is overwritten by the next ones, the count stays. *)
NoShrinkChkdskSlot ==
  /\ BootStep("chkdsk")
  /\ cursor <= Len(contents)
  /\ IF Orphan(cursor)
       THEN UNCHANGED <<contents, cursor>>
       ELSE cursor' = cursor + 1 /\ UNCHANGED contents
  /\ UNCHANGED <<table, pc>> /\ NoSave

ChkdskSlot ==
  /\ BootStep("chkdsk")
  /\ cursor <= Len(contents)
  /\ IF Orphan(cursor)
       THEN contents' = Shifted(contents, cursor) /\ UNCHANGED cursor
       ELSE cursor' = cursor + 1 /\ UNCHANGED contents
  /\ UNCHANGED <<table, pc>> /\ NoSave

ChkdskDone ==
  /\ BootStep("chkdsk")
  /\ cursor > Len(contents)
  /\ BeginSave
  /\ Goto("idle")
  /\ UNCHANGED ram

(* FORMAT CONFIRM zeroes the counts, initialises as a boot does and saves. *)
Format ==
  /\ Accept("format")
  /\ Reset
  /\ NoSave

(* The first terminal window of a desktop session initialises once more. *)
OpenTerminal ==
  /\ terminal = "unused" /\ terminal' = "used"
  /\ pc = "idle" /\ Quiet
  /\ op' = "reinit"
  /\ Reset
  /\ NoSave
  /\ UNCHANGED <<disk, bounds>>

(* The machine waits for a key. *)
Wait ==
  /\ pc = "idle" /\ Quiet /\ ops = MaxOps
  /\ UNCHANGED vars

PowerFail ==
  /\ pc # "off"
  /\ crashes < MaxCrashes /\ crashes' = crashes + 1
  /\ pc' = "off" /\ cursor' = 1
  /\ table' = <<>> /\ contents' = <<>>
  /\ EndSave /\ failed' = FALSE
  /\ UNCHANGED <<disk, terminal, op, ops, faults>>

(* The commands after which every entry that was there is still there. *)
KeepingCommand ==
  \/ \E n \in FileName, d \in Payload : SaveFile(n, d) \/ Nano(n, d)
  \/ \E n \in FileName : Create("touch", n, FALSE)
  \/ \E n \in DirName : Create("mkdir", n, TRUE)
  \/ \E n, m \in FileName : Copy(n, m) \/ Move(n, m)
  \/ Sync
  \/ OpenTerminal

RemovingCommand ==
  \/ \E n \in FileName : Del(n)
  \/ \E n \in DirName : Rmdir(n)
  \/ Chkdsk
  \/ Format

Kernel == SaveStep \/ Boot \/ ChkdskSlot \/ ChkdskDone

Init ==
  /\ table = <<>> /\ contents = <<>>
  /\ diskTable = [i \in 1..MaxFiles |-> NoEntry]
  /\ diskData = [i \in 1..MaxFiles |-> [s \in 1..MaxBlocks |-> ZeroBlock]]
  /\ diskVol = FALSE
  /\ area = "none" /\ slot = 1 /\ sector = 1 /\ failed = FALSE
  /\ pc = "off" /\ cursor = 1
  /\ op = "none" /\ terminal = "none"
  /\ ops = 0 /\ crashes = 0 /\ faults = 0

NextKeeping == Kernel \/ WriteFails \/ KeepingCommand \/ PowerFail \/ Wait
Next == NextKeeping \/ RemovingCommand

(* The kernel is one loop that nothing blocks: what it has started goes on. *)
Fairness == WF_vars(Kernel)

SpecKeeping == Init /\ [][NextKeeping]_vars /\ Fairness
Spec == Init /\ [][Next]_vars /\ Fairness
-----------------------------------------------------------------------------
(* What the tables in memory and the sectors on disk say of a path: what    *)
(* its first entry says.  Both views identify a path with and without its   *)
(* trailing slash.                                                          *)

Entries(n) == {i \in 1..Len(table) : Bare[table[i].name] = n}

EntryView(i) ==
  IF SlotsOf(i) # {} THEN contents[First(SlotsOf(i))].data
  ELSE IF table[i].size = 0 THEN <<>> ELSE Missing

View(n) == IF Entries(n) = {} THEN Missing ELSE EntryView(First(Entries(n)))

(* The entries a boot reads: those before the first empty sector. *)
Loaded == {i \in 1..MaxFiles : \A j \in 1..i : diskTable[j] # NoEntry}

DiskEntries(n) == {i \in Loaded : Bare[diskTable[i].name] = n}

DiskEntryView(i) ==
  IF diskTable[i].size = 0 THEN <<>>
  ELSE IF diskTable[i].dir THEN Missing
  ELSE [s \in 1..diskTable[i].size |-> diskData[i][s]]

DiskView(n) ==
  IF DiskEntries(n) = {} THEN Missing ELSE DiskEntryView(First(DiskEntries(n)))

(* The sectors of entry i on the disk say what memory says. *)
Written(i) ==
  /\ i <= Len(table) /\ diskTable[i] # NoEntry
  /\ Bare[diskTable[i].name] = Bare[table[i].name]
  /\ DiskEntryView(i) = EntryView(i)

(* The paths of which an entry, in memory or on the disk, is not written. *)
Dirty == {n \in Name : \E i \in Entries(n) \cup DiskEntries(n) : ~Written(i)}

Up == pc \notin {"off", "volume", "entries", "contents"}

Store == INSTANCE CrashStore WITH
  Value <- Bytes \cup {Missing},
  volatile <- [n \in Name |-> IF Up THEN View(n) ELSE Missing],
  durable <- [n \in Name |-> DiskView(n)],
  dirty <- IF Up THEN Dirty ELSE {},
  up <- Up

-----------------------------------------------------------------------------
(* Properties. *)

(* While nothing is removed, every boot reads back what is on the disk, and *)
(* no sector of a save, interrupted or not, disturbs a path whose entries   *)
(* were saved and not changed since: fs_save_to_disk, fs_load_from_disk and *)
(* all the commands and boot steps between them implement CrashStore.       *)
IsolatesFiles == Store!Spec

(* A save that met no error leaves on disk exactly what is in memory:       *)
(* no entry is left unwritten, and after a boot every path reads as it did  *)
(* before (fs_save_to_disk).                                                *)
SaveIsComplete ==
  [][(area # "none" /\ area' = "none" /\ ~failed' /\ pc' # "off")
       => Dirty' = {} /\ \A n \in Name : DiskView(n)' = View(n)']_vars

(* The index that ties file_contents to fs_table: no two slots claim the    *)
(* same entry, every slot belongs to an entry, a file whose size is not     *)
(* zero has its slot, and the sizes agree.                                  *)
ContentsMatchTable ==
  /\ \A k, l \in 1..Len(contents) : contents[k].idx = contents[l].idx => k = l
  /\ \A k \in 1..Len(contents) :
        /\ contents[k].idx <= Len(table)
        /\ ~table[contents[k].idx].dir
        /\ Len(contents[k].data) = table[contents[k].idx].size
  /\ Up => \A i \in 1..Len(table) :
              table[i].size > 0 /\ ~table[i].dir => SlotsOf(i) # {}

(* An image that holds entries has its volume sector, or the next boot      *)
(* would take it for unformatted and save an empty table over it            *)
(* (fs_load_from_disk).  It rests on the order of the writes of a save and  *)
(* on no failure of the volume write, which fs_save_to_disk ignores.        *)
VolumeBeforeEntries ==
  (\E i \in 1..MaxFiles : diskTable[i] # NoEntry) => diskVol

(* When a save that met no error ends, the table sectors hold the table and *)
(* nothing of an earlier, longer one.                                       *)
TableSectorsCurrent ==
  [][(area # "none" /\ area' = "none" /\ ~failed' /\ pc' # "off")
       => \A i \in 1..MaxFiles :
            diskTable'[i] = IF i <= Len(table) THEN table[i] ELSE NoEntry]_vars

(* CHKDSK /F leaves no content slot without an entry, however many of the   *)
(* slots were orphans and wherever they stood (the shift in its loop).      *)
ChkdskLeavesNoOrphan ==
  (op = "chkdsk" /\ pc = "idle") => \A k \in 1..Len(contents) : ~Orphan(k)

(* Whatever fails or stops on the way, the kernel comes back to its prompt  *)
(* with no save in progress: every loop of the boot and of a save ends.     *)
ReturnsToPrompt == []<>(pc = "idle" /\ Quiet)

(* "RM <file> - Delete file" (README.md): deleting one file changes what is *)
(* read for that path only.  The code does not keep this: cmd_del moves the *)
(* later entries down one index and leaves every content slot where it was. *)
DeletesOnlyTheFile ==
  [][\A n \in FileName : Del(n) =>
        \A m \in Name \ {n} : View(m)' = View(m)]_vars

(* "This will erase all data!" (cmd_format): after FORMAT no file of the    *)
(* user is left.  The code does not keep this: the initialisation that      *)
(* FORMAT runs loads the old image back.                                    *)
FormatErases ==
  (op = "format" /\ pc = "idle" /\ Quiet) =>
     \A n \in FileName : View(n) = Missing

(* "Ensure home directory exists" (fs_init_commands): the boot adds the     *)
(* home directory when it is not there.  The code does not keep this: it    *)
(* looks for the path with a trailing slash, which "STRIP trailing slash    *)
(* for consistency" in fs_load_from_disk has removed, so that every boot    *)
(* whose table is saved adds one more entry.                                *)
OneHomeEntry ==
  \A i, j \in 1..Len(table) :
     (Bare[table[i].name] = Bare[HomeDir] /\ Bare[table[j].name] = Bare[HomeDir])
        => i = j
===========================================================================
