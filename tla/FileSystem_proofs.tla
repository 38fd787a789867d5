------------------------- MODULE FileSystem_proofs -------------------------
(***************************************************************************)
(* Theorems about FileSystem, for all numbers of files, content slots and  *)
(* sectors, all paths and all default entries.                             *)
(*                                                                         *)
(* The inductive invariant IInv adds to the type invariant what the boot   *)
(* loops rely on (LoadShape).  The order of the writes of a save is that   *)
(* of two more invariants, VolumeOrder and TableProgress.                  *)
(***************************************************************************)
EXTENDS FileSystem, WellFoundedInduction, SequenceTheorems, TLAPS

-----------------------------------------------------------------------------
(* Facts about the operators of the module. *)

(* The scan of a table from index 0 finds an element when there is one. *)
LEMMA FirstIn ==
  ASSUME NEW S \in SUBSET Nat, S # {}
  PROVE  First(S) \in S
<1> DEFINE Less == {p \in Nat \X Nat : p[1] < p[2]}
<1>1. OpToRel(<, Nat) = Less
  BY DEF OpToRel
<1>2. IsWellFoundedOn(Less, Nat)
  BY <1>1, NatLessThanWellFounded, Zenon
<1>3. \E x \in S : \A y \in S : ~ (<<y, x>> \in Less)
  <2> HIDE DEF Less
  <2> QED BY <1>2, WFMin
<1>4. \E x \in S : \A y \in S : x <= y
  <2>1. PICK x \in S : \A y \in S : ~ (<<y, x>> \in Less)
    BY <1>3
  <2>2. \A y \in S : ~ (y < x)
    BY <2>1
  <2>3. \A y \in S : x <= y
    BY <2>2
  <2>4. QED
    BY <2>3
<1>5. QED
  BY <1>4 DEF First

LEMMA BytesAreSequences ==
  ASSUME NEW d \in Bytes
  PROVE  d \in Seq(Block) /\ Len(d) \in 0..MaxBlocks
<1>1. PICK k \in 0..MaxBlocks : d \in [1..k -> Block]
  BY DEF Bytes
<1>2. k \in Nat
  BY SizesAssumption
<1>3. d \in Seq(Block) /\ Len(d) = k
  BY <1>1, <1>2
<1>4. QED
  BY <1>3

(* Closing the gap keeps the elements and drops one. *)
LEMMA ShiftedType ==
  ASSUME NEW S, NEW s \in Seq(S), NEW i \in 1..Len(s)
  PROVE  Shifted(s, i) \in Seq(S) /\ Len(Shifted(s, i)) = Len(s) - 1
BY DEF Shifted

-----------------------------------------------------------------------------
(* The parts of the type invariant, and the strengthening. *)

TableOK == table \in Seq(Entry) /\ Len(table) <= MaxFiles
ContentsOK == contents \in Seq(Content) /\ Len(contents) <= MaxContents
TablesOK == TableOK /\ ContentsOK

PositionOK ==
  /\ area \in Area
  /\ slot \in Nat \ {0} /\ sector \in Nat \ {0}
  /\ area = "table" => slot <= MaxFiles
  /\ area = "data" => slot <= Len(contents) /\ sector <= MaxBlocks

DiskOK ==
  /\ diskTable \in [1..MaxFiles -> Entry \cup {NoEntry}]
  /\ diskData \in [1..MaxFiles -> [1..MaxBlocks -> Block]]

FlagsOK == failed \in BOOLEAN /\ diskVol \in BOOLEAN

ControlOK ==
  /\ pc \in Stage
  /\ cursor \in Nat \ {0}
  /\ op \in Command \cup {"none"}
  /\ terminal \in {"none", "unused", "used"}
  /\ ops \in Nat /\ crashes \in Nat /\ faults \in Nat

LEMMA TypeParts ==
  /\ TypeOK <=> TablesOK /\ PositionOK /\ DiskOK /\ FlagsOK /\ ControlOK
  /\ TypeOK' <=>
       TablesOK' /\ PositionOK' /\ DiskOK' /\ FlagsOK' /\ ControlOK'
BY DEF TypeOK, TablesOK, TableOK, ContentsOK, PositionOK, DiskOK, FlagsOK,
       ControlOK

(* Nothing is in memory, and no save runs, before a boot starts to load,    *)
(* and the loop over the table sectors has added one entry for each sector. *)
LoadShape ==
  /\ pc \in {"off", "volume"} =>
        table = <<>> /\ contents = <<>> /\ area = "none"
  /\ pc = "entries" => Len(table) = cursor - 1 /\ contents = <<>>

(* What every step but a sector write does with the position of the save. *)
Settles == BeginSave \/ (Quiet /\ NoSave)

LEMMA SettlesOK ==
  ASSUME PositionOK, Settles
  PROVE  PositionOK'
<1>1. CASE BeginSave
  BY <1>1 DEF BeginSave, PositionOK, Area
<1>2. CASE Quiet /\ NoSave
  BY <1>2 DEF NoSave, Quiet, saving, PositionOK, Area
<1>3. QED
  BY <1>1, <1>2 DEF Settles

LEMMA AdvanceOK ==
  ASSUME PositionOK, Advance, contents \in Seq(Content), contents' = contents
  PROVE  PositionOK'
<1> USE SizesAssumption DEF PositionOK, Area
<1>1. CASE area \in {"curdir", "volume"}
  BY <1>1 DEF Advance
<1>2. CASE area = "table"
  BY <1>2 DEF Advance
<1>3. CASE area = "users"
  <2>1. CASE contents = <<>>
    BY <1>3, <2>1 DEF Advance, EndSave
  <2>2. CASE contents # <<>>
    <3>1. Len(contents) \in Nat \ {0}
      BY <2>2, EmptySeq
    <3>2. QED
      BY <1>3, <2>2, <3>1 DEF Advance
  <2>3. QED
    BY <2>1, <2>2
<1>4. CASE area = "data"
  <2>1. Len(contents) \in Nat
    BY LenProperties
  <2>2. QED
    BY <1>4, <2>1 DEF Advance, EndSave
<1>5. CASE area = "none"
  BY <1>5 DEF Advance, EndSave
<1>6. QED
  BY <1>1, <1>2, <1>3, <1>4, <1>5

(* The table sectors and the content sectors are written inside the image. *)
LEMMA SaveStepOK ==
  ASSUME TypeOK, SaveStep
  PROVE  TypeOK'
<1> USE TypeParts
<1>0. contents \in Seq(Content)
  BY DEF TablesOK, ContentsOK
<1>a. TablesOK'
  BY DEF SaveStep, WriteVolume, WriteTableSector, WriteDataSector,
         WriteOtherSector, kernel, TablesOK, TableOK, ContentsOK
<1>b. PositionOK'
  BY <1>0, AdvanceOK
     DEF SaveStep, WriteVolume, WriteTableSector, WriteDataSector,
         WriteOtherSector, kernel
<1>c. FlagsOK'
  BY Zenon
     DEF SaveStep, WriteVolume, WriteTableSector, WriteDataSector,
         WriteOtherSector, disk, FlagsOK
<1>d. ControlOK'
  BY DEF SaveStep, WriteVolume, WriteTableSector, WriteDataSector,
         WriteOtherSector, kernel, ControlOK
<1>e. DiskOK'
  <2>1. CASE WriteVolume \/ WriteOtherSector
    BY <2>1 DEF WriteVolume, WriteOtherSector, disk, DiskOK
  <2>2. CASE WriteTableSector
    <3>1. slot \in 1..MaxFiles
      BY <2>2, SizesAssumption DEF WriteTableSector, PositionOK
    <3>2. (IF slot <= Len(table) THEN table[slot] ELSE NoEntry)
             \in Entry \cup {NoEntry}
      BY <3>1 DEF TablesOK, TableOK
    <3>3. QED
      BY <2>2, <3>1, <3>2 DEF WriteTableSector, DiskOK
  <2>3. CASE WriteDataSector
    <3> DEFINE d == contents[slot].data
               b == IF sector <= Len(d) THEN d[sector] ELSE ZeroBlock
    <3>1. contents[slot] \in Content
      BY <1>0, <2>3 DEF WriteDataSector, PositionOK
    <3>2. contents[slot].idx \in 1..MaxFiles /\ d \in Bytes
      BY <3>1 DEF Content
    <3>3. sector \in 1..MaxBlocks
      BY <2>3, SizesAssumption DEF WriteDataSector, PositionOK
    <3>4. d \in Seq(Block) /\ Len(d) \in Nat
      BY <3>2, BytesAreSequences
    <3>5. b \in Block
      BY <3>3, <3>4, DataAssumption, SizesAssumption
    <3>6. diskData' = [diskData EXCEPT ![contents[slot].idx][sector] = b]
          /\ diskTable' = diskTable
      BY <2>3 DEF WriteDataSector
    <3>7. QED
      BY <3>2, <3>3, <3>5, <3>6 DEF DiskOK
  <2>4. QED
    BY <2>1, <2>2, <2>3 DEF SaveStep
<1>2. QED
  BY <1>a, <1>b, <1>c, <1>d, <1>e

LEMMA WriteFailsOK ==
  ASSUME TypeOK, WriteFails
  PROVE  TypeOK'
<1> USE TypeParts
<1>1. contents \in Seq(Content) /\ contents' = contents
  BY DEF TablesOK, ContentsOK, WriteFails, kernel
<1>2. PositionOK'
  <2>1. CASE EndSave
    BY <1>1, <2>1 DEF EndSave, PositionOK, Area
  <2>2. CASE Advance
    BY <1>1, <2>2, AdvanceOK
  <2>3. QED
    BY <2>1, <2>2 DEF WriteFails
<1>3. FlagsOK'
  BY Zenon DEF WriteFails, disk, FlagsOK
<1>4. ControlOK'
  BY SizesAssumption DEF WriteFails, kernel, ControlOK
<1>5. QED
  BY <1>2, <1>3, <1>4 DEF WriteFails, kernel, disk, TablesOK, TableOK, ContentsOK,
     DiskOK

-----------------------------------------------------------------------------
(* Every other step leaves the disk alone and either starts a save, or runs *)
(* while none is in progress, or cuts the power.                            *)

Calm ==
  /\ UNCHANGED disk
  /\ Settles \/ (EndSave /\ failed' = FALSE /\ pc' = "off")

LEMMA CalmOK ==
  ASSUME TypeOK, Calm, TableOK', ContentsOK', ControlOK'
  PROVE  TypeOK'
<1> USE TypeParts
<1>1. PositionOK'
  <2>1. CASE EndSave
    BY <2>1 DEF EndSave, PositionOK, Area
  <2>2. QED
    BY <2>1, SettlesOK DEF Calm
<1>2. FlagsOK'
  BY Zenon DEF Calm, Settles, BeginSave, NoSave, saving, disk, FlagsOK
<1>3. DiskOK'
  BY DEF Calm, disk, DiskOK
<1>4. QED
  BY <1>1, <1>2, <1>3 DEF TablesOK

LEMMA ScanOK ==
  ASSUME NEW k \in Nat, NEW S \in SUBSET (1..k), S # {}
  PROVE  First(S) \in 1..k
<1>1. S \in SUBSET Nat
  OBVIOUS
<1>2. First(S) \in S
  BY <1>1, FirstIn
<1>3. QED
  BY <1>2

(* What a lookup by name, whatever type it wants, or by index returns. *)
LEMMA EntriesFound ==
  ASSUME TableOK, NEW n
  PROVE  /\ Named(n) # {} => First(Named(n)) \in 1..Len(table)
         /\ Files(n) # {} => First(Files(n)) \in 1..Len(table)
         /\ Dirs(n) # {} => First(Dirs(n)) \in 1..Len(table)
<1>1. Len(table) \in Nat
  BY DEF TableOK
<1>2. /\ Named(n) \in SUBSET (1..Len(table))
      /\ Files(n) \in SUBSET (1..Len(table))
      /\ Dirs(n) \in SUBSET (1..Len(table))
  BY DEF Named, Files, Dirs
<1>3. QED
  BY <1>1, <1>2, ScanOK

LEMMA SlotsFound ==
  ASSUME ContentsOK, NEW i, SlotsOf(i) # {}
  PROVE  First(SlotsOf(i)) \in 1..Len(contents)
<1>1. Len(contents) \in Nat
  BY DEF ContentsOK
<1>2. SlotsOf(i) \in SUBSET (1..Len(contents))
  BY DEF SlotsOf
<1>3. QED
  BY <1>1, <1>2, ScanOK

LEMMA NewEntryOK ==
  ASSUME NEW n \in Name, NEW k \in 0..MaxBlocks, NEW dir \in BOOLEAN
  PROVE  NewEntry(n, k, dir) \in Entry
BY Zenon DEF NewEntry, Entry

LEMMA AddOK ==
  ASSUME TableOK, HasRoom, NEW e \in Entry, Add(e)
  PROVE  TableOK' /\ Len(table') = Len(table) + 1
<1>1. table' = Append(table, e) /\ table \in Seq(Entry) /\ Len(table) < MaxFiles
  BY DEF Add, TableOK, HasRoom
<1>2. table' \in Seq(Entry) /\ Len(table') = Len(table) + 1
  BY <1>1, AppendProperties
<1>3. QED
  BY <1>1, <1>2, SizesAssumption DEF TableOK

(* save_file_content finds an entry of the table or adds one behind it. *)
LEMMA StoreEntryOK ==
  ASSUME TableOK, NEW n \in Name, NEW d \in Bytes,
         Named(n) # {} \/ HasRoom, StoreEntry(n, d)
  PROVE  TableOK' /\ SlotIndex(n) \in 1..MaxFiles
<1>1. Len(d) \in 0..MaxBlocks
  BY BytesAreSequences
<1>2. CASE Named(n) = {}
  <2>1. NewEntry(n, Len(d), FALSE) \in Entry
    BY <1>1, NewEntryOK
  <2>2. TableOK'
    BY <1>2, <2>1, AddOK DEF StoreEntry
  <2>3. SlotIndex(n) \in 1..MaxFiles
    BY <1>2, SizesAssumption DEF SlotIndex, HasRoom, TableOK
  <2>4. QED
    BY <2>2, <2>3
<1>3. CASE Named(n) # {}
  <2> DEFINE i == First(Named(n))
  <2>1. i \in 1..Len(table)
    BY <1>3, EntriesFound
  <2>2. table' = [table EXCEPT ![i].size = Len(d)]
    BY <1>3 DEF StoreEntry
  <2>3. table[i] \in Entry
    BY <2>1 DEF TableOK
  <2> HIDE DEF i
  <2>4. [table[i] EXCEPT !.size = Len(d)] \in Entry
    BY <1>1, <2>3 DEF Entry
  <2>5. TableOK'
    <3>1. table' = [table EXCEPT ![i] = [table[i] EXCEPT !.size = Len(d)]]
      BY <2>2
    <3>2. table' \in Seq(Entry) /\ Len(table') = Len(table)
      BY <2>1, <2>4, <3>1, ExceptSeq DEF TableOK
    <3>3. QED
      BY <3>2 DEF TableOK
  <2>6. SlotIndex(n) \in 1..MaxFiles
    BY <1>3, <2>1, SizesAssumption DEF SlotIndex, TableOK, i
  <2>7. QED
    BY <2>5, <2>6
<1>4. QED
  BY <1>2, <1>3

LEMMA StoreBytesOK ==
  ASSUME ContentsOK, NEW i \in 1..MaxFiles, NEW d \in Bytes,
         HasSlot(i), StoreBytes(i, d)
  PROVE  ContentsOK'
<1>1. CASE SlotsOf(i) = {}
  <2>1. [idx |-> i, data |-> d] \in Content
    BY Zenon DEF Content
  <2>2. QED
    <3>1. contents \in Seq(Content) /\ Len(contents) < MaxContents
      BY <1>1 DEF HasSlot, ContentsOK
    <3>2. contents' = Append(contents, [idx |-> i, data |-> d])
      BY <1>1 DEF StoreBytes
    <3>3. contents' \in Seq(Content) /\ Len(contents') = Len(contents) + 1
      BY <2>1, <3>1, <3>2, AppendProperties
    <3>4. QED
      BY <3>1, <3>3, SizesAssumption DEF ContentsOK
<1>2. CASE SlotsOf(i) # {}
  <2> DEFINE k == First(SlotsOf(i))
  <2>1. k \in 1..Len(contents)
    BY <1>2, SlotsFound
  <2>2. contents' = [contents EXCEPT ![k].data = d]
    BY <1>2 DEF StoreBytes
  <2>3. contents[k] \in Content
    BY <2>1 DEF ContentsOK
  <2> HIDE DEF k
  <2>4. [contents[k] EXCEPT !.data = d] \in Content
    BY <2>3 DEF Content
  <2>5. contents' = [contents EXCEPT ![k] = [contents[k] EXCEPT !.data = d]]
    BY <2>2
  <2>6. contents' \in Seq(Content) /\ Len(contents') = Len(contents)
    BY <2>1, <2>4, <2>5, ExceptSeq DEF ContentsOK
  <2>7. QED
    BY <2>6 DEF ContentsOK
<1>3. QED
  BY <1>1, <1>2

LEMMA SaveFileContentOK ==
  ASSUME TablesOK, Quiet, NEW n \in Name, NEW d \in Bytes,
         SaveFileContent(n, d)
  PROVE  TablesOK' /\ Settles
<1>1. CASE UNCHANGED ram /\ NoSave
  BY <1>1 DEF ram, TablesOK, TableOK, ContentsOK, Settles
<1>2. CASE Named(n) # {} \/ HasRoom
  <2>1. CASE StoreEntry(n, d)
    <3>1. TableOK' /\ SlotIndex(n) \in 1..MaxFiles
      BY <1>2, <2>1, StoreEntryOK DEF TablesOK
    <3>2. CASE StoreBytes(SlotIndex(n), d) /\ HasSlot(SlotIndex(n)) /\ BeginSave
      BY <3>1, <3>2, StoreBytesOK DEF TablesOK, Settles
    <3>3. CASE UNCHANGED contents /\ NoSave
      BY <3>1, <3>3 DEF TablesOK, ContentsOK, Settles
    <3>4. QED
      BY <2>1, <3>2, <3>3, <1>1, Zenon DEF SaveFileContent
  <2>2. QED
    BY <1>1, <2>1, Zenon DEF SaveFileContent
<1>3. QED
  BY <1>1, <1>2, Zenon DEF SaveFileContent

-----------------------------------------------------------------------------
(* The steps of a boot, one after another. *)

(* What a step of the boot or of a command has to show. *)
Kept == TableOK' /\ ContentsOK' /\ ControlOK' /\ LoadShape' /\ Calm

(* A loop of the boot goes on, or the next one starts; saves start here, or *)
(* none is in progress before and after.                                    *)
Proceeds ==
  /\ pc \in Stage /\ Quiet
  /\ UNCHANGED <<disk, op, bounds>>
  /\ terminal' \in {"none", "unused", "used"}
  /\ pc' \in Stage \ {"off", "volume", "entries"}
  /\ cursor' \in Nat \ {0}
  /\ BeginSave \/ NoSave

LEMMA ProceedsOK ==
  ASSUME ControlOK, Proceeds, TableOK', ContentsOK'
  PROVE  Kept
<1>1. ControlOK'
  BY DEF Proceeds, ControlOK, bounds
<1>2. LoadShape'
  BY DEF Proceeds, LoadShape
<1>3. Calm
  BY DEF Proceeds, Calm, Settles
<1>4. QED
  BY <1>1, <1>2, <1>3 DEF Kept

LEMMA UnchangedTables ==
  ASSUME TablesOK, UNCHANGED ram
  PROVE  TableOK' /\ ContentsOK'
BY DEF TablesOK, TableOK, ContentsOK, ram

LEMMA StartOfBootOK ==
  ASSUME TypeOK, LoadShape, PowerOn \/ LoadVolume
  PROVE  Kept
<1> USE TypeParts
<1>1. CASE PowerOn
  <2>1. TableOK' /\ ContentsOK'
    BY <1>1, SizesAssumption DEF PowerOn, Reset, TableOK, ContentsOK
  <2>2. ControlOK'
    BY <1>1 DEF PowerOn, Reset, Goto, bounds, ControlOK, Stage, BootStage
  <2>3. LoadShape'
    BY <1>1 DEF PowerOn, Reset, Goto, saving, LoadShape
  <2>4. Calm
    BY <1>1 DEF PowerOn, LoadShape, Calm, Settles, Quiet, NoSave
  <2>5. QED
    BY <2>1, <2>2, <2>3, <2>4 DEF Kept
<1>2. CASE LoadVolume
  <2>1. TableOK' /\ ContentsOK'
    BY <1>2, UnchangedTables DEF LoadVolume
  <2>2. ControlOK'
    BY <1>2 DEF LoadVolume, BootStep, Goto, bounds, ControlOK, Stage, BootStage
  <2>3. LoadShape'
    BY <1>2 DEF LoadVolume, BootStep, Goto, LoadShape, ram
  <2>4. Calm
    BY <1>2 DEF LoadVolume, BootStep, Calm, Settles
  <2>5. QED
    BY <2>1, <2>2, <2>3, <2>4 DEF Kept
<1>3. QED
  BY <1>1, <1>2

LEMMA LoadEntryOK ==
  ASSUME TypeOK, LoadShape, LoadEntry
  PROVE  Kept
<1> USE TypeParts
<1> DEFINE e == [diskTable[cursor] EXCEPT !.name = Bare[diskTable[cursor].name]]
<1>1. cursor \in 1..MaxFiles /\ diskTable[cursor] # NoEntry
  BY SizesAssumption DEF LoadEntry, EntryPresent, ControlOK
<1>2. diskTable[cursor] \in Entry
  BY <1>1 DEF DiskOK
<1>3. e \in Entry
  BY <1>2, NamesAssumption DEF Entry
<1>4. Len(table) = cursor - 1 /\ contents = <<>>
  BY DEF LoadEntry, BootStep, LoadShape
<1>5. HasRoom
  BY <1>1, <1>4, SizesAssumption DEF HasRoom
<1>6. TableOK' /\ Len(table') = Len(table) + 1
  <2> HIDE DEF e
  <2>1. Add(e)
    BY DEF LoadEntry, e
  <2>2. QED
    BY <2>1, <1>3, <1>5, AddOK DEF TablesOK
<1>7. ContentsOK'
  BY DEF LoadEntry, TablesOK, ContentsOK
<1>8. ControlOK'
  BY DEF LoadEntry, BootStep, NextIteration, bounds, ControlOK
<1>9. LoadShape'
  BY <1>1, <1>4, <1>6 DEF LoadEntry, BootStep, NextIteration, LoadShape
<1>10. Calm
  BY DEF LoadEntry, BootStep, Calm, Settles
<1>11. QED
  BY <1>6, <1>7, <1>8, <1>9, <1>10 DEF Kept

(* A file is read back as as many sectors as its entry records. *)
LEMMA LoadContentOK ==
  ASSUME TypeOK, LoadContent
  PROVE  Kept
<1> USE TypeParts
<1> DEFINE d == [s \in 1..table[cursor].size |-> diskData[cursor][s]]
<1>1. cursor \in 1..Len(table) /\ cursor \in 1..MaxFiles
  BY SizesAssumption DEF LoadContent, ControlOK, TablesOK, TableOK
<1>2. table[cursor].size \in 0..MaxBlocks
  <2>1. table[cursor] \in Entry
    BY <1>1 DEF TablesOK, TableOK
  <2>2. QED
    BY <2>1 DEF Entry
<1>3. d \in [1..table[cursor].size -> Block]
  BY <1>1, <1>2, SizesAssumption DEF DiskOK
<1>4. d \in Bytes
  BY <1>2, <1>3 DEF Bytes
<1>5. [idx |-> cursor, data |-> d] \in Content
  BY <1>1, <1>4, Zenon DEF Content
<1>6. ContentsOK'
  <2> DEFINE c == [idx |-> cursor, data |-> d]
  <2>1. c \in Content
    BY <1>5
  <2>2. Len(contents) < MaxContents
        /\ (contents' = Append(contents, c) \/ contents' = contents)
    BY DEF LoadContent
  <2> HIDE DEF c
  <2>3. QED
    BY <2>1, <2>2, SizesAssumption DEF TablesOK, ContentsOK
<1>7. TableOK'
  BY DEF LoadContent, TablesOK, TableOK
<1>8. Proceeds
  BY DEF LoadContent, BootStep, NextIteration, Proceeds, ControlOK, Stage,
         BootStage
<1>9. QED
  BY <1>6, <1>7, <1>8, ProceedsOK

LEMMA AddDefaultOK ==
  ASSUME TableOK, NEW n \in Name, NEW dir \in BOOLEAN,
         (HasRoom /\ Add(NewEntry(n, 0, dir))) \/ UNCHANGED table
  PROVE  TableOK'
<1>1. CASE HasRoom /\ Add(NewEntry(n, 0, dir))
  <2>1. NewEntry(n, 0, dir) \in Entry
    BY NewEntryOK, SizesAssumption
  <2>2. QED
    BY <1>1, <2>1, AddOK
<1>2. CASE UNCHANGED table
  BY <1>2 DEF TableOK
<1>3. QED
  BY <1>1, <1>2

LEMMA EnsureDesktopEntryOK ==
  ASSUME TypeOK, EnsureDesktopEntry
  PROVE  Kept
<1> USE TypeParts
<1> DEFINE e == DesktopEntries[cursor]
<1>1. e \in DefaultEntry
  BY DefaultsAssumption DEF EnsureDesktopEntry, ControlOK
<1>2. e.name \in Name /\ e.dir \in BOOLEAN
  BY <1>1, Zenon DEF DefaultEntry
<1>3. TableOK'
  <2>1. (HasRoom /\ Add(NewEntry(e.name, 0, e.dir))) \/ UNCHANGED table
    BY Zenon DEF EnsureDesktopEntry
  <2>2. QED
    BY <1>2, <2>1, AddDefaultOK DEF TablesOK
<1>4. ContentsOK'
  BY DEF EnsureDesktopEntry, TablesOK, ContentsOK
<1>5. Proceeds
  BY DEF EnsureDesktopEntry, BootStep, NextIteration, Proceeds, ControlOK,
         Stage, BootStage
<1>6. QED
  BY <1>3, <1>4, <1>5, ProceedsOK

(* The page of a full table is skipped, as create_web_file returns early. *)
LEMMA CreateWebFileOK ==
  ASSUME TypeOK, CreateWebFile
  PROVE  Kept
<1> USE TypeParts
<1> DEFINE n == WebPages[cursor]
<1>1. n \in Name /\ DefaultData \in Bytes
  BY DefaultsAssumption, DataAssumption DEF CreateWebFile, ControlOK
<1>2. TableOK' /\ ContentsOK'
  <2>1. CASE UNCHANGED ram
    BY <2>1, UnchangedTables
  <2>2. CASE Named(n) # {} \/ HasRoom
    <3>1. StoreEntry(n, DefaultData) /\
          (\/ HasSlot(SlotIndex(n)) /\ StoreBytes(SlotIndex(n), DefaultData)
           \/ UNCHANGED contents)
      BY <2>2, Zenon DEF CreateWebFile
    <3>2. TableOK' /\ SlotIndex(n) \in 1..MaxFiles
      BY <1>1, <2>2, <3>1, StoreEntryOK DEF TablesOK
    <3>3. ContentsOK'
      <4>1. CASE UNCHANGED contents
        BY <4>1 DEF TablesOK, ContentsOK
      <4>2. QED
        BY <1>1, <3>1, <3>2, <4>1, StoreBytesOK DEF TablesOK
    <3>4. QED
      BY <3>2, <3>3
  <2>3. QED
    BY <2>1, <2>2, Zenon DEF CreateWebFile
<1>3. Proceeds
  BY DEF CreateWebFile, BootStep, NextIteration, Proceeds, ControlOK, Stage,
         BootStage
<1>4. QED
  BY <1>2, <1>3, ProceedsOK

LEMMA EnsureDirOK ==
  ASSUME TypeOK, EnsureDocuments \/ EnsureDir \/ EnterHome
  PROVE  Kept
<1> USE TypeParts
<1>1. CASE EnsureDocuments
  <2>1. TableOK'
    BY <1>1, AddDefaultOK, NamesAssumption DEF EnsureDocuments, TablesOK
  <2>2. ContentsOK'
    BY <1>1 DEF EnsureDocuments, TablesOK, ContentsOK
  <2>3. BeginSave \/ NoSave
    BY <1>1, Zenon DEF EnsureDocuments
  <2>4. Proceeds
    BY <1>1, <2>3 DEF EnsureDocuments, BootStep, Goto, Proceeds, ControlOK,
                      Stage, BootStage
  <2>5. QED
    BY <2>1, <2>2, <2>4, ProceedsOK
<1>2. CASE EnsureDir
  <2>1. ExtraDirs[cursor] \in Name
    BY <1>2, DefaultsAssumption DEF EnsureDir, ControlOK
  <2>2. TableOK'
    BY <1>2, <2>1, AddDefaultOK DEF EnsureDir, TablesOK
  <2>3. ContentsOK'
    BY <1>2 DEF EnsureDir, TablesOK, ContentsOK
  <2>4. Proceeds
    BY <1>2 DEF EnsureDir, BootStep, NextIteration, Proceeds, ControlOK, Stage,
                BootStage
  <2>5. QED
    BY <2>2, <2>3, <2>4, ProceedsOK
<1>3. CASE EnterHome
  <2>1. TableOK'
    BY <1>3, AddDefaultOK, NamesAssumption DEF EnterHome, TablesOK
  <2>2. ContentsOK'
    BY <1>3 DEF EnterHome, TablesOK, ContentsOK
  <2>3. Proceeds
    BY <1>3 DEF EnterHome, BootStep, Proceeds, ControlOK, Stage, BootStage
  <2>4. QED
    BY <2>1, <2>2, <2>3, ProceedsOK
<1>4. QED
  BY <1>1, <1>2, <1>3

LEMMA SeedFileOK ==
  ASSUME TypeOK, SeedFile
  PROVE  Kept
<1> USE TypeParts
<1>1. Seeds[cursor] \in Name /\ DefaultData \in Bytes /\ Quiet
  BY DefaultsAssumption, DataAssumption DEF SeedFile, BootStep, ControlOK
<1>2. CASE SaveFileContent(Seeds[cursor], DefaultData)
  <2>1. TablesOK' /\ Settles
    BY <1>1, <1>2, SaveFileContentOK, Zenon
  <2>2. Proceeds
    BY <2>1 DEF Settles, SeedFile, BootStep, NextIteration, Proceeds, ControlOK,
                Stage, BootStage
  <2>3. QED
    BY <2>1, <2>2, ProceedsOK DEF TablesOK
<1>3. CASE UNCHANGED ram /\ NoSave
  <2>1. Proceeds
    BY <1>3 DEF SeedFile, BootStep, NextIteration, Proceeds, ControlOK, Stage,
                BootStage
  <2>2. QED
    BY <1>3, <2>1, UnchangedTables, ProceedsOK
<1>4. QED
  BY <1>2, <1>3 DEF SeedFile

(* The steps that only move on to the next loop, and the cap of the desktop. *)
LEMMA StageDoneOK ==
  ASSUME TypeOK,
         \/ LoadEntriesDone \/ LoadContentsDone \/ EnsureDesktopDone
         \/ CreateWebFilesDone \/ EnsureDirsDone \/ SeedFilesDone
         \/ StartDesktop \/ ChkdskDone
  PROVE  Kept
<1> USE TypeParts
<1>1. TableOK' /\ ContentsOK'
  <2>1. CASE StartDesktop
    BY <2>1, SizesAssumption DEF StartDesktop, TablesOK, TableOK, ContentsOK
  <2>2. CASE UNCHANGED ram
    BY <2>2, UnchangedTables
  <2>3. QED
    BY <2>1, <2>2
       DEF LoadEntriesDone, LoadContentsDone, EnsureDesktopDone,
           CreateWebFilesDone, EnsureDirsDone, SeedFilesDone, ChkdskDone
<1>2. Proceeds
  BY DEF LoadEntriesDone, LoadContentsDone, EnsureDesktopDone,
         CreateWebFilesDone, EnsureDirsDone, SeedFilesDone, StartDesktop,
         ChkdskDone, BootStep, Goto, Proceeds, ControlOK, Stage, BootStage
<1>3. QED
  BY <1>1, <1>2, ProceedsOK

LEMMA BootOK ==
  ASSUME TypeOK, LoadShape, Boot
  PROVE  Kept
BY StartOfBootOK, LoadEntryOK, LoadContentOK, EnsureDesktopEntryOK,
   CreateWebFileOK, EnsureDirOK, SeedFileOK, StageDoneOK
   DEF Boot

-----------------------------------------------------------------------------
(* The commands. *)

(* A command returns to the prompt after its save, or starts a loop. *)
Runs ==
  /\ pc = "idle" /\ Quiet
  /\ UNCHANGED <<disk, crashes, faults>>
  /\ ops' \in Nat
  /\ op' \in Command
  /\ terminal' \in {"none", "unused", "used"}
  /\ BeginSave \/ NoSave
  /\ \/ UNCHANGED <<pc, cursor>>
     \/ pc' = "chkdsk" /\ cursor' = 1
     \/ Reset /\ NoSave

LEMMA RunsOK ==
  ASSUME ControlOK, Runs, TableOK', ContentsOK'
  PROVE  Kept
<1>1. ControlOK'
  BY DEF Runs, ControlOK, Reset, Goto, Stage, BootStage
<1>2. LoadShape'
  BY DEF Runs, LoadShape, Reset, Goto, Quiet, NoSave, saving
<1>3. Calm
  BY DEF Runs, Calm, Settles
<1>4. QED
  BY <1>1, <1>2, <1>3 DEF Kept

LEMMA AcceptRuns ==
  ASSUME ControlOK, NEW c \in Command, Accept(c), BeginSave \/ NoSave,
         Stay \/ (Reset /\ NoSave) \/ (pc' = "chkdsk" /\ cursor' = 1)
  PROVE  Runs
BY DEF Accept, Stay, Runs, ControlOK

LEMMA SaveFileOK ==
  ASSUME TypeOK, NEW n \in Name, NEW d \in Bytes, SaveFile(n, d)
  PROVE  Kept
<1> USE TypeParts
<1>1. TablesOK' /\ Settles
  BY SaveFileContentOK, Zenon DEF SaveFile, Accept
<1>2. Runs
  BY <1>1, AcceptRuns DEF SaveFile, Settles, Command
<1>3. QED
  BY <1>1, <1>2, RunsOK DEF TablesOK

LEMMA NanoOK ==
  ASSUME TypeOK, NEW n \in Name, NEW d \in Bytes, Nano(n, d)
  PROVE  Kept
<1> USE TypeParts
<1> DEFINE i == IF Files(n) = {} THEN Len(table) + 1 ELSE First(Files(n))
<1>1. Len(d) \in 0..MaxBlocks
  BY BytesAreSequences
<1>2. i <= MaxFiles /\ HasSlot(i) /\ StoreBytes(i, d)
  BY DEF Nano
<1>3. i \in 1..MaxFiles
  BY <1>2, EntriesFound, SizesAssumption DEF TablesOK, TableOK
<1>4. ContentsOK'
  <2> HIDE DEF i
  <2> QED
    BY <1>2, <1>3, StoreBytesOK DEF TablesOK
<1>5. TableOK'
  <2>1. CASE Files(n) = {}
    <3>1. NewEntry(n, Len(d), FALSE) \in Entry
      BY <1>1, NewEntryOK
    <3>2. HasRoom
      BY <1>2, <2>1, SizesAssumption DEF HasRoom, TablesOK, TableOK
    <3>3. Add(NewEntry(n, Len(d), FALSE))
      BY <2>1 DEF Nano
    <3>4. QED
      BY <3>1, <3>2, <3>3, AddOK DEF TablesOK
  <2>2. CASE Files(n) # {}
    <3>1. i \in 1..Len(table)
      BY <2>2, EntriesFound DEF TablesOK
    <3>2. table' = [table EXCEPT ![i].size = Len(d)]
      BY <2>2 DEF Nano
    <3>3. table[i] \in Entry
      BY <3>1 DEF TablesOK, TableOK
    <3> HIDE DEF i
    <3>4. [table[i] EXCEPT !.size = Len(d)] \in Entry
      BY <1>1, <3>3 DEF Entry
    <3>5. table' = [table EXCEPT ![i] = [table[i] EXCEPT !.size = Len(d)]]
      BY <3>2
    <3>6. table' \in Seq(Entry) /\ Len(table') = Len(table)
      BY <3>1, <3>4, <3>5, ExceptSeq DEF TablesOK, TableOK
    <3>7. QED
      BY <3>6 DEF TablesOK, TableOK
  <2>3. QED
    BY <2>1, <2>2
<1>6. Runs
  BY AcceptRuns DEF Nano, Command
<1>7. QED
  BY <1>4, <1>5, <1>6, RunsOK

LEMMA CreateOK ==
  ASSUME TypeOK, NEW c \in {"touch", "mkdir"}, NEW n \in Name,
         NEW dir \in BOOLEAN, Create(c, n, dir)
  PROVE  Kept
<1> USE TypeParts
<1>1. TableOK'
  BY AddDefaultOK DEF Create, TablesOK
<1>2. ContentsOK'
  BY DEF Create, TablesOK, ContentsOK
<1>3. c \in Command
  BY DEF Command
<1>4. Runs
  BY <1>3, AcceptRuns DEF Create
<1>5. QED
  BY <1>1, <1>2, <1>4, RunsOK

LEMMA CopyOK ==
  ASSUME TypeOK, NEW n \in Name, NEW m \in Name, Copy(n, m)
  PROVE  Kept
<1> USE TypeParts
<1> DEFINE i == First(Files(n))
           e == NewEntry(m, table[i].size, FALSE)
           src == First(SlotsOf(i))
           c == [idx |-> Len(table) + 1, data |-> contents[src].data]
<1>1. i \in 1..Len(table)
  BY EntriesFound DEF Copy, TablesOK
<1>2. table[i] \in Entry
  BY <1>1 DEF TablesOK, TableOK
<1>3. table[i].size \in 0..MaxBlocks
  BY <1>2 DEF Entry
<1>4. TableOK'
  <2>1. e \in Entry
    BY <1>3, NewEntryOK
  <2>2. HasRoom /\ Add(e)
    BY DEF Copy
  <2> HIDE DEF e
  <2>3. QED
    BY <2>1, <2>2, AddOK DEF TablesOK
<1>5. ContentsOK'
  <2>1. CASE SlotsOf(i) # {} /\ Len(contents) < MaxContents
    <3>1. src \in 1..Len(contents)
      BY <2>1, SlotsFound DEF TablesOK
    <3>2. contents[src] \in Content
      BY <3>1 DEF TablesOK, ContentsOK
    <3>3. contents[src].data \in Bytes
      BY <3>2 DEF Content
    <3>4. Len(table) + 1 \in 1..MaxFiles
      BY SizesAssumption DEF Copy, HasRoom, TablesOK, TableOK
    <3>5. c \in Content
      BY <3>3, <3>4, Zenon DEF Content
    <3>6. contents' = Append(contents, c)
      BY <2>1 DEF Copy
    <3> HIDE DEF c
    <3>7. QED
      BY <2>1, <3>5, <3>6, SizesAssumption DEF TablesOK, ContentsOK
  <2>2. CASE UNCHANGED contents
    BY <2>2 DEF TablesOK, ContentsOK
  <2>3. QED
    BY <2>1, <2>2 DEF Copy
<1>6. Runs
  BY AcceptRuns DEF Copy, Command
<1>7. QED
  BY <1>4, <1>5, <1>6, RunsOK

LEMMA MoveOK ==
  ASSUME TypeOK, NEW n \in Name, NEW m \in Name, Move(n, m)
  PROVE  Kept
<1> USE TypeParts
<1> DEFINE i == First(Named(n))
<1>1. i \in 1..Len(table)
  BY EntriesFound DEF Move, TablesOK
<1>2. table[i] \in Entry
  BY <1>1 DEF TablesOK, TableOK
<1>3. table' = [table EXCEPT ![i].name = m]
  BY DEF Move
<1>4. TableOK'
  <2> HIDE DEF i
  <2>1. [table[i] EXCEPT !.name = m] \in Entry
    BY <1>2 DEF Entry
  <2>2. table' = [table EXCEPT ![i] = [table[i] EXCEPT !.name = m]]
    BY <1>3
  <2>3. table' \in Seq(Entry) /\ Len(table') = Len(table)
    BY <1>1, <2>1, <2>2, ExceptSeq DEF TablesOK, TableOK
  <2>4. QED
    BY <2>3 DEF TablesOK, TableOK
<1>5. ContentsOK'
  BY DEF Move, TablesOK, ContentsOK
<1>6. Runs
  BY AcceptRuns DEF Move, Command
<1>7. QED
  BY <1>4, <1>5, <1>6, RunsOK

LEMMA RemoveOK ==
  ASSUME TypeOK, NEW c \in {"del", "rmdir"},
         NEW S \in SUBSET (1..Len(table)), Remove(c, S)
  PROVE  Kept
<1> USE TypeParts
<1>1. Len(table) \in Nat /\ S # {}
  BY DEF Remove, TablesOK, TableOK
<1>2. First(S) \in 1..Len(table)
  BY <1>1, ScanOK
<1>3. table' = Shifted(table, First(S))
  BY DEF Remove
<1>4. table' \in Seq(Entry) /\ Len(table') = Len(table) - 1
  BY <1>2, <1>3, ShiftedType DEF TablesOK, TableOK
<1>5. TableOK'
  BY <1>1, <1>4, SizesAssumption DEF TablesOK, TableOK
<1>6. ContentsOK'
  BY DEF Remove, TablesOK, ContentsOK
<1>7. c \in Command
  BY DEF Command
<1>8. Runs
  BY <1>7, AcceptRuns DEF Remove
<1>9. QED
  BY <1>5, <1>6, <1>8, RunsOK

(* Dropping an orphan keeps CHKDSK at the same index, one slot fewer. *)
LEMMA ChkdskSlotOK ==
  ASSUME TypeOK, ChkdskSlot
  PROVE  Kept
<1> USE TypeParts
<1>1. cursor \in 1..Len(contents)
  BY DEF ChkdskSlot, ControlOK, TablesOK, ContentsOK
<1>2. ContentsOK'
  <2>1. CASE contents' = Shifted(contents, cursor)
    <3>1. contents' \in Seq(Content) /\ Len(contents') = Len(contents) - 1
      BY <1>1, <2>1, ShiftedType DEF TablesOK, ContentsOK
    <3>2. Len(contents) \in Nat
      BY DEF TablesOK, ContentsOK
    <3>3. QED
      BY <3>1, <3>2, SizesAssumption DEF TablesOK, ContentsOK
  <2>2. CASE UNCHANGED contents
    BY <2>2 DEF TablesOK, ContentsOK
  <2>3. QED
    BY <2>1, <2>2 DEF ChkdskSlot
<1>3. TableOK'
  BY DEF ChkdskSlot, TablesOK, TableOK
<1>4. Proceeds
  BY DEF ChkdskSlot, BootStep, Proceeds, ControlOK, Stage, BootStage
<1>5. QED
  BY <1>2, <1>3, <1>4, ProceedsOK

LEMMA OtherCommandOK ==
  ASSUME TypeOK, Sync \/ Chkdsk \/ Format \/ OpenTerminal
  PROVE  Kept
<1> USE TypeParts
<1>1. TableOK' /\ ContentsOK'
  <2>1. CASE UNCHANGED ram
    BY <2>1, UnchangedTables
  <2>2. CASE Reset
    BY <2>2, SizesAssumption DEF Reset, TableOK, ContentsOK
  <2>3. QED
    BY <2>1, <2>2 DEF Sync, Chkdsk, Format, OpenTerminal
<1>2. CASE Sync
  <2>1. Runs
    BY <1>2, AcceptRuns DEF Sync, Command
  <2>2. QED
    BY <1>1, <2>1, RunsOK
<1>3. CASE Chkdsk
  <2>1. Runs
    BY <1>3, AcceptRuns DEF Chkdsk, Goto, Command
  <2>2. QED
    BY <1>1, <2>1, RunsOK
<1>4. CASE Format
  <2>1. Runs
    BY <1>4, AcceptRuns DEF Format, Command
  <2>2. QED
    BY <1>1, <2>1, RunsOK
<1>5. CASE OpenTerminal
  <2>1. Runs
    BY <1>5 DEF OpenTerminal, Runs, bounds, ControlOK, Command
  <2>2. QED
    BY <1>1, <2>1, RunsOK
<1>6. QED
  BY <1>2, <1>3, <1>4, <1>5

LEMMA PowerFailOK ==
  ASSUME TypeOK, PowerFail
  PROVE  Kept
<1> USE TypeParts
<1>1. TableOK' /\ ContentsOK'
  BY SizesAssumption DEF PowerFail, TableOK, ContentsOK
<1>2. ControlOK'
  BY DEF PowerFail, ControlOK, Stage
<1>3. LoadShape'
  BY DEF PowerFail, EndSave, LoadShape
<1>4. Calm
  BY DEF PowerFail, Calm
<1>5. QED
  BY <1>1, <1>2, <1>3, <1>4 DEF Kept

-----------------------------------------------------------------------------
(* The steps of the whole system, in the three kinds the theorems need. *)

IInv == TypeOK /\ LoadShape

LEMMA InitOK == Init => IInv
<1> SUFFICES ASSUME Init PROVE IInv
  OBVIOUS
<1> USE SizesAssumption, TypeParts DEF Init
<1>1. TablesOK
  BY DEF TablesOK, TableOK, ContentsOK
<1>2. PositionOK
  BY DEF PositionOK, Area
<1>3. DiskOK
  BY DataAssumption DEF DiskOK
<1>4. FlagsOK
  BY Zenon DEF FlagsOK
<1>5. ControlOK
  BY DEF ControlOK, Stage
<1>6. LoadShape
  BY DEF LoadShape
<1>7. QED
  BY <1>1, <1>2, <1>3, <1>4, <1>5, <1>6 DEF IInv

LEMMA CommandOK ==
  ASSUME TypeOK, KeepingCommand \/ RemovingCommand
  PROVE  Kept
<1> USE NamesAssumption, DataAssumption
<1>1. CASE KeepingCommand
  <2>1. CASE \E n \in FileName, d \in Payload : SaveFile(n, d) \/ Nano(n, d)
    BY <2>1, SaveFileOK, NanoOK
  <2>2. CASE \E n \in FileName : Create("touch", n, FALSE)
    BY <2>2, CreateOK
  <2>3. CASE \E n \in DirName : Create("mkdir", n, TRUE)
    BY <2>3, CreateOK
  <2>4. CASE \E n, m \in FileName : Copy(n, m) \/ Move(n, m)
    BY <2>4, CopyOK, MoveOK
  <2>5. QED
    BY <1>1, <2>1, <2>2, <2>3, <2>4, OtherCommandOK DEF KeepingCommand
<1>2. CASE RemovingCommand
  <2>1. ASSUME NEW n PROVE /\ Files(n) \in SUBSET (1..Len(table))
                           /\ Dirs(n) \in SUBSET (1..Len(table))
    BY DEF Files, Dirs, Named
  <2>2. CASE \E n \in FileName : Del(n)
    BY <2>1, <2>2, RemoveOK DEF Del
  <2>3. CASE \E n \in DirName : Rmdir(n)
    BY <2>1, <2>3, RemoveOK DEF Rmdir
  <2>4. QED
    BY <1>2, <2>2, <2>3, OtherCommandOK DEF RemovingCommand
<1>3. QED
  BY <1>1, <1>2

LEMMA StepKinds ==
  ASSUME IInv, [Next]_vars
  PROVE  SaveStep \/ WriteFails \/ Kept \/ UNCHANGED vars
<1>1. CASE Boot
  BY <1>1, BootOK DEF IInv
<1>2. CASE ChkdskSlot
  BY <1>2, ChkdskSlotOK DEF IInv
<1>3. CASE ChkdskDone
  BY <1>3, StageDoneOK DEF IInv
<1>4. CASE KeepingCommand \/ RemovingCommand
  BY <1>4, CommandOK DEF IInv
<1>5. CASE PowerFail
  BY <1>5, PowerFailOK DEF IInv
<1>6. QED
  BY <1>1, <1>2, <1>3, <1>4, <1>5 DEF Next, NextKeeping, Kernel, Wait

LEMMA StepOK == IInv /\ [Next]_vars => IInv'
<1> SUFFICES ASSUME IInv, [Next]_vars PROVE IInv'
  OBVIOUS
<1>1. CASE SaveStep
  <2>1. TypeOK'
    BY <1>1, SaveStepOK DEF IInv
  <2>2. LoadShape'
    BY <1>1 DEF IInv, LoadShape, SaveStep, WriteVolume, WriteTableSector,
                WriteDataSector, WriteOtherSector, kernel
  <2>3. QED
    BY <2>1, <2>2 DEF IInv
<1>2. CASE WriteFails
  <2>1. TypeOK'
    BY <1>2, WriteFailsOK DEF IInv
  <2>2. area # "none"
    BY <1>2, FailuresAssumption DEF WriteFails
  <2>3. LoadShape'
    BY <1>2, <2>2 DEF IInv, LoadShape, WriteFails, kernel
  <2>4. QED
    BY <2>1, <2>3 DEF IInv
<1>3. CASE Kept
  BY <1>3, CalmOK DEF Kept, IInv
<1>4. CASE UNCHANGED vars
  <2>1. TablesOK' /\ PositionOK' /\ DiskOK' /\ ControlOK'
    BY <1>4, TypeParts
       DEF IInv, vars, TablesOK, TableOK, ContentsOK, PositionOK, DiskOK,
           ControlOK
  <2>2. FlagsOK'
    BY <1>4, TypeParts, Zenon DEF IInv, vars, FlagsOK
  <2>3. LoadShape'
    BY <1>4 DEF IInv, vars, LoadShape
  <2>4. QED
    BY <2>1, <2>2, <2>3, TypeParts DEF IInv
<1>5. QED
  BY <1>1, <1>2, <1>3, <1>4, StepKinds

-----------------------------------------------------------------------------
(* fs_save_to_disk, fs_load_from_disk and every command keep the tables     *)
(* within their arrays and every sector of a save inside the image.         *)
THEOREM TypeCorrect == Spec => []TypeOK
<1>1. IInv => TypeOK
  BY DEF IInv
<1>2. QED
  BY InitOK, StepOK, <1>1, PTL DEF Spec

(* The order curdir, volume, table of fs_save_to_disk: once a save is at    *)
(* the table, the volume sector is on the disk, unless its write failed.    *)
VolumeOrder ==
  /\ VolumeBeforeEntries
  /\ area \in {"table", "users", "data"} => diskVol

THEOREM VolumeComesFirst ==
  ASSUME "volume" \notin FailingAreas
  PROVE  Spec => []VolumeBeforeEntries
<1>1. Init => VolumeOrder
  BY DEF Init, VolumeOrder, VolumeBeforeEntries
<1>2. IInv /\ VolumeOrder /\ [Next]_vars => VolumeOrder'
  <2> SUFFICES ASSUME IInv, VolumeOrder, [Next]_vars PROVE VolumeOrder'
    OBVIOUS
  <2> USE DEF VolumeOrder, VolumeBeforeEntries
  <2>1. CASE WriteVolume
    BY <2>1 DEF WriteVolume
  <2>2. CASE WriteTableSector
    BY <2>2 DEF WriteTableSector
  <2>3. CASE WriteDataSector
    BY <2>3 DEF WriteDataSector
  <2>4. CASE WriteOtherSector
    BY <2>4 DEF WriteOtherSector, disk, Advance, EndSave
  <2>5. CASE WriteFails
    BY <2>5 DEF WriteFails, disk, Advance, EndSave
  <2>6. CASE Kept
    BY <2>6 DEF Kept, Calm, Settles, BeginSave, NoSave, Quiet, saving, EndSave,
                disk
  <2>7. CASE UNCHANGED vars
    BY <2>7 DEF vars
  <2>8. QED
    BY <2>1, <2>2, <2>3, <2>4, <2>5, <2>6, <2>7, StepKinds DEF SaveStep
<1>3. VolumeOrder => VolumeBeforeEntries
  BY DEF VolumeOrder
<1>4. QED
  BY InitOK, StepOK, <1>1, <1>2, <1>3, PTL DEF Spec

(* Sector i of the table on disk is what the save in progress writes there. *)
Current(i) == diskTable[i] = IF i <= Len(table) THEN table[i] ELSE NoEntry

(* How far the table loop of fs_save_to_disk has come.  Nothing is claimed  *)
(* once a write has failed: the clearing of unused sectors may be skipped.  *)
TableProgress ==
  ~failed =>
    /\ area = "table" => \A i \in 1..(slot - 1) : Current(i)
    /\ area \in {"users", "data"} => \A i \in 1..MaxFiles : Current(i)

LEMMA TableProgressStep ==
  ASSUME IInv, TableProgress, [Next]_vars
  PROVE  TableProgress'
<1> USE DEF TableProgress, Current
<1>0. /\ slot \in Nat \ {0} /\ (area = "table" => slot <= MaxFiles)
      /\ diskTable \in [1..MaxFiles -> Entry \cup {NoEntry}]
  BY DEF IInv, TypeOK
<1>1. CASE WriteVolume
  BY <1>1 DEF WriteVolume, Advance
<1>2. CASE WriteTableSector
  <2>1. /\ ~failed' => ~failed
        /\ table' = table /\ area = "table"
    BY <1>2 DEF WriteTableSector, kernel
  <2>2. \A i \in 1..MaxFiles :
          diskTable'[i] = IF i = slot
            THEN (IF i <= Len(table) THEN table[i] ELSE NoEntry)
            ELSE diskTable[i]
    BY <1>0, <1>2 DEF WriteTableSector
  <2>3. ~failed => \A i \in 1..slot : Current(i)'
    BY <1>0, <2>1, <2>2, SizesAssumption
  <2>4. \/ area' = "table" /\ slot' = slot + 1
        \/ area' = "users" /\ slot = MaxFiles
    BY <1>0, <1>2, SizesAssumption DEF WriteTableSector, Advance
  <2>5. QED
    BY <1>0, <2>1, <2>3, <2>4
<1>3. CASE WriteDataSector
  BY <1>3 DEF WriteDataSector, kernel, Advance, EndSave
<1>4. CASE WriteOtherSector
  BY <1>4 DEF WriteOtherSector, kernel, disk, Advance, EndSave
<1>5. CASE WriteFails
  BY <1>5 DEF WriteFails
<1>6. CASE Kept
  BY <1>6 DEF Kept, Calm, Settles, BeginSave, NoSave, Quiet, saving, EndSave
<1>7. CASE UNCHANGED vars
  BY <1>7 DEF vars
<1>8. QED
  BY <1>1, <1>2, <1>3, <1>4, <1>5, <1>6, <1>7, StepKinds DEF SaveStep

(* A save that met no error leaves the table of memory on the disk, with no *)
(* sector of an earlier and longer table behind it (fs_save_to_disk).       *)
THEOREM TableSectorsSaved == Spec => TableSectorsCurrent
<1> DEFINE Ended == area # "none" /\ area' = "none" /\ ~failed' /\ pc' # "off"
           Saved == \A i \in 1..MaxFiles :
             diskTable'[i] = IF i <= Len(table) THEN table[i] ELSE NoEntry
<1>1. Init => TableProgress
  BY DEF Init, TableProgress
<1>2. IInv /\ TableProgress /\ [Next]_vars => (Ended => Saved)
  <2> SUFFICES ASSUME IInv, TableProgress, [Next]_vars, Ended PROVE Saved
    OBVIOUS
  <2>0. /\ slot \in Nat \ {0} /\ (area = "table" => slot <= MaxFiles)
    BY DEF IInv, TypeOK
  <2>1. CASE WriteVolume
    BY <2>1 DEF WriteVolume, Advance
  <2>2. CASE WriteTableSector
    BY <2>0, <2>2, SizesAssumption DEF WriteTableSector, Advance
  <2>3. CASE WriteDataSector
    BY <2>3 DEF WriteDataSector, TableProgress, Current
  <2>4. CASE WriteOtherSector
    BY <2>4 DEF WriteOtherSector, disk, Advance, EndSave, TableProgress, Current
  <2>5. CASE WriteFails
    BY <2>5 DEF WriteFails
  <2>6. CASE Kept
    BY <2>6 DEF Kept, Calm, Settles, BeginSave, NoSave, Quiet
  <2>7. CASE UNCHANGED vars
    BY <2>7 DEF vars
  <2>8. QED
    BY <2>1, <2>2, <2>3, <2>4, <2>5, <2>6, <2>7, StepKinds DEF SaveStep
<1>3. IInv /\ TableProgress /\ [Next]_vars => TableProgress'
  BY TableProgressStep
<1>4. IInv /\ TableProgress /\ [Next]_vars => [Ended => Saved]_vars
  BY <1>2
<1>5. QED
  BY InitOK, StepOK, <1>1, <1>3, <1>4, PTL DEF Spec, TableSectorsCurrent
===========================================================================
