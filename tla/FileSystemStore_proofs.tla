----------------------- MODULE FileSystemStore_proofs -----------------------
(***************************************************************************)
(* FileSystem implements CrashStore, for all numbers of files, content     *)
(* slots and sectors, all paths and defaults, as long as no entry is       *)
(* removed.                                                                *)
(*                                                                         *)
(* The invariant StoreInv says which entries the disk holds: those of a    *)
(* table that only grows, without a gap.  On top of it each step is one of *)
(* five: it changes the entries of two paths in memory, writes one entry   *)
(* to the disk, drops memory, ends the loading of memory, or stutters.     *)
(***************************************************************************)
EXTENDS FileSystemContents_proofs

-----------------------------------------------------------------------------
(* The entries on the disk. *)

Prefix ==
  \A i, j \in 1..MaxFiles : j < i /\ diskTable[i] # NoEntry => diskTable[j] # NoEntry

Reads == \A n \in Name \ Dirty : DiskView(n) = View(n)

Readable ==
  \A n \in Name : View(n) \in Bytes \cup {Missing} /\ DiskView(n) \in Bytes \cup {Missing}

LEMMA LoadedEntries ==
  ASSUME Prefix, NEW i
  PROVE  i \in Loaded <=> i \in 1..MaxFiles /\ diskTable[i] # NoEntry
<1> USE SizesAssumption
<1>1. ASSUME i \in Loaded PROVE i \in 1..MaxFiles /\ diskTable[i] # NoEntry
  <2>1. i \in 1..MaxFiles /\ i \in 1..i
    BY <1>1 DEF Loaded
  <2>2. QED
    BY <1>1, <2>1 DEF Loaded
<1>2. ASSUME i \in 1..MaxFiles, diskTable[i] # NoEntry PROVE i \in Loaded
  BY <1>2 DEF Loaded, Prefix
<1>3. QED
  BY <1>1, <1>2

LEMMA FirstOf ==
  ASSUME IInv, NEW n
  PROVE  /\ Entries(n) # {} => First(Entries(n)) \in Entries(n)
         /\ DiskEntries(n) # {} => First(DiskEntries(n)) \in DiskEntries(n)
<1>1. Entries(n) \in SUBSET Nat /\ DiskEntries(n) \in SUBSET Nat
  BY DEF Entries, DiskEntries, Loaded
<1>2. Entries(n) # {} => First(Entries(n)) \in Entries(n)
  BY <1>1, FirstIn
<1>3. DiskEntries(n) # {} => First(DiskEntries(n)) \in DiskEntries(n)
  BY <1>1, FirstIn
<1>4. QED
  BY <1>2, <1>3

(* A path whose entries are all written reads on the disk as in memory.     *)
LEMMA CleanReads == IInv /\ Prefix => Reads
<1> SUFFICES ASSUME IInv, Prefix, NEW n \in Name, n \notin Dirty
             PROVE  DiskView(n) = View(n)
  BY DEF Reads
<1> USE SizesAssumption
<1>0. Len(table) \in Nat /\ Len(table) <= MaxFiles
  BY DEF IInv, TypeOK
<1>1. \A i \in Entries(n) \cup DiskEntries(n) : Written(i)
  BY DEF Dirty
<1>2. \A i \in Entries(n) : i \in DiskEntries(n)
  <2>1. ASSUME NEW i \in Entries(n) PROVE i \in DiskEntries(n)
    <3>1. i \in 1..MaxFiles /\ diskTable[i] # NoEntry /\ Bare[diskTable[i].name] = n
      BY <1>0, <1>1 DEF Entries, Written
    <3>2. QED
      BY <3>1, LoadedEntries DEF DiskEntries
  <2>2. QED
    BY <2>1
<1>3. \A i \in DiskEntries(n) : i \in Entries(n)
  BY <1>0, <1>1 DEF DiskEntries, Loaded, Entries, Written
<1>4. Entries(n) = DiskEntries(n)
  BY <1>2, <1>3
<1>5. CASE Entries(n) = {}
  BY <1>4, <1>5 DEF View, DiskView
<1>6. CASE Entries(n) # {}
  <2>1. First(Entries(n)) \in Entries(n)
    BY <1>6, FirstOf
  <2>2. Written(First(Entries(n)))
    BY <1>1, <2>1
  <2>3. QED
    BY <1>4, <1>6, <2>2 DEF View, DiskView, Written
<1>7. QED
  BY <1>5, <1>6

LEMMA EmptyBytes == <<>> \in Bytes
<1>1. <<>> \in Seq(Block) /\ Len(<<>>) = 0
  BY EmptySeq
<1>2. <<>> \in [1..0 -> Block]
  BY <1>1, LenProperties
<1>3. 0 \in 0..MaxBlocks
  BY SizesAssumption
<1>4. QED
  BY <1>2, <1>3 DEF Bytes

(* What a lookup returns is what a file can hold, or nothing. *)
LEMMA ViewsReadable == IInv => Readable
<1> SUFFICES ASSUME IInv, NEW n \in Name
             PROVE  /\ View(n) \in Bytes \cup {Missing}
                    /\ DiskView(n) \in Bytes \cup {Missing}
  BY DEF Readable
<1> USE SizesAssumption, TypeParts
<1>0. /\ table \in Seq(Entry) /\ contents \in Seq(Content) /\ TablesOK /\ DiskOK
  BY DEF IInv, TablesOK, TableOK, ContentsOK
<1>1. ASSUME NEW i PROVE EntryView(i) \in Bytes \cup {Missing}
  <2>1. CASE SlotsOf(i) # {}
    <3>1. First(SlotsOf(i)) \in 1..Len(contents)
      BY <1>0, <2>1, Found DEF SlotsOf
    <3>2. QED
      BY <1>0, <2>1, <3>1, ContentParts DEF EntryView
  <2>2. QED
    BY <2>1, EmptyBytes DEF EntryView
<1>2. ASSUME NEW i \in DiskEntries(n) PROVE DiskEntryView(i) \in Bytes \cup {Missing}
  <2>1. i \in 1..MaxFiles /\ i \in 1..i
    BY DEF DiskEntries, Loaded
  <2>2. diskTable[i] # NoEntry
    BY <2>1 DEF DiskEntries, Loaded
  <2>3. diskTable[i] \in Entry
    BY <1>0, <2>1, <2>2 DEF DiskOK
  <2>4. diskTable[i].size \in 0..MaxBlocks
    BY <2>3 DEF Entry
  <2>5. [s \in 1..diskTable[i].size |-> diskData[i][s]] \in [1..diskTable[i].size -> Block]
    BY <1>0, <2>1, <2>4 DEF DiskOK
  <2>6. [s \in 1..diskTable[i].size |-> diskData[i][s]] \in Bytes
    BY <2>4, <2>5 DEF Bytes
  <2>7. QED
    BY <2>6, EmptyBytes DEF DiskEntryView
<1>3. View(n) \in Bytes \cup {Missing}
  BY <1>1 DEF View
<1>4. DiskView(n) \in Bytes \cup {Missing}
  BY <1>2, FirstOf DEF DiskView
<1>5. QED
  BY <1>3, <1>4

-----------------------------------------------------------------------------
(* What the steps do to the entries of the paths. *)

(* Memory changes at entries of the paths m and n only, and none goes.      *)
Concerns(m, n) ==
  /\ Len(table) <= Len(table')
  /\ \A i \in 1..Len(table') :
       \/ /\ i <= Len(table) /\ EntryView(i)' = EntryView(i)
          /\ Bare[table'[i].name] = Bare[table[i].name]
       \/ /\ Bare[table'[i].name] \in {m, n}
          /\ i <= Len(table) => Bare[table[i].name] \in {m, n}

LEMMA OthersKeep ==
  ASSUME IInv, IInv', UNCHANGED disk, NEW m, NEW n, Concerns(m, n),
         NEW p \in Name, p \notin {m, n}
  PROVE  View(p)' = View(p) /\ (p \in Dirty' => p \in Dirty)
<1>0. Len(table) \in Nat /\ Len(table') \in Nat /\ Len(table) <= Len(table')
  <2>1. table \in Seq(Entry)
    BY DEF IInv, TypeOK
  <2>2. table' \in Seq(Entry)
    BY DEF IInv, TypeOK
  <2>3. Len(table) \in Nat /\ Len(table') \in Nat
    BY <2>1, <2>2
  <2>4. Len(table) <= Len(table')
    BY DEF Concerns
  <2>5. QED
    BY <2>3, <2>4
<1>1. \A i \in Entries(p)' : i \in Entries(p) /\ EntryView(i)' = EntryView(i)
  BY <1>0 DEF Concerns, Entries
<1>2. \A i \in Entries(p) : i \in Entries(p)'
  <2>1. ASSUME NEW i \in Entries(p) PROVE i \in Entries(p)'
    <3>1. i \in 1..Len(table) /\ Bare[table[i].name] = p
      BY DEF Entries
    <3>2. i \in 1..Len(table')
      BY <1>0, <3>1
    <3>3. Bare[table'[i].name] = p
      BY <3>1, <3>2 DEF Concerns
    <3>4. QED
      BY <3>2, <3>3 DEF Entries
  <2>2. QED
    BY <2>1
<1>3. Entries(p)' = Entries(p)
  BY <1>1, <1>2
<1>4. View(p)' = View(p)
  <2>1. CASE Entries(p) = {}
    BY <1>3, <2>1 DEF View
  <2>2. CASE Entries(p) # {}
    <3>1. First(Entries(p)) \in Entries(p)
      BY <2>2, FirstOf
    <3>2. First(Entries(p))' = First(Entries(p))
      BY <1>3
    <3>3. EntryView(First(Entries(p)))' = EntryView(First(Entries(p)))
      BY <1>1, <1>3, <3>1, <3>2
    <3>4. QED
      BY <1>3, <2>2, <3>3 DEF View
  <2>3. QED
    BY <2>1, <2>2
<1>5. DiskEntries(p)' = DiskEntries(p)
  BY DEF disk, DiskEntries, Loaded
<1>6. ASSUME NEW i \in Entries(p) \cup DiskEntries(p), Written(i) PROVE Written(i)'
  <2>1. i \in 1..MaxFiles \/ i \in 1..Len(table)
    BY DEF Entries, DiskEntries, Loaded
  <2>2. i \in 1..Len(table) /\ diskTable[i] # NoEntry
        /\ Bare[diskTable[i].name] = Bare[table[i].name]
        /\ DiskEntryView(i) = EntryView(i)
    BY <1>0, <1>6, <2>1, SizesAssumption DEF Written
  <2>3. i \in Entries(p)
    BY <2>2 DEF Entries, DiskEntries
  <2>4. EntryView(i)' = EntryView(i) /\ i <= Len(table')
    BY <1>0, <1>1, <1>3, <2>2, <2>3
  <2>5. Bare[table'[i].name] = p /\ Bare[table[i].name] = p
    BY <1>3, <2>3 DEF Entries
  <2>6. DiskEntryView(i)' = DiskEntryView(i) /\ diskTable' = diskTable
    BY DEF disk, DiskEntryView
  <2>7. QED
    BY <2>2, <2>4, <2>5, <2>6 DEF Written
<1>7. p \in Dirty' => p \in Dirty
  BY <1>3, <1>5, <1>6 DEF Dirty
<1>8. QED
  BY <1>4, <1>7

(* The variables of CrashStore. *)
Volatile == [n \in Name |-> IF Up THEN View(n) ELSE Missing]
Durable == [n \in Name |-> DiskView(n)]
Unsaved == IF Up THEN Dirty ELSE {}

LEMMA SameDisk ==
  ASSUME UNCHANGED disk
  PROVE  Durable' = Durable
BY DEF disk, Durable, DiskView, DiskEntries, DiskEntryView, Loaded

LEMMA Updates ==
  ASSUME IInv, IInv', UNCHANGED disk, Up, Up', Reads', Readable',
         NEW m \in Name, NEW n \in Name, Concerns(m, n)
  PROVE  Store!Update
<1>1. \A p \in Name : Volatile[p] = View(p) /\ Volatile'[p] = View(p)' /\ Durable'[p] = DiskView(p)'
  BY DEF Volatile, Durable
<1>2. Unsaved = Dirty /\ Unsaved' = Dirty' /\ Durable' = Durable
  BY SameDisk DEF Unsaved
<1>3. {p \in Name : Volatile'[p] # Volatile[p]} \cup (Unsaved' \ Unsaved) \subseteq {m, n}
  <2>1. ASSUME NEW p \in Name, p \notin {m, n}
        PROVE  Volatile'[p] = Volatile[p] /\ p \notin Unsaved' \ Unsaved
    BY <1>1, <1>2, <2>1, OthersKeep
  <2>2. Unsaved' \subseteq Name
    BY <1>2 DEF Dirty
  <2>3. QED
    BY <2>1, <2>2
<1>4. \A p \in Name \ Unsaved' : Durable'[p] = Volatile'[p]
  BY <1>1, <1>2 DEF Reads
<1>5. Volatile' \in [Name -> Bytes \cup {Missing}]
  <2>1. \A p \in Name : View(p)' \in Bytes \cup {Missing}
    BY DEF Readable
  <2>2. QED
    BY <2>1 DEF Volatile
<1>6. \E a, b \in Name :
         {p \in Name : Volatile'[p] # Volatile[p]} \cup (Unsaved' \ Unsaved) \subseteq {a, b}
  BY <1>3
<1>7. QED
  BY <1>2, <1>4, <1>5, <1>6
     DEF Store!Update, Store!CleanIsDurable, Volatile, Durable, Unsaved

(* Entry i is written: the disk keeps the other entries, takes this one     *)
(* from memory or keeps it, and one that was written reads as before.       *)
WritesEntry(i) ==
  /\ UNCHANGED ram
  /\ i \in 1..Len(table)
  /\ \A j \in 1..MaxFiles : j # i =>
       diskTable'[j] = diskTable[j] /\ diskData'[j] = diskData[j]
  /\ diskTable'[i] \in {diskTable[i], table[i]}
  /\ Written(i) => DiskEntryView(i)' = DiskEntryView(i)

LEMMA CleanKeep ==
  ASSUME IInv, IInv', Prefix, Prefix', NEW i, WritesEntry(i),
         NEW p \in Name, p \notin Dirty
  PROVE  p \notin Dirty'
<1> USE SizesAssumption
<1>0. table \in Seq(Entry) /\ Len(table) \in Nat /\ Len(table) <= MaxFiles /\ Len(table) = Len(table')
  BY DEF IInv, TypeOK, WritesEntry, ram
<1>1. /\ \A j : EntryView(j)' = EntryView(j)
      /\ Entries(p)' = Entries(p)
  BY DEF WritesEntry, ram, EntryView, SlotsOf, Entries
<1>2. i \in 1..MaxFiles /\ table[i] # NoEntry
  <2>1. table[i] \in Entry
    BY <1>0 DEF WritesEntry
  <2>2. QED
    BY <1>0, <2>1, NamesAssumption DEF WritesEntry
<1>3. \A j : j \in DiskEntries(p) <=>
               j \in 1..MaxFiles /\ diskTable[j] # NoEntry /\ Bare[diskTable[j].name] = p
  BY LoadedEntries DEF DiskEntries
<1>4. \A j : j \in DiskEntries(p)' =>
               j \in 1..MaxFiles /\ diskTable'[j] # NoEntry /\ Bare[diskTable'[j].name] = p
  <2>1. \A j \in Loaded' : j \in 1..MaxFiles /\ diskTable'[j] # NoEntry
    <3>1. ASSUME NEW j \in Loaded' PROVE j \in 1..MaxFiles /\ j \in 1..j
      BY DEF Loaded
    <3>2. QED
      BY <3>1 DEF Loaded
  <2>2. QED
    BY <2>1 DEF DiskEntries
<1>5. \A j \in Entries(p) \cup DiskEntries(p) : Written(j)
  BY DEF Dirty
<1>6. ASSUME NEW j \in Entries(p) \cup DiskEntries(p), Written(j) PROVE Written(j)'
  <2>1. j \in 1..MaxFiles
    BY <1>0, <1>3 DEF Entries
  <2>2. CASE j # i
    <3>1. diskTable'[j] = diskTable[j] /\ diskData'[j] = diskData[j]
      BY <2>1, <2>2 DEF WritesEntry
    <3>2. DiskEntryView(j)' = DiskEntryView(j)
      BY <3>1 DEF DiskEntryView
    <3>3. QED
      BY <1>1, <1>6, <3>1, <3>2 DEF Written, WritesEntry, ram
  <2>3. CASE j = i
    <3>1. DiskEntryView(i)' = DiskEntryView(i)
      BY <1>6, <2>3 DEF WritesEntry
    <3>2. diskTable'[i] # NoEntry /\ Bare[diskTable'[i].name] = Bare[table[i].name]
      BY <1>2, <1>6, <2>3 DEF WritesEntry, Written
    <3>3. table' = table
      BY DEF WritesEntry, ram
    <3>4. EntryView(i)' = EntryView(i) /\ DiskEntryView(i) = EntryView(i) /\ i <= Len(table)
      BY <1>1, <1>6, <2>3 DEF Written
    <3>5. QED
      BY <2>3, <3>1, <3>2, <3>3, <3>4 DEF Written
  <2>4. QED
    BY <2>2, <2>3
<1>7. \A j \in DiskEntries(p)' : j \in Entries(p) \cup DiskEntries(p)
  <2>1. ASSUME NEW j \in DiskEntries(p)', j # i PROVE j \in DiskEntries(p)
    BY <1>3, <1>4, <2>1 DEF WritesEntry
  <2>2. ASSUME i \in DiskEntries(p)', i \notin Entries(p) PROVE i \in DiskEntries(p)
    <3>1. Bare[table[i].name] # p
      BY <2>2 DEF Entries, WritesEntry
    <3>2. diskTable'[i] = diskTable[i]
      BY <1>4, <2>2, <3>1 DEF WritesEntry
    <3>3. QED
      BY <1>3, <1>4, <2>2, <3>2
  <2>3. QED
    BY <2>1, <2>2
<1>8. \A j \in Entries(p)' \cup DiskEntries(p)' : Written(j)'
  BY <1>1, <1>5, <1>6, <1>7
<1>9. QED
  BY <1>8 DEF Dirty

LEMMA Persists ==
  ASSUME IInv, IInv', Prefix, Prefix', Reads, Reads', Readable', Up, Up',
         NEW i, WritesEntry(i)
  PROVE  Store!Persist
<1>1. \A p \in Name : Volatile[p] = View(p) /\ Durable'[p] = DiskView(p)' /\ Durable[p] = DiskView(p)
  BY DEF Volatile, Durable
<1>2. Unsaved = Dirty /\ Unsaved' = Dirty'
  BY DEF Unsaved
<1>3. \A p : View(p)' = View(p)
  BY DEF WritesEntry, ram, View, EntryView, SlotsOf, Entries
<1>4. Volatile' = Volatile
  BY <1>3 DEF Volatile
<1>5. \A p \in Name \ Unsaved' : Durable'[p] = Volatile'[p]
  BY <1>1, <1>2, <1>3, <1>4 DEF Reads
<1>6. Unsaved' \subseteq Unsaved
  <2>1. Unsaved' \subseteq Name
    BY <1>2 DEF Dirty
  <2>2. QED
    BY <1>2, <2>1, CleanKeep
<1>7. \A p \in Name \ Unsaved : Durable'[p] = Durable[p]
  BY <1>1, <1>2, <1>4, <1>5, <1>6 DEF Reads
<1>8. Durable' \in [Name -> Bytes \cup {Missing}]
  <2>1. \A p \in Name : DiskView(p)' \in Bytes \cup {Missing}
    BY DEF Readable
  <2>2. QED
    BY <2>1 DEF Durable
<1>9. QED
  BY <1>4, <1>5, <1>6, <1>7, <1>8
     DEF Store!Persist, Store!CleanIsDurable, Volatile, Durable, Unsaved

-----------------------------------------------------------------------------
(* The invariant. *)

(* The table loop of a save has filled the sectors it has passed. *)
GapFree ==
  area = "table" => \A j \in 1..Len(table) : j < slot => diskTable[j] # NoEntry

(* The disk has no entry behind the last one in memory. *)
DiskShorter ==
  Up \/ pc = "contents" =>
    \A i \in 1..MaxFiles : diskTable[i] # NoEntry => i <= Len(table)

(* A save that runs before the tables are loaded saves an empty image over  *)
(* an empty one.                                                            *)
BlankSave ==
  /\ area # "none" /\ pc = "entries" =>
       table = <<>> /\ contents = <<>> /\ \A i \in 1..MaxFiles : diskTable[i] = NoEntry
  /\ pc = "contents" => area = "none"

SameEntry(i) ==
  /\ diskTable[i] # NoEntry
  /\ table[i] = [diskTable[i] EXCEPT !.name = Bare[diskTable[i].name]]

(* What is loaded is what the disk holds, entry by entry, then file by file. *)
LoadedSame ==
  /\ pc \in {"entries", "contents"} => \A i \in 1..Len(table) : SameEntry(i)
  /\ pc = "contents" =>
       \A i \in 1..Len(table) : i < cursor => EntryView(i) = DiskEntryView(i)

StoreInv == Prefix /\ GapFree /\ DiskShorter /\ BlankSave /\ LoadedSame

(* The abstract state stays as it is. *)
Unseen ==
  Volatile' = Volatile /\ Durable' = Durable /\ Unsaved' = Unsaved /\ Up' = Up

LEMMA UnseenWhileDown ==
  ASSUME UNCHANGED disk, ~Up, ~Up'
  PROVE  Unseen
<1>1. Volatile = [n \in Name |-> Missing] /\ Volatile' = [n \in Name |-> Missing]
  BY DEF Volatile
<1>2. Unsaved = {} /\ Unsaved' = {}
  BY DEF Unsaved
<1>3. Up' = Up
  BY DEF Up
<1>4. QED
  BY <1>1, <1>2, <1>3, SameDisk DEF Unseen

(* The loops of fs_load_from_disk. *)
LEMMA LoadEntryStores ==
  ASSUME IInv, StoreInv, LoadEntry
  PROVE  StoreInv' /\ Unseen
<1> USE SizesAssumption
<1>0. table \in Seq(Entry) /\ Len(table) \in Nat /\ cursor \in Nat \ {0} /\ Len(table) = cursor - 1
  BY DEF IInv, TypeOK, LoadShape, LoadEntry, BootStep
<1>1. /\ pc = "entries" /\ pc' = "entries" /\ area = "none" /\ area' = "none"
      /\ UNCHANGED disk /\ diskTable' = diskTable /\ cursor \in 1..MaxFiles /\ diskTable[cursor] # NoEntry
      /\ table' = Append(table, [diskTable[cursor] EXCEPT !.name = Bare[diskTable[cursor].name]])
  BY <1>0 DEF LoadEntry, BootStep, EntryPresent, Add, NextIteration, NoSave, saving, Quiet, disk
<1> DEFINE e == [diskTable[cursor] EXCEPT !.name = Bare[diskTable[cursor].name]]
<1>2. e \in Entry
  <2>1. diskTable[cursor] \in Entry
    BY <1>1 DEF IInv, TypeOK
  <2>2. Bare[diskTable[cursor].name] \in Name
    BY <2>1, NamesAssumption DEF Entry
  <2>3. QED
    BY <2>1, <2>2 DEF Entry
<1> HIDE DEF e
<1>3. /\ Len(table') = cursor
      /\ \A i \in 1..Len(table) : table'[i] = table[i]
      /\ table'[cursor] = e
  BY <1>0, <1>1, <1>2, AppendProperties DEF e
<1>4. \A i \in 1..Len(table') : SameEntry(i)'
  <2>1. ASSUME NEW i \in 1..Len(table') PROVE SameEntry(i)'
    <3>1. CASE i = cursor
      BY <1>1, <1>3, <3>1 DEF SameEntry, e
    <3>2. CASE i # cursor
      <4>1. i \in 1..Len(table)
        BY <1>0, <1>3, <3>2
      <4>2. SameEntry(i)
        BY <1>1, <4>1 DEF StoreInv, LoadedSame
      <4>3. QED
        BY <1>1, <1>3, <4>1, <4>2 DEF SameEntry
    <3>3. QED
      BY <3>1, <3>2
  <2>2. QED
    BY <2>1
<1>5. StoreInv'
  BY <1>1, <1>4 DEF StoreInv, Prefix, GapFree, DiskShorter, BlankSave, LoadedSame, Up
<1>6. QED
  BY <1>1, <1>5, UnseenWhileDown DEF Up

LEMMA LoadEntriesDoneStores ==
  ASSUME IInv, StoreInv, LoadEntriesDone
  PROVE  StoreInv' /\ Unseen
<1> USE SizesAssumption
<1>0. Len(table) \in Nat /\ cursor \in Nat \ {0} /\ Len(table) = cursor - 1
  BY DEF IInv, TypeOK, LoadShape, LoadEntriesDone, BootStep
<1>1. /\ pc = "entries" /\ pc' = "contents" /\ cursor' = 1 /\ area = "none" /\ area' = "none"
      /\ UNCHANGED disk /\ UNCHANGED ram
      /\ cursor > MaxFiles \/ diskTable[cursor] = NoEntry
  BY <1>0 DEF LoadEntriesDone, BootStep, EntryPresent, Goto, NoSave, saving, Quiet
<1>2. \A i \in 1..MaxFiles : diskTable[i] # NoEntry => i <= Len(table)
  <2>1. ASSUME NEW i \in 1..MaxFiles, diskTable[i] # NoEntry, cursor <= i PROVE FALSE
    <3>1. cursor \in 1..MaxFiles /\ (cursor < i \/ cursor = i)
      BY <1>0, <2>1
    <3>2. QED
      BY <1>1, <2>1, <3>1 DEF StoreInv, Prefix
  <2>2. QED
    BY <1>0, <2>1
<1>3. \A i \in 1..Len(table) : SameEntry(i)
  BY <1>1 DEF StoreInv, LoadedSame
<1>4. LoadedSame'
  BY <1>1, <1>3 DEF LoadedSame, SameEntry, disk, ram
<1>5. StoreInv'
  BY <1>1, <1>2, <1>4 DEF StoreInv, Prefix, GapFree, DiskShorter, BlankSave, disk, ram
<1>6. QED
  BY <1>1, <1>5, UnseenWhileDown DEF Up

(* The slots of the other entries are where they were. *)
OthersKept(i) ==
  \A j : j # i => /\ SlotsOf(j)' = SlotsOf(j)
                  /\ \A k \in SlotsOf(j) : contents'[k] = contents[k]

LEMMA AppendedSlot ==
  ASSUME contents \in Seq(Content), NEW s \in Content, contents' = Append(contents, s)
  PROVE  OthersKept(s.idx)
<1>1. /\ Len(contents) \in Nat /\ Len(contents') = Len(contents) + 1
      /\ \A k \in 1..Len(contents) : contents'[k] = contents[k]
      /\ contents'[Len(contents) + 1] = s
  BY AppendProperties
<1>2. QED
  BY <1>1 DEF OthersKept, SlotsOf

LEMMA SameView ==
  ASSUME TablesOK, NEW j, NEW i, OthersKept(i), j # i, table'[j].size = table[j].size
  PROVE  EntryView(j)' = EntryView(j)
<1>1. SlotsOf(j)' = SlotsOf(j) /\ \A k \in SlotsOf(j) : contents'[k] = contents[k]
  BY DEF OthersKept
<1>2. CASE SlotsOf(j) = {}
  BY <1>1, <1>2 DEF EntryView
<1>3. CASE SlotsOf(j) # {}
  <2>1. First(SlotsOf(j)) \in SlotsOf(j)
    BY <1>3, Found
  <2>2. First(SlotsOf(j))' = First(SlotsOf(j))
    BY <1>1
  <2>3. contents'[First(SlotsOf(j))] = contents[First(SlotsOf(j))]
    BY <1>1, <2>1
  <2>4. QED
    BY <1>1, <1>3, <2>2, <2>3 DEF EntryView
<1>4. QED
  BY <1>2, <1>3

LEMMA LoadContentStores ==
  ASSUME IInv, TagInv, StoreInv, LoadContent
  PROVE  StoreInv' /\ Unseen
<1> USE SizesAssumption, TypeParts
<1>0. /\ table \in Seq(Entry) /\ Len(table) \in Nat /\ Len(table) <= MaxFiles
      /\ contents \in Seq(Content) /\ TablesOK /\ cursor \in Nat \ {0} /\ DiskOK
  BY DEF IInv, TablesOK, TableOK, ContentsOK, ControlOK
<1>1. /\ pc = "contents" /\ pc' = "contents" /\ area = "none" /\ area' = "none"
      /\ UNCHANGED disk /\ table' = table /\ cursor \in 1..Len(table) /\ cursor' = cursor + 1
  BY <1>0 DEF LoadContent, BootStep, NextIteration, NoSave, saving, Quiet
<1> DEFINE e == table[cursor]
           s == [idx |-> cursor,
                 data |-> [r \in 1..e.size |-> diskData[cursor][r]]]
<1>2. /\ e.size \in 0..MaxBlocks /\ e.dir \in BOOLEAN
      /\ diskTable[cursor].size = e.size /\ diskTable[cursor].dir = e.dir
  <2>1. e.size \in 0..MaxBlocks /\ e.dir \in BOOLEAN
    BY <1>0, <1>1, EntryParts
  <2>2. SameEntry(cursor)
    BY <1>1 DEF StoreInv, LoadedSame
  <2>3. diskTable[cursor] \in Entry
    BY <1>0, <1>1, <2>2 DEF DiskOK, SameEntry
  <2>4. QED
    BY <2>1, <2>2, <2>3 DEF SameEntry, Entry
<1>3. contents' = IF e.size > 0 /\ ~e.dir THEN Append(contents, s) ELSE contents
  BY DEF LoadContent
<1> HIDE DEF e
<1>4. s \in Content /\ s.idx = cursor /\ s.data = [r \in 1..e.size |-> diskData[cursor][r]]
  <2>1. [r \in 1..e.size |-> diskData[cursor][r]] \in [1..e.size -> Block]
    BY <1>0, <1>1, <1>2 DEF DiskOK
  <2>2. [r \in 1..e.size |-> diskData[cursor][r]] \in Bytes
    BY <1>2, <2>1 DEF Bytes
  <2>3. cursor \in 1..MaxFiles
    BY <1>0, <1>1
  <2>4. s \in Content
    BY <2>2, <2>3, Zenon DEF Content
  <2>5. QED
    BY <2>4
<1> HIDE DEF s
<1>5. OthersKept(cursor)
  <2>1. CASE contents' = contents
    BY <2>1 DEF OthersKept, SlotsOf
  <2>2. CASE contents' = Append(contents, s)
    BY <1>0, <1>4, <2>2, AppendedSlot
  <2>3. QED
    BY <1>3, <2>1, <2>2
<1>6. SlotsOf(cursor) = {}
  BY <1>0, <1>1, ContentParts DEF TagInv, HalfLoaded, SlotsOf
<1>7. ASSUME NEW i, i = cursor PROVE EntryView(i)' = DiskEntryView(i)
  <2>1. CASE e.size > 0 /\ ~e.dir
    <3>1. /\ Len(contents') = Len(contents) + 1 /\ Len(contents) \in Nat
          /\ \A k \in 1..Len(contents) : contents'[k] = contents[k]
          /\ contents'[Len(contents) + 1] = s
      BY <1>0, <1>3, <1>4, <2>1, AppendProperties
    <3>2. \A k \in 1..Len(contents) : contents'[k].idx # i
      BY <1>6, <1>7, <3>1 DEF SlotsOf
    <3>3. SlotsOf(i)' = {Len(contents) + 1}
      BY <1>4, <1>7, <3>1, <3>2 DEF SlotsOf
    <3>4. First(SlotsOf(i)') = Len(contents) + 1
      BY <3>1, <3>3 DEF First
    <3>5. EntryView(i)' = s.data
      BY <3>1, <3>3, <3>4 DEF EntryView
    <3>6. DiskEntryView(i) = [r \in 1..e.size |-> diskData[i][r]]
      BY <1>2, <1>7, <2>1 DEF DiskEntryView
    <3>7. QED
      BY <1>4, <1>7, <3>5, <3>6
  <2>2. CASE ~(e.size > 0 /\ ~e.dir)
    <3>1. contents' = contents
      BY <1>3, <2>2
    <3>2. e.size = 0 \/ e.dir
      BY <1>2, <2>2
    <3>3. SlotsOf(i)' = {}
      BY <1>6, <1>7, <3>1 DEF SlotsOf
    <3>4. table'[i].size = e.size
      BY <1>1, <1>7 DEF e
    <3>5. EntryView(i)' = IF e.size = 0 THEN <<>> ELSE Missing
      BY <3>3, <3>4 DEF EntryView
    <3>6. DiskEntryView(i) = IF e.size = 0 THEN <<>> ELSE Missing
      BY <1>2, <1>7, <3>2 DEF DiskEntryView
    <3>7. QED
      BY <3>5, <3>6
  <2>3. QED
    BY <2>1, <2>2
<1>8. ASSUME NEW i \in 1..Len(table), i < cursor'
      PROVE  EntryView(i)' = DiskEntryView(i)'
  <2>1. DiskEntryView(i)' = DiskEntryView(i)
    BY <1>1 DEF disk, DiskEntryView
  <2>2. CASE i = cursor
    BY <1>7, <2>1, <2>2
  <2>3. CASE i # cursor
    <3>1. EntryView(i)' = EntryView(i)
      BY <1>0, <1>1, <1>5, <2>3, SameView
    <3>2. i < cursor
      BY <1>0, <1>1, <1>8, <2>3
    <3>3. QED
      BY <1>1, <2>1, <3>1, <3>2 DEF StoreInv, LoadedSame
  <2>4. QED
    BY <2>2, <2>3
<1>9. LoadedSame'
  BY <1>1, <1>8 DEF StoreInv, LoadedSame, SameEntry, disk
<1>10. StoreInv'
  BY <1>1, <1>9 DEF StoreInv, Prefix, GapFree, DiskShorter, BlankSave, disk, Up
<1>11. QED
  BY <1>1, <1>10, UnseenWhileDown DEF Up

-----------------------------------------------------------------------------
(* The sectors of a save. *)

LEMMA SavesWhileUp ==
  ASSUME IInv, StoreInv, area # "none"
  PROVE  pc \in Stage /\ (Up \/ (pc = "entries" /\ table = <<>> /\ contents = <<>>))
BY DEF IInv, TypeOK, LoadShape, StoreInv, BlankSave, Up

LEMMA GapStep ==
  ASSUME IInv, GapFree, UNCHANGED ram,
         EndSave \/ (Advance /\ (area = "table" /\ slot <= Len(table)
                                   => diskTable'[slot] # NoEntry)),
         \A j \in 1..Len(table) : diskTable[j] # NoEntry => diskTable'[j] # NoEntry
  PROVE  GapFree'
<1>0. slot \in Nat \ {0} /\ Len(table) \in Nat /\ table' = table
  BY DEF IInv, TypeOK, ram
<1> SUFFICES ASSUME area' = "table", NEW j \in 1..Len(table), j < slot'
             PROVE  diskTable'[j] # NoEntry
  BY <1>0 DEF GapFree
<1>1. \/ slot' = 1
      \/ /\ area = "table" /\ slot' = slot + 1
         /\ slot <= Len(table) => diskTable'[slot] # NoEntry
  BY DEF EndSave, Advance
<1>2. CASE slot' = 1
  BY <1>0, <1>2
<1>3. CASE area = "table" /\ slot' = slot + 1 /\ j < slot
  BY <1>3 DEF GapFree
<1>4. CASE area = "table" /\ slot' = slot + 1 /\ j = slot
  BY <1>1, <1>4, <1>0
<1>5. QED
  BY <1>0, <1>1, <1>2, <1>3, <1>4

(* Sectors without entries, errors, and the clearing of unused sectors.     *)
LEMMA SameSectorsStore ==
  ASSUME IInv, StoreInv, area # "none", UNCHANGED <<table, contents, pc>>,
         UNCHANGED <<diskTable, diskData>>,
         EndSave \/ (Advance /\ (area = "table" => slot > Len(table)))
  PROVE  StoreInv' /\ Unseen
<1>1. GapFree'
  <2>1. slot \in Nat /\ Len(table) \in Nat /\ (slot > Len(table) => ~(slot <= Len(table)))
    BY DEF IInv, TypeOK
  <2>2. QED
    BY <2>1, GapStep DEF StoreInv, ram
<1>2. Up \/ (pc = "entries" /\ table = <<>>)
  BY SavesWhileUp
<1>3. StoreInv'
  BY <1>1, <1>2 DEF StoreInv, Prefix, DiskShorter, BlankSave, LoadedSame, Up
<1>4. Up' = Up
  BY DEF Up
<1>5. /\ \A n : DiskView(n)' = DiskView(n) /\ DiskEntries(n)' = DiskEntries(n)
      /\ \A i : DiskEntryView(i)' = DiskEntryView(i)
  BY DEF DiskView, DiskEntries, DiskEntryView, Loaded
<1>6. /\ \A n : View(n)' = View(n) /\ Entries(n)' = Entries(n)
      /\ \A i : EntryView(i)' = EntryView(i)
  BY DEF View, EntryView, SlotsOf, Entries
<1>7. \A i : Written(i)' = Written(i)
  BY <1>5, <1>6 DEF Written
<1>8. Dirty' = Dirty
  BY <1>5, <1>6, <1>7 DEF Dirty
<1>9. QED
  BY <1>3, <1>4, <1>5, <1>6, <1>8 DEF Unseen, Volatile, Durable, Unsaved

(* A sector of an entry leaves the disk without a gap. *)
LEMMA EntrySectorStores ==
  ASSUME IInv, StoreInv, area # "none", UNCHANGED pc, Up, Advance,
         NEW i, WritesEntry(i), diskTable'[i] = diskTable[i] \/ i = slot,
         area = "table" => i = slot /\ diskTable'[i] # NoEntry,
         diskTable' = diskTable \/ area = "table"
  PROVE  StoreInv'
<1> USE SizesAssumption
<1>0. /\ Len(table) \in Nat /\ Len(table) <= MaxFiles /\ table' = table /\ contents' = contents
      /\ i \in 1..MaxFiles /\ i \in 1..Len(table) /\ slot \in Nat
  BY DEF IInv, TypeOK, WritesEntry, ram
<1>1. \A j \in 1..MaxFiles : j # i => diskTable'[j] = diskTable[j]
  BY DEF WritesEntry
<1>2. \A j \in 1..MaxFiles : diskTable[j] # NoEntry => diskTable'[j] # NoEntry
  BY <1>1
<1>3. GapFree'
  <2>1. UNCHANGED ram /\ GapFree
    BY DEF WritesEntry, StoreInv
  <2>2. area = "table" /\ slot <= Len(table) => diskTable'[slot] # NoEntry
    OBVIOUS
  <2>3. \A j \in 1..Len(table) : diskTable[j] # NoEntry => diskTable'[j] # NoEntry
    BY <1>0, <1>2
  <2>4. QED
    BY <2>1, <2>2, <2>3, GapStep
<1>4. Prefix'
  <2>1. CASE diskTable' = diskTable
    BY <2>1 DEF StoreInv, Prefix
  <2>2. CASE area = "table"
    <3>1. \A j \in 1..MaxFiles : j < i => diskTable[j] # NoEntry
      BY <1>0, <2>2 DEF StoreInv, GapFree
    <3>2. QED
      BY <1>1, <1>2, <3>1 DEF StoreInv, Prefix
  <2>3. QED
    BY <2>1, <2>2
<1>5. DiskShorter'
  BY <1>0, <1>1 DEF StoreInv, DiskShorter
<1>6. BlankSave' /\ LoadedSame'
  BY DEF Up, BlankSave, LoadedSame
<1>7. QED
  BY <1>3, <1>4, <1>5, <1>6 DEF StoreInv

(* A table sector gives the entry its record; if it was written, the record *)
(* on the disk differs at most in what no view shows.                       *)
LEMMA TableSectorWrites ==
  ASSUME IInv, TagInv, Up, WriteTableSector, slot <= Len(table)
  PROVE  /\ WritesEntry(slot) /\ Advance /\ UNCHANGED pc
         /\ diskTable'[slot] # NoEntry
<1> USE SizesAssumption, TypeParts
<1>0. /\ table \in Seq(Entry) /\ contents \in Seq(Content) /\ TablesOK
      /\ slot \in 1..Len(table) /\ slot \in 1..MaxFiles /\ DiskOK
  BY DEF IInv, TablesOK, TableOK, ContentsOK, PositionOK, WriteTableSector
<1>1. /\ diskTable' = [diskTable EXCEPT ![slot] = table[slot]] /\ diskData' = diskData
      /\ Advance /\ UNCHANGED pc /\ UNCHANGED ram
  BY DEF WriteTableSector, kernel, ram
<1>2. diskTable'[slot] = table[slot] /\ \A j \in 1..MaxFiles : j # slot => diskTable'[j] = diskTable[j]
  BY <1>0, <1>1 DEF DiskOK
<1>3. table[slot] # NoEntry
  <2>1. table[slot] \in Entry
    BY <1>0
  <2>2. QED
    BY <2>1, NamesAssumption
<1>4. Tied(table, contents) /\ AllFilled(table, contents)
  BY DEF TagInv
<1>5. ASSUME NEW i, i = slot, Written(i) PROVE DiskEntryView(i)' = DiskEntryView(i)
  <2> DEFINE z == table[i].size
             y == diskTable[i].size
  <2>1. z \in 0..MaxBlocks /\ table[i].dir \in BOOLEAN
    BY <1>0, <1>5, EntryParts
  <2>2. diskTable[i] # NoEntry /\ DiskEntryView(i) = EntryView(i)
    BY <1>5 DEF Written
  <2>3. y \in 0..MaxBlocks /\ diskTable[i].dir \in BOOLEAN
    BY <1>0, <1>5, <2>2 DEF DiskOK, Entry
  <2>4. DiskEntryView(i)' = IF z = 0 THEN <<>> ELSE IF table[i].dir THEN Missing
                            ELSE [s \in 1..z |-> diskData[i][s]]
    BY <1>1, <1>2, <1>5 DEF DiskEntryView
  <2>5. DiskEntryView(i) = IF y = 0 THEN <<>> ELSE IF diskTable[i].dir THEN Missing
                           ELSE [s \in 1..y |-> diskData[i][s]]
    BY DEF DiskEntryView
  <2> HIDE DEF y
  <2>6. CASE SlotsOf(i) = {}
    <3>1. z = 0 \/ table[i].dir
      <4>1. ~Has(contents, i)
        BY <1>0, <2>6, Found
      <4>2. z = 0 \/ z > 0
        BY <2>1
      <4>3. Filled(table, contents, i)
        BY <1>0, <1>4, <1>5 DEF AllFilled
      <4>4. QED
        BY <4>1, <4>2, <4>3, Zenon DEF Filled
    <3>2. EntryView(i) = IF z = 0 THEN <<>> ELSE Missing
      BY <2>6 DEF EntryView
    <3>3. QED
      BY <2>2, <2>4, <3>1, <3>2
  <2>7. CASE SlotsOf(i) # {}
    <3> DEFINE k == First(SlotsOf(i))
               d == contents[k].data
    <3>1. k \in 1..Len(contents) /\ contents[k].idx = i
      BY <1>0, <2>7, Found DEF SlotsOf
    <3>2. EntryView(i) = d
      BY <2>7 DEF EntryView
    <3> HIDE DEF k
    <3>3. ~table[i].dir /\ Len(d) = z
      BY <1>4, <3>1 DEF Tied, Fits
    <3>4. d \in Bytes /\ d \in Seq(Block) /\ d # Missing
      BY <1>0, <3>1, ContentParts, BytesAreSequences, DataAssumption
    <3> HIDE DEF d, z
    <3>5. CASE z = 0
      <4>1. d = <<>>
        BY <3>3, <3>4, <3>5, EmptySeq
      <4>2. QED
        BY <2>2, <2>4, <3>2, <3>5, <4>1
    <3>6. CASE z # 0
      <4>1. d # <<>>
        BY <3>3, <3>6, EmptySeq
      <4>2. d = [s \in 1..y |-> diskData[i][s]]
        BY <2>2, <2>5, <3>2, <3>4, <4>1
      <4>3. d \in [1..z -> Block]
        BY <3>3, <3>4, LenProperties
      <4>4. 1..y = 1..z
        BY <4>2, <4>3
      <4>5. QED
        BY <2>2, <2>4, <3>2, <3>3, <3>6, <4>2, <4>4
    <3>7. QED
      BY <3>5, <3>6
  <2>8. QED
    BY <2>6, <2>7
<1>6. ASSUME NEW i, i = slot PROVE WritesEntry(i)
  BY <1>0, <1>1, <1>2, <1>5, <1>6 DEF WritesEntry
<1>7. QED
  BY <1>1, <1>2, <1>3, <1>6

(* A content sector goes to the entry its slot claims, which no other slot  *)
(* does; if the entry was written, the sector holds what it held or lies    *)
(* behind the end of the file.                                              *)
LEMMA DataSectorWrites ==
  ASSUME IInv, TagInv, Up, WriteDataSector, NEW i, i = contents[slot].idx
  PROVE  WritesEntry(i) /\ Advance /\ UNCHANGED pc /\ UNCHANGED diskTable
<1> USE SizesAssumption, TypeParts
<1> DEFINE d == contents[slot].data
<1>0. /\ table \in Seq(Entry) /\ contents \in Seq(Content) /\ TablesOK /\ DiskOK
      /\ slot \in 1..Len(contents) /\ sector \in 1..MaxBlocks
      /\ Len(table) \in Nat /\ Len(table) <= MaxFiles
  BY DEF IInv, TablesOK, TableOK, ContentsOK, PositionOK, WriteDataSector
<1>1. /\ diskTable' = diskTable /\ Advance /\ UNCHANGED pc /\ UNCHANGED ram
      /\ diskData' = [diskData EXCEPT ![i][sector] =
                        IF sector <= Len(d) THEN d[sector] ELSE ZeroBlock]
  BY DEF WriteDataSector, kernel, ram
<1>2. i \in 1..MaxFiles /\ d \in Bytes /\ d \in Seq(Block) /\ d # Missing
  BY <1>0, ContentParts, BytesAreSequences, DataAssumption
<1>3. i \in 1..Len(table) /\ ~table[i].dir /\ Len(d) = table[i].size
  BY <1>0, <1>2 DEF TagInv, Tied, Fits
<1>4. First(SlotsOf(i)) = slot /\ SlotsOf(i) # {}
  <2>1. SlotsOf(i) = {slot}
    BY <1>0 DEF SlotsOf, TagInv, Tied, TagsApart
  <2>2. QED
    BY <1>0, <2>1 DEF First
<1>5. EntryView(i) = d
  BY <1>4 DEF EntryView
<1>6. \A j \in 1..MaxFiles : j # i => diskData'[j] = diskData[j]
  BY <1>0, <1>1, <1>2 DEF DiskOK
<1>7. \A s \in 1..MaxBlocks : diskData'[i][s] =
         IF s = sector THEN IF sector <= Len(d) THEN d[sector] ELSE ZeroBlock
                       ELSE diskData[i][s]
  BY <1>0, <1>1, <1>2 DEF DiskOK
<1> HIDE DEF d
<1>8. ASSUME Written(i) PROVE DiskEntryView(i)' = DiskEntryView(i)
  <2> DEFINE y == diskTable[i].size
  <2>1. diskTable[i] # NoEntry /\ DiskEntryView(i) = d
    BY <1>5, <1>8 DEF Written
  <2>2. y \in 0..MaxBlocks
    BY <1>0, <1>2, <2>1 DEF DiskOK, Entry
  <2>3. DiskEntryView(i)' = IF y = 0 THEN <<>> ELSE IF diskTable[i].dir THEN Missing
                            ELSE [s \in 1..y |-> diskData'[i][s]]
    BY <1>1 DEF DiskEntryView
  <2>4. DiskEntryView(i) = IF y = 0 THEN <<>> ELSE IF diskTable[i].dir THEN Missing
                           ELSE [s \in 1..y |-> diskData[i][s]]
    BY DEF DiskEntryView
  <2> HIDE DEF y
  <2>5. CASE y = 0
    BY <2>3, <2>4, <2>5
  <2>6. CASE y # 0
    <3>1. ~diskTable[i].dir
      BY <1>2, <2>1, <2>4, <2>6
    <3>2. d = [s \in 1..y |-> diskData[i][s]]
      BY <2>1, <2>4, <2>6, <3>1
    <3>3. d \in [1..Len(d) -> Block] /\ Len(d) \in Nat
      BY <1>2, LenProperties
    <3>4. 1..y = 1..Len(d)
      BY <3>2, <3>3
    <3>5. \A s \in 1..y : s \in 1..MaxBlocks /\ s <= Len(d) /\ diskData[i][s] = d[s]
      BY <2>2, <3>2, <3>3, <3>4
    <3>6. \A s \in 1..y : diskData'[i][s] = diskData[i][s]
      BY <1>7, <3>5
    <3>7. QED
      BY <2>3, <2>4, <2>6, <3>1, <3>6
  <2>7. QED
    BY <2>5, <2>6
<1>9. QED
  BY <1>1, <1>3, <1>6, <1>8 DEF WritesEntry

LEMMA SaveStores ==
  ASSUME IInv, TagInv, StoreInv, SaveStep \/ WriteFails
  PROVE  /\ StoreInv'
         /\ Unseen \/ (Up /\ Up' /\ \E i : WritesEntry(i))
<1>0. Len(table) \in Nat /\ slot \in Nat /\ area # "none" /\ UNCHANGED <<table, contents, pc>>
  <2>1. area # "none"
    BY FailuresAssumption DEF SaveStep, WriteVolume, WriteTableSector, WriteDataSector,
       WriteOtherSector, WriteFails
  <2>2. UNCHANGED <<table, contents, pc>>
    BY DEF SaveStep, WriteVolume, WriteTableSector, WriteDataSector,
       WriteOtherSector, WriteFails, kernel
  <2>3. QED
    BY <2>1, <2>2 DEF IInv, TypeOK
<1>1. Up \/ (pc = "entries" /\ table = <<>> /\ contents = <<>>)
  BY <1>0, SavesWhileUp
<1>2. CASE WriteVolume \/ WriteOtherSector
  <2>1. UNCHANGED <<diskTable, diskData>> /\ Advance /\ area # "table"
    BY <1>2 DEF WriteVolume, WriteOtherSector, disk
  <2>2. QED
    BY <1>0, <2>1, SameSectorsStore
<1>3. CASE WriteFails
  <2>1. UNCHANGED <<diskTable, diskData>> /\ (IF CriticalWrite THEN EndSave ELSE Advance)
    BY <1>3 DEF WriteFails, disk
  <2>2. EndSave \/ (Advance /\ (area = "table" => slot > Len(table)))
    BY <1>0, <2>1 DEF CriticalWrite
  <2>3. QED
    BY <1>0, <2>1, <2>2, SameSectorsStore
<1>4. CASE WriteTableSector /\ slot > Len(table)
  <2> USE TypeParts
  <2>1. /\ area = "table" /\ slot \in 1..MaxFiles
        /\ diskTable \in [1..MaxFiles -> Entry \cup {NoEntry}]
    BY <1>4, SizesAssumption DEF WriteTableSector, IInv, PositionOK, DiskOK
  <2>2. diskTable[slot] = NoEntry
    BY <1>0, <1>1, <1>4, <2>1 DEF StoreInv, DiskShorter, BlankSave
  <2>3. /\ Advance /\ diskData' = diskData
        /\ diskTable' = [diskTable EXCEPT ![slot] = NoEntry]
    <3>1. ~(slot <= Len(table))
      BY <1>0, <1>4
    <3>2. QED
      BY <1>4, <3>1, Zenon DEF WriteTableSector
  <2>4. diskTable' = diskTable
    BY <2>1, <2>2, <2>3
  <2>5. QED
    BY <1>0, <1>4, <2>3, <2>4, SameSectorsStore
<1>5. CASE WriteTableSector /\ slot <= Len(table)
  <2>1. slot \in Nat \ {0} /\ area = "table"
    BY <1>5 DEF IInv, TypeOK, WriteTableSector
  <2>2. Up
    <3>1. table # <<>>
      BY <1>0, <1>5, <2>1
    <3>2. QED
      BY <1>1, <3>1
  <2>3. /\ WritesEntry(slot) /\ Advance /\ UNCHANGED pc
        /\ diskTable'[slot] # NoEntry
    BY <1>5, <2>2, TableSectorWrites
  <2>4. Up'
    BY <2>2, <2>3 DEF Up
  <2>5. ASSUME NEW i, i = slot PROVE StoreInv'
    BY <1>0, <2>1, <2>2, <2>3, <2>5, EntrySectorStores
  <2>6. QED
    BY <2>2, <2>3, <2>4, <2>5
<1>6. CASE WriteDataSector
  <2>1. area = "data" /\ slot \in 1..Len(contents)
    BY <1>0, <1>6 DEF IInv, TypeOK, WriteDataSector
  <2>2. Up
    <3>1. contents # <<>>
      BY <2>1
    <3>2. QED
      BY <1>1, <3>1
  <2>3. PICK i : i = contents[slot].idx
    OBVIOUS
  <2>4. WritesEntry(i) /\ Advance /\ UNCHANGED pc /\ UNCHANGED diskTable
    BY <1>6, <2>2, <2>3, DataSectorWrites
  <2>5. StoreInv'
    BY <1>0, <2>1, <2>2, <2>4, EntrySectorStores
  <2>6. Up'
    BY <2>2, <2>4 DEF Up
  <2>7. QED
    BY <2>2, <2>4, <2>5, <2>6
<1>7. WriteTableSector => slot > Len(table) \/ slot <= Len(table)
  BY <1>0
<1>8. QED
  BY <1>2, <1>3, <1>4, <1>5, <1>6, <1>7 DEF SaveStep

-----------------------------------------------------------------------------
(* The steps that change memory. *)

(* Entry i is new or has another record or other bytes; the others keep     *)
(* theirs.                                                                  *)
Touches(i) ==
  /\ Len(table) <= Len(table')
  /\ \A j \in 1..Len(table') : j # i => j <= Len(table) /\ table'[j] = table[j]
  /\ OthersKept(i)

LEMMA TouchesConcerns ==
  ASSUME TablesOK, NEW i \in Nat, Touches(i), NEW m, NEW n,
         i \in 1..Len(table') => Bare[table'[i].name] \in {m, n},
         i \in 1..Len(table) => Bare[table[i].name] \in {m, n}
  PROVE  Concerns(m, n)
<1>1. Len(table) \in Nat /\ Len(table) <= Len(table')
  BY DEF TablesOK, TableOK, Touches
<1>2. ASSUME NEW j \in 1..Len(table'), j # i
      PROVE  /\ j <= Len(table) /\ EntryView(j)' = EntryView(j)
             /\ Bare[table'[j].name] = Bare[table[j].name]
  <2>1. j <= Len(table) /\ table'[j] = table[j] /\ OthersKept(i)
    BY <1>2 DEF Touches
  <2>2. EntryView(j)' = EntryView(j)
    BY <1>2, <2>1, SameView
  <2>3. QED
    BY <2>1, <2>2
<1>3. ASSUME i \in 1..Len(table')
      PROVE  Bare[table'[i].name] \in {m, n} /\ (i <= Len(table) => Bare[table[i].name] \in {m, n})
  BY <1>1, <1>3
<1>4. QED
  BY <1>1, <1>2, <1>3 DEF Concerns

LEMMA NothingConcerns ==
  ASSUME TablesOK, UNCHANGED ram, NEW m
  PROVE  Concerns(m, m)
BY DEF TablesOK, TableOK, ram, Concerns, EntryView, SlotsOf

LEMMA StoredSlot ==
  ASSUME TablesOK, NEW i \in 1..MaxFiles, NEW d \in Bytes,
         StoreBytes(i, d) \/ UNCHANGED contents
  PROVE  OthersKept(i)
<1>0. contents \in Seq(Content)
  BY DEF TablesOK, ContentsOK
<1>1. CASE UNCHANGED contents
  BY <1>1 DEF OthersKept, SlotsOf
<1>2. CASE StoreBytes(i, d) /\ SlotsOf(i) = {}
  <2> DEFINE s == [idx |-> i, data |-> d]
  <2>1. s \in Content /\ s.idx = i /\ contents' = Append(contents, s)
    BY <1>2, Zenon DEF Content, StoreBytes
  <2> HIDE DEF s
  <2>2. QED
    BY <1>0, <2>1, AppendedSlot
<1>3. CASE StoreBytes(i, d) /\ SlotsOf(i) # {}
  <2> DEFINE l == First(SlotsOf(i))
             s == [contents[l] EXCEPT !.data = d]
  <2>1. l \in 1..Len(contents) /\ contents[l].idx = i /\ contents[l] \in Content
    <3>1. l \in 1..Len(contents) /\ contents[l].idx = i
      BY <1>3, Found DEF SlotsOf
    <3>2. QED
      BY <1>0, <3>1, ElementOfSeq
  <2>2. contents' = [contents EXCEPT ![l].data = d]
    BY <1>3 DEF StoreBytes
  <2> HIDE DEF l
  <2>3. s \in Content /\ s.idx = i
    BY <2>1 DEF Content
  <2>4. contents' = [contents EXCEPT ![l] = s]
    BY <2>2
  <2> HIDE DEF s
  <2>5. Len(contents') = Len(contents)
    BY <1>0, <2>1, <2>3, <2>4, ExceptSeq
  <2>6. \A k \in 1..Len(contents) : contents'[k] = IF k = l THEN s ELSE contents[k]
    BY <1>0, <2>1, <2>3, <2>4, ExceptSeq
  <2>7. QED
    BY <2>1, <2>3, <2>5, <2>6 DEF OthersKept, SlotsOf
<1>4. QED
  BY <1>1, <1>2, <1>3

LEMMA NewEntryConcerns ==
  ASSUME TablesOK, NEW n \in Name, NEW k \in 0..MaxBlocks, NEW dir \in BOOLEAN,
         HasRoom, Add(NewEntry(n, k, dir)), OthersKept(Len(table) + 1)
  PROVE  Concerns(Bare[n], Bare[n])
<1> DEFINE e == NewEntry(n, k, dir)
           i == Len(table) + 1
<1>0. table \in Seq(Entry) /\ Len(table) \in Nat
  BY DEF TablesOK, TableOK
<1>1. e \in Entry /\ e.name = n
  BY NewEntryOK DEF NewEntry
<1> HIDE DEF e
<1>2. /\ Len(table') = i /\ table'[i] = e
      /\ \A j \in 1..Len(table) : table'[j] = table[j]
  BY <1>0, <1>1, AppendProperties DEF Add, e
<1>3. Touches(i)
  BY <1>0, <1>2 DEF Touches
<1>4. Bare[table'[i].name] = Bare[n] /\ i \notin 1..Len(table) /\ i \in Nat
  BY <1>0, <1>1, <1>2
<1> HIDE DEF i
<1>5. QED
  BY <1>3, <1>4, TouchesConcerns

LEMMA RecordConcerns ==
  ASSUME TablesOK, NEW i \in 1..Len(table), NEW e \in Entry,
         Replaced(table, i, e, table'), OthersKept(i)
  PROVE  Concerns(Bare[table[i].name], Bare[e.name])
<1>0. Len(table) \in Nat
  BY DEF TablesOK, TableOK
<1>1. Len(table') = Len(table) /\ \A j \in 1..Len(table) : table'[j] = IF j = i THEN e ELSE table[j]
  BY DEF Replaced
<1>2. Touches(i)
  BY <1>0, <1>1 DEF Touches
<1>3. QED
  BY <1>0, <1>1, <1>2, TouchesConcerns

LEMMA SizeConcerns ==
  ASSUME TablesOK, NEW i \in 1..Len(table), NEW d \in Bytes,
         table' = [table EXCEPT ![i].size = Len(d)], OthersKept(i)
  PROVE  Concerns(Bare[table[i].name], Bare[table[i].name])
<1> DEFINE e == [table[i] EXCEPT !.size = Len(d)]
<1>0. table \in Seq(Entry)
  BY DEF TablesOK, TableOK
<1>1. e \in Entry /\ e.name = table[i].name
  <2>1. table[i] \in Entry /\ Len(d) \in 0..MaxBlocks
    BY <1>0, ElementOfSeq, BytesAreSequences
  <2>2. QED
    BY <2>1 DEF Entry
<1>2. table' = [table EXCEPT ![i] = e]
  OBVIOUS
<1> HIDE DEF e
<1>3. Replaced(table, i, e, table')
  <2>1. Replaced(table, i, e, [table EXCEPT ![i] = e])
    BY <1>0, <1>1, ReplacedOK
  <2>2. QED
    BY <1>2, <2>1, Zenon
<1>4. Concerns(Bare[table[i].name], Bare[e.name])
  BY <1>1, <1>3, RecordConcerns
<1>5. QED
  BY <1>1, <1>4

LEMMA StoreConcerns ==
  ASSUME TablesOK, NEW n \in Name, NEW d \in Bytes,
         Named(n) # {} \/ HasRoom, StoreEntry(n, d),
         StoreBytes(SlotIndex(n), d) \/ UNCHANGED contents
  PROVE  Concerns(Bare[n], Bare[n])
<1>0. Len(table) \in Nat /\ Len(table) <= MaxFiles
  BY DEF TablesOK, TableOK
<1>1. SlotIndex(n) \in 1..MaxFiles
  BY StoreEntryOK DEF TablesOK
<1>2. OthersKept(SlotIndex(n))
  BY <1>1, StoredSlot
<1>3. Len(d) \in 0..MaxBlocks
  BY BytesAreSequences
<1>4. CASE Named(n) = {}
  <2>1. SlotIndex(n) = Len(table) + 1 /\ Add(NewEntry(n, Len(d), FALSE)) /\ HasRoom
    BY <1>4 DEF SlotIndex, StoreEntry
  <2>2. QED
    BY <1>2, <1>3, <2>1, NewEntryConcerns
<1>5. CASE Named(n) # {}
  <2> DEFINE i == First(Named(n))
  <2>1. i \in 1..Len(table) /\ table[i].name = n /\ SlotIndex(n) = i
    BY <1>5, Found DEF Named, SlotIndex
  <2>2. table' = [table EXCEPT ![i].size = Len(d)]
    BY <1>5 DEF StoreEntry
  <2> HIDE DEF i
  <2>3. Concerns(Bare[table[i].name], Bare[table[i].name])
    BY <1>2, <2>1, <2>2, SizeConcerns
  <2>4. QED
    BY <2>1, <2>3
<1>6. QED
  BY <1>4, <1>5

(* One path, or two. *)
Narrow == \E m, n \in Name : Concerns(m, n)

LEMMA OnePath ==
  ASSUME NEW n \in Name, Concerns(Bare[n], Bare[n])
  PROVE  Narrow
BY NamesAssumption DEF Narrow

LEMMA NoPath ==
  ASSUME TablesOK, UNCHANGED ram
  PROVE  Narrow
BY NothingConcerns, NamesAssumption DEF Narrow

LEMMA SaveFileContentNarrow ==
  ASSUME TablesOK, NEW n \in Name, NEW d \in Bytes, SaveFileContent(n, d)
  PROVE  Narrow
<1>1. CASE UNCHANGED ram
  BY <1>1, NoPath
<1>2. CASE ~UNCHANGED ram
  <2>1. /\ Named(n) # {} \/ HasRoom
        /\ StoreEntry(n, d)
        /\ StoreBytes(SlotIndex(n), d) \/ UNCHANGED contents
    BY <1>2 DEF SaveFileContent
  <2>2. QED
    BY <2>1, StoreConcerns, OnePath
<1>3. QED
  BY <1>1, <1>2

LEMMA EmptyEntryNarrow ==
  ASSUME TablesOK, NEW n \in Name, NEW dir \in BOOLEAN, UNCHANGED contents,
         (HasRoom /\ Add(NewEntry(n, 0, dir))) \/ UNCHANGED table
  PROVE  Narrow
<1>1. CASE UNCHANGED table
  BY <1>1, NoPath DEF ram
<1>2. CASE HasRoom /\ Add(NewEntry(n, 0, dir))
  <2>1. OthersKept(Len(table) + 1)
    BY DEF OthersKept, SlotsOf
  <2>2. 0 \in 0..MaxBlocks
    BY SizesAssumption
  <2>3. QED
    BY <1>2, <2>1, <2>2, NewEntryConcerns, OnePath
<1>3. QED
  BY <1>1, <1>2

LEMMA NanoNarrow ==
  ASSUME TablesOK, NEW n \in Name, NEW d \in Bytes, Nano(n, d)
  PROVE  Narrow
<1> DEFINE i == IF Files(n) = {} THEN Len(table) + 1 ELSE First(Files(n))
<1>0. Len(table) \in Nat /\ Len(table) <= MaxFiles /\ Len(d) \in 0..MaxBlocks
  BY BytesAreSequences DEF TablesOK, TableOK
<1>1. i <= MaxFiles /\ StoreBytes(i, d)
  BY DEF Nano
<1>2. CASE Files(n) = {}
  <2>1. i = Len(table) + 1
    BY <1>2
  <2>2. HasRoom /\ Add(NewEntry(n, Len(d), FALSE))
    <3>1. HasRoom
      BY <1>0, <1>1, <2>1, SizesAssumption DEF HasRoom
    <3>2. Add(NewEntry(n, Len(d), FALSE))
      BY <1>2 DEF Nano
    <3>3. QED
      BY <3>1, <3>2
  <2>3. i \in 1..MaxFiles
    BY <1>0, <1>1, <2>1, SizesAssumption
  <2> HIDE DEF i
  <2>4. OthersKept(Len(table) + 1)
    BY <1>1, <2>1, <2>3, StoredSlot
  <2>5. QED
    BY <1>0, <2>2, <2>4, NewEntryConcerns, OnePath
<1>3. CASE Files(n) # {}
  <2>1. i \in 1..Len(table) /\ table[i].name = n
    BY <1>3, Found DEF Files, Named
  <2>2. table' = [table EXCEPT ![i].size = Len(d)]
    BY <1>3 DEF Nano
  <2>3. i \in 1..MaxFiles
    BY <1>0, <2>1, SizesAssumption
  <2> HIDE DEF i
  <2>4. OthersKept(i)
    BY <1>1, <2>3, StoredSlot
  <2>5. Concerns(Bare[table[i].name], Bare[table[i].name])
    BY <2>1, <2>2, <2>4, SizeConcerns
  <2>6. QED
    BY <2>1, <2>5, OnePath
<1>4. QED
  BY <1>2, <1>3

LEMMA CopyNarrow ==
  ASSUME TablesOK, NEW n \in Name, NEW m \in Name, Copy(n, m)
  PROVE  Narrow
<1> DEFINE i == First(Files(n))
           j == Len(table) + 1
           d == contents[First(SlotsOf(i))].data
           s == [idx |-> j, data |-> d]
<1>0. /\ table \in Seq(Entry) /\ Len(table) \in Nat /\ Len(table) <= MaxFiles
      /\ contents \in Seq(Content)
  BY DEF TablesOK, TableOK, ContentsOK
<1>1. /\ HasRoom /\ Add(NewEntry(m, table[i].size, FALSE))
      /\ contents' = IF SlotsOf(i) # {} /\ Len(contents) < MaxContents
           THEN Append(contents, s) ELSE contents
  BY DEF Copy
<1>2. table[i].size \in 0..MaxBlocks
  <2>1. i \in 1..Len(table)
    BY Found DEF Copy, Files, Named
  <2> HIDE DEF i
  <2>2. QED
    BY <1>0, <2>1, EntryParts
<1>3. OthersKept(j)
  <2>1. CASE contents' = contents
    BY <2>1 DEF OthersKept, SlotsOf
  <2>2. CASE SlotsOf(i) # {} /\ contents' = Append(contents, s)
    <3>1. d \in Bytes
      <4>1. First(SlotsOf(i)) \in 1..Len(contents)
        BY <2>2, Found DEF SlotsOf
      <4> HIDE DEF i
      <4>2. QED
        BY <1>0, <4>1, ContentParts
    <3>2. j \in 1..MaxFiles
      BY <1>0, <1>1, SizesAssumption DEF HasRoom
    <3> HIDE DEF d, j
    <3>3. s \in Content /\ s.idx = j
      BY <3>1, <3>2, Zenon DEF Content
    <3> HIDE DEF s
    <3>4. QED
      BY <1>0, <2>2, <3>3, AppendedSlot
  <2>3. QED
    BY <1>1, <2>1, <2>2
<1> HIDE DEF i
<1>4. QED
  BY <1>1, <1>2, <1>3, NewEntryConcerns, OnePath

LEMMA MoveNarrow ==
  ASSUME TablesOK, NEW n \in Name, NEW m \in Name, Move(n, m)
  PROVE  Narrow
<1> DEFINE i == First(Named(n))
           e == [table[i] EXCEPT !.name = m]
<1>0. table \in Seq(Entry)
  BY DEF TablesOK, TableOK
<1>1. i \in 1..Len(table) /\ table[i].name = n
  BY Found DEF Move, Named
<1>2. table' = [table EXCEPT ![i].name = m] /\ contents' = contents
  BY DEF Move
<1>3. table[i] \in Entry
  BY <1>0, <1>1, ElementOfSeq
<1> HIDE DEF i
<1>4. e \in Entry /\ e.name = m
  BY <1>3 DEF Entry
<1>5. table' = [table EXCEPT ![i] = e]
  BY <1>2
<1> HIDE DEF e
<1>6. Replaced(table, i, e, table')
  <2>1. Replaced(table, i, e, [table EXCEPT ![i] = e])
    BY <1>0, <1>1, <1>4, ReplacedOK
  <2>2. QED
    BY <1>5, <2>1, Zenon
<1>7. OthersKept(i)
  BY <1>2 DEF OthersKept, SlotsOf
<1>8. Concerns(Bare[n], Bare[m])
  BY <1>1, <1>4, <1>6, <1>7, RecordConcerns
<1>9. QED
  BY <1>8, NamesAssumption DEF Narrow

-----------------------------------------------------------------------------
(* The kinds of steps. *)

(* Memory is loaded, and at most two of its paths change. *)
Changes == Up /\ Up' /\ UNCHANGED disk /\ area' # "table" /\ Narrow

LEMMA ChangesStore ==
  ASSUME IInv, IInv', StoreInv, Changes
  PROVE  StoreInv'
<1>1. Len(table) \in Nat /\ Len(table') \in Nat /\ Len(table) <= Len(table')
  BY DEF IInv, TypeOK, Changes, Narrow, Concerns
<1>2. diskTable' = diskTable
  BY DEF Changes, disk
<1>3. Prefix' /\ GapFree'
  BY <1>2 DEF StoreInv, Prefix, GapFree, Changes
<1>4. DiskShorter'
  BY <1>1, <1>2, SizesAssumption DEF StoreInv, DiskShorter, Changes
<1>5. BlankSave' /\ LoadedSame'
  BY DEF Changes, Up, BlankSave, LoadedSame
<1>6. QED
  BY <1>3, <1>4, <1>5 DEF StoreInv

(* Memory is dropped. *)
Drops ==
  /\ table' = <<>> /\ contents' = <<>> /\ UNCHANGED disk
  /\ area' = "none" /\ pc' \in {"off", "volume"}

LEMMA DropsStore ==
  ASSUME StoreInv, Drops
  PROVE  StoreInv' /\ (Up => Store!Drop) /\ (~Up => Unseen)
<1>1. ~Up'
  BY DEF Drops, Up
<1>2. StoreInv'
  BY <1>1 DEF Drops, disk, StoreInv, Prefix, GapFree, DiskShorter, BlankSave, LoadedSame
<1>3. Volatile' = [n \in Name |-> Missing] /\ Unsaved' = {} /\ Durable' = Durable
  <2>1. Volatile' = [n \in Name |-> Missing]
    BY <1>1 DEF Volatile
  <2>2. Unsaved' = {}
    BY <1>1 DEF Unsaved
  <2>3. QED
    BY <2>1, <2>2, SameDisk DEF Drops
<1>4. Up => Store!Drop
  <2>1. Up' = FALSE
    BY <1>1 DEF Up
  <2>2. QED
    BY <1>3, <2>1 DEF Store!Drop, Store!Blank, Volatile, Durable, Unsaved
<1>5. ~Up => Unseen
  BY <1>1, UnseenWhileDown DEF Drops
<1>6. QED
  BY <1>2, <1>4, <1>5

(* An entry that was loaded with its file is written. *)
LEMMA LoadedIsClean ==
  ASSUME IInv, StoreInv, pc = "contents", cursor > Len(table)
  PROVE  Dirty = {}
<1> USE SizesAssumption
<1>0. Len(table) \in Nat /\ Len(table) <= MaxFiles /\ cursor \in Nat
      /\ diskTable \in [1..MaxFiles -> Entry \cup {NoEntry}]
  BY DEF IInv, TypeOK
<1>1. ASSUME NEW i \in 1..Len(table) PROVE Written(i)
  <2>1. SameEntry(i) /\ EntryView(i) = DiskEntryView(i)
    BY <1>0 DEF StoreInv, LoadedSame
  <2>2. diskTable[i] \in Entry
    BY <1>0, <2>1 DEF SameEntry
  <2>3. table[i].name = Bare[diskTable[i].name] /\ diskTable[i].name \in Name
    BY <2>1, <2>2 DEF SameEntry, Entry
  <2>4. Bare[table[i].name] = Bare[diskTable[i].name]
    BY <2>3, NamesAssumption
  <2>5. QED
    BY <1>0, <2>1, <2>4 DEF Written, SameEntry
<1>2. ASSUME NEW n, NEW i \in DiskEntries(n) PROVE i \in 1..Len(table)
  <2>1. i \in 1..MaxFiles /\ diskTable[i] # NoEntry
    BY LoadedEntries DEF StoreInv, DiskEntries
  <2>2. QED
    BY <1>0, <2>1 DEF StoreInv, DiskShorter
<1>3. QED
  BY <1>1, <1>2 DEF Dirty, Entries

LEMMA LoadContentsDoneStores ==
  ASSUME StoreInv, LoadContentsDone
  PROVE  StoreInv'
<1>1. /\ pc = "contents" /\ pc' = "desktop" /\ UNCHANGED ram /\ UNCHANGED disk
      /\ area' = "none"
  BY DEF LoadContentsDone, BootStep, Goto, Quiet, NoSave, saving
<1>2. QED
  BY <1>1 DEF ram, disk, StoreInv, Prefix, GapFree, DiskShorter, BlankSave, LoadedSame

LEMMA LoadContentsDoneRecovers ==
  ASSUME IInv, TagInv, StoreInv, Roomy, LoadContentsDone, Reads'
  PROVE  Store!Recover
<1>1. /\ pc = "contents" /\ pc' = "desktop" /\ UNCHANGED ram /\ UNCHANGED disk
      /\ area' = "none" /\ ~Up /\ Up'
  BY DEF LoadContentsDone, BootStep, Goto, Quiet, NoSave, saving, Up
<1>2. Dirty = {}
  BY <1>1, LoopPassesAll, LoadedIsClean
<1>3. Dirty' = {}
  <2>1. Dirty' = Dirty
    BY <1>1 DEF ram, disk, Dirty, Written, Entries, DiskEntries, Loaded, EntryView,
       DiskEntryView, SlotsOf
  <2>2. QED
    BY <1>2, <2>1
<1>4. Volatile' = Durable /\ Durable' = Durable
  <2>1. Durable' = Durable
    BY <1>1, SameDisk
  <2>2. \A n \in Name : View(n)' = DiskView(n)'
    BY <1>3 DEF Reads
  <2>3. Volatile' = [n \in Name |-> View(n)']
    BY <1>1 DEF Volatile
  <2>4. Durable' = [n \in Name |-> DiskView(n)']
    BY DEF Durable
  <2>5. QED
    BY <2>1, <2>2, <2>3, <2>4
<1>5. Unsaved = {} /\ Unsaved' = {}
  BY <1>1, <1>3 DEF Unsaved
<1>6. Up' = TRUE
  BY <1>1 DEF Up
<1>7. QED
  BY <1>1, <1>4, <1>5, <1>6 DEF Store!Recover, Volatile, Durable, Unsaved

LEMMA LoadVolumeStores ==
  ASSUME IInv, StoreInv, VolumeBeforeEntries, LoadVolume
  PROVE  StoreInv' /\ Unseen
<1>1. /\ pc = "volume" /\ pc' = "entries" /\ UNCHANGED disk /\ UNCHANGED ram
      /\ table = <<>> /\ contents = <<>> /\ area = "none"
      /\ IF diskVol THEN area' = area ELSE area' = "curdir"
  BY DEF LoadVolume, BootStep, Goto, IInv, LoadShape, NoSave, saving, BeginSave
<1>2. BlankSave'
  <2>1. CASE diskVol
    BY <1>1, <2>1 DEF BlankSave
  <2>2. CASE ~diskVol
    <3>1. \A i \in 1..MaxFiles : diskTable[i] = NoEntry
      BY <2>2 DEF VolumeBeforeEntries
    <3>2. QED
      BY <1>1, <3>1 DEF BlankSave, disk, ram
  <2>3. QED
    BY <2>1, <2>2
<1>3. Prefix' /\ GapFree'
  BY <1>1 DEF StoreInv, Prefix, GapFree, disk
<1>4. DiskShorter' /\ LoadedSame'
  BY <1>1 DEF DiskShorter, LoadedSame, Up, ram
<1>5. QED
  BY <1>1, <1>2, <1>3, <1>4, UnseenWhileDown DEF StoreInv, Up

(* The steps of the boot behind the loading change at most one path each.   *)
LEMMA BootChanges ==
  ASSUME IInv, Roomy,
         \/ EnsureDesktopEntry \/ EnsureDesktopDone \/ EnsureDocuments
         \/ CreateWebFile \/ CreateWebFilesDone \/ EnsureDir \/ EnsureDirsDone
         \/ SeedFile \/ SeedFilesDone \/ EnterHome \/ StartDesktop
  PROVE  Changes
<1> USE TypeParts
<1>0. /\ TablesOK /\ cursor \in Nat \ {0}
      /\ DefaultData \in Bytes /\ Documents \in Name /\ HomeDir \in Name
  BY NamesAssumption, DataAssumption DEF IInv, ControlOK
<1>1. Up /\ Up' /\ UNCHANGED disk /\ area = "none"
  BY DEF EnsureDesktopEntry, EnsureDesktopDone, EnsureDocuments, CreateWebFile,
     CreateWebFilesDone, EnsureDir, EnsureDirsDone, SeedFile, SeedFilesDone,
     EnterHome, StartDesktop, BootStep, Goto, NextIteration, Quiet, Up
<1>2. CASE EnsureDesktopEntry
  <2> DEFINE e == DesktopEntries[cursor]
  <2>1. e.name \in Name /\ e.dir \in BOOLEAN
    <3>1. e \in DefaultEntry
      BY <1>0, <1>2, DefaultsAssumption DEF EnsureDesktopEntry
    <3>2. QED
      BY <3>1 DEF DefaultEntry
  <2>2. /\ UNCHANGED contents /\ area' = area
        /\ (HasRoom /\ Add(NewEntry(e.name, 0, e.dir))) \/ UNCHANGED table
    BY <1>2 DEF EnsureDesktopEntry, NoSave, saving
  <2> HIDE DEF e
  <2>3. QED
    BY <1>0, <1>1, <2>1, <2>2, EmptyEntryNarrow DEF Changes
<1>3. CASE EnsureDocuments \/ EnsureDir \/ EnterHome
  <2>1. PICK n \in Name :
          /\ UNCHANGED contents
          /\ (HasRoom /\ Add(NewEntry(n, 0, TRUE))) \/ UNCHANGED table
    <3>1. CASE EnsureDocuments
      BY <1>0, <3>1 DEF EnsureDocuments
    <3>2. CASE EnsureDir
      <4>1. ExtraDirs[cursor] \in Name
        BY <1>0, <3>2, DefaultsAssumption DEF EnsureDir
      <4>2. QED
        BY <3>2, <4>1 DEF EnsureDir
    <3>3. CASE EnterHome
      BY <1>0, <3>3 DEF EnterHome
    <3>4. QED
      BY <1>3, <3>1, <3>2, <3>3
  <2>2. area' \in {"none", "curdir"}
    BY <1>1, <1>3 DEF EnsureDocuments, EnsureDir, EnterHome, NoSave, saving, BeginSave
  <2>3. QED
    BY <1>0, <1>1, <2>1, <2>2, EmptyEntryNarrow DEF Changes
<1>4. CASE CreateWebFile
  <2> DEFINE n == WebPages[cursor]
  <2>1. n \in Name
    BY <1>0, <1>4, DefaultsAssumption DEF CreateWebFile
  <2>2. /\ area' = area
        /\ IF Named(n) = {} /\ ~HasRoom THEN UNCHANGED ram
           ELSE /\ StoreEntry(n, DefaultData)
                /\ StoreBytes(SlotIndex(n), DefaultData) \/ UNCHANGED contents
    BY <1>4 DEF CreateWebFile, NoSave, saving
  <2> HIDE DEF n
  <2>3. CASE Named(n) = {} /\ ~HasRoom
    BY <1>0, <1>1, <2>2, <2>3, NoPath DEF Changes
  <2>4. CASE Named(n) # {} \/ HasRoom
    <3>1. Concerns(Bare[n], Bare[n])
      BY <1>0, <2>1, <2>2, <2>4, StoreConcerns
    <3>2. QED
      BY <1>1, <2>1, <2>2, <3>1, OnePath DEF Changes
  <2>5. QED
    BY <2>3, <2>4
<1>5. CASE SeedFile
  <2> DEFINE n == Seeds[cursor]
  <2>1. n \in Name
    BY <1>0, <1>5, DefaultsAssumption DEF SeedFile
  <2>2. SaveFileContent(n, DefaultData) \/ (UNCHANGED ram /\ NoSave)
    BY <1>5 DEF SeedFile
  <2>3. area' \in {"none", "curdir"}
    BY <1>1, <2>2 DEF SaveFileContent, NoSave, saving, BeginSave
  <2> HIDE DEF n
  <2>4. Narrow
    BY <1>0, <2>1, <2>2, SaveFileContentNarrow, NoPath
  <2>5. QED
    BY <1>1, <2>3, <2>4 DEF Changes
<1>6. CASE \/ EnsureDesktopDone \/ CreateWebFilesDone \/ EnsureDirsDone
           \/ SeedFilesDone \/ StartDesktop
  <2>1. UNCHANGED ram
    <3>1. CASE StartDesktop
      <4>1. Len(table) <= DesktopCap /\ Len(table) \in Nat
        BY <1>0, <3>1 DEF StartDesktop, BootStep, Roomy, TablesOK, TableOK
      <4>2. ~(Len(table) > DesktopCap)
        BY <4>1, SizesAssumption
      <4>3. QED
        BY <3>1, <4>2, Zenon DEF StartDesktop, ram
    <3>2. CASE ~StartDesktop
      BY <1>6, <3>2 DEF EnsureDesktopDone, CreateWebFilesDone, EnsureDirsDone,
         SeedFilesDone
    <3>3. QED
      BY <3>1, <3>2
  <2>2. area' \in {"none", "curdir"}
    BY <1>1, <1>6 DEF EnsureDesktopDone, CreateWebFilesDone, EnsureDirsDone,
       SeedFilesDone, StartDesktop, NoSave, saving, BeginSave
  <2>3. QED
    BY <1>0, <1>1, <2>1, <2>2, NoPath DEF Changes
<1>7. QED
  BY <1>2, <1>3, <1>4, <1>5, <1>6

LEMMA ChkdskChanges ==
  ASSUME IInv, TagInv, ChkdskSlot \/ ChkdskDone
  PROVE  Changes
<1>0. TablesOK /\ cursor \in Nat \ {0}
  BY TypeParts DEF IInv, ControlOK
<1>1. /\ Up /\ Up' /\ UNCHANGED disk /\ area' \in {"none", "curdir"}
      /\ UNCHANGED table
  BY DEF ChkdskSlot, ChkdskDone, BootStep, Goto, Quiet, NoSave, saving, BeginSave, Up, ram
<1>2. UNCHANGED contents
  <2>1. CASE ChkdskSlot
    <3>1. cursor \in 1..Len(contents)
      BY <1>0, <2>1 DEF ChkdskSlot, TablesOK, ContentsOK
    <3>2. contents[cursor].idx <= Len(table) /\ contents[cursor].idx \in Nat /\ Len(table) \in Nat
      BY <1>0, <3>1, ContentParts DEF TagInv, Tied, Fits, TablesOK, TableOK, ContentsOK
    <3>3. ~Orphan(cursor)
      BY <3>2 DEF Orphan
    <3>4. QED
      BY <2>1, <3>3 DEF ChkdskSlot
  <2>2. CASE ChkdskDone
    BY <2>2 DEF ChkdskDone, ram
  <2>3. QED
    BY <2>1, <2>2
<1>3. QED
  BY <1>0, <1>1, <1>2, NoPath DEF Changes, ram

(* A command changes one path, or the two of a rename.                      *)
LEMMA CommandChanges ==
  ASSUME IInv, KeepingCommand, ~OpenTerminal
  PROVE  Changes
<1>0. TablesOK
  BY TypeParts DEF IInv
<1>1. /\ FileName \subseteq Name /\ DirName \subseteq Name
      /\ Payload \subseteq Bytes
  BY NamesAssumption, DataAssumption
<1>2. Up /\ Up' /\ UNCHANGED disk /\ area = "none"
  BY DEF KeepingCommand, SaveFile, Nano, Create, Copy, Move, Sync, Accept, Stay, Quiet, Up
<1>3. area' \in {"none", "curdir"}
  BY <1>2 DEF KeepingCommand, SaveFile, Nano, Create, Copy, Move, Sync,
     SaveFileContent, NoSave, saving, BeginSave
<1>4. Narrow
  <2>1. ASSUME NEW n \in FileName, NEW d \in Payload, SaveFile(n, d) \/ Nano(n, d)
        PROVE  Narrow
    BY <1>0, <1>1, <2>1, SaveFileContentNarrow, NanoNarrow DEF SaveFile
  <2>2. ASSUME NEW c, NEW n \in Name, NEW dir \in BOOLEAN, Create(c, n, dir)
        PROVE  Narrow
    BY <1>0, <2>2, EmptyEntryNarrow DEF Create
  <2>3. ASSUME NEW n \in FileName, NEW m \in FileName, Copy(n, m) \/ Move(n, m)
        PROVE  Narrow
    BY <1>0, <1>1, <2>3, CopyNarrow, MoveNarrow
  <2>4. CASE Sync
    BY <1>0, <2>4, NoPath DEF Sync
  <2>5. QED
    BY <1>1, <2>1, <2>2, <2>3, <2>4 DEF KeepingCommand
<1>5. QED
  BY <1>2, <1>3, <1>4 DEF Changes

-----------------------------------------------------------------------------
(* Every step is a step of CrashStore, or none. *)

Abstract == Store!Next \/ Unseen

LEMMA StoreStep ==
  ASSUME IInv, IInv', TagInv, StoreInv, Roomy, VolumeBeforeEntries,
         Reads, Readable', StoreInv' => Reads', [NextKeeping]_vars
  PROVE  StoreInv' /\ Abstract
<1>1. CASE SaveStep \/ WriteFails
  <2>1. StoreInv' /\ (Unseen \/ (Up /\ Up' /\ \E i : WritesEntry(i)))
    BY <1>1, SaveStores
  <2>2. Prefix /\ Prefix' /\ Reads'
    BY <2>1 DEF StoreInv
  <2>3. ASSUME Up, Up', NEW i, WritesEntry(i) PROVE Store!Persist
    BY <2>2, <2>3, Persists
  <2>4. QED
    BY <2>1, <2>3 DEF Abstract, Store!Next
<1>2. ASSUME Changes PROVE StoreInv' /\ Abstract
  <2>1. StoreInv'
    BY <1>2, ChangesStore
  <2>2. ASSUME NEW m \in Name, NEW n \in Name, Concerns(m, n) PROVE Store!Update
    BY <1>2, <2>1, <2>2, Updates DEF Changes
  <2>3. QED
    BY <1>2, <2>1, <2>2 DEF Changes, Narrow, Abstract, Store!Next
<1>3. ASSUME Drops PROVE StoreInv' /\ Abstract
  BY <1>3, DropsStore DEF Abstract, Store!Next
<1>4. CASE PowerOn \/ PowerFail \/ OpenTerminal
  <2>1. Drops
    BY <1>4 DEF PowerOn, PowerFail, OpenTerminal, Reset, Goto, Drops, Quiet, NoSave,
       saving, EndSave, IInv, LoadShape
  <2>2. QED
    BY <1>3, <2>1
<1>5. CASE LoadVolume
  BY <1>5, LoadVolumeStores DEF Abstract
<1>6. CASE LoadEntry
  BY <1>6, LoadEntryStores DEF Abstract
<1>7. CASE LoadEntriesDone
  BY <1>7, LoadEntriesDoneStores DEF Abstract
<1>8. CASE LoadContent
  BY <1>8, LoadContentStores DEF Abstract
<1>9. CASE LoadContentsDone
  <2>1. StoreInv'
    BY <1>9, LoadContentsDoneStores
  <2>2. QED
    BY <1>9, <2>1, LoadContentsDoneRecovers DEF Abstract, Store!Next
<1>10. CASE \/ EnsureDesktopEntry \/ EnsureDesktopDone \/ EnsureDocuments
            \/ CreateWebFile \/ CreateWebFilesDone \/ EnsureDir \/ EnsureDirsDone
            \/ SeedFile \/ SeedFilesDone \/ EnterHome \/ StartDesktop
  BY <1>2, <1>10, BootChanges
<1>11. CASE ChkdskSlot \/ ChkdskDone
  BY <1>2, <1>11, ChkdskChanges
<1>12. CASE KeepingCommand /\ ~OpenTerminal
  BY <1>2, <1>12, CommandChanges
<1>13. CASE UNCHANGED vars
  <2>1. StoreInv'
    <3>1. /\ table' = table /\ contents' = contents
          /\ diskTable' = diskTable /\ diskData' = diskData
          /\ area' = area /\ slot' = slot /\ pc' = pc /\ cursor' = cursor
      BY <1>13 DEF vars
    <3>2. Prefix'
      BY <3>1 DEF StoreInv, Prefix
    <3>3. GapFree'
      BY <3>1 DEF StoreInv, GapFree
    <3>4. DiskShorter'
      BY <3>1 DEF StoreInv, DiskShorter, Up
    <3>5. BlankSave'
      BY <3>1 DEF StoreInv, BlankSave
    <3>6. \A i : EntryView(i)' = EntryView(i)
      BY <3>1 DEF EntryView, SlotsOf
    <3>7. \A i : DiskEntryView(i)' = DiskEntryView(i)
      BY <3>1 DEF DiskEntryView
    <3>8. \A i : SameEntry(i) => SameEntry(i)'
      BY <3>1 DEF SameEntry
    <3>9. LoadedSame'
      BY <3>1, <3>6, <3>7, <3>8 DEF StoreInv, LoadedSame
    <3>10. QED
      BY <3>2, <3>3, <3>4, <3>5, <3>9 DEF StoreInv
  <2>2. /\ UNCHANGED disk /\ UNCHANGED ram /\ Up' = Up
    BY <1>13 DEF vars, disk, ram, Up
  <2>3. /\ \A n : View(n)' = View(n) /\ DiskView(n)' = DiskView(n)
        /\ Dirty' = Dirty
    BY <1>13 DEF vars, View, DiskView, Dirty, Written, Entries, DiskEntries, Loaded,
       EntryView, DiskEntryView, SlotsOf
  <2>4. Unseen
    BY <2>2, <2>3 DEF Unseen, Volatile, Durable, Unsaved
  <2>5. QED
    BY <2>1, <2>4 DEF Abstract
<1>14. QED
  BY <1>1, <1>4, <1>5, <1>6, <1>7, <1>8, <1>9, <1>10, <1>11, <1>12, <1>13
     DEF NextKeeping, Kernel, Boot, Wait

LEMMA StoreInit ==
  ASSUME Init
  PROVE  StoreInv /\ Store!Init
<1>1. StoreInv
  BY DEF Init, StoreInv, Prefix, GapFree, DiskShorter, BlankSave, LoadedSame, Up
<1>2. ~Up /\ Up = FALSE
  BY DEF Init, Up
<1>3. \A i \in 1..MaxFiles : diskTable[i] = NoEntry
  BY DEF Init
<1>4. \A n : DiskView(n) = Missing
  <2>1. ASSUME NEW n PROVE DiskEntries(n) = {}
    BY <1>1, <1>3, LoadedEntries DEF StoreInv, DiskEntries
  <2>2. QED
    BY <2>1 DEF DiskView
<1>5. Volatile = [n \in Name |-> Missing] /\ Durable = [n \in Name |-> Missing] /\ Unsaved = {}
  BY <1>2, <1>4 DEF Volatile, Durable, Unsaved
<1>6. QED
  BY <1>1, <1>2, <1>5 DEF Store!Init, Store!Blank, Volatile, Durable, Unsaved

(* As long as no entry is removed, files and directories use different      *)
(* paths, the slots and the desktop hold the table, and the write of the    *)
(* volume sector does not fail: the file system keeps the promise of        *)
(* CrashStore.  Each command is about at most two paths; a sector of a save *)
(* that is written, fails or is never reached because the power does        *)
(* touches only paths that were changed since they were saved; and a boot   *)
(* reads back what the disk holds (fs_save_to_disk, fs_load_from_disk and   *)
(* every command and boot step that writes fs_table or file_contents).      *)
THEOREM FilesIsolated ==
  ASSUME PathsApart, "volume" \notin FailingAreas
  PROVE  SpecKeeping /\ []Roomy => IsolatesFiles
<1> DEFINE Good == IInv /\ TagInv /\ StoreInv
<1>1. Init => Good
  <2>1. Init => TagInv
    BY DEF Init, TagInv, Tied, TagsApart, Up, TableNamed, DiskNamed
  <2>2. QED
    BY <2>1, InitOK, StoreInit
<1>2. [NextKeeping]_vars => [Next]_vars
  BY DEF Next
<1>3. SpecKeeping => Spec
  BY <1>2, PTL DEF SpecKeeping, Spec
<1>4. IInv /\ Prefix => Reads
  BY CleanReads
<1>5. IInv => Readable
  BY ViewsReadable
<1>6. (IInv /\ Prefix => Reads)' /\ (IInv => Readable)'
  BY <1>4, <1>5, PTL
<1>7. Good /\ Roomy /\ Roomy' /\ VolumeBeforeEntries /\ [NextKeeping]_vars
        => Good' /\ Abstract
  <2> SUFFICES ASSUME Good, Roomy, Roomy', VolumeBeforeEntries, [NextKeeping]_vars
               PROVE  Good' /\ Abstract
    OBVIOUS
  <2>1. IInv'
    BY <1>2, StepOK
  <2>2. TagInv'
    BY TagStep
  <2>3. Reads /\ Readable' /\ (StoreInv' => Reads')
    BY <1>4, <1>6, <2>1 DEF StoreInv
  <2>4. StoreInv' /\ Abstract
    BY <2>1, <2>3, StoreStep
  <2>5. QED
    BY <2>1, <2>2, <2>4
<1>8. Abstract => [Store!Next]_<<Volatile, Durable, Unsaved, Up>>
  BY DEF Abstract, Unseen
<1> HIDE DEF Good
<1>9. SpecKeeping /\ []Roomy => []VolumeBeforeEntries
  BY <1>3, VolumeComesFirst, PTL
<1>10. Init => Store!Init
  BY StoreInit
<1>11. QED
  BY <1>1, <1>7, <1>8, <1>9, <1>10, PTL DEF SpecKeeping, IsolatesFiles, Store!Spec,
     Store!vars, Volatile, Durable, Unsaved

=============================================================================
