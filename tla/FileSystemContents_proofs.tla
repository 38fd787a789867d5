--------------------- MODULE FileSystemContents_proofs ---------------------
(***************************************************************************)
(* Theorems about the index that ties file_contents to fs_table, as long   *)
(* as no entry is removed, and about the loop of CHKDSK /F, for all        *)
(* numbers of files, content slots and sectors, all paths and defaults.    *)
(***************************************************************************)
EXTENDS FileSystem_proofs, FiniteSetTheorems

-----------------------------------------------------------------------------
(* Two preconditions, which the code does not establish. *)

(* The paths of the files and those of the directories, the default ones    *)
(* included.  save_file_content takes an entry of any type by its name, so  *)
(* that a file saved under the path of a directory gives that directory     *)
(* a size and a content slot.                                               *)
Listed(s) == {s[i] : i \in 1..Len(s)}
DefaultsOf(dir) == {e.name : e \in {x \in Listed(DesktopEntries) : x.dir = dir}}
FilePaths == FileName \cup Listed(WebPages) \cup Listed(Seeds) \cup DefaultsOf(FALSE)
DirPaths == DirName \cup Listed(ExtraDirs) \cup {Documents, HomeDir} \cup DefaultsOf(TRUE)

PathsApart == \A f \in FilePaths, d \in DirPaths : Bare[f] # Bare[d]

(* FS_MAX_FILE_CONTENTS is half of FS_MAX_FILES: an entry that is saved     *)
(* when all slots are taken keeps its new size and has no contents.  And    *)
(* desktop_main drops a table that is longer than its cap.                  *)
Roomy ==
  /\ Len(table) <= MaxContents
  /\ pc = "gui" => Len(table) <= DesktopCap

-----------------------------------------------------------------------------
(* Tables t and contents c that belong together. *)

TagsApart(c) == \A k, l \in 1..Len(c) : c[k].idx = c[l].idx => k = l

Fits(t, s) ==
  /\ s.idx <= Len(t)
  /\ ~t[s.idx].dir
  /\ Len(s.data) = t[s.idx].size

(* A slot of c belongs to its entry; that of entry i only by its index. *)
TiedBut(t, c, i) ==
  /\ TagsApart(c)
  /\ \A k \in 1..Len(c) :
       IF c[k].idx = i THEN i <= Len(t) ELSE Fits(t, c[k])

Tied(t, c) == TagsApart(c) /\ \A k \in 1..Len(c) : Fits(t, c[k])

Has(c, i) == \E k \in 1..Len(c) : c[k].idx = i
Filled(t, c, i) == t[i].size > 0 /\ ~t[i].dir => Has(c, i)
AllFilled(t, c) == \A i \in 1..Len(t) : Filled(t, c, i)
FilledBut(t, c, i) == \A j \in 1..Len(t) : j # i => Filled(t, c, j)

LEMMA EntryParts ==
  ASSUME NEW t \in Seq(Entry), NEW i \in 1..Len(t)
  PROVE  t[i].name \in Name /\ t[i].size \in 0..MaxBlocks /\ t[i].dir \in BOOLEAN
<1>1. t[i] \in Entry
  BY ElementOfSeq
<1>2. QED
  BY <1>1, Zenon DEF Entry

LEMMA ContentParts ==
  ASSUME NEW c \in Seq(Content), NEW k \in 1..Len(c)
  PROVE  c[k].idx \in 1..MaxFiles /\ c[k].data \in Bytes
<1>1. c[k] \in Content
  BY ElementOfSeq
<1>2. QED
  BY <1>1, Zenon DEF Content

(* Distinct tags within 1..n leave no more slots than n, and fewer when one *)
(* entry has none.                                                          *)
LEMMA Pigeons ==
  ASSUME NEW c \in Seq(Content), TagsApart(c), NEW n \in Nat,
         \A k \in 1..Len(c) : c[k].idx <= n
  PROVE  /\ Len(c) <= n
         /\ \A i \in 1..n : ~Has(c, i) => Len(c) < n
<1> DEFINE f == [k \in 1..Len(c) |-> c[k].idx]
<1>1. Len(c) \in Nat
  OBVIOUS
<1>2. \A k \in 1..Len(c) : f[k] \in 1..n
  BY ContentParts, SizesAssumption
<1>3. \A k, l \in 1..Len(c) : f[k] = f[l] => k = l
  BY DEF TagsApart
<1>4. /\ IsFiniteSet(1..Len(c)) /\ Cardinality(1..Len(c)) = Len(c)
      /\ IsFiniteSet(1..n) /\ Cardinality(1..n) = n
  <2>1. 1 \in Int /\ Len(c) \in Int /\ n \in Int
    BY <1>1
  <2>2. IsFiniteSet(1..n) /\ Cardinality(1..n) = IF 1 > n THEN 0 ELSE n - 1 + 1
    BY <2>1, FS_Interval, Zenon
  <2>3. /\ IsFiniteSet(1..Len(c))
        /\ Cardinality(1..Len(c)) = IF 1 > Len(c) THEN 0 ELSE Len(c) - 1 + 1
    BY <2>1, FS_Interval, Zenon
  <2>4. QED
    BY <1>1, <2>2, <2>3
<1>5. Len(c) <= n
  <2>1. f \in [1..Len(c) -> 1..n]
    BY <1>2
  <2>2. ~(Cardinality(1..n) < Cardinality(1..Len(c)))
    <3> HIDE DEF f
    <3>1. ~ \E k, l \in 1..Len(c) : k # l /\ f[k] = f[l]
      BY <1>3
    <3>2. QED
      BY <1>4, <2>1, <3>1, FS_PigeonHole, Zenon
  <2>3. QED
    BY <1>1, <1>4, <2>2
<1>6. ASSUME NEW i \in 1..n, ~Has(c, i) PROVE Len(c) < n
  <2> DEFINE T == (1..n) \ {i}
  <2>1. f \in [1..Len(c) -> T]
    BY <1>2, <1>6 DEF Has
  <2>2. IsFiniteSet(T) /\ Cardinality(T) = n - 1
    BY <1>4, FS_RemoveElement
  <2> HIDE DEF T
  <2>3. ~(Cardinality(T) < Cardinality(1..Len(c)))
    <3> HIDE DEF f
    <3>1. ~ \E k, l \in 1..Len(c) : k # l /\ f[k] = f[l]
      BY <1>3
    <3>2. IsFiniteSet(1..Len(c)) /\ IsFiniteSet(T)
      BY <1>4, <2>2
    <3>3. QED
      BY <2>1, <3>1, <3>2, FS_PigeonHole, Zenon
  <2>4. QED
    BY <1>1, <1>4, <2>2, <2>3
<1>7. QED
  BY <1>5, <1>6

(* A new entry behind the last one. *)
LEMMA AppendEntry ==
  ASSUME NEW t \in Seq(Entry), NEW c \in Seq(Content), NEW e \in Entry, Tied(t, c)
  PROVE  /\ Tied(Append(t, e), c)
         /\ ~Has(c, Len(t) + 1)
         /\ AllFilled(t, c) => FilledBut(Append(t, e), c, Len(t) + 1)
         /\ AllFilled(t, c) /\ (e.dir \/ e.size = 0) => AllFilled(Append(t, e), c)
<1> DEFINE u == Append(t, e)
<1>1. /\ Len(t) \in Nat /\ u \in Seq(Entry) /\ Len(u) = Len(t) + 1
      /\ \A i \in 1..Len(t) : u[i] = t[i]
      /\ u[Len(t) + 1] = e
  BY AppendProperties
<1> HIDE DEF u
<1>2. \A k \in 1..Len(c) : c[k].idx \in 1..Len(t)
  BY <1>1, ContentParts, SizesAssumption DEF Tied, Fits
<1>3. Tied(u, c)
  BY <1>1, <1>2 DEF Tied, Fits
<1>4. ~Has(c, Len(t) + 1)
  BY <1>1, <1>2 DEF Has
<1>5. AllFilled(t, c) => FilledBut(u, c, Len(t) + 1)
  BY <1>1 DEF AllFilled, FilledBut, Filled
<1>6. ASSUME AllFilled(t, c), e.dir \/ e.size = 0 PROVE AllFilled(u, c)
  BY <1>1, <1>6 DEF AllFilled, Filled
<1>7. QED
  BY <1>3, <1>4, <1>5, <1>6 DEF u

(* Another record for entry i, which waits for its bytes. *)
Replaced(t, i, e, u) ==
  /\ u \in Seq(Entry) /\ Len(u) = Len(t)
  /\ \A j \in 1..Len(t) : u[j] = IF j = i THEN e ELSE t[j]

LEMMA ReplacedOK ==
  ASSUME NEW t \in Seq(Entry), NEW i \in 1..Len(t), NEW e \in Entry
  PROVE  Replaced(t, i, e, [t EXCEPT ![i] = e])
<1>1. /\ [t EXCEPT ![i] = e] \in Seq(Entry)
      /\ Len([t EXCEPT ![i] = e]) = Len(t)
  BY ExceptSeq
<1>2. \A j \in 1..Len(t) : [t EXCEPT ![i] = e][j] = IF j = i THEN e ELSE t[j]
  BY ExceptSeq
<1>3. QED
  BY <1>1, <1>2 DEF Replaced

LEMMA Replace ==
  ASSUME NEW t \in Seq(Entry), NEW c \in Seq(Content), NEW i \in 1..Len(t),
         NEW e \in Entry, e.dir = t[i].dir, NEW u, Replaced(t, i, e, u),
         Tied(t, c)
  PROVE  /\ TiedBut(u, c, i)
         /\ AllFilled(t, c) => FilledBut(u, c, i)
         /\ e.size = t[i].size =>
              Tied(u, c) /\ (AllFilled(t, c) => AllFilled(u, c))
<1> USE DEF Replaced
<1>3. \A k \in 1..Len(c) : c[k].idx \in 1..Len(t)
  BY ContentParts, SizesAssumption DEF Tied, Fits
<1>4. TiedBut(u, c, i)
  BY <1>3 DEF Tied, TiedBut, Fits
<1>5. AllFilled(t, c) => FilledBut(u, c, i)
  BY DEF AllFilled, FilledBut, Filled
<1>6. ASSUME e.size = t[i].size PROVE Tied(u, c) /\ (AllFilled(t, c) => AllFilled(u, c))
  <2>1. Tied(u, c)
    BY <1>3, <1>6 DEF Tied, Fits
  <2>2. AllFilled(t, c) => AllFilled(u, c)
    BY <1>6 DEF AllFilled, Filled
  <2>3. QED
    BY <2>1, <2>2
<1>7. QED
  BY <1>4, <1>5, <1>6

-----------------------------------------------------------------------------
(* The lookups, and what a store of bytes does to the tags. *)

LEMMA Found ==
  ASSUME TablesOK, NEW n, NEW i
  PROVE  /\ Named(n) # {} => First(Named(n)) \in Named(n)
         /\ Files(n) # {} => First(Files(n)) \in Files(n)
         /\ SlotsOf(i) # {} => First(SlotsOf(i)) \in SlotsOf(i)
         /\ SlotsOf(i) # {} <=> Has(contents, i)
<1>1. Named(n) \in SUBSET Nat /\ Files(n) \in SUBSET Nat /\ SlotsOf(i) \in SUBSET Nat
  BY DEF Named, Files, SlotsOf
<1>2. SlotsOf(i) # {} <=> Has(contents, i)
  BY DEF SlotsOf, Has
<1>3. Named(n) # {} => First(Named(n)) \in Named(n)
  BY <1>1, FirstIn
<1>4. Files(n) # {} => First(Files(n)) \in Files(n)
  BY <1>1, FirstIn
<1>5. SlotsOf(i) # {} => First(SlotsOf(i)) \in SlotsOf(i)
  BY <1>1, FirstIn
<1>6. QED
  BY <1>2, <1>3, <1>4, <1>5

(* While there are no more entries than slots, every entry finds a slot. *)
LEMMA SlotIsFree ==
  ASSUME TablesOK, Tied(table, contents), NEW i \in Nat,
         \/ i \in 1..Len(table) /\ Len(table) <= MaxContents
         \/ i = Len(table) + 1 /\ Len(table) < MaxContents
  PROVE  HasSlot(i)
<1> USE SizesAssumption
<1>0. /\ contents \in Seq(Content) /\ Len(contents) \in Nat /\ Len(table) \in Nat
      /\ SlotsOf(i) # {} <=> Has(contents, i)
  BY Found DEF TablesOK, TableOK, ContentsOK
<1>1. TagsApart(contents) /\ \A k \in 1..Len(contents) : contents[k].idx <= Len(table)
  BY DEF Tied, Fits
<1>2. /\ Len(contents) <= Len(table)
      /\ \A j \in 1..Len(table) : ~Has(contents, j) => Len(contents) < Len(table)
  BY <1>0, <1>1, Pigeons
<1>3. CASE SlotsOf(i) # {}
  BY <1>3 DEF HasSlot
<1>4. CASE i \in 1..Len(table) /\ Len(table) <= MaxContents /\ SlotsOf(i) = {}
  BY <1>0, <1>2, <1>4 DEF HasSlot
<1>5. CASE i = Len(table) + 1 /\ Len(table) < MaxContents
  BY <1>0, <1>2, <1>5 DEF HasSlot
<1>6. QED
  BY <1>3, <1>4, <1>5

LEMMA PutBytes ==
  ASSUME TablesOK, NEW t \in Seq(Entry), NEW i \in 1..Len(t), NEW d \in Bytes,
         i <= MaxFiles, ~t[i].dir, Len(d) = t[i].size,
         TiedBut(t, contents, i), StoreBytes(i, d)
  PROVE  /\ contents' \in Seq(Content)
         /\ Tied(t, contents')
         /\ FilledBut(t, contents, i) => AllFilled(t, contents')
<1>0. contents \in Seq(Content) /\ Len(contents) \in Nat /\ Len(t) \in Nat
  BY DEF TablesOK, ContentsOK
<1>1. /\ SlotsOf(i) # {} => First(SlotsOf(i)) \in SlotsOf(i)
      /\ SlotsOf(i) # {} <=> Has(contents, i)
  BY Found
<1>2. CASE SlotsOf(i) = {}
  <2> DEFINE s == [idx |-> i, data |-> d]
  <2>1. s \in Content /\ s.idx = i /\ s.data = d
    <3>1. i \in 1..MaxFiles
      BY <1>0, SizesAssumption
    <3>2. s \in Content
      BY <3>1, Zenon DEF Content
    <3>3. QED
      BY <3>2
  <2>2. contents' = Append(contents, s)
    BY <1>2 DEF StoreBytes
  <2> HIDE DEF s
  <2>3. /\ contents' \in Seq(Content) /\ Len(contents') = Len(contents) + 1
        /\ \A k \in 1..Len(contents) : contents'[k] = contents[k]
        /\ contents'[Len(contents) + 1] = s
    BY <1>0, <2>1, <2>2, AppendProperties
  <2>4. \A k \in 1..Len(contents) : contents[k].idx # i
    BY <1>1, <1>2 DEF Has
  <2>5. Fits(t, s)
    BY <2>1 DEF Fits
  <2>6. Tied(t, contents')
    <3>1. \A k \in 1..Len(contents) : Fits(t, contents[k])
      BY <2>4 DEF TiedBut
    <3>2. \A k \in 1..Len(contents') : k = Len(contents) + 1 \/ k \in 1..Len(contents)
      BY <1>0, <2>3
    <3>3. \A k \in 1..Len(contents') : Fits(t, contents'[k])
      BY <2>3, <2>5, <3>1, <3>2
    <3>4. TagsApart(contents')
      BY <2>1, <2>3, <2>4, <3>2 DEF TiedBut, TagsApart
    <3>5. QED
      BY <3>3, <3>4 DEF Tied
  <2>7. FilledBut(t, contents, i) => AllFilled(t, contents')
    <3>1. /\ 1..Len(contents) \subseteq 1..Len(contents')
          /\ Len(contents) + 1 \in 1..Len(contents')
      BY <1>0, <2>3
    <3>2. \A j \in 1..Len(t) : Has(contents, j) => Has(contents', j)
      BY <2>3, <3>1 DEF Has
    <3>3. Has(contents', i)
      BY <2>1, <2>3, <3>1 DEF Has
    <3>4. QED
      BY <3>2, <3>3 DEF FilledBut, AllFilled, Filled
  <2>8. QED
    BY <2>3, <2>6, <2>7
<1>3. CASE SlotsOf(i) # {}
  <2> DEFINE l == First(SlotsOf(i))
             s == [contents[l] EXCEPT !.data = d]
  <2>1. l \in 1..Len(contents) /\ contents[l].idx = i /\ contents[l] \in Content
    <3>1. l \in 1..Len(contents) /\ contents[l].idx = i
      BY <1>1, <1>3 DEF SlotsOf
    <3>2. QED
      BY <1>0, <3>1, ElementOfSeq
  <2>2. contents' = [contents EXCEPT ![l].data = d]
    BY <1>3 DEF StoreBytes
  <2> HIDE DEF l
  <2>3. s \in Content /\ s.idx = i /\ s.data = d
    BY <2>1 DEF Content
  <2>4. contents' = [contents EXCEPT ![l] = s]
    BY <2>2
  <2> HIDE DEF s
  <2>5. contents' \in Seq(Content) /\ Len(contents') = Len(contents)
    BY <1>0, <2>1, <2>3, <2>4, ExceptSeq
  <2>6. \A k \in 1..Len(contents) : contents'[k] = IF k = l THEN s ELSE contents[k]
    BY <1>0, <2>1, <2>3, <2>4, ExceptSeq
  <2>7. \A k \in 1..Len(contents) : contents'[k].idx = contents[k].idx
    BY <2>1, <2>3, <2>6
  <2>8. TagsApart(contents')
    BY <2>5, <2>7 DEF TiedBut, TagsApart
  <2>9. Fits(t, s)
    BY <2>3 DEF Fits
  <2>10. \A k \in 1..Len(contents) : Fits(t, contents'[k])
    <3>1. \A k \in 1..Len(contents) : k # l => contents[k].idx # i
      BY <2>1 DEF TiedBut, TagsApart
    <3>2. QED
      BY <2>6, <2>9, <3>1 DEF TiedBut
  <2>11. FilledBut(t, contents, i) => AllFilled(t, contents')
    <3>1. \A j : Has(contents, j) => Has(contents', j)
      BY <2>5, <2>7 DEF Has
    <3>2. Has(contents', i)
      BY <2>1, <2>5, <2>7 DEF Has
    <3>3. QED
      BY <3>1, <3>2 DEF FilledBut, AllFilled, Filled
  <2>12. QED
    BY <2>5, <2>8, <2>10, <2>11 DEF Tied
<1>4. QED
  BY <1>2, <1>3

-----------------------------------------------------------------------------
(* Once the tables are loaded, a step that keeps the room keeps them tied:  *)
(* every slot fits its entry, every file that is not empty has a slot, and  *)
(* the path of an entry tells a file from a directory.                      *)

WellNamed(e) ==
  \E n \in IF e.dir THEN DirPaths ELSE FilePaths : Bare[n] = Bare[e.name]

TableNamed == \A i \in 1..Len(table) : WellNamed(table[i])

Matching ==
  Tied(table, contents) /\ AllFilled(table, contents) /\ TableNamed

LEMMA PathsAreNames == FilePaths \subseteq Name /\ DirPaths \subseteq Name
<1>1. \A i \in 1..Len(WebPages) : WebPages[i] \in Name
  BY DefaultsAssumption, ElementOfSeq
<1>2. \A i \in 1..Len(Seeds) : Seeds[i] \in Name
  BY DefaultsAssumption, ElementOfSeq
<1>3. \A i \in 1..Len(ExtraDirs) : ExtraDirs[i] \in Name
  BY DefaultsAssumption, ElementOfSeq
<1>4. \A i \in 1..Len(DesktopEntries) : DesktopEntries[i].name \in Name
  <2>1. \A i \in 1..Len(DesktopEntries) : DesktopEntries[i] \in DefaultEntry
    BY DefaultsAssumption, ElementOfSeq
  <2>2. QED
    BY <2>1, Zenon DEF DefaultEntry
<1>5. QED
  BY <1>1, <1>2, <1>3, <1>4, NamesAssumption
     DEF FilePaths, DirPaths, Listed, DefaultsOf

LEMMA NamedFile ==
  ASSUME PathsApart, TablesOK, TableNamed, NEW n \in FilePaths, NEW i \in Named(n)
  PROVE  i \in 1..Len(table) /\ table[i].name = n /\ ~table[i].dir
<1>1. i \in 1..Len(table) /\ table[i].name = n
  BY DEF Named
<1>2. WellNamed(table[i])
  BY <1>1 DEF TableNamed
<1>3. QED
  BY <1>1, <1>2 DEF WellNamed, PathsApart

(* A file gets its size and then its bytes, in a slot that is free. *)
LEMMA NewFileKeeps ==
  ASSUME TablesOK, Matching, Len(table') <= MaxContents, NEW n \in FilePaths,
         NEW d \in Bytes, HasRoom, Add(NewEntry(n, Len(d), FALSE)),
         HasSlot(Len(table) + 1) => StoreBytes(Len(table) + 1, d)
  PROVE  Matching'
<1> USE SizesAssumption
<1> DEFINE e == NewEntry(n, Len(d), FALSE)
           i == Len(table) + 1
<1>0. table \in Seq(Entry) /\ Len(table) \in Nat /\ contents \in Seq(Content)
  BY DEF TablesOK, TableOK, ContentsOK
<1>1. e \in Entry /\ e.name = n /\ e.size = Len(d) /\ e.dir = FALSE
  <2>1. Len(d) \in 0..MaxBlocks /\ n \in Name
    BY BytesAreSequences, PathsAreNames
  <2>2. QED
    BY <2>1, NewEntryOK DEF NewEntry
<1> HIDE DEF e
<1>2. table' = Append(table, e)
  BY DEF Add, e
<1>3. /\ table' \in Seq(Entry) /\ Len(table') = i
      /\ \A j \in 1..Len(table) : table'[j] = table[j]
      /\ table'[i] = e
  BY <1>0, <1>1, <1>2, AppendProperties
<1>4. /\ Tied(table', contents) /\ ~Has(contents, i)
      /\ FilledBut(table', contents, i)
  BY <1>0, <1>1, <1>2, AppendEntry DEF Matching
<1>5. TiedBut(table', contents, i)
  BY <1>4 DEF Tied, TiedBut, Has
<1>6. HasSlot(i)
  <2>1. Len(table) < MaxContents
    BY <1>0, <1>3
  <2>2. QED
    BY <1>0, <2>1, SlotIsFree DEF Matching
<1>7. i \in 1..Len(table') /\ i <= MaxFiles
  BY <1>0, <1>3 DEF HasRoom
<1>8. Tied(table', contents') /\ AllFilled(table', contents')
  <2>1. ~table'[i].dir /\ Len(d) = table'[i].size
    BY <1>1, <1>3
  <2>2. StoreBytes(i, d)
    BY <1>6
  <2> HIDE DEF i
  <2>3. QED
    BY <1>3, <1>4, <1>5, <1>7, <2>1, <2>2, PutBytes
<1>9. TableNamed'
  <2>1. WellNamed(e)
    BY <1>1 DEF WellNamed
  <2>2. QED
    BY <1>0, <1>3, <2>1 DEF Matching, TableNamed
<1>10. QED
  BY <1>8, <1>9 DEF Matching

LEMMA OldFileKeeps ==
  ASSUME TablesOK, Matching, Len(table') <= MaxContents, NEW i \in 1..Len(table),
         ~table[i].dir, NEW d \in Bytes, table' = [table EXCEPT ![i].size = Len(d)],
         HasSlot(i) => StoreBytes(i, d)
  PROVE  Matching'
<1> USE SizesAssumption
<1>0. table \in Seq(Entry) /\ Len(table) \in Nat /\ contents \in Seq(Content)
      /\ Len(table) <= MaxFiles
  BY DEF TablesOK, TableOK, ContentsOK
<1>1. Len(d) \in 0..MaxBlocks
  BY BytesAreSequences
<1>2. Tied(table, contents) /\ AllFilled(table, contents) /\ TableNamed
  BY DEF Matching
<1>3. /\ table' \in Seq(Entry) /\ Len(table') = Len(table)
      /\ table'[i].name = table[i].name
      /\ table'[i].dir = table[i].dir /\ table'[i].size = Len(d)
      /\ \A j \in 1..Len(table) : j # i => table'[j] = table[j]
      /\ TiedBut(table', contents, i)
      /\ FilledBut(table', contents, i)
  <2> DEFINE e == [table[i] EXCEPT !.size = Len(d)]
  <2>1. table[i] \in Entry
    BY <1>0, ElementOfSeq
  <2>2. e \in Entry /\ e.name = table[i].name /\ e.dir = table[i].dir /\ e.size = Len(d)
    BY <1>1, <2>1 DEF Entry
  <2>3. table' = [table EXCEPT ![i] = e]
    OBVIOUS
  <2> HIDE DEF e
  <2>4. Replaced(table, i, e, table')
    <3>1. Replaced(table, i, e, [table EXCEPT ![i] = e])
      BY <1>0, <2>2, ReplacedOK
    <3>2. QED
      BY <2>3, <3>1, Zenon
  <2>5. /\ TiedBut(table', contents, i)
        /\ AllFilled(table, contents) => FilledBut(table', contents, i)
    BY <1>0, <1>2, <2>2, <2>4, Replace
  <2>6. QED
    BY <1>2, <2>2, <2>4, <2>5 DEF Replaced
<1>4. HasSlot(i)
  BY <1>0, <1>2, <1>3, SlotIsFree
<1>5. Tied(table', contents') /\ AllFilled(table', contents')
  <2>1. i \in 1..Len(table') /\ i <= MaxFiles /\ StoreBytes(i, d)
        /\ ~table'[i].dir /\ Len(d) = table'[i].size
    BY <1>0, <1>3, <1>4
  <2>2. QED
    BY <1>3, <2>1, PutBytes
<1>6. TableNamed'
  <2>1. WellNamed(table'[i])
    BY <1>2, <1>3 DEF TableNamed, WellNamed
  <2>2. QED
    BY <1>2, <1>3, <2>1 DEF TableNamed
<1>7. QED
  BY <1>5, <1>6 DEF Matching

LEMMA StoreKeeps ==
  ASSUME PathsApart, TablesOK, Matching, Len(table') <= MaxContents,
         NEW n \in FilePaths, NEW d \in Bytes,
         Named(n) # {} \/ HasRoom, StoreEntry(n, d),
         HasSlot(SlotIndex(n)) => StoreBytes(SlotIndex(n), d)
  PROVE  Matching'
<1>1. CASE Named(n) = {}
  BY <1>1, NewFileKeeps DEF StoreEntry, SlotIndex
<1>2. CASE Named(n) # {}
  <2> DEFINE i == First(Named(n))
  <2>1. i \in 1..Len(table) /\ ~table[i].dir
    BY <1>2, Found, NamedFile DEF Matching
  <2>2. table' = [table EXCEPT ![i].size = Len(d)] /\ SlotIndex(n) = i
    BY <1>2 DEF StoreEntry, SlotIndex
  <2> HIDE DEF i
  <2>3. QED
    BY <2>1, <2>2, OldFileKeeps
<1>3. QED
  BY <1>1, <1>2

LEMMA SaveFileContentKeeps ==
  ASSUME PathsApart, TablesOK, Matching, Len(table') <= MaxContents,
         NEW n \in FilePaths, NEW d \in Bytes, SaveFileContent(n, d)
  PROVE  Matching'
<1>1. CASE UNCHANGED ram
  BY <1>1 DEF ram, Matching, TableNamed
<1>2. CASE (Named(n) # {} \/ HasRoom) /\ StoreEntry(n, d)
           /\ (HasSlot(SlotIndex(n)) => StoreBytes(SlotIndex(n), d))
  BY <1>2, StoreKeeps
<1>3. QED
  BY <1>1, <1>2, Zenon DEF SaveFileContent

(* A new entry without data: a directory, a shortcut, an empty file. *)
LEMMA EmptyEntryKeeps ==
  ASSUME TablesOK, Matching, NEW dir \in BOOLEAN,
         NEW n \in IF dir THEN DirPaths ELSE FilePaths,
         (HasRoom /\ Add(NewEntry(n, 0, dir))) \/ UNCHANGED table,
         UNCHANGED contents
  PROVE  Matching'
<1> DEFINE e == NewEntry(n, 0, dir)
<1>0. table \in Seq(Entry) /\ Len(table) \in Nat /\ contents \in Seq(Content)
  BY DEF TablesOK, TableOK, ContentsOK
<1>1. e \in Entry /\ e.name = n /\ e.size = 0 /\ e.dir = dir
  <2>1. n \in Name /\ 0 \in 0..MaxBlocks
    BY PathsAreNames, SizesAssumption
  <2>2. QED
    BY <2>1, NewEntryOK DEF NewEntry
<1>2. CASE UNCHANGED table
  BY <1>2 DEF Matching, TableNamed
<1>3. CASE Add(e)
  <2> HIDE DEF e
  <2>1. table' = Append(table, e)
    BY <1>3 DEF Add
  <2>2. Tied(table', contents) /\ AllFilled(table', contents)
    BY <1>0, <1>1, <2>1, AppendEntry DEF Matching
  <2>3. WellNamed(e)
    BY <1>1 DEF WellNamed
  <2>4. TableNamed'
    BY <1>0, <1>1, <2>1, <2>3, AppendProperties DEF Matching, TableNamed
  <2>5. QED
    BY <2>2, <2>4 DEF Matching
<1>4. QED
  BY <1>2, <1>3

LEMMA NanoKeeps ==
  ASSUME PathsApart, TablesOK, Matching, Len(table') <= MaxContents,
         NEW n \in FilePaths, NEW d \in Bytes, Nano(n, d)
  PROVE  Matching'
<1> DEFINE i == IF Files(n) = {} THEN Len(table) + 1 ELSE First(Files(n))
<1>1. i <= MaxFiles /\ StoreBytes(i, d)
  BY DEF Nano
<1>2. Len(table) \in Nat
  BY DEF TablesOK, TableOK
<1>3. CASE Files(n) = {}
  <2>1. i = Len(table) + 1
    BY <1>3
  <2>2. HasRoom
    BY <1>1, <1>2, <2>1, SizesAssumption DEF HasRoom
  <2>3. Add(NewEntry(n, Len(d), FALSE))
    BY <1>3 DEF Nano
  <2>4. StoreBytes(Len(table) + 1, d)
    BY <1>1, <2>1, Zenon
  <2>5. QED
    BY <2>2, <2>3, <2>4, NewFileKeeps
<1>4. CASE Files(n) # {}
  <2>1. i \in 1..Len(table) /\ ~table[i].dir
    BY <1>4, Found DEF Files, Named
  <2>2. table' = [table EXCEPT ![i].size = Len(d)]
    BY <1>4 DEF Nano
  <2> HIDE DEF i
  <2>3. QED
    BY <1>1, <2>1, <2>2, OldFileKeeps
<1>5. QED
  BY <1>3, <1>4

LEMMA CopyKeeps ==
  ASSUME PathsApart, TablesOK, Matching, Len(table') <= MaxContents,
         NEW n \in FilePaths, NEW m \in FilePaths, Copy(n, m)
  PROVE  Matching'
<1> USE SizesAssumption
<1> DEFINE i == First(Files(n))
           j == Len(table) + 1
           l == First(SlotsOf(i))
           d == contents[l].data
<1>0. /\ table \in Seq(Entry) /\ Len(table) \in Nat
      /\ contents \in Seq(Content) /\ Len(contents) \in Nat
  BY DEF TablesOK, TableOK, ContentsOK
<1>1. /\ HasRoom /\ Add(NewEntry(m, table[i].size, FALSE))
      /\ contents' = IF SlotsOf(i) # {} /\ Len(contents) < MaxContents
           THEN Append(contents, [idx |-> j, data |-> d]) ELSE contents
  BY DEF Copy
<1>2. i \in 1..Len(table) /\ ~table[i].dir
  <2>1. Files(n) # {}
    BY DEF Copy
  <2>2. i \in Files(n)
    BY <2>1, Found
  <2>3. QED
    BY <2>2 DEF Files, Named
<1> HIDE DEF i
<1>3. Tied(table, contents) /\ AllFilled(table, contents)
  BY DEF Matching
<1>4. table[i].size \in 0..MaxBlocks
  BY <1>0, <1>2, EntryParts
<1>5. CASE SlotsOf(i) = {}
  <2>1. table[i].size = 0
    <3>1. ~Has(contents, i)
      BY <1>5, Found
    <3>2. QED
      BY <1>2, <1>3, <1>4, <3>1 DEF AllFilled, Filled
  <2>2. UNCHANGED contents /\ HasRoom /\ Add(NewEntry(m, 0, FALSE))
    BY <1>1, <1>5, <2>1
  <2>3. QED
    BY <2>2, EmptyEntryKeeps
<1>6. CASE SlotsOf(i) # {}
  <2>1. l \in 1..Len(contents) /\ contents[l].idx = i
    BY <1>6, Found DEF SlotsOf
  <2>2. d \in Bytes /\ Len(d) = table[i].size
    BY <1>0, <1>3, <2>1, ContentParts DEF Tied, Fits
  <2>3. /\ SlotsOf(j) = {}
        /\ Len(contents) <= Len(table)
    <3>1. TagsApart(contents) /\ \A k \in 1..Len(contents) : contents[k].idx <= Len(table)
      BY <1>3 DEF Tied, Fits
    <3>2. Len(contents) <= Len(table)
      BY <1>0, <3>1, Pigeons
    <3>3. \A k \in 1..Len(contents) : contents[k].idx \in Nat
      BY <1>0, ContentParts
    <3>4. QED
      BY <1>0, <3>1, <3>2, <3>3 DEF SlotsOf
  <2>4. Len(contents) < MaxContents
    <3>1. Len(table') = Len(table) + 1
      BY <1>0, <1>1 DEF Add
    <3>2. QED
      BY <1>0, <2>3, <3>1
  <2> HIDE DEF l, d
  <2>5. StoreBytes(Len(table) + 1, d)
    BY <1>1, <1>6, <2>3, <2>4 DEF StoreBytes
  <2>6. HasRoom /\ Add(NewEntry(m, Len(d), FALSE))
    BY <1>1, <2>2
  <2>7. QED
    BY <2>2, <2>5, <2>6, NewFileKeeps
<1>7. QED
  BY <1>5, <1>6

(* A file is renamed to a path of files, wherever its entry stands. *)
LEMMA MoveKeeps ==
  ASSUME PathsApart, TablesOK, Matching, NEW n \in FilePaths, NEW m \in FilePaths,
         Move(n, m)
  PROVE  Matching'
<1> DEFINE i == First(Named(n))
           e == [table[i] EXCEPT !.name = m]
<1>0. table \in Seq(Entry) /\ contents \in Seq(Content)
  BY DEF TablesOK, TableOK, ContentsOK
<1>1. i \in 1..Len(table) /\ ~table[i].dir
  BY Found, NamedFile DEF Move, Matching
<1>2. table' = [table EXCEPT ![i].name = m] /\ contents' = contents
  BY DEF Move
<1>3. table[i] \in Entry
  BY <1>0, <1>1, ElementOfSeq
<1> HIDE DEF i
<1>4. e \in Entry /\ e.name = m /\ e.dir = table[i].dir /\ e.size = table[i].size
  <2>1. m \in Name
    BY PathsAreNames
  <2>2. QED
    BY <1>3, <2>1 DEF Entry
<1>5. table' = [table EXCEPT ![i] = e]
  BY <1>2
<1> HIDE DEF e
<1>6. Replaced(table, i, e, table')
  <2>1. Replaced(table, i, e, [table EXCEPT ![i] = e])
    BY <1>0, <1>1, <1>4, ReplacedOK
  <2>2. QED
    BY <1>5, <2>1, Zenon
<1>7. Tied(table', contents) /\ AllFilled(table', contents)
  BY <1>0, <1>1, <1>4, <1>6, Replace DEF Matching
<1>8. TableNamed'
  <2>1. WellNamed(e)
    BY <1>1, <1>4 DEF WellNamed
  <2>2. QED
    BY <1>6, <2>1 DEF Matching, TableNamed, Replaced
<1>9. QED
  BY <1>2, <1>7, <1>8 DEF Matching

-----------------------------------------------------------------------------
(* The invariant: as above, and while the contents are loaded, for the      *)
(* entries that the loop has passed.                                        *)

DiskNamed == \A i \in 1..MaxFiles : diskTable[i] # NoEntry => WellNamed(diskTable[i])

HalfLoaded ==
  /\ \A k \in 1..Len(contents) : contents[k].idx < cursor
  /\ \A i \in 1..Len(table) : i < cursor => Filled(table, contents, i)

TagInv ==
  /\ Tied(table, contents)
  /\ Up => AllFilled(table, contents)
  /\ pc = "contents" => HalfLoaded
  /\ TableNamed
  /\ DiskNamed

(* What a step that keeps the tables tied has to show. *)
Rematched == Matching' /\ UNCHANGED disk /\ pc' # "contents"

LEMMA RematchedOK ==
  ASSUME TagInv, Rematched
  PROVE  TagInv'
BY DEF TagInv, Rematched, Matching, DiskNamed, disk

LEMMA WellNamedBare ==
  ASSUME NEW e \in Entry, WellNamed(e)
  PROVE  WellNamed([e EXCEPT !.name = Bare[e.name]])
<1> DEFINE b == [e EXCEPT !.name = Bare[e.name]]
<1>1. b.dir = e.dir /\ b.name = Bare[e.name] /\ e.name \in Name
  BY DEF Entry
<1>2. Bare[b.name] = Bare[e.name]
  BY <1>1, NamesAssumption
<1> HIDE DEF b
<1>3. WellNamed(b)
  BY <1>1, <1>2 DEF WellNamed
<1>4. QED
  BY <1>3 DEF b

(* The tables are empty, or are being loaded. *)
LEMMA LoadingKeepsTags ==
  ASSUME IInv, TagInv, Roomy,
         PowerOn \/ LoadVolume \/ LoadEntry \/ LoadEntriesDone
  PROVE  TagInv'
<1> USE TypeParts
<1>0. /\ TablesOK /\ DiskOK /\ ControlOK /\ LoadShape
      /\ table \in Seq(Entry) /\ Len(table) \in Nat /\ contents \in Seq(Content)
  BY DEF IInv, TablesOK, TableOK, ContentsOK
<1>1. UNCHANGED disk
  BY DEF PowerOn, LoadVolume, LoadEntry, LoadEntriesDone, BootStep
<1>2. DiskNamed'
  BY <1>1 DEF TagInv, DiskNamed, disk
<1>3. CASE PowerOn
  BY <1>2, <1>3 DEF PowerOn, Reset, Goto, TagInv, Tied, TagsApart, Up, TableNamed
<1>4. CASE LoadVolume
  BY <1>2, <1>4 DEF LoadVolume, BootStep, Goto, ram, TagInv, Up, TableNamed
<1>5. CASE LoadEntry
  <2> DEFINE e == [diskTable[cursor] EXCEPT !.name = Bare[diskTable[cursor].name]]
  <2>1. cursor \in 1..MaxFiles /\ diskTable[cursor] # NoEntry
    BY <1>0, <1>5, SizesAssumption DEF LoadEntry, EntryPresent, ControlOK
  <2>2. diskTable[cursor] \in Entry /\ WellNamed(diskTable[cursor])
    BY <1>0, <2>1 DEF DiskOK, TagInv, DiskNamed
  <2>3. WellNamed(e) /\ e \in Entry
    BY <2>2, WellNamedBare, NamesAssumption DEF Entry
  <2>4. table' = Append(table, e) /\ contents' = contents
        /\ contents = <<>> /\ pc = "entries" /\ pc' = pc
    BY <1>0, <1>5 DEF LoadEntry, Add, BootStep, NextIteration, LoadShape
  <2> HIDE DEF e
  <2>5. TableNamed'
    BY <1>0, <2>3, <2>4, AppendProperties DEF TagInv, TableNamed
  <2>6. QED
    BY <1>2, <2>4, <2>5 DEF TagInv, Tied, TagsApart, Up
<1>6. CASE LoadEntriesDone
  <2>1. /\ table' = table /\ contents' = contents /\ contents = <<>>
        /\ pc' = "contents" /\ cursor' = 1
    BY <1>0, <1>6 DEF LoadEntriesDone, BootStep, Goto, ram, LoadShape
  <2>2. HalfLoaded'
    BY <2>1 DEF HalfLoaded
  <2>3. QED
    BY <1>2, <2>1, <2>2 DEF TagInv, Tied, TagsApart, Up, TableNamed
<1>7. QED
  BY <1>3, <1>4, <1>5, <1>6

(* The loop over the entries, which ends at the last entry, not for want of *)
(* slots.                                                                   *)
LEMMA LoadContentKeepsTags ==
  ASSUME IInv, TagInv, Roomy, LoadContent
  PROVE  TagInv'
<1> USE TypeParts
<1> DEFINE e == table[cursor]
           d == [s \in 1..e.size |-> diskData[cursor][s]]
           c == [idx |-> cursor, data |-> d]
<1>0. /\ table \in Seq(Entry) /\ Len(table) \in Nat
      /\ contents \in Seq(Content) /\ Len(contents) \in Nat
      /\ Len(table) <= MaxFiles
  BY DEF IInv, TablesOK, TableOK, ContentsOK
<1>1. cursor \in 1..Len(table) /\ cursor \in 1..MaxFiles
  BY <1>0, SizesAssumption DEF IInv, LoadContent, ControlOK
<1>2. e.size \in 0..MaxBlocks
  BY <1>0, <1>1, EntryParts
<1>3. /\ pc = "contents" /\ pc' = "contents" /\ cursor' = cursor + 1
      /\ table' = table /\ UNCHANGED disk
      /\ IF e.size > 0 /\ ~e.dir THEN contents' = Append(contents, c)
                                 ELSE contents' = contents
  BY DEF LoadContent, BootStep, NextIteration
<1>4. HalfLoaded /\ Tied(table, contents)
  BY <1>3 DEF TagInv
<1>5. DiskNamed' /\ TableNamed' /\ ~Up'
  BY <1>3 DEF TagInv, DiskNamed, TableNamed, disk, Up
<1>6. CASE ~(e.size > 0 /\ ~e.dir)
  <2>1. contents' = contents
    BY <1>3, <1>6
  <2>2. HalfLoaded'
    <3>1. Filled(table, contents, cursor)
      BY <1>6 DEF Filled
    <3>2. \A i \in 1..Len(table) : i < cursor + 1 => Filled(table, contents, i)
      BY <1>1, <1>4, <3>1 DEF HalfLoaded
    <3>3. \A k \in 1..Len(contents) : contents[k].idx < cursor + 1
      BY <1>0, <1>1, <1>4, ContentParts DEF HalfLoaded
    <3>4. QED
      BY <1>3, <2>1, <3>2, <3>3 DEF HalfLoaded
  <2>3. QED
    BY <1>3, <1>4, <1>5, <2>1, <2>2 DEF TagInv
<1>7. CASE e.size > 0 /\ ~e.dir
  <2>1. d \in [1..e.size -> Block]
    BY <1>1, <1>2, SizesAssumption DEF IInv, DiskOK
  <2>2. d \in Bytes /\ Len(d) = e.size
    BY <1>2, <2>1 DEF Bytes
  <2> HIDE DEF d
  <2>3. c \in Content /\ c.idx = cursor /\ c.data = d
    BY <1>1, <2>2, Zenon DEF Content
  <2>4. Fits(table, c)
    BY <1>1, <1>7, <2>2, <2>3 DEF Fits
  <2>5. contents' = Append(contents, c)
    BY <1>3, <1>7
  <2> HIDE DEF c
  <2>6. /\ Len(contents') = Len(contents) + 1
        /\ \A k \in 1..Len(contents) : contents'[k] = contents[k]
        /\ contents'[Len(contents) + 1] = c
    BY <1>0, <2>3, <2>5, AppendProperties
  <2>7. \A k \in 1..Len(contents') : k = Len(contents) + 1 \/ k \in 1..Len(contents)
    BY <1>0, <2>6
  <2>8. \A k \in 1..Len(contents) : contents[k].idx \in Nat /\ contents[k].idx < cursor
    BY <1>0, <1>4, ContentParts DEF HalfLoaded
  <2>9. Tied(table, contents')
    <3>1. \A k \in 1..Len(contents') : Fits(table, contents'[k])
      BY <1>4, <2>4, <2>6, <2>7 DEF Tied
    <3>2. TagsApart(contents')
      BY <1>4, <2>3, <2>6, <2>7, <2>8 DEF Tied, TagsApart
    <3>3. QED
      BY <3>1, <3>2 DEF Tied
  <2>10. HalfLoaded'
    <3>1. \A k \in 1..Len(contents') : contents'[k].idx < cursor + 1
      BY <1>1, <2>3, <2>6, <2>7, <2>8
    <3>2. ASSUME NEW i \in 1..Len(table), i < cursor + 1 PROVE Filled(table, contents', i)
      <4>1. CASE i = cursor
        BY <1>0, <2>3, <2>6, <4>1 DEF Filled, Has
      <4>2. CASE i < cursor
        BY <1>0, <1>4, <2>6, <4>2 DEF HalfLoaded, Filled, Has
      <4>3. QED
        BY <1>1, <3>2, <4>1, <4>2
    <3>3. QED
      BY <1>3, <3>1, <3>2 DEF HalfLoaded
  <2>11. QED
    BY <1>3, <1>5, <2>9, <2>10 DEF TagInv
<1>8. QED
  BY <1>6, <1>7

(* The loop over the entries has come to the last one when it ends: the     *)
(* slots it has filled claim different entries of those it has passed.      *)
LEMMA LoopPassesAll ==
  ASSUME IInv, TagInv, Roomy, LoadContentsDone
  PROVE  cursor > Len(table)
<1> USE TypeParts, SizesAssumption
<1>0. /\ Len(table) \in Nat
      /\ contents \in Seq(Content) /\ Len(contents) \in Nat
      /\ cursor \in Nat \ {0}
  BY DEF IInv, TablesOK, TableOK, ContentsOK, ControlOK
<1>1. pc = "contents" /\ (cursor > Len(table) \/ Len(contents) >= MaxContents)
  BY DEF LoadContentsDone, BootStep
<1>2. HalfLoaded /\ Tied(table, contents)
  BY <1>1 DEF TagInv
<1>3. \A k \in 1..Len(contents) : contents[k].idx <= cursor - 1
  BY <1>0, <1>2, ContentParts DEF HalfLoaded
<1>4. TagsApart(contents) /\ cursor - 1 \in Nat
  BY <1>0, <1>2 DEF Tied
<1>5. Len(contents) <= cursor - 1
  BY <1>0, <1>3, <1>4, Pigeons
<1>6. QED
  BY <1>0, <1>1, <1>5 DEF Roomy

LEMMA LoadedAll ==
  ASSUME IInv, TagInv, Roomy, LoadContentsDone
  PROVE  Rematched
<1>1. /\ pc = "contents" /\ pc' = "desktop" /\ UNCHANGED ram /\ UNCHANGED disk
  BY DEF LoadContentsDone, BootStep, Goto
<1>2. HalfLoaded /\ Tied(table, contents) /\ TableNamed
  BY <1>1 DEF TagInv
<1>3. Len(table) \in Nat /\ cursor > Len(table) /\ cursor \in Nat
  BY LoopPassesAll DEF IInv, TypeOK
<1>4. AllFilled(table, contents)
  BY <1>2, <1>3 DEF HalfLoaded, AllFilled
<1>5. QED
  BY <1>1, <1>2, <1>4 DEF Rematched, Matching, TableNamed, ram

LEMMA UpMatches ==
  ASSUME TagInv, Up
  PROVE  Matching
BY DEF TagInv, Matching

LEMMA SameTables ==
  ASSUME TagInv, Up, UNCHANGED ram, UNCHANGED disk, pc' # "contents"
  PROVE  Rematched
BY UpMatches DEF Rematched, Matching, TableNamed, ram

(* The steps of the boot that add default entries. *)
LEMMA EnsureKeepsTags ==
  ASSUME IInv, TagInv,
         EnsureDesktopEntry \/ EnsureDocuments \/ EnsureDir \/ EnterHome
  PROVE  Rematched
<1> USE TypeParts
<1>0. TablesOK /\ cursor \in Nat \ {0}
  BY DEF IInv, ControlOK
<1>1. /\ Matching /\ UNCHANGED disk /\ UNCHANGED contents /\ pc' # "contents"
  BY UpMatches
     DEF EnsureDesktopEntry, EnsureDocuments, EnsureDir, EnterHome, BootStep,
         Goto, NextIteration, Up
<1>2. CASE EnsureDesktopEntry
  <2> DEFINE e == DesktopEntries[cursor]
  <2>1. cursor \in 1..Len(DesktopEntries)
    BY <1>0, <1>2, DefaultsAssumption DEF EnsureDesktopEntry
  <2>2. e \in DefaultEntry
    BY <2>1, DefaultsAssumption, ElementOfSeq
  <2>3. e.dir \in BOOLEAN
    BY <2>2, Zenon DEF DefaultEntry
  <2>4. e.name \in IF e.dir THEN DirPaths ELSE FilePaths
    <3>1. e \in Listed(DesktopEntries)
      BY <2>1 DEF Listed
    <3>2. e.name \in DefaultsOf(e.dir)
      BY <3>1 DEF DefaultsOf
    <3>3. QED
      BY <2>3, <3>2 DEF DirPaths, FilePaths
  <2>5. (HasRoom /\ Add(NewEntry(e.name, 0, e.dir))) \/ UNCHANGED table
    BY <1>2, Zenon DEF EnsureDesktopEntry
  <2> HIDE DEF e
  <2>6. Matching'
    BY <1>0, <1>1, <2>3, <2>4, <2>5, EmptyEntryKeeps
  <2>7. QED
    BY <1>1, <2>6 DEF Rematched
<1>3. CASE EnsureDocuments
  <2>1. (HasRoom /\ Add(NewEntry(Documents, 0, TRUE))) \/ UNCHANGED table
    BY <1>3 DEF EnsureDocuments
  <2>2. Documents \in DirPaths
    BY DEF DirPaths
  <2>3. Matching'
    BY <1>0, <1>1, <2>1, <2>2, EmptyEntryKeeps
  <2>4. QED
    BY <1>1, <2>3 DEF Rematched
<1>4. CASE EnsureDir
  <2>1. (HasRoom /\ Add(NewEntry(ExtraDirs[cursor], 0, TRUE))) \/ UNCHANGED table
    BY <1>4 DEF EnsureDir
  <2>2. ExtraDirs[cursor] \in DirPaths
    <3>1. cursor \in 1..Len(ExtraDirs)
      BY <1>0, <1>4, DefaultsAssumption DEF EnsureDir
    <3>2. QED
      BY <3>1 DEF DirPaths, Listed
  <2>3. Matching'
    BY <1>0, <1>1, <2>1, <2>2, EmptyEntryKeeps
  <2>4. QED
    BY <1>1, <2>3 DEF Rematched
<1>5. CASE EnterHome
  <2>1. (HasRoom /\ Add(NewEntry(HomeDir, 0, TRUE))) \/ UNCHANGED table
    BY <1>5 DEF EnterHome
  <2>2. HomeDir \in DirPaths
    BY DEF DirPaths
  <2>3. Matching'
    BY <1>0, <1>1, <2>1, <2>2, EmptyEntryKeeps
  <2>4. QED
    BY <1>1, <2>3 DEF Rematched
<1>6. QED
  BY <1>2, <1>3, <1>4, <1>5

LEMMA CreateWebFileKeepsTags ==
  ASSUME PathsApart, IInv, TagInv, Roomy', CreateWebFile
  PROVE  Rematched
<1> USE TypeParts
<1> DEFINE n == WebPages[cursor]
<1>0. TablesOK /\ cursor \in Nat \ {0}
  BY DEF IInv, ControlOK
<1>1. Matching /\ UNCHANGED disk /\ pc' # "contents"
  BY UpMatches DEF CreateWebFile, BootStep, NextIteration, Up
<1>2. n \in FilePaths /\ DefaultData \in Bytes
  <2>1. cursor \in 1..Len(WebPages)
    BY <1>0, DefaultsAssumption DEF CreateWebFile
  <2>2. QED
    BY <2>1, DataAssumption DEF FilePaths, Listed
<1>3. CASE UNCHANGED ram
  BY <1>1, <1>3 DEF Rematched, Matching, TableNamed, ram
<1>4. CASE /\ Named(n) # {} \/ HasRoom
           /\ StoreEntry(n, DefaultData)
           /\ HasSlot(SlotIndex(n)) => StoreBytes(SlotIndex(n), DefaultData)
  <2>1. Len(table') <= MaxContents
    BY DEF Roomy
  <2> HIDE DEF n
  <2>2. Matching'
    BY <1>0, <1>1, <1>2, <1>4, <2>1, StoreKeeps
  <2>3. QED
    BY <1>1, <2>2 DEF Rematched
<1>5. QED
  BY <1>3, <1>4, Zenon DEF CreateWebFile

LEMMA SeedFileKeepsTags ==
  ASSUME PathsApart, IInv, TagInv, Roomy', SeedFile
  PROVE  Rematched
<1> USE TypeParts
<1>0. TablesOK /\ cursor \in Nat \ {0}
  BY DEF IInv, ControlOK
<1>1. Matching /\ UNCHANGED disk /\ pc' # "contents"
  BY UpMatches DEF SeedFile, BootStep, NextIteration, Up
<1>2. Seeds[cursor] \in FilePaths /\ DefaultData \in Bytes
  <2>1. cursor \in 1..Len(Seeds)
    BY <1>0, DefaultsAssumption DEF SeedFile
  <2>2. QED
    BY <2>1, DataAssumption DEF FilePaths, Listed
<1>3. CASE UNCHANGED ram
  BY <1>1, <1>3 DEF Rematched, Matching, TableNamed, ram
<1>4. CASE SaveFileContent(Seeds[cursor], DefaultData)
  <2>1. Len(table') <= MaxContents
    BY DEF Roomy
  <2>2. Matching'
    BY <1>0, <1>1, <1>2, <1>4, <2>1, SaveFileContentKeeps
  <2>3. QED
    BY <1>1, <2>2 DEF Rematched
<1>5. QED
  BY <1>3, <1>4 DEF SeedFile

(* The steps that only move on.  The desktop finds no more entries than it  *)
(* accepts, and CHKDSK finds no orphan.                                     *)
LEMMA StageDoneKeepsTags ==
  ASSUME IInv, TagInv, Roomy,
         \/ EnsureDesktopDone \/ CreateWebFilesDone \/ EnsureDirsDone
         \/ SeedFilesDone \/ StartDesktop \/ ChkdskSlot \/ ChkdskDone
  PROVE  Rematched
<1> USE TypeParts
<1>1. Up /\ UNCHANGED disk /\ pc' # "contents"
  BY DEF EnsureDesktopDone, CreateWebFilesDone, EnsureDirsDone, SeedFilesDone,
         StartDesktop, ChkdskSlot, ChkdskDone, BootStep, Goto, Up
<1>2. CASE StartDesktop
  <2>1. Len(table) \in Nat
    BY DEF IInv, TablesOK, TableOK
  <2>2. ~(Len(table) > DesktopCap)
    BY <1>2, <2>1, SizesAssumption DEF StartDesktop, BootStep, Roomy
  <2>3. UNCHANGED ram
    BY <1>2, <2>2 DEF StartDesktop, ram
  <2>4. QED
    BY <1>1, <2>3, SameTables
<1>3. CASE ChkdskSlot
  <2>1. cursor \in 1..Len(contents) /\ contents \in Seq(Content)
        /\ Len(table) \in Nat
    BY <1>3 DEF IInv, ChkdskSlot, ControlOK, TablesOK, TableOK, ContentsOK
  <2>2. contents[cursor].idx <= Len(table) /\ contents[cursor].idx \in Nat
    BY <2>1, ContentParts DEF TagInv, Tied, Fits
  <2>3. ~Orphan(cursor)
    BY <2>1, <2>2 DEF Orphan
  <2>4. UNCHANGED ram
    BY <1>3, <2>3 DEF ChkdskSlot, ram
  <2>5. QED
    BY <1>1, <2>4, SameTables
<1>4. CASE UNCHANGED ram
  BY <1>1, <1>4, SameTables
<1>5. QED
  BY <1>2, <1>3, <1>4
     DEF EnsureDesktopDone, CreateWebFilesDone, EnsureDirsDone, SeedFilesDone,
         ChkdskDone

LEMMA EmptiedKeepsTags ==
  ASSUME TagInv, table' = <<>>, contents' = <<>>, pc' \in {"off", "volume"},
         UNCHANGED disk
  PROVE  TagInv'
BY DEF TagInv, Tied, TagsApart, Up, TableNamed, DiskNamed, disk

LEMMA CommandKeepsTags ==
  ASSUME PathsApart, IInv, TagInv, Roomy', KeepingCommand
  PROVE  Rematched \/ TagInv'
<1> USE TypeParts
<1>0. TablesOK /\ FileName \subseteq FilePaths /\ DirName \subseteq DirPaths
      /\ Payload \subseteq Bytes /\ Len(table') <= MaxContents
  BY DataAssumption DEF IInv, FilePaths, DirPaths, Roomy
<1>1. ASSUME NEW c, Accept(c), Stay
      PROVE  Matching /\ UNCHANGED disk /\ pc' # "contents" /\ Up
  BY <1>1, UpMatches DEF Accept, Stay, Up
<1>2. CASE \E n \in FileName, d \in Payload : SaveFile(n, d) \/ Nano(n, d)
  <2>1. PICK n \in FileName, d \in Payload : SaveFile(n, d) \/ Nano(n, d)
    BY <1>2
  <2>2. Matching /\ UNCHANGED disk /\ pc' # "contents"
    BY <1>1, <2>1 DEF SaveFile, Nano
  <2>3. n \in FilePaths /\ d \in Bytes
    BY <1>0
  <2>4. CASE SaveFile(n, d)
    <3>1. SaveFileContent(n, d)
      BY <2>4 DEF SaveFile
    <3>2. QED
      BY <1>0, <2>2, <2>3, <3>1, SaveFileContentKeeps DEF Rematched
  <2>5. CASE Nano(n, d)
    BY <1>0, <2>2, <2>3, <2>5, NanoKeeps DEF Rematched
  <2>6. QED
    BY <2>1, <2>4, <2>5
<1>3. CASE \E n \in FileName : Create("touch", n, FALSE)
  <2>1. PICK n \in FileName : Create("touch", n, FALSE)
    BY <1>3
  <2>2. Matching /\ UNCHANGED disk /\ pc' # "contents"
    BY <1>1, <2>1 DEF Create
  <2>3. HasRoom /\ Add(NewEntry(n, 0, FALSE)) /\ UNCHANGED contents /\ n \in FilePaths
    BY <1>0, <2>1 DEF Create
  <2>4. QED
    BY <1>0, <2>2, <2>3, EmptyEntryKeeps DEF Rematched
<1>4. CASE \E n \in DirName : Create("mkdir", n, TRUE)
  <2>1. PICK n \in DirName : Create("mkdir", n, TRUE)
    BY <1>4
  <2>2. Matching /\ UNCHANGED disk /\ pc' # "contents"
    BY <1>1, <2>1 DEF Create
  <2>3. HasRoom /\ Add(NewEntry(n, 0, TRUE)) /\ UNCHANGED contents /\ n \in DirPaths
    BY <1>0, <2>1 DEF Create
  <2>4. QED
    BY <1>0, <2>2, <2>3, EmptyEntryKeeps DEF Rematched
<1>5. CASE \E n, m \in FileName : Copy(n, m) \/ Move(n, m)
  <2>1. PICK n \in FileName, m \in FileName : Copy(n, m) \/ Move(n, m)
    BY <1>5
  <2>2. Matching /\ UNCHANGED disk /\ pc' # "contents"
    BY <1>1, <2>1 DEF Copy, Move
  <2>3. n \in FilePaths /\ m \in FilePaths
    BY <1>0
  <2>4. QED
    BY <1>0, <2>1, <2>2, <2>3, CopyKeeps, MoveKeeps DEF Rematched
<1>6. CASE Sync
  <2>1. Up /\ UNCHANGED disk /\ UNCHANGED ram /\ pc' # "contents"
    BY <1>1, <1>6 DEF Sync
  <2>2. QED
    BY <2>1, SameTables
<1>7. CASE OpenTerminal
  BY <1>7, EmptiedKeepsTags DEF OpenTerminal, Reset, Goto
<1>8. QED
  BY <1>2, <1>3, <1>4, <1>5, <1>6, <1>7 DEF KeepingCommand

(* A sector of the save leaves memory alone and writes an entry of it. *)
LEMMA SaveKeepsTags ==
  ASSUME IInv, TagInv, SaveStep \/ WriteFails
  PROVE  TagInv'
<1>1. UNCHANGED <<table, contents, pc, cursor>>
  BY DEF SaveStep, WriteVolume, WriteTableSector, WriteDataSector,
         WriteOtherSector, WriteFails, kernel
<1>2. DiskNamed'
  <2>1. CASE WriteTableSector
    <3>1. slot \in 1..MaxFiles /\ Len(table) \in Nat
          /\ diskTable \in [1..MaxFiles -> Entry \cup {NoEntry}]
      BY <2>1, SizesAssumption DEF WriteTableSector, IInv, TypeOK
    <3>2. \A i \in 1..MaxFiles : diskTable'[i] = IF i = slot
            THEN (IF slot <= Len(table) THEN table[slot] ELSE NoEntry)
            ELSE diskTable[i]
      BY <2>1, <3>1 DEF WriteTableSector
    <3>3. QED
      BY <3>1, <3>2 DEF TagInv, TableNamed, DiskNamed
  <2>2. CASE UNCHANGED diskTable
    BY <2>2 DEF TagInv, DiskNamed
  <2>3. QED
    BY <2>1, <2>2
       DEF SaveStep, WriteVolume, WriteDataSector, WriteOtherSector, WriteFails,
           disk
<1>3. QED
  BY <1>1, <1>2 DEF TagInv, Up, HalfLoaded, TableNamed

LEMMA TagStep ==
  ASSUME PathsApart, IInv, TagInv, Roomy, Roomy', [NextKeeping]_vars
  PROVE  TagInv'
<1>1. CASE SaveStep \/ WriteFails
  BY <1>1, SaveKeepsTags
<1>2. CASE Boot
  BY <1>2, LoadingKeepsTags, LoadContentKeepsTags, LoadedAll, EnsureKeepsTags,
     CreateWebFileKeepsTags, SeedFileKeepsTags, StageDoneKeepsTags, RematchedOK
     DEF Boot
<1>3. CASE ChkdskSlot \/ ChkdskDone
  BY <1>3, StageDoneKeepsTags, RematchedOK
<1>4. CASE KeepingCommand
  BY <1>4, CommandKeepsTags, RematchedOK
<1>5. CASE PowerFail
  BY <1>5, EmptiedKeepsTags DEF PowerFail
<1>6. CASE UNCHANGED vars
  BY <1>6 DEF vars, TagInv, Up, HalfLoaded, TableNamed, DiskNamed
<1>7. QED
  BY <1>1, <1>2, <1>3, <1>4, <1>5, <1>6 DEF NextKeeping, Kernel, Wait

LEMMA TagsSound ==
  ASSUME IInv, TagInv
  PROVE  ContentsMatchTable
<1>1. contents \in Seq(Content) /\ table \in Seq(Entry)
  BY DEF IInv, TypeOK
<1>2. \A i : Has(contents, i) => SlotsOf(i) # {}
  BY DEF Has, SlotsOf
<1>3. Up => \A i \in 1..Len(table) :
              table[i].size > 0 /\ ~table[i].dir => SlotsOf(i) # {}
  BY <1>2 DEF TagInv, AllFilled, Filled
<1>4. QED
  BY <1>3 DEF TagInv, Tied, TagsApart, Fits, ContentsMatchTable

-----------------------------------------------------------------------------
(* As long as no entry is removed, files and directories use different      *)
(* paths and there are at most as many entries as content slots, and as the *)
(* desktop accepts: no two slots claim one entry, every slot fits its       *)
(* entry, and every file that is not empty has its bytes, through all the   *)
(* commands, boots and power failures (save_file_content, fs_load_from_disk *)
(* and the commands that write fs_table and file_contents themselves).      *)
THEOREM ContentsFollowTable ==
  ASSUME PathsApart
  PROVE  SpecKeeping /\ []Roomy => []ContentsMatchTable
<1>1. Init => TagInv
  BY DEF Init, TagInv, Tied, TagsApart, Up, TableNamed, DiskNamed
<1>2. [NextKeeping]_vars => [Next]_vars
  BY DEF Next
<1>3. IInv /\ TagInv /\ Roomy /\ Roomy' /\ [NextKeeping]_vars => TagInv'
  BY TagStep
<1>4. IInv /\ TagInv => ContentsMatchTable
  BY TagsSound
<1>5. QED
  BY InitOK, StepOK, <1>1, <1>2, <1>3, <1>4, PTL DEF SpecKeeping

-----------------------------------------------------------------------------
(* CHKDSK /F: behind its loop no slot is an orphan, whichever were.         *)

ChkdskInv ==
  /\ op = "chkdsk" => pc \in {"off", "idle", "chkdsk"}
  /\ pc = "chkdsk" =>
       op = "chkdsk" /\ \A k \in 1..Len(contents) : k < cursor => ~Orphan(k)
  /\ ChkdskLeavesNoOrphan

LEMMA ChkdskLoop ==
  ASSUME IInv, ChkdskInv, ChkdskSlot \/ ChkdskDone
  PROVE  ChkdskInv'
<1> USE TypeParts
<1>0. /\ contents \in Seq(Content) /\ Len(contents) \in Nat /\ cursor \in Nat \ {0}
      /\ pc = "chkdsk" /\ op = "chkdsk" /\ op' = op /\ table' = table
      /\ \A k \in 1..Len(contents) : k < cursor => ~Orphan(k)
  BY DEF IInv, TablesOK, ContentsOK, ControlOK, ChkdskInv, ChkdskSlot, ChkdskDone,
         BootStep, ram
<1>1. CASE ChkdskSlot /\ Orphan(cursor)
  <2>1. cursor \in 1..Len(contents)
    BY <1>0, <1>1 DEF ChkdskSlot
  <2>2. contents' = Shifted(contents, cursor) /\ cursor' = cursor /\ pc' = pc
    BY <1>1 DEF ChkdskSlot
  <2>3. Len(contents') = Len(contents) - 1
    BY <1>0, <2>1, <2>2, ShiftedType
  <2>4. \A k \in 1..Len(contents') : k < cursor => contents'[k] = contents[k]
    BY <1>0, <2>1, <2>2, <2>3 DEF Shifted
  <2>5. \A k \in 1..Len(contents') : k < cursor => ~Orphan(k)'
    BY <1>0, <2>3, <2>4 DEF Orphan
  <2>6. QED
    BY <1>0, <2>2, <2>5 DEF ChkdskInv, ChkdskLeavesNoOrphan
<1>2. CASE ChkdskSlot /\ ~Orphan(cursor)
  <2>1. contents' = contents /\ cursor' = cursor + 1 /\ pc' = pc
    BY <1>2 DEF ChkdskSlot
  <2>2. \A k \in 1..Len(contents) : k < cursor + 1 => ~Orphan(k)
    BY <1>0, <1>2
  <2>3. QED
    BY <1>0, <2>1, <2>2 DEF ChkdskInv, ChkdskLeavesNoOrphan, Orphan
<1>3. CASE ChkdskDone
  <2>1. cursor > Len(contents) /\ contents' = contents /\ pc' = "idle"
    BY <1>3 DEF ChkdskDone, Goto, ram
  <2>2. \A k \in 1..Len(contents) : ~Orphan(k)
    BY <1>0, <2>1
  <2>3. QED
    BY <1>0, <2>1, <2>2 DEF ChkdskInv, ChkdskLeavesNoOrphan, Orphan
<1>4. QED
  BY <1>1, <1>2, <1>3

LEMMA ChkdskStep ==
  ASSUME IInv, ChkdskInv, [Next]_vars
  PROVE  ChkdskInv'
<1>1. CASE SaveStep \/ WriteFails \/ UNCHANGED vars
  <2>1. UNCHANGED <<table, contents, pc, cursor, op>>
    BY <1>1 DEF SaveStep, WriteVolume, WriteTableSector, WriteDataSector,
                WriteOtherSector, WriteFails, kernel, vars
  <2>2. QED
    BY <2>1 DEF ChkdskInv, ChkdskLeavesNoOrphan, Orphan
<1>2. CASE Boot
  <2>1. op' # "chkdsk" /\ pc' # "chkdsk"
    BY <1>2 DEF Boot, PowerOn, Reset, LoadVolume, LoadEntry, LoadEntriesDone,
       LoadContent, LoadContentsDone, EnsureDesktopEntry, EnsureDesktopDone,
       EnsureDocuments, CreateWebFile, CreateWebFilesDone, EnsureDir,
       EnsureDirsDone, SeedFile, SeedFilesDone, EnterHome, StartDesktop,
       BootStep, Goto, NextIteration, ChkdskInv
  <2>2. QED
    BY <2>1 DEF ChkdskInv, ChkdskLeavesNoOrphan
<1>3. CASE ChkdskSlot \/ ChkdskDone
  BY <1>3, ChkdskLoop
<1>4. CASE Chkdsk
  <2>1. op' = "chkdsk" /\ pc' = "chkdsk" /\ cursor' = 1 /\ contents' = contents
    BY <1>4 DEF Chkdsk, Accept, Goto, ram
  <2>2. QED
    BY <2>1 DEF ChkdskInv, ChkdskLeavesNoOrphan
<1>5. CASE KeepingCommand \/ (RemovingCommand /\ ~Chkdsk)
  <2>1. op' # "chkdsk" /\ pc' \in {"idle", "volume"}
    BY <1>5 DEF KeepingCommand, RemovingCommand, SaveFile, Nano, Create, Copy,
       Move, Sync, OpenTerminal, Del, Rmdir, Remove, Format, Accept, Stay, Reset,
       Goto
  <2>2. QED
    BY <2>1 DEF ChkdskInv, ChkdskLeavesNoOrphan
<1>6. CASE PowerFail
  BY <1>6 DEF PowerFail, ChkdskInv, ChkdskLeavesNoOrphan
<1>7. QED
  BY <1>1, <1>2, <1>3, <1>4, <1>5, <1>6 DEF Next, NextKeeping, Kernel, Wait

(* However many slots pointed past the table and wherever they stood, the   *)
(* loop of CHKDSK /F, which shifts the later slots down over each one and   *)
(* looks at the same index again, leaves none (cmd_chkdsk).                 *)
THEOREM ChkdskDropsOrphans == Spec => []ChkdskLeavesNoOrphan
<1>1. Init => ChkdskInv
  BY DEF Init, ChkdskInv, ChkdskLeavesNoOrphan
<1>2. ChkdskInv => ChkdskLeavesNoOrphan
  BY DEF ChkdskInv
<1>3. IInv /\ ChkdskInv /\ [Next]_vars => ChkdskInv'
  BY ChkdskStep
<1>4. QED
  BY InitOK, StepOK, <1>1, <1>2, <1>3, PTL DEF Spec

-----------------------------------------------------------------------------
(* The content sectors: how far the last loop of a save has come.  The slots *)
(* claim different entries, so that no sector is written over by a later     *)
(* slot of the same save.                                                    *)

Stored(k, s) ==
  diskData[contents[k].idx][s] =
    IF s <= Len(contents[k].data) THEN contents[k].data[s] ELSE ZeroBlock

SavedUpTo(k, s) ==
  \A l \in 1..Len(contents), r \in 1..MaxBlocks :
     l < k \/ (l = k /\ r <= s) => Stored(l, r)

DataProgress ==
  /\ area # "none" => AllFilled(table, contents)
  /\ ~failed /\ area = "data" => SavedUpTo(slot, sector - 1)

(* Memory and disk agree, sector by sector. *)
AllSaved ==
  /\ TypeOK
  /\ Tied(table, contents) /\ AllFilled(table, contents)
  /\ \A i \in 1..MaxFiles : Current(i)
  /\ \A k \in 1..Len(contents), s \in 1..MaxBlocks : Stored(k, s)

NothingDirty == Dirty = {} /\ \A n \in Name : DiskView(n) = View(n)

(* The sector that the loop writes joins those of before. *)
LEMMA SectorStored ==
  ASSUME IInv, TagInv, WriteDataSector, SavedUpTo(slot, sector - 1)
  PROVE  \A l \in 1..Len(contents), r \in 1..MaxBlocks :
            l < slot \/ (l = slot /\ r <= sector) => Stored(l, r)'
<1> DEFINE d == contents[slot].data
           b == IF sector <= Len(d) THEN d[sector] ELSE ZeroBlock
<1>0. /\ slot \in 1..Len(contents) /\ sector \in 1..MaxBlocks
      /\ contents \in Seq(Content)
      /\ diskData \in [1..MaxFiles -> [1..MaxBlocks -> Block]]
  BY SizesAssumption DEF IInv, TypeOK, WriteDataSector
<1>1. /\ diskData' = [diskData EXCEPT ![contents[slot].idx][sector] = b]
      /\ contents' = contents
  BY DEF WriteDataSector, kernel
<1> HIDE DEF b
<1>2. \A k \in 1..Len(contents) : contents[k].idx \in 1..MaxFiles
  BY <1>0, ContentParts
<1>3. \A k, l \in 1..Len(contents) : contents[k].idx = contents[l].idx => k = l
  BY DEF TagInv, Tied, TagsApart
<1>4. ASSUME NEW l \in 1..Len(contents), NEW r \in 1..MaxBlocks
      PROVE  diskData'[contents[l].idx][r] =
               IF l = slot /\ r = sector THEN b ELSE diskData[contents[l].idx][r]
  BY <1>0, <1>1, <1>2, <1>3
<1>5. ASSUME NEW l \in 1..Len(contents), NEW r \in 1..MaxBlocks,
             l < slot \/ (l = slot /\ r <= sector)
      PROVE  Stored(l, r)'
  <2>1. CASE l = slot /\ r = sector
    BY <1>1, <1>4, <2>1 DEF Stored, b
  <2>2. CASE ~(l = slot /\ r = sector)
    <3>1. l < slot \/ (l = slot /\ r <= sector - 1)
      BY <1>0, <1>5, <2>2
    <3>2. Stored(l, r)
      BY <3>1 DEF SavedUpTo
    <3>3. QED
      BY <1>1, <1>4, <2>2, <3>2 DEF Stored
  <2>3. QED
    BY <2>1, <2>2
<1>6. QED
  BY <1>5

LEMMA SaveProgress ==
  ASSUME IInv, TagInv, DataProgress, SaveStep \/ WriteFails
  PROVE  DataProgress'
<1>0. /\ slot \in Nat \ {0} /\ sector \in Nat \ {0} /\ Len(contents) \in Nat
      /\ UNCHANGED <<table, contents>>
      /\ area # "none"
  BY FailuresAssumption
     DEF IInv, TypeOK, SaveStep, WriteVolume, WriteTableSector, WriteDataSector,
         WriteOtherSector, WriteFails, kernel
<1>1. AllFilled(table, contents)'
  BY <1>0 DEF DataProgress
<1>2. ASSUME ~failed', area' = "data" PROVE SavedUpTo(slot, sector - 1)'
  <2>1. SaveStep /\ ~failed
    BY <1>2 DEF SaveStep, WriteFails, WriteVolume, WriteTableSector,
                WriteDataSector, WriteOtherSector
  <2>2. CASE ~WriteDataSector
    <3>1. slot' = 1 /\ sector' = 1
      BY <1>2, <2>1, <2>2
         DEF SaveStep, WriteVolume, WriteTableSector, WriteOtherSector, Advance,
             EndSave
    <3>2. QED
      BY <3>1 DEF SavedUpTo
  <2>3. CASE WriteDataSector
    <3>1. area = "data"
      BY <2>3 DEF WriteDataSector
    <3>2. SavedUpTo(slot, sector - 1)
      BY <2>1, <3>1 DEF DataProgress
    <3>3. \A l \in 1..Len(contents), r \in 1..MaxBlocks :
            l < slot \/ (l = slot /\ r <= sector) => Stored(l, r)'
      BY <2>3, <3>2, SectorStored
    <3>4. \/ slot' = slot /\ sector' = sector + 1
          \/ slot' = slot + 1 /\ sector' = 1 /\ sector = MaxBlocks
      BY <1>2, <2>3, <3>1 DEF WriteDataSector, Advance, EndSave
    <3>5. QED
      BY <1>0, <3>3, <3>4, SizesAssumption DEF SavedUpTo
  <2>4. QED
    BY <2>2, <2>3
<1>3. QED
  BY <1>1, <1>2 DEF DataProgress

(* A save starts when memory is loaded, or when the table is empty.         *)
LEMMA OthersProgress ==
  ASSUME IInv, IInv', TagInv, TagInv', DataProgress,
         Boot \/ ChkdskSlot \/ ChkdskDone \/ KeepingCommand \/ PowerFail
  PROVE  DataProgress'
<1>1. Kept
  BY BootOK, ChkdskSlotOK, StageDoneOK, CommandOK, PowerFailOK DEF IInv
<1>2. area' \in {"none", "curdir"}
  BY <1>1 DEF Kept, Calm, Settles, BeginSave, NoSave, saving, Quiet, EndSave
<1>3. ASSUME area' # "none" PROVE AllFilled(table, contents)'
  <2>1. CASE Up'
    BY <2>1 DEF TagInv
  <2>2. CASE LoadVolume
    BY <2>2 DEF LoadVolume, BootStep, ram, IInv, LoadShape, AllFilled
  <2>3. CASE ~Up' /\ ~LoadVolume
    <3>1. pc' \notin {"off", "volume"}
      BY <1>3 DEF IInv, LoadShape
    <3>2. pc' \in {"entries", "contents"}
      BY <2>3, <3>1 DEF Up
    <3>3. LoadEntry \/ LoadEntriesDone \/ LoadContent
      BY <2>3, <3>2 DEF Boot, PowerOn, Reset, LoadVolume, LoadContentsDone,
         EnsureDesktopEntry, EnsureDesktopDone, EnsureDocuments, CreateWebFile,
         CreateWebFilesDone, EnsureDir, EnsureDirsDone, SeedFile, SeedFilesDone,
         EnterHome, StartDesktop, ChkdskSlot, ChkdskDone, BootStep, Goto,
         NextIteration, KeepingCommand, SaveFile, Nano, Create, Copy, Move, Sync,
         OpenTerminal, Accept, Stay, PowerFail
    <3>4. QED
      BY <1>3, <3>3
         DEF LoadEntry, LoadEntriesDone, LoadContent, BootStep, NoSave, saving,
             Quiet
  <2>4. QED
    BY <2>1, <2>2, <2>3
<1>4. QED
  BY <1>2, <1>3 DEF DataProgress

LEMMA DataStep ==
  ASSUME IInv, IInv', TagInv, TagInv', DataProgress, [NextKeeping]_vars
  PROVE  DataProgress'
<1>1. CASE UNCHANGED vars
  BY <1>1 DEF vars, DataProgress, SavedUpTo, Stored
<1>2. QED
  BY <1>1, SaveProgress, OthersProgress DEF NextKeeping, Kernel, Wait

(* The bytes of an entry of memory, sector by sector, are those on disk. *)
LEMMA SameBytes ==
  ASSUME TypeOK, Tied(table, contents), NEW i \in 1..Len(table),
         diskTable[i] = table[i], Filled(table, contents, i),
         \A k \in 1..Len(contents) : contents[k].idx = i =>
            \A s \in 1..MaxBlocks : Stored(k, s)
  PROVE  DiskEntryView(i) = EntryView(i)
<1> USE TypeParts
<1>0. table \in Seq(Entry) /\ contents \in Seq(Content) /\ TablesOK
  BY DEF TablesOK, TableOK, ContentsOK
<1>1. table[i].size \in 0..MaxBlocks
  BY <1>0, EntryParts
<1>2. CASE SlotsOf(i) = {}
  <2>1. table[i].size = 0 \/ table[i].dir
    <3>1. ~Has(contents, i)
      BY <1>0, <1>2, Found
    <3>2. table[i].size = 0 \/ table[i].size > 0
      BY <1>1
    <3>3. QED
      BY <3>1, <3>2, Zenon DEF Filled
  <2>2. QED
    BY <1>2, <2>1 DEF EntryView, DiskEntryView
<1>3. CASE SlotsOf(i) # {}
  <2> DEFINE k == First(SlotsOf(i))
             d == contents[k].data
             z == table[i].size
  <2>1. k \in 1..Len(contents) /\ contents[k].idx = i
    BY <1>0, <1>3, Found DEF SlotsOf
  <2>2. EntryView(i) = d
    BY <1>3 DEF EntryView
  <2> HIDE DEF k
  <2>3. ~table[i].dir /\ Len(d) = z
    BY <2>1 DEF Tied, Fits
  <2>4. d \in Seq(Block)
    BY <1>0, <2>1, ContentParts, BytesAreSequences
  <2>5. \A s \in 1..MaxBlocks :
           diskData[i][s] = IF s <= Len(d) THEN d[s] ELSE ZeroBlock
    BY <2>1 DEF Stored
  <2> HIDE DEF d
  <2>6. CASE z = 0
    <3>1. d = <<>>
      BY <2>3, <2>4, <2>6, EmptySeq
    <3>2. QED
      BY <2>2, <2>6, <3>1 DEF DiskEntryView
  <2>7. CASE z # 0
    <3>1. DiskEntryView(i) = [s \in 1..z |-> diskData[i][s]]
      BY <2>3, <2>7 DEF DiskEntryView
    <3>2. \A s \in 1..z : diskData[i][s] = d[s]
      BY <1>1, <2>3, <2>5, SizesAssumption
    <3>3. d \in [1..z -> Block]
      BY <2>3, <2>4, LenProperties
    <3>4. QED
      BY <2>2, <3>1, <3>2, <3>3
  <2>8. QED
    BY <2>6, <2>7
<1>4. QED
  BY <1>2, <1>3

LEMMA SavedViews == AllSaved => NothingDirty
<1> SUFFICES ASSUME AllSaved PROVE NothingDirty
  OBVIOUS
<1>0. /\ table \in Seq(Entry) /\ Len(table) \in Nat /\ Len(table) <= MaxFiles
      /\ TypeOK /\ Tied(table, contents) /\ AllFilled(table, contents)
  BY DEF AllSaved, TypeOK
<1>1. /\ \A i \in 1..Len(table) : diskTable[i] = table[i] /\ diskTable[i] # NoEntry
      /\ \A i \in (Len(table) + 1)..MaxFiles : diskTable[i] = NoEntry
  <2>1. \A i \in 1..Len(table) : table[i] \in Entry
    BY <1>0, ElementOfSeq
  <2>2. QED
    BY <1>0, <2>1, SizesAssumption, NamesAssumption DEF AllSaved, Current
<1>2. Loaded = 1..Len(table)
  BY <1>0, <1>1, SizesAssumption DEF Loaded
<1>3. \A n : DiskEntries(n) = Entries(n)
  BY <1>1, <1>2 DEF DiskEntries, Entries
<1>4. \A i \in 1..Len(table) : DiskEntryView(i) = EntryView(i)
  BY <1>0, <1>1, SameBytes DEF AllSaved, AllFilled
<1>5. \A i \in 1..Len(table) : Written(i)
  BY <1>1, <1>4 DEF Written
<1>6. Dirty = {}
  BY <1>3, <1>5 DEF Dirty, Entries
<1>7. ASSUME NEW n \in Name PROVE DiskView(n) = View(n)
  <2>1. CASE Entries(n) = {}
    BY <1>3, <2>1 DEF View, DiskView
  <2>2. CASE Entries(n) # {}
    <3>1. First(Entries(n)) \in 1..Len(table)
      BY <1>0, <2>2, ScanOK DEF Entries
    <3>2. QED
      BY <1>3, <1>4, <2>2, <3>1 DEF View, DiskView
  <2>3. QED
    BY <2>1, <2>2
<1>8. QED
  BY <1>6, <1>7 DEF NothingDirty

LEMMA EndOfSave ==
  ASSUME IInv, IInv', TagInv, TableProgress, DataProgress, [NextKeeping]_vars,
         area # "none", area' = "none", ~failed', pc' # "off"
  PROVE  AllSaved'
<1>0. /\ slot \in Nat \ {0} /\ sector \in Nat \ {0} /\ Len(contents) \in Nat
      /\ area = "table" => slot <= MaxFiles
      /\ area = "data" => slot <= Len(contents) /\ sector <= MaxBlocks
  BY DEF IInv, TypeOK
<1>1. SaveStep
  <2>1. [Next]_vars
    BY DEF Next
  <2>2. ~WriteFails
    BY DEF WriteFails
  <2>3. ~Kept
    BY DEF Kept, Calm, Settles, BeginSave, Quiet
  <2>4. ~UNCHANGED vars
    BY DEF vars
  <2>5. QED
    BY <2>1, <2>2, <2>3, <2>4, StepKinds
<1>2. UNCHANGED <<table, contents, failed>>
  BY <1>1 DEF SaveStep, WriteVolume, WriteTableSector, WriteDataSector,
              WriteOtherSector, kernel
<1>3. /\ TypeOK' /\ Tied(table, contents)' /\ AllFilled(table, contents)'
  BY <1>2 DEF IInv, TagInv, DataProgress
<1>4. \/ WriteOtherSector /\ area = "users" /\ contents = <<>>
      \/ WriteDataSector /\ area = "data" /\ slot = Len(contents) /\ sector = MaxBlocks
  <2>1. ~WriteVolume
    BY DEF WriteVolume, Advance
  <2>2. ~WriteTableSector
    BY <1>0, SizesAssumption DEF WriteTableSector, Advance
  <2>3. WriteOtherSector => area = "users" /\ contents = <<>>
    BY DEF WriteOtherSector, Advance
  <2>4. WriteDataSector => area = "data" /\ slot = Len(contents) /\ sector = MaxBlocks
    BY <1>0, SizesAssumption DEF WriteDataSector, Advance
  <2>5. QED
    BY <1>1, <2>1, <2>2, <2>3, <2>4 DEF SaveStep
<1>5. \A i \in 1..MaxFiles : Current(i)'
  <2>1. UNCHANGED diskTable
    BY <1>4 DEF WriteOtherSector, WriteDataSector, disk
  <2>2. \A i \in 1..MaxFiles : Current(i)
    BY <1>2, <1>4 DEF TableProgress
  <2>3. QED
    BY <1>2, <2>1, <2>2 DEF Current
<1>6. \A k \in 1..Len(contents), s \in 1..MaxBlocks : Stored(k, s)'
  <2>1. CASE contents = <<>>
    BY <2>1
  <2>2. CASE WriteDataSector /\ area = "data" /\ slot = Len(contents)
             /\ sector = MaxBlocks
    <3>1. SavedUpTo(slot, sector - 1)
      BY <1>2, <2>2 DEF DataProgress
    <3>2. \A l \in 1..Len(contents), r \in 1..MaxBlocks :
            l < slot \/ (l = slot /\ r <= sector) => Stored(l, r)'
      BY <2>2, <3>1, SectorStored
    <3>3. QED
      BY <1>0, <2>2, <3>2, SizesAssumption
  <2>3. QED
    BY <1>4, <2>1, <2>2
<1>7. QED
  BY <1>2, <1>3, <1>5, <1>6 DEF AllSaved

(* Under the same preconditions a save that met no error leaves on the disk *)
(* what is in memory: a boot would read for every path what a command reads *)
(* now (fs_save_to_disk).                                                   *)
THEOREM SavesReadBack ==
  ASSUME PathsApart
  PROVE  SpecKeeping /\ []Roomy => SaveIsComplete
<1> DEFINE Ended == area # "none" /\ area' = "none" /\ ~failed' /\ pc' # "off"
           SameAfter == Dirty' = {} /\ \A n \in Name : DiskView(n)' = View(n)'
           Good == IInv /\ TagInv /\ TableProgress /\ DataProgress
<1>1. Init => IInv /\ TagInv /\ TableProgress /\ DataProgress
  BY InitOK DEF Init, TagInv, Tied, TagsApart, Up, TableNamed, DiskNamed,
                TableProgress, DataProgress
<1>2. [NextKeeping]_vars => [Next]_vars
  BY DEF Next
<1>3. Good /\ Roomy /\ Roomy' /\ [NextKeeping]_vars => Good'
  <2> SUFFICES ASSUME Good, Roomy, Roomy', [NextKeeping]_vars PROVE Good'
    OBVIOUS
  <2>1. IInv'
    BY <1>2, StepOK
  <2>2. TagInv'
    BY TagStep
  <2>3. TableProgress'
    BY <1>2, TableProgressStep
  <2>4. DataProgress'
    BY <2>1, <2>2, DataStep
  <2>5. QED
    BY <2>1, <2>2, <2>3, <2>4
<1>4. Good /\ Good' /\ [NextKeeping]_vars => (Ended => AllSaved')
  BY EndOfSave
<1>5. AllSaved => NothingDirty
  BY SavedViews
<1>6. NothingDirty' => SameAfter
  BY DEF NothingDirty
<1>7. Good /\ Good' /\ [NextKeeping]_vars => (Ended => SameAfter)
  <2>1. (AllSaved => NothingDirty)'
    BY <1>5, PTL
  <2>2. QED
    BY <1>4, <1>6, <2>1
<1>8. Good /\ Good' /\ [NextKeeping]_vars => [Ended => SameAfter]_vars
  BY <1>7
<1>9. Init => Good
  BY <1>1
<1> HIDE DEF Good, Ended, SameAfter
<1>10. SpecKeeping /\ []Roomy => [][Ended => SameAfter]_vars
  BY <1>3, <1>8, <1>9, PTL DEF SpecKeeping
<1>11. QED
  BY <1>10, PTL DEF SaveIsComplete, Ended, SameAfter

=============================================================================
