------------------------------- MODULE Heap -------------------------------
(***************************************************************************)
(* The kernel heap of AurionOS (src/src/memory.asm): kmalloc and kfree on  *)
(* one contiguous heap cut into blocks.  Every block starts with a header  *)
(* of five words (MCB): the addresses of the previous and the next block,  *)
(* the size of the payload, a magic word and a flag.                       *)
(*                                                                         *)
(* Memory is modelled word by word, a word being four bytes: all sizes and *)
(* addresses of the allocator are multiples of four.  Address arithmetic   *)
(* is unsigned and wraps at Word, as that of the machine wraps at 2^32.    *)
(* kmalloc takes one step for each block its first-fit search visits; the  *)
(* rest of it, and kfree, have no loop and take one step.                  *)
(***************************************************************************)
EXTENDS Naturals

CONSTANTS
  Base,         \* heap_base, the address of the first block
  HeapSize,     \* heap_size in words
  Word,         \* the number of values of a machine word
  Requests,     \* sizes the kernel asks for, rounded up to words
  MaxCalls,     \* bound: calls of kmalloc
  AfterNarrow   \* whether the kernel is followed beyond a narrow split

Header == 5      \* MCB_HEADER_SIZE
MinSplit == 8    \* MIN_SPLIT_SIZE
Magic == Word    \* MCB_MAGIC: a value that no address, size or flag has
Used == 0        \* MCB_FLAG_USED
Free == 1        \* MCB_FLAG_FREE
Null == 0
HeapEnd == Base + HeapSize

Address == 0..(Word - 1)

ASSUME HeapAssumption ==
  /\ Base \in Nat \ {0} /\ HeapSize \in Nat /\ Word \in Nat
  /\ HeapSize > Header
  /\ Base + HeapSize + Header <= Word
  /\ Requests \subseteq 1..(Word - 1)
  /\ MaxCalls \in Nat
  /\ AfterNarrow \in BOOLEAN

VARIABLES
  mem,      \* the words of memory
  pc,       \* "idle", or "search" inside kmalloc
  size,     \* the aligned size that kmalloc looks for
  esi,      \* the block that kmalloc visits
  live,     \* the allocations the kernel uses: address and requested size
  freed,    \* addresses passed to kfree whose block was not handed out since
  blocks,   \* history: where the blocks start
  narrow,   \* history: a block was split with less than a header to spare
  calls     \* bound

vars == <<mem, pc, size, esi, live, freed, blocks, narrow, calls>>

TypeOK ==
  /\ mem \in [Address -> Address \cup {Magic}]
  /\ pc \in {"idle", "search"}
  /\ size \in Address /\ esi \in Address
  /\ live \subseteq [at : Address, len : Requests]
  /\ freed \subseteq Address
  /\ blocks \subseteq Address
  /\ narrow \in BOOLEAN
  /\ calls \in Nat

-----------------------------------------------------------------------------
(* Machine arithmetic, and the fields of the block at address b of memory m. *)

Plus(a, b) == IF a + b < Word THEN a + b ELSE (a + b) - Word
Minus(a, b) == IF b <= a THEN a - b ELSE (a + Word) - b

PrevAt(b) == b
NextAt(b) == Plus(b, 1)
SizeAt(b) == Plus(b, 2)
MagicAt(b) == Plus(b, 3)
FlagAt(b) == Plus(b, 4)

Valid(m, b) == m[MagicAt(b)] = Magic
IsFree(m, b) == m[FlagAt(b)] = Free
Payload(b) == Plus(b, Header)
Block(p) == Minus(p, Header)
EndOf(b) == b + Header + mem[SizeAt(b)]

-----------------------------------------------------------------------------
(* kmalloc *)

MayCall == pc = "idle" /\ (narrow => AfterNarrow)

Request ==
  /\ MayCall /\ calls < MaxCalls
  /\ size' \in Requests
  /\ esi' = Base
  /\ pc' = "search"
  /\ calls' = calls + 1
  /\ UNCHANGED <<mem, live, freed, blocks, narrow>>

Fits == IsFree(mem, esi) /\ mem[SizeAt(esi)] >= size

(* Faulty variant: the link is read one field too far. *)
WrongFieldVisit ==
  /\ pc = "search" /\ esi # Null
  /\ Valid(mem, esi) /\ ~Fits
  /\ esi' = mem[MagicAt(esi)]
  /\ UNCHANGED <<mem, pc, size, live, freed, blocks, narrow, calls>>

Visit ==
  /\ pc = "search" /\ esi # Null
  /\ Valid(mem, esi) /\ ~Fits
  /\ esi' = mem[NextAt(esi)]
  /\ UNCHANGED <<mem, pc, size, live, freed, blocks, narrow, calls>>

(* The end of the chain, or a block without its magic word. *)
Fail ==
  /\ pc = "search"
  /\ esi = Null \/ ~Valid(mem, esi)
  /\ pc' = "idle"
  /\ UNCHANGED <<mem, size, esi, live, freed, blocks, narrow, calls>>

Found == pc = "search" /\ esi # Null /\ Valid(mem, esi) /\ Fits

(* What a split would leave for the payload of the new block.  The machine  *)
(* computes it unsigned: less than a header to spare gives a huge number.   *)
Remainder == Minus(Minus(mem[SizeAt(esi)], size), Header)
NarrowFit == mem[SizeAt(esi)] < size + Header

(* Once other data may lie on its header nothing is known of an address     *)
(* that was freed: the kernel no longer passes it to kfree.                 *)
Return(p, taken) ==
  /\ live' = live \cup {[at |-> p, len |-> size]}
  /\ freed' = {q \in freed : Block(q) \notin taken}
  /\ pc' = "idle"
  /\ UNCHANGED <<size, esi, calls>>

UseWhole ==
  /\ Found
  /\ Remainder < MinSplit
  /\ mem' = [mem EXCEPT ![FlagAt(esi)] = Used]
  /\ Return(Payload(esi), esi..(EndOf(esi) - 1))
  /\ UNCHANGED <<blocks, narrow>>

(* Faulty variant: the block behind keeps its old link to the front. *)
NoBackLinkSplit ==
  /\ Found
  /\ Remainder >= MinSplit
  /\ LET new == Plus(Payload(esi), size)
         next == mem[NextAt(esi)]
     IN /\ mem' = [mem EXCEPT
              ![PrevAt(new)] = esi, ![NextAt(new)] = next,
              ![SizeAt(new)] = Remainder,
              ![MagicAt(new)] = Magic, ![FlagAt(new)] = Free,
              ![NextAt(esi)] = new, ![SizeAt(esi)] = size,
              ![FlagAt(esi)] = Used]
        /\ blocks' = blocks \cup {new}
        /\ Return(Payload(esi), (esi..(new + Header - 1)) \ {new})
  /\ narrow' = (narrow \/ NarrowFit)

(* Faulty variant: the new block lacks the room of its own header. *)
ForgottenHeaderSplit ==
  /\ Found
  /\ Remainder >= MinSplit
  /\ LET new == Plus(Payload(esi), size)
         next == mem[NextAt(esi)]
         tail == [mem EXCEPT
              ![PrevAt(new)] = esi, ![NextAt(new)] = next,
              ![SizeAt(new)] = Minus(mem[SizeAt(esi)], size),
              ![MagicAt(new)] = Magic, ![FlagAt(new)] = Free,
              ![NextAt(esi)] = new, ![SizeAt(esi)] = size]
         linked == IF next = Null THEN tail
                   ELSE [tail EXCEPT ![PrevAt(next)] = new]
     IN /\ mem' = [linked EXCEPT ![FlagAt(esi)] = Used]
        /\ blocks' = blocks \cup {new}
        /\ Return(Payload(esi), (esi..(new + Header - 1)) \ {new})
  /\ narrow' = (narrow \/ NarrowFit)

Split ==
  /\ Found
  /\ Remainder >= MinSplit
  /\ LET new == Plus(Payload(esi), size)
         next == mem[NextAt(esi)]
         tail == [mem EXCEPT
              ![PrevAt(new)] = esi, ![NextAt(new)] = next,
              ![SizeAt(new)] = Remainder,
              ![MagicAt(new)] = Magic, ![FlagAt(new)] = Free,
              ![NextAt(esi)] = new, ![SizeAt(esi)] = size]
         linked == IF next = Null THEN tail
                   ELSE [tail EXCEPT ![PrevAt(next)] = new]
     IN /\ mem' = [linked EXCEPT ![FlagAt(esi)] = Used]
        /\ blocks' = blocks \cup {new}
        /\ Return(Payload(esi), (esi..(new + Header - 1)) \ {new})
  /\ narrow' = (narrow \/ NarrowFit)

-----------------------------------------------------------------------------
(* kfree *)

(* Faulty variant: what follows the absorbed block is dropped. *)
LosingAbsorb(m, a, b) ==
  [m EXCEPT ![SizeAt(a)] = Plus(Plus(m[SizeAt(a)], Header), m[SizeAt(b)]),
            ![NextAt(a)] = Null]

(* Faulty variant: the wrong link of the absorbed block is taken over. *)
WrongFieldAbsorb(m, a, b) ==
  [m EXCEPT ![SizeAt(a)] = Plus(Plus(m[SizeAt(a)], Header), m[SizeAt(b)]),
            ![NextAt(a)] = m[PrevAt(b)]]

(* Block a takes over block b, the next one. *)
Absorb(m, a, b) ==
  LET after == m[NextAt(b)]
      grown == [m EXCEPT
                  ![SizeAt(a)] = Plus(Plus(m[SizeAt(a)], Header), m[SizeAt(b)]),
                  ![NextAt(a)] = after]
  IN  IF after = Null THEN grown ELSE [grown EXCEPT ![PrevAt(after)] = a]

Mergeable(m, b) == b # Null /\ Valid(m, b) /\ IsFree(m, b)

(* Faulty variant: only the block behind is merged. *)
ForwardCoalesced(m, b) ==
  LET marked == [m EXCEPT ![FlagAt(b)] = Free]
      next == marked[NextAt(b)]
  IN  IF Mergeable(marked, next) THEN Absorb(marked, b, next) ELSE marked

(* The block is marked, merged with the next and then with the previous one. *)
Coalesced(m, b) ==
  LET marked == [m EXCEPT ![FlagAt(b)] = Free]
      next == marked[NextAt(b)]
      forward == IF Mergeable(marked, next) THEN Absorb(marked, b, next)
                                            ELSE marked
      prev == forward[PrevAt(b)]
  IN  IF Mergeable(forward, prev) THEN Absorb(forward, prev, b) ELSE forward

(* The blocks that disappear in this. *)
Absorbed(m, b) ==
  {n \in {m[NextAt(b)]} : Mergeable(m, n)}
    \cup {n \in {b} : Mergeable(m, m[PrevAt(b)])}

(* Faulty variant: a block that is free already is freed again. *)
TrustingFreeBlock(p) ==
  /\ mem' = IF Valid(mem, Block(p)) THEN Coalesced(mem, Block(p)) ELSE mem
  /\ blocks' = IF Valid(mem, Block(p))
                 THEN blocks \ Absorbed(mem, Block(p)) ELSE blocks

(* kfree(p), with p in EAX: ignored without the magic word or when free. *)
FreeBlock(p) ==
  LET b == Block(p)
  IN  IF Valid(mem, b) /\ ~IsFree(mem, b)
        THEN mem' = Coalesced(mem, b) /\ blocks' = blocks \ Absorbed(mem, b)
        ELSE UNCHANGED <<mem, blocks>>

Release(l) ==
  /\ MayCall
  /\ FreeBlock(l.at)
  /\ live' = live \ {l}
  /\ freed' = freed \cup {l.at}
  /\ UNCHANGED <<pc, size, esi, narrow, calls>>

(* kfree reads EAX where its C callers pass the address on the stack.  When *)
(* EAX does not hold the address of a payload the block stays used.         *)
ReleaseMissed(l) ==
  /\ MayCall
  /\ live' = live \ {l}
  /\ UNCHANGED <<mem, pc, size, esi, freed, blocks, narrow, calls>>

(* The same address is passed to kfree once more. *)
ReleaseAgain(p) ==
  /\ MayCall
  /\ FreeBlock(p)
  /\ UNCHANGED <<pc, size, esi, live, freed, narrow, calls>>

(* The kernel clears a buffer it has allocated. *)
Clear(l) ==
  /\ MayCall
  /\ mem' = [a \in Address |->
               IF l.at <= a /\ a < l.at + l.len THEN 0 ELSE mem[a]]
  /\ UNCHANGED <<pc, size, esi, live, freed, blocks, narrow, calls>>

-----------------------------------------------------------------------------
(* mem_init: one free block. *)
Init ==
  /\ mem = [a \in Address |->
              IF a = SizeAt(Base) THEN HeapSize - Header
              ELSE IF a = MagicAt(Base) THEN Magic
              ELSE IF a = FlagAt(Base) THEN Free ELSE 0]
  /\ pc = "idle" /\ size = 0 /\ esi = Null
  /\ live = {} /\ freed = {}
  /\ blocks = {Base}
  /\ narrow = FALSE
  /\ calls = 0

Kmalloc == Visit \/ Fail \/ UseWhole \/ Split

Kernel ==
  \/ Request
  \/ \E l \in live : Release(l) \/ ReleaseMissed(l) \/ Clear(l)
  \/ \E p \in freed : ReleaseAgain(p)

(* The workload has ended. *)
Done == pc = "idle" /\ UNCHANGED vars

Next == Kmalloc \/ Kernel \/ Done

(* Nothing interrupts the search of kmalloc for ever. *)
Spec == Init /\ [][Next]_vars /\ WF_vars(Kmalloc)

-----------------------------------------------------------------------------
(* Properties.  Those of the first group hold until a block is split with   *)
(* less than a header to spare: kmalloc takes the wrapped remainder for a   *)
(* large one.                                                               *)

(* The blocks tile the heap: each ends where the next one starts, the last  *)
(* one at the end of the heap, and the links lead along them and back.      *)
ChainTiles ==
  ~narrow =>
    /\ Base \in blocks /\ mem[PrevAt(Base)] = Null
    /\ \A b \in blocks :
         /\ Base <= b /\ EndOf(b) <= HeapEnd
         /\ Valid(mem, b) /\ mem[FlagAt(b)] \in {Used, Free}
         /\ IF EndOf(b) = HeapEnd
              THEN mem[NextAt(b)] = Null
              ELSE /\ EndOf(b) \in blocks
                   /\ mem[NextAt(b)] = EndOf(b)
                   /\ mem[PrevAt(EndOf(b))] = b

(* No two free blocks are neighbours: kfree merges both ways, and a split   *)
(* never leaves one behind another.  A heap in which nothing is used any    *)
(* more is therefore one block again.                                       *)
FreeBlocksMerged ==
  ~narrow => \A b \in blocks :
     EndOf(b) # HeapEnd => ~(IsFree(mem, b) /\ IsFree(mem, EndOf(b)))

(* kmalloc hands out ranges inside the heap that no allocation in use       *)
(* overlaps.                                                                *)
Ranges == INSTANCE Allocator WITH First <- Base, Last <- HeapEnd - 1
HandsOutFreshRanges == Ranges!Spec

(* Neither kmalloc nor kfree writes into an allocation in use, headers and  *)
(* links included.                                                          *)
KeepsPayloads ==
  [][(~narrow' /\ ~ \E l \in live : Clear(l)) =>
       \A l \in live \cap live' : \A a \in l.at..(l.at + l.len - 1) :
          mem'[a] = mem[a]]_vars

(* kmalloc returns NULL only when no free block is large enough: its search *)
(* along the links misses none.                                             *)
FailsOnlyWhenFull ==
  [][(Fail /\ ~narrow) =>
       \A b \in blocks : IsFree(mem, b) => mem[SizeAt(b)] < size]_vars

(* "Double free protection" (kfree): freeing an address again changes       *)
(* nothing, wherever its block went, as long as the header that kfree reads *)
(* has not been handed out, in whole or in part, to somebody else.          *)
DoubleFreeIgnored ==
  [][\A p \in freed : (ReleaseAgain(p) /\ ~narrow) => UNCHANGED mem]_vars

(* kmalloc returns: its search follows the links to their end. *)
KmallocReturns == (pc = "search") ~> (pc = "idle")

(* "Minimum size to split block" (MIN_SPLIT_SIZE): a block is split only    *)
(* when the new one keeps that many bytes of payload, inside the heap.  The *)
(* code does not keep this: the comparison is unsigned, and a fit with less *)
(* than a header to spare is split as if gigabytes were left.               *)
SplitKeepsMinimum ==
  [][\A b \in blocks' \ blocks :
       /\ mem'[SizeAt(b)] >= MinSplit
       /\ b + Header + mem'[SizeAt(b)] <= HeapEnd]_vars
===========================================================================
