----------------------------- MODULE Allocator -----------------------------
(***************************************************************************)
(* What a memory allocator promises: an allocation is a range of words     *)
(* inside the heap that no other allocation in use overlaps.               *)
(***************************************************************************)
EXTENDS Naturals

CONSTANTS
  First, Last    \* the first and the last word of the heap

VARIABLE live    \* the allocations in use

Range == [at : First..Last, len : Nat \ {0}]

Inside(r) == r.at + r.len <= Last + 1
Apart(r, s) == r.at + r.len <= s.at \/ s.at + s.len <= r.at

Init == live = {}

Alloc ==
  \E r \in live' \ live :
     /\ live' = live \cup {r}
     /\ r.at \in First..Last /\ r.len \in Nat \ {0}
     /\ Inside(r)
     /\ \A s \in live : Apart(r, s)

Release == \E r \in live : live' = live \ {r}

Next == Alloc \/ Release

Spec == Init /\ [][Next]_live
===========================================================================
