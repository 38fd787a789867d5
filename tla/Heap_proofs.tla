---------------------------- MODULE Heap_proofs ----------------------------
(***************************************************************************)
(* What holds of the kernel heap for every size of the heap and all sizes  *)
(* of requests, up to the first split that has less than a header to spare.*)
(***************************************************************************)
EXTENDS Heap, TLAPS

USE DEF Header, Used, Free, Null, HeapEnd

Words == Address \cup {Magic}
Memories == [Address -> Words]

-----------------------------------------------------------------------------
(* The inductive invariant, of a memory m whose blocks start at B. *)

EndIn(m, b) == b + Header + m[b + 2]

(* One block: its header, and its links to the next and the previous one. *)
Header_OK(m, b) ==
  /\ b \in Nat /\ Base <= b /\ m[b + 2] \in Nat
  /\ EndIn(m, b) <= HeapEnd
  /\ m[b + 3] = Magic /\ m[b + 4] \in {Used, Free}

Forward(m, B, b) ==
  IF EndIn(m, b) = HeapEnd
    THEN m[b + 1] = Null
    ELSE EndIn(m, b) \in B /\ m[b + 1] = EndIn(m, b) /\ m[EndIn(m, b)] = b

Back(m, B, b) ==
  IF b = Base THEN m[b] = Null ELSE m[b] \in B /\ EndIn(m, m[b]) = b

Tiled(m, B) ==
  /\ Base \in B
  /\ \A b \in B : Header_OK(m, b)
  /\ \A b \in B : Forward(m, B, b)
  /\ \A b \in B : Back(m, B, b)
  /\ \A b, c \in B : b < c => EndIn(m, b) <= c

(* Block b may be free when its next one is not. *)
Alone(m, b) ==
  EndIn(m, b) # HeapEnd => ~(m[b + 4] = Free /\ m[EndIn(m, b) + 4] = Free)

Merged(m, B) == \A b \in B : Alone(m, b)

(* An allocation in use has a block of its own, marked as used. *)
LiveIn(m, B, L) ==
  /\ \A l \in L :
       /\ l.at \in Nat /\ l.len \in Nat \ {0}
       /\ l.at - Header \in B
       /\ m[l.at - 1] = Used
       /\ l.len <= m[l.at - 3]
  /\ \A l, k \in L : l.at = k.at => l = k

(* The header of what was freed, now a block or part of one that is free. *)
StaleIn(m, B, p) ==
  \E b \in B : /\ m[b + 4] = Free
               /\ p - Header = b \/ b + Header <= p - Header
               /\ p <= EndIn(m, b)

FreedIn(m, B, F) ==
  \A p \in F : p \in Nat /\ StaleIn(m, B, p) /\ m[p - 1] = Free

(* The search has passed no block that would do. *)
Searched(m, B) ==
  pc = "search" =>
    /\ size \in Requests
    /\ esi \in B \cup {Null}
    /\ \A b \in B : (esi = Null \/ b < esi) => ~(m[b + 4] = Free /\ m[b + 2] >= size)

Kept ==
  /\ Tiled(mem, blocks) /\ Merged(mem, blocks)
  /\ LiveIn(mem, blocks, live) /\ FreedIn(mem, blocks, freed)

IInv ==
  /\ narrow \in BOOLEAN
  /\ ~narrow => TypeOK /\ Kept /\ Searched(mem, blocks)

(* A kernel that is not followed beyond a narrow split stops after it. *)
Halted == TypeOK /\ (narrow => pc = "idle")

-----------------------------------------------------------------------------
(* Facts about addresses. *)

(* Nothing wraps for what lies in the heap. *)
LEMMA FieldsAt ==
  ASSUME NEW b \in Nat, b <= HeapEnd
  PROVE  /\ PrevAt(b) = b /\ NextAt(b) = b + 1 /\ SizeAt(b) = b + 2
         /\ MagicAt(b) = b + 3 /\ FlagAt(b) = b + 4
         /\ b < HeapEnd => Payload(b) = b + Header
         /\ b \in Address /\ b + 1 \in Address /\ b + 2 \in Address
         /\ b + 3 \in Address /\ b + 4 \in Address
<1>1. Word \in Nat /\ b + Header <= Word
  BY HeapAssumption
<1>2. b + 0 < Word /\ b + 1 < Word /\ b + 2 < Word /\ b + 3 < Word /\ b + 4 < Word
  BY <1>1
<1>3. /\ b \in Address /\ b + 1 \in Address /\ b + 2 \in Address
      /\ b + 3 \in Address /\ b + 4 \in Address
  BY <1>1, <1>2 DEF Address
<1>4. /\ PrevAt(b) = b /\ NextAt(b) = b + 1 /\ SizeAt(b) = b + 2
      /\ MagicAt(b) = b + 3 /\ FlagAt(b) = b + 4
  BY <1>2 DEF PrevAt, NextAt, SizeAt, MagicAt, FlagAt, Plus
<1>5. b < HeapEnd => Payload(b) = b + Header
  BY <1>1, HeapAssumption DEF Payload, Plus
<1>6. QED
  BY <1>3, <1>4, <1>5

(* The blocks of a tiled heap. *)
LEMMA BlockFacts ==
  ASSUME NEW m, NEW B, Tiled(m, B), NEW b \in B
  PROVE  /\ b \in Nat /\ b > Null /\ m[b + 2] \in Nat
         /\ EndIn(m, b) \in Nat /\ EndIn(m, b) <= HeapEnd
         /\ b + Header <= EndIn(m, b)
         /\ EndIn(m, b) # HeapEnd => EndIn(m, b) \in B
BY HeapAssumption DEF Tiled, Header_OK, Forward, EndIn

LEMMA BlocksApart ==
  ASSUME NEW m, NEW B, Tiled(m, B), NEW b \in B, NEW c \in B, b # c
  PROVE  EndIn(m, b) <= c \/ EndIn(m, c) <= b
<1>1. b \in Nat /\ c \in Nat
  BY BlockFacts
<1>2. b < c \/ c < b
  BY <1>1
<1>3. QED
  BY <1>2 DEF Tiled

(* The next block of b is the first one behind it. *)
LEMMA NextIsFirst ==
  ASSUME NEW m, NEW B, Tiled(m, B), NEW b \in B, NEW c \in B, c < EndIn(m, b)
  PROVE  c <= b
<1>1. b \in Nat /\ c \in Nat /\ EndIn(m, b) \in Nat
  BY BlockFacts
<1>2. ~(b < c)
  BY <1>1 DEF Tiled
<1>3. QED
  BY <1>1, <1>2

-----------------------------------------------------------------------------
(* Writes that leave the headers alone. *)

Linked(m, n, B) ==
  \A b \in B : /\ n[b] = m[b] /\ n[b + 1] = m[b + 1] /\ n[b + 2] = m[b + 2]
               /\ n[b + 3] = m[b + 3] /\ n[b + 4] \in {Used, Free}

LEMMA SameHeaders ==
  ASSUME NEW m, NEW n, NEW B, Tiled(m, B), Linked(m, n, B)
  PROVE  Tiled(n, B) /\ \A b \in B : EndIn(n, b) = EndIn(m, b)
<1>1. \A b \in B : EndIn(n, b) = EndIn(m, b)
  BY DEF EndIn, Linked
<1>2. \A b \in B : Header_OK(n, b)
  BY <1>1 DEF Tiled, Header_OK, Linked
<1>3. \A b \in B : Forward(n, B, b)
  BY <1>1 DEF Tiled, Forward, Linked
<1>4. \A b \in B : Back(n, B, b)
  BY <1>1 DEF Tiled, Back, Linked
<1>5. QED
  BY <1>1, <1>2, <1>3, <1>4 DEF Tiled

(* A header is not in the payload of any block, nor in another header. *)
LEMMA HeaderWord ==
  ASSUME NEW m, NEW B, Tiled(m, B), NEW b \in B, NEW c \in B, NEW k \in 0..4
  PROVE  /\ b # c => c + k < b \/ EndIn(m, b) <= c + k
         /\ ~(b + Header <= c + k /\ c + k < EndIn(m, b))
<1>1. /\ b \in Nat /\ c \in Nat /\ EndIn(m, b) \in Nat /\ EndIn(m, c) \in Nat
      /\ c + Header <= EndIn(m, c)
  BY BlockFacts
<1>2. b # c => EndIn(m, b) <= c \/ EndIn(m, c) <= b
  BY BlocksApart
<1>3. QED
  BY <1>1, <1>2

(* The flag of a block changes. *)
Marks(m, B, b, f, n) ==
  /\ n \in Memories /\ Tiled(n, B)
  /\ \A c \in B : EndIn(n, c) = EndIn(m, c)
  /\ n[b + 4] = f
  /\ \A x \in Address \ {b + 4} : n[x] = m[x]
  /\ \A c \in B \ {b} : n[c + 4] = m[c + 4]

LEMMA Flagged ==
  ASSUME NEW m \in Memories, NEW B, Tiled(m, B), NEW b \in B, NEW f, f = Used \/ f = Free
  PROVE  Marks(m, B, b, f, [m EXCEPT ![b + 4] = f])
<1> DEFINE n == [m EXCEPT ![b + 4] = f]
<1>1. \A c \in B : /\ c \in Address /\ c + 1 \in Address /\ c + 2 \in Address
                   /\ c + 3 \in Address /\ c + 4 \in Address
                   /\ c \in Nat
  <2> TAKE c \in B
  <2>1. c \in Nat /\ c <= HeapEnd
    BY BlockFacts, HeapAssumption
  <2>2. QED
    BY <2>1, FieldsAt
<1>2. \A x \in Address \ {b + 4} : n[x] = m[x]
  BY <1>1 DEF Memories
<1>3. n[b + 4] = f
  BY <1>1 DEF Memories
<1>4. n \in Memories
  <2>1. f \in Words
    BY HeapAssumption DEF Words, Address
  <2>2. QED
    BY <2>1 DEF Memories
<1>5. \A c \in B : b + 4 # c /\ b + 4 # c + 1 /\ b + 4 # c + 2 /\ b + 4 # c + 3
  <2> TAKE c \in B
  <2>1. /\ b \in Nat /\ c \in Nat /\ EndIn(m, b) \in Nat /\ EndIn(m, c) \in Nat
        /\ c + Header <= EndIn(m, c) /\ b + Header <= EndIn(m, b)
    BY BlockFacts
  <2>2. b # c => EndIn(m, b) <= c \/ EndIn(m, c) <= b
    BY BlocksApart
  <2>3. QED
    BY <2>1, <2>2
<1>6. \A c \in B \ {b} : c + 4 # b + 4
  BY <1>1
<1>7. \A c \in B \ {b} : n[c + 4] = m[c + 4]
  BY <1>1, <1>2, <1>6
<1> HIDE DEF n
<1>8. \A c \in B : n[c + 4] \in {Used, Free}
  BY <1>3, <1>7 DEF Tiled, Header_OK
<1>9. \A c \in B : /\ n[c] = m[c] /\ n[c + 1] = m[c + 1] /\ n[c + 2] = m[c + 2]
                   /\ n[c + 3] = m[c + 3]
  BY <1>1, <1>2, <1>5
<1>10. Tiled(n, B) /\ \A c \in B : EndIn(n, c) = EndIn(m, c)
  <2>1. Linked(m, n, B)
    BY <1>8, <1>9 DEF Linked
  <2>2. Tiled(m, B)
    OBVIOUS
  <2>3. Tiled(n, B)
    BY <2>1, <2>2, SameHeaders
  <2>4. \A c \in B : EndIn(n, c) = EndIn(m, c)
    BY <2>1, <2>2, SameHeaders
  <2>5. QED
    BY <2>3, <2>4
<1>11. Marks(m, B, b, f, n)
  BY <1>2, <1>3, <1>4, <1>7, <1>10 DEF Marks
<1>12. QED
  BY <1>11 DEF n

(* Where the header of a block lies. *)
LEMMA HeaderInside ==
  ASSUME NEW m, NEW B, Tiled(m, B), NEW b \in B
  PROVE  /\ b \in Nat /\ b <= HeapEnd
         /\ b \in Address /\ b + 1 \in Address /\ b + 2 \in Address
         /\ b + 3 \in Address /\ b + 4 \in Address
<1>1. b \in Nat /\ b <= HeapEnd
  BY BlockFacts, HeapAssumption
<1>2. QED
  BY <1>1, FieldsAt

-----------------------------------------------------------------------------
(* A block takes over the next one. *)

LEMMA AbsorbWrites ==
  ASSUME NEW m \in Memories, NEW B, Tiled(m, B), NEW a \in B, EndIn(m, a) # HeapEnd,
         NEW b, b = EndIn(m, a), NEW n, n = Absorb(m, a, b)
  PROVE  /\ b \in B /\ a < b
         /\ n \in Memories
         /\ n[a + 2] = m[a + 2] + Header + m[b + 2]
         /\ n[a + 1] = m[b + 1]
         /\ m[b + 1] # Null => n[m[b + 1]] = a
         /\ \A x \in Address :
              x \notin {a + 1, a + 2} /\ (x = m[b + 1] => x = Null) => n[x] = m[x]
         /\ m[b + 1] = IF EndIn(m, b) = HeapEnd THEN Null ELSE EndIn(m, b)
<1>1. /\ b \in B /\ a \in Nat /\ b \in Nat /\ a + Header <= b
      /\ m[a + 2] \in Nat /\ m[b + 2] \in Nat
      /\ EndIn(m, b) \in Nat /\ EndIn(m, b) <= HeapEnd /\ b + Header <= EndIn(m, b)
      /\ EndIn(m, b) # HeapEnd => EndIn(m, b) \in B
  BY BlockFacts
<1>2. /\ a \in Address /\ a + 1 \in Address /\ a + 2 \in Address
      /\ PrevAt(a) = a /\ NextAt(a) = a + 1 /\ SizeAt(a) = a + 2
      /\ PrevAt(b) = b /\ NextAt(b) = b + 1 /\ SizeAt(b) = b + 2
  <2>1. a <= HeapEnd /\ b <= HeapEnd
    BY <1>1, HeapAssumption
  <2>2. QED
    BY <1>1, <2>1, FieldsAt
<1>3. m[b + 1] = IF EndIn(m, b) = HeapEnd THEN Null ELSE EndIn(m, b)
  BY <1>1 DEF Tiled, Forward
<1> DEFINE total == m[a + 2] + Header + m[b + 2]
           after == m[b + 1]
           grown == [m EXCEPT ![a + 2] = total, ![a + 1] = after]
<1>4. total \in Nat /\ total < Word /\ total \in Address
  <2>1. a + Header + total <= HeapEnd
    BY <1>1 DEF EndIn
  <2>2. total < Word /\ total \in Nat
    BY <1>1, <2>1, HeapAssumption
  <2>3. QED
    BY <2>2, HeapAssumption DEF Address
<1>5. Plus(Plus(m[a + 2], Header), m[b + 2]) = total
  <2>1. m[a + 2] + Header < Word
    BY <1>1, <1>4, HeapAssumption
  <2>2. QED
    BY <1>1, <1>4, <2>1, HeapAssumption DEF Plus
<1>6. after \in Address /\ PrevAt(after) = after
  <2>1. after \in Nat /\ after <= HeapEnd
    BY <1>1, <1>3, HeapAssumption
  <2>2. QED
    BY <2>1, FieldsAt
<1> HIDE DEF total, after
<1>7. n = IF after = Null THEN grown ELSE [grown EXCEPT ![after] = a]
  BY <1>2, <1>5, <1>6 DEF Absorb, after
<1>8. after # a + 1 /\ after # a + 2
  BY <1>1, <1>3, HeapAssumption DEF after
<1>9. grown \in Memories /\ a \in Words
  BY <1>2, <1>4, <1>6 DEF Memories, Words
<1>10. grown[a + 2] = total /\ grown[a + 1] = after
  BY <1>1, <1>2, <1>4, <1>6 DEF Memories
<1>11. \A x \in Address : x \notin {a + 1, a + 2} => grown[x] = m[x]
  BY <1>2 DEF Memories
<1> HIDE DEF grown
<1>12. n \in Memories
  BY <1>7, <1>9 DEF Memories
<1>13. n[a + 2] = total /\ n[a + 1] = after
  BY <1>2, <1>7, <1>8, <1>9, <1>10 DEF Memories
<1>14. after # Null => n[after] = a
  BY <1>6, <1>7, <1>9 DEF Memories
<1>15. \A x \in Address :
         x \notin {a + 1, a + 2} /\ (x = after => x = Null) => n[x] = m[x]
  BY <1>7, <1>9, <1>11 DEF Memories
<1>16. a < b
  BY <1>1
<1>17. QED
  BY <1>1, <1>3, <1>12, <1>13, <1>14, <1>15, <1>16 DEF total, after

LEMMA AbsorbTiles ==
  ASSUME NEW m \in Memories, NEW B, Tiled(m, B), NEW a \in B, EndIn(m, a) # HeapEnd,
         NEW b, b = EndIn(m, a), NEW n, n = Absorb(m, a, b)
  PROVE  /\ Tiled(n, B \ {b})
         /\ EndIn(n, a) = EndIn(m, b)
         /\ \A c \in B \ {a, b} : EndIn(n, c) = EndIn(m, c)
         /\ \A c \in B : n[c + 4] = m[c + 4]
<1> DEFINE C == B \ {b}
           after == m[b + 1]
<1>1. /\ b \in B /\ a < b /\ a \in C
      /\ n[a + 2] = m[a + 2] + Header + m[b + 2]
      /\ n[a + 1] = after
      /\ after # Null => n[after] = a
      /\ \A x \in Address : x \notin {a + 1, a + 2, after} => n[x] = m[x]
      /\ after = IF EndIn(m, b) = HeapEnd THEN Null ELSE EndIn(m, b)
  <2>1. a < b => a # b
    BY HeaderInside
  <2>2. QED
    BY <2>1, AbsorbWrites
<1> HIDE DEF after
<1>2. \A c \in B : /\ c \in Nat /\ c > Null /\ EndIn(m, c) \in Nat /\ m[c + 2] \in Nat
                   /\ c + Header <= EndIn(m, c) /\ EndIn(m, c) <= HeapEnd
  BY BlockFacts
<1>3. \A c, d \in B : c # d => EndIn(m, c) <= d \/ EndIn(m, d) <= c
  BY BlocksApart
<1>4. \A c \in B : /\ c \in Address /\ c + 1 \in Address /\ c + 2 \in Address
                   /\ c + 3 \in Address /\ c + 4 \in Address
  BY HeaderInside
<1>5. EndIn(m, b) # HeapEnd => after \in B
  BY <1>1, BlockFacts
<1>6. \A c \in B : c + 1 # after /\ c + 2 # after /\ c + 3 # after /\ c + 4 # after
  <2> TAKE c \in B
  <2>1. CASE EndIn(m, b) = HeapEnd
    BY <1>1, <1>2, <2>1
  <2>2. CASE EndIn(m, b) # HeapEnd
    <3>1. after \in B /\ after \in Nat /\ c \in Nat
      BY <1>2, <1>5, <2>2
    <3>2. c = after \/ EndIn(m, c) <= after \/ EndIn(m, after) <= c
      BY <1>3, <3>1
    <3>3. c + Header <= EndIn(m, c) /\ after + Header <= EndIn(m, after)
      BY <1>2, <3>1
    <3>4. QED
      BY <1>2, <3>1, <3>2, <3>3
  <2>3. QED
    BY <2>1, <2>2
<1>7. \A c \in B : /\ c # a + 1 /\ c # a + 2
                   /\ c + 3 # a + 1 /\ c + 3 # a + 2 /\ c + 4 # a + 1 /\ c + 4 # a + 2
  <2> TAKE c \in B
  <2>1. c = a \/ EndIn(m, c) <= a \/ EndIn(m, a) <= c
    BY <1>3
  <2>2. QED
    BY <1>2, <2>1
<1>8. \A c \in C : c # a => c + 1 # a + 1 /\ c + 2 # a + 2 /\ c + 2 # a + 1 /\ c + 1 # a + 2
  <2> TAKE c \in C
  <2>1. c = a \/ EndIn(m, c) <= a \/ EndIn(m, a) <= c
    BY <1>3
  <2>2. QED
    BY <1>2, <2>1
<1>9. \A c \in B : n[c + 3] = m[c + 3] /\ n[c + 4] = m[c + 4]
  BY <1>1, <1>4, <1>6, <1>7
<1>10. \A c \in C : c # a => n[c + 1] = m[c + 1] /\ n[c + 2] = m[c + 2]
  BY <1>1, <1>4, <1>6, <1>8
<1>11. \A c \in B : c # after => n[c] = m[c]
  BY <1>1, <1>4, <1>7
<1>12. EndIn(n, a) = EndIn(m, b)
  <2>1. EndIn(m, b) = b + Header + m[b + 2] /\ b = a + Header + m[a + 2]
    BY DEF EndIn
  <2>2. EndIn(n, a) = a + Header + (m[a + 2] + Header + m[b + 2])
    BY <1>1 DEF EndIn
  <2>3. QED
    BY <1>1, <1>2, <2>1, <2>2
<1>13. \A c \in C : c # a => EndIn(n, c) = EndIn(m, c)
  BY <1>10 DEF EndIn
<1>14. \A c \in C : Header_OK(n, c)
  <2> TAKE c \in C
  <2>1. CASE c = a
    BY <1>1, <1>2, <1>9, <1>12, <2>1 DEF Tiled, Header_OK
  <2>2. CASE c # a
    BY <1>9, <1>10, <1>13, <2>2 DEF Tiled, Header_OK
  <2>3. QED
    BY <2>1, <2>2
<1>15. \A c \in C : c # a => EndIn(m, c) # b
  <2> SUFFICES ASSUME NEW c \in C, c # a, EndIn(m, c) = b
               PROVE  FALSE
    OBVIOUS
  <2>1. EndIn(m, c) <= a \/ b <= c
    BY <1>3
  <2>2. QED
    BY <1>1, <1>2, <2>1
<1>16. \A c \in C : Forward(n, C, c)
  <2> TAKE c \in C
  <2>1. CASE c = a
    <3>1. EndIn(m, b) # HeapEnd => EndIn(m, b) # b
      BY <1>1, <1>2
    <3>2. CASE EndIn(m, b) = HeapEnd
      BY <1>1, <1>12, <2>1, <3>2 DEF Forward
    <3>3. CASE EndIn(m, b) # HeapEnd
      <4>1. after = EndIn(m, b) /\ after \in C /\ after # Null
        BY <1>1, <1>2, <1>5, <3>1, <3>3
      <4>2. QED
        BY <1>1, <1>12, <2>1, <3>3, <4>1 DEF Forward
    <3>4. QED
      BY <3>2, <3>3
  <2>2. CASE c # a
    <3>1. EndIn(n, c) = EndIn(m, c) /\ EndIn(m, c) # b
      BY <1>13, <1>15, <2>2
    <3>2. CASE EndIn(m, c) = HeapEnd
      BY <1>10, <2>2, <3>1, <3>2 DEF Tiled, Forward
    <3>3. CASE EndIn(m, c) # HeapEnd
      <4>1. EndIn(m, c) \in C /\ m[c + 1] = EndIn(m, c) /\ m[EndIn(m, c)] = c
        BY <3>1, <3>3 DEF Tiled, Forward
      <4>2. EndIn(m, c) # after
        <5>1. EndIn(m, b) # HeapEnd => m[EndIn(m, b)] = b
          BY <1>1 DEF Tiled, Forward
        <5>2. EndIn(m, c) > Null
          BY <1>2, <4>1
        <5>3. QED
          BY <1>1, <4>1, <5>1, <5>2
      <4>3. n[EndIn(m, c)] = c
        BY <1>11, <4>1, <4>2
      <4>4. QED
        BY <1>10, <2>2, <3>1, <3>3, <4>1, <4>3 DEF Forward
    <3>4. QED
      BY <3>2, <3>3
  <2>3. QED
    BY <2>1, <2>2
<1>17. \A c \in C : Back(n, C, c)
  <2> TAKE c \in C
  <2>1. CASE c = after
    <3>1. EndIn(m, b) # HeapEnd
      BY <1>1, <1>2, <2>1
    <3>2. c = EndIn(m, b) /\ n[c] = a /\ c # Base
      <4>1. c > b /\ b > a /\ a >= Base
        BY <1>1, <1>2, <2>1, <3>1 DEF Tiled, Header_OK
      <4>2. Base \in Nat /\ a \in Nat /\ b \in Nat /\ c \in Nat
        BY <1>1, <1>2, HeapAssumption
      <4>3. c # Base /\ c # Null
        BY <4>1, <4>2
      <4>4. QED
        BY <1>1, <2>1, <3>1, <4>3
    <3>3. QED
      BY <1>1, <1>12, <3>2 DEF Back
  <2>2. CASE c # after
    <3>1. n[c] = m[c]
      BY <1>11, <2>2
    <3>2. CASE c = Base
      BY <3>1, <3>2 DEF Tiled, Back
    <3>3. CASE c # Base
      <4>1. m[c] \in B /\ EndIn(m, m[c]) = c
        BY <3>3 DEF Tiled, Back
      <4>2. m[c] # b
        <5>1. c \in Nat /\ c + Header <= HeapEnd
          BY <1>2, HeapAssumption
        <5>2. c # HeapEnd
          BY <1>2, <5>1, HeapAssumption
        <5>3. QED
          BY <1>1, <2>2, <4>1, <5>2
      <4>3. m[c] # a
        BY <4>1
      <4>4. EndIn(n, m[c]) = c
        BY <1>13, <4>1, <4>2, <4>3
      <4>5. QED
        BY <3>1, <3>3, <4>1, <4>2, <4>4 DEF Back
    <3>4. QED
      BY <3>2, <3>3
  <2>3. QED
    BY <2>1, <2>2
<1>18. \A c, d \in C : c < d => EndIn(n, c) <= d
  <2> SUFFICES ASSUME NEW c \in C, NEW d \in C, c < d
               PROVE  EndIn(n, c) <= d
    OBVIOUS
  <2>1. CASE c # a
    BY <1>13, <2>1 DEF Tiled
  <2>2. CASE c = a
    <3>1. EndIn(m, a) <= d
      BY <2>2 DEF Tiled
    <3>2. b < d
      BY <1>1, <1>2, <3>1
    <3>3. QED
      BY <1>1, <1>12, <2>2, <3>2 DEF Tiled
  <2>3. QED
    BY <2>1, <2>2
<1>19. Base \in C
  <2>1. Base <= a /\ Base \in Nat
    BY HeapAssumption DEF Tiled, Header_OK
  <2>2. Base # b
    BY <1>1, <1>2, <2>1
  <2>3. QED
    BY <2>2 DEF Tiled
<1>20. Tiled(n, C)
  BY <1>14, <1>16, <1>17, <1>18, <1>19 DEF Tiled
<1>21. QED
  BY <1>9, <1>12, <1>13, <1>20

-----------------------------------------------------------------------------
(* What freeing a block keeps: n, with blocks at C, comes from m by merging. *)

Covered(m, n, C, c) ==
  \E d \in C : /\ n[d + 4] = Free
               /\ d = c \/ d + Header <= c
               /\ EndIn(m, c) <= EndIn(n, d)

Keeps(m, B, n, C) ==
  /\ n \in Memories /\ Tiled(n, C) /\ C \subseteq B
  /\ \A c \in B : n[c + 4] = m[c + 4]
  /\ \A c \in B : m[c + 4] = Used => c \in C /\ n[c + 2] = m[c + 2]
  /\ \A c \in B : m[c + 4] = Free => Covered(m, n, C, c)
  /\ \A x \in Address : (\A c \in B : x < c \/ c + Header <= x) => n[x] = m[x]

LEMMA KeepsSelf ==
  ASSUME NEW m \in Memories, NEW B, Tiled(m, B)
  PROVE  Keeps(m, B, m, B)
<1>1. \A c \in B : m[c + 4] = Free => Covered(m, m, B, c)
  BY BlockFacts DEF Covered
<1>2. QED
  BY <1>1 DEF Keeps

LEMMA KeepsOn ==
  ASSUME NEW m, NEW B, NEW n, NEW C, NEW o, NEW D, Tiled(m, B),
         Keeps(m, B, n, C), Keeps(n, C, o, D)
  PROVE  Keeps(m, B, o, D)
<1>1. \A c \in B : m[c + 4] = Used => c \in D /\ o[c + 2] = m[c + 2]
  <2> TAKE c \in B
  <2>1. m[c + 4] = Used => c \in C /\ n[c + 4] = Used /\ n[c + 2] = m[c + 2]
    BY DEF Keeps
  <2>2. c \in C /\ n[c + 4] = Used => c \in D /\ o[c + 2] = n[c + 2]
    BY DEF Keeps
  <2>3. QED
    BY <2>1, <2>2
<1>2. o \in Memories /\ Tiled(o, D) /\ D \subseteq B /\ Tiled(n, C)
  BY DEF Keeps
<1>3. \A x \in Address : (\A c \in B : x < c \/ c + Header <= x) => o[x] = m[x]
  BY DEF Keeps
<1>4. \A c \in B : o[c + 4] = m[c + 4]
  <2> TAKE c \in B
  <2>1. n[c + 4] = m[c + 4]
    BY DEF Keeps
  <2>2. CASE c \in C
    BY <2>1, <2>2 DEF Keeps
  <2>3. CASE c \notin C
    <3>1. m[c + 4] \in {Used, Free} /\ m[c + 4] # Used
      BY <2>3 DEF Tiled, Header_OK, Keeps
    <3>2. PICK d \in C : d # c /\ d + Header <= c /\ EndIn(m, c) <= EndIn(n, d)
      BY <2>3, <3>1 DEF Keeps, Covered
    <3>3. c \in Nat /\ c + Header <= EndIn(m, c) /\ c + 4 \in Address /\ EndIn(m, c) \in Nat
      BY BlockFacts, HeaderInside
    <3>4. \A e \in C : c + 4 < e \/ e + Header <= c + 4
      <4> TAKE e \in C
      <4>1. /\ d \in Nat /\ EndIn(n, d) \in Nat /\ e \in Nat /\ EndIn(n, e) \in Nat
            /\ e + Header <= EndIn(n, e)
        BY <1>2, BlockFacts
      <4>2. e = d \/ EndIn(n, d) <= e \/ EndIn(n, e) <= d
        BY <1>2, BlocksApart
      <4>3. QED
        BY <3>2, <3>3, <4>1, <4>2
    <3>5. o[c + 4] = n[c + 4]
      BY <3>3, <3>4 DEF Keeps
    <3>6. QED
      BY <2>1, <3>5
  <2>4. QED
    BY <2>2, <2>3
<1>5. \A c \in B : m[c + 4] = Free => Covered(m, o, D, c)
  <2> SUFFICES ASSUME NEW c \in B, m[c + 4] = Free
               PROVE  Covered(m, o, D, c)
    OBVIOUS
  <2>1. PICK d \in C : n[d + 4] = Free /\ (d = c \/ d + Header <= c) /\ EndIn(m, c) <= EndIn(n, d)
    BY DEF Keeps, Covered
  <2>2. PICK e \in D : o[e + 4] = Free /\ (e = d \/ e + Header <= d) /\ EndIn(n, d) <= EndIn(o, e)
    BY <2>1 DEF Keeps, Covered
  <2>3. /\ EndIn(m, c) \in Nat /\ EndIn(n, d) \in Nat /\ EndIn(o, e) \in Nat
        /\ c \in Nat /\ d \in Nat /\ e \in Nat
    BY <1>2, BlockFacts
  <2>4. QED
    BY <2>1, <2>2, <2>3 DEF Covered
<1>6. QED
  BY <1>1, <1>2, <1>3, <1>4, <1>5 DEF Keeps

(* One free block takes over a free block behind it. *)
LEMMA AbsorbKeeps ==
  ASSUME NEW m \in Memories, NEW B, Tiled(m, B), NEW a \in B, EndIn(m, a) # HeapEnd,
         NEW b, b = EndIn(m, a), NEW n, n = Absorb(m, a, b),
         m[a + 4] = Free, m[b + 4] = Free
  PROVE  Keeps(m, B, n, B \ {b})
<1>1. /\ b \in B /\ a < b /\ n \in Memories
      /\ \A x \in Address :
           x \notin {a + 1, a + 2} /\ (x = m[b + 1] => x = Null) => n[x] = m[x]
      /\ m[b + 1] = IF EndIn(m, b) = HeapEnd THEN Null ELSE EndIn(m, b)
  BY AbsorbWrites
<1>2. /\ Tiled(n, B \ {b})
      /\ EndIn(n, a) = EndIn(m, b)
      /\ \A c \in B \ {a, b} : EndIn(n, c) = EndIn(m, c)
      /\ \A c \in B : n[c + 4] = m[c + 4]
  BY AbsorbTiles
<1>3. \A c \in B : /\ c \in Nat /\ EndIn(m, c) \in Nat /\ c + Header <= EndIn(m, c)
                   /\ m[c + 2] \in Nat /\ c > Null
                   /\ EndIn(m, c) # HeapEnd => EndIn(m, c) \in B
  BY BlockFacts
<1>4. \A c \in B : m[c + 4] = Used => c \in B \ {b} /\ n[c + 2] = m[c + 2]
  <2> SUFFICES ASSUME NEW c \in B, m[c + 4] = Used
               PROVE  c \in B \ {b} /\ n[c + 2] = m[c + 2]
    OBVIOUS
  <2>1. c # a /\ c # b
    OBVIOUS
  <2>2. c \in B \ {b} /\ EndIn(n, c) = EndIn(m, c)
    BY <1>2, <2>1
  <2>3. n[c + 2] \in Nat
    BY <1>2, <2>2 DEF Tiled, Header_OK
  <2>4. QED
    BY <1>3, <2>2, <2>3 DEF EndIn
<1>5. \A c \in B : m[c + 4] = Free => Covered(m, n, B \ {b}, c)
  <2> SUFFICES ASSUME NEW c \in B, m[c + 4] = Free
               PROVE  Covered(m, n, B \ {b}, c)
    OBVIOUS
  <2>1. a \in B \ {b} /\ n[a + 4] = Free /\ EndIn(n, a) = EndIn(m, b)
    BY <1>1, <1>2, <1>3
  <2>2. CASE c = b
    BY <1>3, <2>1, <2>2 DEF Covered
  <2>3. CASE c = a
    <3>1. EndIn(m, a) <= EndIn(m, b)
      BY <1>1, <1>3
    <3>2. QED
      BY <2>1, <2>3, <3>1 DEF Covered
  <2>4. CASE c \notin {a, b}
    <3>1. c \in B \ {b} /\ n[c + 4] = Free /\ EndIn(m, c) <= EndIn(n, c)
      BY <1>2, <1>3, <2>4
    <3>2. QED
      BY <3>1 DEF Covered
  <2>5. QED
    BY <2>2, <2>3, <2>4
<1>6. \A x \in Address : (\A c \in B : x < c \/ c + Header <= x) => n[x] = m[x]
  <2> SUFFICES ASSUME NEW x \in Address, \A c \in B : x < c \/ c + Header <= x,
                      n[x] # m[x]
               PROVE  FALSE
    OBVIOUS
  <2>1. x \in Nat
    BY HeapAssumption DEF Address
  <2>2. x # a + 1 /\ x # a + 2
    BY <1>3, <2>1
  <2>3. x = m[b + 1] /\ x # Null
    BY <1>1, <2>2
  <2>4. CASE EndIn(m, b) # HeapEnd
    BY <1>1, <1>3, <2>1, <2>3, <2>4
  <2>5. CASE EndIn(m, b) = HeapEnd
    BY <1>1, <2>3, <2>5
  <2>6. QED
    BY <2>4, <2>5
<1>7. QED
  BY <1>1, <1>2, <1>4, <1>5, <1>6 DEF Keeps

-----------------------------------------------------------------------------
(* Freeing a block. *)

LEMMA MergeableBlock ==
  ASSUME NEW m, NEW B, Tiled(m, B)
  PROVE  /\ \A b \in B : Mergeable(m, b) <=> m[b + 4] = Free
         /\ ~Mergeable(m, Null)
<1>1. ~Mergeable(m, Null)
  BY DEF Mergeable
<1>2. ASSUME NEW b \in B
      PROVE  Mergeable(m, b) <=> m[b + 4] = Free
  <2>1. b # Null /\ MagicAt(b) = b + 3 /\ FlagAt(b) = b + 4 /\ m[b + 3] = Magic
    <3>1. b \in Nat /\ b <= HeapEnd /\ b > Null
      BY BlockFacts, HeaderInside
    <3>2. QED
      BY <3>1, FieldsAt DEF Tiled, Header_OK
  <2>2. QED
    BY <2>1 DEF Mergeable, Valid, IsFree
<1>3. QED
  BY <1>1, <1>2

(* The merge with the next block leaves b the only one that may have a free *)
(* block before it.                                                         *)
WithNext(m, b) == IF Mergeable(m, m[b + 1]) THEN Absorb(m, b, m[b + 1]) ELSE m
LeftWithNext(m, B, b) == IF Mergeable(m, m[b + 1]) THEN B \ {m[b + 1]} ELSE B

MergedElsewhere(m, B, b) == \A c \in B : EndIn(m, c) # b /\ c # b => Alone(m, c)
MergedBehind(m, B, b) == \A c \in B : EndIn(m, c) # b => Alone(m, c)

LEMMA ForwardMerge ==
  ASSUME NEW m \in Memories, NEW B, Tiled(m, B), NEW b \in B, m[b + 4] = Free,
         MergedElsewhere(m, B, b)
  PROVE  /\ Keeps(m, B, WithNext(m, b), LeftWithNext(m, B, b))
         /\ b \in LeftWithNext(m, B, b) /\ WithNext(m, b)[b] = m[b]
         /\ MergedBehind(WithNext(m, b), LeftWithNext(m, B, b), b)
<1> DEFINE next == m[b + 1]
           n == WithNext(m, b)
           C == LeftWithNext(m, B, b)
<1>0. /\ n = IF Mergeable(m, next) THEN Absorb(m, b, next) ELSE m
      /\ C = IF Mergeable(m, next) THEN B \ {next} ELSE B
  BY DEF WithNext, LeftWithNext
<1> HIDE DEF n, C
<1>1. next = IF EndIn(m, b) = HeapEnd THEN Null ELSE EndIn(m, b)
  BY DEF Tiled, Forward
<1> HIDE DEF next
<1>2. EndIn(m, b) # HeapEnd => EndIn(m, b) \in B
  BY BlockFacts
<1>3. CASE Mergeable(m, next)
  <2>1. next = EndIn(m, b) /\ EndIn(m, b) # HeapEnd /\ next \in B /\ m[next + 4] = Free
    BY <1>1, <1>2, <1>3, MergeableBlock
  <2>2. n = Absorb(m, b, next) /\ C = B \ {next}
    BY <1>0, <1>3
  <2>3. Keeps(m, B, n, C)
    BY <2>1, <2>2, AbsorbKeeps
  <2>4. /\ Tiled(n, C)
        /\ EndIn(n, b) = EndIn(m, next)
        /\ \A c \in B \ {b, next} : EndIn(n, c) = EndIn(m, c)
        /\ \A c \in B : n[c + 4] = m[c + 4]
    BY <2>1, <2>2, AbsorbTiles
  <2>5. b < next /\ b \in Nat /\ next \in Nat
    BY <2>1, <2>2, AbsorbWrites, HeaderInside
  <2>6. b \in C
    BY <2>2, <2>5
  <2>7. n[b] = m[b]
    <3>1. \A x \in Address :
            x \notin {b + 1, b + 2} /\ (x = m[next + 1] => x = Null) => n[x] = m[x]
      BY <2>1, <2>2, AbsorbWrites
    <3>2. m[next + 1] = IF EndIn(m, next) = HeapEnd THEN Null ELSE EndIn(m, next)
      BY <2>1 DEF Tiled, Forward
    <3>3. b \in Address /\ EndIn(m, next) \in Nat /\ next + Header <= EndIn(m, next)
      BY <2>1, BlockFacts, HeaderInside
    <3>4. b # EndIn(m, next) /\ b # b + 1 /\ b # b + 2
      BY <2>5, <3>3
    <3>5. QED
      BY <3>1, <3>2, <3>3, <3>4
  <2>8. ASSUME NEW c \in C, EndIn(n, c) # b
        PROVE  Alone(n, c)
    <3>1. EndIn(n, c) # HeapEnd => EndIn(n, c) \in C
      BY <2>4, BlockFacts
    <3>2. CASE c = b
      <4>1. EndIn(m, next) # b
        BY <2>4, <2>8, <3>2
      <4>2. Alone(m, next)
        BY <2>1, <2>5, <4>1 DEF MergedElsewhere
      <4>3. QED
        BY <2>1, <2>2, <2>4, <3>1, <3>2, <4>2 DEF Alone
    <3>3. CASE c # b
      <4>1. c \in B \ {b, next} /\ EndIn(n, c) = EndIn(m, c)
        BY <2>2, <2>4, <3>3
      <4>2. Alone(m, c)
        BY <2>8, <4>1 DEF MergedElsewhere
      <4>3. QED
        BY <2>2, <2>4, <3>1, <4>1, <4>2 DEF Alone
    <3>4. QED
      BY <3>2, <3>3
  <2>9. QED
    BY <2>3, <2>6, <2>7, <2>8 DEF n, C, MergedBehind
<1>4. CASE ~Mergeable(m, next)
  <2>1. n = m /\ C = B
    BY <1>0, <1>4
  <2>2. Alone(m, b)
    BY <1>1, <1>2, <1>4, MergeableBlock DEF Alone
  <2>3. MergedBehind(m, B, b)
    BY <2>2 DEF MergedElsewhere, MergedBehind
  <2>4. QED
    BY <2>1, <2>3, KeepsSelf DEF n, C
<1>5. QED
  BY <1>3, <1>4

WithPrev(m, b) == IF Mergeable(m, m[b]) THEN Absorb(m, m[b], b) ELSE m
LeftWithPrev(m, B, b) == IF Mergeable(m, m[b]) THEN B \ {b} ELSE B

(* The merge with the previous block leaves no two free neighbours. *)
LEMMA BackwardMerge ==
  ASSUME NEW m \in Memories, NEW B, Tiled(m, B), NEW b \in B, m[b + 4] = Free,
         MergedBehind(m, B, b)
  PROVE  /\ Keeps(m, B, WithPrev(m, b), LeftWithPrev(m, B, b))
         /\ Merged(WithPrev(m, b), LeftWithPrev(m, B, b))
<1> DEFINE prev == m[b]
           n == WithPrev(m, b)
           C == LeftWithPrev(m, B, b)
<1>0. /\ n = IF Mergeable(m, prev) THEN Absorb(m, prev, b) ELSE m
      /\ C = IF Mergeable(m, prev) THEN B \ {b} ELSE B
  BY DEF WithPrev, LeftWithPrev
<1> HIDE DEF n, C
<1>1. IF b = Base THEN prev = Null ELSE prev \in B /\ EndIn(m, prev) = b
  BY DEF Tiled, Back
<1>2. /\ b \in Nat /\ b + Header <= EndIn(m, b) /\ EndIn(m, b) <= HeapEnd
      /\ EndIn(m, b) \in Nat /\ b # HeapEnd
  BY BlockFacts, HeapAssumption
<1>3. \A c \in B : EndIn(m, c) = b => c = prev /\ c # Null
  <2> TAKE c \in B
  <2>1. c # Null
    BY BlockFacts
  <2>2. QED
    BY <1>2, <2>1 DEF Tiled, Forward
<1> HIDE DEF prev
<1>4. CASE Mergeable(m, prev)
  <2>1. prev \in B /\ EndIn(m, prev) = b /\ EndIn(m, prev) # HeapEnd /\ m[prev + 4] = Free
    BY <1>1, <1>2, <1>4, MergeableBlock
  <2>2. n = Absorb(m, prev, b) /\ C = B \ {b}
    BY <1>0, <1>4
  <2>3. Keeps(m, B, n, C)
    BY <2>1, <2>2, AbsorbKeeps
  <2>4. /\ Tiled(n, C)
        /\ EndIn(n, prev) = EndIn(m, b)
        /\ \A c \in B \ {prev, b} : EndIn(n, c) = EndIn(m, c)
        /\ \A c \in B : n[c + 4] = m[c + 4]
    BY <2>1, <2>2, AbsorbTiles
  <2>5. ASSUME NEW c \in C
        PROVE  Alone(n, c)
    <3>1. EndIn(n, c) # HeapEnd => EndIn(n, c) \in C
      BY <2>4, BlockFacts
    <3>2. CASE c = prev
      <4>1. EndIn(m, b) # b
        BY <1>2
      <4>2. Alone(m, b)
        BY <4>1 DEF MergedBehind
      <4>3. QED
        BY <2>1, <2>2, <2>4, <3>1, <3>2, <4>2 DEF Alone
    <3>3. CASE c # prev
      <4>1. c \in B \ {prev, b} /\ EndIn(n, c) = EndIn(m, c)
        BY <2>2, <2>4, <3>3
      <4>2. Alone(m, c)
        BY <1>3, <3>3, <4>1 DEF MergedBehind
      <4>3. QED
        BY <2>2, <2>4, <3>1, <4>1, <4>2 DEF Alone
    <3>4. QED
      BY <3>2, <3>3
  <2>6. QED
    BY <2>3, <2>5 DEF Merged, n, C
<1>5. CASE ~Mergeable(m, prev)
  <2>1. n = m /\ C = B
    BY <1>0, <1>5
  <2>2. ASSUME NEW c \in B
        PROVE  Alone(m, c)
    <3>1. CASE EndIn(m, c) = b
      <4>1. c = prev /\ c \in B
        BY <1>3, <3>1
      <4>2. m[c + 4] # Free
        BY <1>5, <4>1, MergeableBlock
      <4>3. QED
        BY <4>2 DEF Alone
    <3>2. QED
      BY <3>1 DEF MergedBehind
  <2>3. QED
    BY <2>1, <2>2, KeepsSelf DEF Merged, n, C
<1>6. QED
  BY <1>4, <1>5

(* kfree in all: what Coalesced and Absorbed are. *)
LEMMA CoalesceFacts ==
  ASSUME NEW m \in Memories, NEW B, Tiled(m, B), Merged(m, B),
         NEW b \in B, m[b + 4] = Used
  PROVE  /\ Marks(m, B, b, Free, [m EXCEPT ![b + 4] = Free])
         /\ Keeps([m EXCEPT ![b + 4] = Free], B, Coalesced(m, b), B \ Absorbed(m, b))
         /\ Merged(Coalesced(m, b), B \ Absorbed(m, b))
<1> DEFINE k == [m EXCEPT ![b + 4] = Free]
           fwd == WithNext(k, b)
           F == LeftWithNext(k, B, b)
           n == WithPrev(fwd, b)
           C == LeftWithPrev(fwd, F, b)
<1>1. /\ b \in Nat /\ FlagAt(b) = b + 4 /\ NextAt(b) = b + 1 /\ PrevAt(b) = b
      /\ b \in Address /\ b + 1 \in Address
  <2>1. b \in Nat /\ b <= HeapEnd
    BY HeaderInside
  <2>2. QED
    BY <2>1, FieldsAt
<1>2. Marks(m, B, b, Free, k)
  BY Flagged
<1>3. Coalesced(m, b) = n
  BY <1>1 DEF Coalesced, WithNext, WithPrev
<1> HIDE DEF k
<1>4. k \in Memories /\ Tiled(k, B) /\ k[b + 4] = Free
  BY <1>2 DEF Marks
<1>5. k[b] = m[b] /\ k[b + 1] = m[b + 1]
  <2>1. b \in Address \ {b + 4} /\ b + 1 \in Address \ {b + 4}
    BY <1>1
  <2>2. QED
    BY <1>2, <2>1 DEF Marks
<1>6. MergedElsewhere(k, B, b)
  <2> SUFFICES ASSUME NEW c \in B, EndIn(k, c) # b, c # b
               PROVE  Alone(k, c)
    BY DEF MergedElsewhere
  <2>1. Alone(m, c) /\ EndIn(k, c) = EndIn(m, c) /\ k[c + 4] = m[c + 4]
    BY <1>2 DEF Merged, Marks
  <2>2. EndIn(k, c) # HeapEnd => k[EndIn(k, c) + 4] = m[EndIn(k, c) + 4]
    <3>1. EndIn(k, c) # HeapEnd => EndIn(k, c) \in B \ {b}
      BY <2>1, BlockFacts
    <3>2. QED
      BY <1>2, <3>1 DEF Marks
  <2>3. QED
    BY <2>1, <2>2 DEF Alone
<1>7. /\ Keeps(k, B, fwd, F) /\ b \in F /\ fwd[b] = k[b]
      /\ MergedBehind(fwd, F, b)
  BY <1>4, <1>6, ForwardMerge
<1> HIDE DEF fwd, F
<1>8. fwd \in Memories /\ Tiled(fwd, F) /\ fwd[b + 4] = Free
  BY <1>4, <1>7 DEF Keeps
<1>9. Keeps(fwd, F, n, C) /\ Merged(n, C)
  BY <1>7, <1>8, BackwardMerge
<1> HIDE DEF n, C
<1>10. Keeps(k, B, n, C)
  BY <1>4, <1>7, <1>9, KeepsOn
<1> DEFINE next == m[b + 1]
           prev == m[b]
<1>11. /\ next = IF EndIn(m, b) = HeapEnd THEN Null ELSE EndIn(m, b)
       /\ prev = IF b = Base THEN Null ELSE prev
       /\ b # Base => prev \in B /\ EndIn(m, prev) = b
  BY DEF Tiled, Forward, Back
<1> HIDE DEF next, prev
<1>12. Mergeable(k, next) <=> Mergeable(m, next)
  <2>1. CASE EndIn(m, b) = HeapEnd
    <3>1. ~Mergeable(k, Null) /\ ~Mergeable(m, Null)
      BY <1>4, MergeableBlock
    <3>2. QED
      BY <1>11, <2>1, <3>1
  <2>2. CASE EndIn(m, b) # HeapEnd
    <3>1. next \in B \ {b}
      BY <1>11, <2>2, BlockFacts
    <3>2. Mergeable(k, next) <=> k[next + 4] = Free
      BY <1>4, <3>1, MergeableBlock
    <3>3. Mergeable(m, next) <=> m[next + 4] = Free
      BY <3>1, MergeableBlock
    <3>4. k[next + 4] = m[next + 4]
      BY <1>2, <3>1 DEF Marks
    <3>5. QED
      BY <3>2, <3>3, <3>4
  <2>3. QED
    BY <2>1, <2>2
<1>13. Mergeable(fwd, prev) <=> Mergeable(m, prev)
  <2>1. CASE b = Base
    <3>1. ~Mergeable(fwd, Null) /\ ~Mergeable(m, Null)
      BY <1>8, MergeableBlock
    <3>2. QED
      BY <1>11, <2>1, <3>1
  <2>2. CASE b # Base
    <3>1. prev \in B /\ prev # b
      <4>1. prev \in B /\ EndIn(m, prev) = b
        BY <1>11, <2>2
      <4>2. prev \in Nat /\ prev + Header <= b
        BY <4>1, BlockFacts
      <4>3. QED
        BY <1>1, <4>1, <4>2
    <3>2. prev \in F
      <4>1. fwd[b] = prev
        BY <1>5, <1>7 DEF prev
      <4>2. fwd[b] \in F
        BY <1>7, <1>8, <2>2 DEF Tiled, Back
      <4>3. QED
        BY <4>1, <4>2
    <3>3. k[prev + 4] = m[prev + 4]
      BY <1>2, <3>1 DEF Marks
    <3>4. fwd[prev + 4] = k[prev + 4]
      BY <1>7, <3>1 DEF Keeps
    <3>5. Mergeable(fwd, prev) <=> fwd[prev + 4] = Free
      BY <1>8, <3>2, MergeableBlock
    <3>6. Mergeable(m, prev) <=> m[prev + 4] = Free
      BY <3>1, MergeableBlock
    <3>7. QED
      BY <3>3, <3>4, <3>5, <3>6
  <2>3. QED
    BY <2>1, <2>2
<1>14. C = B \ Absorbed(m, b)
  <2>1. Absorbed(m, b) = {x \in {next} : Mergeable(m, x)} \cup {x \in {b} : Mergeable(m, prev)}
    BY <1>1 DEF Absorbed, next, prev
  <2>2. F = IF Mergeable(m, next) THEN B \ {next} ELSE B
    BY <1>5, <1>12 DEF F, LeftWithNext, next
  <2>3. C = IF Mergeable(m, prev) THEN F \ {b} ELSE F
    BY <1>5, <1>7, <1>13 DEF C, LeftWithPrev, prev
  <2>4. QED
    BY <2>1, <2>2, <2>3
<1>15. QED
  BY <1>2, <1>3, <1>9, <1>10, <1>14 DEF k

-----------------------------------------------------------------------------
(* Cutting a free block in two, with room for the header of the second. *)

Cut(m, b, s) ==
  LET new == b + Header + s
      next == m[b + 1]
      tail == [m EXCEPT ![new] = b, ![new + 1] = next,
                        ![new + 2] = m[b + 2] - s - Header,
                        ![new + 3] = Magic, ![new + 4] = Free,
                        ![b + 1] = new, ![b + 2] = s]
      linked == IF next = Null THEN tail ELSE [tail EXCEPT ![next] = new]
  IN  [linked EXCEPT ![b + 4] = Used]

LEMMA CutWrites ==
  ASSUME NEW m \in Memories, NEW B, Tiled(m, B), NEW b \in B,
         NEW s \in Nat, s + Header <= m[b + 2],
         NEW new, new = b + Header + s, NEW n, n = Cut(m, b, s)
  PROVE  /\ n \in Memories
         /\ n[new] = b /\ n[new + 1] = m[b + 1] /\ n[new + 2] = m[b + 2] - s - Header
         /\ n[new + 3] = Magic /\ n[new + 4] = Free
         /\ n[b + 1] = new /\ n[b + 2] = s /\ n[b + 4] = Used
         /\ m[b + 1] # Null => n[m[b + 1]] = new
         /\ \A x \in Address :
              /\ x \notin {b + 1, b + 2, b + 4, new, new + 1, new + 2, new + 3, new + 4}
              /\ x = m[b + 1] => x = Null
              => n[x] = m[x]
         /\ new \in Nat /\ b + Header <= new /\ new + Header <= EndIn(m, b)
<1> DEFINE next == m[b + 1]
           rest == m[b + 2] - s - Header
<1>1. /\ b \in Nat /\ m[b + 2] \in Nat /\ EndIn(m, b) \in Nat /\ EndIn(m, b) <= HeapEnd
      /\ EndIn(m, b) = b + Header + m[b + 2]
  BY BlockFacts DEF EndIn
<1>2. /\ new \in Nat /\ b + Header <= new /\ new + Header <= EndIn(m, b) /\ rest \in Nat
      /\ new <= HeapEnd
  BY <1>1, HeapAssumption
<1>3. next = IF EndIn(m, b) = HeapEnd THEN Null ELSE EndIn(m, b)
  BY DEF Tiled, Forward
<1>4. /\ b \in Address /\ b + 1 \in Address /\ b + 2 \in Address /\ b + 4 \in Address
      /\ new \in Address /\ new + 1 \in Address /\ new + 2 \in Address
      /\ new + 3 \in Address /\ new + 4 \in Address
  <2>1. b <= HeapEnd
    BY <1>1, <1>2, HeapAssumption
  <2>2. QED
    BY <1>1, <1>2, <2>1, FieldsAt
<1>5. s \in Address /\ rest \in Address
  BY <1>1, <1>2, HeapAssumption DEF Address
<1>6. next \in Address
  <2>1. EndIn(m, b) \in Address /\ Null \in Address
    BY <1>1, HeapAssumption DEF Address
  <2>2. QED
    BY <1>3, <2>1
<1> HIDE DEF next, rest
<1>7. b \in Words /\ next \in Words /\ rest \in Words /\ Magic \in Words
      /\ Free \in Words /\ Used \in Words /\ new \in Words /\ s \in Words
  BY <1>4, <1>5, <1>6, HeapAssumption DEF Words, Address
<1>8. next # Null => /\ next \notin {b + 1, b + 2, b + 4}
                     /\ next \notin {new, new + 1, new + 2, new + 3, new + 4}
  BY <1>1, <1>2, <1>3
<1>9. /\ b + 1 # b + 2 /\ b + 1 # b + 4 /\ b + 2 # b + 4
      /\ \A i, j \in 0..4 : b + i # new + j
      /\ new # new + 1 /\ new # new + 2 /\ new # new + 3 /\ new # new + 4
      /\ new + 1 # new + 2 /\ new + 1 # new + 3 /\ new + 1 # new + 4
      /\ new + 2 # new + 3 /\ new + 2 # new + 4 /\ new + 3 # new + 4
  BY <1>1, <1>2
<1>10. /\ \A j \in {0, 1, 2, 3, 4} : b + 1 # new + j /\ b + 2 # new + j /\ b + 4 # new + j
       /\ b + 1 # new /\ b + 2 # new /\ b + 4 # new
  BY <1>1, <1>2
<1> DEFINE h1 == [m EXCEPT ![new] = b, ![new + 1] = next, ![new + 2] = rest]
           h2 == [h1 EXCEPT ![new + 3] = Magic, ![new + 4] = Free]
           h3 == [h2 EXCEPT ![b + 1] = new, ![b + 2] = s]
           h4 == IF next = Null THEN h3 ELSE [h3 EXCEPT ![next] = new]
<1>11. n = [h4 EXCEPT ![b + 4] = Used]
  BY DEF Cut, next, rest
<1>12. /\ h1 \in Memories
       /\ h1[new] = b /\ h1[new + 1] = next /\ h1[new + 2] = rest
       /\ \A x \in Address : x \notin {new, new + 1, new + 2} => h1[x] = m[x]
  BY <1>4, <1>7, <1>9 DEF Memories
<1> HIDE DEF h1
<1>13. /\ h2 \in Memories
       /\ h2[new + 3] = Magic /\ h2[new + 4] = Free
       /\ \A x \in Address : x \notin {new + 3, new + 4} => h2[x] = h1[x]
  BY <1>4, <1>7, <1>9, <1>12 DEF Memories
<1> HIDE DEF h2
<1>14. /\ h3 \in Memories
       /\ h3[b + 1] = new /\ h3[b + 2] = s
       /\ \A x \in Address : x \notin {b + 1, b + 2} => h3[x] = h2[x]
  BY <1>4, <1>7, <1>9, <1>13 DEF Memories
<1> HIDE DEF h3
<1>15. /\ h4 \in Memories
       /\ next # Null => h4[next] = new
       /\ \A x \in Address : (x = next => x = Null) => h4[x] = h3[x]
  BY <1>6, <1>7, <1>14 DEF Memories
<1> HIDE DEF h4
<1>16. /\ n \in Memories
       /\ n[b + 4] = Used
       /\ \A x \in Address : x # b + 4 => n[x] = h4[x]
  BY <1>4, <1>7, <1>11, <1>15 DEF Memories
<1>17. n[b + 1] = new /\ n[b + 2] = s
  BY <1>4, <1>8, <1>9, <1>14, <1>15, <1>16
<1>18. n[new + 3] = Magic /\ n[new + 4] = Free
  BY <1>4, <1>8, <1>10, <1>13, <1>14, <1>15, <1>16
<1>19. n[new] = b /\ n[new + 1] = next /\ n[new + 2] = rest
  BY <1>4, <1>8, <1>9, <1>10, <1>12, <1>13, <1>14, <1>15, <1>16
<1>20. next # Null => n[next] = new
  BY <1>6, <1>8, <1>15, <1>16
<1>21. \A x \in Address :
         /\ x \notin {b + 1, b + 2, b + 4, new, new + 1, new + 2, new + 3, new + 4}
         /\ x = next => x = Null
         => n[x] = m[x]
  BY <1>12, <1>13, <1>14, <1>15, <1>16
<1>22. QED
  BY <1>2, <1>16, <1>17, <1>18, <1>19, <1>20, <1>21 DEF next, rest

(* The second part lies between the first and the next block. *)
LEMMA CutTiles ==
  ASSUME NEW m \in Memories, NEW B, Tiled(m, B), NEW b \in B,
         NEW s \in Nat, s + Header <= m[b + 2],
         NEW new, new = b + Header + s, NEW n, n = Cut(m, b, s)
  PROVE  /\ Tiled(n, B \cup {new})
         /\ EndIn(n, b) = new /\ EndIn(n, new) = EndIn(m, b)
         /\ new \notin B
         /\ \A c \in B \ {b} : /\ EndIn(n, c) = EndIn(m, c) /\ n[c + 2] = m[c + 2]
                               /\ n[c + 4] = m[c + 4]
<1> DEFINE C == B \cup {new}
           next == m[b + 1]
<1>1. /\ n[new] = b /\ n[new + 1] = next /\ n[new + 2] = m[b + 2] - s - Header
      /\ n[new + 3] = Magic /\ n[new + 4] = Free
      /\ n[b + 1] = new /\ n[b + 2] = s /\ n[b + 4] = Used
      /\ next # Null => n[next] = new
      /\ \A x \in Address :
           /\ x \notin {b + 1, b + 2, b + 4, new, new + 1, new + 2, new + 3, new + 4}
           /\ x = next => x = Null
           => n[x] = m[x]
      /\ new \in Nat /\ b + Header <= new /\ new + Header <= EndIn(m, b)
  BY CutWrites
<1>2. next = IF EndIn(m, b) = HeapEnd THEN Null ELSE EndIn(m, b)
  BY DEF Tiled, Forward
<1> HIDE DEF next
<1>3. \A c \in B : /\ c \in Nat /\ c > Null /\ EndIn(m, c) \in Nat /\ m[c + 2] \in Nat
                   /\ c + Header <= EndIn(m, c) /\ EndIn(m, c) <= HeapEnd
                   /\ EndIn(m, c) # HeapEnd => EndIn(m, c) \in B
                   /\ EndIn(m, c) = c + Header + m[c + 2]
  BY BlockFacts DEF EndIn
<1>4. \A c, d \in B : c # d => EndIn(m, c) <= d \/ EndIn(m, d) <= c
  BY BlocksApart
<1>5. \A c \in B : /\ c \in Address /\ c + 1 \in Address /\ c + 2 \in Address
                   /\ c + 3 \in Address /\ c + 4 \in Address
  BY HeaderInside
<1>6. next # Null => next \in B /\ next = EndIn(m, b)
  BY <1>2, <1>3
<1>7. \A c \in B : next # Null =>
         c + 1 # next /\ c + 2 # next /\ c + 3 # next /\ c + 4 # next
  <2> SUFFICES ASSUME NEW c \in B, next # Null
               PROVE  c + 1 # next /\ c + 2 # next /\ c + 3 # next /\ c + 4 # next
    OBVIOUS
  <2>1. c = next \/ EndIn(m, c) <= next \/ EndIn(m, next) <= c
    BY <1>4, <1>6
  <2>2. QED
    BY <1>3, <1>6, <2>1
<1>8. \A c \in B \ {b} : \A k \in {0, 1, 2, 3, 4} :
         c + k \notin {b + 1, b + 2, b + 4, new, new + 1, new + 2, new + 3, new + 4}
  <2> TAKE c \in B \ {b}
  <2>1. EndIn(m, c) <= b \/ EndIn(m, b) <= c
    BY <1>4
  <2>2. QED
    BY <1>1, <1>3, <2>1
<1>9. \A c \in B \ {b} : /\ n[c + 1] = m[c + 1] /\ n[c + 2] = m[c + 2]
                         /\ n[c + 3] = m[c + 3] /\ n[c + 4] = m[c + 4]
  <2> TAKE c \in B \ {b}
  <2>1. \A k \in {1, 2, 3, 4} : n[c + k] = m[c + k]
    BY <1>1, <1>5, <1>7, <1>8
  <2>2. QED
    BY <2>1
<1>10. n[b + 3] = m[b + 3]
  BY <1>1, <1>3, <1>5, <1>7
<1>11. \A c \in B : c # next => n[c] = m[c]
  <2> SUFFICES ASSUME NEW c \in B, c # next
               PROVE  n[c] = m[c]
    OBVIOUS
  <2>1. CASE c = b
    BY <1>1, <1>3, <1>5, <2>1
  <2>2. CASE c # b
    <3>1. c + 0 = c /\ c \in Address
      BY <1>3, <1>5
    <3>2. c \notin {b + 1, b + 2, b + 4, new, new + 1, new + 2, new + 3, new + 4}
      BY <1>8, <2>2, <3>1
    <3>3. QED
      BY <1>1, <2>2, <3>1, <3>2
  <2>3. QED
    BY <2>1, <2>2
<1>12. EndIn(n, b) = new
  BY <1>1 DEF EndIn
<1>13. EndIn(n, new) = EndIn(m, b)
  <2>1. EndIn(n, new) = new + Header + (m[b + 2] - s - Header)
    BY <1>1 DEF EndIn
  <2>2. QED
    BY <1>1, <1>3, <2>1
<1>14. \A c \in B \ {b} : EndIn(n, c) = EndIn(m, c)
  BY <1>9 DEF EndIn
<1>15. new \notin B
  <2> SUFFICES ASSUME new \in B
               PROVE  FALSE
    OBVIOUS
  <2>1. new # b
    BY <1>1, <1>3
  <2>2. EndIn(m, b) <= new \/ EndIn(m, new) <= b
    BY <1>4, <2>1
  <2>3. QED
    BY <1>1, <1>3, <2>2
<1>16. \A c \in C : Header_OK(n, c)
  <2> TAKE c \in C
  <2>1. CASE c = new
    <3>1. new \in Nat /\ Base <= new
      <4>1. Base <= b /\ Base \in Nat
        BY HeapAssumption DEF Tiled, Header_OK
      <4>2. QED
        BY <1>1, <1>3, <4>1
    <3>2. m[b + 2] - s - Header \in Nat
      BY <1>3
    <3>3. EndIn(n, new) <= HeapEnd
      BY <1>3, <1>13
    <3>4. QED
      BY <1>1, <2>1, <3>1, <3>2, <3>3 DEF Header_OK
  <2>2. CASE c = b
    <3>1. new <= HeapEnd
      BY <1>1, <1>3, HeapAssumption
    <3>2. QED
      BY <1>1, <1>10, <1>12, <2>2, <3>1 DEF Tiled, Header_OK
  <2>3. CASE c \in B \ {b}
    BY <1>9, <1>14, <2>3 DEF Tiled, Header_OK
  <2>4. QED
    BY <2>1, <2>2, <2>3
<1>17. \A c \in C : Forward(n, C, c)
  <2> TAKE c \in C
  <2>1. CASE c = new
    <3>1. CASE EndIn(m, b) = HeapEnd
      BY <1>1, <1>2, <1>13, <2>1, <3>1 DEF Forward
    <3>2. CASE EndIn(m, b) # HeapEnd
      <4>1. next = EndIn(m, b) /\ next \in C /\ next # Null
        BY <1>2, <1>3, <3>2
      <4>2. QED
        BY <1>1, <1>13, <2>1, <3>2, <4>1 DEF Forward
    <3>3. QED
      BY <3>1, <3>2
  <2>2. CASE c = b
    <3>1. new # HeapEnd
      BY <1>1, <1>3, HeapAssumption
    <3>2. QED
      BY <1>1, <1>12, <2>2, <3>1 DEF Forward
  <2>3. CASE c \in B \ {b}
    <3>1. CASE EndIn(m, c) = HeapEnd
      BY <1>9, <1>14, <2>3, <3>1 DEF Tiled, Forward
    <3>2. CASE EndIn(m, c) # HeapEnd
      <4>1. EndIn(m, c) \in B /\ m[c + 1] = EndIn(m, c) /\ m[EndIn(m, c)] = c
        BY <2>3, <3>2 DEF Tiled, Forward
      <4>2. EndIn(m, c) # next
        <5>1. EndIn(m, b) # HeapEnd => m[EndIn(m, b)] = b
          BY DEF Tiled, Forward
        <5>2. EndIn(m, c) > Null
          BY <1>3, <4>1
        <5>3. QED
          BY <1>2, <2>3, <4>1, <5>1, <5>2
      <4>3. n[EndIn(m, c)] = c
        BY <1>11, <4>1, <4>2
      <4>4. QED
        BY <1>9, <1>14, <2>3, <3>2, <4>1, <4>3 DEF Forward
    <3>3. QED
      BY <3>1, <3>2
  <2>4. QED
    BY <2>1, <2>2, <2>3
<1>18. \A c \in C : Back(n, C, c)
  <2>0. Base \in Nat /\ \A c \in B : Base <= c
    BY HeapAssumption DEF Tiled, Header_OK
  <2> TAKE c \in C
  <2>1. CASE c = new
    <3>1. new # Base
      BY <1>1, <1>3, <2>0
    <3>2. QED
      BY <1>1, <1>12, <2>1, <3>1 DEF Back
  <2>2. CASE c \in B /\ c = next
    <3>1. next # Null /\ next = EndIn(m, b)
      BY <1>3, <1>6, <2>2
    <3>2. c # Base
      BY <1>3, <2>0, <2>2, <3>1
    <3>3. QED
      BY <1>1, <1>13, <2>2, <3>1, <3>2 DEF Back
  <2>3. CASE c \in B /\ c # next
    <3>1. n[c] = m[c]
      BY <1>11, <2>3
    <3>2. CASE c = Base
      BY <2>3, <3>1, <3>2 DEF Tiled, Back
    <3>3. CASE c # Base
      <4>1. m[c] \in B /\ EndIn(m, m[c]) = c
        BY <2>3, <3>3 DEF Tiled, Back
      <4>2. m[c] # b
        <5>1. c # HeapEnd
          BY <1>3, <2>3, HeapAssumption
        <5>2. QED
          BY <1>2, <2>3, <4>1, <5>1
      <4>3. QED
        BY <1>14, <3>1, <3>3, <4>1, <4>2 DEF Back
    <3>4. QED
      BY <3>2, <3>3
  <2>4. QED
    BY <2>1, <2>2, <2>3
<1>19. \A c, d \in C : c < d => EndIn(n, c) <= d
  <2> SUFFICES ASSUME NEW c \in C, NEW d \in C, c < d
               PROVE  EndIn(n, c) <= d
    OBVIOUS
  <2>1. CASE c = new
    <3>1. d \in B /\ d # b
      BY <1>1, <1>3, <2>1
    <3>2. EndIn(m, b) <= d \/ EndIn(m, d) <= b
      BY <1>4, <3>1
    <3>3. QED
      BY <1>1, <1>3, <1>13, <2>1, <3>1, <3>2
  <2>2. CASE c = b
    <3>1. CASE d = new
      BY <1>1, <1>12, <2>2, <3>1
    <3>2. CASE d \in B
      <4>1. EndIn(m, b) <= d
        BY <2>2, <3>2 DEF Tiled
      <4>2. new <= d
        <5>1. new \in Nat /\ d \in Nat /\ EndIn(m, b) \in Nat
          BY <1>1, <1>3, <3>2
        <5>2. QED
          BY <1>1, <4>1, <5>1
      <4>3. QED
        BY <1>12, <2>2, <4>2
    <3>3. QED
      BY <3>1, <3>2
  <2>3. CASE c \in B \ {b}
    <3>1. CASE d = new
      <4>1. EndIn(m, c) <= b \/ EndIn(m, b) <= c
        BY <1>4, <2>3
      <4>2. QED
        BY <1>1, <1>3, <1>14, <2>3, <3>1, <4>1
    <3>2. CASE d \in B
      BY <1>14, <2>3, <3>2 DEF Tiled
    <3>3. QED
      BY <3>1, <3>2
  <2>4. QED
    BY <2>1, <2>2, <2>3
<1>20. Tiled(n, C)
  BY <1>16, <1>17, <1>18, <1>19 DEF Tiled
<1>21. QED
  BY <1>9, <1>12, <1>13, <1>14, <1>15, <1>20

(* The first part is used: the second one, too, has no free neighbour. *)
LEMMA CutMerged ==
  ASSUME NEW m \in Memories, NEW B, Tiled(m, B), Merged(m, B), NEW b \in B, m[b + 4] = Free,
         NEW s \in Nat, s + Header <= m[b + 2],
         NEW new, new = b + Header + s, NEW n, n = Cut(m, b, s)
  PROVE  Merged(n, B \cup {new})
<1>1. n[new + 4] = Free /\ n[b + 4] = Used
  BY CutWrites
<1>2. /\ Tiled(n, B \cup {new})
      /\ EndIn(n, b) = new /\ EndIn(n, new) = EndIn(m, b)
      /\ new \notin B
      /\ \A c \in B \ {b} : EndIn(n, c) = EndIn(m, c) /\ n[c + 4] = m[c + 4]
  BY CutTiles
<1>3. \A c \in B : EndIn(m, c) # HeapEnd => EndIn(m, c) \in B
  BY BlockFacts
<1>4. EndIn(m, b) # b
  BY BlockFacts
<1>5. ASSUME NEW c \in B \cup {new}
      PROVE  Alone(n, c)
  <2>1. CASE c = new
    <3>1. Alone(m, b)
      BY DEF Merged
    <3>2. EndIn(m, b) # HeapEnd => n[EndIn(m, b) + 4] = m[EndIn(m, b) + 4]
      BY <1>2, <1>3, <1>4
    <3>3. QED
      BY <1>2, <2>1, <3>1, <3>2 DEF Alone
  <2>2. CASE c = b
    BY <1>1, <2>2 DEF Alone
  <2>3. CASE c \in B \ {b}
    <3>1. Alone(m, c) /\ EndIn(n, c) = EndIn(m, c) /\ n[c + 4] = m[c + 4]
      BY <1>2, <2>3 DEF Merged
    <3>2. CASE EndIn(m, c) = b
      BY <1>1, <3>1, <3>2 DEF Alone
    <3>3. CASE EndIn(m, c) # b
      BY <1>2, <1>3, <2>3, <3>1, <3>3 DEF Alone
    <3>4. QED
      BY <3>2, <3>3
  <2>4. QED
    BY <2>1, <2>2, <2>3
<1>6. QED
  BY <1>5 DEF Merged

-----------------------------------------------------------------------------
(* The allocations in use and the freed ones, in each operation. *)

(* The words of an allocation in use are in its block. *)
LEMMA LiveFacts ==
  ASSUME NEW m, NEW B, Tiled(m, B), NEW L, LiveIn(m, B, L), NEW l \in L
  PROVE  /\ l.at \in Nat /\ l.len \in Nat \ {0} /\ l.at - Header \in B
         /\ l.at >= Header + Base
         /\ m[l.at - Header + 4] = Used /\ l.len <= m[l.at - Header + 2]
         /\ l.at + l.len <= EndIn(m, l.at - Header)
         /\ EndIn(m, l.at - Header) <= HeapEnd
<1>1. l.at \in Nat /\ l.len \in Nat \ {0} /\ l.at - Header \in B
  BY DEF LiveIn
<1>2. l.at - Header + 4 = l.at - 1 /\ l.at - Header + 2 = l.at - 3
  BY <1>1
<1>3. m[l.at - Header + 4] = Used /\ l.len <= m[l.at - Header + 2]
  BY <1>2 DEF LiveIn
<1>4. m[l.at - Header + 2] \in Nat /\ Base <= l.at - Header /\ EndIn(m, l.at - Header) <= HeapEnd
  BY <1>1 DEF Tiled, Header_OK
<1>5. QED
  BY <1>1, <1>3, <1>4, HeapAssumption DEF EndIn

(* The words of a freed allocation's header are in a free block. *)
LEMMA StaleFacts ==
  ASSUME NEW m, NEW B, Tiled(m, B), NEW p \in Nat, StaleIn(m, B, p)
  PROVE  /\ p >= Header + Base /\ p <= HeapEnd
         /\ p - 1 \in Address /\ p - Header \in Address
         /\ Block(p) = p - Header /\ FlagAt(Block(p)) = p - 1
<1>1. PICK b \in B : (p - Header = b \/ b + Header <= p - Header) /\ p <= EndIn(m, b)
  BY DEF StaleIn
<1>2. b \in Nat /\ Base <= b /\ EndIn(m, b) <= HeapEnd /\ EndIn(m, b) \in Nat
  BY BlockFacts DEF Tiled, Header_OK
<1>3. p >= Header + Base /\ p <= HeapEnd
  BY <1>1, <1>2, HeapAssumption
<1>4. p - Header \in Nat /\ p - Header <= HeapEnd
  BY <1>3, HeapAssumption
<1>5. Block(p) = p - Header
  BY <1>3, HeapAssumption DEF Block, Minus
<1>6. FlagAt(p - Header) = p - Header + 4 /\ p - Header + 4 \in Address /\ p - Header \in Address
  BY <1>4, FieldsAt
<1>7. p - Header + 4 = p - 1
  OBVIOUS
<1>8. QED
  BY <1>3, <1>5, <1>6, <1>7

(* The flag word of a freed allocation is that of a block, or no header. *)
LEMMA StaleFlag ==
  ASSUME NEW m, NEW B, Tiled(m, B), NEW p \in Nat,
         NEW b \in B, m[b + 4] = Free,
         p - Header = b \/ b + Header <= p - Header, p <= EndIn(m, b)
  PROVE  /\ p - Header = b => p - 1 = b + 4
         /\ p - Header # b =>
              /\ \A c \in B : p - 1 < c \/ c + Header <= p - 1
              /\ b + Header <= p - 1 /\ p - 1 < EndIn(m, b)
<1>1. /\ \A c \in B : c \in Nat /\ EndIn(m, c) \in Nat /\ c + Header <= EndIn(m, c)
      /\ \A c, d \in B : c # d => EndIn(m, c) <= d \/ EndIn(m, d) <= c
  BY BlockFacts, BlocksApart
<1>2. p - Header = b => p - 1 = b + 4
  BY <1>1
<1>3. ASSUME p - Header # b
      PROVE  b + Header <= p - 1 /\ p - 1 < EndIn(m, b)
  BY <1>1, <1>3
<1>4. ASSUME p - Header # b, NEW c \in B
      PROVE  p - 1 < c \/ c + Header <= p - 1
  <2>1. c = b \/ EndIn(m, c) <= b \/ EndIn(m, b) <= c
    BY <1>1
  <2>2. b + Header <= p - 1 /\ p - 1 < EndIn(m, b)
    BY <1>3, <1>4
  <2>3. QED
    BY <1>1, <2>1, <2>2
<1>5. QED
  BY <1>2, <1>3, <1>4

(* What a step of kfree keeps of the allocations in use: k marks the block, *)
(* n is what the merging makes of it.                                       *)
LEMMA FreeLive ==
  ASSUME NEW m, NEW B, Tiled(m, B), NEW L, LiveIn(m, B, L), NEW l \in L,
         NEW k, NEW n, NEW C,
         Marks(m, B, l.at - Header, Free, k), Keeps(k, B, n, C)
  PROVE  LiveIn(n, C, L \ {l})
<1>1. ASSUME NEW j \in L \ {l}
      PROVE  /\ j.at \in Nat /\ j.len \in Nat \ {0}
             /\ j.at - Header \in C /\ n[j.at - 1] = Used /\ j.len <= n[j.at - 3]
  <2> DEFINE b == l.at - Header
             c == j.at - Header
  <2>1. /\ j.at \in Nat /\ j.len \in Nat \ {0} /\ c \in B /\ b \in B
        /\ m[c + 4] = Used /\ j.len <= m[c + 2]
    BY LiveFacts
  <2>2. l.at \in Nat /\ j.at # l.at
    BY DEF LiveIn
  <2>3. b # c /\ c + 4 = j.at - 1 /\ c + 2 = j.at - 3
    BY <2>1, <2>2
  <2> HIDE DEF b, c
  <2>4. k[c + 4] = Used /\ EndIn(k, c) = EndIn(m, c) /\ Tiled(k, B)
    BY <2>1, <2>3 DEF Marks, b
  <2>5. c \in C /\ n[c + 2] = k[c + 2] /\ n[c + 4] = k[c + 4]
    BY <2>1, <2>4 DEF Keeps
  <2>6. k[c + 2] \in Nat /\ m[c + 2] \in Nat /\ c \in Nat
    BY <2>1, <2>4 DEF Tiled, Header_OK
  <2>7. k[c + 2] = m[c + 2]
    BY <2>4, <2>6 DEF EndIn
  <2>8. n[j.at - 1] = Used /\ j.len <= n[j.at - 3]
    BY <2>1, <2>3, <2>4, <2>5, <2>7
  <2>9. QED
    BY <2>1, <2>5, <2>8 DEF c
<1>2. \A j, i \in L \ {l} : j.at = i.at => j = i
  BY DEF LiveIn
<1>3. QED
  BY <1>1, <1>2 DEF LiveIn

(* What was freed before, and the address that is freed now. *)
LEMMA FreeStale ==
  ASSUME NEW m, NEW B, Tiled(m, B), NEW F, FreedIn(m, B, F),
         NEW p \in Nat, p - Header \in B, m[p - 1] = Used,
         NEW k, NEW n, NEW C,
         Marks(m, B, p - Header, Free, k), Keeps(k, B, n, C)
  PROVE  FreedIn(n, C, F \cup {p})
<1> DEFINE b == p - Header
<1>1. b + 4 = p - 1 /\ b \in B /\ b \in Nat /\ b + Header = p
  BY BlockFacts
<1>2. Tiled(k, B) /\ Marks(m, B, b, Free, k)
  BY DEF Marks
<1> HIDE DEF b
<1>3. \A c \in B : k[c + 4] = Free => Covered(k, n, C, c) /\ n[c + 4] = Free
  BY DEF Keeps
<1>4. ASSUME NEW q \in F
      PROVE  q \in Nat /\ StaleIn(n, C, q) /\ n[q - 1] = Free
  <2>1. q \in Nat /\ StaleIn(m, B, q) /\ m[q - 1] = Free
    BY <1>4 DEF FreedIn
  <2>2. PICK e \in B : /\ m[e + 4] = Free
                       /\ q - Header = e \/ e + Header <= q - Header
                       /\ q <= EndIn(m, e)
    BY <2>1 DEF StaleIn
  <2>3. e # b /\ k[e + 4] = Free /\ EndIn(k, e) = EndIn(m, e)
    BY <1>1, <1>2, <2>2 DEF Marks
  <2>4. PICK d \in C : /\ n[d + 4] = Free
                       /\ d = e \/ d + Header <= e
                       /\ EndIn(k, e) <= EndIn(n, d)
    BY <1>3, <2>3 DEF Covered
  <2>5. /\ e \in Nat /\ d \in Nat /\ EndIn(m, e) \in Nat /\ EndIn(n, d) \in Nat
    <3>1. Tiled(n, C) /\ Tiled(m, B)
      BY DEF Keeps
    <3>2. QED
      BY <3>1, BlockFacts
  <2>6. StaleIn(n, C, q)
    <3>1. q - Header = d \/ d + Header <= q - Header
      BY <2>1, <2>2, <2>4, <2>5
    <3>2. q <= EndIn(n, d)
      BY <2>1, <2>2, <2>3, <2>4, <2>5
    <3>3. QED
      BY <2>4, <3>1, <3>2 DEF StaleIn
  <2>7. /\ q - Header = e => q - 1 = e + 4
        /\ q - Header # e => \A c \in B : q - 1 < c \/ c + Header <= q - 1
    BY <2>1, <2>2, StaleFlag
  <2>8. n[q - 1] = Free
    <3>1. CASE q - Header = e
      BY <1>3, <2>3, <2>7, <3>1
    <3>2. CASE q - Header # e
      <4>1. q - 1 \in Address
        BY <2>1, StaleFacts
      <4>2. n[q - 1] = k[q - 1]
        BY <2>7, <3>2, <4>1 DEF Keeps
      <4>3. q - 1 # b + 4
        BY <1>1, <2>1, <2>7, <3>2
      <4>4. QED
        BY <1>2, <2>1, <4>1, <4>2, <4>3 DEF Marks
    <3>3. QED
      BY <3>1, <3>2
  <2>9. QED
    BY <2>1, <2>6, <2>8
<1>5. StaleIn(n, C, p) /\ n[p - 1] = Free
  <2>1. k[b + 4] = Free
    BY <1>2 DEF Marks
  <2>2. PICK d \in C : /\ n[d + 4] = Free
                       /\ d = b \/ d + Header <= b
                       /\ EndIn(k, b) <= EndIn(n, d)
    BY <1>1, <1>3, <2>1 DEF Covered
  <2>3. p <= EndIn(k, b) /\ EndIn(k, b) \in Nat
    BY <1>1, <1>2, BlockFacts
  <2>4. EndIn(n, d) \in Nat
    <3>1. Tiled(n, C)
      BY DEF Keeps
    <3>2. QED
      BY <3>1, BlockFacts
  <2>5. p <= EndIn(n, d)
    BY <2>2, <2>3, <2>4
  <2>6. p - Header = d \/ d + Header <= p - Header
    BY <2>2 DEF b
  <2>7. StaleIn(n, C, p)
    BY <2>2, <2>5, <2>6 DEF StaleIn
  <2>8. n[p - 1] = Free
    BY <1>1, <1>3, <2>1
  <2>9. QED
    BY <2>7, <2>8
<1>6. QED
  BY <1>4, <1>5 DEF FreedIn

(* The words of an allocation in use are in no header, and in no free block. *)
LEMMA PayloadWords ==
  ASSUME NEW m, NEW B, Tiled(m, B), NEW L, LiveIn(m, B, L), NEW l \in L,
         NEW x \in Nat, l.at <= x, x < l.at + l.len
  PROVE  /\ x \in Address
         /\ \A c \in B : x < c \/ c + Header <= x
         /\ \A c \in B : m[c + 4] = Free => x < c \/ EndIn(m, c) <= x
<1> DEFINE b == l.at - Header
<1>1. /\ l.at \in Nat /\ l.len \in Nat /\ b \in B /\ m[b + 4] = Used
      /\ l.at + l.len <= EndIn(m, b) /\ EndIn(m, b) <= HeapEnd
  BY LiveFacts
<1>2. b \in Nat /\ b + Header = l.at /\ EndIn(m, b) \in Nat
  BY <1>1, BlockFacts
<1> HIDE DEF b
<1>3. b <= x /\ b + Header <= x /\ x < EndIn(m, b)
  BY <1>1, <1>2
<1>4. x \in Address
  BY <1>1, <1>2, <1>3, HeapAssumption DEF Address
<1>5. ASSUME NEW c \in B
      PROVE  /\ x < c \/ c + Header <= x
             /\ c # b => x < c \/ EndIn(m, c) <= x
  <2>1. c \in Nat /\ EndIn(m, c) \in Nat /\ c + Header <= EndIn(m, c)
    BY BlockFacts
  <2>2. c # b => EndIn(m, b) <= c \/ EndIn(m, c) <= b
    BY <1>1, BlocksApart
  <2>3. QED
    BY <1>2, <1>3, <2>1, <2>2
<1>6. \A c \in B : m[c + 4] = Free => c # b
  BY <1>1
<1>7. QED
  BY <1>4, <1>5, <1>6

(* A free block is given out, as a whole or its first part. *)
GivesOut(m, B, b, s, n, C) ==
  /\ B \subseteq C
  /\ n[b + 4] = Used /\ s <= n[b + 2]
  /\ \A c \in B \ {b} : n[c + 2] = m[c + 2] /\ n[c + 4] = m[c + 4]

LEMMA UseLive ==
  ASSUME NEW m, NEW B, Tiled(m, B), NEW L, LiveIn(m, B, L),
         NEW b \in B, m[b + 4] = Free, NEW s \in Nat \ {0},
         NEW n, NEW C, GivesOut(m, B, b, s, n, C)
  PROVE  LiveIn(n, C, L \cup {[at |-> b + Header, len |-> s]})
<1> DEFINE r == [at |-> b + Header, len |-> s]
<1>1. b \in Nat
  BY BlockFacts
<1>2. ASSUME NEW j \in L
      PROVE  /\ j.at \in Nat /\ j.len \in Nat \ {0}
             /\ j.at - Header \in C /\ n[j.at - 1] = Used /\ j.len <= n[j.at - 3]
             /\ j.at # r.at
  <2> DEFINE c == j.at - Header
  <2>1. /\ j.at \in Nat /\ j.len \in Nat \ {0} /\ c \in B
        /\ m[c + 4] = Used /\ j.len <= m[c + 2]
    BY LiveFacts
  <2>2. c + 4 = j.at - 1 /\ c + 2 = j.at - 3
    BY <2>1
  <2>3. c # b => j.at # b + Header
    BY <1>1, <2>1
  <2> HIDE DEF c
  <2>4. c # b
    BY <2>1
  <2>5. c \in C /\ n[c + 2] = m[c + 2] /\ n[c + 4] = m[c + 4]
    BY <2>1, <2>4 DEF GivesOut
  <2>6. n[j.at - 1] = Used /\ j.len <= n[j.at - 3]
    BY <2>1, <2>2, <2>5
  <2>7. QED
    BY <2>1, <2>3, <2>4, <2>5, <2>6 DEF c
<1>3. /\ r.at \in Nat /\ r.len \in Nat \ {0}
      /\ r.at - Header \in C /\ n[r.at - 1] = Used /\ r.len <= n[r.at - 3]
  <2>1. r.at - Header = b /\ r.at - 1 = b + 4 /\ r.at - 3 = b + 2 /\ r.at \in Nat
    BY <1>1
  <2>2. r.len = s
    OBVIOUS
  <2> HIDE DEF r
  <2>3. QED
    BY <2>1, <2>2 DEF GivesOut
<1>4. \A j, i \in L : j.at = i.at => j = i
  BY DEF LiveIn
<1> HIDE DEF r
<1>5. \A j, i \in L \cup {r} : j.at = i.at => j = i
  BY <1>2, <1>4
<1>6. LiveIn(n, C, L \cup {r})
  BY <1>2, <1>3, <1>5 DEF LiveIn
<1>7. QED
  BY <1>6 DEF r

(* Nothing is known any more of what was freed in a block that is used.      *)
LEMMA UseStale ==
  ASSUME NEW m, NEW B, Tiled(m, B), NEW F, FreedIn(m, B, F),
         NEW b \in B, NEW n, Marks(m, B, b, Used, n)
  PROVE  FreedIn(n, B, {q \in F : Block(q) \notin b..(EndIn(m, b) - 1)})
<1> SUFFICES ASSUME NEW q \in F, Block(q) \notin b..(EndIn(m, b) - 1)
             PROVE  q \in Nat /\ StaleIn(n, B, q) /\ n[q - 1] = Free
  BY DEF FreedIn
<1>1. q \in Nat /\ StaleIn(m, B, q) /\ m[q - 1] = Free
  BY DEF FreedIn
<1>2. Block(q) = q - Header /\ q - 1 \in Address /\ q - Header \in Nat
  <2>1. q >= Header + Base
    BY <1>1, StaleFacts
  <2>2. q - Header \in Nat
    BY <1>1, <2>1, HeapAssumption
  <2>3. QED
    BY <1>1, <2>2, StaleFacts
<1>3. PICK e \in B : /\ m[e + 4] = Free
                     /\ q - Header = e \/ e + Header <= q - Header
                     /\ q <= EndIn(m, e)
  BY <1>1 DEF StaleIn
<1>4. /\ b \in Nat /\ e \in Nat /\ EndIn(m, b) \in Nat /\ EndIn(m, e) \in Nat
      /\ b + Header <= EndIn(m, b)
  BY BlockFacts
<1>5. e # b
  <2> SUFFICES ASSUME e = b
               PROVE  FALSE
    OBVIOUS
  <2>1. b <= q - Header /\ q - Header < EndIn(m, b)
    BY <1>1, <1>2, <1>3, <1>4
  <2>2. q - Header \in b..(EndIn(m, b) - 1)
    BY <1>2, <1>4, <2>1
  <2>3. QED
    BY <1>2, <2>2
<1>6. n[e + 4] = Free /\ EndIn(n, e) = EndIn(m, e)
  BY <1>3, <1>5 DEF Marks
<1>7. StaleIn(n, B, q)
  BY <1>3, <1>6 DEF StaleIn
<1>8. q - 1 # b + 4
  <2>1. EndIn(m, b) <= e \/ EndIn(m, e) <= b
    BY <1>5, BlocksApart
  <2>2. QED
    BY <1>1, <1>3, <1>4, <2>1
<1>9. n[q - 1] = m[q - 1]
  BY <1>2, <1>8 DEF Marks
<1>10. QED
  BY <1>1, <1>7, <1>9

(* What was freed in the second part of a block that is cut is still there.  *)
LEMMA CutStale ==
  ASSUME NEW m \in Memories, NEW B, Tiled(m, B), NEW F, FreedIn(m, B, F),
         NEW b \in B, NEW s \in Nat, s + Header <= m[b + 2],
         NEW new, new = b + Header + s, NEW n, n = Cut(m, b, s)
  PROVE  FreedIn(n, B \cup {new},
                 {q \in F : Block(q) \notin (b..(new + Header - 1)) \ {new}})
<1> SUFFICES ASSUME NEW q \in F, Block(q) \notin (b..(new + Header - 1)) \ {new}
             PROVE  q \in Nat /\ StaleIn(n, B \cup {new}, q) /\ n[q - 1] = Free
  BY DEF FreedIn
<1>1. q \in Nat /\ StaleIn(m, B, q) /\ m[q - 1] = Free
  BY DEF FreedIn
<1>2. Block(q) = q - Header /\ q - 1 \in Address /\ q - Header \in Nat
  <2>1. q >= Header + Base
    BY <1>1, StaleFacts
  <2>2. q - Header \in Nat
    BY <1>1, <2>1, HeapAssumption
  <2>3. QED
    BY <1>1, <2>2, StaleFacts
<1>3. PICK e \in B : /\ m[e + 4] = Free
                     /\ q - Header = e \/ e + Header <= q - Header
                     /\ q <= EndIn(m, e)
  BY <1>1 DEF StaleIn
<1>4. /\ n[new + 4] = Free /\ n[b + 4] = Used
      /\ new \in Nat /\ b + Header <= new /\ new + Header <= EndIn(m, b)
      /\ \A x \in Address :
           /\ x \notin {b + 1, b + 2, b + 4, new, new + 1, new + 2, new + 3, new + 4}
           /\ x = m[b + 1] => x = Null
           => n[x] = m[x]
  BY CutWrites
<1>5. /\ Tiled(n, B \cup {new}) /\ new \notin B
      /\ EndIn(n, new) = EndIn(m, b)
      /\ \A c \in B \ {b} : EndIn(n, c) = EndIn(m, c) /\ n[c + 4] = m[c + 4]
  BY CutTiles
<1>6. \A c \in B : /\ c \in Nat /\ c > Null /\ EndIn(m, c) \in Nat
                   /\ c + Header <= EndIn(m, c)
  BY BlockFacts
<1>7. q - Header \notin (b..(new + Header - 1)) \ {new}
  BY <1>2
<1>8. ~(b <= q - Header /\ q - Header < new + Header /\ q - Header # new)
  <2>1. b <= q - Header /\ q - Header < new + Header /\ q - Header # new
          => q - Header \in (b..(new + Header - 1)) \ {new}
    BY <1>2, <1>4, <1>6
  <2>2. QED
    BY <1>7, <2>1
<1>9. PICK d \in B \cup {new} :
         /\ n[d + 4] = Free
         /\ q - Header = d \/ d + Header <= q - Header
         /\ q <= EndIn(n, d)
         /\ d # new => d = e /\ d # b
         /\ d = new => e = b
  <2>1. CASE e = b
    <3>1. q - Header = new \/ new + Header <= q - Header
      BY <1>1, <1>2, <1>3, <1>4, <1>6, <1>8, <2>1
    <3>2. new \in B \cup {new} /\ n[new + 4] = Free /\ q <= EndIn(n, new)
      BY <1>3, <1>4, <1>5, <2>1
    <3>3. QED
      BY <2>1, <3>1, <3>2
  <2>2. CASE e # b
    <3>1. /\ e \in B \cup {new} /\ e # new /\ n[e + 4] = Free
          /\ q <= EndIn(n, e)
      BY <1>3, <1>5, <2>2
    <3>2. QED
      BY <1>3, <2>2, <3>1
  <2>3. QED
    BY <2>1, <2>2
<1>10. StaleIn(n, B \cup {new}, q)
  BY <1>9 DEF StaleIn
<1>11. n[q - 1] = Free
  <2>1. CASE q - Header = d
    <3>1. q - 1 = d + 4
      BY <1>1, <2>1
    <3>2. QED
      BY <1>9, <3>1
  <2>2. CASE q - Header # d
    <3>1. d + Header <= q - Header
      BY <1>9, <2>2
    <3>2. /\ \A c \in B : q - 1 < c \/ c + Header <= q - 1
          /\ e + Header <= q - 1 /\ q - 1 < EndIn(m, e)
      <4>1. q - Header # e
        BY <1>2, <1>4, <1>6, <1>9, <2>2, <3>1
      <4>2. QED
        BY <1>1, <1>3, <4>1, StaleFlag
    <3>3. q - 1 # m[b + 1] \/ q - 1 = Null
      <4>1. m[b + 1] = Null \/ m[b + 1] \in B
        BY DEF Tiled, Forward
      <4>2. QED
        BY <1>1, <1>6, <3>2, <4>1
    <3>4. q - 1 \notin {b + 1, b + 2, b + 4}
      BY <1>1, <1>6, <3>2
    <3>5. q - 1 \notin {new, new + 1, new + 2, new + 3, new + 4}
      <4>1. CASE d = new
        BY <1>1, <1>4, <3>1, <4>1
      <4>2. CASE d # new
        <5>1. EndIn(m, b) <= e \/ EndIn(m, e) <= b
          BY <1>9, <4>2, BlocksApart
        <5>2. QED
          BY <1>1, <1>4, <1>6, <3>2, <5>1
      <4>3. QED
        BY <4>1, <4>2
    <3>6. n[q - 1] = m[q - 1]
      BY <1>2, <1>4, <3>3, <3>4, <3>5
    <3>7. QED
      BY <1>1, <3>6
  <2>3. QED
    BY <2>1, <2>2
<1>12. QED
  BY <1>1, <1>10, <1>11

(* Clearing an allocation in use changes no header, and nothing that is free. *)
LEMMA ClearKeeps ==
  ASSUME NEW m \in Memories, NEW B, Tiled(m, B), Merged(m, B),
         NEW L, LiveIn(m, B, L), NEW F, FreedIn(m, B, F), NEW l \in L,
         NEW n, n = [a \in Address |->
                       IF l.at <= a /\ a < l.at + l.len THEN 0 ELSE m[a]]
  PROVE  /\ n \in Memories /\ Tiled(n, B) /\ Merged(n, B)
         /\ LiveIn(n, B, L) /\ FreedIn(n, B, F)
<1>1. n \in Memories
  BY HeapAssumption DEF Memories, Words, Address
<1>2. \A a \in Address : n[a] # m[a] => l.at <= a /\ a < l.at + l.len
  OBVIOUS
<1>3. \A c \in B : /\ c \in Address /\ c + 1 \in Address /\ c + 2 \in Address
                   /\ c + 3 \in Address /\ c + 4 \in Address
                   /\ c \in Nat /\ EndIn(m, c) \in Nat
  BY HeaderInside, BlockFacts
<1>4. Address \subseteq Nat
  BY DEF Address
<1>5. ASSUME NEW c \in B, NEW k \in 0..4
      PROVE  n[c + k] = m[c + k]
  <2> SUFFICES ASSUME l.at <= c + k, c + k < l.at + l.len
               PROVE  FALSE
    <3>1. k = 0 \/ k = 1 \/ k = 2 \/ k = 3 \/ k = 4
      OBVIOUS
    <3>2. c + 0 = c
      BY <1>3
    <3>3. c + k \in Address
      BY <1>3, <3>1, <3>2
    <3>4. QED
      BY <1>2, <3>3
  <2>1. c + k \in Nat
    BY <1>3
  <2>2. c + k < c \/ c + Header <= c + k
    BY <2>1, PayloadWords
  <2>3. QED
    BY <1>3, <2>2
<1>6. \A c \in B : /\ n[c] = m[c] /\ n[c + 1] = m[c + 1] /\ n[c + 2] = m[c + 2]
                   /\ n[c + 3] = m[c + 3] /\ n[c + 4] = m[c + 4]
  <2> TAKE c \in B
  <2>1. /\ n[c + 0] = m[c + 0] /\ n[c + 1] = m[c + 1] /\ n[c + 2] = m[c + 2]
        /\ n[c + 3] = m[c + 3] /\ n[c + 4] = m[c + 4]
    <3>1. 0 \in 0..4 /\ 1 \in 0..4 /\ 2 \in 0..4 /\ 3 \in 0..4 /\ 4 \in 0..4
      OBVIOUS
    <3>2. \A k \in 0..4 : n[c + k] = m[c + k]
      BY <1>5
    <3>3. QED
      BY <3>1, <3>2, Zenon
  <2>2. c + 0 = c
    BY <1>3
  <2>3. QED
    BY <2>1, <2>2
<1>7. Linked(m, n, B)
  BY <1>6 DEF Linked, Tiled, Header_OK
<1>8. Tiled(n, B)
  BY <1>7, SameHeaders
<1>9. \A c \in B : EndIn(n, c) = EndIn(m, c)
  BY <1>7, SameHeaders
<1>10. Merged(n, B)
  <2> SUFFICES ASSUME NEW c \in B
               PROVE  Alone(n, c)
    BY DEF Merged
  <2>1. Alone(m, c)
    BY DEF Merged
  <2>2. EndIn(m, c) # HeapEnd => n[EndIn(m, c) + 4] = m[EndIn(m, c) + 4]
    BY <1>6, BlockFacts
  <2>3. QED
    BY <1>6, <1>9, <2>1, <2>2 DEF Alone
<1>11. LiveIn(n, B, L)
  <2>1. ASSUME NEW j \in L
        PROVE  /\ j.at \in Nat /\ j.len \in Nat \ {0} /\ j.at - Header \in B
               /\ n[j.at - 1] = Used /\ j.len <= n[j.at - 3]
    <3>1. /\ j.at \in Nat /\ j.len \in Nat \ {0} /\ j.at - Header \in B
          /\ m[j.at - Header + 4] = Used /\ j.len <= m[j.at - Header + 2]
      BY LiveFacts
    <3>2. j.at - Header + 4 = j.at - 1 /\ j.at - Header + 2 = j.at - 3
      BY <3>1
    <3>3. n[j.at - 1] = Used /\ j.len <= n[j.at - 3]
      BY <1>6, <3>1, <3>2
    <3>4. QED
      BY <3>1, <3>3
  <2>2. \A j, i \in L : j.at = i.at => j = i
    BY DEF LiveIn
  <2>3. QED
    BY <2>1, <2>2 DEF LiveIn
<1>12. FreedIn(n, B, F)
  <2> SUFFICES ASSUME NEW q \in F
               PROVE  q \in Nat /\ StaleIn(n, B, q) /\ n[q - 1] = Free
    BY DEF FreedIn
  <2>1. q \in Nat /\ StaleIn(m, B, q) /\ m[q - 1] = Free
    BY DEF FreedIn
  <2>2. PICK e \in B : /\ m[e + 4] = Free
                       /\ q - Header = e \/ e + Header <= q - Header
                       /\ q <= EndIn(m, e)
    BY <2>1 DEF StaleIn
  <2>3. StaleIn(n, B, q)
    BY <1>6, <1>9, <2>2 DEF StaleIn
  <2>4. q - 1 \in Address
    BY <2>1, StaleFacts
  <2>5. e <= q - 1 /\ q - 1 < EndIn(m, e)
    BY <1>3, <2>1, <2>2
  <2>6. ~(l.at <= q - 1 /\ q - 1 < l.at + l.len)
    <3>1. q - 1 \in Nat
      BY <1>4, <2>4
    <3>2. ASSUME l.at <= q - 1, q - 1 < l.at + l.len
          PROVE  q - 1 < e \/ EndIn(m, e) <= q - 1
      BY <2>2, <3>1, <3>2, PayloadWords
    <3>3. QED
      BY <1>3, <2>5, <3>1, <3>2
  <2>7. n[q - 1] = m[q - 1]
    BY <1>2, <2>4, <2>6
  <2>8. QED
    BY <2>1, <2>3, <2>7
<1>13. QED
  BY <1>1, <1>8, <1>10, <1>11, <1>12

-----------------------------------------------------------------------------
(* The steps. *)

(* kfree finds the block of an allocation in use, and that it is used. *)
LEMMA FreedBlock ==
  ASSUME TypeOK, Kept, NEW l \in live
  PROVE  /\ l.at \in Nat /\ l.at - Header \in blocks /\ mem[l.at - 1] = Used
         /\ mem[l.at - Header + 4] = Used
         /\ FreeBlock(l.at) =>
              /\ mem' = Coalesced(mem, l.at - Header)
              /\ blocks' = blocks \ Absorbed(mem, l.at - Header)
<1> DEFINE b == l.at - Header
<1>1. /\ l.at \in Nat /\ l.at >= Header + Base /\ b \in blocks /\ mem[b + 4] = Used
      /\ mem[l.at - 1] = Used
  BY LiveFacts DEF Kept, LiveIn
<1>2. Block(l.at) = b
  BY <1>1, HeapAssumption DEF Block, Minus
<1>3. b \in Nat /\ b <= HeapEnd /\ mem[b + 3] = Magic
  BY <1>1, HeaderInside DEF Kept, Tiled, Header_OK
<1> HIDE DEF b
<1>4. Valid(mem, b) /\ ~IsFree(mem, b)
  <2>1. MagicAt(b) = b + 3 /\ FlagAt(b) = b + 4
    BY <1>3, FieldsAt
  <2>2. QED
    BY <1>1, <1>3, <2>1 DEF Valid, IsFree
<1>5. FreeBlock(l.at) => /\ mem' = Coalesced(mem, b)
                         /\ blocks' = blocks \ Absorbed(mem, b)
  BY <1>2, <1>4 DEF FreeBlock
<1>6. QED
  BY <1>1, <1>5 DEF b

LEMMA ReleaseStep ==
  ASSUME TypeOK, Kept, NEW l \in live, Release(l)
  PROVE  TypeOK' /\ Kept'
<1> DEFINE b == l.at - Header
           k == [mem EXCEPT ![b + 4] = Free]
           n == Coalesced(mem, b)
           C == blocks \ Absorbed(mem, b)
<1>1. /\ l.at \in Nat /\ b \in blocks /\ mem[l.at - 1] = Used /\ mem[b + 4] = Used
      /\ mem' = n /\ blocks' = C
  BY FreedBlock DEF Release
<1> HIDE DEF b
<1>2. mem \in Memories /\ Tiled(mem, blocks) /\ Merged(mem, blocks)
  BY DEF TypeOK, Kept, Memories, Words
<1>3. /\ Marks(mem, blocks, b, Free, k)
      /\ Keeps(k, blocks, n, C)
      /\ Merged(n, C)
  BY <1>1, <1>2, CoalesceFacts
<1> HIDE DEF k, n, C
<1>4. LiveIn(n, C, live \ {l})
  BY <1>2, <1>3, FreeLive DEF Kept, b
<1>5. FreedIn(n, C, freed \cup {l.at})
  BY <1>1, <1>2, <1>3, FreeStale DEF Kept, b
<1>6. n \in Memories /\ Tiled(n, C) /\ C \subseteq blocks
  BY <1>3 DEF Keeps
<1>7. /\ live' = live \ {l} /\ freed' = freed \cup {l.at}
      /\ UNCHANGED <<pc, size, esi, narrow, calls>>
  BY DEF Release
<1>8. TypeOK'
  BY <1>1, <1>6, <1>7 DEF TypeOK, Memories, Words
<1>9. Kept'
  BY <1>1, <1>3, <1>4, <1>5, <1>6, <1>7 DEF Kept
<1>10. QED
  BY <1>8, <1>9

(* The double free: the flag that kfree reads is still that of the free. *)
LEMMA ReleaseAgainStep ==
  ASSUME TypeOK, Kept, NEW p \in freed, ReleaseAgain(p)
  PROVE  UNCHANGED vars
<1>1. p \in Nat /\ StaleIn(mem, blocks, p) /\ mem[p - 1] = Free
  BY DEF Kept, FreedIn
<1>2. FlagAt(Block(p)) = p - 1
  BY <1>1, StaleFacts DEF Kept
<1>3. IsFree(mem, Block(p))
  BY <1>1, <1>2 DEF IsFree
<1>4. QED
  BY <1>3 DEF ReleaseAgain, FreeBlock, vars

LEMMA ClearStep ==
  ASSUME TypeOK, Kept, NEW l \in live, Clear(l)
  PROVE  TypeOK' /\ Kept'
<1>1. mem' = [a \in Address |->
               IF l.at <= a /\ a < l.at + l.len THEN 0 ELSE mem[a]]
  BY DEF Clear
<1>2. mem \in Memories /\ Tiled(mem, blocks) /\ Merged(mem, blocks)
      /\ LiveIn(mem, blocks, live) /\ FreedIn(mem, blocks, freed)
  BY DEF TypeOK, Kept, Memories, Words
<1>3. /\ mem' \in Memories /\ Tiled(mem', blocks) /\ Merged(mem', blocks)
      /\ LiveIn(mem', blocks, live) /\ FreedIn(mem', blocks, freed)
  BY <1>1, <1>2, ClearKeeps
<1>4. UNCHANGED <<pc, size, esi, live, freed, blocks, narrow, calls>>
  BY DEF Clear
<1>5. QED
  BY <1>3, <1>4 DEF TypeOK, Kept, Memories, Words

(* What kmalloc has found. *)
LEMMA FoundBlock ==
  ASSUME TypeOK, Kept, Searched(mem, blocks), Found
  PROVE  /\ esi \in blocks /\ esi \in Nat /\ esi <= HeapEnd /\ esi < HeapEnd
         /\ size \in Requests /\ size \in Nat \ {0}
         /\ mem[esi + 4] = Free /\ mem[esi + 2] \in Nat
         /\ size <= mem[esi + 2] /\ esi + Header + mem[esi + 2] <= HeapEnd
         /\ SizeAt(esi) = esi + 2 /\ FlagAt(esi) = esi + 4 /\ NextAt(esi) = esi + 1
         /\ Payload(esi) = esi + Header /\ Payload(esi) \in Address
<1>1. esi \in blocks /\ size \in Requests /\ Fits
  BY DEF Found, Searched
<1>2. /\ esi \in Nat /\ esi <= HeapEnd /\ mem[esi + 2] \in Nat
      /\ esi + Header + mem[esi + 2] <= HeapEnd
  BY <1>1, HeaderInside DEF Kept, Tiled, Header_OK, EndIn
<1>3. esi < HeapEnd
  BY <1>2, HeapAssumption
<1>4. /\ SizeAt(esi) = esi + 2 /\ FlagAt(esi) = esi + 4 /\ NextAt(esi) = esi + 1
      /\ Payload(esi) = esi + Header
  BY <1>2, <1>3, FieldsAt
<1>5. size \in Nat \ {0}
  BY <1>1, HeapAssumption
<1>6. mem[esi + 4] = Free /\ size <= mem[esi + 2]
  BY <1>1, <1>2, <1>4, <1>5 DEF Fits, IsFree
<1>7. esi + Header \in Address
  BY <1>2, HeapAssumption DEF Address
<1>8. QED
  BY <1>1, <1>2, <1>3, <1>4, <1>5, <1>6, <1>7

(* The allocation that kmalloc returns has the type of one. *)
LEMMA ReturnTyped ==
  ASSUME TypeOK, Kept, Searched(mem, blocks), Found, NEW taken,
         Return(Payload(esi), taken)
  PROVE  /\ live' \subseteq [at : Address, len : Requests]
         /\ freed' \subseteq Address
         /\ pc' = "idle" /\ size' = size /\ esi' = esi /\ calls' = calls
<1>1. Payload(esi) \in Address /\ size \in Requests
  BY FoundBlock
<1>2. QED
  BY <1>1 DEF Return, TypeOK

LEMMA UseWholeStep ==
  ASSUME TypeOK, Kept, Searched(mem, blocks), UseWhole
  PROVE  TypeOK' /\ Kept'
<1>1. /\ esi \in blocks /\ esi \in Nat /\ size \in Nat \ {0} /\ mem[esi + 4] = Free
      /\ mem[esi + 2] \in Nat /\ size <= mem[esi + 2]
      /\ FlagAt(esi) = esi + 4 /\ SizeAt(esi) = esi + 2 /\ Payload(esi) = esi + Header
  BY FoundBlock DEF UseWhole
<1>2. mem \in Memories /\ Tiled(mem, blocks) /\ Merged(mem, blocks)
      /\ LiveIn(mem, blocks, live) /\ FreedIn(mem, blocks, freed)
  BY DEF TypeOK, Kept, Memories, Words
<1>3. mem' = [mem EXCEPT ![esi + 4] = Used]
  BY <1>1 DEF UseWhole
<1>4. Marks(mem, blocks, esi, Used, mem')
  BY <1>1, <1>2, <1>3, Flagged
<1>5. Return(Payload(esi), esi..(EndIn(mem, esi) - 1))
  BY <1>1 DEF UseWhole, EndOf, EndIn
<1>6. /\ live' = live \cup {[at |-> esi + Header, len |-> size]}
      /\ freed' = {q \in freed : Block(q) \notin esi..(EndIn(mem, esi) - 1)}
  BY <1>1, <1>5 DEF Return
<1>7. UNCHANGED <<blocks, narrow>>
  BY DEF UseWhole
<1>8. mem' \in Memories /\ Tiled(mem', blocks)
  BY <1>4 DEF Marks
<1>9. Merged(mem', blocks)
  <2> SUFFICES ASSUME NEW c \in blocks
               PROVE  Alone(mem', c)
    BY DEF Merged
  <2>1. EndIn(mem', c) = EndIn(mem, c) /\ Alone(mem, c)
    BY <1>2, <1>4 DEF Marks, Merged
  <2>2. \A d \in blocks : mem'[d + 4] = Free => mem[d + 4] = Free
    BY <1>4 DEF Marks
  <2>3. EndIn(mem, c) # HeapEnd => EndIn(mem, c) \in blocks
    BY <1>2, BlockFacts
  <2>4. QED
    BY <2>1, <2>2, <2>3 DEF Alone
<1>10. GivesOut(mem, blocks, esi, size, mem', blocks)
  <2>1. mem'[esi + 4] = Used
    BY <1>4 DEF Marks
  <2>2. \A c \in blocks : mem'[c + 2] = mem[c + 2]
    <3> TAKE c \in blocks
    <3>1. EndIn(mem', c) = EndIn(mem, c)
      BY <1>4 DEF Marks
    <3>2. c \in Nat /\ mem[c + 2] \in Nat /\ mem'[c + 2] \in Nat
      BY <1>2, <1>8 DEF Tiled, Header_OK
    <3>3. QED
      BY <3>1, <3>2 DEF EndIn
  <2>3. \A c \in blocks \ {esi} : mem'[c + 4] = mem[c + 4]
    BY <1>4 DEF Marks
  <2>4. size <= mem'[esi + 2]
    BY <1>1, <2>2
  <2>5. QED
    BY <2>1, <2>2, <2>3, <2>4 DEF GivesOut
<1>11. LiveIn(mem', blocks, live')
  BY <1>1, <1>2, <1>6, <1>10, UseLive
<1>12. FreedIn(mem', blocks, freed')
  BY <1>1, <1>2, <1>4, <1>6, UseStale
<1>13. Found
  BY DEF UseWhole
<1>14. /\ live' \subseteq [at : Address, len : Requests] /\ freed' \subseteq Address
       /\ pc' = "idle" /\ size' = size /\ esi' = esi /\ calls' = calls
  BY <1>5, <1>13, ReturnTyped
<1>15. TypeOK'
  BY <1>7, <1>8, <1>14 DEF TypeOK, Memories, Words
<1>16. QED
  BY <1>7, <1>8, <1>9, <1>11, <1>12, <1>15 DEF Kept

(* Machine arithmetic stays among the addresses. *)
LEMMA MachineWords ==
  ASSUME NEW a \in Address, NEW b \in Address
  PROVE  Plus(a, b) \in Address /\ Minus(a, b) \in Address
BY HeapAssumption DEF Plus, Minus, Address

(* The types in any split, the narrow ones included. *)
LEMMA SplitTyped ==
  ASSUME TypeOK, Kept, Searched(mem, blocks), Split
  PROVE  TypeOK' /\ pc' = "idle"
<1> DEFINE new == Plus(Payload(esi), size)
           next == mem[NextAt(esi)]
           tail == [mem EXCEPT
              ![PrevAt(new)] = esi, ![NextAt(new)] = next,
              ![SizeAt(new)] = Remainder,
              ![MagicAt(new)] = Magic, ![FlagAt(new)] = Free,
              ![NextAt(esi)] = new, ![SizeAt(esi)] = size]
           linked == IF next = Null THEN tail
                     ELSE [tail EXCEPT ![PrevAt(next)] = new]
<1>1. /\ esi \in blocks /\ esi \in Nat /\ size \in Nat \ {0} /\ esi <= HeapEnd
      /\ mem[esi + 2] \in Nat /\ esi + Header + mem[esi + 2] <= HeapEnd
      /\ size <= mem[esi + 2]
      /\ SizeAt(esi) = esi + 2 /\ NextAt(esi) = esi + 1 /\ Payload(esi) \in Address
  BY FoundBlock DEF Split
<1>2. size \in Address /\ esi \in Address /\ mem[esi + 2] \in Address
      /\ Header \in Address /\ Free \in Address
  BY <1>1, HeapAssumption DEF Address
<1>3. Remainder \in Address
  BY <1>1, <1>2, MachineWords DEF Remainder
<1>4. new \in Address
  BY <1>1, <1>2, MachineWords
<1>5. next \in Address
  <2>1. Forward(mem, blocks, esi)
    BY <1>1 DEF Kept, Tiled
  <2>2. EndIn(mem, esi) \in Address
    BY <1>1, HeapAssumption DEF EndIn, Address
  <2>3. Null \in Address
    BY HeapAssumption DEF Address
  <2>4. QED
    BY <1>1, <2>1, <2>2, <2>3 DEF Forward
<1>6. /\ mem' = [linked EXCEPT ![FlagAt(esi)] = Used]
      /\ blocks' = blocks \cup {new}
      /\ Return(Payload(esi), (esi..(new + Header - 1)) \ {new})
      /\ narrow' = (narrow \/ NarrowFit)
  BY DEF Split
<1>7. mem \in [Address -> Words]
  BY DEF TypeOK, Words
<1>8. mem' \in [Address -> Words]
  <2>1. Address \subseteq Words /\ Magic \in Words /\ Used \in Words /\ Free \in Words
    BY <1>2, HeapAssumption DEF Words, Address
  <2> HIDE DEF new, next
  <2>2. tail \in [Address -> Words]
    BY <1>2, <1>3, <1>4, <1>5, <1>7, <2>1
  <2> HIDE DEF tail
  <2>3. linked \in [Address -> Words]
    BY <1>4, <2>1, <2>2
  <2> HIDE DEF linked
  <2>4. QED
    BY <1>6, <2>1, <2>3
<1> HIDE DEF new, next, tail, linked
<1>9. Found
  BY DEF Split
<1>10. /\ live' \subseteq [at : Address, len : Requests] /\ freed' \subseteq Address
       /\ pc' = "idle" /\ size' = size /\ esi' = esi /\ calls' = calls
  BY <1>6, <1>9, ReturnTyped
<1>11. narrow' \in BOOLEAN
  BY <1>6
<1>12. QED
  BY <1>4, <1>6, <1>8, <1>10, <1>11 DEF TypeOK, Words

(* A split that is not narrow cuts the block that was found. *)
LEMMA SplitIsCut ==
  ASSUME TypeOK, Kept, Searched(mem, blocks), Split, ~narrow'
  PROVE  /\ esi \in blocks /\ size \in Nat \ {0} /\ mem[esi + 4] = Free
         /\ size + Header <= mem[esi + 2] /\ esi \in Nat
         /\ mem' = Cut(mem, esi, size)
         /\ blocks' = blocks \cup {esi + Header + size}
         /\ live' = live \cup {[at |-> esi + Header, len |-> size]}
         /\ freed' = {q \in freed : Block(q) \notin
                       (esi..(esi + Header + size + Header - 1)) \ {esi + Header + size}}
<1> DEFINE new == esi + Header + size
           n == Cut(mem, esi, size)
<1>1. /\ esi \in blocks /\ esi \in Nat /\ size \in Nat \ {0} /\ mem[esi + 4] = Free
      /\ esi <= HeapEnd /\ mem[esi + 2] \in Nat
      /\ esi + Header + mem[esi + 2] <= HeapEnd
      /\ FlagAt(esi) = esi + 4 /\ SizeAt(esi) = esi + 2 /\ NextAt(esi) = esi + 1
      /\ Payload(esi) = esi + Header
  BY FoundBlock DEF Split
<1>2. size + Header <= mem[esi + 2]
  <2>1. ~NarrowFit
    BY DEF Split
  <2>2. QED
    BY <1>1, <2>1 DEF NarrowFit
<1>3. Remainder = mem[esi + 2] - size - Header
  <2>1. Minus(mem[esi + 2], size) = mem[esi + 2] - size
    BY <1>1, <1>2 DEF Minus
  <2>2. Header <= mem[esi + 2] - size
    BY <1>1, <1>2
  <2>3. QED
    BY <1>1, <2>1, <2>2 DEF Remainder, Minus
<1>4. /\ Plus(Payload(esi), size) = new /\ new \in Nat /\ new <= HeapEnd
      /\ PrevAt(new) = new /\ NextAt(new) = new + 1 /\ SizeAt(new) = new + 2
      /\ MagicAt(new) = new + 3 /\ FlagAt(new) = new + 4
  <2>1. new \in Nat /\ new <= HeapEnd
    BY <1>1, <1>2, HeapAssumption
  <2>2. Plus(Payload(esi), size) = new
    BY <1>1, <2>1, HeapAssumption DEF Plus
  <2>3. QED
    BY <2>1, <2>2, FieldsAt
<1>5. PrevAt(mem[esi + 1]) = mem[esi + 1]
  BY DEF PrevAt
<1> HIDE DEF new
<1>6. /\ mem' = n /\ blocks' = blocks \cup {new}
      /\ Return(Payload(esi), (esi..(new + Header - 1)) \ {new})
  <2>1. mem' = n
    BY <1>1, <1>3, <1>4, <1>5 DEF Split, Cut, new
  <2>2. QED
    BY <1>4, <2>1 DEF Split
<1>7. /\ live' = live \cup {[at |-> esi + Header, len |-> size]}
      /\ freed' = {q \in freed : Block(q) \notin (esi..(new + Header - 1)) \ {new}}
  BY <1>1, <1>6 DEF Return
<1>8. QED
  BY <1>1, <1>2, <1>6, <1>7 DEF new, n

LEMMA SplitStep ==
  ASSUME TypeOK, Kept, Searched(mem, blocks), Split, ~narrow'
  PROVE  Kept'
<1> DEFINE new == esi + Header + size
           n == Cut(mem, esi, size)
           C == blocks \cup {new}
<1>1. /\ esi \in blocks /\ size \in Nat \ {0} /\ mem[esi + 4] = Free
      /\ size + Header <= mem[esi + 2] /\ esi \in Nat
      /\ mem' = n /\ blocks' = C
      /\ live' = live \cup {[at |-> esi + Header, len |-> size]}
      /\ freed' = {q \in freed : Block(q) \notin (esi..(new + Header - 1)) \ {new}}
  BY SplitIsCut
<1>2. mem \in Memories /\ Tiled(mem, blocks) /\ Merged(mem, blocks)
      /\ LiveIn(mem, blocks, live) /\ FreedIn(mem, blocks, freed)
  BY DEF TypeOK, Kept, Memories, Words
<1> HIDE DEF new, n
<1>3. n[esi + 2] = size /\ n[esi + 4] = Used
  BY <1>1, <1>2, CutWrites DEF n, new
<1>4. /\ Tiled(n, C)
       /\ \A c \in blocks \ {esi} : n[c + 2] = mem[c + 2] /\ n[c + 4] = mem[c + 4]
  BY <1>1, <1>2, CutTiles DEF n, new
<1>5. Merged(n, C)
  BY <1>1, <1>2, CutMerged DEF n, new
<1>6. FreedIn(n, C, freed')
  BY <1>1, <1>2, CutStale DEF n, new
<1>7. GivesOut(mem, blocks, esi, size, n, C)
  BY <1>1, <1>3, <1>4 DEF GivesOut
<1> HIDE DEF C
<1>8. LiveIn(n, C, live')
  BY <1>1, <1>2, <1>7, UseLive
<1>9. QED
  BY <1>1, <1>4, <1>5, <1>6, <1>8 DEF Kept

LEMMA RequestStep ==
  ASSUME TypeOK, Kept, Request
  PROVE  TypeOK' /\ Kept' /\ Searched(mem, blocks)'
<1>1. /\ size' \in Requests /\ esi' = Base /\ pc' = "search" /\ calls' = calls + 1
      /\ UNCHANGED <<mem, live, freed, blocks, narrow>>
  BY DEF Request
<1>2. TypeOK'
  BY <1>1, HeapAssumption DEF TypeOK, Address
<1>3. Kept'
  BY <1>1 DEF Kept
<1>4. Base \in blocks /\ Base # Null
  BY HeapAssumption DEF Kept, Tiled
<1>5. \A b \in blocks : ~(b < Base)
  BY HeapAssumption DEF Kept, Tiled, Header_OK
<1>6. Searched(mem, blocks)'
  BY <1>1, <1>4, <1>5 DEF Searched
<1>7. QED
  BY <1>2, <1>3, <1>6

(* The next link leads to the first block behind: none is passed over. *)
LEMMA VisitStep ==
  ASSUME TypeOK, Kept, Searched(mem, blocks), Visit
  PROVE  TypeOK' /\ Kept' /\ Searched(mem, blocks)'
<1>1. /\ pc = "search" /\ esi # Null /\ ~Fits /\ esi' = mem[NextAt(esi)]
      /\ UNCHANGED <<mem, pc, size, live, freed, blocks, narrow, calls>>
  BY DEF Visit
<1>2. /\ size \in Requests /\ esi \in blocks
      /\ \A b \in blocks : b < esi => ~(mem[b + 4] = Free /\ mem[b + 2] >= size)
  BY <1>1 DEF Searched
<1>3. Tiled(mem, blocks)
  BY DEF Kept
<1>4. /\ esi \in Nat /\ NextAt(esi) = esi + 1
      /\ FlagAt(esi) = esi + 4 /\ SizeAt(esi) = esi + 2
  <2>1. esi \in Nat /\ esi <= HeapEnd
    BY <1>2, <1>3, HeaderInside
  <2>2. QED
    BY <2>1, FieldsAt
<1>5. esi' = IF EndIn(mem, esi) = HeapEnd THEN Null ELSE EndIn(mem, esi)
  BY <1>1, <1>2, <1>3, <1>4 DEF Tiled, Forward
<1>6. /\ EndIn(mem, esi) \in Nat /\ EndIn(mem, esi) <= HeapEnd
      /\ EndIn(mem, esi) # HeapEnd => EndIn(mem, esi) \in blocks
  BY <1>2, <1>3, BlockFacts
<1>7. esi' \in blocks \cup {Null} /\ esi' \in Address
  <2>1. EndIn(mem, esi) \in Address /\ Null \in Address
    BY <1>6, HeapAssumption DEF Address
  <2>2. QED
    BY <1>5, <1>6, <2>1
<1>8. ASSUME NEW b \in blocks, esi' = Null \/ b < esi'
      PROVE  ~(mem[b + 4] = Free /\ mem[b + 2] >= size)
  <2>1. b \in Nat /\ EndIn(mem, b) <= HeapEnd /\ EndIn(mem, b) \in Nat
        /\ b + Header <= EndIn(mem, b)
    BY <1>3, BlockFacts
  <2>2. b < EndIn(mem, esi)
    <3>1. CASE EndIn(mem, esi) = HeapEnd
      <4>1. HeapEnd \in Nat
        BY HeapAssumption
      <4>2. QED
        BY <2>1, <3>1, <4>1
    <3>2. CASE EndIn(mem, esi) # HeapEnd
      <4>1. esi' = EndIn(mem, esi) /\ esi' # Null
        <5>1. EndIn(mem, esi) \in blocks
          BY <1>6, <3>2
        <5>2. EndIn(mem, esi) > Null
          BY <1>3, <5>1, BlockFacts
        <5>3. QED
          BY <1>5, <1>6, <3>2, <5>2
      <4>2. QED
        BY <1>8, <4>1
    <3>3. QED
      BY <3>1, <3>2
  <2>3. b <= esi
    BY <1>2, <1>3, <2>2, NextIsFirst
  <2>4. CASE b < esi
    BY <1>2, <2>4
  <2>5. CASE b = esi
    BY <1>1, <1>4, <2>5 DEF Fits, IsFree
  <2>6. QED
    BY <1>4, <2>1, <2>3, <2>4, <2>5
<1>9. Searched(mem, blocks)'
  BY <1>1, <1>2, <1>7, <1>8 DEF Searched
<1>10. QED
  BY <1>1, <1>7, <1>9 DEF TypeOK, Kept

(* A step from a state without narrow splits so far. *)
LEMMA SoundStep ==
  ASSUME TypeOK, Kept, Searched(mem, blocks), ~narrow, [Next]_vars
  PROVE  /\ TypeOK'
         /\ ~narrow' => Kept' /\ Searched(mem, blocks)'
         /\ narrow' => pc' = "idle"
<1>1. CASE Visit
  <2>1. narrow' = narrow
    BY <1>1 DEF Visit
  <2>2. QED
    BY <1>1, <2>1, VisitStep
<1>2. CASE Fail
  BY <1>2 DEF Fail, TypeOK, Kept, Searched
<1>3. CASE UseWhole
  <2>1. narrow' = narrow /\ pc' = "idle"
    BY <1>3 DEF UseWhole, Return
  <2>2. QED
    BY <1>3, <2>1, UseWholeStep DEF Searched
<1>4. CASE Split
  <2>1. TypeOK' /\ pc' = "idle"
    BY <1>4, SplitTyped
  <2>2. ~narrow' => Kept'
    BY <1>4, SplitStep
  <2>3. QED
    BY <2>1, <2>2 DEF Searched
<1>5. CASE Request
  <2>1. narrow' = narrow
    BY <1>5 DEF Request
  <2>2. QED
    BY <1>5, <2>1, RequestStep
<1>6. ASSUME NEW l \in live, Release(l) \/ Clear(l)
      PROVE  TypeOK' /\ Kept' /\ pc' = "idle" /\ narrow' = narrow
  <2>1. pc' = "idle" /\ narrow' = narrow
    BY <1>6 DEF Release, Clear, MayCall
  <2>2. TypeOK' /\ Kept'
    BY <1>6, ReleaseStep, ClearStep
  <2>3. QED
    BY <2>1, <2>2
<1>7. ASSUME NEW l \in live, ReleaseMissed(l)
      PROVE  TypeOK' /\ Kept' /\ pc' = "idle" /\ narrow' = narrow
  <2>1. /\ pc = "idle" /\ live' = live \ {l}
        /\ UNCHANGED <<mem, pc, size, esi, freed, blocks, narrow, calls>>
    BY <1>7 DEF ReleaseMissed, MayCall
  <2>2. LiveIn(mem, blocks, live \ {l})
    BY DEF Kept, LiveIn
  <2>3. Kept'
    BY <2>1, <2>2 DEF Kept
  <2>4. TypeOK'
    BY <2>1 DEF TypeOK
  <2>5. QED
    BY <2>1, <2>3, <2>4
<1>8. CASE UNCHANGED vars
  BY <1>8 DEF vars, TypeOK, Kept, Searched
<1>9. ASSUME NEW p \in freed, ReleaseAgain(p)
      PROVE  UNCHANGED vars
  BY <1>9, ReleaseAgainStep
<1>10. CASE Done
  BY <1>8, <1>10 DEF Done
<1>11. \/ Visit \/ Fail \/ UseWhole \/ Split \/ Request \/ Done \/ UNCHANGED vars
       \/ \E l \in live : Release(l) \/ ReleaseMissed(l) \/ Clear(l)
       \/ \E p \in freed : ReleaseAgain(p)
  BY DEF Next, Kmalloc, Kernel
<1>12. CASE \E l \in live : Release(l) \/ ReleaseMissed(l) \/ Clear(l)
  BY <1>6, <1>7, <1>12 DEF Searched
<1>13. CASE \E p \in freed : ReleaseAgain(p)
  BY <1>8, <1>9, <1>13
<1>14. QED
  BY <1>1, <1>2, <1>3, <1>4, <1>5, <1>8, <1>10, <1>11, <1>12, <1>13

(* A narrow split is not forgotten. *)
LEMMA NarrowStays ==
  ASSUME narrow \in BOOLEAN, [Next]_vars
  PROVE  narrow' \in BOOLEAN /\ (narrow => narrow')
<1>1. UNCHANGED narrow \/ narrow' = (narrow \/ NarrowFit)
  BY DEF Next, Kmalloc, Kernel, Done, vars, Visit, Fail, UseWhole, Split,
         Request, Release, ReleaseMissed, Clear, ReleaseAgain
<1>2. QED
  BY <1>1

(* mem_init makes one free block of the heap. *)
LEMMA InitSound ==
  ASSUME Init
  PROVE  TypeOK /\ Kept /\ Searched(mem, blocks) /\ ~narrow
<1>1. /\ mem = [a \in Address |->
              IF a = Base + 2 THEN HeapSize - Header
              ELSE IF a = Base + 3 THEN Magic
              ELSE IF a = Base + 4 THEN Free ELSE 0]
      /\ Base \in Nat \ {0} /\ Base <= HeapEnd
      /\ Base \in Address /\ Base + 1 \in Address /\ Base + 2 \in Address
      /\ Base + 3 \in Address /\ Base + 4 \in Address
  <2>1. Base \in Nat \ {0} /\ Base <= HeapEnd
    BY HeapAssumption
  <2>2. QED
    BY <2>1, FieldsAt DEF Init
<1>2. /\ pc = "idle" /\ size = 0 /\ esi = Null /\ live = {} /\ freed = {}
      /\ blocks = {Base} /\ narrow = FALSE /\ calls = 0
  BY DEF Init
<1>3. HeapSize - Header \in Address /\ 0 \in Address /\ Free \in Address
      /\ HeapSize - Header \in Nat
  BY HeapAssumption DEF Address
<1>4. TypeOK
  BY <1>1, <1>2, <1>3 DEF TypeOK
<1>5. /\ mem[Base] = 0 /\ mem[Base + 1] = 0 /\ mem[Base + 2] = HeapSize - Header
      /\ mem[Base + 3] = Magic /\ mem[Base + 4] = Free
  BY <1>1
<1>6. EndIn(mem, Base) = HeapEnd
  BY <1>1, <1>3, <1>5, HeapAssumption DEF EndIn
<1>7. Tiled(mem, blocks)
  <2>1. Header_OK(mem, Base)
    BY <1>1, <1>3, <1>5, <1>6, HeapAssumption DEF Header_OK
  <2>2. Forward(mem, blocks, Base) /\ Back(mem, blocks, Base)
    BY <1>5, <1>6 DEF Forward, Back
  <2>3. ~(Base < Base)
    BY <1>1
  <2>4. QED
    BY <1>2, <2>1, <2>2, <2>3 DEF Tiled
<1>8. Merged(mem, blocks)
  BY <1>2, <1>6 DEF Merged, Alone
<1>9. LiveIn(mem, blocks, live) /\ FreedIn(mem, blocks, freed)
  BY <1>2 DEF LiveIn, FreedIn
<1>10. QED
  BY <1>2, <1>4, <1>7, <1>8, <1>9 DEF Kept, Searched

-----------------------------------------------------------------------------
(* The invariant, and what it says of the properties. *)

LEMMA IInvHolds == Spec => []IInv
<1>1. Init => IInv
  BY InitSound DEF IInv, TypeOK
<1>2. IInv /\ [Next]_vars => IInv'
  <2> SUFFICES ASSUME IInv, [Next]_vars
               PROVE  IInv'
    OBVIOUS
  <2>1. narrow' \in BOOLEAN /\ (narrow => narrow')
    BY NarrowStays DEF IInv
  <2>2. CASE narrow
    BY <2>1, <2>2 DEF IInv
  <2>3. CASE ~narrow
    <3>1. TypeOK /\ Kept /\ Searched(mem, blocks)
      BY <2>3 DEF IInv
    <3>2. TypeOK' /\ (~narrow' => Kept' /\ Searched(mem, blocks)')
      BY <2>3, <3>1, SoundStep
    <3>3. QED
      BY <2>1, <3>2 DEF IInv
  <2>4. QED
    BY <2>2, <2>3 DEF IInv
<1>3. QED
  BY <1>1, <1>2, PTL DEF Spec

LEMMA HaltedHolds ==
  ASSUME AfterNarrow = FALSE
  PROVE  Spec => []Halted
<1>1. Init => Halted
  BY InitSound DEF Halted
<1>2. IInv /\ Halted /\ [Next]_vars => Halted'
  <2> SUFFICES ASSUME IInv, Halted, [Next]_vars
               PROVE  Halted'
    OBVIOUS
  <2>1. CASE narrow
    <3>1. pc = "idle" /\ ~MayCall
      BY <2>1 DEF Halted, MayCall
    <3>2. UNCHANGED vars
      BY <3>1 DEF Next, Kmalloc, Kernel, Done, Visit, Fail, UseWhole, Split, Found,
           Request, Release, ReleaseMissed, Clear, ReleaseAgain
    <3>3. QED
      BY <3>2 DEF Halted, TypeOK, vars
  <2>2. CASE ~narrow
    <3>1. TypeOK /\ Kept /\ Searched(mem, blocks)
      BY <2>2 DEF IInv
    <3>2. TypeOK' /\ (narrow' => pc' = "idle")
      BY <2>2, <3>1, SoundStep
    <3>3. QED
      BY <3>2 DEF Halted
  <2>3. QED
    BY <2>1, <2>2
<1>3. QED
  BY <1>1, <1>2, IInvHolds, PTL DEF Spec

(* Memory, registers and the histories have their types (memory.asm): all   *)
(* of kmalloc and kfree computes with addresses and words.                  *)
THEOREM TypeCorrect ==
  ASSUME AfterNarrow = FALSE
  PROVE  Spec => []TypeOK
<1>1. Halted => TypeOK
  BY DEF Halted
<1>2. QED
  BY <1>1, HaltedHolds, PTL

(* The blocks that kmalloc splits and kfree merges tile the heap, and their *)
(* links lead along them and back, until a block is split with less than a  *)
(* header to spare.                                                         *)
THEOREM BlocksTileHeap == Spec => []ChainTiles
<1>1. IInv => ChainTiles
  <2> SUFFICES ASSUME IInv, ~narrow
               PROVE  ChainTiles
    BY DEF ChainTiles
  <2>1. Tiled(mem, blocks)
    BY DEF IInv, Kept
  <2>2. Base \in blocks /\ mem[PrevAt(Base)] = Null
    BY <2>1 DEF Tiled, Back, PrevAt
  <2>3. ASSUME NEW b \in blocks
        PROVE  /\ Base <= b /\ EndOf(b) <= HeapEnd
               /\ Valid(mem, b) /\ mem[FlagAt(b)] \in {Used, Free}
               /\ IF EndOf(b) = HeapEnd
                    THEN mem[NextAt(b)] = Null
                    ELSE /\ EndOf(b) \in blocks
                         /\ mem[NextAt(b)] = EndOf(b)
                         /\ mem[PrevAt(EndOf(b))] = b
    <3>1. b \in Nat /\ b <= HeapEnd
      BY <2>1, HeaderInside
    <3>2. /\ NextAt(b) = b + 1 /\ SizeAt(b) = b + 2
          /\ MagicAt(b) = b + 3 /\ FlagAt(b) = b + 4
      BY <3>1, FieldsAt
    <3>3. Header_OK(mem, b) /\ Forward(mem, blocks, b)
      BY <2>1 DEF Tiled
    <3>4. EndOf(b) = EndIn(mem, b)
      BY <3>2 DEF EndOf, EndIn
    <3>5. QED
      BY <3>2, <3>3, <3>4 DEF Header_OK, Forward, Valid, PrevAt
  <2>4. QED
    BY <2>2, <2>3 DEF ChainTiles
<1>2. QED
  BY <1>1, IInvHolds, PTL

(* kfree merges both ways and a split leaves no free block behind another:  *)
(* two neighbours are never both free.                                      *)
THEOREM NoFreeNeighbours == Spec => []FreeBlocksMerged
<1>1. IInv => FreeBlocksMerged
  <2> SUFFICES ASSUME IInv, ~narrow, NEW b \in blocks, EndOf(b) # HeapEnd
               PROVE  ~(IsFree(mem, b) /\ IsFree(mem, EndOf(b)))
    BY DEF FreeBlocksMerged
  <2>1. Tiled(mem, blocks) /\ Merged(mem, blocks)
    BY DEF IInv, Kept
  <2>2. b \in Nat /\ b <= HeapEnd
    BY <2>1, HeaderInside
  <2>3. SizeAt(b) = b + 2 /\ FlagAt(b) = b + 4
    BY <2>2, FieldsAt
  <2>4. EndOf(b) = EndIn(mem, b)
    BY <2>3 DEF EndOf, EndIn
  <2>5. EndIn(mem, b) \in Nat /\ EndIn(mem, b) <= HeapEnd
    BY <2>1, BlockFacts
  <2>6. FlagAt(EndIn(mem, b)) = EndIn(mem, b) + 4
    BY <2>5, FieldsAt
  <2>7. Alone(mem, b)
    BY <2>1 DEF Merged
  <2>8. QED
    BY <2>3, <2>4, <2>6, <2>7 DEF Alone, IsFree
<1>2. QED
  BY <1>1, IInvHolds, PTL

(* kmalloc returns NULL only after a search that has passed every block of  *)
(* the heap: no free one is large enough.                                   *)
THEOREM FailureMeansFull == Spec => FailsOnlyWhenFull
<1>1. IInv /\ [Next]_vars =>
        [(Fail /\ ~narrow) =>
           \A b \in blocks : IsFree(mem, b) => mem[SizeAt(b)] < size]_vars
  <2> SUFFICES ASSUME IInv, Fail, ~narrow, NEW b \in blocks, IsFree(mem, b)
               PROVE  mem[SizeAt(b)] < size
    OBVIOUS
  <2>1. Tiled(mem, blocks) /\ Searched(mem, blocks) /\ size \in Nat
    BY DEF IInv, Kept, TypeOK, Address
  <2>2. \A c \in blocks : /\ c \in Nat /\ c <= HeapEnd /\ mem[c + 2] \in Nat
                          /\ mem[c + 3] = Magic
    BY <2>1, HeaderInside DEF Tiled, Header_OK
  <2>3. esi = Null
    <3>1. \A c \in blocks : Valid(mem, c)
      BY <2>2, FieldsAt DEF Valid
    <3>2. QED
      BY <2>1, <3>1 DEF Fail, Searched
  <2>4. ~(mem[b + 4] = Free /\ mem[b + 2] >= size)
    BY <2>1, <2>3 DEF Fail, Searched
  <2>5. FlagAt(b) = b + 4 /\ SizeAt(b) = b + 2
    BY <2>2, FieldsAt
  <2>6. QED
    BY <2>1, <2>2, <2>4, <2>5 DEF IsFree
<1>2. QED
  BY <1>1, IInvHolds, PTL DEF Spec, FailsOnlyWhenFull

(* The double free protection of kfree: a second kfree of an address finds  *)
(* the flag of the first, wherever the merging has put its block.           *)
THEOREM SecondFreeIgnored == Spec => DoubleFreeIgnored
<1>1. IInv /\ [Next]_vars =>
        [\A p \in freed : (ReleaseAgain(p) /\ ~narrow) => UNCHANGED mem]_vars
  BY ReleaseAgainStep DEF IInv, vars
<1>2. QED
  BY <1>1, IInvHolds, PTL DEF Spec, DoubleFreeIgnored

(* kfree writes flags, and headers of blocks that are free. *)
LEMMA ReleaseKeepsWord ==
  ASSUME TypeOK, Kept, NEW l \in live, Release(l),
         NEW j \in live, NEW a \in Nat, j.at <= a, a < j.at + j.len
  PROVE  mem'[a] = mem[a]
<1> DEFINE b == l.at - Header
           k == [mem EXCEPT ![b + 4] = Free]
           n == Coalesced(mem, b)
           C == blocks \ Absorbed(mem, b)
<1>1. b \in blocks /\ mem[b + 4] = Used /\ mem' = n
  BY FreedBlock DEF Release
<1> HIDE DEF b
<1>2. mem \in Memories /\ Tiled(mem, blocks) /\ Merged(mem, blocks)
      /\ LiveIn(mem, blocks, live)
  BY DEF TypeOK, Kept, Memories, Words
<1>3. Marks(mem, blocks, b, Free, k) /\ Keeps(k, blocks, n, C)
  BY <1>1, <1>2, CoalesceFacts
<1> HIDE DEF k, n, C
<1>4. a \in Address /\ \A c \in blocks : a < c \/ c + Header <= a
  BY <1>2, PayloadWords
<1>5. n[a] = k[a]
  BY <1>3, <1>4 DEF Keeps
<1>6. a # b + 4
  <2>1. b \in Nat
    BY <1>1, <1>2, BlockFacts
  <2>2. QED
    BY <1>1, <1>4, <2>1
<1>7. k[a] = mem[a]
  BY <1>3, <1>4, <1>6 DEF Marks
<1>8. QED
  BY <1>1, <1>5, <1>7

(* A split writes headers, and a word of the block that it cuts. *)
LEMMA SplitKeepsWord ==
  ASSUME TypeOK, Kept, Searched(mem, blocks), Split, ~narrow',
         NEW j \in live, NEW a \in Nat, j.at <= a, a < j.at + j.len
  PROVE  mem'[a] = mem[a]
<1> DEFINE new == esi + Header + size
           n == Cut(mem, esi, size)
<1>1. /\ esi \in blocks /\ size \in Nat /\ mem[esi + 4] = Free
      /\ size + Header <= mem[esi + 2] /\ mem' = n
  BY SplitIsCut
<1>2. mem \in Memories /\ Tiled(mem, blocks) /\ LiveIn(mem, blocks, live)
  BY DEF TypeOK, Kept, Memories, Words
<1>3. /\ a \in Address
      /\ \A c \in blocks : a < c \/ c + Header <= a
      /\ \A c \in blocks : mem[c + 4] = Free => a < c \/ EndIn(mem, c) <= a
  BY <1>2, PayloadWords
<1>4. /\ new \in Nat /\ esi + Header <= new /\ new + Header <= EndIn(mem, esi)
      /\ \A x \in Address :
           /\ x \notin {esi + 1, esi + 2, esi + 4, new, new + 1, new + 2, new + 3, new + 4}
           /\ x = mem[esi + 1] => x = Null
           => n[x] = mem[x]
  BY <1>1, <1>2, CutWrites
<1> HIDE DEF new, n
<1>5. /\ esi \in Nat /\ EndIn(mem, esi) \in Nat
      /\ mem[esi + 1] # Null => mem[esi + 1] \in blocks
  BY <1>1, <1>2, BlockFacts DEF Tiled, Forward
<1>6. a < esi \/ EndIn(mem, esi) <= a
  BY <1>1, <1>3
<1>7. a \notin {esi + 1, esi + 2, esi + 4, new, new + 1, new + 2, new + 3, new + 4}
  BY <1>4, <1>5, <1>6
<1>8. a = mem[esi + 1] => a = Null
  BY <1>3, <1>5
<1>9. n[a] = mem[a]
  BY <1>3, <1>4, <1>7, <1>8
<1>10. QED
  BY <1>1, <1>9

(* Neither kmalloc nor kfree writes into an allocation in use: whatever the *)
(* two do to flags, sizes and links lies outside.                           *)
THEOREM PayloadsKept == Spec => KeepsPayloads
<1>1. IInv /\ [Next]_vars =>
        [(~narrow' /\ ~ \E l \in live : Clear(l)) =>
           \A l \in live \cap live' : \A a \in l.at..(l.at + l.len - 1) :
              mem'[a] = mem[a]]_vars
  <2> SUFFICES ASSUME IInv, [Next]_vars, ~narrow', ~ \E l \in live : Clear(l),
                      NEW j \in live, NEW a \in j.at..(j.at + j.len - 1)
               PROVE  mem'[a] = mem[a]
    OBVIOUS
  <2>1. ~narrow
    BY NarrowStays DEF IInv
  <2>2. TypeOK /\ Kept /\ Searched(mem, blocks)
    BY <2>1 DEF IInv
  <2>3. a \in Nat /\ j.at <= a /\ a < j.at + j.len
    <3>1. j.at \in Nat /\ j.len \in Nat
      BY <2>2 DEF Kept, LiveIn
    <3>2. QED
      BY <3>1
  <2>4. CASE UNCHANGED mem
    BY <2>4
  <2>5. ASSUME NEW l \in live, Release(l)
        PROVE  mem'[a] = mem[a]
    BY <2>2, <2>3, <2>5, ReleaseKeepsWord
  <2>6. CASE Split
    BY <2>2, <2>3, <2>6, SplitKeepsWord
  <2>7. CASE UseWhole
    <3>1. /\ mem' = [mem EXCEPT ![esi + 4] = Used] /\ esi \in blocks /\ esi \in Nat
      BY <2>2, <2>7, FoundBlock DEF UseWhole
    <3>2. mem \in Memories /\ Tiled(mem, blocks) /\ LiveIn(mem, blocks, live)
      BY <2>2 DEF TypeOK, Kept, Memories, Words
    <3>3. a \in Address /\ \A c \in blocks : a < c \/ c + Header <= a
      BY <2>3, <3>2, PayloadWords
    <3>4. a # esi + 4
      BY <2>3, <3>1, <3>3
    <3>5. QED
      BY <3>1, <3>2, <3>3, <3>4 DEF Memories
  <2>8. ASSUME NEW p \in freed, ReleaseAgain(p)
        PROVE  UNCHANGED mem
    BY <2>2, <2>8, ReleaseAgainStep DEF vars
  <2>9. \/ UNCHANGED mem \/ UseWhole \/ Split
        \/ \E l \in live : Release(l)
        \/ \E p \in freed : ReleaseAgain(p)
    BY DEF Next, Kmalloc, Kernel, Done, vars, Visit, Fail, Request, ReleaseMissed
  <2>10. QED
    BY <2>4, <2>5, <2>6, <2>7, <2>8, <2>9
<1>2. QED
  BY <1>1, IInvHolds, PTL DEF Spec, KeepsPayloads

(* What kmalloc hands out lies inside the heap, apart from all in use. *)
LEMMA FreshRange ==
  ASSUME TypeOK, Kept, Searched(mem, blocks), Found, NEW taken,
         Return(Payload(esi), taken)
  PROVE  Ranges!Alloc
<1> DEFINE r == [at |-> esi + Header, len |-> size]
<1>1. /\ esi \in blocks /\ esi \in Nat /\ size \in Nat \ {0} /\ mem[esi + 4] = Free
      /\ mem[esi + 2] \in Nat /\ size <= mem[esi + 2]
      /\ Payload(esi) = esi + Header
  BY FoundBlock
<1>2. Tiled(mem, blocks) /\ LiveIn(mem, blocks, live)
  BY DEF Kept
<1>3. live' = live \cup {r}
  BY <1>1 DEF Return
<1>4. /\ EndIn(mem, esi) = esi + Header + mem[esi + 2] /\ EndIn(mem, esi) <= HeapEnd
      /\ Base <= esi /\ Base \in Nat /\ HeapEnd \in Nat
  BY <1>1, <1>2, HeapAssumption DEF EndIn, Tiled, Header_OK
<1>5. r.at \in Base..(HeapEnd - 1) /\ r.len \in Nat \ {0}
      /\ r.at + r.len <= (HeapEnd - 1) + 1
  BY <1>1, <1>4
<1>6. ASSUME NEW s \in live
      PROVE  r.at + r.len <= s.at \/ s.at + s.len <= r.at
  <2> DEFINE c == s.at - Header
  <2>1. /\ s.at \in Nat /\ s.len \in Nat /\ c \in blocks /\ mem[c + 4] = Used
        /\ s.at + s.len <= EndIn(mem, c)
    BY <1>2, LiveFacts
  <2>2. c \in Nat /\ s.at = c + Header /\ EndIn(mem, c) \in Nat
    BY <1>2, <2>1, BlockFacts
  <2> HIDE DEF c
  <2>3. c # esi
    BY <1>1, <2>1
  <2>4. EndIn(mem, c) <= esi \/ EndIn(mem, esi) <= c
    BY <1>1, <1>2, <2>1, <2>3, BlocksApart
  <2>5. CASE EndIn(mem, c) <= esi
    BY <1>1, <2>1, <2>2, <2>5
  <2>6. CASE EndIn(mem, esi) <= c
    BY <1>1, <1>4, <2>1, <2>2, <2>6
  <2>7. QED
    BY <2>4, <2>5, <2>6
<1>7. r \notin live
  <2> SUFFICES ASSUME r \in live
               PROVE  FALSE
    OBVIOUS
  <2>1. r.at + r.len <= r.at
    BY <1>6
  <2>2. QED
    BY <1>1, <2>1
<1> HIDE DEF r
<1>8. QED
  BY <1>3, <1>5, <1>6, <1>7 DEF Ranges!Alloc, Ranges!Inside, Ranges!Apart

(* kmalloc and kfree implement the allocator: every step is one of its, or  *)
(* leaves the allocations in use alone.                                     *)
THEOREM FreshRangesHandedOut ==
  ASSUME AfterNarrow = FALSE
  PROVE  Spec => HandsOutFreshRanges
<1>1. Init => Ranges!Init
  BY DEF Init, Ranges!Init
<1>2. IInv /\ Halted /\ [Next]_vars => [Ranges!Next]_live
  <2> SUFFICES ASSUME IInv, Halted, [Next]_vars
               PROVE  [Ranges!Next]_live
    OBVIOUS
  <2>1. ASSUME NEW l \in live, live' = live \ {l}
        PROVE  Ranges!Next
    BY <2>1 DEF Ranges!Next, Ranges!Release
  <2>2. ASSUME NEW taken, Found, Return(Payload(esi), taken)
        PROVE  Ranges!Next
    <3>1. ~narrow
      BY <2>2 DEF Halted, Found
    <3>2. Ranges!Alloc
      BY <2>2, <3>1, FreshRange DEF IInv
    <3>3. QED
      BY <3>2 DEF Ranges!Next
  <2>3. CASE UseWhole
    BY <2>2, <2>3 DEF UseWhole
  <2>4. CASE Split
    BY <2>2, <2>4 DEF Split
  <2>5. ASSUME NEW l \in live, Release(l) \/ ReleaseMissed(l)
        PROVE  Ranges!Next
    BY <2>1, <2>5 DEF Release, ReleaseMissed
  <2>6. \/ UNCHANGED live \/ UseWhole \/ Split
        \/ \E l \in live : Release(l) \/ ReleaseMissed(l)
    BY DEF Next, Kmalloc, Kernel, Done, vars, Visit, Fail, Request, Clear, ReleaseAgain
  <2>7. QED
    BY <2>3, <2>4, <2>5, <2>6
<1>3. QED
  BY <1>1, <1>2, IInvHolds, HaltedHolds, PTL DEF Spec, HandsOutFreshRanges, Ranges!Spec

=============================================================================
