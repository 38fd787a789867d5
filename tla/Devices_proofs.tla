--------------------------- MODULE Devices_proofs ---------------------------
(***************************************************************************)
(* Theorems about drivers and services: the pointer, the event queue and   *)
(* the packets of the mouse, the addresses of the network, the frames of   *)
(* the adapters, the reports of USB mice, the installer, HTTPS and the     *)
(* disk driver; for every screen, every size of the queues, rings, caches  *)
(* and pools, and whatever the other side does.                            *)
(***************************************************************************)
EXTENDS Devices, WellFoundedInduction, SequenceTheorems, FiniteSetTheorems, TLAPS

-----------------------------------------------------------------------------
(* Rings. *)

LEMMA ModFacts ==
  ASSUME NEW N \in Nat \ {0}
  PROVE  /\ \A a \in 0..(N - 1) : a % N = a
         /\ \A a \in N..(2 * N - 1) : a % N = a - N
         /\ \A a \in Int : a % N \in 0..(N - 1)
OBVIOUS

(* The place behind a, and the one i places before a. *)
After(a, N) == IF a = N - 1 THEN 0 ELSE a + 1
Before(a, i, N) == IF i <= a THEN a - i ELSE a - i + N

LEMMA RingSteps ==
  ASSUME NEW N \in Nat \ {0}, NEW a \in 0..(N - 1)
  PROVE  /\ (a + 1) % N = After(a, N) /\ After(a, N) \in 0..(N - 1)
         /\ \A i \in 1..N : (a - i + N) % N = Before(a, i, N)
<1>1. (a + 1) % N = After(a, N)
  <2>1. CASE a = N - 1
    <3>1. a + 1 \in N..(2 * N - 1) /\ a + 1 = N
      BY <2>1
    <3>2. (a + 1) % N = (a + 1) - N
      BY <3>1, ModFacts
    <3>3. QED
      BY <2>1, <3>1, <3>2 DEF After
  <2>2. CASE a # N - 1
    <3>1. a + 1 \in 0..(N - 1)
      BY <2>2
    <3>2. QED
      BY <2>2, <3>1, ModFacts DEF After
  <2>3. QED
    BY <2>1, <2>2
<1>2. After(a, N) \in 0..(N - 1)
  BY DEF After
<1>3. ASSUME NEW i \in 1..N
      PROVE  (a - i + N) % N = Before(a, i, N)
  <2>1. CASE i <= a
    <3>1. a - i + N \in N..(2 * N - 1)
      BY <2>1
    <3>2. (a - i + N) % N = (a - i + N) - N
      BY <3>1, ModFacts
    <3>3. QED
      BY <2>1, <3>2 DEF Before
  <2>2. CASE ~(i <= a)
    <3>1. a - i + N \in 0..(N - 1)
      BY <2>2
    <3>2. QED
      BY <2>2, <3>1, ModFacts DEF Before
  <2>3. QED
    BY <2>1, <2>2
<1>4. QED
  BY <1>1, <1>2, <1>3

-----------------------------------------------------------------------------
(* The inductive invariant. *)

(* The events of the queue are the newest, in order. *)
Waiting == IF qtail <= qhead THEN qhead - qtail ELSE qhead - qtail + QueueSize

Queued == \A i \in 1..Waiting : queue[Before(qhead, i, QueueSize)] = total - i + 1

(* The bytes on their way continue the packet that is being read, up to the *)
(* next byte of the mouse; each first one can begin a packet.               *)
Chained ==
  /\ \A i \in 1..(Len(pipe) - 1) : pipe[i + 1].place = After(pipe[i].place, Size)
  /\ Len(pipe) > 0 => /\ pipe[1].place = idx
                      /\ at = After(pipe[Len(pipe)].place, Size)
  /\ Len(pipe) = 0 => at = idx
  /\ \A i \in 1..Len(pipe) : pipe[i].place = 0 => pipe[i].start

IInv ==
  /\ TypeOK
  /\ Len(pipe) < Pipe
  /\ x \in 0..(limit - 1)
  /\ Queued
  /\ ~cut => Chained

Bytes == [place : Places, start : BOOLEAN]

-----------------------------------------------------------------------------
(* The pointer. *)

(* Whatever a movement is, the pointer stays on the screen. *)
LEMMA ClampInside ==
  ASSUME NEW p \in Int, NEW w \in Nat \ {0}
  PROVE  Clamp(p, w) \in 0..(w - 1) /\ Clamp(p, w) \in Int
BY DEF Clamp

LEMMA MovedInt ==
  ASSUME x \in Int, limit \in Nat, accel \in BOOLEAN, NEW d \in Deltas
  PROVE  ApplyMovement(Accelerate(d)) \in Int
<1>1. d \in Int
  BY MouseAssumption DEF Deltas
<1>2. Abs(d) \in Int
  BY <1>1 DEF Abs
<1>3. Threshold + 2 * (Abs(d) - Threshold) \in Int
  BY <1>2, MouseAssumption
<1>4. Accelerate(d) \in Int
  BY <1>1, <1>3 DEF Accelerate
<1>5. QED
  BY <1>4 DEF ApplyMovement

-----------------------------------------------------------------------------
(* The event queue. *)

LEMMA QueueStep ==
  ASSUME TypeOK, Queued, QueueEvent
  PROVE  /\ queue' \in [Slots -> 0..MaxEvents]
         /\ qhead' \in Slots /\ qtail' \in Slots /\ total' \in 0..MaxEvents
         /\ Queued'
<1> DEFINE Q == QueueSize
           next == After(qhead, Q)
<1>1. /\ Q \in Nat \ {0} /\ qhead \in 0..(Q - 1) /\ qtail \in 0..(Q - 1)
      /\ total \in Nat /\ total < MaxEvents /\ MaxEvents \in Nat
      /\ queue \in [0..(Q - 1) -> 0..MaxEvents]
  BY MouseAssumption DEF TypeOK, Slots, QueueEvent
<1>2. next \in 0..(Q - 1) /\ (qhead + 1) % Q = next
  BY <1>1, RingSteps
<1>3. (qtail + 1) % Q = After(qtail, Q) /\ After(qtail, Q) \in 0..(Q - 1)
  BY <1>1, RingSteps
<1>4. /\ total' = total + 1
      /\ queue' = [queue EXCEPT ![qhead] = total + 1]
      /\ qhead' = next
      /\ qtail' = IF next = qtail THEN After(qtail, Q) ELSE qtail
  BY <1>2, <1>3 DEF QueueEvent
<1>5. /\ queue' \in [Slots -> 0..MaxEvents]
      /\ qhead' \in Slots /\ qtail' \in Slots /\ total' \in 0..MaxEvents
  <2>1. total' \in 0..MaxEvents
    BY <1>1, <1>4
  <2>2. queue' \in [Slots -> 0..MaxEvents]
    BY <1>1, <1>4, <2>1 DEF Slots
  <2>3. qhead' \in Slots /\ qtail' \in Slots
    BY <1>1, <1>2, <1>3, <1>4 DEF Slots
  <2>4. QED
    BY <2>1, <2>2, <2>3
<1>6. \A i \in 1..Waiting : queue[Before(qhead, i, Q)] = total - i + 1
  BY DEF Queued
<1>7. Waiting' <= Waiting + 1 /\ Waiting' \in 0..(Q - 1) /\ Waiting \in 0..(Q - 1)
  <2>1. qhead' \in 0..(Q - 1) /\ qtail' \in 0..(Q - 1)
    BY <1>1, <1>2, <1>3, <1>4
  <2>2. PICK q \in Nat, h \in Nat, t \in Nat, g \in Nat, u \in Nat :
          q = Q /\ h = qhead /\ t = qtail /\ g = qhead' /\ u = qtail'
    BY <1>1, <2>1
  <2>3. q > 0 /\ h < q /\ t < q
    BY <1>1, <2>2
  <2>4. g = IF h = q - 1 THEN 0 ELSE h + 1
    BY <1>4, <2>2 DEF After
  <2>5. u = IF g = t THEN IF t = q - 1 THEN 0 ELSE t + 1 ELSE t
    BY <1>4, <2>2 DEF After
  <2>6. PICK w \in Int, v \in Int :
          /\ w = IF t <= h THEN h - t ELSE h - t + q
          /\ v = IF u <= g THEN g - u ELSE g - u + q
    <3>1. h - t \in Int /\ h - t + q \in Int /\ g - u \in Int /\ g - u + q \in Int
      OBVIOUS
    <3>2. QED
      BY <3>1, Zenon
  <2>7. v <= w + 1 /\ v \in 0..(q - 1) /\ w \in 0..(q - 1)
    <3>1. CASE t <= h
      BY <2>3, <2>4, <2>5, <2>6, <3>1
    <3>2. CASE ~(t <= h)
      BY <2>3, <2>4, <2>5, <2>6, <3>2
    <3>3. QED
      BY <3>1, <3>2
  <2>8. Waiting = w /\ Waiting' = v
    BY <2>2, <2>6 DEF Waiting
  <2>9. QED
    BY <2>2, <2>7, <2>8
<1>8. ASSUME NEW i \in 1..Waiting'
      PROVE  queue'[Before(qhead', i, Q)] = total' - i + 1
  <2>1. CASE i = 1
    <3>1. Before(qhead', i, Q) = qhead
      BY <1>1, <1>4, <2>1 DEF Before, After
    <3>2. QED
      BY <1>1, <1>4, <2>1, <3>1
  <2>2. CASE i # 1
    <3>1. i - 1 \in 1..Waiting /\ i - 1 < Q
      BY <1>1, <1>7, <2>2
    <3>2. Before(qhead', i, Q) = Before(qhead, i - 1, Q)
      BY <1>1, <1>4, <1>7, <2>2 DEF Before, After
    <3>3. Before(qhead, i - 1, Q) # qhead /\ Before(qhead, i - 1, Q) \in 0..(Q - 1)
      BY <1>1, <3>1 DEF Before
    <3>4. queue'[Before(qhead, i - 1, Q)] = queue[Before(qhead, i - 1, Q)]
      BY <1>1, <1>4, <3>3
    <3>5. queue[Before(qhead, i - 1, Q)] = total - (i - 1) + 1
      BY <1>6, <3>1
    <3>6. QED
      BY <1>1, <1>4, <3>2, <3>4, <3>5
  <2>3. QED
    BY <2>1, <2>2
<1>9. Queued'
  BY <1>8 DEF Queued
<1>10. QED
  BY <1>5, <1>9

LEMMA GetEventStep ==
  ASSUME TypeOK, Queued, GetEvent
  PROVE  qtail' \in Slots /\ Queued'
<1>1. /\ QueueSize \in Nat \ {0}
      /\ qhead \in 0..(QueueSize - 1) /\ qtail \in 0..(QueueSize - 1)
      /\ qhead # qtail /\ UNCHANGED <<qhead, queue, total>>
  BY MouseAssumption DEF TypeOK, Slots, GetEvent
<1>2. qtail' = After(qtail, QueueSize) /\ qtail' \in 0..(QueueSize - 1)
  BY <1>1, RingSteps DEF GetEvent
<1>3. Waiting' = Waiting - 1 /\ Waiting \in Nat
  BY <1>1, <1>2 DEF Waiting, After
<1>4. \A i \in 1..Waiting' : i \in 1..Waiting
  BY <1>3
<1>5. QED
  BY <1>1, <1>2, <1>4 DEF Queued, Slots

-----------------------------------------------------------------------------
(* The bytes of the PS/2 mouse. *)

(* Once the pipe is empty, the packet that is read and that which the mouse *)
(* sends are at the same byte unless one was cut.                           *)
LEMMA EmptyChained ==
  ASSUME pipe' = <<>>, ~cut' => at' = idx'
  PROVE  ~cut' => Chained'
BY DEF Chained

LEMMA ByteStep ==
  ASSUME TypeOK, Len(pipe) < Pipe, ~cut => Chained, Byte
  PROVE  /\ pipe' \in Seq(Bytes) /\ Len(pipe') < Pipe
         /\ at' \in Places /\ cut' \in BOOLEAN
         /\ ~cut' => Chained'
<1>1. /\ pipe \in Seq(Bytes) /\ Len(pipe) \in Nat /\ Pipe \in Nat
      /\ Size \in Nat \ {0} /\ at \in 0..(Size - 1) /\ idx \in 0..(Size - 1)
      /\ Size > 1
  BY MouseAssumption DEF TypeOK, Bytes, Places
<1>2. at' = After(at, Size) /\ at' \in 0..(Size - 1)
  BY <1>1, RingSteps DEF Byte
<1>3. PICK start \in BOOLEAN :
        LET full == Len(pipe) = Pipe - 1 IN
        /\ pipe' = IF full THEN <<>> ELSE Append(pipe, [place |-> at, start |-> start])
        /\ cut' = (cut \/ full \/ (at = 0 /\ ~start))
  BY DEF Byte
<1> DEFINE r == [place |-> at, start |-> start]
<1>4. r \in Bytes /\ r.place = at /\ r.start = start
  BY <1>1 DEF Bytes, Places
<1>5. idx' = idx
  BY DEF Byte
<1> HIDE DEF r
<1>6. CASE Len(pipe) = Pipe - 1
  <2>1. pipe' = <<>> /\ cut'
    BY <1>3, <1>6
  <2>2. pipe' \in Seq(Bytes) /\ Len(pipe') = 0
    BY <2>1
  <2>3. 0 < Pipe /\ cut' \in BOOLEAN
    BY <1>1, <1>3, MouseAssumption DEF TypeOK
  <2>4. QED
    BY <1>2, <2>1, <2>2, <2>3 DEF Places
<1>7. CASE Len(pipe) # Pipe - 1
  <2>1. pipe' = Append(pipe, r) /\ cut' = (cut \/ (at = 0 /\ ~start))
    BY <1>3, <1>7 DEF r
  <2>2. /\ pipe' \in Seq(Bytes) /\ Len(pipe') = Len(pipe) + 1
        /\ \A i \in 1..Len(pipe) : pipe'[i] = pipe[i]
        /\ pipe'[Len(pipe) + 1] = r
    BY <1>1, <1>4, <2>1
  <2>3. Len(pipe') < Pipe
    BY <1>1, <1>7, <2>2
  <2>4. cut' \in BOOLEAN
    BY <2>1 DEF TypeOK
  <2>5. ASSUME ~cut'
        PROVE  Chained'
    <3>1. Chained /\ (at = 0 => start)
      BY <2>1, <2>5
    <3>2. ASSUME NEW i \in 1..(Len(pipe') - 1)
          PROVE  pipe'[i + 1].place = After(pipe'[i].place, Size)
      <4>1. CASE i = Len(pipe)
        BY <1>1, <1>4, <2>2, <3>1, <4>1 DEF Chained
      <4>2. CASE i # Len(pipe)
        <5>1. i \in 1..(Len(pipe) - 1) /\ i \in 1..Len(pipe) /\ i + 1 \in 1..Len(pipe)
          BY <1>1, <2>2, <4>2
        <5>2. QED
          BY <2>2, <3>1, <5>1 DEF Chained
      <4>3. QED
        BY <4>1, <4>2
    <3>3. pipe'[1].place = idx'
      <4>1. CASE Len(pipe) = 0
        BY <1>4, <1>5, <2>2, <3>1, <4>1 DEF Chained
      <4>2. CASE Len(pipe) # 0
        <5>1. 1 \in 1..Len(pipe) /\ Len(pipe) > 0
          BY <1>1, <4>2
        <5>2. QED
          BY <1>5, <2>2, <3>1, <5>1 DEF Chained
      <4>3. QED
        BY <4>1, <4>2
    <3>4. at' = After(pipe'[Len(pipe')].place, Size)
      BY <1>2, <1>4, <2>2
    <3>5. ASSUME NEW i \in 1..Len(pipe'), pipe'[i].place = 0
          PROVE  pipe'[i].start
      <4>1. CASE i = Len(pipe) + 1
        BY <1>4, <2>2, <3>1, <3>5, <4>1
      <4>2. CASE i # Len(pipe) + 1
        <5>1. i \in 1..Len(pipe)
          BY <1>1, <2>2, <4>2
        <5>2. QED
          BY <2>2, <3>1, <3>5, <5>1 DEF Chained
      <4>3. QED
        BY <4>1, <4>2
    <3>6. Len(pipe') # 0
      BY <1>1, <2>2
    <3>7. QED
      BY <3>2, <3>3, <3>4, <3>5, <3>6 DEF Chained
  <2>6. QED
    BY <1>2, <2>2, <2>3, <2>4, <2>5 DEF Places
<1>8. QED
  BY <1>6, <1>7

LEMMA FeedStep ==
  ASSUME TypeOK, Len(pipe) < Pipe, ~cut => Chained, Feed
  PROVE  /\ pipe' \in Seq(Bytes) /\ Len(pipe') < Pipe
         /\ idx' \in Places
         /\ ~cut' => Chained'
<1>1. /\ pipe \in Seq(Bytes) /\ Len(pipe) \in Nat /\ Pipe \in Nat
      /\ Size \in {3, 4} /\ at \in 0..(Size - 1) /\ idx \in 0..(Size - 1)
  BY MouseAssumption DEF TypeOK, Bytes, Places
<1>2. pipe # <<>> /\ pipe' = Tail(pipe) /\ UNCHANGED <<at, cut>>
  BY DEF Feed
<1>3. /\ pipe' \in Seq(Bytes) /\ Len(pipe) > 0 /\ Len(pipe') = Len(pipe) - 1
      /\ \A i \in 1..Len(pipe') : pipe'[i] = pipe[i + 1]
      /\ Head(pipe) = pipe[1]
  BY <1>1, <1>2
<1>4. 1 % Size = 1
  BY <1>1
<1>5. \/ idx = 0 /\ idx' = IF Head(pipe).start THEN 1 ELSE 0
      \/ idx \in 1..(Size - 2) /\ idx' = idx + 1
      \/ idx = Size - 1 /\ idx' = 0
  BY <1>4 DEF Feed
<1>6. idx' \in Places
  BY <1>1, <1>5 DEF Places
<1>7. ASSUME ~cut'
      PROVE  Chained'
  <2>1. Chained
    BY <1>2, <1>7
  <2>2. pipe[1].place = idx /\ (idx = 0 => pipe[1].start)
    <3>1. 1 \in 1..Len(pipe)
      BY <1>1, <1>3
    <3>2. QED
      BY <1>3, <2>1, <3>1 DEF Chained
  <2>3. idx' = After(idx, Size)
    BY <1>1, <1>3, <1>5, <2>2 DEF After
  <2>4. ASSUME NEW i \in 1..(Len(pipe') - 1)
        PROVE  pipe'[i + 1].place = After(pipe'[i].place, Size)
    <3>1. /\ i + 1 \in 1..(Len(pipe) - 1)
          /\ i \in 1..Len(pipe') /\ i + 1 \in 1..Len(pipe')
      BY <1>1, <1>3
    <3>2. QED
      BY <1>3, <2>1, <3>1 DEF Chained
  <2>5. ASSUME Len(pipe') > 0
        PROVE  /\ pipe'[1].place = idx'
               /\ at' = After(pipe'[Len(pipe')].place, Size)
    <3>1. 1 \in 1..(Len(pipe) - 1) /\ 1 \in 1..Len(pipe') /\ Len(pipe') \in 1..Len(pipe')
          /\ Len(pipe') + 1 = Len(pipe)
      BY <1>1, <1>3, <2>5
    <3>2. pipe[1 + 1].place = After(pipe[1].place, Size)
      BY <2>1, <3>1 DEF Chained
    <3>3. pipe'[1] = pipe[1 + 1] /\ pipe'[Len(pipe')] = pipe[Len(pipe)]
      BY <1>3, <3>1
    <3>4. at = After(pipe[Len(pipe)].place, Size)
      BY <1>3, <2>1 DEF Chained
    <3>5. QED
      BY <1>2, <2>2, <2>3, <3>2, <3>3, <3>4
  <2>6. ASSUME Len(pipe') = 0
        PROVE  at' = idx'
    <3>1. Len(pipe) = 1
      BY <1>1, <1>3, <2>6
    <3>2. at = After(pipe[1].place, Size)
      BY <1>3, <2>1, <3>1 DEF Chained
    <3>3. QED
      BY <1>2, <2>2, <2>3, <3>2
  <2>7. ASSUME NEW i \in 1..Len(pipe'), pipe'[i].place = 0
        PROVE  pipe'[i].start
    <3>1. i + 1 \in 1..Len(pipe)
      BY <1>1, <1>3
    <3>2. QED
      BY <1>3, <2>1, <2>7, <3>1 DEF Chained
  <2>8. QED
    BY <2>4, <2>5, <2>6, <2>7 DEF Chained
<1>8. QED
  BY <1>1, <1>3, <1>6, <1>7

-----------------------------------------------------------------------------
(* The steps. *)

(* A relative report moves the pointer on the screen and enters one event. *)
LEMMA RelativeStep ==
  ASSUME IInv, Relative, limit' = limit
  PROVE  /\ x' \in 0..(limit' - 1) /\ x' \in Int
         /\ button' \in BOOLEAN /\ settled' \in BOOLEAN
         /\ queue' \in [Slots -> 0..MaxEvents]
         /\ qhead' \in Slots /\ qtail' \in Slots /\ total' \in 0..MaxEvents
         /\ Queued'
<1>1. x \in Int /\ limit \in Nat \ {0} /\ accel \in BOOLEAN
  BY MouseAssumption DEF IInv, TypeOK
<1>2. PICK d \in Deltas : x' = Clamp(ApplyMovement(Accelerate(d)), limit)
  BY DEF Relative
<1>3. x' \in 0..(limit - 1)
  BY <1>1, <1>2, MovedInt, ClampInside
<1>4. button' \in BOOLEAN /\ settled' \in BOOLEAN
  BY DEF Relative, UpdateButtons, IInv, TypeOK
<1>5. /\ queue' \in [Slots -> 0..MaxEvents]
      /\ qhead' \in Slots /\ qtail' \in Slots /\ total' \in 0..MaxEvents
      /\ Queued'
  BY QueueStep DEF Relative, IInv
<1>6. QED
  BY <1>1, <1>3, <1>4, <1>5

LEMMA InitIInv == Init => IInv
<1> SUFFICES ASSUME Init
             PROVE  IInv
  OBVIOUS
<1>1. /\ limit \in Limits /\ limit \in Nat \ {0} /\ x = limit \div 2
      /\ accel = FALSE /\ button = FALSE /\ settled = TRUE
      /\ ps2 = FALSE /\ vm = FALSE
      /\ pipe = <<>> /\ at = 0 /\ idx = 0 /\ cut = FALSE
      /\ queue = [i \in Slots |-> 0] /\ qhead = 0 /\ qtail = 0 /\ total = 0
  BY MouseAssumption DEF Init
<1>2. x \in 0..(limit - 1)
  BY <1>1
<1>3. 0 \in Slots /\ 0 \in Places /\ 0 \in 0..MaxEvents /\ 0 < Pipe
  BY MouseAssumption DEF Slots, Places
<1>4. pipe \in Seq(Bytes) /\ Len(pipe) = 0
  BY <1>1
<1>5. TypeOK
  <2>1. x \in Int /\ Len(pipe) <= Pipe
    BY <1>1, <1>3, <1>4, MouseAssumption
  <2>2. queue \in [Slots -> 0..MaxEvents]
    BY <1>1, <1>3
  <2>3. QED
    BY <1>1, <1>3, <1>4, <2>1, <2>2 DEF TypeOK, Bytes
<1>6. Queued
  BY <1>1 DEF Queued, Waiting
<1>7. Chained
  BY <1>1, <1>4 DEF Chained
<1>8. QED
  BY <1>2, <1>3, <1>4, <1>5, <1>6, <1>7 DEF IInv

LEMMA IInvInductive == IInv /\ [Next]_vars => IInv'
<1> SUFFICES ASSUME IInv, [Next]_vars
             PROVE  IInv'
  OBVIOUS
<1>0. /\ TypeOK /\ Len(pipe) < Pipe /\ x \in 0..(limit - 1) /\ Queued
      /\ ~cut => Chained
      /\ Pipe \in Nat /\ 0 < Pipe
      /\ <<>> \in Seq(Bytes) /\ Len(<<>>) = 0
      /\ 0 \in Places
  BY MouseAssumption DEF IInv, Places
<1>1. CASE Ps2Init
  <2>1. /\ ps2' = TRUE /\ idx' = 0 /\ pipe' = <<>> /\ at' \in Places /\ cut' = (at' # 0)
        /\ UNCHANGED <<x, limit, accel, button, settled, vm, queue, qhead, qtail, total>>
    BY <1>1 DEF Ps2Init
  <2>2. ~cut' => Chained'
    BY <2>1, EmptyChained
  <2>3. TypeOK'
    BY <1>0, <2>1 DEF TypeOK, Bytes
  <2>4. QED
    BY <1>0, <2>1, <2>2, <2>3 DEF IInv, Queued, Waiting
<1>2. CASE Byte
  <2>1. /\ pipe' \in Seq(Bytes) /\ Len(pipe') < Pipe
        /\ at' \in Places /\ cut' \in BOOLEAN
        /\ ~cut' => Chained'
    BY <1>0, <1>2, ByteStep
  <2>2. UNCHANGED <<x, limit, accel, button, settled, ps2, vm, idx, queue, qhead, qtail, total>>
    BY <1>2 DEF Byte
  <2>3. Len(pipe') <= Pipe
    BY <1>0, <2>1
  <2>4. TypeOK'
    BY <1>0, <2>1, <2>2, <2>3 DEF TypeOK, Bytes
  <2>5. QED
    BY <1>0, <2>1, <2>2, <2>4 DEF IInv, Queued, Waiting
<1>3. CASE Feed
  <2>1. /\ pipe' \in Seq(Bytes) /\ Len(pipe') < Pipe /\ idx' \in Places
        /\ ~cut' => Chained'
    BY <1>0, <1>3, FeedStep
  <2>2. UNCHANGED <<limit, accel, ps2, vm, at, cut>>
    BY <1>3 DEF Feed
  <2>3. Len(pipe') <= Pipe
    BY <1>0, <2>1
  <2>4. CASE UNCHANGED pointer
    <3>1. TypeOK'
      BY <1>0, <2>1, <2>2, <2>3, <2>4 DEF TypeOK, Bytes, pointer
    <3>2. QED
      BY <1>0, <2>1, <2>2, <2>4, <3>1 DEF IInv, Queued, Waiting, pointer
  <2>5. CASE Relative
    <3>1. /\ x' \in 0..(limit' - 1) /\ x' \in Int
          /\ button' \in BOOLEAN /\ settled' \in BOOLEAN
          /\ queue' \in [Slots -> 0..MaxEvents]
          /\ qhead' \in Slots /\ qtail' \in Slots /\ total' \in 0..MaxEvents
          /\ Queued'
      BY <2>2, <2>5, RelativeStep
    <3>2. TypeOK'
      BY <1>0, <2>1, <2>2, <2>3, <3>1 DEF TypeOK, Bytes
    <3>3. QED
      BY <2>1, <3>1, <3>2 DEF IInv
  <2>6. QED
    BY <1>3, <2>4, <2>5 DEF Feed
<1>4. CASE Resync
  <2>1. /\ idx' = 0 /\ pipe' = <<>> /\ cut' = (cut \/ at # 0)
        /\ UNCHANGED <<limit, accel, ps2, vm, at>> /\ UNCHANGED pointer
    BY <1>4 DEF Resync
  <2>2. ~cut' => Chained'
    BY <2>1, EmptyChained
  <2>3. TypeOK'
    BY <1>0, <2>1 DEF TypeOK, Bytes, pointer
  <2>4. QED
    BY <1>0, <2>1, <2>2, <2>3 DEF IInv, Queued, Waiting, pointer
<1>5. CASE VmmouseEnable
  BY <1>0, <1>5 DEF VmmouseEnable, IInv, TypeOK, Queued, Waiting, Chained, stream, pointer
<1>6. CASE VmmousePoll
  <2>1. /\ pipe' = <<>> /\ cut' = (cut \/ pipe # <<>> \/ at # 0)
        /\ UNCHANGED <<limit, accel, ps2, vm, at, idx>>
    BY <1>6 DEF VmmousePoll
  <2>2. ~cut' => Chained'
    <3>1. ~cut' => Len(pipe) = 0 /\ Chained
      BY <1>0, <2>1
    <3>2. ~cut' => at' = idx'
      BY <2>1, <3>1 DEF Chained
    <3>3. QED
      BY <2>1, <3>2, EmptyChained
  <2>3. /\ x' \in 0..(limit' - 1) /\ x' \in Int
        /\ button' \in BOOLEAN /\ settled' \in BOOLEAN
        /\ queue' \in [Slots -> 0..MaxEvents]
        /\ qhead' \in Slots /\ qtail' \in Slots /\ total' \in 0..MaxEvents
        /\ Queued'
    <3>1. CASE Relative
      BY <2>1, <3>1, RelativeStep
    <3>2. CASE /\ \E raw \in Absolutes : x' = Clamp((raw * limit) \div 3, limit)
               /\ UpdateButtons /\ QueueEvent
      <4>1. limit \in Nat \ {0}
        BY <1>0, MouseAssumption DEF TypeOK
      <4>2. PICK raw \in Absolutes : x' = Clamp((raw * limit) \div 3, limit)
        BY <3>2
      <4>3. (raw * limit) \div 3 \in Int
        BY <4>1 DEF Absolutes
      <4>4. x' \in 0..(limit - 1)
        BY <4>1, <4>2, <4>3, ClampInside
      <4>5. button' \in BOOLEAN /\ settled' \in BOOLEAN
        BY <1>0, <3>2 DEF UpdateButtons, TypeOK
      <4>6. QED
        BY <1>0, <2>1, <3>2, <4>1, <4>4, <4>5, QueueStep
    <3>3. QED
      BY <1>6, <3>1, <3>2 DEF VmmousePoll
  <2>4. TypeOK'
    BY <1>0, <2>1, <2>3 DEF TypeOK, Bytes
  <2>5. QED
    BY <1>0, <2>1, <2>2, <2>3, <2>4 DEF IInv
<1>7. CASE UsbReport
  <2>1. UNCHANGED <<limit, accel, ps2, vm>> /\ UNCHANGED stream /\ Relative
    BY <1>7 DEF UsbReport
  <2>2. /\ x' \in 0..(limit' - 1) /\ x' \in Int
        /\ button' \in BOOLEAN /\ settled' \in BOOLEAN
        /\ queue' \in [Slots -> 0..MaxEvents]
        /\ qhead' \in Slots /\ qtail' \in Slots /\ total' \in 0..MaxEvents
        /\ Queued'
    BY <2>1, RelativeStep
  <2>3. TypeOK'
    BY <1>0, <2>1, <2>2 DEF TypeOK, stream
  <2>4. QED
    BY <1>0, <2>1, <2>2, <2>3 DEF IInv, Chained, stream
<1>8. CASE Settle \/ SetAcceleration
  BY <1>0, <1>8 DEF Settle, SetAcceleration, IInv, TypeOK, Queued, Waiting, Chained,
     stream, pointer
<1>9. CASE GetEvent
  <2>1. qtail' \in Slots /\ Queued'
    BY <1>0, <1>9, GetEventStep
  <2>2. /\ UNCHANGED <<x, limit, accel, button, settled, ps2, vm, queue, qhead, total>>
        /\ UNCHANGED stream
    BY <1>9 DEF GetEvent
  <2>3. TypeOK'
    BY <1>0, <2>1, <2>2 DEF TypeOK, stream
  <2>4. QED
    BY <1>0, <2>1, <2>2, <2>3 DEF IInv, Chained, stream
<1>10. CASE SetBounds
  <2>1. /\ limit' \in Limits /\ x' = Clamp(x, limit')
        /\ UNCHANGED <<accel, button, settled, ps2, vm, queue, qhead, qtail, total>>
        /\ UNCHANGED stream
    BY <1>10 DEF SetBounds
  <2>2. x' \in 0..(limit' - 1) /\ x' \in Int
    <3>1. limit' \in Nat \ {0} /\ x \in Int
      BY <1>0, <2>1, MouseAssumption DEF TypeOK
    <3>2. QED
      BY <2>1, <3>1, ClampInside
  <2>3. TypeOK'
    BY <1>0, <2>1, <2>2 DEF TypeOK, stream
  <2>4. QED
    BY <1>0, <2>1, <2>2, <2>3 DEF IInv, Queued, Waiting, Chained, stream
<1>11. CASE UNCHANGED vars
  BY <1>0, <1>11 DEF vars, IInv, TypeOK, Queued, Waiting, Chained
<1>12. QED
  BY <1>1, <1>2, <1>3, <1>4, <1>5, <1>6, <1>7, <1>8, <1>9, <1>10, <1>11 DEF Next

-----------------------------------------------------------------------------
(* Theorems. *)

LEMMA IInvHolds == Spec => []IInv
  BY InitIInv, IInvInductive, PTL DEF Spec

(* The state of drivers/mouse.c has its types: the indices of the packet,   *)
(* the ring and the queue stay in their arrays.                             *)
THEOREM TypeCorrect == Spec => []TypeOK
<1>1. IInv => TypeOK
  BY DEF IInv
<1>2. QED
  BY <1>1, IInvHolds, PTL

(* The pointer of drivers/mouse.c is on the screen whatever moved it and    *)
(* however the resolution changed; its queue holds the newest events, in    *)
(* order; and ps2_feed_byte reads packets from their first byte as long as  *)
(* no part of one was lost.                                                 *)
THEOREM PointerIsSound == Spec => []PointerSound
<1>1. IInv => PointerSound
  <2> SUFFICES ASSUME IInv
               PROVE  PointerSound
    OBVIOUS
  <2>1. /\ QueueSize \in Nat \ {0} /\ qhead \in 0..(QueueSize - 1)
        /\ qtail \in 0..(QueueSize - 1)
    BY MouseAssumption DEF IInv, TypeOK, Slots
  <2>2. Held = Waiting /\ Waiting \in 0..(QueueSize - 1)
    <3>1. CASE qtail <= qhead
      <4>1. qhead - qtail + QueueSize \in QueueSize..(2 * QueueSize - 1)
        BY <2>1, <3>1
      <4>2. Held = (qhead - qtail + QueueSize) - QueueSize
        BY <2>1, <4>1, ModFacts DEF Held
      <4>3. QED
        BY <2>1, <3>1, <4>2 DEF Waiting
    <3>2. CASE ~(qtail <= qhead)
      <4>1. qhead - qtail + QueueSize \in 0..(QueueSize - 1)
        BY <2>1, <3>2
      <4>2. Held = qhead - qtail + QueueSize
        BY <2>1, <4>1, ModFacts DEF Held
      <4>3. QED
        BY <3>2, <4>1, <4>2 DEF Waiting
    <3>3. QED
      BY <3>1, <3>2
  <2>3. ASSUME NEW i \in 1..Held
        PROVE  queue[(qhead - i + QueueSize) % QueueSize] = total - i + 1
    <3>1. i \in 1..QueueSize /\ i \in 1..Waiting
      BY <2>1, <2>2
    <3>2. (qhead - i + QueueSize) % QueueSize = Before(qhead, i, QueueSize)
      BY <2>1, <3>1, RingSteps
    <3>3. QED
      BY <3>1, <3>2 DEF IInv, Queued
  <2>4. ~cut => /\ Len(pipe) > 0 => Head(pipe).place = idx
                /\ Len(pipe) = 0 => at = idx
    <3>1. pipe \in Seq(Bytes)
      BY DEF IInv, TypeOK, Bytes
    <3>2. Len(pipe) > 0 => Head(pipe) = pipe[1]
      BY <3>1
    <3>3. QED
      BY <3>2 DEF IInv, Chained
  <2>5. QED
    BY <2>3, <2>4 DEF IInv, PointerSound
<1>2. QED
  BY <1>1, IInvHolds, PTL

-----------------------------------------------------------------------------
(* Finding addresses.                                                        *)

LEMMA LeastExists ==
  ASSUME NEW S \in SUBSET Nat, S # {}
  PROVE  \E m \in S : \A n \in S : m <= n
<1> DEFINE Less == {p \in Nat \X Nat : p[1] < p[2]}
<1>1. OpToRel(<, Nat) = Less
  BY DEF OpToRel
<1>2. IsWellFoundedOn(Less, Nat)
  BY <1>1, NatLessThanWellFounded, Zenon
<1>3. \E m \in S : \A n \in S : ~ (<<n, m>> \in Less)
  <2> HIDE DEF Less
  <2> QED BY <1>2, WFMin
<1>4. PICK m \in S : \A n \in S : ~ (<<n, m>> \in Less)
  BY <1>3
<1>5. ASSUME NEW n \in S
      PROVE  m <= n
  <2>1. ~ (n < m)
    BY <1>4
  <2>2. m \in Nat /\ n \in Nat
    OBVIOUS
  <2>3. QED
    BY <2>1, <2>2
<1>6. QED
  BY <1>5

(* Every frame says whose it is, and every ARP entry is its neighbour's.     *)
AirOK == air \subseteq Net!Frames
ArpEntry == {e \in [ip : Neighbours, mac : Neighbours] : e.mac = e.ip}

(* While a name is looked up the last result is that of another name; else   *)
(* it is that of the cached name, whose address is there.  Unless an answer  *)
(* for another name was on its way, all that answers say is of this name.    *)
Asking == pc \in {"query", "query wait"}
NameOK ==
  /\ last_dns_host \in Hosts \cup {Net!None}
  /\ Asking => /\ last_dns_host \in Hosts \ StaticHosts
               /\ result # Net!Nothing => result.host # last_dns_host
  /\ ~Asking /\ result # Net!Nothing => result.host = last_dns_host /\ last_dns_ip # Net!None
  /\ ~foreign =>
       /\ \A f \in air : f.kind = "answer" => f.from = last_dns_host
       /\ last_dns_ip \in {Net!None, last_dns_host}
       /\ result # Net!Nothing /\ result.host = last_dns_host => result.ip = result.host

NetOK == AirOK /\ arp_cache \in Seq(ArpEntry) /\ NameOK

LEMMA NetworkSteps ==
  ASSUME [DevicesNext]_all
  PROVE  [Net!Next]_netVars
BY DEF DevicesNext, all, drivers, stores, services, MouseNext, UsbNext, CardNext,
  NetworkNext, DiskNext, VolumeNext, PicturesNext, SetupNext, TlsNext, HttpNext, WgetNext

LEMMA FrameIs ==
  ASSUME NEW f \in Net!Frames
  PROVE  /\ f.kind = "answer" => f.from \in Hosts /\ f.value = f.from
         /\ f.kind = "arp" => f.from \in Neighbours /\ f.value = f.from
BY DEF Net!Frames, Net!Offer, Net!Answer, Net!Reply, Net!OfHost, Net!MacOf

(* arp_add_entry keeps the cache one of right entries. *)
LEMMA ArpAdded ==
  ASSUME arp_cache \in Seq(ArpEntry), NEW n \in Neighbours
  PROVE  Net!arp_add_entry(n, n) \in Seq(ArpEntry)
<1> DEFINE e == [ip |-> n, mac |-> n]
<1>1. e \in ArpEntry
  BY DEF ArpEntry
<1>2. Net!arp_add_entry(n, n) = IF Len(arp_cache) < CacheSize THEN Append(arp_cache, e)
                                ELSE [arp_cache EXCEPT ![1] = e]
  BY DEF Net!arp_add_entry
<1> HIDE DEF e
<1>3. Append(arp_cache, e) \in Seq(ArpEntry)
  BY <1>1
<1>4. CASE ~(Len(arp_cache) < CacheSize)
  <2>1. 1 \in 1..Len(arp_cache)
    BY <1>4, NetworkAssumption
  <2>2. [arp_cache EXCEPT ![1] = e] \in Seq(ArpEntry)
    BY <1>1, <2>1, ExceptSeq
  <2>3. QED
    BY <1>2, <1>4, <2>2
<1>5. QED
  BY <1>2, <1>3, <1>4

(* arp_resolve finds an entry of that address, so the right one. *)
LEMMA ArpResolved ==
  ASSUME arp_cache \in Seq(ArpEntry), NEW n \in Neighbours
  PROVE  Net!arp_resolve(n) \in {Net!None, n}
<1> DEFINE S == {i \in 1..Len(arp_cache) : arp_cache[i].ip = n}
           m == CHOOSE i \in S : \A j \in S : i <= j
<1>1. Net!arp_resolve(n) = IF S = {} THEN Net!None ELSE arp_cache[m].mac
  BY DEF Net!arp_resolve
<1>2. CASE S # {}
  <2>1. S \subseteq Nat
    OBVIOUS
  <2>2. \E i \in S : \A j \in S : i <= j
    <3> HIDE DEF S
    <3>1. QED
      BY <1>2, <2>1, LeastExists
  <2>3. m \in S
    <3> HIDE DEF S
    <3>1. QED
      BY <2>2
  <2> HIDE DEF m
  <2>4. m \in 1..Len(arp_cache) /\ arp_cache[m].ip = n
    BY <2>3
  <2>5. arp_cache[m] \in ArpEntry
    BY <2>4
  <2>6. QED
    BY <1>1, <2>4, <2>5 DEF ArpEntry
<1>3. QED
  BY <1>1, <1>2

(* One frame, through ip_receive. *)
LEMMA Received ==
  ASSUME NetOK, NEW f \in air, Net!ip_receive(f)
  PROVE  /\ AirOK' /\ air' \subseteq air /\ arp_cache' \in Seq(ArpEntry)
         /\ last_dns_ip # Net!None => last_dns_ip' # Net!None
         /\ last_dns_ip' = last_dns_ip \/ (f.kind = "answer" /\ last_dns_ip' = f.from)
<1>1. f \in Net!Frames /\ arp_cache \in Seq(ArpEntry)
  BY DEF NetOK, AirOK
<1>2. /\ f.kind = "answer" => f.from \in Hosts /\ f.value = f.from
      /\ f.kind = "arp" => f.from \in Neighbours /\ f.value = f.from
  BY <1>1, FrameIs
<1>3. air' \subseteq air
  BY DEF Net!ip_receive
<1>4. arp_cache' \in Seq(ArpEntry)
  <2>1. arp_cache' = IF f.kind = "arp" THEN Net!arp_add_entry(f.from, f.value) ELSE arp_cache
    BY DEF Net!ip_receive, Net!arp_process
  <2>2. QED
    BY <1>1, <1>2, <2>1, ArpAdded
<1>5. last_dns_ip' = IF f.kind = "answer" THEN f.value ELSE last_dns_ip
  BY DEF Net!ip_receive, Net!udp_process
<1>6. Net!None \notin Hosts
  BY NetworkAssumption DEF Net!None
<1>7. QED
  BY <1>2, <1>3, <1>4, <1>5, <1>6 DEF NetOK, AirOK

(* A bring-up, and what the world does. *)
LEMMA BringUpStep ==
  ASSUME NetOK,
         Net!Lose \/ Net!Speak \/ Net!BringUp \/ Net!Discover \/ Net!WaitEnds \/ Net!GiveUp
  PROVE  NetOK'
<1>1. /\ UNCHANGED <<arp_cache, last_dns_host, last_dns_ip, result, foreign>>
      /\ (~Asking /\ ~Asking') \/ pc' = pc
      /\ \A f \in air' : f \in air \/ (f \in Net!Frames /\ f.kind # "answer")
  <2>1. CASE Net!Lose \/ Net!Speak
    BY <2>1 DEF Net!Lose, Net!Speak, Net!Frames, Net!Reply
  <2>2. CASE Net!Discover
    <3>1. /\ UNCHANGED <<arp_cache, last_dns_host, last_dns_ip, result, foreign>>
          /\ \E offered \in SUBSET Offers : air' = air \cup {Net!Offer(a) : a \in offered}
      BY <2>2 DEF Net!Discover
    <3>2. \A a \in Offers : Net!Offer(a) \in Net!Frames /\ Net!Offer(a).kind # "answer"
      BY DEF Net!Frames, Net!Offer
    <3>3. \A f \in air' : f \in air \/ (f \in Net!Frames /\ f.kind # "answer")
      BY <3>1, <3>2
    <3>4. pc \in {"ensure", "start", "autostart"}
      BY <2>2 DEF Net!Discover, Net!Discovering
    <3>5. pc' = pc \/ pc' = [ensure |-> "ensure wait", start |-> "start wait",
                            autostart |-> "autostart wait"][pc]
      BY <2>2 DEF Net!Discover
    <3>6. ~Asking /\ ~Asking'
      <4> DEFINE next == [ensure |-> "ensure wait", start |-> "start wait",
                          autostart |-> "autostart wait"]
      <4>1. next.ensure = "ensure wait" /\ next.start = "start wait"
            /\ next.autostart = "autostart wait"
        OBVIOUS
      <4>2. pc' = pc \/ pc' = next[pc]
        BY <3>5
      <4> HIDE DEF next
      <4>3. pc' \in {pc, "ensure wait", "start wait", "autostart wait"}
        BY <3>4, <4>1, <4>2
      <4>4. QED
        BY <3>4, <4>3 DEF Asking
    <3>7. QED
      BY <3>1, <3>3, <3>6
  <2>3. CASE Net!WaitEnds
    <3>1. pc' \in {"idle", "ensure", "start", "autostart"} /\ ~Asking
      BY <2>3 DEF Net!WaitEnds, Net!Waiting, Net!Again, Asking
    <3>2. QED
      BY <2>3, <3>1 DEF Net!WaitEnds, Asking
  <2>4. CASE Net!BringUp \/ Net!GiveUp
    BY <2>4 DEF Net!BringUp, Net!GiveUp, Net!Discovering, Asking
  <2>5. QED
    BY <2>1, <2>2, <2>3, <2>4
<1>3. AirOK'
  BY <1>1 DEF NetOK, AirOK, Net!Frames
<1>4. Asking' <=> Asking
  BY <1>1 DEF Asking
<1>5. NameOK'
  BY <1>1, <1>4, Zenon DEF NetOK, NameOK
<1>6. QED
  BY <1>1, <1>3, <1>5 DEF NetOK

LEMMA PollStep ==
  ASSUME NetOK, Net!IdlePoll \/ Net!WaitPoll
  PROVE  NetOK'
<1>1. PICK f \in air : Net!ip_receive(f)
  BY DEF Net!IdlePoll, Net!WaitPoll
<1>2. UNCHANGED <<last_dns_host, result, foreign>> /\ ~Asking /\ ~Asking'
  BY DEF Net!IdlePoll, Net!WaitPoll, Net!Waiting, Asking
<1>3. /\ AirOK' /\ air' \subseteq air /\ arp_cache' \in Seq(ArpEntry)
      /\ last_dns_ip # Net!None => last_dns_ip' # Net!None
      /\ last_dns_ip' = last_dns_ip \/ (f.kind = "answer" /\ last_dns_ip' = f.from)
  BY <1>1, Received
<1>4. NameOK'
  BY <1>1, <1>2, <1>3 DEF NetOK, NameOK
<1>5. QED
  BY <1>3, <1>4 DEF NetOK

LEMMA LookupStep ==
  ASSUME NetOK, Net!Lookup
  PROVE  NetOK'
<1>1. PICK h \in Hosts :
        \/ /\ last_dns_host = h /\ last_dns_ip # Net!None
           /\ result' = [host |-> h, ip |-> last_dns_ip]
           /\ UNCHANGED <<last_dns_host, last_dns_ip, pc, left, foreign>>
        \/ /\ result' = [host |-> h, ip |-> h] /\ last_dns_host' = h /\ last_dns_ip' = h
           /\ foreign' = (\E f \in air : f.kind = "answer" /\ f.from # h)
           /\ UNCHANGED <<pc, left>>
        \/ /\ ~(last_dns_host = h /\ last_dns_ip # Net!None) /\ h \notin StaticHosts
           /\ Net!Ask(h)
  BY DEF Net!Lookup, Net!OfHost
<1>2. pc = "idle" /\ ~Asking /\ UNCHANGED <<air, arp_cache>>
  BY DEF Net!Lookup, Asking
<1>3. h # Net!None
  BY NetworkAssumption DEF Net!None
<1>4. CASE /\ last_dns_host = h /\ last_dns_ip # Net!None
           /\ result' = [host |-> h, ip |-> last_dns_ip]
           /\ UNCHANGED <<last_dns_host, last_dns_ip, pc, left, foreign>>
  BY <1>2, <1>4 DEF NetOK, AirOK, NameOK, Asking
<1>5. CASE /\ result' = [host |-> h, ip |-> h] /\ last_dns_host' = h /\ last_dns_ip' = h
           /\ foreign' = (\E f \in air : f.kind = "answer" /\ f.from # h)
           /\ UNCHANGED <<pc, left>>
  BY <1>2, <1>3, <1>5 DEF NetOK, AirOK, NameOK, Asking
<1>6. CASE /\ ~(last_dns_host = h /\ last_dns_ip # Net!None) /\ h \notin StaticHosts
           /\ Net!Ask(h)
  <2>1. /\ last_dns_host' = h /\ last_dns_ip' = Net!None /\ pc' = "query" /\ result' = result
        /\ foreign' = (\E f \in air : f.kind = "answer" /\ f.from # h)
    BY <1>6 DEF Net!Ask
  <2>2. result # Net!Nothing => result.host # h
    BY <1>2, <1>6 DEF NetOK, NameOK
  <2>3. Asking'
    BY <2>1 DEF Asking
  <2>4. QED
    BY <1>2, <1>6, <2>1, <2>2, <2>3 DEF NetOK, AirOK, NameOK
<1>7. QED
  BY <1>1, <1>4, <1>5, <1>6

LEMMA QueryStep ==
  ASSUME NetOK, Net!Query
  PROVE  NetOK'
<1>1. /\ Asking /\ Asking' /\ UNCHANGED <<arp_cache, last_dns_host, last_dns_ip, result, foreign>>
      /\ air' \in {air, air \cup {Net!Answer(last_dns_host)}}
  BY DEF Net!Query, Asking
<1>2. last_dns_host \in Hosts \ StaticHosts
  BY <1>1 DEF NetOK, NameOK
<1>3. \A f \in air' : f \in air \/ f = Net!Answer(last_dns_host)
  BY <1>1
<1>4. Net!Answer(last_dns_host).kind = "answer" /\ Net!Answer(last_dns_host).from = last_dns_host
  BY DEF Net!Answer
<1>5. \A f \in air' : f.kind = "answer" => f \in air \/ f.from = last_dns_host
  BY <1>3, <1>4
<1>6. NameOK'
  BY <1>1, <1>2, <1>5, Zenon DEF NetOK, NameOK
<1>7. AirOK'
  <2>1. Net!Answer(last_dns_host) \in Net!Frames
    BY <1>1, <1>2, <1>3 DEF Net!Frames
  <2>2. QED
    BY <1>3, <2>1 DEF NetOK, AirOK, Net!Frames
<1>8. QED
  BY <1>1, <1>6, <1>7 DEF NetOK

LEMMA QueryPollStep ==
  ASSUME NetOK, Net!QueryPoll
  PROVE  NetOK'
<1>1. PICK f \in air : Net!ip_receive(f)
  BY DEF Net!QueryPoll
<1>2. Asking /\ UNCHANGED <<last_dns_host, foreign>>
  BY DEF Net!QueryPoll, Asking
<1>3. /\ AirOK' /\ air' \subseteq air /\ arp_cache' \in Seq(ArpEntry)
      /\ last_dns_ip' = last_dns_ip \/ (f.kind = "answer" /\ last_dns_ip' = f.from)
  BY <1>1, Received
<1>4. ~foreign => last_dns_ip' \in {Net!None, last_dns_host}
  BY <1>1, <1>3 DEF NetOK, NameOK
<1>5. CASE /\ last_dns_ip' # Net!None /\ pc' = "idle"
           /\ result' = [host |-> last_dns_host, ip |-> last_dns_ip']
  BY <1>2, <1>3, <1>4, <1>5 DEF NetOK, NameOK, Asking
<1>6. CASE UNCHANGED <<pc, result>>
  <2>1. Asking'
    BY <1>2, <1>6 DEF Asking
  <2>2. QED
    BY <1>2, <1>3, <1>4, <1>6, <2>1 DEF NetOK, NameOK
<1>7. QED
  BY <1>5, <1>6 DEF Net!QueryPoll

LEMMA NetStep ==
  ASSUME NetOK, [Net!Next]_netVars
  PROVE  NetOK'
<1>1. CASE Net!QueryTimeout
  <2>1. Asking /\ Asking' /\ UNCHANGED <<air, arp_cache, last_dns_host, last_dns_ip, result, foreign>>
    BY <1>1 DEF Net!QueryTimeout, Asking
  <2>2. QED
    BY <2>1 DEF NetOK, AirOK, NameOK
<1>2. CASE Net!LookupFails
  <2>1. ~Asking' /\ result' = Net!Nothing /\ UNCHANGED <<air, arp_cache, last_dns_host, last_dns_ip, foreign>>
    BY <1>2 DEF Net!LookupFails, Asking
  <2>2. QED
    BY <2>1 DEF NetOK, AirOK, NameOK, Net!Nothing
<1>3. CASE UNCHANGED netVars
  BY <1>3 DEF netVars, NetOK, AirOK, NameOK, Asking
<1>4. QED
  BY <1>1, <1>2, <1>3, BringUpStep, PollStep, LookupStep, QueryStep, QueryPollStep DEF Net!Next

(* However frames are lost, delayed, repeated and answered out of turn, a    *)
(* packet goes to the hardware address of its own neighbour, and dns_resolve *)
(* returns the address of the name it was asked for, unless an answer for    *)
(* another name was still on its way when the name was set.                  *)
THEOREM AddressIsRight == DevicesSpec => []RightAddress
<1>1. DevicesInit => NetOK
  BY DEF DevicesInit, Net!Init, NetOK, AirOK, NameOK, Asking
<1>2. NetOK /\ [DevicesNext]_all => NetOK'
  BY NetStep, NetworkSteps
<1>3. NetOK => RightAddress
  <2>1. SUFFICES ASSUME NetOK PROVE RightAddress
    OBVIOUS
  <2>2. \A n \in Neighbours : Net!ip_send(n) \in {Net!MacOf(n), Net!Broadcast, Net!Router}
    BY <2>1, ArpResolved DEF NetOK, Net!ip_send, Net!MacOf
  <2>3. result # Net!Nothing /\ result.host = last_dns_host /\ ~foreign
          => result.ip = Net!OfHost(result.host)
    BY <2>1 DEF NetOK, NameOK, Net!OfHost
  <2>4. QED
    BY <2>2, <2>3 DEF RightAddress, Net!RightAddress
<1>4. QED
  BY <1>1, <1>2, <1>3, PTL DEF DevicesSpec

-----------------------------------------------------------------------------
(* Frames through the rings of a network adapter.                            *)

LEMMA CardSizes ==
  /\ Buffers \in Nat \ {0} /\ RingSize \in Nat \ {0} /\ Buffers <= RingSize
  /\ Words \in Nat \ {0} /\ Buffers < Words /\ Words % RingSize = 0
  /\ Start \in Nat /\ Stop \in Nat /\ Start + 1 < Stop
BY CardAssumption

LEMMA Division ==
  ASSUME NEW N \in Nat \ {0}
  PROVE  /\ \A a \in Int : a \div N \in Int /\ a = N * (a \div N) + (a % N) /\ (a % N) \in 0..(N - 1)
         /\ \A q \in Int : \A r \in 0..(N - 1) : (N * q + r) % N = r
OBVIOUS

(* A multiple of N more or less does not change the remainder.               *)
LEMMA ModShift ==
  ASSUME NEW N \in Nat \ {0}, NEW w \in Int, w % N = 0, NEW k \in Int
  PROVE  (w + k) % N = k % N
<1> DEFINE q == w \div N  p == k \div N  r == k % N
<1>1. q \in Int /\ p \in Int /\ r \in 0..(N - 1) /\ w = N * q + 0 /\ k = N * p + r
  BY Division
<1>2. N * q + N * p = N * (q + p) /\ q + p \in Int
  BY <1>1
<1>3. w + k = N * (q + p) + r
  BY <1>1, <1>2
<1> HIDE DEF q, p, r
<1>4. (N * (q + p) + r) % N = r
  BY <1>1, <1>2, Division
<1>5. QED
  BY <1>3, <1>4 DEF r

LEMMA ModDiffers ==
  ASSUME NEW N \in Nat \ {0}, NEW a \in Int, NEW m \in 1..(N - 1)
  PROVE  (a + m) % N # a % N
<1> DEFINE c == a + m  q == c \div N  p == a \div N  r == a % N
<1>1. c \in Int /\ q \in Int /\ p \in Int /\ r \in 0..(N - 1) /\ a = N * p + r
  BY Division
<1>2. SUFFICES ASSUME c % N = r PROVE FALSE
  OBVIOUS
<1>3. a + m = N * q + r
  <2>1. c = N * (c \div N) + (c % N)
    <3> HIDE DEF c
    <3> QED BY <1>1, Division
  <2>2. QED
    BY <1>2, <2>1
<1>4. N * q - N * p = N * (q - p) /\ q - p \in Int
  BY <1>1
<1>5. m = N * (q - p)
  BY <1>1, <1>3, <1>4
<1> HIDE DEF q, p, r
<1>6. CASE q - p <= 0
  <2>1. N * (q - p) <= 0
    BY <1>4, <1>6
  <2>2. QED
    BY <2>1, <1>5
<1>7. CASE q - p >= 1
  <2>1. N * (q - p) >= N
    BY <1>4, <1>7
  <2>2. QED
    BY <2>1, <1>5
<1>8. QED
  BY <1>4, <1>6, <1>7

(* How many entries a ring holds between two indices, and which.             *)
Gap(i, j) == IF i <= j THEN j - i ELSE j - i + Words
Indices == 0..(Words - 1)
Queue(ring, i, j) == [k \in 1..Gap(i, j) |-> ring[(i + k - 1) % RingSize]]
RingOf(S) == [0..(RingSize - 1) -> S]

LEMMA GapIs ==
  ASSUME NEW i \in Indices, NEW j \in Indices
  PROVE  /\ Gap(i, j) \in Indices /\ Gap(i, j) = (j - i) % Words
         /\ Gap(i, j) = 0 <=> i = j
<1>1. Words \in Nat \ {0}
  BY CardSizes
<1>2. Gap(i, j) \in Indices /\ (Gap(i, j) = 0 <=> i = j)
  BY <1>1 DEF Gap, Indices
<1>3. j - i = Words * 0 + Gap(i, j) \/ j - i = Words * (-1) + Gap(i, j)
  BY <1>1 DEF Gap, Indices
<1>4. Gap(i, j) = (j - i) % Words
  <2>1. \A q \in Int : (Words * q + Gap(i, j)) % Words = Gap(i, j)
    BY <1>1, <1>2, Division DEF Indices
  <2>2. QED
    BY <1>3, <2>1
<1>5. QED
  BY <1>2, <1>4

LEMMA BumpIs ==
  ASSUME NEW i \in Indices
  PROVE  /\ Card!Bump(i) \in Indices
         /\ Card!Bump(i) = (IF i = Words - 1 THEN 0 ELSE i + 1)
         /\ \A k \in Int : (Card!Bump(i) + k) % RingSize = (i + 1 + k) % RingSize
         /\ \A j \in Indices : i # j => Gap(Card!Bump(i), j) = Gap(i, j) - 1
         /\ \A j \in Indices : Gap(j, i) + 1 < Words => Gap(j, Card!Bump(i)) = Gap(j, i) + 1
<1>1. Words \in Nat \ {0} /\ RingSize \in Nat \ {0}
  BY CardSizes
<1>3. Card!Bump(i) = (IF i = Words - 1 THEN 0 ELSE i + 1)
  <2>1. \A r \in Indices : (Words * 1 + r) % Words = r /\ (Words * 0 + r) % Words = r
    BY <1>1, Division DEF Indices
  <2>2. CASE i = Words - 1
    <3>1. i + 1 = Words * 1 + 0 /\ 0 \in Indices
      BY <1>1, <2>2 DEF Indices
    <3>2. QED
      BY <2>1, <2>2, <3>1 DEF Card!Bump
  <2>3. CASE i # Words - 1
    <3>1. i + 1 = Words * 0 + (i + 1) /\ i + 1 \in Indices
      BY <1>1, <2>3 DEF Indices
    <3>2. QED
      BY <2>1, <2>3, <3>1 DEF Card!Bump
  <2>4. QED
    BY <2>2, <2>3
<1>4. Card!Bump(i) \in Indices
  BY <1>1, <1>3 DEF Indices
<1>5. ASSUME NEW k \in Int
      PROVE  (Card!Bump(i) + k) % RingSize = (i + 1 + k) % RingSize
  <2>1. CASE i = Words - 1
    <3>1. i + 1 + k = Words + k /\ Card!Bump(i) + k = k
      BY <1>1, <1>3, <2>1
    <3>2. (Words + k) % RingSize = k % RingSize
      <4>1. Words \in Int /\ Words % RingSize = 0
        BY CardSizes
      <4>2. QED
        BY <1>1, <4>1, ModShift, Zenon
    <3>3. QED
      BY <3>1, <3>2
  <2>2. CASE i # Words - 1
    BY <1>3, <2>2
  <2>3. QED
    BY <2>1, <2>2
<1>6. \A j \in Indices : i # j => Gap(Card!Bump(i), j) = Gap(i, j) - 1
  BY <1>1, <1>3 DEF Gap, Indices
<1>7. \A j \in Indices : Gap(j, i) + 1 < Words => Gap(j, Card!Bump(i)) = Gap(j, i) + 1
  BY <1>1, <1>3 DEF Gap, Indices
<1>8. QED
  BY <1>3, <1>4, <1>5, <1>6, <1>7

(* The oldest entry is taken.                                                *)
LEMMA QueuePops ==
  ASSUME NEW S, NEW ring \in RingOf(S), NEW i \in Indices, NEW j \in Indices, i # j
  PROVE  /\ Queue(ring, i, j)[1] = ring[i % RingSize]
         /\ Gap(Card!Bump(i), j) = Gap(i, j) - 1
         /\ \A k \in 1..(Gap(i, j) - 1) : Queue(ring, Card!Bump(i), j)[k] = Queue(ring, i, j)[k + 1]
<1>1. Gap(i, j) \in Nat \ {0}
  BY GapIs DEF Indices
<1>2. Gap(Card!Bump(i), j) = Gap(i, j) - 1
  BY BumpIs
<1>3. ASSUME NEW k \in 1..(Gap(i, j) - 1)
      PROVE  Queue(ring, Card!Bump(i), j)[k] = Queue(ring, i, j)[k + 1]
  <2>1. (Card!Bump(i) + (k - 1)) % RingSize = (i + 1 + (k - 1)) % RingSize
    BY BumpIs
  <2>2. Card!Bump(i) + k - 1 = Card!Bump(i) + (k - 1) /\ i + (k + 1) - 1 = i + 1 + (k - 1)
    BY BumpIs DEF Indices
  <2>3. k \in 1..Gap(Card!Bump(i), j) /\ k + 1 \in 1..Gap(i, j)
    BY <1>1, <1>2
  <2>4. QED
    BY <2>1, <2>2, <2>3 DEF Queue
<1>4. i + 1 - 1 = i /\ 1 \in 1..Gap(i, j)
  BY <1>1 DEF Indices
<1>5. QED
  BY <1>2, <1>3, <1>4 DEF Queue

(* An entry is put behind the newest.                                        *)
LEMMA QueuePushes ==
  ASSUME NEW S, NEW ring \in RingOf(S), NEW i \in Indices, NEW j \in Indices, NEW v \in S,
         Gap(i, j) < RingSize, Gap(i, j) + 1 < Words
  PROVE  LET new == Card!Put(ring, j % RingSize, v)
         IN  /\ new \in RingOf(S)
             /\ Gap(i, Card!Bump(j)) = Gap(i, j) + 1
             /\ \A k \in 1..Gap(i, j) : Queue(new, i, Card!Bump(j))[k] = Queue(ring, i, j)[k]
             /\ Queue(new, i, Card!Bump(j))[Gap(i, j) + 1] = v
<1> DEFINE new == Card!Put(ring, j % RingSize, v)
<1>1. Gap(i, j) \in Nat /\ i \in Int /\ j \in Int /\ Words \in Nat \ {0} /\ RingSize \in Nat \ {0}
  BY GapIs, CardSizes DEF Indices
<1>2. Gap(i, Card!Bump(j)) = Gap(i, j) + 1
  BY BumpIs
<1>3. new \in RingOf(S) /\ j % RingSize \in 0..(RingSize - 1)
  BY <1>1, Division DEF Card!Put, RingOf
<1>4. (i + Gap(i, j)) % RingSize = j % RingSize
  <2>1. CASE i <= j
    BY <1>1, <2>1 DEF Gap
  <2>2. CASE ~(i <= j)
    <3>1. i + Gap(i, j) = Words + j
      BY <1>1, <2>2 DEF Gap
    <3>2. QED
      BY <1>1, <3>1, CardSizes, ModShift
  <2>3. QED
    BY <2>1, <2>2
<1>5. ASSUME NEW k \in 1..Gap(i, j)
      PROVE  Queue(new, i, Card!Bump(j))[k] = Queue(ring, i, j)[k]
  <2> DEFINE a == i + k - 1  m == Gap(i, j) - (k - 1)
  <2>1. a \in Int /\ m \in 1..(RingSize - 1)
    BY <1>1
  <2>2. a + m = i + Gap(i, j)
    BY <1>1
  <2>3. (i + k - 1) % RingSize # j % RingSize
    BY <1>1, <1>4, <2>1, <2>2, ModDiffers
  <2>4. (i + k - 1) % RingSize \in 0..(RingSize - 1) /\ k \in 1..Gap(i, Card!Bump(j))
    <3>1. i + k - 1 \in Int
      BY <1>1
    <3>2. QED
      <4>1. \A e \in Int : (e % RingSize) \in 0..(RingSize - 1)
        BY <1>1, Division, Zenon
      <4>2. QED
        <5>1. (i + k - 1) % RingSize \in 0..(RingSize - 1)
          BY <3>1, <4>1, Zenon
        <5>2. k \in 1..Gap(i, Card!Bump(j))
          BY <1>1, <1>2
        <5>3. QED
          BY <5>1, <5>2
  <2>5. QED
    BY <2>3, <2>4 DEF Queue, Card!Put, RingOf
<1>6. Queue(new, i, Card!Bump(j))[Gap(i, j) + 1] = v
  <2>1. i + (Gap(i, j) + 1) - 1 = i + Gap(i, j) /\ Gap(i, j) + 1 \in 1..Gap(i, Card!Bump(j))
    BY <1>1, <1>2
  <2>2. QED
    BY <1>3, <1>4, <2>1 DEF Queue, Card!Put, RingOf
<1>7. QED
  BY <1>2, <1>3, <1>5, <1>6
(* The buffers on their way back, oldest first, and behind them those that   *)
(* the device has still to fill: together they are all buffers, each once.   *)
ToFill == Gap(seen, availIdx)
ToRead == Gap(lastUsed, usedIdx)
Circle == [k \in 1..Buffers |->
             IF k <= ToRead THEN Queue(used, lastUsed, usedIdx)[k]
             ELSE Queue(avail, seen, availIdx)[k - ToRead]]

RingsOK ==
  /\ avail \in RingOf(Card!Bufs) /\ used \in RingOf(Card!Bufs)
  /\ seen \in Indices /\ availIdx \in Indices /\ lastUsed \in Indices /\ usedIdx \in Indices
  /\ ToRead + ToFill = Buffers

Once ==
  /\ \A k \in 1..Buffers : Circle[k] \in Card!Bufs
  /\ \A k, l \in 1..Buffers : Circle[k] = Circle[l] => k = l
  /\ \A b \in Card!Bufs : \E k \in 1..Buffers : Circle[k] = b

(* They hold the frames from the last one read to the last one that arrived: *)
(* n counts the frames before each.                                          *)
Counts(n, from, upto, held, m) ==
  /\ n \in [1..(m + 1) -> Nat] /\ n[1] = from /\ n[m + 1] = upto
  /\ \A k \in 1..m : \/ held[k] = Card!Skipped /\ n[k + 1] = n[k]
                     \/ held[k] = n[k] + 1 /\ n[k + 1] = n[k] + 1
Contents == [k \in 1..ToRead |-> buffer[Circle[k]]]
ArrivedOK == kind = "virtio" => \E n : Counts(n, read, arrived, Contents, ToRead)

RxOK == RingsOK /\ Once /\ DOMAIN buffer = Card!Bufs /\ ArrivedOK

LEMMA CircleIs ==
  ASSUME RingsOK
  PROVE  /\ ToRead \in 0..Buffers /\ ToFill \in 0..Buffers
         /\ \A k \in 1..ToRead : Circle[k] = Queue(used, lastUsed, usedIdx)[k]
         /\ \A k \in 1..ToFill : Circle[ToRead + k] = Queue(avail, seen, availIdx)[k]
<1>1. ToRead \in 0..Buffers /\ ToFill \in 0..Buffers
  <2>1. Gap(seen, availIdx) \in Indices /\ Gap(lastUsed, usedIdx) \in Indices
    BY GapIs DEF RingsOK
  <2>2. QED
    BY <2>1, CardSizes DEF RingsOK, ToRead, ToFill, Indices
<1>2. QED
  BY <1>1, CardSizes DEF Circle, RingsOK

(* The device fills a buffer: the circle stays.                              *)
LEMMA FillStep ==
  ASSUME RxOK, Card!DeviceFills
  PROVE  RxOK'
<1> DEFINE b == avail[seen % RingSize]
<1>1. seen # availIdx /\ kind = "virtio" /\ RingsOK
      /\ seen' = Card!Bump(seen) /\ usedIdx' = Card!Bump(usedIdx)
      /\ used' = Card!Put(used, usedIdx % RingSize, b)
      /\ UNCHANGED <<kind, avail, availIdx, lastUsed, read>>
  BY DEF Card!DeviceFills, RxOK
<1>2. ToRead \in 0..(Buffers - 1) /\ ToFill \in 1..Buffers /\ b = Circle[ToRead + 1] /\ b \in Card!Bufs
  <2>1. ToFill # 0
    BY <1>1, GapIs DEF RingsOK, ToFill
  <2>2. Queue(avail, seen, availIdx)[1] = b
    BY <1>1, QueuePops DEF RingsOK
  <2>3. ToRead \in 0..(Buffers - 1) /\ ToFill \in 1..Buffers
    BY <2>1, <1>1, CircleIs, CardSizes DEF RingsOK
  <2>4. ToRead + 1 \in 1..Buffers
    BY <2>3, CardSizes
  <2>5. QED
    BY <2>2, <2>3, <2>4, <1>1, CircleIs DEF RxOK, Once
<1>3. ToFill' = ToFill - 1
      /\ \A k \in 1..(ToFill - 1) :
           Queue(avail, seen, availIdx)'[k] = Queue(avail, seen, availIdx)[k + 1]
  BY <1>1, QueuePops DEF RingsOK, ToFill
<1>4. /\ used' \in RingOf(Card!Bufs)
      /\ ToRead' = ToRead + 1
      /\ \A k \in 1..ToRead : Queue(used, lastUsed, usedIdx)'[k] = Queue(used, lastUsed, usedIdx)[k]
      /\ Queue(used, lastUsed, usedIdx)'[ToRead + 1] = b
  <2>1. Gap(lastUsed, usedIdx) < RingSize /\ Gap(lastUsed, usedIdx) + 1 < Words
    BY <1>2, CardSizes DEF ToRead
  <2>2. QED
    BY <1>1, <1>2, <2>1, QueuePushes DEF RingsOK, ToRead
<1>5. RingsOK'
  BY <1>1, <1>2, <1>3, <1>4, BumpIs, CardSizes DEF RingsOK
<1>6. \A k \in 1..Buffers : Circle'[k] = Circle[k]
  <2> SUFFICES ASSUME NEW k \in 1..Buffers PROVE Circle'[k] = Circle[k]
    OBVIOUS
  <2>1. CASE k <= ToRead
    <3>1. k \in 1..ToRead /\ k \in 1..ToRead'
      BY <2>1, <1>2, <1>4
    <3>2. Circle'[k] = Queue(used, lastUsed, usedIdx)'[k]
      BY <3>1, <1>4, CardSizes DEF Circle
    <3>3. QED
      BY <3>1, <3>2, <1>1, <1>4, CircleIs
  <2>2. CASE k = ToRead + 1
    BY <2>2, <1>2, <1>4, CardSizes DEF Circle
  <2>3. CASE k > ToRead + 1
    <3>1. k - ToRead - 1 \in 1..(ToFill - 1) /\ k - ToRead' = k - ToRead - 1 /\ ~(k <= ToRead')
      BY <2>3, <1>1, <1>2, <1>4 DEF RingsOK
    <3>2. Circle'[k] = Queue(avail, seen, availIdx)'[k - ToRead - 1]
      BY <3>1 DEF Circle
    <3>3. (k - ToRead - 1) + 1 = k - ToRead /\ k - ToRead \in 1..ToFill /\ ToRead + (k - ToRead) = k
      BY <3>1, <1>2
    <3>4. QED
      BY <3>1, <3>2, <3>3, <1>1, <1>3, CircleIs
  <2>4. QED
    BY <2>1, <2>2, <2>3, <1>2
<1>7. Once' /\ DOMAIN buffer' = Card!Bufs
  <2>1. Once'
    BY <1>6 DEF RxOK, Once, Card!Bufs
  <2>2. DOMAIN buffer' = Card!Bufs
    BY DEF RxOK, Card!DeviceFills, Card!Put
  <2>3. QED
    BY <2>1, <2>2
<1>8. PICK n : Counts(n, read, arrived, Contents, ToRead)
  BY <1>1 DEF RxOK, ArrivedOK
<1>9. \A k \in 1..ToRead : Contents'[k] = Contents[k]
  <2> SUFFICES ASSUME NEW k \in 1..ToRead PROVE Contents'[k] = Contents[k]
    OBVIOUS
  <2>1. k \in 1..Buffers /\ ToRead + 1 \in 1..Buffers /\ k # ToRead + 1 /\ k \in 1..ToRead'
    BY <1>2, <1>4, CardSizes
  <2>2. Circle[k] # b /\ Circle[k] \in Card!Bufs /\ Circle'[k] = Circle[k]
    BY <2>1, <1>2, <1>6 DEF RxOK, Once
  <2>3. buffer'[Circle[k]] = buffer[Circle[k]]
    BY <2>2 DEF Card!DeviceFills, Card!Put, RxOK
  <2>4. QED
    BY <2>1, <2>2, <2>3 DEF Contents
<1>10. Contents'[ToRead + 1] = buffer'[b]
  BY <1>2, <1>4, <1>6, CardSizes DEF Contents
<1>11. \/ buffer'[b] = arrived + 1 /\ arrived' = arrived + 1
       \/ buffer'[b] = Card!Skipped /\ arrived' = arrived
  BY <1>2 DEF Card!DeviceFills, Card!Put, RxOK
<1>12. ArrivedOK'
  <2> DEFINE m == [k \in 1..(ToRead + 2) |-> IF k <= ToRead + 1 THEN n[k] ELSE arrived']
  <2>1. Counts(m, read', arrived', Contents', ToRead')
    <3>1. n \in [1..(ToRead + 1) -> Nat] /\ n[1] = read /\ n[ToRead + 1] = arrived /\ ToRead \in Nat
      BY <1>2, <1>8 DEF Counts
    <3>2. arrived' \in Nat /\ arrived \in Nat
      BY <3>1, <1>11
    <3>3. m \in [1..(ToRead' + 1) -> Nat] /\ m[1] = read' /\ m[ToRead' + 1] = arrived'
      <4>1. PICK q \in Nat : q = ToRead
        BY <3>1
      <4>2. m \in [1..(q + 2) -> Nat]
        <5> SUFFICES ASSUME NEW k \in 1..(q + 2) PROVE m[k] \in Nat
          BY <4>1
        <5>1. CASE k <= q + 1
          BY <3>1, <4>1, <5>1
        <5>2. CASE ~(k <= q + 1)
          BY <3>2, <4>1, <5>2
        <5>3. QED
          BY <5>1, <5>2
      <4>3. m[1] = read /\ m[q + 2] = arrived'
        <5>1. 1 \in 1..(q + 2) /\ q + 2 \in 1..(q + 2) /\ 1 <= q + 1 /\ ~(q + 2 <= q + 1)
          OBVIOUS
        <5>2. QED
          BY <3>1, <4>1, <5>1
      <4> HIDE DEF m
      <4>4. ToRead' + 1 = q + 2 /\ read' = read
        BY <1>1, <1>4, <4>1
      <4>5. QED
        BY <4>2, <4>3, <4>4
    <3>4. ASSUME NEW k \in 1..ToRead'
          PROVE  \/ Contents'[k] = Card!Skipped /\ m[k + 1] = m[k]
                 \/ Contents'[k] = m[k] + 1 /\ m[k + 1] = m[k] + 1
      <4>1. CASE k <= ToRead
        <5>1. k \in 1..ToRead /\ m[k] = n[k] /\ m[k + 1] = n[k + 1]
          BY <4>1, <3>1
        <5>2. QED
          BY <5>1, <1>8, <1>9 DEF Counts
      <4>2. CASE k = ToRead + 1
        <5>1. m[k] = arrived /\ m[k + 1] = arrived'
          BY <4>2, <3>1
        <5>2. QED
          BY <5>1, <4>2, <1>10, <1>11, <3>2
      <4>3. QED
        BY <4>1, <4>2, <3>1, <1>4
    <3>5. QED
      BY <3>3, <3>4, Zenon DEF Counts
  <2>2. QED
    BY <2>1, Zenon DEF ArrivedOK
<1>13. QED
  BY <1>5, <1>7, <1>12 DEF RxOK

(* The driver reads the oldest buffer and hands it over again: the circle    *)
(* turns by one.                                                             *)
LEMMA ReadStep ==
  ASSUME RxOK, Card!wifi_recv
  PROVE  RxOK' /\ (read' # read => read' = read + 1)
<1> DEFINE b == used[lastUsed % RingSize]
<1>1. /\ usedIdx # lastUsed /\ kind = "virtio" /\ RingsOK
      /\ lastUsed' = Card!Bump(lastUsed) /\ availIdx' = Card!Bump(availIdx)
      /\ avail' = Card!Put(avail, availIdx % RingSize, b)
      /\ read' = IF buffer[b] = Card!Skipped THEN read ELSE buffer[b]
      /\ UNCHANGED <<kind, seen, used, usedIdx, buffer, arrived>>
  BY DEF Card!wifi_recv, RxOK
<1>2. ToRead \in 1..Buffers /\ ToFill \in 0..(Buffers - 1) /\ b = Circle[1] /\ b \in Card!Bufs
  <2>1. ToRead # 0
    BY <1>1, GapIs DEF RingsOK, ToRead
  <2>2. Queue(used, lastUsed, usedIdx)[1] = b
    BY <1>1, QueuePops DEF RingsOK
  <2>3. ToRead \in 1..Buffers /\ ToFill \in 0..(Buffers - 1)
    BY <2>1, <1>1, CircleIs, CardSizes DEF RingsOK
  <2>4. 1 \in 1..Buffers /\ 1 \in 1..ToRead
    BY <2>3, CardSizes
  <2>5. QED
    BY <2>2, <2>3, <2>4, <1>1, CircleIs DEF RxOK, Once
<1>3. ToRead' = ToRead - 1
      /\ \A k \in 1..(ToRead - 1) :
           Queue(used, lastUsed, usedIdx)'[k] = Queue(used, lastUsed, usedIdx)[k + 1]
  BY <1>1, QueuePops DEF RingsOK, ToRead
<1>4. /\ avail' \in RingOf(Card!Bufs)
      /\ ToFill' = ToFill + 1
      /\ \A k \in 1..ToFill : Queue(avail, seen, availIdx)'[k] = Queue(avail, seen, availIdx)[k]
      /\ Queue(avail, seen, availIdx)'[ToFill + 1] = b
  <2>1. Gap(seen, availIdx) < RingSize /\ Gap(seen, availIdx) + 1 < Words
    BY <1>2, CardSizes DEF ToFill
  <2>2. QED
    BY <1>1, <1>2, <2>1, QueuePushes DEF RingsOK, ToFill
<1>5. RingsOK'
  BY <1>1, <1>2, <1>3, <1>4, BumpIs, CardSizes DEF RingsOK
<1>6. (\A k \in 1..(Buffers - 1) : Circle'[k] = Circle[k + 1]) /\ Circle'[Buffers] = Circle[1]
  <2>1. ASSUME NEW k \in 1..(Buffers - 1)
        PROVE  Circle'[k] = Circle[k + 1]
    <3>1. CASE k <= ToRead - 1
      <4>1. k \in 1..(ToRead - 1) /\ k + 1 \in 1..ToRead /\ k <= ToRead' /\ k \in 1..Buffers
        BY <3>1, <1>2, <1>3, CardSizes
      <4>2. Circle'[k] = Queue(used, lastUsed, usedIdx)'[k]
        BY <4>1 DEF Circle
      <4>3. QED
        BY <4>1, <4>2, <1>1, <1>3, CircleIs
    <3>2. CASE k > ToRead - 1
      <4>1. k - ToRead + 1 \in 1..ToFill /\ k - ToRead' = k - ToRead + 1 /\ ~(k <= ToRead') /\ k \in 1..Buffers
            /\ ToRead + (k - ToRead + 1) = k + 1
        BY <3>2, <1>1, <1>2, <1>3, CardSizes DEF RingsOK
      <4>2. Circle'[k] = Queue(avail, seen, availIdx)'[k - ToRead + 1]
        BY <4>1 DEF Circle
      <4>3. QED
        BY <4>1, <4>2, <1>1, <1>4, CircleIs
    <3>3. QED
      BY <3>1, <3>2, <1>2
  <2>2. Circle'[Buffers] = Circle[1]
    <3>1. Buffers \in 1..Buffers /\ ~(Buffers <= ToRead') /\ Buffers - ToRead' = ToFill + 1
      BY <1>1, <1>2, <1>3, CardSizes DEF RingsOK
    <3>2. QED
      BY <3>1, <1>2, <1>4 DEF Circle
  <2>3. QED
    BY <2>1, <2>2
<1>7. Once' /\ DOMAIN buffer' = Card!Bufs
  <2> DEFINE Next1(k) == IF k = Buffers THEN 1 ELSE k + 1
  <2>1. \A k \in 1..Buffers : Circle'[k] = Circle[Next1(k)] /\ Next1(k) \in 1..Buffers
    BY <1>6, CardSizes
  <2>2. \A k, l \in 1..Buffers : Next1(k) = Next1(l) => k = l
    BY CardSizes
  <2>3. \A l \in 1..Buffers : \E k \in 1..Buffers : Next1(k) = l
    <3>1. ASSUME NEW l \in 1..Buffers
          PROVE  \E k \in 1..Buffers : Next1(k) = l
      <4>1. CASE l = 1
        <5>1. Buffers \in 1..Buffers /\ Next1(Buffers) = l
          BY <4>1, CardSizes
        <5>2. QED
          BY <5>1
      <4>2. CASE l # 1
        <5>1. l - 1 \in 1..Buffers /\ Next1(l - 1) = l
          BY <4>2, CardSizes
        <5>2. QED
          BY <5>1
      <4>3. QED
        BY <4>1, <4>2
    <3>2. QED
      BY <3>1
  <2>4. Once /\ DOMAIN buffer = Card!Bufs
    BY DEF RxOK
  <2> HIDE DEF Next1
  <2>5. \A k \in 1..Buffers : Circle'[k] \in Card!Bufs
    BY <2>1, <2>4 DEF Once
  <2>6. \A k, l \in 1..Buffers : Circle'[k] = Circle'[l] => k = l
    BY <2>1, <2>2, <2>4 DEF Once
  <2>7. \A b1 \in Card!Bufs : \E k \in 1..Buffers : Circle'[k] = b1
    BY <2>1, <2>3, <2>4 DEF Once
  <2>8. QED
    BY <2>4, <2>5, <2>6, <2>7, <1>1 DEF Once, Card!Bufs
<1>8. PICK n : Counts(n, read, arrived, Contents, ToRead)
  BY <1>1 DEF RxOK, ArrivedOK
<1>9. /\ n \in [1..(ToRead + 1) -> Nat] /\ n[1] = read /\ n[ToRead + 1] = arrived
      /\ Contents[1] = buffer[b] /\ n[2] = read' /\ (read' # read => read' = read + 1)
  <2>1. n \in [1..(ToRead + 1) -> Nat] /\ n[1] = read /\ n[ToRead + 1] = arrived
    BY <1>8 DEF Counts
  <2>2. 1 \in 1..ToRead /\ Contents[1] = buffer[b]
    BY <1>2 DEF Contents
  <2>3. \/ buffer[b] = Card!Skipped /\ n[2] = n[1]
        \/ buffer[b] = n[1] + 1 /\ n[2] = n[1] + 1
    BY <2>2, <1>8 DEF Counts
  <2>4. n[1] \in Nat /\ n[1] + 1 # 0
    BY <2>1, <1>2
  <2>5. QED
    BY <2>1, <2>2, <2>3, <2>4, <1>1 DEF Card!Skipped
<1>10. \A k \in 1..ToRead' : Contents'[k] = Contents[k + 1]
  BY <1>1, <1>2, <1>3, <1>6, CardSizes DEF Contents
<1>11. ArrivedOK'
  <2> DEFINE m == [k \in 1..ToRead |-> n[k + 1]]
  <2>1. ToRead' + 1 = ToRead /\ ToRead \in Nat \ {0} /\ ToRead' \in Nat
    BY <1>2, <1>3
  <2>2. m \in [1..(ToRead' + 1) -> Nat] /\ m[1] = read' /\ m[ToRead' + 1] = arrived'
    BY <2>1, <1>1, <1>9
  <2>3. ASSUME NEW k \in 1..ToRead'
        PROVE  \/ Contents'[k] = Card!Skipped /\ m[k + 1] = m[k]
               \/ Contents'[k] = m[k] + 1 /\ m[k + 1] = m[k] + 1
    <3>1. k \in 1..ToRead /\ k + 1 \in 1..ToRead
      <4>1. k \in Nat /\ 1 <= k /\ k <= ToRead - 1 /\ ToRead \in Nat
        BY <2>1, <1>3
      <4>2. QED
        BY <4>1
    <3>2. m[k] = n[k + 1] /\ m[k + 1] = n[(k + 1) + 1]
      BY <3>1
    <3>3. QED
      BY <3>1, <3>2, <1>8, <1>10 DEF Counts
  <2>4. Counts(m, read', arrived', Contents', ToRead')
    BY <2>2, <2>3, Zenon DEF Counts
  <2>5. QED
    BY <2>4, Zenon DEF ArrivedOK
<1>12. QED
  BY <1>5, <1>7, <1>9, <1>11 DEF RxOK

(* A buffer has one place in the circle, hence one entry in the two rings.   *)
LEMMA CircleKeepsBuffers ==
  ASSUME RxOK
  PROVE  Card!BuffersKept
<1> DEFINE Places1(ring, i, j, b) ==
             {k \in 0..(Words - 1) : k < (j - i) % Words /\ ring[(i + k) % RingSize] = b}
<1>1. RingsOK /\ Once
  BY DEF RxOK
<1>2. ToFill = (availIdx - seen) % Words /\ ToRead = (usedIdx - lastUsed) % Words
      /\ ToFill \in Nat /\ ToRead \in Nat /\ ToFill <= Buffers /\ ToRead <= Buffers
  BY <1>1, GapIs, CircleIs, CardSizes DEF RingsOK, ToFill, ToRead, Indices
<1>3. ASSUME NEW b \in Card!Bufs
      PROVE  Cardinality(Places1(avail, seen, availIdx, b))
               + Cardinality(Places1(used, lastUsed, usedIdx, b)) = 1
  <2>1. PICK k \in 1..Buffers : Circle[k] = b /\ \A l \in 1..Buffers : Circle[l] = b => l = k
    BY <1>1 DEF Once
  <2>2. Places1(used, lastUsed, usedIdx, b) = {l \in 0..(Words - 1) : l + 1 = k /\ k <= ToRead}
    <3>1. ASSUME NEW l \in 0..(Words - 1)
          PROVE  (l < ToRead /\ used[(lastUsed + l) % RingSize] = b) <=> (l + 1 = k /\ k <= ToRead)
      <4>1. CASE l < ToRead
        <5>1. l + 1 \in 1..ToRead /\ l + 1 \in 1..Buffers /\ lastUsed + (l + 1) - 1 = lastUsed + l
          BY <4>1, <1>1, <1>2 DEF RingsOK, Indices
        <5>2. Circle[l + 1] = used[(lastUsed + l) % RingSize]
          BY <5>1, <1>1, CircleIs DEF Queue, ToRead
        <5>3. QED
          BY <4>1, <5>1, <5>2, <2>1, <1>2
      <4>2. CASE ~(l < ToRead)
        BY <4>2, <1>2
      <4>3. QED
        BY <4>1, <4>2
    <3>2. QED
      BY <3>1, <1>2
  <2>3. Places1(avail, seen, availIdx, b) = {l \in 0..(Words - 1) : l + 1 + ToRead = k}
    <3>1. ASSUME NEW l \in 0..(Words - 1)
          PROVE  (l < ToFill /\ avail[(seen + l) % RingSize] = b) <=> l + 1 + ToRead = k
      <4>1. CASE l < ToFill
        <5>1. l + 1 \in 1..ToFill /\ ToRead + (l + 1) \in 1..Buffers /\ seen + (l + 1) - 1 = seen + l
          BY <4>1, <1>1, <1>2 DEF RingsOK, Indices
        <5>2. Circle[ToRead + (l + 1)] = avail[(seen + l) % RingSize]
          BY <5>1, <1>1, CircleIs DEF Queue, ToFill
        <5>3. QED
          BY <4>1, <5>1, <5>2, <2>1, <1>2
      <4>2. CASE ~(l < ToFill)
        BY <4>2, <1>1, <1>2 DEF RingsOK
      <4>3. QED
        BY <4>1, <4>2
    <3>2. QED
      BY <3>1, <1>2
  <2>4. k - 1 \in 0..(Words - 1) /\ (k > ToRead => k - ToRead - 1 \in 0..(Words - 1))
    BY <1>2, CardSizes
  <2> HIDE DEF Places1
  <2>5. CASE k <= ToRead
    <3>1. Places1(used, lastUsed, usedIdx, b) = {k - 1}
      BY <2>2, <2>4, <2>5
    <3>2. Places1(avail, seen, availIdx, b) = {}
      BY <2>3, <2>5, <1>2
    <3>3. Cardinality({}) = 0 /\ Cardinality({k - 1}) = 1
      BY FS_EmptySet, FS_Singleton, Zenon
    <3>4. QED
      BY <3>1, <3>2, <3>3
  <2>6. CASE k > ToRead
    <3>1. Places1(used, lastUsed, usedIdx, b) = {}
      BY <2>2, <2>6, <1>2
    <3>2. Places1(avail, seen, availIdx, b) = {k - ToRead - 1}
      BY <2>3, <2>4, <2>6, <1>2
    <3>3. Cardinality({}) = 0 /\ Cardinality({k - ToRead - 1}) = 1
      BY FS_EmptySet, FS_Singleton, Zenon
    <3>4. QED
      BY <3>1, <3>2, <3>3
  <2>7. QED
    BY <2>5, <2>6, <1>2
<1>4. QED
  <2>1. \A S : Card!Cardinality(S) = Cardinality(S)
    BY DEF Card!Cardinality, Cardinality
  <2>2. QED
    BY <1>3, <2>1 DEF Card!BuffersKept

(* The last entries to be sent, as many as there are buffers, name the ones  *)
(* before the free one in turn, with the last frames in them.  What earlier  *)
(* entries name has been written over.                                       *)
TxOK ==
  /\ txFree \in Card!Bufs /\ txRing \in Seq(Card!Bufs) /\ DOMAIN txBuffer = Card!Bufs
  /\ given \in Nat
  /\ \A k \in 1..Buffers : k <= Len(txRing) =>
       /\ txRing[Len(txRing) - k + 1] = Before(txFree, k, Buffers)
       /\ txBuffer[Before(txFree, k, Buffers)] = given - k + 1
  /\ kind = "ne2000" => txRing = <<>>

LEMMA PlacesBefore ==
  ASSUME NEW N \in Nat \ {0}, NEW a \in 0..(N - 1)
  PROVE  /\ Before(After(a, N), 1, N) = a
         /\ \A i \in 1..(N - 1) : /\ Before(After(a, N), i + 1, N) = Before(a, i, N)
                                  /\ Before(a, i, N) # a /\ Before(a, i, N) \in 0..(N - 1)
BY DEF Before, After

LEMMA SendStep ==
  ASSUME TxOK, Card!wifi_send
  PROVE  TxOK'
<1> DEFINE n == Len(txRing)
<1>1. /\ kind = "virtio" /\ n \in Nat /\ given \in Nat /\ given' = given + 1
      /\ txBuffer' = Card!Put(txBuffer, txFree, given + 1)
      /\ txRing' = Append(txRing, txFree)
      /\ txFree' = (txFree + 1) % Buffers /\ UNCHANGED kind
  BY DEF Card!wifi_send, TxOK
<1>2. txFree \in 0..(Buffers - 1) /\ Buffers \in Nat \ {0}
  BY CardSizes DEF TxOK, Card!Bufs
<1>3. txFree' = After(txFree, Buffers) /\ txFree' \in 0..(Buffers - 1)
  BY <1>1, <1>2, RingSteps
<1>4. txRing' \in Seq(Card!Bufs) /\ Len(txRing') = n + 1 /\ txRing'[n + 1] = txFree
      /\ \A i \in 1..n : txRing'[i] = txRing[i]
  BY <1>1 DEF TxOK
<1>5. DOMAIN txBuffer' = Card!Bufs /\ txBuffer'[txFree] = given + 1
      /\ \A b \in Card!Bufs : b # txFree => txBuffer'[b] = txBuffer[b]
  BY <1>1 DEF TxOK, Card!Put
<1>6. \A k \in 1..Buffers : k <= n => /\ txRing[n - k + 1] = Before(txFree, k, Buffers)
                                      /\ txBuffer[Before(txFree, k, Buffers)] = given - k + 1
  BY DEF TxOK
<1> HIDE DEF n
<1>7. ASSUME NEW k \in 1..Buffers, k <= n + 1
      PROVE  /\ txRing'[(n + 1) - k + 1] = Before(txFree', k, Buffers)
             /\ txBuffer'[Before(txFree', k, Buffers)] = given' - k + 1
  <2>1. CASE k = 1
    <3>1. Before(txFree', 1, Buffers) = txFree
      BY <1>2, <1>3, PlacesBefore
    <3>2. (n + 1) - k + 1 = n + 1 /\ given' - k + 1 = given + 1
      BY <2>1, <1>1
    <3>3. QED
      BY <2>1, <3>1, <3>2, <1>4, <1>5
  <2>2. CASE k # 1
    <3>1. PICK j1 \in 1..(Buffers - 1) : j1 = k - 1 /\ k = j1 + 1 /\ j1 \in 1..Buffers /\ j1 <= n
      BY <2>2, <1>1, <1>2, <1>7
    <3>2. /\ Before(After(txFree, Buffers), j1 + 1, Buffers) = Before(txFree, j1, Buffers)
          /\ Before(txFree, j1, Buffers) # txFree /\ Before(txFree, j1, Buffers) \in 0..(Buffers - 1)
      BY <1>2, PlacesBefore
    <3>3. Before(txFree', k, Buffers) = Before(txFree, j1, Buffers)
      BY <3>1, <3>2, <1>3
    <3>4. /\ (n + 1) - k + 1 = n - j1 + 1 /\ n - j1 + 1 \in 1..n
          /\ given' - k + 1 = given - j1 + 1
      BY <3>1, <1>1
    <3>5. txRing'[n - j1 + 1] = txRing[n - j1 + 1]
      BY <3>4, <1>4
    <3>6. txBuffer'[Before(txFree, j1, Buffers)] = txBuffer[Before(txFree, j1, Buffers)]
      BY <3>2, <1>5 DEF Card!Bufs
    <3>7. QED
      BY <3>1, <3>3, <3>4, <3>5, <3>6, <1>6
  <2>3. QED
    BY <2>1, <2>2
<1>8. QED
  <2>1. given' \in Nat /\ kind' # "ne2000" /\ txFree' \in Card!Bufs
    BY <1>1, <1>3 DEF Card!Bufs
  <2>2. QED
    BY <1>4, <1>5, <1>7, <2>1 DEF TxOK, Card!Bufs

LEMMA SentStep ==
  ASSUME TxOK, Card!DeviceSends
  PROVE  /\ TxOK' /\ kind # "ne2000"
         /\ Len(txRing) <= Buffers => sent' = given - Len(txRing')
<1> DEFINE n == Len(txRing)
<1>1. /\ txRing # <<>> /\ sent' = txBuffer[Head(txRing)] /\ txRing' = Tail(txRing)
      /\ UNCHANGED <<kind, txFree, txBuffer, given>>
  BY DEF Card!DeviceSends
<1>2. n \in Nat \ {0} /\ Len(txRing') = n - 1 /\ txRing' \in Seq(Card!Bufs)
      /\ Head(txRing) = txRing[1] /\ \A i \in 1..(n - 1) : txRing'[i] = txRing[i + 1]
  BY <1>1 DEF TxOK
<1>3. \A k \in 1..Buffers : k <= n => /\ txRing[n - k + 1] = Before(txFree, k, Buffers)
                                      /\ txBuffer[Before(txFree, k, Buffers)] = given - k + 1
  BY DEF TxOK
<1>4. given \in Nat /\ kind # "ne2000"
  BY <1>1 DEF TxOK
<1> HIDE DEF n
<1>5. n <= Buffers => sent' = given - (n - 1)
  <2> SUFFICES ASSUME n <= Buffers PROVE sent' = given - (n - 1)
    OBVIOUS
  <2>1. n \in 1..Buffers /\ n <= n /\ n - n + 1 = 1 /\ given - n + 1 = given - (n - 1)
    BY <1>2, <1>4, CardSizes
  <2>2. txRing[n - n + 1] = Before(txFree, n, Buffers) /\ txBuffer[Before(txFree, n, Buffers)] = given - n + 1
    BY <2>1, <1>3
  <2>3. QED
    BY <2>1, <2>2, <1>1, <1>2
<1>6. ASSUME NEW k \in 1..Buffers, k <= n - 1
      PROVE  /\ txRing'[(n - 1) - k + 1] = Before(txFree', k, Buffers)
             /\ txBuffer'[Before(txFree', k, Buffers)] = given' - k + 1
  <2>1. (n - 1) - k + 1 \in 1..(n - 1) /\ ((n - 1) - k + 1) + 1 = n - k + 1 /\ k <= n
    BY <1>2, <1>6
  <2>2. txRing'[(n - 1) - k + 1] = txRing[n - k + 1]
    BY <2>1, <1>2
  <2>3. QED
    BY <2>1, <2>2, <1>1, <1>3
<1>7. QED
  <2>1. TxOK'
    BY <1>1, <1>2, <1>4, <1>6 DEF TxOK, Card!Bufs
  <2>2. Len(txRing) <= Buffers => sent' = given - Len(txRing')
    BY <1>2, <1>5 DEF n
  <2>3. QED
    BY <2>1, <2>2, <1>4

(* NE2000: what the card and the driver know of the last frame.  If no       *)
(* earlier call left anything behind, what the card is still to send is the  *)
(* last frame, and "sent" is said of that one.                               *)
OutOK ==
  /\ trans => kind = "ne2000"
  /\ waiting => kind = "ne2000"
  /\ kind = "ne2000" => /\ sent \in Nat /\ given \in Nat /\ sent <= given
                        /\ ~late /\ trans => sent < given /\ ~ptx
                        /\ ~late /\ ptx => sent = given

(* If the card may still be busy with the frame before, an earlier call has  *)
(* left it so, and late says it.                                             *)
LEMMA SendOneStep ==
  ASSUME OutOK, Card!ne2000_send
  PROVE  OutOK' /\ Card!SentOnce
<1>1. /\ kind = "ne2000" /\ kind' = kind /\ given' = given + 1 /\ trans' = TRUE /\ waiting' = TRUE
      /\ late' = (trans \/ ptx \/ txe)
      /\ \/ UNCHANGED <<sent, ptx>>
         \/ trans /\ sent' = given + 1 /\ ptx' = TRUE
  BY DEF Card!ne2000_send
<1>2. sent \in Nat /\ given \in Nat /\ sent <= given
  BY <1>1 DEF OutOK
<1>3. sent' \in Nat /\ given' \in Nat /\ sent' <= given' /\ (sent' # sent => sent < sent')
  BY <1>1, <1>2
<1>4. ~late' => ~trans /\ ~ptx
  BY <1>1, Zenon
<1>5. ~trans /\ ~ptx => sent' = sent /\ ~ptx' /\ sent' < given'
  BY <1>1, <1>2
<1>6. OutOK'
  BY <1>1, <1>3, <1>4, <1>5 DEF OutOK
<1>7. Card!SentOnce
  BY <1>1, <1>3 DEF Card!SentOnce
<1>8. QED
  BY <1>6, <1>7

LEMMA OneSentStep ==
  ASSUME OutOK, Card!CardSends
  PROVE  OutOK' /\ Card!SentOnce
<1>1. /\ trans /\ trans' = FALSE /\ UNCHANGED <<kind, waiting, late, given>>
      /\ \/ sent' = given /\ ptx' = TRUE
         \/ UNCHANGED <<sent, ptx>>
  BY DEF Card!CardSends
<1>2. kind = "ne2000" /\ sent \in Nat /\ given \in Nat /\ sent <= given
      /\ (~late => sent < given /\ ~ptx)
  BY <1>1 DEF OutOK
<1>3. sent' \in Nat /\ sent' <= given' /\ (sent' # sent => sent < sent')
  BY <1>1, <1>2
<1>4. ~late' /\ ptx' => sent' = given'
  BY <1>1, <1>2
<1>5. OutOK'
  BY <1>1, <1>2, <1>3, <1>4 DEF OutOK
<1>6. Card!SentOnce
  BY <1>1, <1>2, <1>3 DEF Card!SentOnce
<1>7. QED
  BY <1>5, <1>6

LEMMA WaitedStep ==
  ASSUME OutOK, Card!Waited
  PROVE  OutOK' /\ (kind = "ne2000" => Card!SentOnce)
<1>1. /\ waiting /\ waiting' = FALSE /\ UNCHANGED <<kind, trans, late, given, sent>>
      /\ ptx' => ptx
  BY DEF Card!Waited
<1>2. OutOK'
  BY <1>1 DEF OutOK
<1>3. kind = "ne2000" => Card!SentOnce
  BY <1>1 DEF OutOK, Card!SentOnce
<1>4. QED
  BY <1>2, <1>3

(* How far a page is behind the boundary, which is a whole round away.       *)
Past(p) == IF p > boundary THEN p - boundary ELSE p - boundary + (Stop - Start)

(* The frames that the driver has not read: c leads from the first to where  *)
(* the card will write, and m of them lie between, some of them too long.    *)
Leads(c, m) ==
  /\ c \in [1..(m + 1) -> Card!Pages]
  /\ c[1] = Card!OnePast(boundary) /\ c[m + 1] = curr
  /\ \A i \in 1..m : pages[c[i]].frame \in {read + i, Card!Bad} /\ pages[c[i]].next = c[i + 1]
  /\ \A i, j1 \in 1..(m + 1) : i < j1 => Past(c[i]) < Past(c[j1])

NeOK ==
  /\ curr \in Card!Pages /\ boundary \in Card!Pages /\ DOMAIN pages = Card!Pages
  /\ curr # boundary
  /\ kind = "ne2000" => read \in Nat /\ \E m \in Nat : arrived = read + m /\ \E c : Leads(c, m)

(* Pages go round behind the last one.                                       *)
LEMMA PagesRound ==
  ASSUME NEW p \in Card!Pages, NEW q \in Card!Pages
  PROVE  /\ Card!OnePast(p) = (IF p = Stop - 1 THEN Start ELSE p + 1) /\ Card!OnePast(p) \in Card!Pages
         /\ Card!OneBefore(p) = (IF p = Start THEN Stop - 1 ELSE p - 1) /\ Card!OneBefore(p) \in Card!Pages
         /\ Card!After(p, 1) = Card!OnePast(p)
         /\ Card!After(p, 2) = Card!OnePast(Card!OnePast(p))
<1> DEFINE L == Stop - Start
<1>1. L \in Nat \ {0} /\ L >= 2 /\ Start \in Nat /\ Stop \in Nat /\ p \in Start..(Stop - 1)
  BY CardSizes DEF Card!Pages
<1>2. Card!OnePast(p) = (IF p = Stop - 1 THEN Start ELSE p + 1) /\ Card!OnePast(p) \in Card!Pages
  BY <1>1 DEF Card!OnePast, Card!Pages
<1>3. Card!OneBefore(p) = (IF p = Start THEN Stop - 1 ELSE p - 1) /\ Card!OneBefore(p) \in Card!Pages
  BY <1>1 DEF Card!OneBefore, Card!Pages
<1>4. \A n \in 1..2 : Card!After(p, n) = (IF p + n < Stop THEN p + n ELSE p + n - L)
  <2> SUFFICES ASSUME NEW n \in 1..2
               PROVE  Card!After(p, n) = (IF p + n < Stop THEN p + n ELSE p + n - L)
    OBVIOUS
  <2> HIDE DEF L
  <2>1. \A a \in 0..(L - 1) : a % L = a
    BY <1>1, ModFacts
  <2>2. \A a \in L..(2 * L - 1) : a % L = a - L
    BY <1>1, ModFacts
  <2>3. CASE p + n < Stop
    <3>1. p - Start + n \in 0..(L - 1)
      BY <1>1, <2>3 DEF L
    <3>2. (p - Start + n) % L = p - Start + n
      BY <3>1, <2>1
    <3>3. QED
      BY <1>1, <2>3, <3>2 DEF Card!After, L
  <2>4. CASE ~(p + n < Stop)
    <3>1. p - Start + n \in L..(2 * L - 1)
      BY <1>1, <2>4 DEF L
    <3>2. (p - Start + n) % L = p - Start + n - L
      <4> DEFINE a == p - Start + n
      <4>1. a \in L..(2 * L - 1)
        BY <3>1
      <4> HIDE DEF a
      <4>2. a % L = a - L
        BY <4>1, <2>2
      <4>3. QED
        BY <1>1, <4>1, <4>2 DEF a
    <3>3. QED
      BY <1>1, <2>4, <3>2 DEF Card!After, L
  <2>5. QED
    BY <2>3, <2>4
<1>5. Card!After(p, 1) = Card!OnePast(p)
  BY <1>1, <1>2, <1>4
<1>6. Card!After(p, 2) = Card!OnePast(Card!OnePast(p))
  BY <1>1, <1>2, <1>4 DEF Card!OnePast
<1>7. QED
  BY <1>2, <1>3, <1>5, <1>6

(* One page on is one page further, except across the boundary.              *)
LEMMA PastFacts ==
  ASSUME boundary \in Card!Pages
  PROVE  /\ \A p \in Card!Pages : Past(p) \in 1..(Stop - Start) /\ (Past(p) = Stop - Start <=> p = boundary)
         /\ \A p, q \in Card!Pages : Past(p) = Past(q) => p = q
         /\ \A p \in Card!Pages : p # boundary => Past(Card!OnePast(p)) = Past(p) + 1
         /\ Past(Card!OnePast(boundary)) = 1
<1>1. Start \in Nat /\ Stop \in Nat /\ Start + 1 < Stop /\ boundary \in Start..(Stop - 1)
  BY CardSizes DEF Card!Pages
<1>2. QED
  BY <1>1 DEF Past, Card!Pages, Card!OnePast

LEMMA CardStep ==
  ASSUME NeOK, Card!CardFills
  PROVE  NeOK'
<1>1. PICK n \in 1..2, f \in {arrived + 1, Card!Bad} :
        /\ \A i \in 1..n : Card!After(curr, i) # boundary
        /\ pages' = Card!Put(pages, curr, [frame |-> f, next |-> Card!After(curr, n)])
        /\ curr' = Card!After(curr, n)
  BY DEF Card!CardFills
<1>2. kind = "ne2000" /\ arrived' = arrived + 1 /\ UNCHANGED <<kind, boundary, read>>
  BY DEF Card!CardFills
<1>3. /\ curr \in Card!Pages /\ boundary \in Card!Pages /\ DOMAIN pages = Card!Pages
      /\ curr # boundary /\ read \in Nat
  BY <1>2 DEF NeOK
<1>4. PICK m \in Nat : arrived = read + m /\ \E c : Leads(c, m)
  BY <1>2 DEF NeOK
<1>5. PICK c : Leads(c, m)
  BY <1>4
<1>6. /\ curr' \in Card!Pages /\ curr' # boundary
      /\ Past(curr') = Past(curr) + n
  <2>1. Card!OnePast(curr) \in Card!Pages /\ Card!After(curr, 1) = Card!OnePast(curr)
        /\ Card!After(curr, 2) = Card!OnePast(Card!OnePast(curr))
    BY <1>3, PagesRound
  <2>2. Past(Card!OnePast(curr)) = Past(curr) + 1 /\ Past(curr) \in Nat
    BY <1>3, PastFacts
  <2>3. CASE n = 1
    BY <2>1, <2>2, <2>3, <1>1
  <2>4. CASE n = 2
    <3>1. Card!OnePast(curr) # boundary /\ curr' # boundary
      BY <2>1, <2>4, <1>1
    <3>2. Card!OnePast(Card!OnePast(curr)) \in Card!Pages
      BY <2>1, PagesRound
    <3>3. Past(Card!OnePast(Card!OnePast(curr))) = Past(Card!OnePast(curr)) + 1
      BY <2>1, <3>1, <1>3, PastFacts
    <3>4. QED
      BY <2>1, <2>2, <2>4, <3>1, <3>2, <3>3, <1>1
  <2>5. QED
    BY <2>3, <2>4
<1>7. /\ DOMAIN pages' = Card!Pages
      /\ pages'[curr].frame = f /\ pages'[curr].next = curr'
      /\ \A p \in Card!Pages : p # curr => pages'[p] = pages[p]
  BY <1>1, <1>3 DEF Card!Put
<1>8. /\ c \in [1..(m + 1) -> Card!Pages] /\ c[1] = Card!OnePast(boundary) /\ c[m + 1] = curr
      /\ \A i \in 1..m : pages[c[i]].frame \in {read + i, Card!Bad} /\ pages[c[i]].next = c[i + 1]
      /\ \A i, j1 \in 1..(m + 1) : i < j1 => Past(c[i]) < Past(c[j1])
  BY <1>5 DEF Leads
<1> PICK e \in Card!Pages : e = curr'
  BY <1>6
<1> DEFINE d == [i \in 1..(m + 2) |-> IF i <= m + 1 THEN c[i] ELSE e]
<1>9. /\ d \in [1..((m + 1) + 1) -> Card!Pages] /\ d[(m + 1) + 1] = curr'
      /\ \A i \in 1..(m + 1) : d[i] = c[i]
  BY <1>4, <1>6, <1>8
<1>10. \A p : Past(p)' = Past(p)
  BY <1>2 DEF Past
<1>11. ASSUME NEW i \in 1..(m + 1)
       PROVE  pages'[d[i]].frame \in {read' + i, Card!Bad} /\ pages'[d[i]].next = d[i + 1]
  <2>1. CASE i = m + 1
    <3>1. d[i] = curr /\ d[i + 1] = curr' /\ arrived + 1 = read' + i
      BY <2>1, <1>2, <1>3, <1>4, <1>8, <1>9
    <3>2. QED
      BY <3>1, <1>1, <1>7
  <2>2. CASE i # m + 1
    <3>1. i \in 1..m /\ i + 1 \in 1..(m + 1) /\ m + 1 \in 1..(m + 1) /\ i < m + 1
      BY <2>2
    <3>2. d[i] = c[i] /\ d[i + 1] = c[i + 1] /\ c[i] \in Card!Pages /\ Past(c[i]) < Past(curr)
      BY <3>1, <1>8, <1>9
    <3>3. c[i] # curr
      BY <3>2, <1>3, PastFacts
    <3>4. QED
      BY <3>1, <3>2, <3>3, <1>2, <1>7, <1>8
  <2>3. QED
    BY <2>1, <2>2
<1>12. ASSUME NEW i \in 1..(m + 2), NEW j1 \in 1..(m + 2), i < j1
       PROVE  Past(d[i]) < Past(d[j1])
  <2>1. i \in 1..(m + 1) /\ d[i] = c[i] /\ c[i] \in Card!Pages /\ Past(c[i]) <= Past(curr)
    <3>1. i \in 1..(m + 1) /\ m + 1 \in 1..(m + 1)
      BY <1>12
    <3>2. d[i] = c[i] /\ c[i] \in Card!Pages
      BY <3>1, <1>8, <1>9
    <3>3. Past(curr) \in Nat
      BY <1>3, PastFacts
    <3>4. i = m + 1 \/ Past(c[i]) < Past(c[m + 1])
      BY <3>1, <1>8
    <3>5. Past(c[i]) \in Nat
      BY <3>2, <1>3, PastFacts
    <3>6. QED
      BY <3>1, <3>2, <3>3, <3>4, <3>5, <1>8
  <2>2. CASE j1 = m + 2
    <3>1. d[j1] = curr' /\ Past(curr) \in Nat /\ Past(c[i]) \in Nat
      BY <2>1, <2>2, <1>3, <1>9, PastFacts
    <3>2. QED
      BY <2>1, <3>1, <1>6
  <2>3. CASE j1 # m + 2
    <3>1. j1 \in 1..(m + 1) /\ d[j1] = c[j1]
      BY <2>3, <1>9
    <3>2. QED
      BY <2>1, <3>1, <1>8, <1>12
  <2>4. QED
    BY <2>2, <2>3
<1>13. Leads(d, m + 1)'
  <2>1. d[1] = Card!OnePast(boundary)'
    BY <1>2, <1>8, <1>9 DEF Card!OnePast
  <2>2. \A i, j1 \in 1..((m + 1) + 1) : i < j1 => Past(d[i])' < Past(d[j1])'
    <3>1. (m + 1) + 1 = m + 2
      OBVIOUS
    <3> HIDE DEF d
    <3>2. QED
      BY <1>10, <1>12, <3>1
  <2> HIDE DEF d
  <2>3. QED
    BY <2>1, <2>2, <1>9, <1>11, Zenon DEF Leads, Card!Pages
<1>14. arrived' = read' + (m + 1) /\ m + 1 \in Nat
  BY <1>2, <1>3, <1>4
<1>15. QED
  BY <1>2, <1>3, <1>6, <1>7, <1>13, <1>14 DEF NeOK, Card!Pages

LEMMA PageReadStep ==
  ASSUME NeOK, Card!ne2000_recv
  PROVE  /\ NeOK' /\ kind = "ne2000"
         /\ read' # read => read' = read + 1 \/ pages[Card!OnePast(boundary)].frame = Card!Bad
<1> DEFINE p == Card!OnePast(boundary)
<1>1. /\ kind = "ne2000" /\ UNCHANGED <<kind, pages, curr, arrived>>
      /\ IF p = curr THEN UNCHANGED <<boundary, read>>
         ELSE IF pages[p].frame = Card!Bad THEN read' = arrived /\ boundary' = Card!OneBefore(curr)
         ELSE read' = pages[p].frame /\ boundary' = Card!OneBefore(pages[p].next)
  BY DEF Card!ne2000_recv
<1>2. /\ curr \in Card!Pages /\ boundary \in Card!Pages /\ DOMAIN pages = Card!Pages
      /\ curr # boundary /\ read \in Nat
  BY <1>1 DEF NeOK
<1>3. PICK m \in Nat : arrived = read + m /\ \E c : Leads(c, m)
  BY <1>1 DEF NeOK
<1>4. PICK c : Leads(c, m)
  BY <1>3
<1>5. /\ c \in [1..(m + 1) -> Card!Pages] /\ c[1] = p /\ c[m + 1] = curr
      /\ \A i \in 1..m : pages[c[i]].frame \in {read + i, Card!Bad} /\ pages[c[i]].next = c[i + 1]
      /\ \A i, j1 \in 1..(m + 1) : i < j1 => Past(c[i]) < Past(c[j1])
  BY <1>4 DEF Leads
<1>6. CASE p = curr
  <2>1. UNCHANGED <<kind, pages, curr, arrived, boundary, read>>
    BY <1>1, <1>6
  <2>2. Leads(c, m)'
    BY <2>1, <1>4 DEF Leads, Past, Card!OnePast, Card!Pages
  <2>3. NeOK'
    BY <2>1, <2>2, <1>2, <1>3 DEF NeOK, Card!Pages
  <2>4. QED
    BY <2>1, <2>3, <1>1
<1>7. CASE p # curr /\ pages[p].frame # Card!Bad
  <2>1. m >= 1 /\ pages[p].frame = read + 1 /\ pages[p].next = c[2] /\ c[2] \in Card!Pages /\ m \in Nat \ {0}
    <3>1. m # 0
      BY <1>5, <1>7
    <3>2. m >= 1 /\ 1 \in 1..m /\ 2 \in 1..(m + 1)
      BY <3>1, <1>3
    <3>3. 1 + 1 = 2 /\ pages[c[1]].frame \in {read + 1, Card!Bad} /\ pages[c[1]].next = c[2] /\ c[2] \in Card!Pages
      <4>1. pages[c[1]].next = c[1 + 1] /\ 1 + 1 = 2
        BY <3>2, <1>5
      <4>2. QED
        BY <4>1, <3>2, <1>5
    <3>4. QED
      BY <3>1, <3>2, <3>3, <1>5, <1>7
  <2>2. read' = read + 1 /\ boundary' = Card!OneBefore(c[2])
    BY <1>1, <1>7, <2>1
  <2>3. boundary' \in Card!Pages /\ Card!OnePast(boundary') = c[2] /\ Past(c[2]) > 1 /\ c[2] # boundary
    <3>1. /\ Card!OneBefore(c[2]) = (IF c[2] = Start THEN Stop - 1 ELSE c[2] - 1)
          /\ Card!OneBefore(c[2]) \in Card!Pages
      BY <2>1, PagesRound
    <3>2. Card!OnePast(Card!OneBefore(c[2])) = c[2]
      BY <3>1, <2>1, CardSizes DEF Card!OnePast, Card!Pages
    <3>3. Past(p) = 1
      BY <1>2, PastFacts
    <3>4. Past(c[1]) < Past(c[2]) /\ Past(c[2]) <= Past(curr)
      <4>1. 1 \in 1..(m + 1) /\ 2 \in 1..(m + 1) /\ m + 1 \in 1..(m + 1) /\ (2 = m + 1 \/ 2 < m + 1)
        BY <2>1
      <4>2. 2 = m + 1 \/ Past(c[2]) < Past(c[m + 1])
        BY <4>1, <1>5
      <4>3. Past(c[2]) \in Nat /\ Past(curr) \in Nat
        BY <1>2, <2>1, PastFacts
      <4>4. QED
        BY <4>1, <4>2, <4>3, <1>5
    <3>5. Past(c[2]) \in Nat /\ Past(curr) \in Nat /\ Past(curr) < Stop - Start
      BY <1>2, <2>1, PastFacts, CardSizes
    <3>6. Past(boundary) = Stop - Start
      BY <1>2, PastFacts
    <3>7. QED
      BY <3>1, <3>2, <3>3, <3>4, <3>5, <3>6, <1>5, <2>2, CardSizes
  <2>4. \A q \in Card!Pages : Past(q) >= Past(c[2]) /\ q # boundary
                               => Past(q)' = Past(q) - Past(c[2]) + 1
    <3>1. /\ boundary' = (IF c[2] = Start THEN Stop - 1 ELSE c[2] - 1)
          /\ Start \in Nat /\ Stop \in Nat /\ Start + 1 < Stop
          /\ boundary \in Start..(Stop - 1) /\ c[2] \in Start..(Stop - 1)
      BY <2>1, <2>2, <1>2, PagesRound, CardSizes DEF Card!Pages
    <3>2. SUFFICES ASSUME NEW q \in Card!Pages, Past(q) >= Past(c[2]), q # boundary
                   PROVE  Past(q)' = Past(q) - Past(c[2]) + 1
      OBVIOUS
    <3>3. q \in Start..(Stop - 1) /\ c[2] # boundary
      BY <2>3 DEF Card!Pages
    <3>4. QED
      BY <3>1, <3>2, <3>3 DEF Past
  <2>5. \A i \in 2..(m + 1) : c[i] \in Card!Pages /\ Past(c[i]) >= Past(c[2]) /\ c[i] # boundary
    <3>1. SUFFICES ASSUME NEW i \in 2..(m + 1)
                   PROVE  c[i] \in Card!Pages /\ Past(c[i]) >= Past(c[2]) /\ c[i] # boundary
      OBVIOUS
    <3>2. i \in 1..(m + 1) /\ 2 \in 1..(m + 1) /\ m + 1 \in 1..(m + 1) /\ c[i] \in Card!Pages
      BY <1>5, <2>1
    <3>3. (i = 2 \/ Past(c[2]) < Past(c[i])) /\ (i = m + 1 \/ Past(c[i]) < Past(c[m + 1]))
      BY <3>2, <1>5
    <3>4. Past(c[i]) \in Nat /\ Past(c[2]) \in Nat /\ Past(curr) \in Nat /\ Past(curr) < Stop - Start
          /\ (c[i] = boundary => Past(c[i]) = Stop - Start)
      BY <3>2, <2>1, <1>2, PastFacts, CardSizes
    <3>5. Past(c[i]) >= Past(c[2])
      BY <3>3, <3>4
    <3>6. c[i] # boundary
      BY <3>3, <3>4, <1>2, <1>5, CardSizes
    <3>7. QED
      BY <3>2, <3>5, <3>6
  <2> DEFINE d == [i \in 1..m |-> c[i + 1]]
  <2>6. /\ d \in [1..((m - 1) + 1) -> Card!Pages] /\ d[(m - 1) + 1] = curr' /\ d[1] = Card!OnePast(boundary')
        /\ \A i \in 1..m : d[i] = c[i + 1]
    BY <2>1, <2>3, <1>1, <1>5
  <2>7. \A i \in 1..(m - 1) : pages'[d[i]].frame \in {read' + i, Card!Bad} /\ pages'[d[i]].next = d[i + 1]
    <3>1. SUFFICES ASSUME NEW i \in 1..(m - 1)
                   PROVE  pages'[d[i]].frame \in {read' + i, Card!Bad} /\ pages'[d[i]].next = d[i + 1]
      OBVIOUS
    <3>2. i + 1 \in 1..m /\ i \in 1..m /\ read + (i + 1) = read' + i
      BY <2>1, <2>2, <1>2
    <3>3. QED
      BY <3>2, <2>6, <1>1, <1>5
  <2>8. \A i, j1 \in 1..((m - 1) + 1) : i < j1 => Past(d[i])' < Past(d[j1])'
    <3>1. SUFFICES ASSUME NEW i \in 1..m, NEW j1 \in 1..m, i < j1
                   PROVE  Past(d[i])' < Past(d[j1])'
      BY <2>1
    <3>2. i + 1 \in 2..(m + 1) /\ j1 + 1 \in 2..(m + 1) /\ i + 1 < j1 + 1
          /\ i + 1 \in 1..(m + 1) /\ j1 + 1 \in 1..(m + 1)
      BY <3>1, <2>1
    <3>3. Past(c[i + 1]) < Past(c[j1 + 1])
      BY <3>2, <1>5
    <3>4. Past(c[i + 1])' = Past(c[i + 1]) - Past(c[2]) + 1 /\ Past(c[j1 + 1])' = Past(c[j1 + 1]) - Past(c[2]) + 1
          /\ Past(c[i + 1]) \in Nat /\ Past(c[j1 + 1]) \in Nat /\ Past(c[2]) \in Nat
      BY <3>2, <2>1, <2>4, <2>5, <1>2, PastFacts
    <3>5. d[i] = c[i + 1] /\ d[j1] = c[j1 + 1]
      BY <3>1, <2>6
    <3>6. QED
      BY <3>3, <3>4, <3>5
  <2> HIDE DEF d
  <2>9. Leads(d, m - 1)'
    <3>1. d[1] = Card!OnePast(boundary)'
      BY <2>6 DEF Card!OnePast
    <3>2. QED
      BY <3>1, <2>6, <2>7, <2>8, Zenon DEF Leads, Card!Pages
  <2>10. curr' # boundary'
    <3>1. \A q \in Card!Pages : q # boundary /\ Past(q) >= Past(c[2]) => q # boundary'
      <4>1. Start \in Nat /\ Stop \in Nat /\ Start + 1 < Stop /\ boundary' \in Start..(Stop - 1)
            /\ boundary' = (IF c[2] = Start THEN Stop - 1 ELSE c[2] - 1)
            /\ boundary \in Start..(Stop - 1) /\ c[2] \in Start..(Stop - 1) /\ c[2] # boundary
        BY <2>1, <2>2, <2>3, <1>2, PagesRound, CardSizes DEF Card!Pages
      <4>2. QED
        BY <4>1 DEF Past, Card!Pages
    <3>2. m + 1 \in 2..(m + 1)
      BY <2>1
    <3>3. QED
      BY <3>1, <3>2, <2>5, <1>1, <1>5
  <2>11. arrived' = read' + (m - 1) /\ m - 1 \in Nat /\ read' \in Nat
    BY <1>1, <1>2, <1>3, <2>1, <2>2
  <2>12. QED
    BY <1>1, <1>2, <2>2, <2>3, <2>9, <2>10, <2>11 DEF NeOK, Card!Pages
<1>8. CASE p # curr /\ pages[p].frame = Card!Bad
  <2>1. read' = arrived /\ boundary' = Card!OneBefore(curr) /\ arrived \in Nat
    BY <1>1, <1>2, <1>3, <1>8
  <2>2. /\ Card!OneBefore(curr) = (IF curr = Start THEN Stop - 1 ELSE curr - 1)
        /\ Card!OneBefore(curr) \in Card!Pages
    BY <1>2, PagesRound
  <2>3. Card!OnePast(Card!OneBefore(curr)) = curr /\ curr # Card!OneBefore(curr)
    BY <2>2, <1>2, CardSizes DEF Card!OnePast, Card!Pages
  <2>4. Card!OnePast(boundary)' = Card!OnePast(Card!OneBefore(curr))
    BY <2>1 DEF Card!OnePast
  <2>5. Leads([i \in 1..(0 + 1) |-> curr], 0)'
    BY <2>3, <2>4, <1>1, <1>2 DEF Leads, Card!Pages
  <2>6. arrived' = read' + 0
    BY <1>1, <2>1
  <2>7. QED
    BY <1>1, <1>2, <1>8, <2>1, <2>2, <2>3, <2>5, <2>6 DEF NeOK, Card!Pages
<1>9. QED
  BY <1>6, <1>7, <1>8

CardOK == RxOK /\ TxOK /\ NeOK /\ OutOK

FramesStep ==
  /\ read' # read =>
       \/ read' = read + 1
       \/ kind = "ne2000" /\ pages[Card!OnePast(boundary)].frame = Card!Bad
  /\ Card!SentInTurn
  /\ kind = "ne2000" => Card!SentOnce

LEMMA CardInit ==
  ASSUME Card!Init
  PROVE  CardOK
<1>1. /\ avail = [i \in 0..(RingSize - 1) |-> IF i < Buffers THEN i ELSE 0]
      /\ availIdx = Buffers /\ seen = 0 /\ used = [i \in 0..(RingSize - 1) |-> 0]
      /\ usedIdx = 0 /\ lastUsed = 0 /\ buffer = [b \in Card!Bufs |-> 0]
      /\ txFree = 0 /\ txRing = <<>> /\ txBuffer = [b \in Card!Bufs |-> 0]
      /\ arrived = 0 /\ read = 0 /\ given = 0 /\ sent = 0
  BY DEF Card!Init, Card!VirtioInit
<1>2. ToFill = Buffers /\ ToRead = 0
  BY <1>1, CardSizes DEF ToFill, ToRead, Gap
<1>3. RingsOK
  BY <1>1, <1>2, CardSizes DEF RingsOK, RingOf, Indices, Card!Bufs
<1>4. \A k \in 1..Buffers : Circle[k] = k - 1
  <2> SUFFICES ASSUME NEW k \in 1..Buffers PROVE Circle[k] = k - 1
    OBVIOUS
  <2>1. k - 1 \in 0..(RingSize - 1) /\ k - 1 < Buffers /\ 0 + k - 1 = k - 1 /\ ~(k <= 0) /\ k - 0 = k
    BY CardSizes
  <2>2. (k - 1) % RingSize = k - 1
    BY <2>1, CardSizes, ModFacts
  <2>3. k \in 1..ToFill /\ ToRead + k = k
    BY <1>2
  <2>4. Circle[k] = Queue(avail, seen, availIdx)[k]
    BY <2>3, <1>3, CircleIs
  <2>5. Queue(avail, seen, availIdx)[k] = avail[(0 + k - 1) % RingSize]
    BY <2>3, <1>1 DEF Queue, ToFill
  <2>6. QED
    BY <2>1, <2>2, <2>4, <2>5, <1>1
<1>5. Once
  BY <1>4, CardSizes DEF Once, Card!Bufs
<1>6. Counts([k \in 1..(0 + 1) |-> 0], 0, 0, Contents, 0)
  BY DEF Counts
<1>7. ArrivedOK
  BY <1>1, <1>2, <1>6, Zenon DEF ArrivedOK
<1>8. TxOK
  BY <1>1, CardSizes DEF TxOK, Card!Bufs
<1>9. NeOK
  <2>1. /\ pages = [p \in Card!Pages |-> [frame |-> 0, next |-> Start]]
        /\ curr = Start + 1 /\ boundary = Start
    BY DEF Card!Init, Card!Ne2000Init
  <2>2. curr \in Card!Pages /\ boundary \in Card!Pages /\ curr # boundary /\ Card!OnePast(boundary) = curr
    BY <2>1, CardSizes DEF Card!Pages, Card!OnePast
  <2>3. Leads([i \in 1..(0 + 1) |-> curr], 0)
    BY <2>2 DEF Leads
  <2>4. arrived = read + 0
    BY <1>1
  <2>5. QED
    BY <2>1, <2>2, <2>3, <2>4, <1>1 DEF NeOK
<1>10. OutOK
  <2>1. trans = FALSE /\ ptx = FALSE /\ waiting = FALSE
    BY DEF Card!Init, Card!Ne2000Init
  <2>2. QED
    BY <2>1, <1>1 DEF OutOK
<1>11. QED
  BY <1>1, <1>3, <1>5, <1>7, <1>8, <1>9, <1>10 DEF CardOK, RxOK

LEMMA RxStays ==
  ASSUME RxOK, UNCHANGED <<kind, avail, availIdx, seen, used, usedIdx, lastUsed, buffer>>,
         kind = "ne2000" \/ UNCHANGED <<arrived, read>>
  PROVE  RxOK'
<1>1. UNCHANGED <<ToFill, ToRead, Circle, Contents>>
  BY DEF ToFill, ToRead, Circle, Contents, Queue, Gap
<1>2. RingsOK' /\ Once' /\ DOMAIN buffer' = Card!Bufs
  BY <1>1 DEF RxOK, RingsOK, Once, RingOf, Indices, Card!Bufs
<1>3. ArrivedOK'
  BY <1>1 DEF RxOK, ArrivedOK
<1>4. QED
  BY <1>2, <1>3 DEF RxOK

LEMMA TxStays ==
  ASSUME TxOK, UNCHANGED <<kind, txFree, txRing, txBuffer, given>>
  PROVE  TxOK' /\ Card!SentInTurn
<1>1. TxOK'
  BY DEF TxOK, Card!Bufs
<1>2. Len(txRing) \in Nat /\ Len(txRing') = Len(txRing)
  BY DEF TxOK
<1>3. QED
  BY <1>1, <1>2 DEF Card!SentInTurn

(* What NE2000 is to send changes only when that card does something.        *)
LEMMA OutStays ==
  ASSUME OutOK, UNCHANGED <<kind, trans, ptx, waiting, late>>,
         kind # "ne2000" \/ UNCHANGED <<given, sent>>
  PROVE  OutOK' /\ (kind = "ne2000" => Card!SentOnce)
<1>1. OutOK'
  BY DEF OutOK
<1>2. QED
  BY <1>1 DEF Card!SentOnce

LEMMA NeStays ==
  ASSUME NeOK, UNCHANGED <<kind, pages, curr, boundary>>,
         kind = "virtio" \/ UNCHANGED <<arrived, read>>
  PROVE  NeOK'
<1>1. ASSUME NEW c, NEW m, Leads(c, m), UNCHANGED <<arrived, read>>
      PROVE  Leads(c, m)'
  BY <1>1 DEF Leads, Past, Card!OnePast, Card!Pages
<1>2. QED
  BY <1>1 DEF NeOK, Card!Pages

LEMMA CardKeeps ==
  ASSUME CardOK, [Card!Next]_cardVars
  PROVE  CardOK' /\ FramesStep
<1>1. RxOK /\ TxOK /\ NeOK /\ OutOK
  BY DEF CardOK
<1>2. CASE Card!DeviceFills
  <2>1. kind = "virtio" /\ UNCHANGED <<kind, txFree, txRing, txBuffer, pages, curr, boundary,
                    trans, ptx, waiting, late, given, sent, read>>
    BY <1>2 DEF Card!DeviceFills, Card!tx, Card!ne, Card!out
  <2>2. QED
    BY <1>1, <1>2, <2>1, FillStep, TxStays, NeStays, OutStays DEF CardOK, FramesStep
<1>3. CASE Card!wifi_recv
  <2>1. kind = "virtio" /\ UNCHANGED <<kind, txFree, txRing, txBuffer, pages, curr, boundary,
                    trans, ptx, waiting, late, given, sent>>
    BY <1>3 DEF Card!wifi_recv, Card!tx, Card!ne, Card!out
  <2>2. QED
    <3>1. RxOK' /\ TxOK' /\ NeOK' /\ OutOK'
      BY <1>1, <1>3, <2>1, ReadStep, TxStays, NeStays, OutStays
    <3>2. (read' # read => read' = read + 1) /\ Card!SentInTurn
      BY <1>1, <1>3, <2>1, ReadStep, TxStays
    <3>3. QED
      BY <2>1, <3>1, <3>2 DEF CardOK, FramesStep
<1>4. CASE Card!wifi_send
  <2>1. kind = "virtio" /\ UNCHANGED <<kind, avail, availIdx, seen, used, usedIdx, lastUsed, buffer,
                    pages, curr, boundary, trans, ptx, waiting, late, arrived, read>>
    BY <1>4 DEF Card!wifi_send, Card!rx, Card!ne, Card!out
  <2>2. Card!SentInTurn
    <3>1. Len(txRing') = Len(txRing) + 1 /\ Len(txRing) \in Nat
      BY <1>1, <1>4 DEF TxOK, Card!wifi_send
    <3>2. QED
      BY <3>1 DEF Card!SentInTurn
  <2>3. QED
    BY <1>1, <1>4, <2>1, <2>2, RxStays, SendStep, NeStays, OutStays DEF CardOK, FramesStep
<1>5. CASE Card!DeviceSends
  <2>1. UNCHANGED <<kind, avail, availIdx, seen, used, usedIdx, lastUsed, buffer,
                    pages, curr, boundary, trans, ptx, waiting, late, arrived, read, given>>
    BY <1>5 DEF Card!DeviceSends, Card!rx, Card!ne, Card!out
  <2>2. TxOK' /\ kind # "ne2000" /\ Card!SentInTurn
    BY <1>1, <1>5, SentStep DEF Card!SentInTurn
  <2>3. QED
    BY <1>1, <2>1, <2>2, RxStays, NeStays, OutStays DEF CardOK, FramesStep
<1>6. CASE Card!CardFills
  <2>1. kind = "ne2000" /\ UNCHANGED <<kind, avail, availIdx, seen, used, usedIdx, lastUsed, buffer,
                    txFree, txRing, txBuffer, trans, ptx, waiting, late, given, sent, read>>
    BY <1>6 DEF Card!CardFills, Card!rx, Card!tx, Card!out
  <2>2. QED
    BY <1>1, <1>6, <2>1, RxStays, TxStays, CardStep, OutStays DEF CardOK, FramesStep
<1>7. CASE Card!ne2000_recv
  <2>1. kind = "ne2000" /\ UNCHANGED <<kind, avail, availIdx, seen, used, usedIdx, lastUsed, buffer,
                    txFree, txRing, txBuffer, trans, ptx, waiting, late, given, sent>>
    BY <1>7 DEF Card!ne2000_recv, Card!rx, Card!tx, Card!out
  <2>2. QED
    <3>1. RxOK' /\ TxOK' /\ NeOK' /\ OutOK'
      BY <1>1, <1>7, <2>1, RxStays, TxStays, PageReadStep, OutStays
    <3>2. /\ read' # read => read' = read + 1 \/ pages[Card!OnePast(boundary)].frame = Card!Bad
          /\ Card!SentInTurn /\ Card!SentOnce
      BY <1>1, <1>7, <2>1, TxStays, PageReadStep, OutStays
    <3>3. QED
      BY <2>1, <3>1, <3>2 DEF CardOK, FramesStep
<1>8. CASE Card!ne2000_send
  <2>1. UNCHANGED <<kind, avail, availIdx, seen, used, usedIdx, lastUsed, buffer,
                    txFree, txRing, txBuffer, pages, curr, boundary, arrived, read>>
    BY <1>8 DEF Card!ne2000_send, Card!rx, Card!tx, Card!ne
  <2>2. TxOK' /\ Card!SentInTurn
    <3>1. txRing = <<>> /\ given' = given + 1
      BY <1>1, <1>8 DEF TxOK, Card!ne2000_send
    <3>2. Len(txRing) = 0 /\ Len(txRing') = 0 /\ Buffers \in Nat \ {0}
      BY <2>1, <3>1, CardSizes
    <3>3. QED
      BY <1>1, <2>1, <3>1, <3>2 DEF TxOK, Card!Bufs, Card!SentInTurn
  <2>3. QED
    BY <1>1, <1>8, <2>1, <2>2, RxStays, NeStays, SendOneStep DEF CardOK, FramesStep
<1>9. CASE Card!CardSends
  <2>1. UNCHANGED <<kind, avail, availIdx, seen, used, usedIdx, lastUsed, buffer,
                    txFree, txRing, txBuffer, pages, curr, boundary, arrived, read, given>>
    BY <1>9 DEF Card!CardSends, Card!rx, Card!tx, Card!ne
  <2>2. TxOK' /\ Card!SentInTurn
    BY <1>1, <2>1, TxStays
  <2>3. QED
    BY <1>1, <1>9, <2>1, <2>2, RxStays, NeStays, OneSentStep DEF CardOK, FramesStep
<1>10. CASE Card!Waited
  <2>1. UNCHANGED <<kind, avail, availIdx, seen, used, usedIdx, lastUsed, buffer,
                    txFree, txRing, txBuffer, pages, curr, boundary, arrived, read, given>>
    BY <1>10 DEF Card!Waited, Card!rx, Card!tx, Card!ne
  <2>2. TxOK' /\ Card!SentInTurn
    BY <1>1, <2>1, TxStays
  <2>3. QED
    BY <1>1, <1>10, <2>1, <2>2, RxStays, NeStays, WaitedStep DEF CardOK, FramesStep
<1>11. CASE UNCHANGED cardVars
  BY <1>1, <1>11, RxStays, TxStays, NeStays, OutStays DEF cardVars, CardOK, FramesStep
<1>12. QED
  BY <1>2, <1>3, <1>4, <1>5, <1>6, <1>7, <1>8, <1>9, <1>10, <1>11 DEF Card!Next

LEMMA CardSteps ==
  ASSUME [DevicesNext]_all
  PROVE  [Card!Next]_cardVars
BY DEF DevicesNext, all, drivers, stores, services, MouseNext, UsbNext, CardNext,
       NetworkNext, DiskNext, VolumeNext, PicturesNext, SetupNext, TlsNext, HttpNext, WgetNext

(* Every frame that the adapter takes in is handed on, in the order in which *)
(* they came, until NE2000 meets a bad length; no buffer of the VirtIO rings *)
(* is handed over twice or forgotten, however often the indices wrap.        *)
(* VirtIO-Net sends the frames in turn as long as no more of them wait than  *)
(* there are buffers, which no call looks at.  NE2000 sends none after a     *)
(* later one, and if no earlier call has left anything behind, none twice,   *)
(* and it reports only what has been sent.                                   *)
THEOREM FramesKeepOrder == DevicesSpec => FramesInOrder
<1>1. DevicesInit => CardOK
  BY CardInit DEF DevicesInit
<1>2. CardOK /\ [DevicesNext]_all => CardOK' /\ FramesStep
  BY CardKeeps, CardSteps
<1>3. CardOK => Card!BuffersKept
  BY CircleKeepsBuffers DEF CardOK
<1>4. FramesStep /\ Card!BuffersKept'
        => [/\ Card!Received /\ Card!SentInTurn
            /\ kind = "ne2000" => Card!SentOnce]_Card!vars
  BY DEF FramesStep, Card!Received
<1>5. QED
  BY <1>1, <1>2, <1>3, <1>4, PTL DEF DevicesSpec, FramesInOrder, Card!FramesInOrder

-----------------------------------------------------------------------------
(* Reports of a USB mouse.                                                   *)

Bit == {0, 1}

(* The rings of an xHCI controller: the entries written in this round, and   *)
(* those of the round before.                                                *)
EventRing ==
  /\ evt \in [0..(Events - 1) -> Usb!Entries]
  /\ hcenq \in 0..(Events - 1) /\ deq \in 0..(Events - 1) /\ hcevt \in Bit /\ evcyc \in Bit
  /\ \A i \in 0..(Events - 1) : evt[i].cycle = IF i < hcenq THEN hcevt ELSE 1 - hcevt

TransferRing ==
  /\ trb \in [0..(Ring - 1) -> Bit]
  /\ enq \in 0..(Ring - 2) /\ hcdeq \in 0..(Ring - 1) /\ cyc \in Bit /\ hccyc \in Bit
  /\ \A i \in 0..(Ring - 1) : trb[i] = IF i < enq THEN cyc ELSE 1 - cyc

(* The driver has taken every event; or one report is left.                  *)
AllTaken == deq = hcenq /\ evcyc = hcevt
OneReport ==
  /\ hcenq = (deq + 1) % Events
  /\ hcevt = IF deq = Events - 1 THEN 1 - evcyc ELSE evcyc
  /\ evt[deq] = [cycle |-> evcyc, what |-> "report"]

(* The controller has made every transfer, but may have the link to follow;  *)
(* or one transfer is left.                                                  *)
AllMade ==
  \/ hcdeq = enq /\ hccyc = cyc
  \/ hcdeq = Ring - 1 /\ enq = 0 /\ hccyc = 1 - cyc
OneToMake ==
  \/ hcdeq + 1 = enq /\ hccyc = cyc
  \/ hcdeq = Ring - 2 /\ enq = 0 /\ hccyc = 1 - cyc
  \/ hcdeq = Ring - 1 /\ enq = 1 /\ hccyc = 1 - cyc

(* As long as no other event has come, one report at most is under way.      *)
InTurn ==
  /\ EventRing /\ TransferRing
  /\ \/ AllTaken /\ AllMade /\ got = transfer
     \/ mouse /\ AllTaken /\ OneToMake /\ got = transfer
     \/ mouse /\ OneReport /\ AllMade /\ got < transfer

(* Before the mouse is polled nothing is.                                    *)
Polling ==
  /\ mouse => phase \in {"scan", "poll"}
  /\ phase # "poll" => report = 0 /\ acked = 0 /\ transfer = 0 /\ got = 0
  /\ phase = "poll" => mouse

(* The other controllers do not reach a descriptor again once a report is    *)
(* there.                                                                    *)
OneDescriptor ==
  /\ linked => transfer = 0 /\ got = 0 /\ td # "done"
  /\ controller # "ohci" /\ td = "done" => got = 0 /\ transfer > 0

Numbers ==
  /\ report \in Nat /\ acked \in Nat /\ transfer \in Nat /\ got \in Nat
  /\ acked <= report /\ got <= transfer
  /\ applied \in Bit

UsbOK ==
  /\ controller \in Usb!Kinds /\ step \in 0..Len(Usb!Questions)
  /\ Usb!Balanced /\ Polling /\ Numbers
  /\ controller = "xhci" => transfer = acked /\ (~stray => InTurn)
  /\ controller # "xhci" => OneDescriptor

(* The driver waits for one event, and the controller posts one.             *)
LEMMA WaitKeeps ==
  ASSUME EventRing, AllTaken, NEW w \in {"done", "failed", "report"}, NEW v \in BOOLEAN, Usb!WaitEvent(w, v)
  PROVE  EventRing' /\ AllTaken' /\ (v <=> w # "failed")
<1> DEFINE now == [evt EXCEPT ![hcenq] = [cycle |-> hcevt, what |-> w]]
<1>1. /\ evt' = now /\ (v <=> now[deq].cycle = evcyc /\ now[deq].what # "failed")
      /\ hcenq' = (hcenq + 1) % Events /\ deq' = (deq + 1) % Events
      /\ hcevt' = (IF hcenq = Events - 1 THEN 1 - hcevt ELSE hcevt)
      /\ evcyc' = (IF deq = Events - 1 THEN 1 - evcyc ELSE evcyc)
  BY DEF Usb!WaitEvent, Usb!Posted, Usb!Taken
<1>2. Events \in Nat \ {0} /\ hcenq \in 0..(Events - 1) /\ hcevt \in Bit
  BY UsbAssumption DEF EventRing
<1>3. hcenq' = After(hcenq, Events) /\ hcenq' \in 0..(Events - 1) /\ hcevt' \in Bit
  BY <1>1, <1>2, RingSteps DEF Bit
<1>4. AllTaken' /\ deq' \in 0..(Events - 1) /\ evcyc' \in Bit
  BY <1>1, <1>3 DEF AllTaken
<1>5. now[hcenq] = [cycle |-> hcevt, what |-> w]
      /\ now \in [0..(Events - 1) -> Usb!Entries]
      /\ \A i \in 0..(Events - 1) : i # hcenq => now[i] = evt[i]
  BY <1>2 DEF EventRing, Usb!Entries, Bit
<1>6. v <=> w # "failed"
  BY <1>1, <1>5 DEF AllTaken
<1>7. \A i \in 0..(Events - 1) : evt'[i].cycle = IF i < hcenq' THEN hcevt' ELSE 1 - hcevt'
  <2> SUFFICES ASSUME NEW i \in 0..(Events - 1)
               PROVE  evt'[i].cycle = IF i < hcenq' THEN hcevt' ELSE 1 - hcevt'
    OBVIOUS
  <2>1. now[i].cycle = (IF i <= hcenq THEN hcevt ELSE 1 - hcevt)
    BY <1>2, <1>5 DEF EventRing
  <2>2. QED
    BY <2>1, <1>1, <1>2, <1>3 DEF After, Bit
<1>8. QED
  BY <1>1, <1>3, <1>4, <1>5, <1>6, <1>7 DEF EventRing

(* The driver asks for one more transfer.                                    *)
LEMMA WriteKeeps ==
  ASSUME TransferRing, AllMade, Usb!RingWrite, UNCHANGED <<hcdeq, hccyc>>
  PROVE  TransferRing' /\ OneToMake'
<1> DEFINE wraps == enq + 1 = Ring - 1
<1>1. /\ trb' = (IF wraps THEN [trb EXCEPT ![enq] = cyc, ![enq + 1] = cyc] ELSE [trb EXCEPT ![enq] = cyc])
      /\ enq' = (IF wraps THEN 0 ELSE enq + 1)
      /\ cyc' = (IF wraps THEN 1 - cyc ELSE cyc)
  BY DEF Usb!RingWrite
<1>2. Ring \in Nat /\ 3 <= Ring /\ enq \in 0..(Ring - 2) /\ cyc \in Bit /\ trb \in [0..(Ring - 1) -> Bit]
  BY UsbAssumption DEF TransferRing
<1>3. CASE wraps
  <2>1. trb' \in [0..(Ring - 1) -> Bit] /\ enq' = 0 /\ cyc' = 1 - cyc
        /\ \A i \in 0..(Ring - 1) : trb'[i] = IF i = enq \/ i = enq + 1 THEN cyc ELSE trb[i]
    BY <1>1, <1>2, <1>3
  <2>2. \A i \in 0..(Ring - 1) : trb'[i] = cyc
    BY <2>1, <1>2, <1>3 DEF TransferRing
  <2>3. QED
    BY <2>1, <2>2, <1>2, <1>3 DEF TransferRing, AllMade, OneToMake, Bit
<1>4. CASE ~wraps
  <2>1. trb' \in [0..(Ring - 1) -> Bit] /\ enq' = enq + 1 /\ cyc' = cyc
        /\ \A i \in 0..(Ring - 1) : trb'[i] = IF i = enq THEN cyc ELSE trb[i]
    BY <1>1, <1>2, <1>4
  <2>2. \A i \in 0..(Ring - 1) : trb'[i] = IF i < enq' THEN cyc' ELSE 1 - cyc'
    BY <2>1, <1>2 DEF TransferRing
  <2>3. QED
    BY <2>1, <2>2, <1>2, <1>4 DEF TransferRing, AllMade, OneToMake, Bit
<1>5. QED
  BY <1>3, <1>4

LEMMA UsbInit ==
  ASSUME Usb!Init
  PROVE  UsbOK
<1>1. /\ controller \in Usb!Kinds /\ step = 0 /\ descriptors = 0 /\ phase = "pci" /\ mouse = FALSE /\ td = "active"
      /\ report = 0 /\ acked = 0 /\ transfer = 0 /\ got = 0 /\ applied = 0 /\ linked = FALSE
      /\ enq = 0 /\ cyc = 1 /\ trb = [i \in 0..(Ring - 1) |-> 0] /\ hcdeq = 0 /\ hccyc = 1
      /\ evt = [i \in 0..(Events - 1) |-> [cycle |-> 0, what |-> "none"]]
      /\ hcenq = 0 /\ hcevt = 1 /\ deq = 0 /\ evcyc = 1
  BY DEF Usb!Init, Usb!EmptyRing
<1>2. EventRing /\ AllTaken
  BY <1>1, UsbAssumption DEF EventRing, AllTaken, Usb!Entries, Bit
<1>3. TransferRing /\ AllMade
  BY <1>1, UsbAssumption DEF TransferRing, AllMade, Bit
<1>4. InTurn
  BY <1>1, <1>2, <1>3 DEF InTurn
<1>5. Usb!Balanced /\ Polling /\ Numbers /\ OneDescriptor
  BY <1>1 DEF Usb!Balanced, Polling, Numbers, OneDescriptor, Bit
<1>6. 0 \in 0..Len(Usb!Questions)
  BY DEF Usb!Questions
<1>7. QED
  BY <1>1, <1>4, <1>5, <1>6 DEF UsbOK

queues == <<evt, hcenq, hcevt, deq, evcyc>>
transfers == <<enq, cyc, trb, hcdeq, hccyc>>

LEMMA InTurnStays ==
  ASSUME InTurn, UNCHANGED <<queues, transfers, transfer, got>>, mouse => mouse'
  PROVE  InTurn'
BY DEF InTurn, queues, transfers, EventRing, TransferRing, AllTaken, AllMade, OneToMake, OneReport, Usb!Entries, Bit

LEMMA OneDescriptorStays ==
  ASSUME OneDescriptor, UNCHANGED <<controller, linked, transfer, got, td>>
  PROVE  OneDescriptor'
BY DEF OneDescriptor

(* What starts and asks leaves the reports alone; a step that waits for the  *)
(* answer leaves nothing in the rings.                                       *)
Quiet == UNCHANGED <<controller, report, acked, transfer, got, applied>>

LEMMA WaitInTurn ==
  ASSUME InTurn, ~mouse, NEW w \in {"done", "failed"}, NEW v \in BOOLEAN, Usb!WaitEvent(w, v),
         UNCHANGED <<transfers, transfer, got>>
  PROVE  InTurn'
<1>1. EventRing /\ AllTaken /\ TransferRing /\ AllMade /\ got = transfer
  BY DEF InTurn
<1>2. EventRing' /\ AllTaken'
  BY <1>1, WaitKeeps
<1>3. TransferRing' /\ AllMade'
  BY <1>1 DEF transfers, TransferRing, AllMade, Bit
<1>4. QED
  BY <1>1, <1>2, <1>3 DEF InTurn

LEMMA StartStep ==
  ASSUME UsbOK, Usb!UhciInit \/ Usb!OhciInit \/ Usb!EhciInit \/ Usb!XhciInit \/ Usb!Scanned
  PROVE  UsbOK' /\ UNCHANGED applied
<1>1. /\ Quiet /\ UNCHANGED <<queues, transfers, mouse, linked, td, step, descriptors, short, stray>>
      /\ phase \in {"pci", "scan"} /\ phase' \in {"scan", "poll", "off"}
      /\ mouse => phase' = (IF phase = "pci" THEN phase' ELSE "poll")
      /\ phase' = "poll" => mouse
  BY DEF Usb!UhciInit, Usb!OhciInit, Usb!EhciInit, Usb!XhciInit, Usb!Scanned, Usb!StartWith, Quiet,
         queues, transfers, Usb!reports, Usb!ring, Usb!events, Usb!descriptor
<1>2. Polling' /\ Numbers'
  BY <1>1 DEF Quiet, Polling, Numbers, UsbOK
<1>3. Usb!Balanced'
  BY <1>1 DEF Quiet, UsbOK, Usb!Balanced, Usb!Held
<1>4. step' \in 0..Len(Usb!Questions)' /\ controller' \in Usb!Kinds
  BY <1>1 DEF Quiet, UsbOK, Usb!Questions
<1>5. controller' = "xhci" => transfer' = acked' /\ (~stray' => InTurn')
  BY <1>1, InTurnStays DEF Quiet, UsbOK
<1>6. controller' # "xhci" => OneDescriptor'
  BY <1>1, OneDescriptorStays DEF Quiet, UsbOK
<1>7. QED
  BY <1>1, <1>2, <1>3, <1>4, <1>5, <1>6 DEF UsbOK, Quiet, Usb!Kinds

LEMMA ResetStep ==
  ASSUME UsbOK, Usb!UhciPortReset \/ Usb!OhciPortReset \/ Usb!EhciPortReset \/ Usb!XhciPortReset
  PROVE  UsbOK' /\ UNCHANGED applied
<1>1. /\ Quiet /\ UNCHANGED <<transfers, mouse, linked, td, descriptors, short>>
      /\ phase = "scan" /\ phase' \in {"scan", "ask"} /\ ~mouse /\ step' = 0
      /\ UNCHANGED <<queues, stray>> \/ stray'
  BY DEF Usb!UhciPortReset, Usb!OhciPortReset, Usb!EhciPortReset, Usb!XhciPortReset, Usb!Reset, Quiet,
         queues, transfers, Usb!reports, Usb!ring, Usb!events, Usb!descriptor
<1>2. Polling' /\ Numbers'
  BY <1>1 DEF Quiet, Polling, Numbers, UsbOK
<1>3. Usb!Balanced'
  BY <1>1 DEF Quiet, UsbOK, Usb!Balanced, Usb!Held
<1>4. step' \in 0..Len(Usb!Questions)' /\ controller' \in Usb!Kinds
  <2>1. Len(Usb!Questions)' \in Nat
    BY DEF Usb!Questions
  <2>2. QED
    BY <1>1, <2>1 DEF Quiet, UsbOK
<1>5. controller' = "xhci" => transfer' = acked' /\ (~stray' => InTurn')
  BY <1>1, InTurnStays DEF Quiet, UsbOK
<1>6. controller' # "xhci" => OneDescriptor'
  BY <1>1, OneDescriptorStays DEF Quiet, UsbOK
<1>7. QED
  BY <1>1, <1>2, <1>3, <1>4, <1>5, <1>6 DEF UsbOK, Quiet, Usb!Kinds

LEMMA XhciCommandStep ==
  ASSUME UsbOK, Usb!XhciEnableSlot \/ Usb!XhciAddressDevice
  PROVE  UsbOK' /\ UNCHANGED applied
<1>1. /\ Quiet /\ UNCHANGED <<transfers, mouse, linked, td, descriptors>>
      /\ short => short'
      /\ controller = "xhci" /\ phase = "ask" /\ phase' \in {"scan", "ask"} /\ step' \in {0, 1, 2}
      /\ UNCHANGED stray
      /\ \E w \in {"done", "failed"}, v \in BOOLEAN : Usb!WaitEvent(w, v)
  <2>1. \E w \in {"done", "failed"}, v \in BOOLEAN : Usb!WaitEvent(w, v)
    BY DEF Usb!XhciEnableSlot, Usb!XhciAddressDevice
  <2>2. /\ Quiet /\ UNCHANGED <<transfers, mouse, linked, td, descriptors>>
        /\ UNCHANGED stray
    BY DEF Usb!XhciEnableSlot, Usb!XhciAddressDevice, Usb!WaitEvent, Quiet,
           transfers, Usb!reports, Usb!ring, Usb!descriptor
  <2>3. /\ short => short'
        /\ controller = "xhci" /\ phase = "ask" /\ phase' \in {"scan", "ask"} /\ step' \in {0, 1, 2}
    BY DEF Usb!XhciEnableSlot, Usb!XhciAddressDevice, Usb!WaitEvent
  <2>4. QED
    BY <2>1, <2>2, <2>3
<1>2. Polling' /\ Numbers' /\ ~mouse
  BY <1>1 DEF Quiet, Polling, Numbers, UsbOK
<1>3. Usb!Balanced'
  BY <1>1 DEF Quiet, UsbOK, Usb!Balanced, Usb!Held
<1>4. step' \in 0..Len(Usb!Questions)' /\ controller' \in Usb!Kinds
  <2>1. Len(Usb!Questions)' = 7
    BY <1>1 DEF Usb!Questions, Quiet
  <2>2. QED
    BY <1>1, <2>1 DEF Quiet, UsbOK
<1>5. transfer' = acked' /\ (~stray' => InTurn')
  BY <1>1, <1>2, WaitInTurn DEF Quiet, UsbOK
<1>6. QED
  BY <1>1, <1>2, <1>3, <1>4, <1>5 DEF UsbOK, Quiet, Usb!Kinds

(* A question leaves the pool as it was, unless memory ran out: the pool is  *)
(* empty, and large enough for each.                                         *)
LEMMA AskStep ==
  ASSUME UsbOK, Usb!Ask
  PROVE  UsbOK' /\ UNCHANGED applied
<1>1. PICK v \in BOOLEAN :
        /\ Usb!Control(Usb!Questions[step + 1], v)
        /\ step' \in {step, step + 1} /\ phase' \in {"ask", "scan"}
  BY DEF Usb!Ask
<1>2. /\ Quiet /\ UNCHANGED <<transfers, mouse, linked, td>>
      /\ phase = "ask" /\ step # Len(Usb!Questions) /\ step \in 0..Len(Usb!Questions)
  BY DEF Usb!Ask, Usb!Asked, UsbOK, Quiet, transfers, Usb!reports, Usb!ring, Usb!descriptor
<1>3. Polling' /\ Numbers' /\ ~mouse
  BY <1>1, <1>2 DEF Quiet, Polling, Numbers, UsbOK
<1>4. Usb!Questions[step + 1] \in {0, 1, 3, 4} /\ Len(Usb!Questions) \in {7, 8}
      /\ Usb!Questions' = Usb!Questions
  BY <1>2 DEF Usb!Questions, Quiet
<1>5. ~short' => ~short /\ descriptors' = descriptors
  <2>1. SUFFICES ASSUME ~short' PROVE ~short /\ descriptors' = descriptors
    OBVIOUS
  <2>2. ~short
    BY <2>1, <1>1 DEF Usb!Control, Usb!UhciControl, Usb!OhciControl, Usb!EhciControl, Usb!XhciControl
  <2>3. descriptors = 0
    BY <2>2, <1>3 DEF UsbOK, Usb!Balanced
  <2>4. PICK n \in {0, 1, 3, 4} : n = Usb!Questions[step + 1]
    BY <1>4
  <2>5. Pool \in Nat /\ Pool >= 6
    BY UsbAssumption
  <2>6. CASE Usb!UhciControl(n, v)
    BY <2>1, <2>3, <2>5, <2>6 DEF Usb!UhciControl
  <2>7. CASE Usb!OhciControl(n, v)
    BY <2>1, <2>3, <2>5, <2>7 DEF Usb!OhciControl
  <2>8. CASE Usb!EhciControl(n, v)
    BY <2>1, <2>3, <2>8 DEF Usb!EhciControl
  <2>9. CASE Usb!XhciControl(n, v)
    BY <2>2, <2>9 DEF Usb!XhciControl
  <2>10. QED
    BY <1>1, <2>2, <2>4, <2>6, <2>7, <2>8, <2>9 DEF Usb!Control
<1>6. Usb!Balanced'
  BY <1>2, <1>5 DEF Quiet, UsbOK, Usb!Balanced, Usb!Held
<1>7. step' \in 0..Len(Usb!Questions)' /\ controller' \in Usb!Kinds
  BY <1>1, <1>2, <1>4 DEF Quiet, UsbOK
<1>8. controller' = "xhci" => transfer' = acked' /\ (~stray' => InTurn')
  <2>1. SUFFICES ASSUME controller = "xhci" PROVE transfer' = acked' /\ (~stray' => InTurn')
    BY <1>2 DEF Quiet
  <2>2. UNCHANGED stray /\ (UNCHANGED queues \/ \E w \in {"done", "failed"} : Usb!WaitEvent(w, v))
    BY <1>1, <2>1 DEF Usb!Control, Usb!XhciControl, Usb!WaitEvent, queues
  <2>3. QED
    BY <1>2, <1>3, <2>1, <2>2, InTurnStays, WaitInTurn DEF Quiet, UsbOK
<1>9. controller' # "xhci" => OneDescriptor'
  BY <1>2, OneDescriptorStays DEF Quiet, UsbOK
<1>10. QED
  BY <1>2, <1>3, <1>6, <1>7, <1>8, <1>9 DEF UsbOK, Quiet, Usb!Kinds

LEMMA SetupStep ==
  ASSUME UsbOK, Usb!UhciSetup \/ Usb!OhciSetup \/ Usb!EhciSetup
  PROVE  UsbOK' /\ UNCHANGED applied
<1>1. PICK k \in {"uhci", "ohci", "ehci"}, n \in {1, 3}, tds \in {0, 1, 2} :
        /\ Usb!Setup(k, n, tds)
        /\ tds = (CASE k = "ohci" -> 2 [] k = "ehci" -> 1 [] OTHER -> 0)
  BY DEF Usb!UhciSetup, Usb!OhciSetup, Usb!EhciSetup
<1>2. /\ Quiet /\ UNCHANGED step /\ controller = k /\ phase = "ask" /\ phase' = "scan"
      /\ \/ Usb!Polled /\ descriptors' = descriptors + tds
         \/ short' /\ UNCHANGED <<mouse, linked, td>>
  BY <1>1 DEF Usb!Setup, Usb!NotPolled, Quiet, Usb!reports, Usb!descriptor
<1>3. ~mouse /\ transfer = 0 /\ got = 0
  BY <1>2 DEF UsbOK, Polling
<1>4. Polling' /\ Numbers'
  BY <1>2 DEF Quiet, Polling, Numbers, UsbOK
<1>5. OneDescriptor'
  BY <1>2, <1>3 DEF Usb!Polled, OneDescriptor, UsbOK, Quiet
<1>6. Usb!Balanced'
  <2>1. SUFFICES ASSUME ~short' PROVE descriptors' = IF mouse' THEN Usb!Held' ELSE 0
    BY DEF Usb!Balanced
  <2>2. mouse' /\ ~short /\ descriptors' = descriptors + tds
    BY <1>2, <2>1 DEF Usb!Polled
  <2>3. descriptors = 0
    BY <1>3, <2>2 DEF UsbOK, Usb!Balanced
  <2>4. Usb!Held' = tds
    BY <1>1, <1>2 DEF Usb!Held, Quiet
  <2>5. QED
    BY <2>2, <2>3, <2>4
<1>7. step' \in 0..Len(Usb!Questions)' /\ controller' \in Usb!Kinds
  BY <1>2 DEF Quiet, UsbOK, Usb!Questions
<1>8. QED
  BY <1>1, <1>2, <1>4, <1>5, <1>6, <1>7 DEF UsbOK, Quiet, Usb!Kinds

LEMMA XhciSetupStep ==
  ASSUME UsbOK, Usb!XhciSetup
  PROVE  UsbOK' /\ UNCHANGED applied
<1>1. /\ Quiet /\ UNCHANGED <<step, descriptors>> /\ controller = "xhci" /\ phase = "ask" /\ phase' = "scan"
      /\ \/ short' /\ UNCHANGED <<mouse, queues, transfers, stray>>
         \/ /\ mouse' = TRUE /\ short' = short /\ UNCHANGED <<hcdeq, hccyc, stray>>
            /\ \E w \in {"done", "failed"}, v \in BOOLEAN :
                 /\ Usb!WaitEvent(w, v)
                 /\ IF v THEN Usb!RingWrite ELSE UNCHANGED <<enq, cyc, trb>>
  BY DEF Usb!XhciSetup, Usb!NotPolled, Usb!WaitEvent, Quiet, Usb!reports, Usb!ring, Usb!events, queues, transfers
<1>2. ~mouse
  BY <1>1 DEF UsbOK, Polling
<1>3. Polling' /\ Numbers'
  BY <1>1 DEF Quiet, Polling, Numbers, UsbOK
<1>4. Usb!Balanced'
  BY <1>1, <1>2 DEF Quiet, UsbOK, Usb!Balanced, Usb!Held
<1>5. step' \in 0..Len(Usb!Questions)' /\ controller' \in Usb!Kinds
  BY <1>1 DEF Quiet, UsbOK, Usb!Questions
<1>6. ~stray' => InTurn'
  <2>1. SUFFICES ASSUME ~stray' PROVE InTurn'
    OBVIOUS
  <2>2. InTurn
    BY <1>1, <2>1 DEF UsbOK
  <2>3. CASE UNCHANGED <<mouse, queues, transfers>>
    BY <1>1, <2>2, <2>3, InTurnStays DEF Quiet
  <2>4. CASE mouse' = TRUE /\ UNCHANGED <<hcdeq, hccyc>>
             /\ \E w \in {"done", "failed"}, v \in BOOLEAN :
                 /\ Usb!WaitEvent(w, v)
                 /\ IF v THEN Usb!RingWrite ELSE UNCHANGED <<enq, cyc, trb>>
    <3>1. PICK w \in {"done", "failed"}, v \in BOOLEAN :
                 /\ Usb!WaitEvent(w, v)
                 /\ IF v THEN Usb!RingWrite ELSE UNCHANGED <<enq, cyc, trb>>
      BY <2>4
    <3>2. EventRing /\ AllTaken /\ TransferRing /\ AllMade /\ got = transfer
      BY <1>2, <2>2 DEF InTurn
    <3>3. EventRing' /\ AllTaken'
      BY <3>1, <3>2, WaitKeeps
    <3>4. CASE v
      BY <2>4, <3>1, <3>2, <3>3, <3>4, <1>1, WriteKeeps DEF InTurn, Quiet
    <3>5. CASE ~v
      <4>1. TransferRing' /\ AllMade'
        BY <2>4, <3>1, <3>2, <3>5 DEF TransferRing, AllMade, Bit
      <4>2. QED
        BY <3>2, <3>3, <4>1, <1>1 DEF InTurn, Quiet
    <3>6. QED
      BY <3>4, <3>5
  <2>5. QED
    BY <1>1, <2>3, <2>4
<1>7. QED
  BY <1>1, <1>3, <1>4, <1>5, <1>6 DEF UsbOK, Quiet, Usb!Kinds

(* The mouse moves, and a transaction of the other controllers.              *)
LEMMA MoveStep ==
  ASSUME UsbOK, Usb!Move
  PROVE  UsbOK' /\ UNCHANGED applied
<1>1. /\ UNCHANGED <<controller, phase, step, descriptors, short, mouse, linked, td, acked, transfer, got, applied,
                     queues, transfers, stray>>
      /\ phase = "poll" /\ report' = report + 1
  BY DEF Usb!Move, Usb!ring, Usb!events, Usb!descriptor, queues, transfers
<1>2. Polling' /\ Numbers'
  BY <1>1 DEF Polling, Numbers, UsbOK
<1>3. Usb!Balanced' /\ step' \in 0..Len(Usb!Questions)'
  BY <1>1 DEF UsbOK, Usb!Balanced, Usb!Held, Usb!Questions
<1>4. controller' = "xhci" => transfer' = acked' /\ (~stray' => InTurn')
  BY <1>1, InTurnStays DEF UsbOK
<1>5. controller' # "xhci" => OneDescriptor'
  BY <1>1, OneDescriptorStays DEF UsbOK
<1>6. QED
  BY <1>1, <1>2, <1>3, <1>4, <1>5 DEF UsbOK, Usb!Kinds

LEMMA TransactStep ==
  ASSUME UsbOK, Usb!Transact
  PROVE  UsbOK' /\ UNCHANGED applied
<1>1. /\ UNCHANGED <<controller, phase, step, descriptors, short, mouse, report, got, applied>>
      /\ phase = "poll" /\ controller # "xhci" /\ linked /\ report > acked
      /\ \/ td' = "done" /\ linked' = FALSE /\ transfer' = report /\ (acked' = acked \/ acked' = report)
         \/ UNCHANGED <<td, linked, transfer>> /\ acked' = report
         \/ td' = "error" /\ UNCHANGED <<transfer, acked>>
  BY DEF Usb!Transact
<1>2. got = 0 /\ transfer = 0 /\ td # "done" /\ Numbers /\ Polling
  BY <1>1 DEF UsbOK, OneDescriptor
<1>3. /\ report \in Nat /\ acked \in Nat /\ acked' \in Nat /\ acked' <= report
      /\ transfer' \in {0, report} /\ report > 0
  <2>1. report \in Nat /\ acked \in Nat /\ acked <= report
    BY <1>2 DEF Numbers
  <2>2. (acked' = acked \/ acked' = report) /\ (transfer' = 0 \/ transfer' = report)
    BY <1>1, <1>2
  <2>3. acked' \in Nat /\ acked' <= report
    BY <2>1, <2>2
  <2>4. QED
    BY <1>1, <2>1, <2>2, <2>3
<1>4. Polling' /\ Numbers' /\ OneDescriptor'
  <2>1. Polling'
    BY <1>1, <1>2 DEF Polling
  <2>2. Numbers'
    BY <1>1, <1>2, <1>3 DEF Numbers
  <2>3. OneDescriptor'
    BY <1>1, <1>2, <1>3 DEF OneDescriptor
  <2>4. QED
    BY <2>1, <2>2, <2>3
<1>5. Usb!Balanced' /\ step' \in 0..Len(Usb!Questions)'
  BY <1>1 DEF UsbOK, Usb!Balanced, Usb!Held, Usb!Questions
<1>6. QED
  BY <1>1, <1>3, <1>4, <1>5 DEF UsbOK, Usb!Kinds

(* The xHCI controller makes a transfer and posts its report.                *)
LEMMA PostKeeps ==
  ASSUME EventRing, AllTaken, Usb!Post("report"), UNCHANGED <<deq, evcyc>>
  PROVE  EventRing' /\ OneReport'
<1>1. /\ evt' = [evt EXCEPT ![hcenq] = [cycle |-> hcevt, what |-> "report"]]
      /\ hcenq' = (hcenq + 1) % Events
      /\ hcevt' = (IF hcenq = Events - 1 THEN 1 - hcevt ELSE hcevt)
  BY DEF Usb!Post, Usb!Posted
<1>2. Events \in Nat \ {0} /\ hcenq \in 0..(Events - 1) /\ hcevt \in Bit /\ deq = hcenq /\ evcyc = hcevt
  BY UsbAssumption DEF EventRing, AllTaken
<1>3. hcenq' = After(hcenq, Events) /\ hcenq' \in 0..(Events - 1) /\ hcevt' \in Bit
  BY <1>1, <1>2, RingSteps DEF Bit
<1>4. evt'[hcenq] = [cycle |-> hcevt, what |-> "report"]
      /\ evt' \in [0..(Events - 1) -> Usb!Entries]
      /\ \A i \in 0..(Events - 1) : i # hcenq => evt'[i] = evt[i]
  BY <1>1, <1>2 DEF EventRing, Usb!Entries, Bit
<1>5. \A i \in 0..(Events - 1) : evt'[i].cycle = IF i < hcenq' THEN hcevt' ELSE 1 - hcevt'
  <2> SUFFICES ASSUME NEW i \in 0..(Events - 1)
               PROVE  evt'[i].cycle = IF i < hcenq' THEN hcevt' ELSE 1 - hcevt'
    OBVIOUS
  <2>1. evt'[i].cycle = (IF i <= hcenq THEN hcevt ELSE 1 - hcevt)
    BY <1>2, <1>4 DEF EventRing
  <2>2. QED
    BY <2>1, <1>1, <1>2, <1>3 DEF After, Bit
<1>6. OneReport'
  BY <1>1, <1>2, <1>4 DEF OneReport
<1>7. QED
  BY <1>2, <1>3, <1>4, <1>5, <1>6 DEF EventRing

LEMMA XhciTransactStep ==
  ASSUME UsbOK, Usb!XhciTransact
  PROVE  UsbOK' /\ UNCHANGED applied
<1>1. /\ UNCHANGED <<controller, phase, step, descriptors, short, mouse, report, got, applied, enq, cyc, trb, stray>>
      /\ phase = "poll" /\ controller = "xhci" /\ trb[hcdeq] = hccyc
      /\ \/ /\ hcdeq = Ring - 1 /\ hcdeq' = 0 /\ hccyc' = 1 - hccyc
            /\ UNCHANGED <<acked, transfer, queues>>
         \/ /\ hcdeq < Ring - 1 /\ report > acked /\ hcdeq' = hcdeq + 1 /\ hccyc' = hccyc
            /\ transfer' = report /\ acked' = report
            /\ Usb!Post("report") /\ UNCHANGED <<deq, evcyc>>
  BY DEF Usb!XhciTransact, Usb!events, queues
<1>2. Numbers /\ Polling /\ transfer = acked /\ mouse
  BY <1>1 DEF UsbOK, Polling
<1>3. Polling' /\ Numbers' /\ transfer' = acked'
  BY <1>1, <1>2 DEF Polling, Numbers
<1>4. Usb!Balanced' /\ step' \in 0..Len(Usb!Questions)'
  BY <1>1 DEF UsbOK, Usb!Balanced, Usb!Held, Usb!Questions
<1>5. ASSUME ~stray'
      PROVE  InTurn'
  <2>1. InTurn /\ TransferRing /\ EventRing /\ Ring \in Nat /\ Ring >= 3
    BY <1>1, <1>5, UsbAssumption DEF UsbOK, InTurn
  <2>2. hcdeq \in 0..(Ring - 1) /\ trb[hcdeq] = IF hcdeq < enq THEN cyc ELSE 1 - cyc
    BY <2>1 DEF TransferRing
  <2>3. CASE hcdeq = Ring - 1 /\ hcdeq' = 0 /\ hccyc' = 1 - hccyc /\ UNCHANGED <<acked, transfer, queues>>
    <3>1. TransferRing' /\ (AllMade => AllMade') /\ (OneToMake => OneToMake')
      BY <1>1, <2>1, <2>2, <2>3 DEF TransferRing, AllMade, OneToMake, Bit
    <3>2. EventRing' /\ (AllTaken => AllTaken') /\ (OneReport => OneReport')
      BY <2>1, <2>3 DEF EventRing, AllTaken, OneReport, queues
    <3>3. QED
      BY <1>1, <2>1, <2>3, <3>1, <3>2 DEF InTurn
  <2>4. CASE /\ hcdeq < Ring - 1 /\ report > acked /\ hcdeq' = hcdeq + 1 /\ hccyc' = hccyc
             /\ transfer' = report /\ acked' = report
             /\ Usb!Post("report") /\ UNCHANGED <<deq, evcyc>>
    <3>1. ~AllMade
      BY <1>1, <2>1, <2>2, <2>4 DEF TransferRing, AllMade, Bit
    <3>2. mouse /\ AllTaken /\ OneToMake /\ got = transfer
      BY <2>1, <3>1 DEF InTurn
    <3>3. TransferRing' /\ AllMade'
      BY <1>1, <2>1, <2>2, <2>4, <3>2 DEF TransferRing, AllMade, OneToMake, Bit
    <3>4. EventRing' /\ OneReport'
      BY <2>1, <2>4, <3>2, PostKeeps
    <3>5. got' < transfer'
      BY <1>1, <1>2, <2>4, <3>2 DEF Numbers
    <3>6. QED
      BY <1>1, <3>2, <3>3, <3>4, <3>5 DEF InTurn
  <2>5. QED
    BY <1>1, <2>3, <2>4
<1>6. QED
  BY <1>1, <1>3, <1>4, <1>5 DEF UsbOK, Usb!Kinds

LEMMA PortEventStep ==
  ASSUME UsbOK, Usb!PortEvent
  PROVE  UsbOK' /\ UNCHANGED applied
<1>1. /\ Quiet /\ UNCHANGED <<phase, step, descriptors, short, mouse>> /\ stray' /\ controller = "xhci"
  BY DEF Usb!PortEvent, Usb!reports, Quiet
<1>2. QED
  BY <1>1 DEF UsbOK, Quiet, Usb!Kinds, Usb!Balanced, Usb!Held, Usb!Questions, Polling, Numbers

(* A poll applies a report that is newer than the last, and once.            *)
ReportsStep ==
  applied' # applied => got' >= got /\ (controller # "ohci" /\ ~stray => got' > got)

LEMMA UsbPollStep ==
  ASSUME UsbOK, Usb!UhciPoll \/ Usb!OhciPoll \/ Usb!EhciPoll
  PROVE  UsbOK' /\ ReportsStep
<1>1. /\ UNCHANGED <<controller, phase, step, descriptors, short, mouse, linked, report, acked, transfer, stray>>
      /\ controller \in {"uhci", "ohci", "ehci"} /\ phase = "poll" /\ td' = "active"
      /\ \/ (td = "done" \/ controller = "ohci") /\ got' = transfer /\ applied' = 1 - applied
         \/ UNCHANGED <<got, applied>>
  BY DEF Usb!UhciPoll, Usb!OhciPoll, Usb!EhciPoll, Usb!Apply, Usb!Rearm, Usb!events
<1>2. Numbers /\ Polling /\ OneDescriptor
  BY <1>1 DEF UsbOK
<1>3. Polling' /\ Numbers'
  BY <1>1, <1>2 DEF Polling, Numbers, Bit
<1>4. OneDescriptor'
  BY <1>1, <1>2 DEF OneDescriptor
<1>5. Usb!Balanced' /\ step' \in 0..Len(Usb!Questions)'
  BY <1>1 DEF UsbOK, Usb!Balanced, Usb!Held, Usb!Questions
<1>6. ReportsStep
  BY <1>1, <1>2 DEF ReportsStep, Numbers, OneDescriptor
<1>7. QED
  BY <1>1, <1>3, <1>4, <1>5, <1>6 DEF UsbOK, Usb!Kinds

(* Taking the one event leaves none.                                         *)
LEMMA TakenKeeps ==
  ASSUME EventRing, OneReport, Usb!Taken, UNCHANGED <<evt, hcenq, hcevt>>
  PROVE  EventRing' /\ AllTaken'
<1>1. deq' = (deq + 1) % Events /\ evcyc' = (IF deq = Events - 1 THEN 1 - evcyc ELSE evcyc)
  BY DEF Usb!Taken
<1>2. hcenq' = deq' /\ hcevt' = evcyc'
  BY <1>1 DEF OneReport
<1>3. QED
  BY <1>2 DEF EventRing, AllTaken

LEMMA XhciPollStep ==
  ASSUME UsbOK, Usb!XhciPoll
  PROVE  UsbOK' /\ ReportsStep
<1>1. /\ UNCHANGED <<controller, phase, step, descriptors, short, mouse, report, acked, transfer, stray,
                     hcdeq, hccyc, evt, hcenq, hcevt>>
      /\ controller = "xhci" /\ phase = "poll" /\ Usb!Pending /\ Usb!Taken /\ Usb!RingWrite
      /\ IF evt[deq].what = "report" THEN got' = transfer /\ applied' = 1 - applied
                                     ELSE UNCHANGED <<got, applied>>
  BY DEF Usb!XhciPoll, Usb!Apply
<1>2. Numbers /\ Polling
  BY DEF UsbOK
<1>3. Polling' /\ Numbers'
  BY <1>1, <1>2 DEF Polling, Numbers, Bit
<1>4. Usb!Balanced' /\ step' \in 0..Len(Usb!Questions)'
  BY <1>1 DEF UsbOK, Usb!Balanced, Usb!Held, Usb!Questions
<1>5. ASSUME ~stray
      PROVE  InTurn' /\ got < transfer
  <2>1. InTurn
    BY <1>1, <1>5 DEF UsbOK
  <2>2. ~AllTaken
    BY <1>1, <2>1, UsbAssumption DEF InTurn, EventRing, AllTaken, Usb!Pending, Bit
  <2>3. mouse /\ EventRing /\ TransferRing /\ OneReport /\ AllMade /\ got < transfer
    BY <2>1, <2>2 DEF InTurn
  <2>4. EventRing' /\ AllTaken'
    BY <1>1, <2>3, TakenKeeps
  <2>5. TransferRing' /\ OneToMake'
    BY <1>1, <2>3, WriteKeeps
  <2>6. evt[deq].what = "report"
    BY <2>3 DEF OneReport
  <2>7. got' = transfer'
    BY <1>1, <2>6
  <2>8. QED
    BY <1>1, <2>3, <2>4, <2>5, <2>7 DEF InTurn
<1>6. ReportsStep
  BY <1>1, <1>2, <1>5 DEF ReportsStep, Numbers
<1>7. QED
  BY <1>1, <1>3, <1>4, <1>5, <1>6 DEF UsbOK, Usb!Kinds

LEMMA UsbKeeps ==
  ASSUME UsbOK, [Usb!Next]_usbVars
  PROVE  UsbOK' /\ ReportsStep
<1>1. CASE UNCHANGED usbVars
  <2>1. Quiet /\ UNCHANGED <<phase, step, descriptors, short, mouse, linked, td, queues, transfers, stray>>
    BY <1>1 DEF usbVars, Quiet, queues, transfers
  <2>2. controller' = "xhci" => transfer' = acked' /\ (~stray' => InTurn')
    BY <2>1, InTurnStays DEF UsbOK, Quiet
  <2>3. controller' # "xhci" => OneDescriptor'
    BY <2>1, OneDescriptorStays DEF UsbOK, Quiet
  <2>4. QED
    BY <2>1, <2>2, <2>3 DEF UsbOK, Quiet, Usb!Balanced, Usb!Held, Usb!Questions, Polling, Numbers, ReportsStep
<1>2. CASE Usb!UhciInit \/ Usb!OhciInit \/ Usb!EhciInit \/ Usb!XhciInit \/ Usb!Scanned
  BY <1>2, StartStep DEF ReportsStep
<1>3. CASE Usb!UhciPortReset \/ Usb!OhciPortReset \/ Usb!EhciPortReset \/ Usb!XhciPortReset
  BY <1>3, ResetStep DEF ReportsStep
<1>4. CASE Usb!XhciEnableSlot \/ Usb!XhciAddressDevice \/ Usb!Ask
  BY <1>4, XhciCommandStep, AskStep DEF ReportsStep
<1>5. CASE Usb!UhciSetup \/ Usb!OhciSetup \/ Usb!EhciSetup \/ Usb!XhciSetup
  BY <1>5, SetupStep, XhciSetupStep DEF ReportsStep
<1>6. CASE Usb!Move \/ Usb!Transact \/ Usb!XhciTransact \/ Usb!PortEvent
  BY <1>6, MoveStep, TransactStep, XhciTransactStep, PortEventStep DEF ReportsStep
<1>7. CASE Usb!UhciPoll \/ Usb!OhciPoll \/ Usb!EhciPoll \/ Usb!XhciPoll
  BY <1>7, UsbPollStep, XhciPollStep
<1>8. QED
  BY <1>1, <1>2, <1>3, <1>4, <1>5, <1>6, <1>7 DEF Usb!Next

LEMMA UsbSteps ==
  ASSUME [DevicesNext]_all
  PROVE  [Usb!Next]_usbVars
BY DEF DevicesNext, all, drivers, stores, services, MouseNext, UsbNext, CardNext,
       NetworkNext, DiskNext, VolumeNext, PicturesNext, SetupNext, TlsNext, HttpNext, WgetNext

(* Whatever a device answers and whatever becomes of a transfer, the pools   *)
(* hold what the polling holds and nothing more, unless memory ran out; and  *)
(* mouse_poll applies a report after the earlier ones, and once, with every  *)
(* driver but OHCI's, as long as every event of an xHCI ring was waited for. *)
THEOREM ReportsKeepOrder == DevicesSpec => ReportsInOrder
<1>1. DevicesInit => UsbOK
  BY UsbInit DEF DevicesInit
<1>2. UsbOK /\ [DevicesNext]_all => UsbOK' /\ ReportsStep
  BY UsbKeeps, UsbSteps
<1>3. UsbOK => Usb!Balanced
  BY DEF UsbOK
<1>4. ReportsStep /\ Usb!Balanced'
        => [/\ Usb!Balanced'
            /\ applied' # applied =>
                 /\ got' >= got
                 /\ controller # "ohci" /\ ~stray => got' > got]_Usb!vars
  BY DEF ReportsStep
<1>5. QED
  BY <1>1, <1>2, <1>3, <1>4, PTL DEF DevicesSpec, ReportsInOrder, Usb!ReportsInOrder

-----------------------------------------------------------------------------
(* The installer.                                                            *)

(* What the account asked for has become of the accounts u.                  *)
AccountMade(u) ==
  wanted.word # "" => wanted.user \in DOMAIN u /\ (wanted.user \in before \/ u[wanted.user] = wanted.word)
RootMade(u) == wanted.word # "" => u["root"] = wanted.word

Running(n) == page = "installing" /\ progress = MaxTicks /\ todo >= n

Form ==
  /\ page \in Setup!Pages /\ todo \in 1..8 /\ progress \in 0..MaxTicks /\ ok \in BOOLEAN

(* What a start that loses entries does not harm: success is reported of     *)
(* what the last save has written.                                           *)
Lasting ==
  /\ Form
  /\ Running(8) => files \subseteq disk.files /\ contents \subseteq disk.contents
  /\ ok => page \in {"finished", "desktop"}
  /\ page = "finished" /\ ok => Setup!Installed(disk)

(* A disk has a root, and the content of the marker only with its entry.     *)
Whole(d) == "root" \in DOMAIN d.users /\ ("marker" \in d.contents => "marker" \in d.files)

Unmarked == "marker" \notin contents /\ "marker" \notin disk.contents

(* Nothing counts as installed before the accounts are what was asked for.   *)
SetupOK ==
  /\ "root" \in DOMAIN users /\ contents \subseteq files /\ Whole(disk)
  /\ page \in {"welcome", "keyboard", "credentials", "apps"} => Unmarked
  /\ page = "installing" /\ (progress < MaxTicks \/ todo <= 6) => Unmarked
  /\ Running(1) => "root" \in before /\ (todo = 1 => before = DOMAIN users)
  /\ Running(2) => AccountMade(users)
  /\ Running(5) => RootMade(users)
  /\ page = "finished" => AccountMade(users) /\ RootMade(users)
  /\ Setup!Installed(disk) => AccountMade(disk.users) /\ RootMade(disk.users)

LEMMA SetupInit ==
  ASSUME Setup!Init
  PROVE  Lasting /\ SetupOK
<1>1. users = [u \in {"root"} |-> "root"] /\ page = "welcome" /\ todo = 1 /\ progress = 0 /\ ok = FALSE
      /\ files = {} /\ contents = {}
      /\ \E v \in BOOLEAN : disk = [vol |-> v, files |-> {}, users |-> users, contents |-> {}]
  BY DEF Setup!Init, Setup!Nobody
<1>2. disk.files = {} /\ disk.users = users /\ disk.contents = {} /\ DOMAIN users = {"root"}
  BY <1>1
<1>3. Form
  <2>1. todo \in 1..8 /\ progress \in 0..MaxTicks
    BY <1>1, SetupAssumption
  <2>2. page \in Setup!Pages
    BY <1>1 DEF Setup!Pages
  <2>3. QED
    BY <1>1, <2>1, <2>2 DEF Form
<1>4. ~Setup!Installed(disk) /\ Unmarked /\ Whole(disk)
  BY <1>1, <1>2 DEF Unmarked, Whole, Setup!Installed
<1>5. Lasting
  BY <1>1, <1>3 DEF Lasting, Running
<1>6. SetupOK
  BY <1>1, <1>2, <1>4 DEF SetupOK, Running
<1>7. QED
  BY <1>5, <1>6

LEMMA SetupPlaces ==
  ASSUME Lasting
  PROVE  /\ Setup!At("user") => Running(1) /\ todo = 1
         /\ Setup!At("dirs") => Running(1) /\ todo = 2
         /\ Setup!At("samples") => Running(1) /\ todo = 3
         /\ Setup!At("root") => Running(1) /\ todo = 4
         /\ Setup!At("config") => Running(1) /\ todo = 5
         /\ Setup!At("marker") => Running(1) /\ todo = 6
         /\ Setup!At("sync") => Running(1) /\ todo = 7
         /\ Setup!At("verify") => Running(1) /\ todo = 8
<1>1. todo \in 1..8
  BY DEF Lasting, Form
<1>2. /\ Setup!Steps[1] = "user" /\ Setup!Steps[2] = "dirs" /\ Setup!Steps[3] = "samples"
      /\ Setup!Steps[4] = "root" /\ Setup!Steps[5] = "config" /\ Setup!Steps[6] = "marker"
      /\ Setup!Steps[7] = "sync" /\ Setup!Steps[8] = "verify"
  BY DEF Setup!Steps
<1>3. todo \in {1, 2, 3, 4, 5, 6, 7, 8}
  BY <1>1
<1>4. QED
  BY <1>2, <1>3 DEF Setup!At, Running

(* What a save over d has left when it stops at e: nothing gets lost, the    *)
(* contents change only after all the rest has been written, the accounts    *)
(* may be mixed, and a save that has come to the end has written everything. *)
Leaves(d, u, f, c, e, done) ==
  /\ d.files \subseteq e.files /\ d.contents \subseteq e.contents
  /\ e.contents \subseteq d.contents \cup c
  /\ e.contents = d.contents \/ (e.users = u /\ f \subseteq e.files)
  /\ \/ e.users \in {d.users, u}
     \/ \E D \in SUBSET DOMAIN u : e.users = Setup!Over(d.users, u, D)
  /\ done => e.users = u /\ f \subseteq e.files /\ c \subseteq e.contents

LEMMA WrittenIs ==
  ASSUME NEW d, NEW F, NEW us, NEW C, NEW e \in Setup!Written(d, F, us, C)
  PROVE  e.files = d.files \cup F /\ e.users = us /\ e.contents = d.contents \cup C
BY DEF Setup!Written

LEMMA SaveLeaves ==
  ASSUME NEW d, NEW u, NEW f, NEW c, NEW s \in Setup!Saved(d, u, f, c)
  PROVE  Leaves(d, u, f, c, s[1], s[2])
<1>1. \/ s[1] \in Setup!Stopped(d, u, f, c) /\ s[2] = FALSE
      \/ s[1] \in Setup!Written(d, f, u, c) /\ s[2] = TRUE
  BY DEF Setup!Saved
<1>2. PICK e, done : e = s[1] /\ done = s[2]
  OBVIOUS
<1>3. CASE e \in Setup!Written(d, f, u, c) /\ done = TRUE
  <2>1. e.files = d.files \cup f /\ e.users = u /\ e.contents = d.contents \cup c
    BY <1>3, WrittenIs
  <2>2. QED
    BY <1>2, <2>1 DEF Leaves
<1>4. CASE e \in Setup!Stopped(d, u, f, c) /\ done = FALSE
  <2>1. \/ e = d
        \/ \E F \in SUBSET (f \ d.files) : e \in Setup!Written(d, F, d.users, {})
        \/ \E D \in SUBSET DOMAIN u : e \in Setup!Written(d, f, Setup!Over(d.users, u, D), {})
        \/ \E C \in SUBSET (c \ d.contents) : e \in Setup!Written(d, f, u, C)
    <3> DEFINE A == {Setup!Written(d, F, d.users, {}) : F \in SUBSET (f \ d.files)}
               B == {Setup!Written(d, f, Setup!Over(d.users, u, D), {}) : D \in SUBSET DOMAIN u}
               H == {Setup!Written(d, f, u, C) : C \in SUBSET (c \ d.contents)}
    <3>1. Setup!Stopped(d, u, f, c) = {d} \cup (UNION A) \cup (UNION B) \cup (UNION H)
      BY Zenon DEF Setup!Stopped
    <3>2. e \in UNION A => \E F \in SUBSET (f \ d.files) : e \in Setup!Written(d, F, d.users, {})
      BY Zenon
    <3>3. e \in UNION B =>
            \E D \in SUBSET DOMAIN u : e \in Setup!Written(d, f, Setup!Over(d.users, u, D), {})
      BY Zenon
    <3>4. e \in UNION H => \E C \in SUBSET (c \ d.contents) : e \in Setup!Written(d, f, u, C)
      BY Zenon
    <3> HIDE DEF A, B, H
    <3>5. e = d \/ e \in UNION A \/ e \in UNION B \/ e \in UNION H
      BY <1>4, <3>1
    <3>6. QED
      BY <3>2, <3>3, <3>4, <3>5, Zenon
  <2>2. CASE e = d
    BY <1>2, <1>4, <2>2 DEF Leaves
  <2>3. CASE \E F \in SUBSET (f \ d.files) : e \in Setup!Written(d, F, d.users, {})
    <3>1. PICK F \in SUBSET (f \ d.files) : e \in Setup!Written(d, F, d.users, {})
      BY <2>3
    <3>2. PICK us, C : us = d.users /\ C = {}
      OBVIOUS
    <3>3. e \in Setup!Written(d, F, us, C)
      BY <3>1, <3>2, Zenon
    <3>4. e.files = d.files \cup F /\ e.users = us /\ e.contents = d.contents \cup C
      BY <3>3, WrittenIs
    <3>5. QED
      BY <1>2, <1>4, <3>2, <3>4 DEF Leaves
  <2>4. CASE \E D \in SUBSET DOMAIN u : e \in Setup!Written(d, f, Setup!Over(d.users, u, D), {})
    <3>1. PICK D \in SUBSET DOMAIN u : e \in Setup!Written(d, f, Setup!Over(d.users, u, D), {})
      BY <2>4
    <3>2. PICK us, C : us = Setup!Over(d.users, u, D) /\ C = {}
      OBVIOUS
    <3>3. e \in Setup!Written(d, f, us, C)
      BY <3>1, <3>2, Zenon
    <3>4. e.files = d.files \cup f /\ e.users = us /\ e.contents = d.contents \cup C
      BY <3>3, WrittenIs
    <3>5. QED
      BY <1>2, <1>4, <3>2, <3>4 DEF Leaves
  <2>5. CASE \E C \in SUBSET (c \ d.contents) : e \in Setup!Written(d, f, u, C)
    <3>1. PICK C \in SUBSET (c \ d.contents) : e \in Setup!Written(d, f, u, C)
      BY <2>5
    <3>2. e.files = d.files \cup f /\ e.users = u /\ e.contents = d.contents \cup C
      BY <3>1, WrittenIs
    <3>3. QED
      BY <1>2, <1>4, <3>2 DEF Leaves
  <2>6. QED
    BY <2>1, <2>2, <2>3, <2>4, <2>5
<1>5. QED
  BY <1>1, <1>2, <1>3, <1>4

LEMMA SaveKeepsWhole ==
  ASSUME NEW d, NEW u, NEW f, NEW c, NEW e, NEW done, Leaves(d, u, f, c, e, done),
         Whole(d), "root" \in DOMAIN u, c \subseteq f
  PROVE  /\ Whole(e)
         /\ "marker" \in e.contents => "marker" \in d.contents \/ ("marker" \in c /\ e.users = u)
<1>1. "root" \in DOMAIN e.users
  <2>1. \A D : DOMAIN Setup!Over(d.users, u, D) = DOMAIN d.users \cup D
    BY DEF Setup!Over
  <2>2. QED
    BY <2>1 DEF Leaves, Whole
<1>2. "marker" \in e.contents => "marker" \in e.files
  BY DEF Leaves, Whole
<1>3. "marker" \in e.contents => "marker" \in d.contents \/ ("marker" \in c /\ e.users = u)
  BY DEF Leaves
<1>4. QED
  BY <1>1, <1>2, <1>3 DEF Whole

(* A mixture of accounts that are as they were asked for is so itself.       *)
LEMMA SaveKeepsAccounts ==
  ASSUME NEW d, NEW u, NEW f, NEW c, NEW e, NEW done, Leaves(d, u, f, c, e, done),
         Whole(d), "root" \in DOMAIN u, c \subseteq f, AccountMade(u), RootMade(u),
         Setup!Installed(d) => AccountMade(d.users) /\ RootMade(d.users)
  PROVE  Setup!Installed(e) => AccountMade(e.users) /\ RootMade(e.users)
<1>1. SUFFICES ASSUME Setup!Installed(e)
               PROVE  AccountMade(e.users) /\ RootMade(e.users)
  OBVIOUS
<1>2. CASE e.users = u
  BY <1>2
<1>3. CASE e.users # u
  <2>1. "marker" \in e.contents
    BY <1>1 DEF Setup!Installed
  <2>2. "marker" \in d.contents
    BY <1>3, <2>1, SaveKeepsWhole
  <2>3. AccountMade(d.users) /\ RootMade(d.users)
    BY <2>2 DEF Whole, Setup!Installed
  <2>4. CASE e.users = d.users
    BY <2>3, <2>4
  <2>5. CASE \E D \in SUBSET DOMAIN u : e.users = Setup!Over(d.users, u, D)
    <3>1. PICK D \in SUBSET DOMAIN u : e.users = Setup!Over(d.users, u, D)
      BY <2>5
    <3>2. /\ DOMAIN e.users = DOMAIN d.users \cup D
          /\ \A a \in DOMAIN d.users \cup D : e.users[a] = IF a \in D THEN u[a] ELSE d.users[a]
      BY <3>1 DEF Setup!Over
    <3>3. AccountMade(e.users)
      BY <3>2, <2>3 DEF AccountMade
    <3>4. "root" \in DOMAIN d.users
      BY DEF Whole
    <3>5. RootMade(e.users)
      BY <3>2, <3>4, <2>3 DEF RootMade
    <3>6. QED
      BY <3>3, <3>5
  <2>6. QED
    BY <1>3, <2>4, <2>5 DEF Leaves
<1>4. QED
  BY <1>2, <1>3

(* A start, which loses nothing unless erased says so.                       *)
LEMMA BootFresh ==
  ASSUME NEW d, Setup!Boot(d)
  PROVE  /\ todo' = 1 /\ progress' = 0 /\ ok' = FALSE /\ page' \in {"welcome", "desktop"}
         /\ UNCHANGED <<wanted, before>> /\ (erased => erased')
BY DEF Setup!Boot, Setup!Fresh

LEMMA BootKeeps ==
  ASSUME NEW d, Setup!Boot(d), ~erased', "root" \in DOMAIN d.users
  PROVE  /\ disk'.files = d.files /\ disk'.users = d.users /\ disk'.contents = d.contents
         /\ users' = d.users /\ files' = d.files /\ contents' = d.files \cap d.contents
         /\ page' = "welcome" => ~Setup!Installed(d)
<1>1. PICK l \in Setup!Loaded(d) :
        /\ users' = IF DOMAIN l.users = {} THEN Setup!Nobody ELSE l.users
        /\ files' = l.files /\ contents' = l.files \cap l.contents
        /\ page' = IF Setup!Installed(l) THEN "desktop" ELSE "welcome"
        /\ \E v \in {l.vol, TRUE}, u \in {l.users, users'} :
             disk' = [vol |-> v, files |-> l.files, users |-> u, contents |-> l.contents]
  BY DEF Setup!Boot
<1>2. PICK v, u : /\ u \in {l.users, users'}
                  /\ disk' = [vol |-> v, files |-> l.files, users |-> u, contents |-> l.contents]
  <2>1. \E v \in {l.vol, TRUE}, u \in {l.users, users'} :
          disk' = [vol |-> v, files |-> l.files, users |-> u, contents |-> l.contents]
    BY <1>1
  <2>2. QED
    BY <2>1, Zenon
<1>3. disk'.files = l.files /\ disk'.users = u /\ disk'.contents = l.contents
  BY <1>2
<1>4. disk'.files = d.files /\ disk'.users = d.users
  BY DEF Setup!Boot
<1>5. l.contents = d.contents
  <2>1. CASE d.vol
    BY <1>1, <2>1 DEF Setup!Loaded
  <2>2. CASE ~d.vol
    <3>1. \E w, F, D : l = [vol |-> w, files |-> F, users |-> [a \in D |-> d.users[a]], contents |-> d.contents]
      BY <1>1, <2>2 DEF Setup!Loaded
    <3>2. QED
      BY <3>1
  <2>3. QED
    BY <2>1, <2>2
<1>6. users' = d.users
  <2>1. CASE u = users'
    BY <2>1, <1>3, <1>4
  <2>2. CASE u = l.users
    <3>1. l.users = d.users /\ DOMAIN l.users # {}
      BY <2>2, <1>3, <1>4
    <3>2. QED
      BY <3>1, <1>1
  <2>3. QED
    BY <2>1, <2>2, <1>2
<1>7. l.files = d.files
  BY <1>3, <1>4
<1>8. page' = "welcome" => ~Setup!Installed(d)
  BY <1>1, <1>5, <1>7 DEF Setup!Installed
<1>9. QED
  BY <1>1, <1>3, <1>4, <1>5, <1>6, <1>7, <1>8

(* Success is reported only by Verify, of what the last save has written.    *)
LEMMA LastingKeeps ==
  ASSUME Lasting, [Setup!Next]_setupVars
  PROVE  Lasting'
<1> DEFINE FormPages == {"welcome", "keyboard", "credentials", "apps"}
<1>1. MaxTicks \in Nat \ {0} /\ Form /\ (page \notin {"finished", "desktop"} => ~ok)
  BY SetupAssumption DEF Lasting
<1>2. ASSUME page \in FormPages, UNCHANGED <<ok, todo>>,
             (page' \in FormPages /\ progress' = progress) \/ (page' = "installing" /\ progress' = 0)
      PROVE  Lasting'
  <2>1. ~ok' /\ ~Running(8)' /\ page' # "finished" /\ page' \in Setup!Pages /\ progress' \in 0..MaxTicks
    BY <1>1, <1>2 DEF Form, Running, Setup!Pages
  <2>2. Form'
    BY <1>1, <1>2, <2>1 DEF Form
  <2>3. QED
    BY <2>1, <2>2 DEF Lasting
<1>3. CASE \E f \in FormPages, t \in FormPages : Setup!Go(f, t)
  BY <1>2, <1>3 DEF Setup!Go, Setup!engine
<1>4. CASE Setup!Type \/ Setup!Submit \/ Setup!Deploy
  <2>1. /\ page \in FormPages /\ UNCHANGED <<ok, todo>>
        /\ \/ page' \in FormPages /\ progress' = progress
           \/ page' = "installing" /\ progress' = 0
    BY <1>4 DEF Setup!Type, Setup!Submit, Setup!Deploy, Setup!Go, Setup!engine
  <2>2. QED
    BY <1>2, <2>1
<1>5. CASE Setup!Tick
  <2>1. /\ page = "installing" /\ progress < MaxTicks /\ progress' = progress + 1 /\ UNCHANGED <<page, ok>>
        /\ \/ progress' = MaxTicks /\ todo' = 1
           \/ progress' # MaxTicks /\ todo' = todo
    BY <1>5 DEF Setup!Tick
  <2>2. ~ok' /\ ~Running(8)' /\ page' # "finished"
    BY <1>1, <2>1 DEF Running
  <2>3. Form'
    BY <1>1, <2>1 DEF Form
  <2>4. QED
    BY <2>2, <2>3 DEF Lasting
<1>6. ASSUME Running(1), todo \in 1..6, todo' = todo + 1, UNCHANGED <<page, progress, ok>>
      PROVE  Lasting'
  <2>1. ~ok' /\ ~Running(8)' /\ page' # "finished"
    BY <1>1, <1>6 DEF Running
  <2>2. Form'
    BY <1>1, <1>6 DEF Form
  <2>3. QED
    BY <2>1, <2>2 DEF Lasting
<1>7. CASE \E f \in Setup!Writes : Setup!Write(f)
  <2>1. PICK f \in {"dirs", "samples", "config", "marker"} : Setup!Write(f)
    BY <1>7 DEF Setup!Writes
  <2>2. Setup!At(f) /\ Setup!Step
    BY <2>1 DEF Setup!Write
  <2>3. Running(1) /\ todo \in 1..6
    BY <2>2, SetupPlaces
  <2>4. todo' = todo + 1 /\ UNCHANGED <<page, progress, ok>>
    BY <2>2 DEF Setup!Step
  <2>5. QED
    BY <1>6, <2>3, <2>4
<1>8. CASE Setup!UserAdd \/ Setup!RootPassword
  <2>1. (Setup!At("user") \/ Setup!At("root")) /\ Setup!Step
    BY <1>8 DEF Setup!UserAdd, Setup!RootPassword
  <2>2. Running(1) /\ todo \in 1..6
    BY <2>1, SetupPlaces
  <2>3. todo' = todo + 1 /\ UNCHANGED <<page, progress, ok>>
    BY <2>1 DEF Setup!Step
  <2>4. QED
    BY <1>6, <2>2, <2>3
<1>9. CASE Setup!Sync
  <2>1. PICK s \in Setup!Saved(disk, users, files, contents) :
          disk' = s[1] /\ IF s[2] THEN todo' = todo + 1 /\ UNCHANGED page
                         ELSE page' = "finished" /\ UNCHANGED todo
    BY <1>9 DEF Setup!Sync
  <2>2. Running(1) /\ todo = 7 /\ UNCHANGED <<progress, ok, files, contents>>
    BY <1>9, SetupPlaces DEF Setup!Sync
  <2>3. s[2] => files \subseteq s[1].files /\ contents \subseteq s[1].contents
    BY SaveLeaves DEF Leaves
  <2>4. ~ok'
    BY <1>1, <2>2 DEF Running
  <2>5. Form'
    BY <1>1, <2>1, <2>2 DEF Form, Running, Setup!Pages
  <2>6. Running(8)' => files' \subseteq disk'.files /\ contents' \subseteq disk'.contents
    BY <2>1, <2>2, <2>3 DEF Running
  <2>7. QED
    BY <2>4, <2>5, <2>6 DEF Lasting
<1>10. CASE Setup!Verify
  <2>1. Running(8)
    BY <1>10, SetupPlaces DEF Setup!Verify, Running
  <2>2. /\ page' = "finished" /\ ok' \in BOOLEAN /\ (ok' => "marker" \in files \cap contents)
        /\ UNCHANGED <<progress, todo, disk>>
    BY <1>10 DEF Setup!Verify
  <2>3. ok' => Setup!Installed(disk)'
    BY <2>1, <2>2 DEF Lasting, Setup!Installed
  <2>4. Form' /\ ~Running(8)'
    BY <1>1, <2>2 DEF Form, Running, Setup!Pages
  <2>5. QED
    BY <2>2, <2>3, <2>4 DEF Lasting
<1>11. CASE Setup!Reboot \/ Setup!PowerCut
  <2>1. PICK d : Setup!Boot(d)
    BY <1>11 DEF Setup!Reboot, Setup!PowerCut
  <2>2. todo' = 1 /\ progress' = 0 /\ ok' = FALSE /\ page' \in {"welcome", "desktop"}
    BY <2>1, BootFresh
  <2>3. todo' \in 1..8 /\ progress' \in 0..MaxTicks /\ page' \in Setup!Pages /\ page' # "installing"
    BY <1>1, <2>2 DEF Setup!Pages
  <2>4. Form' /\ ~Running(8)'
    BY <2>2, <2>3 DEF Form, Running
  <2>5. QED
    BY <2>2, <2>4 DEF Lasting
<1>12. CASE Setup!Continue
  <2>1. page' = "desktop" /\ UNCHANGED <<progress, ok, todo>>
    BY <1>12 DEF Setup!Continue
  <2>2. Form' /\ ~Running(8)'
    BY <1>1, <2>1 DEF Form, Running, Setup!Pages
  <2>3. QED
    BY <2>1, <2>2 DEF Lasting
<1>13. CASE UNCHANGED setupVars
  BY <1>13 DEF setupVars, Lasting, Form, Running, Setup!Installed
<1>14. QED
  BY <1>3, <1>4, <1>5, <1>7, <1>8, <1>9, <1>10, <1>11, <1>12, <1>13 DEF Setup!Next

(* Only what do_install does changes anything but the form.                  *)
LEMMA FormStep ==
  ASSUME SetupOK, UNCHANGED <<users, files, contents, disk, wanted, before>>,
         page \in {"welcome", "keyboard", "credentials", "apps"},
         page' \in {"welcome", "keyboard", "credentials", "apps"} \/ (page' = "installing" /\ progress' = 0)
  PROVE  SetupOK'
<1>1. MaxTicks \in Nat \ {0} /\ Unmarked' /\ Whole(disk)'
  BY SetupAssumption DEF SetupOK, Unmarked, Whole
<1>2. ~Running(1)' /\ ~Running(2)' /\ ~Running(5)' /\ page' # "finished"
  BY <1>1 DEF Running
<1>3. ~Setup!Installed(disk)'
  BY <1>1 DEF Unmarked, Setup!Installed
<1>4. QED
  BY <1>1, <1>2, <1>3 DEF SetupOK

LEMMA TickStep ==
  ASSUME SetupOK, Setup!Tick
  PROVE  SetupOK'
<1>1. /\ page = "installing" /\ progress < MaxTicks /\ progress' = progress + 1
      /\ UNCHANGED <<page, users, files, contents, disk>>
      /\ \/ progress' = MaxTicks /\ before' = DOMAIN users /\ todo' = 1
         \/ progress' # MaxTicks /\ todo' = todo
  BY DEF Setup!Tick
<1>2. Unmarked' /\ Whole(disk)'
  BY <1>1 DEF SetupOK, Unmarked, Whole
<1>3. ~Setup!Installed(disk)'
  BY <1>2 DEF Unmarked, Setup!Installed
<1>4. /\ Running(1)' => "root" \in before' /\ (todo' = 1 => before' = DOMAIN users')
      /\ ~Running(2)' /\ ~Running(5)'
  BY <1>1 DEF Running, SetupOK
<1>5. QED
  BY <1>1, <1>2, <1>3, <1>4 DEF SetupOK

(* A step of do_install before the marker.                                   *)
LEMMA EarlyStep ==
  ASSUME Lasting, SetupOK, Running(1), todo <= 5, Setup!Step,
         "root" \in DOMAIN users', contents' \subseteq files', "marker" \notin contents',
         UNCHANGED disk \/ \E s \in Setup!Saved(disk, users', files', contents') : disk' = s[1],
         AccountMade(users)', todo' >= 5 => RootMade(users)'
  PROVE  SetupOK'
<1>1. todo' = todo + 1 /\ UNCHANGED <<page, progress, wanted, before>> /\ todo \in 1..5
  BY DEF Setup!Step, Lasting, Form
<1>2. Unmarked /\ Whole(disk)
  BY <1>1 DEF SetupOK, Running
<1>3. Unmarked' /\ Whole(disk)'
  <2>1. CASE UNCHANGED disk
    BY <2>1, <1>2 DEF Unmarked, Whole
  <2>2. CASE \E s \in Setup!Saved(disk, users', files', contents') : disk' = s[1]
    <3>1. PICK us, fs, cs : us = users' /\ fs = files' /\ cs = contents'
      OBVIOUS
    <3>2. PICK s \in Setup!Saved(disk, us, fs, cs) : disk' = s[1]
      BY <2>2, <3>1
    <3>3. Leaves(disk, us, fs, cs, s[1], s[2])
      BY SaveLeaves
    <3>4. PICK e : e = s[1]
      OBVIOUS
    <3>5. /\ Whole(e)
          /\ "marker" \in e.contents => "marker" \in disk.contents \/ ("marker" \in cs /\ e.users = us)
      BY <3>1, <3>3, <3>4, <1>2, SaveKeepsWhole
    <3>6. disk' = e
      BY <3>2, <3>4
    <3>7. "marker" \notin e.contents
      BY <3>1, <3>5, <1>2 DEF Unmarked
    <3>8. QED
      BY <3>5, <3>6, <3>7 DEF Unmarked, Whole
  <2>3. QED
    BY <2>1, <2>2
<1>4. ~Setup!Installed(disk)'
  BY <1>3 DEF Unmarked, Setup!Installed
<1>5. "root" \in before' /\ todo' # 1 /\ page' = "installing"
  BY <1>1 DEF SetupOK, Running
<1>6. Running(5)' => RootMade(users)'
  BY DEF Running
<1>7. QED
  BY <1>3, <1>4, <1>5, <1>6 DEF SetupOK

LEMMA UserStep ==
  ASSUME Lasting, SetupOK, Setup!UserAdd
  PROVE  SetupOK'
<1>1. Running(1) /\ todo = 1 /\ todo' = 2 /\ Setup!Step /\ UNCHANGED <<files, contents, wanted, before>>
  <2>1. Running(1) /\ todo = 1 /\ Setup!Step /\ UNCHANGED <<files, contents>>
    BY SetupPlaces DEF Setup!UserAdd
  <2>2. QED
    BY <2>1 DEF Setup!Step
<1>2. "marker" \notin contents' /\ contents' \subseteq files' /\ before = DOMAIN users /\ "root" \in DOMAIN users
  BY <1>1 DEF SetupOK, Running, Unmarked
<1>3. CASE wanted.word = "" \/ wanted.user \in DOMAIN users
  <2>1. UNCHANGED <<users, disk>>
    BY <1>3 DEF Setup!UserAdd
  <2>2. AccountMade(users)'
    BY <1>1, <1>2, <1>3, <2>1 DEF AccountMade
  <2>3. QED
    BY <1>1, <1>2, <2>1, <2>2, EarlyStep
<1>4. CASE ~(wanted.word = "" \/ wanted.user \in DOMAIN users)
  <2>1. /\ \E s \in Setup!Saved(disk, users', files', contents') : disk' = s[1]
        /\ users' = [u \in DOMAIN users \cup {wanted.user} |->
                      IF u = wanted.user THEN wanted.word ELSE users[u]]
    BY <1>4 DEF Setup!UserAdd, Setup!Save
  <2>2. "root" \in DOMAIN users' /\ AccountMade(users)'
    BY <1>1, <1>2, <2>1 DEF AccountMade
  <2>3. todo <= 5 /\ ~(todo' >= 5)
    BY <1>1
  <2>4. UNCHANGED disk \/ \E s \in Setup!Saved(disk, users', files', contents') : disk' = s[1]
    BY <2>1
  <2>5. QED
    BY <1>1, <1>2, <2>2, <2>3, <2>4, EarlyStep
<1>5. QED
  BY <1>3, <1>4

(* A file other than the marker.                                             *)
LEMMA FileStep ==
  ASSUME Lasting, SetupOK, NEW f \in {"dirs", "samples", "config"}, Setup!Write(f)
  PROVE  SetupOK'
<1>1. Running(1) /\ todo \in {2, 3, 5} /\ todo' = todo + 1 /\ Setup!Step /\ UNCHANGED <<users, wanted, before>>
  BY SetupPlaces DEF Setup!Write, Setup!Step
<1>2. /\ "root" \in DOMAIN users' /\ "marker" \notin contents /\ contents \subseteq files
      /\ AccountMade(users) /\ (todo = 5 => RootMade(users))
  BY <1>1 DEF SetupOK, Running, Unmarked
<1>3. /\ contents' \subseteq files' /\ "marker" \notin contents'
      /\ UNCHANGED disk \/ \E s \in Setup!Saved(disk, users', files', contents') : disk' = s[1]
  BY <1>2 DEF Setup!Write, Setup!Save
<1>4. AccountMade(users)' /\ (todo' >= 5 => RootMade(users)')
  <2>1. AccountMade(users)'
    BY <1>1, <1>2 DEF AccountMade
  <2>2. todo' >= 5 => todo = 5
    BY <1>1
  <2>3. RootMade(users) => RootMade(users)'
    BY <1>1 DEF RootMade
  <2>4. QED
    BY <1>2, <2>1, <2>2, <2>3
<1>5. QED
  BY <1>1, <1>2, <1>3, <1>4, EarlyStep

LEMMA RootStep ==
  ASSUME Lasting, SetupOK, Setup!RootPassword
  PROVE  SetupOK'
<1>1. Running(1) /\ todo = 4 /\ Setup!Step /\ UNCHANGED <<files, contents, wanted, before>>
  BY SetupPlaces DEF Setup!RootPassword, Setup!Step
<1>2. /\ "marker" \notin contents' /\ contents' \subseteq files' /\ "root" \in before
      /\ "root" \in DOMAIN users /\ AccountMade(users)
  BY <1>1 DEF SetupOK, Running, Unmarked
<1>3. /\ DOMAIN users' = DOMAIN users
      /\ \A u \in DOMAIN users : u # "root" => users'[u] = users[u]
      /\ wanted.word # "" => users'["root"] = wanted.word
  <2>1. CASE wanted.word = "" /\ UNCHANGED <<users, disk>>
    BY <2>1
  <2>2. CASE \E w \in IF wanted.word = "" THEN Secrets ELSE {wanted.word} :
               users' = [users EXCEPT !["root"] = w]
    <3>1. PICK w : users' = [users EXCEPT !["root"] = w] /\ (wanted.word # "" => w = wanted.word)
      BY <2>2
    <3>2. /\ DOMAIN users' = DOMAIN users
          /\ \A u \in DOMAIN users : users'[u] = IF u = "root" THEN w ELSE users[u]
      BY <3>1
    <3>3. QED
      BY <3>1, <3>2, <1>2
  <2>3. QED
    BY <2>1, <2>2, <1>2 DEF Setup!RootPassword
<1>4. AccountMade(users)'
  <2>1. SUFFICES ASSUME wanted.word # ""
                 PROVE  wanted.user \in DOMAIN users' /\ (wanted.user \in before \/ users'[wanted.user] = wanted.word)
    BY <1>1 DEF AccountMade
  <2>2. wanted.user \in DOMAIN users /\ (wanted.user \in before \/ users[wanted.user] = wanted.word)
    BY <1>2, <2>1 DEF AccountMade
  <2>3. QED
    BY <1>2, <1>3, <2>2
<1>5. RootMade(users)'
  BY <1>1, <1>3 DEF RootMade
<1>6. UNCHANGED disk \/ \E s \in Setup!Saved(disk, users', files', contents') : disk' = s[1]
  BY DEF Setup!RootPassword, Setup!Save
<1>7. "root" \in DOMAIN users' /\ todo <= 5
  <2>1. DOMAIN users' = DOMAIN users
    BY <1>3
  <2>2. QED
    BY <2>1, <1>1, <1>2
<1>8. QED
  BY <1>1, <1>2, <1>4, <1>5, <1>6, <1>7, EarlyStep

(* Once the accounts are what was asked for, a save of them, with the marker *)
(* or without, leaves nothing else that counts as installed.                 *)
LEMMA LateSave ==
  ASSUME NEW e, NEW done, NEW f, NEW c, Leaves(disk, users, f, c, e, done), SetupOK, c \subseteq f,
         AccountMade(users), RootMade(users)
  PROVE  Whole(e) /\ (Setup!Installed(e) => AccountMade(e.users) /\ RootMade(e.users))
<1>1. /\ "root" \in DOMAIN users /\ Whole(disk)
      /\ Setup!Installed(disk) => AccountMade(disk.users) /\ RootMade(disk.users)
  BY DEF SetupOK
<1>2. QED
  BY <1>1, SaveKeepsWhole, SaveKeepsAccounts

(* The last steps before it reads back what it has written.                  *)
LEMMA LateStep ==
  ASSUME Lasting, SetupOK, Running(6), todo' \in {7, 8}, UNCHANGED <<users, wanted, before, progress>>,
         page' \in {"installing", "finished"}, contents' \subseteq files',
         UNCHANGED disk \/ \E s \in Setup!Saved(disk, users, files', contents') : disk' = s[1]
  PROVE  SetupOK'
<1>1. /\ AccountMade(users) /\ RootMade(users) /\ "root" \in before /\ progress = MaxTicks /\ todo' # 1
      /\ "root" \in DOMAIN users /\ Whole(disk) /\ todo \in 1..8 /\ MaxTicks \in Nat
      /\ Setup!Installed(disk) => AccountMade(disk.users) /\ RootMade(disk.users)
  BY SetupAssumption DEF SetupOK, Running, Lasting, Form
<1>2. PICK e : e = disk'
  OBVIOUS
<1>3. Whole(e) /\ (Setup!Installed(e) => AccountMade(e.users) /\ RootMade(e.users))
  <2>1. CASE UNCHANGED disk
    BY <2>1, <1>1, <1>2
  <2>2. CASE \E s \in Setup!Saved(disk, users, files', contents') : disk' = s[1]
    <3>1. PICK fs, cs : fs = files' /\ cs = contents'
      OBVIOUS
    <3>2. PICK s \in Setup!Saved(disk, users, fs, cs) : disk' = s[1]
      BY <2>2, <3>1
    <3>3. Leaves(disk, users, fs, cs, s[1], s[2])
      BY SaveLeaves
    <3>4. Leaves(disk, users, fs, cs, e, s[2])
      BY <3>2, <3>3, <1>2
    <3>5. QED
      BY <3>1, <3>4, <1>1, LateSave
  <2>3. QED
    BY <2>1, <2>2
<1>4. Whole(disk)' /\ (Setup!Installed(disk)' => AccountMade(disk.users)' /\ RootMade(disk.users)')
  BY <1>2, <1>3 DEF Whole, Setup!Installed, AccountMade, RootMade
<1>5. AccountMade(users)' /\ RootMade(users)'
  BY <1>1 DEF AccountMade, RootMade
<1>6. ~(progress' < MaxTicks \/ todo' <= 6)
  BY <1>1
<1>7. QED
  BY <1>1, <1>4, <1>5, <1>6 DEF SetupOK

LEMMA MarkerStep ==
  ASSUME Lasting, SetupOK, Setup!Write("marker")
  PROVE  SetupOK'
<1>1. /\ Running(6) /\ todo' = 7 /\ page' = "installing" /\ contents \subseteq files
      /\ UNCHANGED <<users, wanted, before, progress>>
  BY SetupPlaces DEF Setup!Write, Setup!Step, Running, SetupOK
<1>2. /\ contents' \subseteq files'
      /\ UNCHANGED disk \/ \E s \in Setup!Saved(disk, users, files', contents') : disk' = s[1]
  BY <1>1 DEF Setup!Write, Setup!Save
<1>3. QED
  BY <1>1, <1>2, LateStep

LEMMA SyncStep ==
  ASSUME Lasting, SetupOK, Setup!Sync
  PROVE  SetupOK'
<1>1. /\ Running(6) /\ todo = 7 /\ page = "installing" /\ contents \subseteq files
      /\ UNCHANGED <<users, files, contents, wanted, before, progress>>
  BY SetupPlaces DEF Setup!Sync, Running, SetupOK
<1>2. PICK s \in Setup!Saved(disk, users, files, contents) :
        disk' = s[1] /\ IF s[2] THEN todo' = todo + 1 /\ UNCHANGED page
                       ELSE page' = "finished" /\ UNCHANGED todo
  BY DEF Setup!Sync
<1>3. todo' \in {7, 8} /\ page' \in {"installing", "finished"}
  BY <1>1, <1>2
<1>4. \E t \in Setup!Saved(disk, users, files', contents') : disk' = t[1]
  BY <1>1, <1>2
<1>5. QED
  BY <1>1, <1>3, <1>4, LateStep

LEMMA VerifyStep ==
  ASSUME Lasting, SetupOK, Setup!Verify
  PROVE  SetupOK'
<1>1. /\ Running(6) /\ todo' = 8 /\ page' = "finished" /\ contents' \subseteq files'
      /\ UNCHANGED <<users, wanted, before, progress, disk>>
  BY SetupPlaces DEF Setup!Verify, Running, SetupOK
<1>2. QED
  BY <1>1, LateStep

(* What a machine starts with: the page depends on the marker.               *)
LEMMA BootStep ==
  ASSUME NEW d, Setup!Boot(d), ~erased', Whole(d),
         Setup!Installed(d) => AccountMade(d.users) /\ RootMade(d.users)
  PROVE  SetupOK'
<1>1. /\ progress' = 0 /\ page' \in {"welcome", "desktop"} /\ UNCHANGED <<wanted, before>>
  BY BootFresh
<1>2. /\ disk'.files = d.files /\ disk'.users = d.users /\ disk'.contents = d.contents
      /\ users' = d.users /\ files' = d.files /\ contents' = d.files \cap d.contents
      /\ page' = "welcome" => ~Setup!Installed(d)
  BY BootKeeps DEF Whole
<1>3. Whole(disk)' /\ "root" \in DOMAIN users' /\ contents' \subseteq files'
  BY <1>2 DEF Whole
<1>4. page' = "welcome" => Unmarked'
  BY <1>2 DEF Unmarked, Setup!Installed, Whole
<1>5. Setup!Installed(disk)' => AccountMade(disk.users)' /\ RootMade(disk.users)'
  BY <1>1, <1>2 DEF Setup!Installed, AccountMade, RootMade
<1>6. ~Running(1)' /\ ~Running(2)' /\ ~Running(5)'
  BY <1>1 DEF Running
<1>7. QED
  BY <1>1, <1>3, <1>4, <1>5, <1>6 DEF SetupOK

LEMMA EndStep ==
  ASSUME SetupOK, ~erased', Setup!Reboot \/ Setup!Continue \/ Setup!PowerCut
  PROVE  SetupOK'
<1>1. CASE Setup!PowerCut
  <2>1. Setup!Boot(disk)
    BY <1>1 DEF Setup!PowerCut
  <2>2. Whole(disk) /\ (Setup!Installed(disk) => AccountMade(disk.users) /\ RootMade(disk.users))
    BY DEF SetupOK
  <2>3. QED
    BY <2>1, <2>2, BootStep
<1>2. ASSUME page = "finished", NEW s \in Setup!Saved(disk, users, files, contents)
      PROVE  /\ Whole(s[1])
             /\ Setup!Installed(s[1]) => AccountMade(s[1].users) /\ RootMade(s[1].users)
  <2>1. Leaves(disk, users, files, contents, s[1], s[2])
    BY SaveLeaves
  <2>2. contents \subseteq files /\ AccountMade(users) /\ RootMade(users)
    BY <1>2 DEF SetupOK
  <2>3. QED
    BY <2>1, <2>2, LateSave
<1>3. CASE Setup!Reboot
  <2>1. PICK s \in Setup!Saved(disk, users, files, contents) : Setup!Boot(s[1])
    BY <1>3 DEF Setup!Reboot
  <2>2. page = "finished"
    BY <1>3 DEF Setup!Reboot
  <2>3. QED
    BY <1>2, <2>1, <2>2, BootStep
<1>4. CASE Setup!Continue
  <2>1. page = "finished" /\ page' = "desktop" /\ UNCHANGED <<users, files, contents, wanted, before>>
    BY <1>4 DEF Setup!Continue
  <2>2. PICK s \in Setup!Saved(disk, users, files, contents) : disk' = s[1]
    BY <1>4, <2>1 DEF Setup!Continue, Setup!Save
  <2>3. PICK e : e = s[1]
    OBVIOUS
  <2>4. Whole(e) /\ (Setup!Installed(e) => AccountMade(e.users) /\ RootMade(e.users))
    BY <1>2, <2>1, <2>3
  <2>5. Whole(disk)' /\ (Setup!Installed(disk)' => AccountMade(disk.users)' /\ RootMade(disk.users)')
    BY <2>1, <2>2, <2>3, <2>4 DEF Whole, Setup!Installed, AccountMade, RootMade
  <2>6. ~Running(1)' /\ ~Running(2)' /\ ~Running(5)'
    BY <2>1 DEF Running
  <2>7. QED
    BY <2>1, <2>5, <2>6 DEF SetupOK
<1>5. QED
  BY <1>1, <1>3, <1>4

LEMMA SetupKeeps ==
  ASSUME Lasting, SetupOK, ~erased', [Setup!Next]_setupVars
  PROVE  SetupOK'
<1> DEFINE FormPages == {"welcome", "keyboard", "credentials", "apps"}
<1>1. CASE \E f \in FormPages, t \in FormPages : Setup!Go(f, t)
  BY <1>1, FormStep DEF Setup!Go, Setup!engine
<1>2. CASE Setup!Type \/ Setup!Submit \/ Setup!Deploy
  <2>1. /\ UNCHANGED <<users, files, contents, disk, wanted, before>> /\ page \in FormPages
        /\ page' \in FormPages \/ (page' = "installing" /\ progress' = 0)
    BY <1>2 DEF Setup!Type, Setup!Submit, Setup!Deploy, Setup!Go, Setup!engine
  <2>2. QED
    BY <2>1, FormStep
<1>3. CASE Setup!Tick
  BY <1>3, TickStep
<1>4. CASE \E f \in Setup!Writes : Setup!Write(f)
  BY <1>4, FileStep, MarkerStep DEF Setup!Writes
<1>5. CASE Setup!UserAdd \/ Setup!RootPassword \/ Setup!Sync \/ Setup!Verify
  BY <1>5, UserStep, RootStep, SyncStep, VerifyStep
<1>6. CASE Setup!Reboot \/ Setup!Continue \/ Setup!PowerCut
  BY <1>6, EndStep
<1>7. CASE UNCHANGED setupVars
  <2>1. /\ Unmarked' = Unmarked /\ AccountMade(users)' = AccountMade(users)
        /\ RootMade(users)' = RootMade(users) /\ AccountMade(disk.users)' = AccountMade(disk.users)
        /\ RootMade(disk.users)' = RootMade(disk.users) /\ Whole(disk)' = Whole(disk)
        /\ Setup!Installed(disk)' = Setup!Installed(disk)
    BY <1>7, Zenon DEF setupVars, Unmarked, AccountMade, RootMade, Setup!Installed, Whole
  <2>2. QED
    BY <1>7, <2>1 DEF setupVars, SetupOK, Running
<1>8. QED
  BY <1>1, <1>2, <1>3, <1>4, <1>5, <1>6, <1>7 DEF Setup!Next

LEMMA ErasedStays ==
  ASSUME [Setup!Next]_setupVars, erased
  PROVE  erased'
BY BootFresh DEF Setup!Next, setupVars, Setup!Go, Setup!Type, Setup!Submit, Setup!Deploy, Setup!engine,
       Setup!Tick, Setup!UserAdd, Setup!RootPassword, Setup!Write, Setup!Step, Setup!Sync, Setup!Verify,
       Setup!Reboot, Setup!Continue, Setup!PowerCut

LEMMA SetupSteps ==
  ASSUME [DevicesNext]_all
  PROVE  [Setup!Next]_setupVars
BY DEF DevicesNext, all, drivers, stores, services, MouseNext, UsbNext, CardNext,
       NetworkNext, DiskNext, VolumeNext, PicturesNext, SetupNext, TlsNext, HttpNext, WgetNext

(* Wherever the power fails and whatever a save could not write, a machine   *)
(* that starts as an installed one has the accounts and passwords that the   *)
(* installer was asked for, as long as no start before has lost entries of   *)
(* the disk, as one does that finds no name there.  And an installation that *)
(* says it went well has its marker on the disk, though a start may still    *)
(* lose it: that the name has not been written no save says.  The part of    *)
(* ServicesSound that is about do_install.                                   *)
THEOREM InstallationIsSound == DevicesSpec => []Setup!InstallSound
<1> DEFINE SetupInv == Lasting /\ (~erased => SetupOK)
<1>1. DevicesInit => SetupInv
  BY SetupInit DEF DevicesInit
<1>2. SetupInv /\ [DevicesNext]_all => SetupInv'
  BY LastingKeeps, SetupKeeps, ErasedStays, SetupSteps
<1>3. SetupInv => Setup!InstallSound
  BY DEF Lasting, SetupOK, Setup!InstallSound, Setup!Given, AccountMade, RootMade
<1>4. QED
  BY <1>1, <1>2, <1>3, PTL DEF DevicesSpec

-----------------------------------------------------------------------------
(* HTTPS: m records have been sent, and those from n on are unread, in a     *)
(* what has been pulled and in b what has not.                               *)

Unit == Nat \X {"head", "body"}
Unread(a, b, m, n) ==
  /\ a \in Seq(Unit) /\ b \in Seq(Unit) /\ m \in Nat /\ n \in 1..(m + 1)
  /\ Len(a) + Len(b) = (m + 1 - n) + (m + 1 - n)
  /\ \A i \in 1..Len(a) : a[i][1] = n + (i - 1) \div 2
  /\ \A i \in 1..Len(b) : b[i][1] = n + (Len(a) + i - 1) \div 2

LEMMA Halves ==
  ASSUME NEW k \in Nat, NEW i \in Nat
  PROVE  /\ ((k + k) + i) \div 2 = k + i \div 2 /\ i \div 2 \in Nat
         /\ (i + 2) \div 2 = 1 + i \div 2 /\ 0 \div 2 = 0 /\ 1 \div 2 = 0
OBVIOUS

LEMMA UnitsSent ==
  ASSUME NEW n \in Nat, NEW k \in Nat
  PROVE  /\ Secure!Units(n, k) \in Seq(Unit) /\ Len(Secure!Units(n, k)) = k + k
         /\ \A i \in 1..(k + k) : Secure!Units(n, k)[i][1] = n + (i - 1) \div 2
<1> DEFINE u(i) == <<n + (i - 1) \div 2, IF i % 2 = 1 THEN "head" ELSE "body">>
<1>1. Secure!Units(n, k) = [i \in 1..(2 * k) |-> u(i)]
  BY DEF Secure!Units
<1>2. \A i \in 1..(2 * k) : u(i) \in Unit /\ u(i)[1] = n + (i - 1) \div 2
  <2> SUFFICES ASSUME NEW i \in 1..(2 * k)
               PROVE  u(i) \in Unit /\ u(i)[1] = n + (i - 1) \div 2
    OBVIOUS
  <2>1. (i - 1) \div 2 \in Nat
    BY Halves
  <2>2. n + (i - 1) \div 2 \in Nat /\ (IF i % 2 = 1 THEN "head" ELSE "body") \in {"head", "body"}
    BY <2>1
  <2>3. QED
    BY <2>2 DEF Unit
<1> HIDE DEF u
<1>3. 2 * k \in Nat /\ 2 * k = k + k
  OBVIOUS
<1>4. [i \in 1..(2 * k) |-> u(i)] \in Seq(Unit)
  BY <1>2, <1>3
<1>5. QED
  BY <1>1, <1>2, <1>3, <1>4

LEMMA UnreadPulled ==
  ASSUME NEW a, NEW b, NEW m, NEW n, Unread(a, b, m, n), NEW k \in 1..Len(b)
  PROVE  Unread(a \o SubSeq(b, 1, k), SubSeq(b, k + 1, Len(b)), m, n)
<1> DEFINE c == SubSeq(b, 1, k)
           d == SubSeq(b, k + 1, Len(b))
<1>1. a \in Seq(Unit) /\ b \in Seq(Unit) /\ Len(a) \in Nat /\ Len(b) \in Nat
  BY DEF Unread
<1>2. c \in Seq(Unit) /\ Len(c) = k /\ \A i \in 1..k : c[i] = b[i]
  <2>1. \A i \in 1..k : b[i] \in Unit
    BY <1>1
  <2>2. QED
    BY <1>1, <2>1, SubSeqProperties
<1>3. d \in Seq(Unit) /\ Len(d) = Len(b) - k /\ \A i \in 1..(Len(b) - k) : d[i] = b[k + i]
  <2>1. \A i \in (k + 1)..Len(b) : b[i] \in Unit
    BY <1>1
  <2>2. /\ d \in Seq(Unit) /\ Len(d) = IF k + 1 <= Len(b) THEN Len(b) - (k + 1) + 1 ELSE 0
        /\ \A i \in 1..(Len(b) - (k + 1) + 1) : d[i] = b[(k + 1) + i - 1]
    BY <1>1, <2>1, SubSeqProperties
  <2>3. QED
    BY <1>1, <2>2
<1> HIDE DEF c, d
<1>4. /\ a \o c \in Seq(Unit) /\ Len(a \o c) = Len(a) + k
      /\ \A i \in 1..(Len(a) + k) : (a \o c)[i] = IF i <= Len(a) THEN a[i] ELSE c[i - Len(a)]
  BY <1>1, <1>2, ConcatProperties
<1> DEFINE e == a \o c
<1>5. /\ e \in Seq(Unit) /\ Len(e) = Len(a) + k
      /\ \A i \in 1..(Len(a) + k) : e[i] = IF i <= Len(a) THEN a[i] ELSE c[i - Len(a)]
  BY <1>4
<1> HIDE DEF e
<1>6. \A i \in 1..Len(e) : e[i][1] = n + (i - 1) \div 2
  <2> SUFFICES ASSUME NEW i \in 1..Len(e)
               PROVE  e[i][1] = n + (i - 1) \div 2
    OBVIOUS
  <2>1. CASE i <= Len(a)
    BY <1>1, <1>5, <2>1 DEF Unread
  <2>2. CASE i > Len(a)
    <3>1. e[i] = b[i - Len(a)] /\ i - Len(a) \in 1..Len(b)
      BY <1>1, <1>2, <1>5, <2>2
    <3>2. b[i - Len(a)][1] = n + (Len(a) + (i - Len(a)) - 1) \div 2
      BY <3>1 DEF Unread
    <3>3. Len(a) + (i - Len(a)) - 1 = i - 1
      BY <1>1, <1>5
    <3>4. QED
      BY <3>1, <3>2, <3>3
  <2>3. QED
    BY <1>1, <1>5, <2>1, <2>2
<1>7. \A i \in 1..Len(d) : d[i][1] = n + (Len(e) + i - 1) \div 2
  <2> SUFFICES ASSUME NEW i \in 1..Len(d)
               PROVE  d[i][1] = n + (Len(e) + i - 1) \div 2
    OBVIOUS
  <2>1. d[i] = b[k + i] /\ k + i \in 1..Len(b)
    BY <1>1, <1>3
  <2>2. b[k + i][1] = n + (Len(a) + (k + i) - 1) \div 2
    BY <2>1 DEF Unread
  <2>3. Len(a) + (k + i) - 1 = Len(e) + i - 1
    BY <1>1, <1>5, <1>3
  <2>4. QED
    BY <2>1, <2>2, <2>3
<1>8. Len(e) + Len(d) = (m + 1 - n) + (m + 1 - n)
  <2>1. Len(e) = Len(a) + k /\ Len(d) = Len(b) - k
    BY <1>3, <1>5
  <2>2. m \in Nat /\ n \in 1..(m + 1) /\ Len(a) + Len(b) = (m + 1 - n) + (m + 1 - n)
    BY DEF Unread
  <2>3. QED
    BY <1>1, <2>1, <2>2
<1>9. QED
  BY <1>3, <1>5, <1>6, <1>7, <1>8 DEF Unread, c, d, e

LEMMA UnreadRead ==
  ASSUME NEW a, NEW b, NEW m, NEW n, Unread(a, b, m, n), Len(a) >= 2
  PROVE  a[1][1] = n /\ n <= m /\ Unread(SubSeq(a, 3, Len(a)), b, m, n + 1)
<1> DEFINE c == SubSeq(a, 3, Len(a))
<1>1. a \in Seq(Unit) /\ b \in Seq(Unit) /\ Len(a) \in Nat /\ Len(b) \in Nat /\ m \in Nat /\ n \in 1..(m + 1)
      /\ Len(a) + Len(b) = (m + 1 - n) + (m + 1 - n)
  BY DEF Unread
<1>2. n <= m
  BY <1>1
<1>3. a[1][1] = n
  <2>1. \A i \in 1..Len(a) : a[i][1] = n + (i - 1) \div 2
    BY DEF Unread
  <2>2. 1 \in 1..Len(a)
    BY <1>1
  <2>3. a[1][1] = n + (1 - 1) \div 2
    BY <2>1, <2>2
  <2>4. n + (1 - 1) \div 2 = n
    <3>1. \A i \in Nat : i + (1 - 1) \div 2 = i
      OBVIOUS
    <3>2. QED
      BY <1>1, <3>1
  <2>5. QED
    BY <2>3, <2>4
<1>4. c \in Seq(Unit) /\ Len(c) = Len(a) - 2 /\ \A i \in 1..(Len(a) - 2) : c[i] = a[i + 2]
  <2>1. \A i \in 3..Len(a) : a[i] \in Unit
    BY <1>1
  <2>2. /\ c \in Seq(Unit) /\ Len(c) = IF 3 <= Len(a) THEN Len(a) - 3 + 1 ELSE 0
        /\ \A i \in 1..(Len(a) - 3 + 1) : c[i] = a[3 + i - 1]
    BY <1>1, <2>1, SubSeqProperties
  <2> HIDE DEF c
  <2>3. Len(a) - 3 + 1 = Len(a) - 2 /\ (~(3 <= Len(a)) => Len(a) - 2 = 0)
    <3>1. \A l \in Nat : l >= 2 => l - 3 + 1 = l - 2 /\ (~(3 <= l) => l - 2 = 0)
      OBVIOUS
    <3>2. QED
      BY <1>1, <3>1
  <2>4. \A i \in 1..(Len(a) - 2) : 3 + i - 1 = i + 2
    <3>1. \A i \in Int : 3 + i - 1 = i + 2
      OBVIOUS
    <3>2. Len(a) - 2 \in Int
      BY <1>1
    <3>3. QED
      BY <3>1, <3>2
  <2>5. Len(c) = Len(a) - 2
    <3>1. Len(c) = IF 3 <= Len(a) THEN Len(a) - 3 + 1 ELSE 0
      BY <2>2
    <3>2. QED
      BY <3>1, <2>3
  <2>6. QED
    BY <2>2, <2>3, <2>4, <2>5
<1> HIDE DEF c
<1>5. \A i \in 1..Len(c) : c[i][1] = (n + 1) + (i - 1) \div 2
  <2> SUFFICES ASSUME NEW i \in 1..Len(c)
               PROVE  c[i][1] = (n + 1) + (i - 1) \div 2
    OBVIOUS
  <2>1. c[i] = a[i + 2] /\ i + 2 \in 1..Len(a)
    BY <1>1, <1>4
  <2>2. a[i + 2][1] = n + ((i + 2) - 1) \div 2
    BY <2>1 DEF Unread
  <2>3. ((i + 2) - 1) = (i - 1) + 2 /\ i - 1 \in Nat
    BY <1>1, <1>4
  <2>4. ((i - 1) + 2) \div 2 = 1 + (i - 1) \div 2 /\ (i - 1) \div 2 \in Nat
    BY <2>3, Halves
  <2> DEFINE h == (i - 1) \div 2
  <2>5. c[i][1] = n + (1 + h) /\ h \in Nat
    BY <2>1, <2>2, <2>3, <2>4
  <2> HIDE DEF h
  <2>6. n + (1 + h) = (n + 1) + h
    BY <1>1, <2>5
  <2>7. c[i][1] = (n + 1) + h
    BY <2>5, <2>6
  <2>8. QED
    BY <2>7 DEF h
<1>6. \A i \in 1..Len(b) : b[i][1] = (n + 1) + (Len(c) + i - 1) \div 2
  <2> SUFFICES ASSUME NEW i \in 1..Len(b)
               PROVE  b[i][1] = (n + 1) + (Len(c) + i - 1) \div 2
    OBVIOUS
  <2>1. b[i][1] = n + (Len(a) + i - 1) \div 2
    BY DEF Unread
  <2>2. Len(a) + i - 1 = (Len(c) + i - 1) + 2 /\ Len(c) + i - 1 \in Nat
    BY <1>1, <1>4
  <2>3. ((Len(c) + i - 1) + 2) \div 2 = 1 + (Len(c) + i - 1) \div 2 /\ (Len(c) + i - 1) \div 2 \in Nat
    BY <2>2, Halves
  <2> DEFINE h == (Len(c) + i - 1) \div 2
  <2>4. b[i][1] = n + (1 + h) /\ h \in Nat
    BY <2>1, <2>2, <2>3
  <2> HIDE DEF h
  <2>5. n + (1 + h) = (n + 1) + h
    BY <1>1, <2>4
  <2>6. b[i][1] = (n + 1) + h
    BY <2>4, <2>5
  <2>7. QED
    BY <2>6 DEF h
<1>7. Len(c) + Len(b) = (m + 1 - (n + 1)) + (m + 1 - (n + 1)) /\ n + 1 \in 1..(m + 1)
  <2>1. Len(c) = Len(a) - 2
    BY <1>4
  <2>2. QED
    BY <1>1, <1>2, <2>1
<1>8. QED
  BY <1>1, <1>2, <1>3, <1>4, <1>5, <1>6, <1>7 DEF Unread, c

LEMMA UnreadSent ==
  ASSUME NEW a, NEW b, NEW m, NEW n, Unread(a, b, m, n), NEW k \in Nat
  PROVE  Unread(a, b \o Secure!Units(m + 1, k), m + k, n)
<1> DEFINE u == Secure!Units(m + 1, k)
           c == b \o u
<1>1. a \in Seq(Unit) /\ b \in Seq(Unit) /\ Len(a) \in Nat /\ Len(b) \in Nat /\ m \in Nat /\ n \in 1..(m + 1)
      /\ Len(a) + Len(b) = (m + 1 - n) + (m + 1 - n)
  BY DEF Unread
<1>0. m + 1 \in Nat
  BY <1>1
<1>2. u \in Seq(Unit) /\ Len(u) = k + k /\ \A i \in 1..(k + k) : u[i][1] = (m + 1) + (i - 1) \div 2
  BY <1>0, UnitsSent
<1> HIDE DEF u
<1>3. /\ c \in Seq(Unit) /\ Len(c) = Len(b) + k + k
      /\ \A i \in 1..(Len(b) + k + k) : c[i] = IF i <= Len(b) THEN b[i] ELSE u[i - Len(b)]
  BY <1>1, <1>2, ConcatProperties
<1> HIDE DEF c
<1>4. \A i \in 1..Len(c) : c[i][1] = n + (Len(a) + i - 1) \div 2
  <2> SUFFICES ASSUME NEW i \in 1..Len(c)
               PROVE  c[i][1] = n + (Len(a) + i - 1) \div 2
    OBVIOUS
  <2>1. CASE i <= Len(b)
    BY <1>1, <1>3, <2>1 DEF Unread
  <2>2. CASE i > Len(b)
    <3>1. c[i] = u[i - Len(b)] /\ i - Len(b) \in 1..(k + k) /\ i - Len(b) - 1 \in Nat /\ m + 1 - n \in Nat
      BY <1>1, <1>3, <2>2
    <3>2. c[i][1] = (m + 1) + ((i - Len(b)) - 1) \div 2
      BY <1>2, <3>1
    <3>3. Len(a) + i - 1 = ((m + 1 - n) + (m + 1 - n)) + (i - Len(b) - 1)
      <4>1. i \in Nat
        BY <1>1, <1>3
      <4>2. QED
        BY <1>1, <4>1
    <3>4. (((m + 1 - n) + (m + 1 - n)) + (i - Len(b) - 1)) \div 2 = (m + 1 - n) + (i - Len(b) - 1) \div 2
          /\ (i - Len(b) - 1) \div 2 \in Nat
      BY <3>1, Halves
    <3> DEFINE h == (i - Len(b) - 1) \div 2
    <3>5. (Len(a) + i - 1) \div 2 = (m + 1 - n) + h /\ h \in Nat
      BY <3>3, <3>4
    <3>6. c[i][1] = (m + 1) + h
      BY <3>2
    <3> HIDE DEF h
    <3>7. (m + 1) + h = n + ((m + 1 - n) + h)
      BY <1>1, <3>5
    <3>8. QED
      BY <3>5, <3>6, <3>7
  <2>3. QED
    BY <1>1, <1>3, <2>1, <2>2
<1>5. Len(a) + Len(c) = ((m + k) + 1 - n) + ((m + k) + 1 - n) /\ n \in 1..((m + k) + 1) /\ m + k \in Nat
  <2>1. Len(c) = Len(b) + (k + k)
    BY <1>3
  <2>2. QED
    BY <1>1, <2>1
<1>6. \A i \in 1..Len(a) : a[i][1] = n + (i - 1) \div 2
  BY DEF Unread
<1>7. QED
  BY <1>1, <1>3, <1>4, <1>5, <1>6 DEF Unread, c, u

(* A handshake that has not come to its end: the last record only can tell   *)
(* the client that it has.                                                   *)
Texts == {"hello", "certificate", "done", "part", "rest", "ecdhe"}
Early == {<<"hello">>, <<"certificate">>, <<"hello", "part">>, <<"rest">>}

LEMMA EarlyIsNotDone ==
  ASSUME NEW b \in Early, NEW i \in DOMAIN Secure!Read(b)
  PROVE  Secure!Read(b)[i] # "done"
<1>1. CASE b = <<"hello">>
  <2>1. Secure!Cut(b) = {}
    BY <1>1 DEF Secure!Cut
  <2>2. QED
    BY <1>1, <2>1 DEF Secure!Read
<1>2. CASE b = <<"certificate">>
  <2>1. Secure!Cut(b) = {}
    BY <1>2 DEF Secure!Cut
  <2>2. QED
    BY <1>2, <2>1 DEF Secure!Read
<1>3. CASE b = <<"hello", "part">>
  <2>1. Secure!Cut(b) = {2}
    BY <1>3 DEF Secure!Cut
  <2>2. (CHOOSE c \in {2} : \A d \in {2} : c <= d) = 2
    OBVIOUS
  <2>3. Secure!Read(b) = SubSeq(b, 1, 2 - 1)
    BY <2>1, <2>2 DEF Secure!Read
  <2>4. Len(SubSeq(b, 1, 1)) = 1 /\ SubSeq(b, 1, 1)[1] = "hello" /\ SubSeq(b, 1, 1) \in Seq(Texts)
    <3>1. b[1] = "hello" /\ \A j \in 1..1 : j = 1
      BY <1>3
    <3>2. \A j \in 1..1 : b[j] \in Texts
      BY <3>1 DEF Texts
    <3>3. /\ SubSeq(b, 1, 1) \in Seq(Texts)
          /\ Len(SubSeq(b, 1, 1)) = IF 1 <= 1 THEN 1 - 1 + 1 ELSE 0
          /\ \A j \in 1..(1 - 1 + 1) : SubSeq(b, 1, 1)[j] = b[1 + j - 1]
      BY <3>2, SubSeqProperties
    <3>4. SubSeq(b, 1, 1)[1] = b[1 + 1 - 1]
      BY <3>3
    <3>5. QED
      BY <3>1, <3>3, <3>4
  <2>5. Secure!Read(b) = SubSeq(b, 1, 1)
    BY <2>3
  <2>6. i \in 1..1
    BY <2>4, <2>5
  <2>7. QED
    BY <2>4, <2>5, <2>6
<1>4. CASE b = <<"rest">>
  <2>1. Secure!Cut(b) = {1}
    BY <1>4 DEF Secure!Cut
  <2>2. (CHOOSE c \in {1} : \A d \in {1} : c <= d) = 1
    OBVIOUS
  <2>3. Secure!Read(b) = SubSeq(b, 1, 1 - 1)
    BY <2>1, <2>2 DEF Secure!Read
  <2>4. SubSeq(b, 1, 1 - 1) = <<>>
    BY <1>4
  <2>5. QED
    BY <2>3, <2>4
<1>5. QED
  BY <1>1, <1>2, <1>3, <1>4 DEF Early

Records == [type : {20, 21, 22, 23}, body : Seq(Texts)]
           \cup [type : {20, 21, 22, 23}, body : Seq(Texts), seq : Nat]

(* The records from n on carry numbers that the server has used.             *)
NumberedFrom(n) ==
  \A i \in n..Len(flight) : flight[i].seq \in Nat /\ flight[i].seq < serverWrote

(* Where the handshake is, when the records from n on are unread.            *)
Stage(n) ==
  /\ tlsPc \in {"flight", "finish"} =>
       /\ clientSeq = 0 /\ serverRead = 0 /\ serverSeq = 0 /\ serverWrote = 0 /\ ~ready /\ plain = <<>>
  /\ tlsPc = "flight" =>
       /\ \A i \in 1..Len(flight) : flight[i].type = 22
       /\ \A i \in 1..(Len(flight) - 1) : flight[i].body \in Early
       /\ "done" \notin parts
  /\ tlsPc = "finish" => n = Len(flight) + 1
  /\ tlsPc \in {"change", "finished", "ask"} => plain = <<>>
  /\ tlsPc \in {"change", "finished"} => serverSeq = 0 /\ ~ready
  /\ tlsPc \in {"change", "finished", "ask", "read"} => clientSeq = serverRead
  /\ tlsPc = "change" => (n <= Len(flight) => mine = theirs) /\ NumberedFrom(n + 1)
  /\ tlsPc \in {"finished", "ask", "read"} => mine = theirs /\ NumberedFrom(n)
  /\ tlsPc \in {"ask", "read"} => serverSeq = Len(plain) + 1 /\ serverSeq <= serverWrote

TlsOK ==
  /\ tlsPc \in {"flight", "finish", "change", "finished", "ask", "read", "end"}
  /\ flight \in Seq(Records) /\ plain \in Seq(Nat)
  /\ serverWrote \in Nat /\ serverRead \in Nat /\ clientSeq \in Nat /\ serverSeq \in Nat
  /\ \A i \in 1..Len(plain) : plain[i] = i
  /\ tlsPc # "end" =>
       open /\ tlsResult = "none" /\ \E n \in 1..(Len(flight) + 1) : Unread(rx, wire, Len(flight), n) /\ Stage(n)
  /\ tlsPc = "end" => ~open /\ ~ready /\ rx = <<>> /\ tlsResult # "none"

LEMMA TlsInit ==
  ASSUME Secure!Init
  PROVE  TlsOK
<1>1. PICK f \in Secure!Flights :
        /\ flight = [i \in 1..Len(f) |-> [type |-> 22, body |-> f[i]]]
        /\ wire = Secure!Units(1, Len(f))
  BY DEF Secure!Init
<1>2. /\ f \in Seq(Seq(Texts)) /\ Len(f) \in Nat
      /\ \A i \in 1..(Len(f) - 1) : f[i] \in Early
  <2> DEFINE hello == <<"hello">>
             certificate == <<"certificate">>
             done == <<"done">>
             one == <<"hello", "certificate", "done">>
             split == <<"hello", "part">>
             rest0 == <<"rest">>
             other == <<"ecdhe", "certificate", "done">>
  <2>1. /\ hello \in Seq(Texts) /\ certificate \in Seq(Texts) /\ done \in Seq(Texts)
        /\ one \in Seq(Texts) /\ split \in Seq(Texts) /\ rest0 \in Seq(Texts) /\ other \in Seq(Texts)
        /\ hello \in Early /\ certificate \in Early /\ split \in Early /\ rest0 \in Early
    <3>1. /\ hello \in Seq(Texts) /\ certificate \in Seq(Texts) /\ done \in Seq(Texts)
          /\ one \in Seq(Texts) /\ split \in Seq(Texts) /\ rest0 \in Seq(Texts) /\ other \in Seq(Texts)
      BY DEF Texts
    <3>2. hello \in Early /\ certificate \in Early /\ split \in Early /\ rest0 \in Early
      BY Zenon DEF Early
    <3>3. QED
      BY <3>1, <3>2
  <2>2. f \in {<<hello, certificate, done>>, <<one>>, <<split, rest0, done>>, <<other>>}
    BY DEF Secure!Flights
  <2> HIDE DEF hello, certificate, done, one, split, rest0, other
  <2>3. \/ f = <<hello, certificate, done>> \/ f = <<one>> \/ f = <<split, rest0, done>> \/ f = <<other>>
    BY <2>2
  <2>4. CASE f = <<hello, certificate, done>>
    <3>1. f[1] \in Early /\ f[2] \in Early /\ Len(f) = 3 /\ f \in Seq(Seq(Texts))
      BY <2>1, <2>4
    <3>2. QED
      BY <3>1
  <2>5. CASE f = <<one>> \/ f = <<other>>
    <3>1. Len(f) = 1
      BY <2>5
    <3>2. <<one>> \in Seq(Seq(Texts)) /\ <<other>> \in Seq(Seq(Texts))
      BY <2>1
    <3>3. f \in Seq(Seq(Texts))
      BY <2>5, <3>2
    <3>4. Len(f) \in Nat /\ \A i \in 1..(Len(f) - 1) : FALSE
      BY <3>1
    <3>5. QED
      BY <3>3, <3>4
  <2>6. CASE f = <<split, rest0, done>>
    <3>1. f[1] \in Early /\ f[2] \in Early /\ Len(f) = 3 /\ f \in Seq(Seq(Texts))
      BY <2>1, <2>6
    <3>2. QED
      BY <3>1
  <2>7. QED
    BY <2>3, <2>4, <2>5, <2>6
<1>3. flight \in Seq(Records) /\ Len(flight) = Len(f)
      /\ \A i \in 1..Len(f) : flight[i] = [type |-> 22, body |-> f[i]]
  BY <1>1, <1>2 DEF Records
<1>4. /\ tlsPc = "flight" /\ rx = <<>> /\ parts = {} /\ open = TRUE /\ ready = FALSE
      /\ clientSeq = 0 /\ serverRead = 0 /\ serverSeq = 0 /\ serverWrote = 0
      /\ plain = <<>> /\ tlsResult = "none"
  BY DEF Secure!Init
<1>5. Unread(rx, wire, Len(flight), 1)
  <2>1. Secure!Units(1, Len(f)) \in Seq(Unit) /\ Len(Secure!Units(1, Len(f))) = Len(f) + Len(f)
        /\ \A i \in 1..(Len(f) + Len(f)) : Secure!Units(1, Len(f))[i][1] = 1 + (i - 1) \div 2
    BY <1>2, UnitsSent
  <2>2. Len(rx) = 0 /\ rx \in Seq(Unit) /\ wire \in Seq(Unit) /\ Len(wire) = Len(f) + Len(f)
    BY <1>1, <1>4, <2>1
  <2>3. \A i \in 1..Len(wire) : wire[i][1] = 1 + (Len(rx) + i - 1) \div 2
    <3> SUFFICES ASSUME NEW i \in 1..Len(wire)
                 PROVE  wire[i][1] = 1 + (Len(rx) + i - 1) \div 2
      OBVIOUS
    <3>1. wire[i][1] = 1 + (i - 1) \div 2
      BY <1>1, <2>1, <2>2
    <3>2. Len(rx) + i - 1 = i - 1
      BY <1>2, <2>2
    <3>3. QED
      BY <3>1, <3>2
  <2>4. Len(rx) + Len(wire) = (Len(f) + 1 - 1) + (Len(f) + 1 - 1)
    BY <1>2, <2>2
  <2>5. 1 \in 1..(Len(f) + 1)
    BY <1>2
  <2>6. \A i \in 1..Len(rx) : rx[i][1] = 1 + (i - 1) \div 2
    BY <2>2
  <2>7. QED
    BY <1>2, <1>3, <2>2, <2>3, <2>4, <2>5, <2>6 DEF Unread
<1>6. Stage(1)
  <2>0. Len(flight) = Len(f) /\ Len(f) \in Nat
    BY <1>2, <1>3
  <2>1. \A i \in 1..Len(flight) : flight[i].type = 22
    <3> SUFFICES ASSUME NEW i \in 1..Len(flight)
                 PROVE  flight[i].type = 22
      OBVIOUS
    <3>1. flight[i] = [type |-> 22, body |-> f[i]]
      BY <1>3, <2>0
    <3>2. QED
      BY <3>1
  <2>2. \A i \in 1..(Len(flight) - 1) : flight[i].body \in Early
    <3> SUFFICES ASSUME NEW i \in 1..(Len(flight) - 1)
                 PROVE  flight[i].body \in Early
      OBVIOUS
    <3>1. i \in 1..Len(f) /\ i \in 1..(Len(f) - 1)
      BY <2>0
    <3>2. flight[i] = [type |-> 22, body |-> f[i]] /\ f[i] \in Early
      BY <1>2, <1>3, <3>1
    <3>3. QED
      BY <3>2
  <2>3. QED
    BY <1>4, <2>1, <2>2 DEF Stage
<1>7. 1 \in 1..(Len(flight) + 1)
  BY <1>2, <1>3
<1>8. QED
  BY <1>3, <1>4, <1>5, <1>6, <1>7 DEF TlsOK

(* A fetch that ends leaves nothing of the session.                          *)
LEMMA OverStep ==
  ASSUME TlsOK, NEW r \in {"error", "page"}, Secure!Over(r), UNCHANGED <<flight, serverWrote, serverRead, plain>>
  PROVE  TlsOK'
<1>1. /\ tlsPc' = "end" /\ open' = FALSE /\ ready' = FALSE /\ tlsResult' = r
      /\ rx' = <<>> /\ clientSeq' = 0 /\ serverSeq' = 0
  BY DEF Secure!Over
<1>2. tlsResult' # "none" /\ ~open' /\ ~ready'
  BY <1>1
<1>3. plain' \in Seq(Nat) /\ \A i \in 1..Len(plain') : plain'[i] = i
  BY DEF TlsOK
<1>4. /\ flight' \in Seq(Records) /\ serverWrote' \in Nat /\ serverRead' \in Nat
      /\ clientSeq' \in Nat /\ serverSeq' \in Nat
  BY <1>1 DEF TlsOK
<1>5. QED
  BY <1>1, <1>2, <1>3, <1>4 DEF TlsOK

(* A step that leaves the fetch open, with the records from n on unread.     *)
LEMMA OpenStep ==
  ASSUME TlsOK, UNCHANGED <<open, tlsResult>>, tlsPc # "end",
         tlsPc' \in {"flight", "finish", "change", "finished", "ask", "read"},
         flight' \in Seq(Records), plain' \in Seq(Nat), \A i \in 1..Len(plain') : plain'[i] = i,
         serverWrote' \in Nat, serverRead' \in Nat, clientSeq' \in Nat, serverSeq' \in Nat,
         \E n \in 1..(Len(flight') + 1) : Unread(rx', wire', Len(flight'), n) /\ Stage(n)'
  PROVE  TlsOK'
<1>1. open' /\ tlsResult' = "none"
  BY DEF TlsOK
<1>2. QED
  BY <1>1 DEF TlsOK

LEMMA PullStep ==
  ASSUME TlsOK, Secure!Pull
  PROVE  TlsOK'
<1>1. /\ open /\ UNCHANGED <<tlsPc, told, mine, parts, plain, tlsIdle, tlsResult, open, clientSeq, serverSeq, ready,
                             flight, theirs, serverRead, serverWrote>>
      /\ \E k \in 1..Len(wire) : rx' = rx \o SubSeq(wire, 1, k) /\ wire' = SubSeq(wire, k + 1, Len(wire))
  BY DEF Secure!Pull, Secure!keys, Secure!server
<1>2. tlsPc # "end"
  BY <1>1 DEF TlsOK
<1>3. PICK n \in 1..(Len(flight) + 1) : Unread(rx, wire, Len(flight), n) /\ Stage(n)
  BY <1>2 DEF TlsOK
<1>4. Unread(rx', wire', Len(flight), n)
  BY <1>1, <1>3, UnreadPulled
<1>5. Stage(n)'
  BY <1>1, <1>3 DEF Stage, NumberedFrom
<1>6. Unread(rx', wire', Len(flight'), n) /\ n \in 1..(Len(flight') + 1)
  BY <1>1, <1>4
<1>7. /\ tlsPc' \in {"flight", "finish", "change", "finished", "ask", "read"}
      /\ flight' \in Seq(Records) /\ plain' \in Seq(Nat) /\ (\A i \in 1..Len(plain') : plain'[i] = i)
      /\ serverWrote' \in Nat /\ serverRead' \in Nat /\ clientSeq' \in Nat /\ serverSeq' \in Nat
  BY <1>1, <1>2 DEF TlsOK
<1>8. QED
  BY <1>1, <1>2, <1>5, <1>6, <1>7, OpenStep

(* What is read is the first of the records that are unread.                 *)
LEMMA WholeRecord ==
  ASSUME TlsOK, tlsPc # "end", Secure!Whole
  PROVE  \E n \in 1..Len(flight) :
           /\ Unread(rx, wire, Len(flight), n) /\ Stage(n)
           /\ Unread(Secure!Rest, wire, Len(flight), n + 1) /\ Secure!Record = flight[n]
<1>1. PICK n \in 1..(Len(flight) + 1) : Unread(rx, wire, Len(flight), n) /\ Stage(n)
  BY DEF TlsOK
<1>2. /\ rx[1][1] = n /\ n <= Len(flight)
      /\ Unread(SubSeq(rx, 3, Len(rx)), wire, Len(flight), n + 1)
  BY <1>1, UnreadRead DEF Secure!Whole
<1>3. Secure!Record = flight[n]
  BY <1>2 DEF Secure!Record
<1>4. Len(flight) \in Nat
  BY DEF TlsOK
<1>5. n \in 1..Len(flight)
  BY <1>1, <1>2, <1>4
<1>6. QED
  BY <1>1, <1>2, <1>3, <1>5 DEF Secure!Rest

LEMMA FlightStep ==
  ASSUME TlsOK, Secure!Flight
  PROVE  TlsOK'
<1>1. tlsPc = "flight" /\ UNCHANGED <<plain, tlsIdle, flight, theirs, serverRead, serverWrote>>
  BY DEF Secure!Flight, Secure!server
<1>2. CASE Secure!Over("error")
  BY <1>1, <1>2, OverStep
<1>3. CASE ~Secure!Over("error")
  <2> DEFINE b == IF Secure!Record.type = 22 THEN Secure!Read(Secure!Record.body) ELSE <<>>
             heard == {b[i] : i \in DOMAIN b}
  <2>1. /\ Secure!Whole /\ parts' = parts \cup heard /\ rx' = Secure!Rest
        /\ tlsPc' = IF "done" \in parts' THEN "finish" ELSE "flight"
        /\ UNCHANGED <<wire, open, tlsResult, clientSeq, serverSeq, ready>>
    BY <1>3 DEF Secure!Flight, Secure!keys
  <2>2. PICK n \in 1..Len(flight) :
           /\ Unread(rx, wire, Len(flight), n) /\ Stage(n)
           /\ Unread(Secure!Rest, wire, Len(flight), n + 1) /\ Secure!Record = flight[n]
    BY <1>1, <2>1, WholeRecord
  <2>3. Len(flight) \in Nat /\ n + 1 \in 1..(Len(flight) + 1)
    BY <2>2 DEF TlsOK
  <2>4. Unread(rx', wire', Len(flight'), n + 1) /\ n + 1 \in 1..(Len(flight') + 1)
    BY <1>1, <2>1, <2>2, <2>3
  <2>5. /\ clientSeq = 0 /\ serverRead = 0 /\ serverSeq = 0 /\ serverWrote = 0 /\ ~ready /\ plain = <<>>
        /\ \A i \in 1..Len(flight) : flight[i].type = 22
        /\ \A i \in 1..(Len(flight) - 1) : flight[i].body \in Early
        /\ "done" \notin parts
    BY <1>1, <2>2 DEF Stage
  <2>6. tlsPc' = "finish" => n + 1 = Len(flight) + 1
    <3>1. SUFFICES ASSUME tlsPc' = "finish", n # Len(flight)
                   PROVE  FALSE
      BY <2>3
    <3>2. n \in 1..(Len(flight) - 1)
      BY <2>2, <2>3, <3>1
    <3>3. flight[n].body \in Early /\ flight[n].type = 22
      BY <2>2, <2>5, <3>2
    <3>4. b = Secure!Read(flight[n].body)
      BY <2>2, <3>3
    <3>5. "done" \notin heard
      BY <3>3, <3>4, EarlyIsNotDone
    <3> HIDE DEF heard
    <3>6. QED
      BY <2>1, <2>5, <3>1, <3>5
  <2> HIDE DEF heard
  <2>7. tlsPc' = "flight" => "done" \notin parts'
    BY <2>1
  <2>8. Stage(n + 1)'
    BY <1>1, <2>1, <2>5, <2>6, <2>7 DEF Stage
  <2>9. QED
    BY <1>1, <2>1, <2>4, <2>8, OpenStep DEF TlsOK
<1>4. QED
  BY <1>2, <1>3

LEMMA FinishStep ==
  ASSUME TlsOK, Secure!Finish
  PROVE  TlsOK'
<1>1. tlsPc = "finish" /\ UNCHANGED <<parts, plain, tlsIdle>>
  BY DEF Secure!Finish
<1>2. CASE Secure!Over("error") /\ UNCHANGED <<flight, theirs, serverRead, serverWrote>>
  BY <1>1, <1>2, OverStep
<1>3. CASE ~(Secure!Over("error") /\ UNCHANGED <<flight, theirs, serverRead, serverWrote>>)
  <2> DEFINE more == <<[type |-> 20, body |-> <<>>], [type |-> 22, body |-> <<>>, seq |-> serverWrote]>>
  <2>1. /\ clientSeq' = clientSeq + 1 /\ serverRead' = serverRead + 1 /\ tlsPc' = "change"
        /\ UNCHANGED <<rx, open, tlsResult, ready, serverSeq>>
        /\ \/ /\ mine' = theirs' /\ flight' = flight \o more
              /\ wire' = wire \o Secure!Units(Len(flight) + 1, 2)
              /\ serverWrote' = serverWrote + 1
           \/ UNCHANGED <<flight, wire, serverWrote>>
    BY <1>3 DEF Secure!Finish, Secure!server
  <2>2. PICK n \in 1..(Len(flight) + 1) : Unread(rx, wire, Len(flight), n) /\ Stage(n)
    BY <1>1 DEF TlsOK
  <2>3. /\ n = Len(flight) + 1 /\ clientSeq = 0 /\ serverRead = 0 /\ serverSeq = 0 /\ serverWrote = 0
        /\ ~ready /\ plain = <<>>
    BY <1>1, <2>2 DEF Stage
  <2>4. Len(flight) \in Nat /\ flight \in Seq(Records)
    BY DEF TlsOK
  <2>5. /\ flight' \in Seq(Records) /\ Len(flight') \in Nat /\ n \in 1..(Len(flight') + 1)
        /\ Unread(rx', wire', Len(flight'), n) /\ (n <= Len(flight') => mine' = theirs')
        /\ NumberedFrom(n + 1)'
    <3>1. CASE UNCHANGED <<flight, wire, serverWrote>>
      <4>1. \A i \in (n + 1)..Len(flight) : FALSE
        BY <2>3, <2>4
      <4>2. NumberedFrom(n + 1)'
        BY <3>1, <4>1 DEF NumberedFrom
      <4>3. ~(n <= Len(flight'))
        BY <2>3, <2>4, <3>1
      <4>4. QED
        BY <2>1, <2>2, <2>4, <3>1, <4>2, <4>3
    <3>2. CASE /\ mine' = theirs' /\ flight' = flight \o more
               /\ wire' = wire \o Secure!Units(Len(flight) + 1, 2)
               /\ serverWrote' = serverWrote + 1
      <4>1. more \in Seq(Records) /\ Len(more) = 2 /\ more[2].seq = serverWrote
        <5>1. [type |-> 20, body |-> <<>>] \in Records
          BY DEF Records
        <5>2. [type |-> 22, body |-> <<>>, seq |-> serverWrote] \in Records
          BY <2>3 DEF Records
        <5>3. QED
          BY <5>1, <5>2
      <4> HIDE DEF more
      <4>2. /\ flight \o more \in Seq(Records) /\ Len(flight \o more) = Len(flight) + 2
            /\ (flight \o more)[Len(flight) + 2] = more[2]
        <5>1. /\ flight \o more \in Seq(Records) /\ Len(flight \o more) = Len(flight) + Len(more)
              /\ \A i \in 1..(Len(flight) + Len(more)) :
                   (flight \o more)[i] = IF i <= Len(flight) THEN flight[i] ELSE more[i - Len(flight)]
          BY <2>4, <4>1, ConcatProperties
        <5>2. \A l \in Nat : l + 2 \in 1..(l + 2) /\ ~(l + 2 <= l) /\ (l + 2) - l = 2
          OBVIOUS
        <5>3. QED
          BY <2>4, <4>1, <5>1, <5>2
      <4>3. Unread(rx, wire \o Secure!Units(Len(flight) + 1, 2), Len(flight) + 2, n)
        BY <2>2, UnreadSent
      <4>4. Unread(rx', wire', Len(flight'), n)
        BY <2>1, <3>2, <4>2, <4>3
      <4>5. \A i \in (n + 1)..Len(flight') : i = Len(flight) + 2
        <5>1. \A l \in Nat : \A i \in ((l + 1) + 1)..(l + 2) : i = l + 2
          OBVIOUS
        <5>2. QED
          BY <2>3, <2>4, <3>2, <4>2, <5>1
      <4>6. NumberedFrom(n + 1)'
        BY <2>3, <3>2, <4>1, <4>2, <4>5 DEF NumberedFrom
      <4>7. Len(flight') \in Nat /\ n \in 1..(Len(flight') + 1)
        <5>1. \A l \in Nat : l + 2 \in Nat /\ l + 1 \in 1..((l + 2) + 1)
          OBVIOUS
        <5>2. QED
          BY <2>3, <2>4, <3>2, <4>2, <5>1
      <4>8. QED
        BY <3>2, <4>2, <4>4, <4>6, <4>7
    <3>3. QED
      BY <2>1, <3>1, <3>2
  <2> HIDE DEF more
  <2>6. Stage(n)'
    BY <1>1, <2>1, <2>3, <2>5 DEF Stage
  <2>7. serverWrote' \in Nat /\ serverRead' \in Nat /\ clientSeq' \in Nat /\ serverSeq' \in Nat
    BY <2>1, <2>3
  <2>8. plain' \in Seq(Nat) /\ (\A i \in 1..Len(plain') : plain'[i] = i)
    BY <1>1 DEF TlsOK
  <2>9. QED
    BY <1>1, <2>1, <2>5, <2>6, <2>7, <2>8, OpenStep
<1>4. QED
  BY <1>2, <1>3

LEMMA ChangeStep ==
  ASSUME TlsOK, Secure!Change
  PROVE  TlsOK'
<1>1. tlsPc = "change" /\ UNCHANGED <<told, parts, plain, tlsIdle, flight, theirs, serverRead, serverWrote>>
  BY DEF Secure!Change, Secure!server
<1>2. CASE Secure!Over("error")
  BY <1>1, <1>2, OverStep
<1>3. CASE ~Secure!Over("error")
  <2>1. /\ Secure!Whole /\ rx' = Secure!Rest /\ tlsPc' = "finished"
        /\ UNCHANGED <<wire, mine, open, tlsResult, clientSeq, serverSeq, ready>>
    BY <1>3 DEF Secure!Change, Secure!keys
  <2>2. PICK n \in 1..Len(flight) :
           /\ Unread(rx, wire, Len(flight), n) /\ Stage(n)
           /\ Unread(Secure!Rest, wire, Len(flight), n + 1) /\ Secure!Record = flight[n]
    BY <1>1, <2>1, WholeRecord
  <2>3. Len(flight) \in Nat /\ n + 1 \in 1..(Len(flight) + 1) /\ n <= Len(flight)
    BY <2>2 DEF TlsOK
  <2>4. Unread(rx', wire', Len(flight'), n + 1) /\ n + 1 \in 1..(Len(flight') + 1)
    BY <1>1, <2>1, <2>2, <2>3
  <2>5. /\ mine = theirs /\ NumberedFrom(n + 1) /\ serverSeq = 0 /\ ~ready /\ plain = <<>> /\ clientSeq = serverRead
    BY <1>1, <2>2, <2>3 DEF Stage
  <2>6. Stage(n + 1)'
    BY <1>1, <2>1, <2>5 DEF Stage, NumberedFrom
  <2>7. QED
    BY <1>1, <2>1, <2>4, <2>6, OpenStep DEF TlsOK
<1>4. QED
  BY <1>2, <1>3

LEMMA FinishedStep ==
  ASSUME TlsOK, Secure!Finished
  PROVE  TlsOK'
<1>1. tlsPc = "finished" /\ UNCHANGED <<told, parts, plain, tlsIdle, flight, theirs, serverRead, serverWrote>>
  BY DEF Secure!Finished, Secure!server
<1>2. CASE Secure!Over("error")
  BY <1>1, <1>2, OverStep
<1>3. CASE ~Secure!Over("error")
  <2>1. /\ Secure!Whole /\ rx' = Secure!Rest /\ tlsPc' = "ask" /\ serverSeq' = serverSeq + 1 /\ ready' = TRUE
        /\ Secure!Record.seq = serverSeq
        /\ UNCHANGED <<wire, mine, open, tlsResult, clientSeq>>
    BY <1>3 DEF Secure!Finished
  <2>2. PICK n \in 1..Len(flight) :
           /\ Unread(rx, wire, Len(flight), n) /\ Stage(n)
           /\ Unread(Secure!Rest, wire, Len(flight), n + 1) /\ Secure!Record = flight[n]
    BY <1>1, <2>1, WholeRecord
  <2>3. Len(flight) \in Nat /\ n + 1 \in 1..(Len(flight) + 1) /\ n \in n..Len(flight)
    BY <2>2 DEF TlsOK
  <2>4. Unread(rx', wire', Len(flight'), n + 1) /\ n + 1 \in 1..(Len(flight') + 1)
    BY <1>1, <2>1, <2>2, <2>3
  <2>5. mine = theirs /\ NumberedFrom(n) /\ serverSeq = 0 /\ plain = <<>> /\ clientSeq = serverRead
    BY <1>1, <2>2 DEF Stage
  <2>6. serverSeq < serverWrote /\ serverWrote \in Nat
    BY <2>1, <2>2, <2>3, <2>5 DEF NumberedFrom, TlsOK
  <2>7. NumberedFrom(n + 1)'
    BY <1>1, <2>2, <2>3, <2>5 DEF NumberedFrom
  <2>8. Stage(n + 1)'
    <3>1. serverSeq' = 0 + 1 /\ serverSeq' <= serverWrote'
      BY <1>1, <2>1, <2>5, <2>6
    <3>2. serverSeq' = Len(plain') + 1
      BY <1>1, <2>5, <3>1
    <3>3. QED
      BY <1>1, <2>1, <2>5, <2>7, <3>1, <3>2 DEF Stage
  <2>9. QED
    BY <1>1, <2>1, <2>4, <2>8, OpenStep DEF TlsOK
<1>4. QED
  BY <1>2, <1>3

LEMMA RequestStep ==
  ASSUME TlsOK, Secure!Ask
  PROVE  TlsOK'
<1>1. tlsPc = "ask" /\ UNCHANGED <<parts, plain, tlsIdle>>
  BY DEF Secure!Ask
<1>2. CASE Secure!Over("error") /\ UNCHANGED <<flight, theirs, serverRead, serverWrote>>
  BY <1>1, <1>2, OverStep
<1>3. CASE ~(Secure!Over("error") /\ UNCHANGED <<flight, theirs, serverRead, serverWrote>>)
  <2>1. /\ tlsPc' = "read" /\ clientSeq' = clientSeq + 1 /\ serverRead' = serverRead + 1
        /\ UNCHANGED <<rx, mine, open, tlsResult, ready, serverSeq, theirs>>
        /\ \E k \in 0..MaxData :
             /\ flight' = flight \o [i \in 1..(k + 1) |->
                   [type |-> IF i <= k THEN 23 ELSE 21, body |-> <<>>, seq |-> serverWrote + i - 1]]
             /\ wire' = wire \o Secure!Units(Len(flight) + 1, k + 1)
             /\ serverWrote' = serverWrote + k + 1
    BY <1>3 DEF Secure!Ask, Secure!server
  <2>2. PICK k \in 0..MaxData :
             /\ flight' = flight \o [i \in 1..(k + 1) |->
                   [type |-> IF i <= k THEN 23 ELSE 21, body |-> <<>>, seq |-> serverWrote + i - 1]]
             /\ wire' = wire \o Secure!Units(Len(flight) + 1, k + 1)
             /\ serverWrote' = serverWrote + k + 1
    BY <2>1
  <2> DEFINE one(i) == [type |-> IF i <= k THEN 23 ELSE 21, body |-> <<>>, seq |-> serverWrote + i - 1]
             more == [i \in 1..(k + 1) |-> one(i)]
  <2>3. PICK n \in 1..(Len(flight) + 1) : Unread(rx, wire, Len(flight), n) /\ Stage(n)
    BY <1>1 DEF TlsOK
  <2>4. /\ Len(flight) \in Nat /\ flight \in Seq(Records) /\ k + 1 \in Nat
        /\ serverWrote \in Nat /\ serverRead \in Nat /\ clientSeq \in Nat /\ serverSeq \in Nat
    BY DEF TlsOK
  <2>5. /\ mine = theirs /\ NumberedFrom(n) /\ serverSeq = Len(plain) + 1 /\ serverSeq <= serverWrote
        /\ plain = <<>> /\ clientSeq = serverRead
    BY <1>1, <2>3 DEF Stage
  <2>6. \A i \in 1..(k + 1) : one(i) \in Records /\ one(i).seq \in Nat /\ one(i).seq < serverWrote + k + 1
    <3> SUFFICES ASSUME NEW i \in 1..(k + 1)
                 PROVE  one(i) \in Records /\ one(i).seq \in Nat /\ one(i).seq < serverWrote + k + 1
      OBVIOUS
    <3>1. serverWrote + i - 1 \in Nat /\ serverWrote + i - 1 < serverWrote + k + 1
      BY <2>4
    <3>2. one(i).seq = serverWrote + i - 1
      OBVIOUS
    <3>3. one(i) \in Records
      BY <3>1 DEF Records
    <3>4. QED
      BY <3>1, <3>2, <3>3
  <2> HIDE DEF one
  <2>7. more \in Seq(Records) /\ Len(more) = k + 1 /\ \A i \in 1..(k + 1) : more[i] = one(i)
    BY <2>4, <2>6
  <2>8. flight' = flight \o more
    BY <2>2 DEF one
  <2> HIDE DEF more
  <2>9. /\ flight' \in Seq(Records) /\ Len(flight') = Len(flight) + (k + 1)
        /\ \A i \in 1..(Len(flight) + (k + 1)) : flight'[i] = IF i <= Len(flight) THEN flight[i] ELSE more[i - Len(flight)]
    <3>1. /\ flight \o more \in Seq(Records) /\ Len(flight \o more) = Len(flight) + Len(more)
          /\ \A i \in 1..(Len(flight) + Len(more)) :
               (flight \o more)[i] = IF i <= Len(flight) THEN flight[i] ELSE more[i - Len(flight)]
      BY <2>4, <2>7, ConcatProperties
    <3>2. Len(more) = k + 1
      BY <2>7
    <3>3. QED
      BY <2>8, <3>1, <3>2
  <2>10. Unread(rx, wire \o Secure!Units(Len(flight) + 1, k + 1), Len(flight) + (k + 1), n)
    BY <2>3, <2>4, UnreadSent
  <2>11. Unread(rx', wire', Len(flight'), n)
    BY <2>1, <2>2, <2>9, <2>10
  <2>12. n \in 1..(Len(flight') + 1) /\ Len(flight') \in Nat
    <3>1. \A l \in Nat : l + (k + 1) \in Nat /\ \A p \in 1..(l + 1) : p \in 1..((l + (k + 1)) + 1)
      BY <2>4
    <3>2. QED
      BY <2>4, <2>9, <3>1
  <2>13. NumberedFrom(n)'
    <3> SUFFICES ASSUME NEW i \in n..Len(flight')
                 PROVE  flight'[i].seq \in Nat /\ flight'[i].seq < serverWrote'
      BY DEF NumberedFrom
    <3>1. i \in 1..(Len(flight) + (k + 1))
      BY <2>4, <2>9, <2>3
    <3>2. CASE i <= Len(flight)
      <4>1. flight'[i] = flight[i] /\ i \in n..Len(flight)
        BY <2>4, <2>9, <3>1, <3>2
      <4>2. flight[i].seq \in Nat /\ flight[i].seq < serverWrote
        BY <2>5, <4>1 DEF NumberedFrom
      <4>3. \A s \in Nat : s < serverWrote => s < serverWrote + k + 1
        BY <2>4
      <4>4. QED
        BY <2>2, <4>1, <4>2, <4>3
    <3>3. CASE ~(i <= Len(flight))
      <4>1. i - Len(flight) \in 1..(k + 1)
        BY <2>4, <3>1, <3>3
      <4>2. flight'[i] = one(i - Len(flight))
        BY <2>7, <2>9, <3>1, <3>3, <4>1
      <4>3. QED
        BY <2>2, <2>6, <4>1, <4>2
    <3>4. QED
      BY <3>2, <3>3
  <2>14. serverWrote' \in Nat /\ serverRead' \in Nat /\ clientSeq' \in Nat /\ serverSeq' \in Nat
         /\ serverSeq' <= serverWrote'
    <3>1. PICK upTo \in Nat, wrote \in Nat : upTo = serverSeq /\ wrote = serverWrote
      BY <2>4
    <3>2. upTo <= wrote
      BY <2>5, <3>1
    <3>3. upTo <= wrote + k + 1 /\ wrote + k + 1 \in Nat
      BY <3>2
    <3>4. serverWrote' = wrote + k + 1 /\ serverSeq' = upTo
      BY <2>1, <2>2, <3>1
    <3>5. serverRead' \in Nat /\ clientSeq' \in Nat
      BY <2>1, <2>4
    <3>6. QED
      BY <3>3, <3>4, <3>5
  <2>15. plain' \in Seq(Nat) /\ (\A i \in 1..Len(plain') : plain'[i] = i)
    BY <1>1 DEF TlsOK
  <2>16. Stage(n)'
    <3>1. serverSeq' = Len(plain') + 1
      BY <1>1, <2>1, <2>5
    <3>2. QED
      BY <1>1, <2>1, <2>5, <2>13, <2>14, <3>1 DEF Stage
  <2>17. QED
    BY <1>1, <2>1, <2>9, <2>11, <2>12, <2>14, <2>15, <2>16, OpenStep
<1>4. QED
  BY <1>2, <1>3

LEMMA RecordStep ==
  ASSUME TlsOK, Secure!ReadRecord
  PROVE  TlsOK'
<1>1. /\ tlsPc = "read"
      /\ UNCHANGED <<tlsPc, wire, told, mine, parts, clientSeq, ready, open, tlsResult, flight, theirs, serverRead,
                     serverWrote>>
      /\ \/ /\ Secure!Whole /\ rx' = Secure!Rest
            /\ \/ /\ Secure!Record.seq = serverSeq /\ plain' = Append(plain, Secure!Record.seq)
                  /\ serverSeq' = serverSeq + 1
               \/ UNCHANGED <<plain, serverSeq>>
         \/ UNCHANGED <<rx, plain, serverSeq>>
  BY DEF Secure!ReadRecord, Secure!server
<1>2. CASE UNCHANGED <<rx, plain, serverSeq>>
  <2>1. PICK n \in 1..(Len(flight) + 1) : Unread(rx, wire, Len(flight), n) /\ Stage(n)
    BY <1>1 DEF TlsOK
  <2>2. Stage(n)' /\ Unread(rx', wire', Len(flight'), n) /\ n \in 1..(Len(flight') + 1)
    BY <1>1, <1>2, <2>1 DEF Stage, NumberedFrom
  <2>3. QED
    BY <1>1, <1>2, <2>2, OpenStep DEF TlsOK
<1>3. CASE /\ Secure!Whole /\ rx' = Secure!Rest
           /\ \/ /\ Secure!Record.seq = serverSeq /\ plain' = Append(plain, Secure!Record.seq)
                 /\ serverSeq' = serverSeq + 1
              \/ UNCHANGED <<plain, serverSeq>>
  <2>1. PICK n \in 1..Len(flight) :
           /\ Unread(rx, wire, Len(flight), n) /\ Stage(n)
           /\ Unread(Secure!Rest, wire, Len(flight), n + 1) /\ Secure!Record = flight[n]
    BY <1>1, <1>3, WholeRecord
  <2>2. Len(flight) \in Nat /\ n + 1 \in 1..(Len(flight) + 1) /\ n \in n..Len(flight)
    BY <2>1 DEF TlsOK
  <2>3. Unread(rx', wire', Len(flight'), n + 1) /\ n + 1 \in 1..(Len(flight') + 1)
    BY <1>1, <1>3, <2>1, <2>2
  <2>4. /\ mine = theirs /\ NumberedFrom(n) /\ serverSeq = Len(plain) + 1 /\ serverSeq <= serverWrote
        /\ clientSeq = serverRead
    BY <1>1, <2>1 DEF Stage
  <2>5. NumberedFrom(n + 1)'
    BY <1>1, <2>1, <2>2, <2>4 DEF NumberedFrom
  <2>6. plain \in Seq(Nat) /\ (\A i \in 1..Len(plain) : plain[i] = i) /\ Len(plain) \in Nat
        /\ serverWrote \in Nat /\ serverSeq \in Nat
    BY DEF TlsOK
  <2>7. /\ plain' \in Seq(Nat) /\ \A i \in 1..Len(plain') : plain'[i] = i
        /\ serverSeq' = Len(plain') + 1 /\ serverSeq' <= serverWrote'
    <3>1. CASE UNCHANGED <<plain, serverSeq>>
      BY <1>1, <2>4, <2>6, <3>1
    <3>2. CASE Secure!Record.seq = serverSeq /\ plain' = Append(plain, Secure!Record.seq) /\ serverSeq' = serverSeq + 1
      <4>1. plain' = Append(plain, serverSeq) /\ serverSeq < serverWrote
        BY <2>1, <2>2, <2>4, <3>2 DEF NumberedFrom
      <4>2. /\ Append(plain, serverSeq) \in Seq(Nat) /\ Len(Append(plain, serverSeq)) = Len(plain) + 1
            /\ \A i \in 1..Len(plain) : Append(plain, serverSeq)[i] = plain[i]
            /\ Append(plain, serverSeq)[Len(plain) + 1] = serverSeq
        BY <2>6, AppendProperties
      <4>3. \A i \in 1..(Len(plain) + 1) : plain'[i] = i
        BY <2>4, <2>6, <4>1, <4>2
      <4>4. serverSeq' <= serverWrote'
        BY <1>1, <2>6, <3>2, <4>1
      <4>5. serverSeq' = Len(plain') + 1
        BY <2>4, <3>2, <4>1, <4>2
      <4>6. QED
        BY <4>1, <4>2, <4>3, <4>4, <4>5
    <3>3. QED
      BY <1>3, <3>1, <3>2
  <2>8. serverSeq' \in Nat
    BY <1>3, <2>6
  <2>9. Stage(n + 1)'
    BY <1>1, <2>4, <2>5, <2>7 DEF Stage
  <2>10. QED
    BY <1>1, <2>3, <2>7, <2>8, <2>9, OpenStep DEF TlsOK
<1>4. QED
  BY <1>1, <1>2, <1>3

LEMMA DoneStep ==
  ASSUME TlsOK, Secure!Done
  PROVE  TlsOK'
<1>1. UNCHANGED <<flight, serverWrote, serverRead, plain>>
  BY DEF Secure!Done, Secure!server
<1>2. Secure!Over("error") \/ Secure!Over("page")
  BY DEF Secure!Done
<1>3. QED
  BY <1>1, <1>2, OverStep

LEMMA TlsKeeps ==
  ASSUME TlsOK, [Secure!Next]_tlsVars
  PROVE  TlsOK'
<1>1. CASE UNCHANGED tlsVars
  BY <1>1 DEF tlsVars, TlsOK, Stage, NumberedFrom
<1>2. CASE Secure!Next
  BY <1>2, PullStep, FlightStep, FinishStep, ChangeStep, FinishedStep, RequestStep, RecordStep, DoneStep
  DEF Secure!Next
<1>3. QED
  BY <1>1, <1>2

LEMMA TlsSteps ==
  ASSUME [DevicesNext]_all
  PROVE  [Secure!Next]_tlsVars
BY DEF DevicesNext, all, drivers, stores, services, MouseNext, UsbNext, CardNext,
       NetworkNext, DiskNext, VolumeNext, PicturesNext, SetupNext, TlsNext, HttpNext, WgetNext

(* However the stream splits the records, a page that network_https_fetch    *)
(* returns is made of the first records of the server, each once and in      *)
(* order; data go over a connection whose two ends have heard the same       *)
(* handshake; and nothing of a session outlives the fetch: the part of       *)
(* ServicesSound that is about HTTPS.                                        *)
THEOREM PageIsWhatWasSent == DevicesSpec => []Secure!TlsSound
<1>1. DevicesInit => TlsOK
  BY TlsInit DEF DevicesInit
<1>2. TlsOK /\ [DevicesNext]_all => TlsOK'
  BY TlsKeeps, TlsSteps
<1>3. TlsOK => Secure!TlsSound
  <2>1. SUFFICES ASSUME TlsOK PROVE Secure!TlsSound
    OBVIOUS
  <2>2. ready => mine = theirs /\ clientSeq = serverRead /\ serverSeq <= serverWrote
    <3>1. SUFFICES ASSUME ready PROVE mine = theirs /\ clientSeq = serverRead /\ serverSeq <= serverWrote
      OBVIOUS
    <3>2. tlsPc # "end"
      BY <2>1, <3>1 DEF TlsOK
    <3>3. PICK n \in 1..(Len(flight) + 1) : Stage(n)
      BY <2>1, <3>2 DEF TlsOK
    <3>4. tlsPc \in {"ask", "read"}
      BY <2>1, <3>1, <3>2, <3>3 DEF TlsOK, Stage
    <3>5. QED
      BY <3>3, <3>4 DEF Stage
  <2>3. QED
    BY <2>1, <2>2 DEF TlsOK, Secure!TlsSound
<1>4. QED
  BY <1>1, <1>2, <1>3, PTL DEF DevicesSpec

-----------------------------------------------------------------------------
(* The ATA driver.                                                           *)

Spots == {<<0, 0>>, <<0, 1>>, <<1, 0>>, <<1, 1>>}
Drives == {"disk", "cd"}
Attached(k) == \E p \in Spots : attached[p] = k

DiskTypes ==
  /\ diskPc \in {"search", "idle", "ready", "data", "settle", "flush", "packet", "sector", "end"}
  /\ place \in 1..5 /\ boot \in Nat /\ cdrom \in Nat /\ drives \in Seq(Drives) /\ nth \in Nat
  /\ attached \in [Spots -> Drives \cup {"none"}] /\ chosen \in [0..1 -> Drives \cup {"none"}]
  /\ status \in [Drives -> {"idle", "busy", "data", "error"}]
  /\ DOMAIN command = Drives
  /\ image \in [0..(Sectors - 1) -> Values]

(* A drive that works is the one its bus has selected.                       *)
Buses ==
  /\ diskPc = "search" => \A k \in Drives : status[k] = "idle"
  /\ \A k \in Drives : status[k] = "busy" => Attached(k) /\ chosen[Storage!Bus(k)] = k
  /\ diskPc \in {"ready", "data", "settle", "flush"} => boot # 0
  /\ diskPc \in {"data", "settle", "flush"} => chosen[Storage!Bus("disk")] = "disk"
  /\ boot # 0 => boot <= Len(drives) /\ drives[boot] = "disk"
  /\ diskPc \in {"sector", "packet"} => cdrom # 0
  /\ \A i \in 1..Len(drives) : Attached(drives[i])

InRange ==
  /\ diskOp.left \in {1, 2} /\ diskOp.lba \in Nat /\ diskOp.lba + diskOp.left <= Sectors
  /\ diskOp.kind = "write" => diskBuffer = diskOp.data /\ diskOp.data \in [1..2 -> Values]

(* What has been read, of the disk and of the CD-ROM, and what is written.   *)
SectorsRead(m) == [i \in 1..m |-> image[diskOp.lba + i - 1]]
SlicesRead(m) ==
  [i \in 1..m |-> <<Storage!CdSector(diskOp.lba + i - 1), (diskOp.lba + i - 1) % Slices>>]
Stored(m) == \A i \in 1..m : image[diskOp.lba + i - 1] = diskOp.data[i]
Written == Stored(diskOp.left - 1) /\ (~erred => Stored(diskOp.left))

Told(k, m) ==
  command["disk"].kind = k /\ command["disk"].lba = diskOp.lba + m /\ command["disk"].left = diskOp.left - m

Transfer ==
  /\ diskPc = "ready" =>
       InRange /\ diskOp.kind \in {"read", "write"} /\ nth = 0 /\ (diskOp.kind = "read" => diskBuffer = <<>>)
  /\ diskPc = "data" =>
       /\ InRange /\ diskOp.kind \in {"read", "write"} /\ nth < diskOp.left
       /\ diskOp.kind = "read" => diskBuffer = SectorsRead(nth) /\ Told("read", nth)
       /\ diskOp.kind = "write" /\ status["disk"] \in {"busy", "data"} => Stored(nth) /\ Told("write", nth)
  /\ diskPc = "settle" =>
       /\ InRange /\ diskOp.kind = "write" /\ nth \in 1..diskOp.left
       /\ status["disk"] = "busy" =>
            Stored(nth - 1) /\ Told("store", nth - 1) /\ command["disk"].value = diskOp.data[nth]
       /\ status["disk"] \in {"idle", "data"} => Stored(nth) /\ Told("write", nth)
       /\ status["disk"] = "error" => Stored(nth - 1) /\ erred
  /\ diskPc = "flush" =>
       InRange /\ diskOp.kind = "write" /\ Written /\ status["disk"] # "busy"
  /\ diskPc \in {"sector", "packet"} =>
       /\ diskOp.kind = "cd" /\ diskOp.left \in {1, 2} /\ diskOp.lba \in Nat
       /\ nth < diskOp.left /\ diskBuffer = SlicesRead(nth)
       /\ diskPc = "packet" => command["cd"].lba = Storage!CdWanted
  /\ diskPc = "end" /\ diskResult = 0 =>
       /\ diskOp.kind = "read" => diskBuffer = SectorsRead(diskOp.left) /\ command["disk"].kind # "store"
       /\ diskOp.kind = "write" => Written /\ command["disk"].kind # "store"
       /\ diskOp.kind = "cd" => diskBuffer = SlicesRead(diskOp.left)
  /\ command["cd"].kind # "store"
  /\ command["disk"].kind = "store" => command["disk"].value \in Values

DiskOK == DiskTypes /\ Buses /\ Transfer

LEMMA BusOf ==
  ASSUME DiskTypes, NEW k, Attached(k)
  PROVE  Storage!Bus(k) \in 0..1
<1>1. \E p \in DOMAIN attached : attached[p] = k
  BY DEF DiskTypes, Attached
<1> DEFINE q == CHOOSE p \in DOMAIN attached : attached[p] = k
<1>2. q \in DOMAIN attached
  BY <1>1
<1>3. q \in Spots
  BY <1>2 DEF DiskTypes
<1>4. Storage!Bus(k) = q[1]
  BY DEF Storage!Bus
<1> HIDE DEF q
<1>5. q[1] \in 0..1
  BY <1>3 DEF Spots
<1>6. QED
  BY <1>4, <1>5

LEMMA DiskInit ==
  ASSUME Storage!Init
  PROVE  DiskOK
<1>1. \A p : p \in {Storage!Places[i] : i \in 1..4} <=> p \in Spots
  <2>1. 1..4 = {1, 2, 3, 4}
    OBVIOUS
  <2>2. Storage!Places[1] = <<0, 0>> /\ Storage!Places[2] = <<0, 1>>
        /\ Storage!Places[3] = <<1, 0>> /\ Storage!Places[4] = <<1, 1>>
    BY DEF Storage!Places
  <2>3. QED
    BY <2>1, <2>2 DEF Spots
<1>2. attached \in [Spots -> Drives \cup {"none"}]
  <2>1. PICK l \in Layouts :
          attached = [p \in {Storage!Places[i] : i \in 1..4} |->
                        IF p = l.disk THEN "disk" ELSE IF p = l.cd THEN "cd" ELSE "none"]
    BY DEF Storage!Init
  <2>2. {Storage!Places[i] : i \in 1..4} = Spots
    BY <1>1
  <2>3. QED
    BY <2>1, <2>2 DEF Drives
<1>3. /\ diskPc = "search" /\ place = 1 /\ boot = 0 /\ cdrom = 0 /\ drives = <<>> /\ nth = 0
      /\ chosen = [b \in 0..1 |-> "none"] /\ status = [k \in Storage!Kinds |-> "idle"]
      /\ command = [k \in Storage!Kinds |-> Storage!None]
      /\ \E v \in Values : image = [l \in 0..(Sectors - 1) |-> v]
  BY DEF Storage!Init, Storage!SectorNumbers
<1>4. DiskTypes
  BY <1>2, <1>3 DEF DiskTypes, Drives, Storage!Kinds
<1>5. Buses
  BY <1>3 DEF Buses, Drives, Storage!Kinds
<1>6. command["cd"].kind = "none" /\ command["disk"].kind = "none"
  BY <1>3 DEF Storage!Kinds, Storage!None
<1>7. Transfer
  BY <1>3, <1>6 DEF Transfer
<1>8. QED
  BY <1>4, <1>5, <1>7 DEF DiskOK

(* The search.                                                               *)
LEMMA SearchStep ==
  ASSUME DiskOK, Storage!Search
  PROVE  DiskOK'
<1> DEFINE p == Storage!Places[place]
<1>1. PICK k \in Storage!Answers(p) :
       /\ drives' = IF k = "none" THEN drives ELSE Append(drives, k)
       /\ boot' = IF k = "disk" /\ boot = 0 THEN Len(drives) + 1 ELSE boot
       /\ cdrom' = IF k = "cd" /\ cdrom = 0 THEN Len(drives) + 1 ELSE cdrom
  BY DEF Storage!Search
<1>2. /\ diskPc = "search" /\ place <= 4 /\ place' = place + 1
      /\ chosen' = [chosen EXCEPT ![p[1]] = attached[p]]
      /\ UNCHANGED <<attached, status, command, image, diskPc, nth>>
  BY DEF Storage!Search, Storage!call
<1>3. place \in 1..4 /\ DiskTypes /\ Buses /\ Transfer
  BY <1>2 DEF DiskOK, DiskTypes
<1>4. p \in Spots /\ p[1] \in 0..1
  <2>1. place \in {1, 2, 3, 4}
    BY <1>3
  <2>2. QED
    BY <2>1 DEF Storage!Places, Spots
<1> HIDE DEF p
<1>5. k \in Drives \cup {"none"} /\ (k # "none" => attached[p] = k)
  BY <1>3, <1>4 DEF Storage!Answers, DiskTypes
<1>6. Len(drives) \in Nat /\ drives \in Seq(Drives) /\ boot \in Nat /\ cdrom \in Nat
  BY <1>3 DEF DiskTypes
<1>7. k # "none" => /\ drives' \in Seq(Drives) /\ Len(drives') = Len(drives) + 1
                    /\ drives'[Len(drives) + 1] = k
                    /\ \A i \in 1..Len(drives) : drives'[i] = drives[i]
  BY <1>1, <1>5, <1>6, AppendProperties
<1>8. DiskTypes'
  <2>1. drives' \in Seq(Drives) /\ boot' \in Nat /\ cdrom' \in Nat
    BY <1>1, <1>6, <1>7
  <2>2. chosen' \in [0..1 -> Drives \cup {"none"}]
    BY <1>2, <1>3, <1>4 DEF DiskTypes
  <2>3. place' \in 1..5
    BY <1>2, <1>3
  <2>4. QED
    BY <1>2, <1>3, <2>1, <2>2, <2>3 DEF DiskTypes
<1>9. Buses'
  <2>1. \A i \in 1..Len(drives') : \E s \in Spots : attached'[s] = drives'[i]
    <3> SUFFICES ASSUME NEW i \in 1..Len(drives')
                 PROVE  \E s \in Spots : attached'[s] = drives'[i]
      OBVIOUS
    <3>1. CASE k = "none"
      BY <1>1, <1>2, <1>3, <3>1 DEF Buses, Attached
    <3>2. CASE k # "none" /\ i \in 1..Len(drives)
      BY <1>2, <1>3, <1>7, <3>2 DEF Buses, Attached
    <3>3. CASE k # "none" /\ i \notin 1..Len(drives)
      <4>1. i = Len(drives) + 1
        BY <1>6, <1>7, <3>3
      <4>2. QED
        BY <1>2, <1>4, <1>5, <1>7, <3>3, <4>1
    <3>4. QED
      BY <3>1, <3>2, <3>3
  <2>2. boot' # 0 => boot' <= Len(drives') /\ drives'[boot'] = "disk"
    <3>1. CASE k = "none"
      BY <1>1, <1>3, <3>1 DEF Buses
    <3>2. CASE k = "disk" /\ boot = 0
      BY <1>1, <1>6, <1>7, <3>2
    <3>3. CASE k # "none" /\ ~(k = "disk" /\ boot = 0)
      <4>1. boot' = boot
        BY <1>1, <3>3
      <4>2. boot # 0 => boot \in 1..Len(drives) /\ drives[boot] = "disk"
        BY <1>3, <1>6 DEF Buses
      <4>3. QED
        BY <1>6, <1>7, <3>3, <4>1, <4>2
    <3>4. QED
      BY <3>1, <3>2, <3>3
  <2>3. \A j \in Drives : status'[j] = "idle"
    BY <1>2, <1>3 DEF Buses
  <2>4. QED
    BY <1>2, <2>1, <2>2, <2>3 DEF Buses, Attached
<1>10. Transfer'
  BY <1>2, <1>3 DEF Transfer
<1>11. QED
  BY <1>8, <1>9, <1>10 DEF DiskOK

LEMMA SearchEndsStep ==
  ASSUME DiskOK, Storage!SearchEnds
  PROVE  DiskOK'
<1>1. /\ diskPc = "search" /\ UNCHANGED <<boot, cdrom, attached, chosen, status, command, image, nth>>
      /\ \/ boot = 0 /\ place' = 1 /\ drives' = <<>> /\ diskPc' = diskPc
         \/ diskPc' = "idle" /\ UNCHANGED <<place, drives>>
  BY DEF Storage!SearchEnds, Storage!lines, Storage!call
<1>2. DiskTypes'
  BY <1>1 DEF DiskOK, DiskTypes
<1>3. Buses'
  <2>1. \A k \in Drives : Attached(k) => Attached(k)'
    BY <1>1 DEF Attached
  <2>2. \A k : Storage!Bus(k)' = Storage!Bus(k)
    BY <1>1 DEF Storage!Bus
  <2>3. \A i \in 1..Len(drives') : \E s \in Spots : attached'[s] = drives'[i]
    BY <1>1 DEF DiskOK, Buses, Attached
  <2>4. QED
    BY <1>1, <2>1, <2>2, <2>3 DEF DiskOK, Buses, Attached
<1>4. Transfer'
  BY <1>1 DEF DiskOK, Transfer
<1>5. QED
  BY <1>2, <1>3, <1>4 DEF DiskOK

(* The drives stay where they are once they have been found.                 *)
LEMMA SameDrives ==
  ASSUME Storage!found' = Storage!found, attached' = attached
  PROVE  /\ UNCHANGED <<drives, boot, cdrom, place>>
         /\ \A k : Storage!Bus(k)' = Storage!Bus(k)
         /\ \A k \in Drives : Attached(k)' = Attached(k)
BY DEF Storage!found, Storage!Bus, Attached

LEMMA DiskAttached ==
  ASSUME DiskTypes, Buses, boot # 0
  PROVE  Attached("disk")
<1>1. boot \in 1..Len(drives)
  BY DEF DiskTypes, Buses
<1>2. Attached(drives[boot])
  BY <1>1 DEF Buses
<1>3. QED
  BY <1>2 DEF Buses

LEMMA CallStep ==
  ASSUME DiskOK, NEW o \in Storage!Calls, Storage!Call(o)
  PROVE  DiskOK'
<1>1. /\ diskPc = "idle" /\ diskOp' = o /\ nth' = 0
      /\ diskBuffer' = IF o.kind = "write" THEN o.data ELSE <<>>
      /\ UNCHANGED <<attached, chosen, status, command, image>> /\ Storage!found' = Storage!found
  BY DEF Storage!Call, Storage!lines
<1> DEFINE refused == IF o.kind = "cd" THEN cdrom = 0
                      ELSE boot = 0 \/ o.left = 0 \/ o.lba + o.left > Sectors
<1>2. /\ diskResult' = IF refused THEN -1 ELSE 0
      /\ diskPc' = IF refused THEN "end" ELSE IF o.kind = "cd" THEN "sector" ELSE "ready"
  BY DEF Storage!Call
<1>3. UNCHANGED <<drives, boot, cdrom, place>> /\ DiskTypes /\ Buses /\ Transfer
      /\ (\A k : Storage!Bus(k)' = Storage!Bus(k)) /\ (\A k \in Drives : Attached(k)' = Attached(k))
  BY <1>1, SameDrives DEF DiskOK
<1>4. /\ o.kind \in {"read", "write", "cd"} /\ o.lba \in Nat /\ o.left \in 0..2
      /\ o.kind = "cd" => o.left \in 1..2
      /\ o.kind = "write" => o.data \in [1..2 -> Values]
  <2>1. CASE o \in [kind : {"read"}, lba : Storage!SectorNumbers, left : 0..2]
    BY <2>1, DiskAssumption DEF Storage!SectorNumbers
  <2>2. CASE o \in [kind : {"cd"}, lba : 0..Slices, left : 1..2]
    <3>1. o.kind = "cd" /\ o.lba \in 0..Slices /\ o.left \in 1..2
      BY <2>2
    <3>2. QED
      BY <3>1
  <2>3. CASE \E l \in Storage!SectorNumbers, m \in 1..2, d \in [1..2 -> Values] :
               o = [kind |-> "write", lba |-> l, left |-> m, data |-> d]
    BY <2>3, DiskAssumption DEF Storage!SectorNumbers
  <2>4. QED
    BY <2>1, <2>2, <2>3 DEF Storage!Calls
<1>5. ~refused => /\ o.kind = "cd" => cdrom # 0
                  /\ o.kind # "cd" => boot # 0 /\ o.left \in {1, 2} /\ o.lba + o.left <= Sectors
  <2>1. o.left \in {0, 1, 2}
    BY <1>4
  <2>2. o.kind # "cd" /\ ~refused => o.left # 0 /\ ~(o.lba + o.left > Sectors) /\ boot # 0
    OBVIOUS
  <2>3. \A l \in Nat, m \in {0, 1, 2} : ~(l + m > Sectors) => l + m <= Sectors
    BY DiskAssumption
  <2>4. QED
    BY <1>4, <2>1, <2>2, <2>3
<1> HIDE DEF refused
<1>6. DiskTypes'
  BY <1>1, <1>2, <1>3 DEF DiskTypes
<1>7. Buses'
  <2>1. \A i \in 1..Len(drives') : \E s \in Spots : attached'[s] = drives'[i]
    BY <1>1, <1>3 DEF Buses, Attached
  <2>2. diskPc' = "ready" => boot # 0
    BY <1>2, <1>4, <1>5
  <2>3. diskPc' = "sector" => cdrom # 0
    BY <1>2, <1>4, <1>5
  <2>4. QED
    BY <1>1, <1>2, <1>3, <2>1, <2>2, <2>3 DEF Buses, Attached
<1>8. Transfer'
  <2>1. CASE refused
    BY <1>1, <1>2, <1>3, <2>1 DEF Transfer
  <2>2. CASE ~refused /\ o.kind = "cd"
    <3>1. diskBuffer' = <<>> /\ diskPc' = "sector"
      BY <1>1, <1>2, <2>2
    <3>2. SlicesRead(0)' = <<>>
      BY DEF SlicesRead
    <3>3. o.left \in {1, 2} /\ 0 < o.left
      BY <1>4, <2>2
    <3>4. QED
      BY <1>1, <1>3, <1>4, <2>2, <3>1, <3>2, <3>3 DEF Transfer
  <2>3. CASE ~refused /\ o.kind # "cd"
    <3>1. diskPc' = "ready"
      BY <1>2, <2>3
    <3>2. InRange'
      BY <1>1, <1>4, <1>5, <2>3 DEF InRange
    <3>3. QED
      BY <1>1, <1>3, <1>4, <2>3, <3>1, <3>2 DEF Transfer
  <2>4. QED
    BY <2>1, <2>2, <2>3
<1>9. QED
  BY <1>6, <1>7, <1>8 DEF DiskOK

(* The disk is told to read or write.                                        *)
LEMMA IssueStep ==
  ASSUME DiskTypes, Buses, NEW k \in Drives, Attached(k), NEW c, Storage!Issue(k, c),
         Storage!Idle(k) \/ chosen[Storage!Bus(k)] = k
  PROVE  /\ chosen' \in [0..1 -> Drives \cup {"none"}] /\ chosen'[Storage!Bus(k)] = k
         /\ status' \in [Drives -> {"idle", "busy", "data", "error"}] /\ status'[k] = "busy"
         /\ DOMAIN command' = Drives /\ command'[k] = c
         /\ \A d \in Drives : d # k => status'[d] = status[d] /\ command'[d] = command[d]
         /\ \A d \in Drives : status'[d] = "busy" => Attached(d) /\ chosen'[Storage!Bus(d)] = d
<1>1. /\ chosen' = [chosen EXCEPT ![Storage!Bus(k)] = k]
      /\ status' = [status EXCEPT ![k] = "busy"]
      /\ command' = [command EXCEPT ![k] = c]
  BY DEF Storage!Issue
<1>2. Storage!Bus(k) \in 0..1
  BY BusOf
<1>3. /\ chosen' \in [0..1 -> Drives \cup {"none"}] /\ chosen'[Storage!Bus(k)] = k
      /\ \A b \in 0..1 : b # Storage!Bus(k) => chosen'[b] = chosen[b]
  BY <1>1, <1>2 DEF DiskTypes
<1>4. /\ status' \in [Drives -> {"idle", "busy", "data", "error"}] /\ status'[k] = "busy"
      /\ \A d \in Drives : d # k => status'[d] = status[d]
  BY <1>1 DEF DiskTypes
<1>5. /\ DOMAIN command' = Drives /\ command'[k] = c
      /\ \A d \in Drives : d # k => command'[d] = command[d]
  BY <1>1 DEF DiskTypes
<1>6. ASSUME NEW d \in Drives, status'[d] = "busy"
      PROVE  Attached(d) /\ chosen'[Storage!Bus(d)] = d
  <2>1. CASE d = k
    BY <1>3, <2>1
  <2>2. CASE d # k
    <3>1. status[d] = "busy"
      BY <1>4, <1>6, <2>2
    <3>2. Attached(d) /\ chosen[Storage!Bus(d)] = d
      BY <3>1 DEF Buses
    <3>3. Storage!Bus(d) \in 0..1
      BY <3>2, BusOf
    <3>4. Storage!Bus(d) # Storage!Bus(k)
      <4>1. SUFFICES ASSUME Storage!Bus(d) = Storage!Bus(k)
                     PROVE  FALSE
        OBVIOUS
      <4>2. chosen[Storage!Bus(k)] = d
        BY <3>2, <4>1
      <4>3. ~Storage!Idle(k)
        BY <3>1, <4>2 DEF Storage!Idle, Drives
      <4>4. QED
        BY <2>2, <4>2, <4>3
    <3>5. QED
      BY <1>3, <3>2, <3>3, <3>4
  <2>3. QED
    BY <2>1, <2>2
<1>7. QED
  BY <1>3, <1>4, <1>5, <1>6

LEMMA FailsStep ==
  ASSUME DiskOK, Storage!Fails, UNCHANGED <<attached, chosen, status, command, image>>,
         Storage!found' = Storage!found, diskPc # "search"
  PROVE  DiskOK'
<1>1. /\ UNCHANGED <<drives, boot, cdrom, place, nth>> /\ DiskTypes /\ Buses /\ Transfer
      /\ diskPc' = "end" /\ diskResult' = -1
      /\ (\A k : Storage!Bus(k)' = Storage!Bus(k)) /\ (\A k \in Drives : Attached(k)' = Attached(k))
  BY SameDrives DEF DiskOK, Storage!Fails
<1>2. DiskTypes'
  BY <1>1 DEF DiskTypes
<1>3. Buses'
  <2>1. \A i \in 1..Len(drives') : \E s \in Spots : attached'[s] = drives'[i]
    BY <1>1 DEF Buses, Attached
  <2>2. QED
    BY <1>1, <2>1 DEF Buses, Attached
<1>4. Transfer'
  BY <1>1 DEF Transfer
<1>5. QED
  BY <1>2, <1>3, <1>4 DEF DiskOK

(* Selecting a drive keeps the types and the buses.                          *)
LEMMA IssueKeeps ==
  ASSUME DiskOK, NEW k \in Drives, Attached(k), NEW c, Storage!Issue(k, c),
         Storage!Idle(k) \/ chosen[Storage!Bus(k)] = k,
         UNCHANGED <<attached, image, nth>>, Storage!found' = Storage!found,
         diskPc' \in {"data", "end", "packet"},
         diskPc' = "data" => boot # 0 /\ k = "disk", diskPc' = "packet" => cdrom # 0
  PROVE  /\ DiskTypes' /\ Buses' /\ command'[k] = c
         /\ \A d \in Drives : d # k => status'[d] = status[d] /\ command'[d] = command[d]
<1>1. /\ UNCHANGED <<drives, boot, cdrom, place>> /\ DiskTypes /\ Buses /\ Transfer
      /\ (\A d : Storage!Bus(d)' = Storage!Bus(d)) /\ (\A d \in Drives : Attached(d)' = Attached(d))
  BY SameDrives DEF DiskOK
<1>2. /\ chosen' \in [0..1 -> Drives \cup {"none"}] /\ chosen'[Storage!Bus(k)] = k
      /\ status' \in [Drives -> {"idle", "busy", "data", "error"}] /\ status'[k] = "busy"
      /\ DOMAIN command' = Drives /\ command'[k] = c
      /\ \A d \in Drives : d # k => status'[d] = status[d] /\ command'[d] = command[d]
      /\ \A d \in Drives : status'[d] = "busy" => Attached(d) /\ chosen'[Storage!Bus(d)] = d
  BY <1>1, IssueStep
<1>3. DiskTypes'
  BY <1>1, <1>2 DEF DiskTypes
<1>4. Buses'
  <2>1. \A i \in 1..Len(drives') : \E s \in Spots : attached'[s] = drives'[i]
    BY <1>1 DEF Buses, Attached
  <2>2. \A d \in Drives : status'[d] = "busy" => Attached(d)' /\ chosen'[Storage!Bus(d)'] = d
    BY <1>1, <1>2
  <2>3. diskPc' = "data" => chosen'[Storage!Bus("disk")'] = "disk"
    BY <1>1, <1>2
  <2>4. QED
    BY <1>1, <2>1, <2>2, <2>3 DEF Buses, Attached
<1>5. QED
  BY <1>2, <1>3, <1>4

LEMMA ReadyStep ==
  ASSUME DiskOK, Storage!Ready
  PROVE  DiskOK'
<1>1. diskPc = "ready" /\ UNCHANGED <<attached, image, erred>> /\ Storage!found' = Storage!found
  BY DEF Storage!Ready
<1>2. CASE Storage!Idle("disk")
  <2> DEFINE c == [kind |-> diskOp.kind, lba |-> diskOp.lba, left |-> diskOp.left]
  <2>1. Storage!Issue("disk", c) /\ diskPc' = "data" /\ UNCHANGED <<diskOp, nth, diskBuffer, diskResult>>
    BY <1>2 DEF Storage!Ready, Storage!call
  <2>2. /\ InRange /\ diskOp.kind \in {"read", "write"} /\ nth = 0 /\ boot # 0
        /\ diskOp.kind = "read" => diskBuffer = <<>>
        /\ command["cd"].kind # "store" /\ Attached("disk")
    BY <1>1, DiskAttached DEF DiskOK, Transfer, Buses
  <2>3. c.kind = diskOp.kind /\ c.lba = diskOp.lba /\ c.left = diskOp.left /\ c.kind # "store"
    BY <2>2
  <2> HIDE DEF c
  <2>4. DiskTypes' /\ Buses' /\ command'["disk"] = c /\ command'["cd"] = command["cd"]
    BY <1>1, <1>2, <2>1, <2>2, IssueKeeps DEF Drives
  <2>5. Told(diskOp.kind, 0)'
    <3>1. diskOp.lba + 0 = diskOp.lba /\ diskOp.left - 0 = diskOp.left
      BY <2>2 DEF InRange
    <3>2. QED
      BY <2>1, <2>3, <2>4, <3>1 DEF Told
  <2>6. SectorsRead(0)' = <<>> /\ Stored(0)'
    BY DEF SectorsRead, Stored
  <2>7. InRange' /\ 0 < diskOp.left
    BY <2>1, <2>2 DEF InRange
  <2>8. Transfer'
    BY <2>1, <2>2, <2>3, <2>4, <2>5, <2>6, <2>7 DEF Transfer
  <2>9. QED
    BY <2>4, <2>8 DEF DiskOK
<1>3. CASE ~Storage!Idle("disk")
  <2>1. Storage!Fails /\ UNCHANGED <<chosen, status, command>>
    BY <1>3 DEF Storage!Ready
  <2>2. QED
    BY <1>1, <2>1, FailsStep
<1>4. QED
  BY <1>2, <1>3

LEMMA FlushStep ==
  ASSUME DiskOK, Storage!Flush
  PROVE  DiskOK'
<1>1. /\ diskPc = "flush" /\ diskPc' = "end" /\ Storage!Issue("disk", Storage!None)
      /\ UNCHANGED <<attached, image, erred, diskOp, nth, diskBuffer, diskResult>>
      /\ Storage!found' = Storage!found
  BY DEF Storage!Flush, Storage!call
<1>2. /\ diskOp.kind = "write" /\ Written /\ command["cd"].kind # "store"
      /\ chosen[Storage!Bus("disk")] = "disk" /\ Attached("disk")
  BY <1>1, DiskAttached DEF DiskOK, Transfer, Buses
<1>3. DiskTypes' /\ Buses' /\ command'["disk"] = Storage!None /\ command'["cd"] = command["cd"]
  BY <1>1, <1>2, IssueKeeps DEF Drives
<1>4. Written'
  BY <1>1, <1>2 DEF Written, Stored
<1>5. Transfer'
  BY <1>1, <1>2, <1>3, <1>4 DEF Transfer, Storage!None
<1>6. QED
  BY <1>3, <1>5 DEF DiskOK

(* A drive gets on, or is seen to have, while all stay selected.             *)
LEMMA DriveKeeps ==
  ASSUME DiskOK, NEW k \in Drives, NEW v \in {"idle", "busy", "data", "error"},
         status' = [status EXCEPT ![k] = v],
         v = "busy" => Attached(k) /\ chosen[Storage!Bus(k)] = k,
         UNCHANGED <<attached, chosen>>, Storage!found' = Storage!found, DOMAIN command' = Drives,
         image' \in [0..(Sectors - 1) -> Values], nth' \in Nat,
         diskPc # "search", diskPc' # "search",
         diskPc' = diskPc \/ diskPc' \in {"end", "idle"}
           \/ (diskPc \in {"data", "settle"} /\ diskPc' \in {"data", "settle", "flush"})
           \/ (diskPc \in {"sector", "packet"} /\ diskPc' \in {"sector", "packet"})
  PROVE  DiskTypes' /\ Buses'
<1>1. /\ UNCHANGED <<drives, boot, cdrom, place>> /\ DiskTypes /\ Buses
      /\ (\A d : Storage!Bus(d)' = Storage!Bus(d)) /\ (\A d \in Drives : Attached(d)' = Attached(d))
  BY SameDrives DEF DiskOK
<1>2. /\ status' \in [Drives -> {"idle", "busy", "data", "error"}]
      /\ \A d \in Drives : status'[d] = IF d = k THEN v ELSE status[d]
  BY <1>1 DEF DiskTypes
<1>3. diskPc' \in {"search", "idle", "ready", "data", "settle", "flush", "packet", "sector", "end"}
  BY <1>1 DEF DiskTypes
<1>4. DiskTypes'
  BY <1>1, <1>2, <1>3 DEF DiskTypes
<1>5. Buses'
  <2>1. \A i \in 1..Len(drives') : \E s \in Spots : attached'[s] = drives'[i]
    BY <1>1 DEF Buses, Attached
  <2>2. \A d \in Drives : status'[d] = "busy" => Attached(d)' /\ chosen'[Storage!Bus(d)'] = d
    BY <1>1, <1>2 DEF Buses
  <2>3. /\ diskPc' \in {"ready", "data", "settle", "flush"} => boot # 0
        /\ diskPc' \in {"data", "settle", "flush"} => chosen[Storage!Bus("disk")] = "disk"
        /\ diskPc' \in {"sector", "packet"} => cdrom # 0
    BY <1>1 DEF Buses
  <2>4. QED
    BY <1>1, <2>1, <2>2, <2>3 DEF Buses, Attached
<1>6. QED
  BY <1>4, <1>5

LEMMA SectorOf ==
  ASSUME NEW l \in Nat, NEW m \in {1, 2}, l + m <= Sectors, NEW i \in 1..m
  PROVE  l + i - 1 \in 0..(Sectors - 1)
<1>1. i \in Nat /\ 1 <= i /\ i <= m /\ Sectors \in Nat
  BY DiskAssumption
<1>2. QED
  BY <1>1

LEMMA SequenceDomain ==
  ASSUME NEW S, NEW s \in Seq(S)
  PROVE  s = [i \in 1..Len(s) |-> s[i]]
OBVIOUS

LEMMA ReadData ==
  ASSUME DiskOK, Storage!Data, status["disk"] = "data", diskOp.kind = "read"
  PROVE  DiskOK'
<1>1. /\ diskPc = "data" /\ UNCHANGED <<attached, chosen, image, diskOp, diskResult, erred>>
      /\ Storage!found' = Storage!found
      /\ diskBuffer' = Append(diskBuffer, image[command["disk"].lba])
      /\ command' = [command EXCEPT !["disk"] = Storage!Taken(command["disk"])]
      /\ status' = [status EXCEPT !["disk"] = IF command["disk"].left = 1 THEN "idle" ELSE "busy"]
      /\ nth' = nth + 1 /\ diskPc' = IF nth' = diskOp.left THEN "end" ELSE "data"
  BY DEF Storage!Data
<1>2. /\ InRange /\ nth < diskOp.left /\ diskBuffer = SectorsRead(nth) /\ Told("read", nth)
      /\ command["cd"].kind # "store" /\ nth \in Nat /\ DOMAIN command = Drives
      /\ image \in [0..(Sectors - 1) -> Values]
      /\ chosen[Storage!Bus("disk")] = "disk" /\ Attached("disk")
  BY <1>1, DiskAttached DEF DiskOK, DiskTypes, Transfer, Buses
<1>3. diskOp.left \in {1, 2} /\ diskOp.lba \in Nat /\ command["disk"].lba = diskOp.lba + nth
      /\ command["disk"].left = diskOp.left - nth
  BY <1>2 DEF InRange, Told
<1>4. DiskTypes' /\ Buses'
  <2>1. DOMAIN command' = Drives /\ nth' \in Nat /\ diskPc' \in {"end", "data"}
    BY <1>1, <1>2
  <2> DEFINE v == IF command["disk"].left = 1 THEN "idle" ELSE "busy"
  <2>2. v \in {"idle", "busy", "data", "error"} /\ status' = [status EXCEPT !["disk"] = v]
    BY <1>1
  <2> HIDE DEF v
  <2>3. QED
    BY <1>1, <1>2, <2>1, <2>2, DriveKeeps DEF Drives
<1>5. diskBuffer' = SectorsRead(nth + 1)
  <2> DEFINE b == diskBuffer
             a == diskOp.lba
  <2>1. \A i \in 1..nth : b[i] = image[a + i - 1]
    BY <1>2 DEF SectorsRead
  <2>2. Len(b) = nth /\ DOMAIN b = 1..nth /\ b = [i \in 1..nth |-> image[a + i - 1]]
    BY <1>2 DEF SectorsRead
  <2>3. diskBuffer' = [i \in 1..(nth + 1) |-> IF i = nth + 1 THEN image[a + nth] ELSE b[i]]
    <3>1. b \in Seq(Values)
      <4>1. \A i \in 1..nth : b[i] \in Values
        <5> SUFFICES ASSUME NEW i \in 1..nth
                     PROVE  b[i] \in Values
          OBVIOUS
        <5>1. i \in 1..diskOp.left
          BY <1>2, <1>3
        <5>2. a + i - 1 \in 0..(Sectors - 1)
          BY <1>2, <1>3, <5>1, SectorOf DEF InRange
        <5>3. QED
          BY <1>2, <2>1, <5>2
      <4>2. QED
        BY <1>2, <2>2, <4>1
    <3>2. image[a + nth] \in Values
      <4>1. a + nth \in 0..(Sectors - 1)
        BY <1>2, <1>3, DiskAssumption DEF InRange
      <4>2. QED
        BY <1>2, <4>1
    <3> DEFINE w == image[a + nth]
    <3>3. diskBuffer' = Append(b, w)
      BY <1>1, <1>3
    <3> HIDE DEF b, w, a
    <3>4. /\ Append(b, w) \in Seq(Values) /\ Len(Append(b, w)) = nth + 1
          /\ Append(b, w)[nth + 1] = w /\ \A i \in 1..nth : Append(b, w)[i] = b[i]
      BY <2>2, <3>1, <3>2, AppendProperties DEF w
    <3>5. Append(b, w) = [i \in 1..(nth + 1) |-> Append(b, w)[i]]
      BY <3>4, SequenceDomain
    <3>6. \A i \in 1..(nth + 1) : Append(b, w)[i] = IF i = nth + 1 THEN w ELSE b[i]
      <4> SUFFICES ASSUME NEW i \in 1..(nth + 1)
                   PROVE  Append(b, w)[i] = IF i = nth + 1 THEN w ELSE b[i]
        OBVIOUS
      <4>1. i # nth + 1 => i \in 1..nth
        BY <1>2
      <4>2. QED
        BY <3>4, <4>1
    <3>7. QED
      BY <3>3, <3>5, <3>6 DEF w
  <2>4. \A i \in 1..(nth + 1) : (IF i = nth + 1 THEN image[a + nth] ELSE b[i]) = image[a + i - 1]
    <3> SUFFICES ASSUME NEW i \in 1..(nth + 1)
                 PROVE  (IF i = nth + 1 THEN image[a + nth] ELSE b[i]) = image[a + i - 1]
      OBVIOUS
    <3>1. i = nth + 1 => a + i - 1 = a + nth
      BY <1>2, <1>3
    <3>2. i # nth + 1 => i \in 1..nth
      BY <1>2
    <3>3. QED
      BY <2>1, <3>1, <3>2
  <2>5. QED
    BY <2>3, <2>4 DEF SectorsRead
<1>6. Told("read", nth)'
  <2>1. /\ command'["disk"].kind = command["disk"].kind
        /\ command'["disk"].lba = command["disk"].lba + 1
        /\ command'["disk"].left = command["disk"].left - 1
    BY <1>1, <1>2 DEF Drives, Storage!Taken
  <2>2. \A l, m, t \in Int : (l + m) + 1 = l + (m + 1) /\ (t - m) - 1 = t - (m + 1)
    OBVIOUS
  <2>3. diskOp.left \in Int /\ nth \in Int /\ diskOp.lba \in Int
    BY <1>2, <1>3
  <2>4. /\ command'["disk"].kind = "read"
        /\ command'["disk"].lba = diskOp.lba + (nth + 1)
        /\ command'["disk"].left = diskOp.left - (nth + 1)
    BY <1>2, <1>3, <2>1, <2>2, <2>3 DEF Told
  <2>5. QED
    BY <1>1, <2>4 DEF Told
<1>7. (\A m : SectorsRead(m)' = SectorsRead(m)) /\ InRange'
  <2>1. InRange'
    BY <1>1, <1>2 DEF InRange
  <2>2. QED
    BY <1>1, <2>1 DEF SectorsRead
<1>8. command'["cd"] = command["cd"] /\ command'["disk"].kind # "store"
  BY <1>1, <1>2, <1>6 DEF Drives, Told
<1>9. diskPc' = "data" => nth + 1 < diskOp.left
  BY <1>1, <1>2, <1>3
<1>10. Transfer'
  <2>1. CASE nth + 1 = diskOp.left
    BY <1>1, <1>2, <1>5, <1>7, <1>8, <2>1 DEF Transfer
  <2>2. CASE nth + 1 # diskOp.left
    BY <1>1, <1>2, <1>5, <1>6, <1>7, <1>8, <1>9, <2>2 DEF Transfer
  <2>3. QED
    BY <2>1, <2>2
<1>11. QED
  BY <1>4, <1>10 DEF DiskOK

LEMMA WriteData ==
  ASSUME DiskOK, Storage!Data, status["disk"] = "data", diskOp.kind = "write"
  PROVE  DiskOK'
<1>1. /\ diskPc = "data" /\ UNCHANGED <<attached, chosen, image, diskOp, diskBuffer, diskResult, erred>>
      /\ Storage!found' = Storage!found
      /\ status' = [status EXCEPT !["disk"] = "busy"]
      /\ command' = [command EXCEPT !["disk"] =
                       [kind |-> "store", lba |-> command["disk"].lba, left |-> command["disk"].left,
                        value |-> diskBuffer[nth + 1]]]
      /\ nth' = nth + 1 /\ diskPc' = "settle"
  BY DEF Storage!Data
<1>2. /\ InRange /\ nth < diskOp.left /\ Stored(nth) /\ Told("write", nth)
      /\ command["cd"].kind # "store" /\ nth \in Nat /\ DOMAIN command = Drives
      /\ image \in [0..(Sectors - 1) -> Values] /\ status \in [Drives -> {"idle", "busy", "data", "error"}]
      /\ chosen[Storage!Bus("disk")] = "disk" /\ Attached("disk")
  BY <1>1, DiskAttached DEF DiskOK, DiskTypes, Transfer, Buses
<1>3. diskOp.left \in {1, 2} /\ diskOp.lba \in Nat
  BY <1>2 DEF InRange
<1>4. DiskTypes' /\ Buses'
  <2>1. DOMAIN command' = Drives /\ nth' \in Nat
    BY <1>1, <1>2
  <2>2. QED
    BY <1>1, <1>2, <2>1, DriveKeeps DEF Drives
<1>5. (nth + 1) - 1 = nth /\ nth + 1 \in 1..diskOp.left
  BY <1>2, <1>3
<1>6. Stored(nth - 1)'
  BY <1>1, <1>2, <1>5 DEF Stored
<1>7. /\ command'["disk"].kind = "store" /\ command'["disk"].lba = command["disk"].lba
      /\ command'["disk"].left = command["disk"].left
      /\ command'["disk"].value = diskBuffer[nth + 1]
      /\ command'["cd"] = command["cd"] /\ status'["disk"] = "busy"
  BY <1>1, <1>2 DEF Drives
<1>8. Told("store", nth - 1)'
  BY <1>1, <1>2, <1>5, <1>7 DEF Told
<1>9. /\ InRange' /\ command'["disk"].value = diskOp'.data[nth'] /\ command'["disk"].value \in Values
  <2>1. nth + 1 \in 1..2
    BY <1>3, <1>5
  <2>2. QED
    BY <1>1, <1>2, <1>7, <2>1 DEF InRange
<1>10. Transfer'
  <2>1. /\ command'["cd"].kind # "store" /\ diskOp'.kind = "write" /\ nth' \in 1..diskOp'.left
        /\ Stored(nth - 1)' /\ Told("store", nth - 1)'
    BY <1>1, <1>2, <1>5, <1>6, <1>7, <1>8
  <2>2. QED
    BY <1>1, <1>7, <1>9, <2>1 DEF Transfer
<1>11. QED
  BY <1>4, <1>10 DEF DiskOK

LEMMA DataStep ==
  ASSUME DiskOK, Storage!Data
  PROVE  DiskOK'
<1>1. diskPc = "data" /\ UNCHANGED <<attached, chosen, image, erred>> /\ Storage!found' = Storage!found
  BY DEF Storage!Data
<1>2. CASE status["disk"] = "data"
  <2>1. diskOp.kind \in {"read", "write"}
    BY <1>1 DEF DiskOK, Transfer
  <2>2. QED
    BY <1>2, <2>1, ReadData, WriteData
<1>3. CASE status["disk"] # "data"
  <2>1. Storage!Fails /\ UNCHANGED <<status, command>>
    BY <1>3 DEF Storage!Data
  <2>2. QED
    BY <1>1, <2>1, FailsStep
<1>4. QED
  BY <1>2, <1>3

(* The last sector may be lost, when an error was.                           *)
LEMMA SettleStep ==
  ASSUME DiskOK, Storage!Settle
  PROVE  DiskOK'
<1>1. /\ diskPc = "settle" /\ UNCHANGED <<attached, chosen, status, command, image, erred>>
      /\ Storage!found' = Storage!found
  BY DEF Storage!Settle, Storage!lines
<1>2. CASE status["disk"] # "busy"
  <2>1. /\ diskPc' = (IF nth < diskOp.left THEN "data" ELSE "flush")
        /\ UNCHANGED <<diskOp, nth, diskBuffer, diskResult>>
    BY <1>2 DEF Storage!Settle, Storage!call
  <2>2. /\ DiskTypes /\ Buses /\ InRange /\ diskOp.kind = "write" /\ nth \in 1..diskOp.left
        /\ status["disk"] \in {"idle", "data"} => Stored(nth) /\ Told("write", nth)
        /\ status["disk"] = "error" => Stored(nth - 1) /\ erred
        /\ command["cd"].kind # "store" /\ nth \in Nat /\ diskOp.left \in {1, 2}
        /\ (command["disk"].kind = "store" => command["disk"].value \in Values)
    BY <1>1 DEF DiskOK, DiskTypes, Transfer, InRange
  <2>3. status["disk"] \in {"idle", "data", "error"}
    BY <1>2, <2>2 DEF DiskTypes, Drives
  <2>4. DiskTypes' /\ Buses'
    <3> DEFINE v == status["disk"]
    <3>1. v \in {"idle", "busy", "data", "error"} /\ v # "busy"
      BY <2>3
    <3>2. status' = [status EXCEPT !["disk"] = v]
      BY <1>1, <2>2 DEF DiskTypes
    <3>3. DOMAIN command' = Drives /\ image' \in [0..(Sectors - 1) -> Values] /\ nth' \in Nat
      BY <1>1, <2>1, <2>2 DEF DiskTypes
    <3> HIDE DEF v
    <3>4. QED
      BY <1>1, <2>1, <3>1, <3>2, <3>3, DriveKeeps DEF Drives
  <2>5. InRange'
    BY <2>1, <2>2 DEF InRange
  <2>6. (Stored(nth) => Stored(nth)') /\ (Told("write", nth) => Told("write", nth)')
    BY <1>1, <2>1 DEF Stored, Told
  <2>7. CASE nth < diskOp.left
    <3>1. diskPc' = "data" /\ diskOp'.kind = "write" /\ nth' < diskOp'.left /\ command'["cd"].kind # "store"
      BY <1>1, <2>1, <2>2, <2>7
    <3>2. status'["disk"] \in {"busy", "data"} => Stored(nth)' /\ Told("write", nth)'
      BY <1>1, <2>2, <2>3, <2>6
    <3>3. Transfer'
      BY <1>1, <2>2, <2>5, <3>1, <3>2 DEF Transfer
    <3>4. QED
      BY <2>4, <3>3 DEF DiskOK
  <2>8. CASE ~(nth < diskOp.left)
    <3>1. nth = diskOp.left
      BY <2>2, <2>8
    <3>2. Written
      <4>1. CASE status["disk"] = "error"
        BY <2>2, <3>1, <4>1 DEF Written
      <4>2. CASE status["disk"] # "error"
        <5>1. Stored(diskOp.left)
          BY <2>2, <2>3, <3>1, <4>2
        <5>2. 1..(diskOp.left - 1) \subseteq 1..diskOp.left
          BY <2>2
        <5>3. QED
          BY <5>1, <5>2 DEF Written, Stored
      <4>3. QED
        BY <4>1, <4>2
    <3>3. Written'
      BY <1>1, <2>1, <3>2 DEF Written, Stored
    <3>4. QED
      BY <1>1, <1>2, <2>1, <2>2, <2>4, <2>5, <2>8, <3>3 DEF Transfer, DiskOK
  <2>9. QED
    BY <2>4, <2>7, <2>8 DEF DiskOK
<1>3. CASE status["disk"] = "busy"
  <2>1. Storage!Fails
    BY <1>3 DEF Storage!Settle
  <2>2. QED
    BY <1>1, <2>1, FailsStep
<1>4. QED
  BY <1>2, <1>3

LEMMA DiskReturnStep ==
  ASSUME DiskOK, Storage!Return
  PROVE  DiskOK'
<1>1. /\ diskPc = "end" /\ diskPc' = "idle"
      /\ UNCHANGED <<attached, chosen, status, command, image, diskOp, nth, diskBuffer, diskResult, erred>>
      /\ Storage!found' = Storage!found
  BY DEF Storage!Return, Storage!call, Storage!lines, Storage!found
<1>2. /\ UNCHANGED <<drives, boot, cdrom, place>> /\ DiskTypes /\ Buses /\ Transfer
      /\ (\A k : Storage!Bus(k)' = Storage!Bus(k)) /\ (\A k \in Drives : Attached(k)' = Attached(k))
  BY <1>1, SameDrives DEF DiskOK
<1>3. DiskTypes'
  BY <1>1, <1>2 DEF DiskTypes
<1>4. Buses'
  <2>1. \A i \in 1..Len(drives') : \E s \in Spots : attached'[s] = drives'[i]
    BY <1>1, <1>2 DEF Buses, Attached
  <2>2. QED
    BY <1>1, <1>2, <2>1 DEF Buses, Attached
<1>5. Transfer'
  BY <1>1, <1>2 DEF Transfer
<1>6. QED
  BY <1>3, <1>4, <1>5 DEF DiskOK

(* An attempt that fails asks for the same sector again.                     *)
LEMMA CdFailsStep ==
  ASSUME DiskOK, Storage!CdFails, UNCHANGED <<attached, chosen, status, command, image>>,
         Storage!found' = Storage!found, diskPc \in {"sector", "packet"}
  PROVE  DiskOK'
<1>1. /\ UNCHANGED <<diskOp, nth, diskBuffer>>
      /\ diskPc' = "sector" \/ (diskPc' = "end" /\ diskResult' = -1)
  BY DEF Storage!CdFails
<1>2. /\ UNCHANGED <<drives, boot, cdrom, place>> /\ DiskTypes /\ Buses /\ Transfer /\ cdrom # 0
      /\ (\A k : Storage!Bus(k)' = Storage!Bus(k)) /\ (\A k \in Drives : Attached(k)' = Attached(k))
  BY SameDrives DEF DiskOK, Buses
<1>3. DiskTypes'
  BY <1>1, <1>2 DEF DiskTypes
<1>4. Buses'
  <2>1. \A i \in 1..Len(drives') : \E s \in Spots : attached'[s] = drives'[i]
    BY <1>2 DEF Buses, Attached
  <2>2. QED
    BY <1>1, <1>2, <2>1 DEF Buses, Attached
<1>5. SlicesRead(nth)' = SlicesRead(nth)
  BY <1>1 DEF SlicesRead, Storage!CdSector
<1>6. Transfer'
  BY <1>1, <1>2, <1>5 DEF Transfer
<1>7. QED
  BY <1>3, <1>4, <1>6 DEF DiskOK

LEMMA CdSelectStep ==
  ASSUME DiskOK, Storage!CdSelect
  PROVE  DiskOK'
<1>1. diskPc = "sector" /\ UNCHANGED <<attached, image, erred>> /\ Storage!found' = Storage!found
  BY DEF Storage!CdSelect
<1>2. CASE Storage!IsCd /\ Storage!Idle("cd")
  <2> DEFINE c == [kind |-> "cd", lba |-> Storage!CdWanted, left |-> 1]
  <2>1. Storage!Issue("cd", c) /\ diskPc' = "packet" /\ UNCHANGED <<diskOp, nth, diskBuffer, diskResult>>
    BY <1>2 DEF Storage!CdSelect, Storage!call
  <2>2. /\ diskOp.kind = "cd" /\ diskOp.left \in {1, 2} /\ diskOp.lba \in Nat
        /\ nth < diskOp.left /\ diskBuffer = SlicesRead(nth) /\ cdrom # 0
    BY <1>1 DEF DiskOK, Transfer, Buses
  <2>3. Attached("cd")
    <3>1. cdrom <= Len(drives) /\ drives[cdrom] = "cd"
      BY <1>2 DEF Storage!IsCd
    <3>2. cdrom \in 1..Len(drives)
      BY <2>2, <3>1 DEF DiskOK, DiskTypes
    <3>3. Attached(drives[cdrom])
      BY <3>2 DEF DiskOK, Buses
    <3>4. QED
      BY <3>1, <3>3
  <2>4. c.kind = "cd" /\ c.lba = Storage!CdWanted
    OBVIOUS
  <2> HIDE DEF c
  <2>5. DiskTypes' /\ Buses' /\ command'["cd"] = c /\ command'["disk"] = command["disk"]
        /\ (command["disk"].kind = "store" => command["disk"].value \in Values)
    BY <1>1, <1>2, <2>1, <2>2, <2>3, IssueKeeps DEF Drives, DiskOK, Transfer
  <2>6. SlicesRead(nth)' = SlicesRead(nth) /\ Storage!CdWanted' = Storage!CdWanted
    BY <2>1 DEF SlicesRead, Storage!CdWanted, Storage!CdSector
  <2>7. Transfer'
    BY <2>1, <2>2, <2>4, <2>5, <2>6 DEF Transfer
  <2>8. QED
    BY <2>5, <2>7 DEF DiskOK
<1>3. CASE ~(Storage!IsCd /\ Storage!Idle("cd"))
  <2>1. Storage!CdFails /\ UNCHANGED <<chosen, status, command>>
    BY <1>3 DEF Storage!CdSelect
  <2>2. QED
    BY <1>1, <2>1, CdFailsStep
<1>4. QED
  BY <1>2, <1>3

(* A sequence and the rest of it.                                            *)
LEMMA Joined ==
  ASSUME NEW S, NEW f \in [Nat -> S], NEW a \in Nat, NEW b \in Nat
  PROVE  [i \in 1..a |-> f[i]] \o [i \in 1..b |-> f[a + i]] = [i \in 1..(a + b) |-> f[i]]
<1> DEFINE s == [i \in 1..a |-> f[i]]
           t == [i \in 1..b |-> f[a + i]]
<1>1. s \in Seq(S) /\ Len(s) = a
  OBVIOUS
<1>2. t \in Seq(S) /\ Len(t) = b
  <2>1. \A i \in 1..b : f[a + i] \in S
    <3>1. \A i \in 1..b : a + i \in Nat
      OBVIOUS
    <3>2. QED
      BY <3>1
  <2>2. QED
    BY <2>1
<1>3. (\A i \in 1..a : s[i] = f[i]) /\ (\A i \in 1..b : t[i] = f[a + i])
  OBVIOUS
<1> HIDE DEF s, t
<1>4. /\ s \o t \in Seq(S) /\ Len(s \o t) = Len(s) + Len(t)
      /\ \A i \in 1..(Len(s) + Len(t)) : (s \o t)[i] = IF i <= Len(s) THEN s[i] ELSE t[i - Len(s)]
  BY <1>1, <1>2, ConcatProperties
<1>5. s \o t = [i \in 1..(a + b) |-> (s \o t)[i]]
  BY <1>1, <1>2, <1>4, SequenceDomain
<1>6. ASSUME NEW i \in 1..(a + b)
      PROVE  (s \o t)[i] = f[i]
  <2>1. (s \o t)[i] = IF i <= a THEN s[i] ELSE t[i - a]
    BY <1>1, <1>2, <1>4
  <2>2. CASE i <= a
    <3>1. i \in 1..a
      BY <2>2
    <3>2. QED
      BY <1>3, <2>1, <2>2, <3>1
  <2>3. CASE ~(i <= a)
    <3>1. i - a \in 1..b /\ a + (i - a) = i
      BY <2>3
    <3>2. QED
      BY <1>3, <2>1, <2>3, <3>1
  <2>4. QED
    BY <2>2, <2>3
<1>7. s \o t = [i \in 1..(a + b) |-> f[i]]
  BY <1>5, <1>6
<1>8. QED
  BY <1>7 DEF s, t

LEMMA CdReadStep ==
  ASSUME DiskOK, Storage!CdRead
  PROVE  DiskOK'
<1>1. /\ diskPc = "packet" /\ UNCHANGED <<attached, chosen, command, image, erred>>
      /\ Storage!found' = Storage!found
  BY DEF Storage!CdRead
<1>2. CASE status["cd"] # "data"
  <2>1. Storage!CdFails /\ UNCHANGED status
    BY <1>2 DEF Storage!CdRead
  <2>2. QED
    BY <1>1, <2>1, CdFailsStep
<1>3. CASE status["cd"] = "data"
  <2> DEFINE m == Storage!Cardinality(Storage!SlicesHere)
  <2>1. /\ diskBuffer' = diskBuffer \o [i \in 1..m |->
                             <<command["cd"].lba, (diskOp.lba + nth + i - 1) % Slices>>]
        /\ nth' = nth + m /\ diskPc' = IF nth' = diskOp.left THEN "end" ELSE "sector"
        /\ status' = [status EXCEPT !["cd"] = "idle"] /\ UNCHANGED <<diskOp, diskResult>>
    BY <1>3 DEF Storage!CdRead
  <2>2. /\ diskOp.kind = "cd" /\ diskOp.left \in {1, 2} /\ diskOp.lba \in Nat /\ nth \in Nat
        /\ nth < diskOp.left /\ diskBuffer = SlicesRead(nth)
        /\ command["cd"].lba = Storage!CdWanted /\ command["cd"].kind # "store"
        /\ (command["disk"].kind = "store" => command["disk"].value \in Values)
        /\ DOMAIN command = Drives /\ image \in [0..(Sectors - 1) -> Values]
    BY <1>1 DEF DiskOK, Transfer, DiskTypes
  <2>3. /\ m \in Nat /\ 1 <= m /\ nth + m <= diskOp.left
        /\ \A i \in 1..m : Storage!CdSector(diskOp.lba + (nth + i) - 1) = Storage!CdWanted
    <3>1. nth..(diskOp.left - 1) \in {{0}, {1}, {0, 1}} /\ nth \in nth..(diskOp.left - 1)
      BY <2>2
    <3>2. nth \in Storage!SlicesHere /\ Storage!SlicesHere \subseteq nth..(diskOp.left - 1)
      BY <3>1 DEF Storage!SlicesHere, Storage!CdWanted
    <3>3. CASE Storage!SlicesHere = {nth}
      <4>1. m = 1
        BY <3>3, FS_Singleton DEF Storage!Cardinality, Cardinality
      <4>2. 1..1 = {1} /\ diskOp.lba + (nth + 1) - 1 = diskOp.lba + nth /\ nth + 1 <= diskOp.left
        BY <2>2
      <4> HIDE DEF m
      <4>3. QED
        BY <4>1, <4>2 DEF Storage!CdWanted
    <3>4. CASE Storage!SlicesHere # {nth}
      <4>1. nth = 0 /\ diskOp.left = 2 /\ Storage!SlicesHere = {0, 1}
        <5>1. CASE nth = 0 /\ diskOp.left = 2
          <6>1. nth..(diskOp.left - 1) = {0, 1}
            BY <5>1
          <6>2. QED
            BY <3>2, <3>4, <5>1, <6>1
        <5>2. CASE ~(nth = 0 /\ diskOp.left = 2)
          <6>1. nth..(diskOp.left - 1) = {nth}
            BY <2>2, <5>2
          <6>2. QED
            BY <3>2, <3>4, <6>1
        <5>3. QED
          BY <5>1, <5>2
      <4>2. m = 2
        <5>1. IsFiniteSet({0}) /\ Cardinality({0}) = 1
          BY FS_Singleton
        <5>2. Cardinality({0} \cup {1}) = Cardinality({0}) + 1
          BY <5>1, FS_AddElement
        <5>3. {0, 1} = {0} \cup {1}
          OBVIOUS
        <5>4. Cardinality({0, 1}) = 2
          BY <5>1, <5>2, <5>3
        <5>5. QED
          BY <4>1, <5>4 DEF Storage!Cardinality, Cardinality
      <4>3. 1..2 = {1, 2} /\ diskOp.lba + (nth + 1) - 1 = diskOp.lba + nth
            /\ diskOp.lba + (nth + 2) - 1 = diskOp.lba + 1
        BY <2>2, <4>1
      <4>4. 1 \in Storage!SlicesHere
        BY <4>1
      <4>5. Storage!CdSector(diskOp.lba + 1) = Storage!CdWanted
        BY <4>4 DEF Storage!SlicesHere
      <4> HIDE DEF m
      <4>6. QED
        BY <4>1, <4>2, <4>3, <4>5 DEF Storage!CdWanted
    <3>5. QED
      BY <3>3, <3>4
  <2> HIDE DEF m
  <2>4. diskBuffer' = SlicesRead(nth + m)
    <3> DEFINE e(i) == <<Storage!CdSector(diskOp.lba + i - 1), (diskOp.lba + i - 1) % Slices>>
               f == [i \in Nat |-> e(i)]
               S == {e(i) : i \in Nat}
    <3>1. f \in [Nat -> S]
      OBVIOUS
    <3>2. diskBuffer = [i \in 1..nth |-> f[i]] /\ SlicesRead(nth + m) = [i \in 1..(nth + m) |-> f[i]]
      <4>1. \A i \in Nat : f[i] = e(i)
        OBVIOUS
      <4>2. (\A i \in 1..nth : i \in Nat) /\ (\A i \in 1..(nth + m) : i \in Nat)
        BY <2>2, <2>3
      <4>3. SlicesRead(nth) = [i \in 1..nth |-> e(i)] /\ SlicesRead(nth + m) = [i \in 1..(nth + m) |-> e(i)]
        BY DEF SlicesRead
      <4> HIDE DEF f, e
      <4>4. QED
        BY <2>2, <4>1, <4>2, <4>3
    <3>3. \A i \in 1..m : <<command["cd"].lba, (diskOp.lba + nth + i - 1) % Slices>> = f[nth + i]
      <4> SUFFICES ASSUME NEW i \in 1..m
                   PROVE  <<command["cd"].lba, (diskOp.lba + nth + i - 1) % Slices>> = f[nth + i]
        OBVIOUS
      <4>1. nth + i \in Nat /\ diskOp.lba + nth + i - 1 = diskOp.lba + (nth + i) - 1
        BY <2>2, <2>3
      <4>2. f[nth + i] = e(nth + i)
        BY <4>1
      <4>3. Storage!CdSector(diskOp.lba + (nth + i) - 1) = command["cd"].lba
        BY <2>2, <2>3
      <4> HIDE DEF f
      <4>4. QED
        BY <4>1, <4>2, <4>3
    <3> HIDE DEF f, S
    <3>4. diskBuffer' = [i \in 1..nth |-> f[i]] \o [i \in 1..m |-> f[nth + i]]
      BY <2>1, <3>2, <3>3
    <3>5. [i \in 1..nth |-> f[i]] \o [i \in 1..m |-> f[nth + i]] = [i \in 1..(nth + m) |-> f[i]]
      BY <2>2, <2>3, <3>1, Joined
    <3>6. QED
      BY <3>2, <3>4, <3>5
  <2>5. nth' \in Nat /\ diskPc' \in {"end", "sector"} /\ (diskPc' = "sector" => nth' < diskOp.left)
    <3>1. nth + m \in Nat /\ (nth + m # diskOp.left => nth + m < diskOp.left)
      BY <2>2, <2>3
    <3>2. QED
      BY <2>1, <3>1
  <2>6. DiskTypes' /\ Buses'
    <3>1. DOMAIN command' = Drives /\ image' \in [0..(Sectors - 1) -> Values]
      BY <1>1, <2>2
    <3>2. QED
      BY <1>1, <2>1, <2>5, <3>1, DriveKeeps DEF Drives
  <2>7. diskBuffer' = SlicesRead(nth)'
    <3>1. \A t : SlicesRead(t)' = SlicesRead(t)
      BY <2>1 DEF SlicesRead, Storage!CdSector
    <3>2. diskBuffer' = [i \in 1..(nth + m) |-> <<Storage!CdSector(diskOp.lba + i - 1), (diskOp.lba + i - 1) % Slices>>]
      BY <2>4 DEF SlicesRead
    <3>3. QED
      BY <2>1, <3>2 DEF SlicesRead, Storage!CdSector
  <2>8. diskPc' = "end" => diskBuffer' = SlicesRead(diskOp.left)'
    BY <2>1, <2>7 DEF SlicesRead
  <2>9. Transfer'
    BY <1>1, <2>1, <2>2, <2>5, <2>7, <2>8 DEF Transfer
  <2>10. QED
    BY <2>6, <2>9 DEF DiskOK
<1>4. QED
  BY <1>2, <1>3

(* A drive that stores a sector stores the one that was sent.                *)
LEMMA WorkStep ==
  ASSUME DiskOK, NEW k \in Drives, Storage!Work(k)
  PROVE  DiskOK'
<1>1. /\ status[k] = "busy"
      /\ UNCHANGED <<attached, chosen, diskPc, diskOp, nth, diskBuffer, diskResult>>
      /\ Storage!found' = Storage!found
  BY DEF Storage!Work, Storage!call
<1>2. /\ DiskTypes /\ Buses /\ Transfer /\ DOMAIN command = Drives /\ nth \in Nat
      /\ image \in [0..(Sectors - 1) -> Values] /\ status \in [Drives -> {"idle", "busy", "data", "error"}]
      /\ diskPc # "search" /\ command["cd"].kind # "store"
  <2>1. diskPc # "search"
    BY <1>1 DEF DiskOK, Buses
  <2>2. QED
    BY <2>1 DEF DiskOK, DiskTypes, Transfer
<1>3. /\ InRange' = InRange
      /\ \A m : SlicesRead(m)' = SlicesRead(m)
      /\ Storage!CdWanted' = Storage!CdWanted
  BY <1>1 DEF InRange, SlicesRead, Storage!CdWanted, Storage!CdSector
<1>4. CASE status' = [status EXCEPT ![k] = "error"] /\ erred' = TRUE /\ UNCHANGED <<command, image>>
  <2>1. DiskTypes' /\ Buses'
    BY <1>1, <1>2, <1>4, DriveKeeps
  <2>2. status'[k] = "error" /\ \A d \in Drives : d # k => status'[d] = status[d]
    BY <1>2, <1>4
  <2>3. /\ \A m : SectorsRead(m)' = SectorsRead(m)
        /\ Stored(nth)' = Stored(nth) /\ Stored(nth - 1)' = Stored(nth - 1)
        /\ \A c \in {"read", "write"} : Told(c, nth)' = Told(c, nth)
        /\ Told("store", nth - 1)' = Told("store", nth - 1)
        /\ Written => Written'
    BY <1>1, <1>4 DEF SectorsRead, Stored, Told, Written
  <2>4. Transfer'
    <3>1. diskPc = "ready" => Transfer'
      BY <1>1, <1>2, <1>3, <1>4 DEF Transfer
    <3>2. diskPc = "data" => Transfer'
      BY <1>1, <1>2, <1>3, <1>4, <2>2, <2>3 DEF Transfer, Drives
    <3>3. diskPc = "settle" => Transfer'
      BY <1>1, <1>2, <1>3, <1>4, <2>2, <2>3 DEF Transfer, Drives
    <3>4. diskPc = "flush" => Transfer'
      BY <1>1, <1>2, <1>3, <1>4, <2>2, <2>3 DEF Transfer, Drives
    <3>5. diskPc \in {"sector", "packet"} => Transfer'
      BY <1>1, <1>2, <1>3, <1>4 DEF Transfer
    <3>6. diskPc = "end" => Transfer'
      <4>1. /\ SectorsRead(diskOp.left)' = SectorsRead(diskOp.left)
            /\ SlicesRead(diskOp.left)' = SlicesRead(diskOp.left)
        BY <1>1, <1>3, <1>4, <2>3 DEF SectorsRead, SlicesRead
      <4>2. UNCHANGED <<diskPc, diskOp, diskBuffer, diskResult, command>>
        BY <1>1, <1>4
      <4>3. QED
        BY <1>2, <2>3, <4>1, <4>2 DEF Transfer
    <3>7. diskPc = "idle" => Transfer'
      BY <1>1, <1>2, <1>4 DEF Transfer
    <3>8. QED
      BY <1>2, <3>1, <3>2, <3>3, <3>4, <3>5, <3>6, <3>7 DEF DiskTypes
  <2>5. QED
    BY <2>1, <2>4 DEF DiskOK
<1>5. CASE /\ command[k].kind = "store"
           /\ image' = [image EXCEPT ![command[k].lba] = command[k].value]
           /\ command' = [command EXCEPT ![k] =
                            [kind |-> "write", lba |-> command[k].lba + 1, left |-> command[k].left - 1]]
           /\ status' = [status EXCEPT ![k] = IF command[k].left = 1 THEN "idle" ELSE "data"]
           /\ erred' = erred
  <2>1. k = "disk"
    BY <1>2, <1>5 DEF Drives
  <2>2. CASE diskPc = "settle"
    <3>1. /\ InRange /\ diskOp.kind = "write" /\ nth \in 1..diskOp.left
          /\ Stored(nth - 1) /\ Told("store", nth - 1) /\ command["disk"].value = diskOp.data[nth]
      BY <1>1, <1>2, <2>1, <2>2 DEF Transfer
    <3>2. /\ diskOp.left \in {1, 2} /\ diskOp.lba \in Nat /\ diskOp.lba + diskOp.left <= Sectors
          /\ diskOp.data \in [1..2 -> Values]
          /\ command["disk"].lba = diskOp.lba + (nth - 1) /\ command["disk"].left = diskOp.left - (nth - 1)
      BY <3>1 DEF InRange, Told
    <3>3. diskOp.lba + (nth - 1) = diskOp.lba + nth - 1 /\ diskOp.lba + nth - 1 \in 0..(Sectors - 1)
      BY <3>1, <3>2, SectorOf
    <3>4. /\ image' \in [0..(Sectors - 1) -> Values] /\ image'[diskOp.lba + nth - 1] = diskOp.data[nth]
          /\ \A s \in 0..(Sectors - 1) : s # diskOp.lba + nth - 1 => image'[s] = image[s]
      <4>1. nth \in 1..2
        BY <3>1, <3>2
      <4>2. image' = [image EXCEPT ![diskOp.lba + nth - 1] = diskOp.data[nth]]
        BY <1>5, <2>1, <3>1, <3>2, <3>3
      <4>3. QED
        BY <1>2, <3>2, <3>3, <4>1, <4>2
    <3>5. Stored(nth)'
      <4> SUFFICES ASSUME NEW i \in 1..nth
                   PROVE  image'[diskOp.lba + i - 1] = diskOp.data[i]
        BY <1>1 DEF Stored
      <4>1. CASE i = nth
        BY <3>4, <4>1
      <4>2. CASE i # nth
        <5>1. i \in 1..(nth - 1) /\ i \in 1..diskOp.left
          BY <1>2, <3>1, <3>2, <4>2
        <5>2. diskOp.lba + i - 1 \in 0..(Sectors - 1) /\ diskOp.lba + i - 1 # diskOp.lba + nth - 1
          BY <3>1, <3>2, <4>2, <5>1, SectorOf
        <5>3. image[diskOp.lba + i - 1] = diskOp.data[i]
          BY <3>1, <5>1 DEF Stored
        <5>4. QED
          BY <3>4, <5>2, <5>3
      <4>3. QED
        BY <4>1, <4>2
    <3>6. /\ command'["disk"].kind = "write" /\ command'["disk"].lba = command["disk"].lba + 1
          /\ command'["disk"].left = command["disk"].left - 1 /\ DOMAIN command' = Drives
          /\ command'["cd"] = command["cd"]
      BY <1>2, <1>5, <2>1 DEF Drives
    <3>7. Told("write", nth)'
      <4>1. \A l, t, m \in Int : (l + (m - 1)) + 1 = l + m /\ (t - (m - 1)) - 1 = t - m
        OBVIOUS
      <4>2. diskOp.lba \in Int /\ diskOp.left \in Int /\ nth \in Int
        BY <1>2, <3>2
      <4>3. command'["disk"].lba = diskOp.lba + nth /\ command'["disk"].left = diskOp.left - nth
        BY <3>2, <3>6, <4>1, <4>2
      <4>4. QED
        BY <1>1, <3>6, <4>3 DEF Told
    <3> DEFINE v == IF command[k].left = 1 THEN "idle" ELSE "data"
    <3>8. v \in {"idle", "data"} /\ status' = [status EXCEPT ![k] = v]
      BY <1>5
    <3> HIDE DEF v
    <3>9. status'["disk"] \in {"idle", "data"}
      BY <1>2, <2>1, <3>8 DEF Drives
    <3>10. DiskTypes' /\ Buses'
      BY <1>1, <1>2, <3>4, <3>6, <3>8, DriveKeeps
    <3>11. Transfer'
      <4>1. diskPc' = "settle" /\ diskOp'.kind = "write" /\ nth' \in 1..diskOp'.left /\ InRange'
            /\ command'["cd"].kind # "store"
        BY <1>1, <1>2, <1>3, <2>2, <3>1, <3>6
      <4>2. QED
        BY <3>5, <3>6, <3>7, <3>9, <4>1 DEF Transfer
    <3>12. QED
      BY <3>10, <3>11 DEF DiskOK
  <2>3. CASE diskPc # "settle"
    <3>1. /\ diskPc \in {"idle", "ready", "sector", "packet", "end"}
          /\ diskPc = "end" => diskResult # 0 \/ diskOp.kind \notin {"read", "write"}
      <4>1. diskPc # "flush"
        BY <1>1, <1>2, <2>1 DEF Transfer
      <4>2. diskPc # "data"
        BY <1>1, <1>2, <1>5, <2>1 DEF Transfer, Told
      <4>3. diskPc = "end" => diskResult # 0 \/ diskOp.kind \notin {"read", "write"}
        BY <1>2, <1>5, <2>1 DEF Transfer
      <4>4. QED
        BY <1>2, <2>3, <4>1, <4>2, <4>3 DEF DiskTypes
    <3>2. image' \in [0..(Sectors - 1) -> Values] /\ DOMAIN command' = Drives
      <4>1. command[k].value \in Values
        BY <1>2, <1>5, <2>1 DEF Transfer
      <4>2. QED
        BY <1>2, <1>5, <4>1
    <3>3. command'["disk"].kind = "write" /\ command'["cd"] = command["cd"]
      BY <1>2, <1>5, <2>1 DEF Drives
    <3> DEFINE v == IF command[k].left = 1 THEN "idle" ELSE "data"
    <3>4. v \in {"idle", "data"} /\ status' = [status EXCEPT ![k] = v]
      BY <1>5
    <3> HIDE DEF v
    <3>5. DiskTypes' /\ Buses'
      BY <1>1, <1>2, <3>2, <3>4, DriveKeeps
    <3>6. diskOp.kind = "cd" \/ ~(diskPc = "end" /\ diskResult = 0 /\ diskOp.kind \in {"read", "write"})
      BY <3>1
    <3>7. Transfer'
      <4>1. CASE diskPc = "ready"
        BY <1>1, <1>2, <1>3, <3>3, <4>1 DEF Transfer
      <4>2. CASE diskPc \in {"sector", "packet"}
        BY <1>1, <1>2, <1>3, <3>3, <4>2 DEF Transfer
      <4>3. CASE diskPc = "end"
        BY <1>1, <1>2, <1>3, <3>1, <3>3, <4>3 DEF Transfer, SlicesRead
      <4>4. CASE diskPc = "idle"
        BY <1>1, <3>3, <1>2, <4>4 DEF Transfer
      <4>5. QED
        BY <3>1, <4>1, <4>2, <4>3, <4>4
    <3>8. QED
      BY <3>5, <3>7 DEF DiskOK
  <2>4. QED
    BY <2>2, <2>3
<1>6. CASE /\ command[k].kind # "store" /\ UNCHANGED <<command, image, erred>>
           /\ status' = [status EXCEPT ![k] = IF command[k].kind = "none" THEN "idle" ELSE "data"]
  <2> DEFINE v == IF command[k].kind = "none" THEN "idle" ELSE "data"
  <2>1. v \in {"idle", "data"} /\ status' = [status EXCEPT ![k] = v]
    BY <1>6
  <2> HIDE DEF v
  <2>2. DiskTypes' /\ Buses'
    BY <1>1, <1>2, <1>6, <2>1, DriveKeeps
  <2>3. /\ k = "disk" => status["disk"] = "busy"
        /\ k = "cd" => status'["disk"] = status["disk"]
    BY <1>1, <1>2, <1>6 DEF Drives
  <2>4. /\ \A m : SectorsRead(m)' = SectorsRead(m)
        /\ Stored(nth)' = Stored(nth) /\ Stored(nth - 1)' = Stored(nth - 1)
        /\ \A c \in {"read", "write"} : Told(c, nth)' = Told(c, nth)
        /\ Told("store", nth - 1)' = Told("store", nth - 1)
        /\ Written' = Written
    BY <1>1, <1>6 DEF SectorsRead, Stored, Told, Written
  <2>5. CASE k = "disk"
    <3>1. diskPc # "settle" /\ diskPc # "flush"
      BY <1>1, <1>2, <1>6, <2>5 DEF Transfer, Told
    <3>2. diskPc = "data" => Transfer'
      BY <1>1, <1>2, <1>3, <1>6, <2>4, <2>5 DEF Transfer
    <3>3. diskPc \in {"sector", "packet", "ready", "idle"} => Transfer'
      BY <1>1, <1>2, <1>3, <1>6 DEF Transfer
    <3>4. diskPc = "end" => Transfer'
      BY <1>1, <1>2, <1>3, <1>6 DEF Transfer, Written, Stored, SectorsRead, SlicesRead
    <3>5. QED
      BY <1>2, <2>2, <3>1, <3>2, <3>3, <3>4 DEF DiskTypes, DiskOK
  <2>6. CASE k = "cd"
    <3>1. diskPc \in {"data", "settle", "flush"} => Transfer'
      BY <1>1, <1>2, <1>3, <1>6, <2>3, <2>4, <2>6 DEF Transfer
    <3>2. diskPc \in {"sector", "packet", "ready", "idle"} => Transfer'
      BY <1>1, <1>2, <1>3, <1>6 DEF Transfer
    <3>3. diskPc = "end" => Transfer'
      BY <1>1, <1>2, <1>3, <1>6 DEF Transfer, Written, Stored, SectorsRead, SlicesRead
    <3>4. QED
      BY <1>2, <2>2, <3>1, <3>2, <3>3 DEF DiskTypes, DiskOK
  <2>7. QED
    BY <2>5, <2>6 DEF Drives
<1>7. QED
  BY <1>1, <1>4, <1>5, <1>6 DEF Storage!Work

LEMMA DiskKeeps ==
  ASSUME DiskOK, [Storage!Next]_diskVars
  PROVE  DiskOK'
<1>1. CASE Storage!Next
  BY <1>1, SearchStep, SearchEndsStep, CallStep, ReadyStep, DataStep, SettleStep, FlushStep,
     CdSelectStep, CdReadStep, DiskReturnStep, WorkStep DEF Storage!Next, Storage!Kinds, Drives
<1>2. CASE UNCHANGED diskVars
  <2>1. /\ UNCHANGED <<attached, drives, boot, cdrom, place, chosen, status, command, image,
                      diskOp, diskPc, nth, diskBuffer, diskResult, erred>>
    BY <1>2 DEF diskVars
  <2>2. DiskTypes' /\ InRange' = InRange /\ Written' = Written /\ Storage!CdWanted' = Storage!CdWanted
        /\ (\A m : SectorsRead(m)' = SectorsRead(m) /\ SlicesRead(m)' = SlicesRead(m))
        /\ Stored(nth)' = Stored(nth) /\ Stored(nth - 1)' = Stored(nth - 1)
        /\ \A c \in {"read", "write"} : Told(c, nth)' = Told(c, nth)
        /\ Told("store", nth - 1)' = Told("store", nth - 1)
    BY <2>1 DEF DiskOK, DiskTypes, InRange, Written, Stored, SectorsRead, SlicesRead, Told,
                Storage!CdWanted, Storage!CdSector
  <2>3. Buses'
    <3>1. (\A k : Storage!Bus(k)' = Storage!Bus(k)) /\ (\A k \in Drives : Attached(k)' = Attached(k))
      BY <2>1 DEF Storage!Bus, Attached
    <3>2. \A i \in 1..Len(drives') : \E s \in Spots : attached'[s] = drives'[i]
      BY <2>1 DEF DiskOK, Buses, Attached
    <3>3. QED
      BY <2>1, <3>1, <3>2 DEF DiskOK, Buses, Attached
  <2>4. Transfer'
    BY <2>1, <2>2 DEF DiskOK, Transfer, SectorsRead, SlicesRead, Storage!CdSector
  <2>5. QED
    BY <2>2, <2>3, <2>4 DEF DiskOK
<1>3. QED
  BY <1>1, <1>2

LEMMA DiskSteps ==
  ASSUME [DevicesNext]_all
  PROVE  [Storage!Next]_diskVars
BY DEF DevicesNext, all, drivers, stores, services, MouseNext, UsbNext, CardNext,
       NetworkNext, DiskNext, VolumeNext, PicturesNext, SetupNext, TlsNext, HttpNext, WgetNext

(* A read or a write that says it went well did what it was asked for, but   *)
(* perhaps for the last sector of a write when a drive failed; a drive that  *)
(* works is the one its bus has selected, although drives answer late and    *)
(* calls give up on them; and the disk is a disk: the part of ServicesSound  *)
(* that is about the ATA driver.                                             *)
THEOREM TransferIsSound == DevicesSpec => []Storage!DiskSound
<1>1. DevicesInit => DiskOK
  BY DiskInit DEF DevicesInit
<1>2. DiskOK /\ [DevicesNext]_all => DiskOK'
  BY DiskKeeps, DiskSteps
<1>3. DiskOK => Storage!DiskSound
  <2>1. SUFFICES ASSUME DiskOK PROVE Storage!DiskSound
    OBVIOUS
  <2>2. \A k \in Storage!Kinds : status[k] = "busy" => chosen[Storage!Bus(k)] = k
    BY <2>1 DEF DiskOK, Buses, Storage!Kinds, Drives
  <2>3. boot # 0 => boot <= Len(drives) /\ drives[boot] = "disk"
    BY <2>1 DEF DiskOK, Buses
  <2>4. ASSUME diskPc = "end", diskResult = 0
        PROVE  /\ diskOp.kind = "read" => diskBuffer = SectorsRead(diskOp.left)
               /\ diskOp.kind = "write" => Written
               /\ diskOp.kind = "cd" => diskBuffer = SlicesRead(diskOp.left)
    BY <2>1, <2>4 DEF DiskOK, Transfer
  <2>5. Written => \A i \in 1..(IF erred THEN diskOp.left - 1 ELSE diskOp.left) :
                     image[diskOp.lba + i - 1] = diskOp.data[i]
    BY DEF Written, Stored
  <2>6. QED
    BY <2>2, <2>3, <2>4, <2>5 DEF Storage!DiskSound, SectorsRead, SlicesRead
<1>4. QED
  BY <1>1, <1>2, <1>3, PTL DEF DevicesSpec

=============================================================================
