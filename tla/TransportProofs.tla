-------------------------- MODULE TransportProofs --------------------------
(***************************************************************************)
(* The ring of one virtio device is sound for every width of the indices,  *)
(* every ring size and any number of requests.                             *)
(***************************************************************************)
EXTENDS Transport, FiniteSetTheorems, TLAPS

Idx == 0 .. IDX - 1

\* How far index a is ahead of b, and the positions from lo up to hi.
Dist(a, b) == IF b <= a THEN a - b ELSE a + IDX - b
Between(p, lo, hi) == Dist(p, lo) < Dist(hi, lo)

\* Positions of the available ring the device has not popped, and of the used
\* ring the driver has not read.
Waiting(p) == p \in Idx /\ Between(p, next_avail, avail)
Unread(p) == p \in Idx /\ Between(p, seen, used)

Serving == IF request = Nothing THEN 0 ELSE 1

Types ==
    /\ avail \in Idx /\ used \in Idx /\ seen \in Idx /\ next_avail \in Idx /\ answered \in Idx
    /\ ring \in [Slots -> Nat] /\ elements \in [Slots -> Nat]
    /\ size \in 0 .. MaxSize
    /\ made \in Nat /\ request \in Nat /\ inflight \subseteq 1 .. made

\* The device thread is in its loop only over a ready queue, and a queue that is
\* not ready is empty.
Shape ==
    /\ next_used = used
    /\ pc \in {"pop", "element", "index"} => ready
    /\ pc \in {"element", "index"} <=> request # Nothing
    /\ pc = "refused" => "NEEDS_RESET" \in status
    /\ ready => size # 0 /\ IDX % size = 0
    /\ ~ready => avail = 0 /\ used = 0 /\ seen = 0 /\ next_avail = 0 /\ inflight = {}

\* A request in flight is at most once in the rings or in the device's hands, so
\* that neither ring is ever longer than its size.
Counted ==
    /\ Dist(avail, next_avail) + Dist(used, seen) + Serving <= Cardinality(inflight)
    /\ Cardinality(inflight) <= size

InFlight ==
    /\ \A p \in Idx : Waiting(p) => ring[p % size] \in inflight
    /\ \A p \in Idx : Unread(p) => elements[p % size] \in inflight
    /\ request # Nothing => request \in inflight
    /\ pc = "index" => elements[used % size] = request

Once ==
    /\ \A p, q \in Idx : Waiting(p) /\ Waiting(q) /\ p # q => ring[p % size] # ring[q % size]
    /\ \A p, q \in Idx : Unread(p) /\ Unread(q) /\ p # q => elements[p % size] # elements[q % size]
    /\ \A p, q \in Idx : Waiting(p) /\ Unread(q) => ring[p % size] # elements[q % size]
    /\ \A p \in Idx : Waiting(p) => ring[p % size] # request
    /\ \A p \in Idx : Unread(p) => elements[p % size] # request

\* Somebody will look at what is in the available ring.
Watched ==
    pc \in {"idle", "finish"} /\ ready /\ next_avail # avail
        => kick \/ owed \/ due # Nothing \/ "NEEDS_RESET" \in status

RingInv == Types /\ Shape /\ Counted /\ InFlight /\ Once /\ Watched

\* In one notify the used index does not come round to where it was.
Short ==
    /\ made <= Requests
    /\ pc \in {"pop", "element", "index", "finish"}
           => Dist(used, answered) + Dist(avail, next_avail) + Serving <= made

\* The driver is told of what it has not read, is about to read it, or the device
\* thread is about to tell it.
Told ==
    ready /\ seen # used =>
        \/ "VRING" \in interrupt /\ (line \/ silent)
        \/ "NEEDS_RESET" \in status
        \/ isr = "ack" /\ "VRING" \in cause
        \/ isr = "consume"
        \/ pc \in {"pop", "element", "index", "finish"} /\ used # answered

\* What the driver has read of the capacity under the present generation.
Fresh ==
    /\ generation \in Nat /\ config.generation \in Nat /\ config.generation <= generation
    /\ config = [step |-> config.step, generation |-> config.generation, low |-> config.low,
                 high |-> config.high]
    /\ config.generation = generation /\ config.step \in {2, 3} => config.low = sectors
    /\ config.generation = generation /\ config.step = 3 => config.high = sectors

----------------------------------------------------------------------------
(* Indices.                                                                 *)

\* An index goes up by one and comes round at IDX (u16::wrapping_add).
LEMMA Up ==
    ASSUME NEW a \in Idx
    PROVE  (a + 1) % IDX = IF a = IDX - 1 THEN 0 ELSE a + 1
<1>1. CASE a = IDX - 1 BY <1>1, TransportAssumption DEF Idx
<1>2. CASE a # IDX - 1 BY <1>2, TransportAssumption DEF Idx
<1>3. QED BY <1>1, <1>2, Zenon

\* How far one index is ahead of another is a number, and 0 for one index.
LEMMA DistType ==
    ASSUME NEW a \in Idx, NEW b \in Idx
    PROVE  /\ Dist(a, b) \in Nat
           /\ Dist(a, b) = 0 <=> a = b
BY TransportAssumption DEF Idx, Dist

\* A ring not full takes one more position at its end.
LEMMA Grow ==
    ASSUME NEW lo \in Idx, NEW hi \in Idx, Dist(hi, lo) + 1 < IDX
    PROVE  /\ (hi + 1) % IDX \in Idx
           /\ Dist((hi + 1) % IDX, lo) = Dist(hi, lo) + 1
           /\ \A p \in Idx : Between(p, lo, (hi + 1) % IDX) <=> Between(p, lo, hi) \/ p = hi
<1> DEFINE n == (hi + 1) % IDX
<1>1. n = IF hi = IDX - 1 THEN 0 ELSE hi + 1 BY Up, Zenon
<1> HIDE DEF n
<1>2. n \in Idx /\ Dist(n, lo) = Dist(hi, lo) + 1
  BY <1>1, TransportAssumption DEF Idx, Dist
<1>3. ASSUME NEW p \in Idx PROVE Between(p, lo, n) <=> Between(p, lo, hi) \/ p = hi
  BY <1>1, TransportAssumption DEF Idx, Dist, Between
<1>4. QED BY <1>2, <1>3, Zenon DEF n

\* A ring not empty gives up the position at its start.
LEMMA Shrink ==
    ASSUME NEW lo \in Idx, NEW hi \in Idx, lo # hi
    PROVE  /\ (lo + 1) % IDX \in Idx
           /\ Dist(hi, (lo + 1) % IDX) = Dist(hi, lo) - 1
           /\ Between(lo, lo, hi)
           /\ \A p \in Idx : Between(p, (lo + 1) % IDX, hi) <=> Between(p, lo, hi) /\ p # lo
<1> DEFINE n == (lo + 1) % IDX
<1>1. n = IF lo = IDX - 1 THEN 0 ELSE lo + 1 BY Up, ZenonT(30)
<1> HIDE DEF n
<1>2. n \in Idx /\ Dist(hi, n) = Dist(hi, lo) - 1 /\ Between(lo, lo, hi)
  BY <1>1, TransportAssumption DEF Idx, Dist, Between
<1>3. ASSUME NEW p \in Idx PROVE Between(p, n, hi) <=> Between(p, lo, hi) /\ p # lo
  BY <1>1, TransportAssumption DEF Idx, Dist, Between
<1>4. QED BY <1>2, <1>3, Zenon DEF n

\* Nothing is between an index and itself.
LEMMA Nowhere ==
    ASSUME NEW a \in Idx, NEW p \in Idx
    PROVE  ~Between(p, a, a)
BY TransportAssumption DEF Idx, Dist, Between

\* Division with remainder.
LEMMA DivMod ==
    ASSUME NEW a \in Int, NEW s \in Int, s > 0
    PROVE  a = s * (a \div s) + (a % s)
OBVIOUS

\* Every number is a multiple of a divisor and its remainder.
LEMMA Rem ==
    ASSUME NEW a \in Nat, NEW s \in Nat, s > 0
    PROVE  \E q \in Nat : a = s * q + (a % s)
<1>1. a \div s \in Int OBVIOUS
<1>2. a % s \in 0 .. s - 1 OBVIOUS
<1>0. a \in Int /\ s \in Int OBVIOUS
<1>3. a = s * (a \div s) + (a % s) BY <1>0, DivMod, ZenonT(30)
<1>4. a \div s >= 0
  <2>1. SUFFICES ASSUME a \div s <= -1 PROVE FALSE BY <1>1
  <2>2. s * (a \div s) <= s * (-1) BY <1>1, <2>1
  <2>3. QED BY <1>1, <1>2, <1>3, <2>2
<1>5. a \div s \in Nat BY <1>1, <1>4
<1>6. QED BY <1>3, <1>5, Zenon

\* No multiple of s is strictly between 0 and s.
LEMMA NoMultiple ==
    ASSUME NEW s \in Nat, s > 0, NEW m \in Int, 0 < s * m, s * m < s
    PROVE  FALSE
<1>1. CASE m <= 0
  <2>1. s * m <= s * 0 BY <1>1
  <2>2. QED BY <2>1
<1>2. CASE m >= 1
  <2>1. s * m >= s * 1 BY <1>2
  <2>2. QED BY <2>1
<1>3. QED BY <1>1, <1>2

\* Two indices less than a ring apart have slots of their own, because the size of
\* a ring divides the range of the indices.
LEMMA Apart ==
    ASSUME NEW a \in Idx, NEW b \in Idx, NEW s \in Nat, s > 0, IDX % s = 0,
           Dist(a, b) # 0, Dist(a, b) < s
    PROVE  a % s # b % s
<1>1. SUFFICES ASSUME a % s = b % s PROVE FALSE OBVIOUS
<1>2. a \in Nat /\ b \in Nat /\ IDX \in Nat /\ Dist(a, b) \in Nat
  BY TransportAssumption DEF Idx, Dist
<1>3. PICK i \in Nat : a = s * i + (a % s) BY <1>2, Rem, ZenonT(30)
<1>4. PICK j \in Nat : b = s * j + (b % s) BY <1>2, Rem, Zenon
<1>5. PICK k \in Nat : IDX = s * k + (IDX % s) BY <1>2, Rem, Zenon
<1>6. a % s \in Int BY <1>2
<1>7. CASE b <= a
  <2>1. s * (i - j) = Dist(a, b) BY <1>1, <1>2, <1>3, <1>4, <1>6, <1>7 DEF Dist
  <2>2. i - j \in Int OBVIOUS
  <2>3. QED BY <1>2, <2>1, <2>2, NoMultiple
<1>8. CASE ~(b <= a)
  <2>1. s * (i + k - j) = Dist(a, b) BY <1>1, <1>2, <1>3, <1>4, <1>5, <1>6, <1>8 DEF Dist
  <2>2. i + k - j \in Int OBVIOUS
  <2>3. QED BY <1>2, <2>1, <2>2, NoMultiple
<1>9. QED BY <1>7, <1>8, ZenonT(30)

\* The next slot of a ring that is not full is none of those in use.
LEMMA NextSlot ==
    ASSUME NEW lo \in Idx, NEW hi \in Idx, NEW p \in Idx, NEW s \in Nat, s > 0, IDX % s = 0,
           Dist(hi, lo) < s, Between(p, lo, hi)
    PROVE  p % s # hi % s
<1>1. Dist(hi, p) # 0 /\ Dist(hi, p) < s
  BY TransportAssumption DEF Idx, Dist, Between
<1>2. QED BY <1>1, Apart, Zenon

\* A slot is a slot.
LEMMA SlotType ==
    ASSUME NEW p \in Idx, size \in 0 .. MaxSize, size # 0
    PROVE  p % size \in Slots
<1>1. p \in Nat /\ size \in Nat /\ size > 0 /\ MaxSize \in Nat
  BY TransportAssumption DEF Idx
<1>2. p % size \in 0 .. size - 1 BY <1>1
<1>3. QED BY <1>1, <1>2 DEF Slots

----------------------------------------------------------------------------
(* The rings.                                                               *)

Windows == Counted /\ InFlight /\ Once

\* What the requests in flight number.
LEMMA Flying ==
    ASSUME Types
    PROVE  /\ IsFiniteSet(inflight) /\ Cardinality(inflight) \in Nat /\ Cardinality(inflight) <= made
           /\ 0 \notin inflight /\ made + 1 \notin inflight
<1>1. inflight \subseteq 1 .. made /\ made \in Nat BY Zenon DEF Types
<1>2. IsFiniteSet(1 .. made) /\ Cardinality(1 .. made) = made BY <1>1, FS_Interval
<1>3. IsFiniteSet(inflight) /\ Cardinality(inflight) <= made BY <1>1, <1>2, FS_Subset, ZenonT(30)
<1>4. Cardinality(inflight) \in Nat BY <1>3, FS_CardinalityType, Zenon
<1>5. QED BY <1>1, <1>3, <1>4

\* The rings are as they were.
LEMMA Untouched ==
    ASSUME Windows, UNCHANGED <<avail, ring, used, elements, seen, inflight, size, next_avail, request>>,
           pc' = "index" => pc = "index"
    PROVE  Windows'
BY ZenonT(30) DEF Windows, Counted, InFlight, Once, Waiting, Unread, Serving

\* Both rings are empty.
LEMMA Emptied ==
    ASSUME avail' \in Idx, used' \in Idx, next_avail' = avail', seen' = used', inflight' = {},
           request' = Nothing, pc' # "index", size' \in Nat
    PROVE  Windows'
<1>1. Dist(avail', next_avail') = 0 /\ Dist(used', seen') = 0 BY DistType, ZenonT(30)
<1>2. Cardinality(inflight') = 0 BY FS_EmptySet, Zenon
<1>3. \A p \in Idx : ~Waiting(p)' /\ ~Unread(p)' BY Nowhere, Zenon DEF Waiting, Unread
<1>4. Counted' BY <1>1, <1>2 DEF Counted, Serving
<1>5. InFlight' /\ Once' BY <1>3, Zenon DEF InFlight, Once
<1>6. QED BY <1>4, <1>5, Zenon DEF Windows

\* The driver makes a request available: the slot it takes is free.
LEMMA PublishKeeps ==
    ASSUME Types, Shape, Windows, NEW m \in BOOLEAN, Publish(m)
    PROVE  Types' /\ Windows'
<1>0. /\ ready /\ Cardinality(inflight) < size
      /\ made' = made + 1 /\ inflight' = inflight \cup {made + 1} /\ avail' = (avail + 1) % IDX
      /\ ring' = [ring EXCEPT ![avail % size] = made + 1]
      /\ UNCHANGED <<used, elements, seen, size, next_avail, next_used, answered, request, pc>>
  BY Zenon DEF Publish, registers, cursors, thread
<1>1. /\ size \in 0 .. MaxSize /\ size \in Nat /\ size > 0 /\ IDX % size = 0 /\ MaxSize < IDX /\ IDX \in Nat
      /\ MaxSize \in Nat
  BY <1>0, TransportAssumption DEF Types, Shape
<1>2. /\ IsFiniteSet(inflight) /\ Cardinality(inflight) \in Nat
      /\ made + 1 \notin inflight /\ 0 \notin inflight
  BY Flying, Zenon
<1>3. Cardinality(inflight') = Cardinality(inflight) + 1
  BY <1>0, <1>2, FS_AddElement, Zenon
<1>4. avail \in Idx /\ next_avail \in Idx /\ used \in Idx /\ seen \in Idx /\ made \in Nat /\ request \in Nat
  BY Zenon DEF Types
<1>5. Dist(avail, next_avail) \in Nat /\ Dist(used, seen) \in Nat /\ Serving \in {0, 1}
  BY <1>4, DistType, Zenon DEF Serving
<1>6. Dist(avail, next_avail) < size
  BY <1>0, <1>1, <1>2, <1>5 DEF Windows, Counted
<1>7. /\ avail' \in Idx /\ Dist(avail', next_avail) = Dist(avail, next_avail) + 1
      /\ \A p \in Idx : Between(p, next_avail, avail') <=> Between(p, next_avail, avail) \/ p = avail
  BY <1>0, <1>1, <1>4, <1>5, <1>6, Grow
<1>8. \A p \in Idx : Waiting(p)' <=> Waiting(p) \/ p = avail
  BY <1>0, <1>7, Zenon DEF Waiting
<1>9. \A p \in Idx : Unread(p)' <=> Unread(p)
  BY <1>0, Zenon DEF Unread
<1>10. \A p \in Idx : p % size \in Slots
  BY <1>1, SlotType
<1>11. \A p \in Idx : Waiting(p) => p % size # avail % size
  BY <1>1, <1>4, <1>6, NextSlot, ZenonT(30) DEF Waiting
<1>12. /\ \A p \in Idx : Waiting(p) => ring'[p % size] = ring[p % size]
       /\ ring'[avail % size] = made + 1
       /\ ring' \in [Slots -> Nat]
  BY <1>0, <1>4, <1>10, <1>11 DEF Types
<1>13. Types'
  BY <1>0, <1>4, <1>7, <1>12 DEF Types
<1>14. Counted'
  BY <1>0, <1>1, <1>2, <1>3, <1>5, <1>7 DEF Windows, Counted, Serving
<1>15. InFlight'
  BY <1>0, <1>8, <1>9, <1>12 DEF Windows, InFlight
<1>16. Once'
  BY <1>0, <1>2, <1>4, <1>8, <1>9, <1>12 DEF Windows, InFlight, Once, Nothing
<1>17. QED BY <1>13, <1>14, <1>15, <1>16, ZenonT(30) DEF Windows

\* The driver reads one element of the used ring.
LEMMA ConsumeKeeps ==
    ASSUME Types, Shape, Windows, Consume
    PROVE  Types' /\ Windows'
<1>0. UNCHANGED <<avail, ring, used, elements, made, size, next_avail, next_used, answered, request, pc>>
  BY Zenon DEF Consume, registers, cursors, thread
<1>1. CASE UNCHANGED <<inflight, seen>>
  BY <1>0, <1>1, Untouched, ZenonT(30) DEF Types
<1>2. CASE /\ ready /\ seen # used
           /\ inflight' = inflight \ {elements[seen % size]}
           /\ seen' = (seen + 1) % IDX
  <2>1. avail \in Idx /\ next_avail \in Idx /\ used \in Idx /\ seen \in Idx /\ made \in Nat /\ request \in Nat
    BY Zenon DEF Types
  <2>2. /\ seen' \in Idx /\ Dist(used, seen') = Dist(used, seen) - 1 /\ Between(seen, seen, used)
        /\ \A p \in Idx : Between(p, seen', used) <=> Between(p, seen, used) /\ p # seen
    BY <1>2, <2>1, Shrink, ZenonT(30)
  <2>3. Unread(seen)
    BY <2>1, <2>2, Zenon DEF Unread
  <2>4. \A p \in Idx : Unread(p)' <=> Unread(p) /\ p # seen
    BY <1>0, <2>2, Zenon DEF Unread
  <2>5. \A p \in Idx : Waiting(p)' <=> Waiting(p)
    BY <1>0, Zenon DEF Waiting
  <2>6. elements[seen % size] \in inflight
    BY <2>1, <2>3, Zenon DEF Windows, InFlight
  <2>7. IsFiniteSet(inflight) /\ Cardinality(inflight) \in Nat
    BY Flying, Zenon
  <2>8. Cardinality(inflight') = Cardinality(inflight) - 1
    BY <1>2, <2>6, <2>7, FS_RemoveElement, Zenon
  <2>9. Types'
    BY <1>0, <1>2, <2>2, Zenon DEF Types
  <2>10. Dist(avail, next_avail) \in Nat /\ Dist(used, seen) \in Nat /\ Serving \in {0, 1} /\ size \in Nat
    BY <2>1, DistType DEF Serving, Types
  <2>11. Counted'
    BY <1>0, <2>2, <2>7, <2>8, <2>10 DEF Windows, Counted, Serving
  <2>12. InFlight'
    BY <1>0, <1>2, <2>1, <2>3, <2>4, <2>5, ZenonT(30) DEF Windows, InFlight, Once
  <2>13. Once'
    BY <1>0, <2>4, <2>5, ZenonT(30) DEF Windows, Once
  <2>14. QED BY <2>9, <2>11, <2>12, <2>13, ZenonT(30) DEF Windows
<1>3. QED BY <1>1, <1>2, Zenon DEF Consume

\* One turn of Block::notify: the cursor goes past the chain it took, or the chain
\* stays.
LEMMA PopKeeps ==
    ASSUME Types, Shape, Windows, Pop
    PROVE  Types' /\ Windows' /\ (PopHeld \/ PopServed => Head # Nothing)
<1>0. /\ UNCHANGED <<avail, ring, used, elements, seen, inflight, made, size, ready, next_used, answered>>
      /\ pc = "pop" /\ pc' # "index" /\ request = Nothing
  BY Zenon DEF Pop, PopEmpty, PopRefused, PopHeld, PopServed, guest, rings, Shape
<1>1. avail \in Idx /\ next_avail \in Idx /\ used \in Idx /\ seen \in Idx /\ made \in Nat
  BY ZenonT(30) DEF Types
<1>2. next_avail # avail =>
         /\ (next_avail + 1) % IDX \in Idx
         /\ Dist(avail, (next_avail + 1) % IDX) = Dist(avail, next_avail) - 1
         /\ Waiting(next_avail)
         /\ \A p \in Idx : Between(p, (next_avail + 1) % IDX, avail)
                               <=> Between(p, next_avail, avail) /\ p # next_avail
  BY <1>1, Shrink, ZenonT(30) DEF Waiting
<1>3. Dist(avail, next_avail) \in Nat /\ Dist(used, seen) \in Nat /\ size \in Nat
  BY <1>1, DistType DEF Types
<1>4. Cardinality(inflight) \in Nat /\ 0 \notin inflight
  BY Flying, Zenon
<1>5. next_avail # avail => Head \in inflight /\ Head # Nothing /\ Head \in Nat
  <2>1. next_avail # avail => Head \in inflight BY <1>1, <1>2, ZenonT(30) DEF Windows, InFlight, Head
  <2>2. inflight \subseteq Nat BY DEF Types
  <2>3. QED BY <1>4, <2>1, <2>2, Zenon DEF Nothing
<1>6. CASE UNCHANGED <<next_avail, request>>
  <2>1. Windows' BY <1>0, <1>6, Untouched, ZenonT(30)
  <2>2. QED BY <1>0, <1>5, <1>6, <2>1, ZenonT(30) DEF Types, PopHeld, PopServed
<1>7. CASE next_avail # avail /\ next_avail' = (next_avail + 1) % IDX /\ request' \in {Nothing, Head}
  <2>1. \A p \in Idx : Waiting(p)' <=> Waiting(p) /\ p # next_avail
    BY <1>0, <1>2, <1>7, Zenon DEF Waiting
  <2>2. \A p \in Idx : Unread(p)' <=> Unread(p)
    BY <1>0, Zenon DEF Unread
  <2>3. Types'
    BY <1>0, <1>2, <1>5, <1>7, ZenonT(30) DEF Types, Nothing
  <2>4. Serving = 0 /\ Serving' \in {0, 1}
    BY <1>0, Zenon DEF Serving
  <2>5. Counted'
    BY <1>0, <1>2, <1>3, <1>4, <1>7, <2>4 DEF Windows, Counted
  <2>6. InFlight'
    BY <1>0, <1>5, <1>7, <2>1, <2>2, ZenonT(30) DEF Windows, InFlight
  <2>7. Once'
    BY <1>0, <1>1, <1>2, <1>4, <1>7, <2>1, <2>2, ZenonT(30) DEF Windows, InFlight, Once, Head, Nothing
  <2>8. QED BY <1>5, <1>7, <2>3, <2>5, <2>6, <2>7, ZenonT(30) DEF Windows
<1>8. QED BY <1>0, <1>6, <1>7, ZenonT(30) DEF Pop, PopEmpty, PopRefused, PopHeld, PopServed

\* The slot of the used ring that add_used writes is one the driver has read.
LEMMA WriteElementKeeps ==
    ASSUME Types, Shape, Windows, WriteElement
    PROVE  Types' /\ Windows'
<1>0. /\ UNCHANGED <<avail, ring, used, seen, inflight, made, size, next_avail, next_used, answered, request>>
      /\ elements' = [elements EXCEPT ![used % size] = request]
      /\ pc = "element" /\ ready /\ request # Nothing
  BY Zenon DEF WriteElement, registers, cursors, Shape
<1>1. /\ size \in 0 .. MaxSize /\ size \in Nat /\ size > 0 /\ IDX % size = 0
      /\ used \in Idx /\ seen \in Idx /\ avail \in Idx /\ next_avail \in Idx /\ request \in Nat
  BY <1>0, TransportAssumption DEF Types, Shape
<1>2. Dist(avail, next_avail) \in Nat /\ Dist(used, seen) \in Nat /\ Cardinality(inflight) \in Nat
  BY <1>1, DistType, Flying, Zenon
<1>3. Dist(used, seen) < size
  BY <1>0, <1>1, <1>2 DEF Windows, Counted, Serving
<1>4. \A p \in Idx : p % size \in Slots
  BY <1>1, SlotType
<1>5. \A p \in Idx : Unread(p) => p % size # used % size
  BY <1>1, <1>3, NextSlot, Zenon DEF Unread
<1>6. /\ \A p \in Idx : Unread(p) => elements'[p % size] = elements[p % size]
      /\ elements'[used % size] = request
      /\ elements' \in [Slots -> Nat]
  BY <1>0, <1>1, <1>4, <1>5, Zenon DEF Types
<1>7. \A p \in Idx : (Unread(p)' <=> Unread(p)) /\ (Waiting(p)' <=> Waiting(p))
  BY <1>0, Zenon DEF Unread, Waiting
<1>8. Types' BY <1>0, <1>6, Zenon DEF Types
<1>9. Counted' BY <1>0, Zenon DEF Windows, Counted, Serving
<1>10. InFlight' BY <1>0, <1>6, <1>7, SMTT(60) DEF Windows, InFlight
<1>11. Once' BY <1>0, <1>6, <1>7 DEF Windows, Once
<1>12. QED BY <1>8, <1>9, <1>10, <1>11, Zenon DEF Windows

\* The used index takes the element in.
LEMMA WriteIndexKeeps ==
    ASSUME Types, Shape, Windows, WriteIndex
    PROVE  Types' /\ Windows'
<1>0. /\ UNCHANGED <<avail, ring, elements, seen, inflight, made, size, next_avail, answered>>
      /\ used' = (used + 1) % IDX /\ request' = Nothing
      /\ pc = "index" /\ pc' = "pop" /\ ready /\ request # Nothing
  BY Zenon DEF WriteIndex, registers, Shape
<1>1. /\ size \in 0 .. MaxSize /\ size \in Nat /\ MaxSize \in Nat /\ MaxSize < IDX /\ IDX \in Nat
      /\ used \in Idx /\ seen \in Idx /\ avail \in Idx /\ next_avail \in Idx /\ request \in Nat
  BY TransportAssumption DEF Types
<1>2. /\ Dist(avail, next_avail) \in Nat /\ Dist(used, seen) \in Nat
      /\ Cardinality(inflight) \in Nat /\ 0 \notin inflight
  BY <1>1, DistType, Flying, Zenon
<1>3. Dist(used, seen) + 1 < IDX
  BY <1>0, <1>1, <1>2 DEF Windows, Counted, Serving
<1>4. /\ used' \in Idx /\ Dist(used', seen) = Dist(used, seen) + 1
      /\ \A p \in Idx : Between(p, seen, used') <=> Between(p, seen, used) \/ p = used
  BY <1>0, <1>1, <1>3, Grow, Zenon
<1>5. \A p \in Idx : (Unread(p)' <=> Unread(p) \/ p = used) /\ (Waiting(p)' <=> Waiting(p))
  BY <1>0, <1>4, Zenon DEF Unread, Waiting
<1>6. Types' BY <1>0, <1>4, Zenon DEF Types, Nothing
<1>7. Counted' BY <1>0, <1>1, <1>2, <1>4 DEF Windows, Counted, Serving
<1>8. InFlight' BY <1>0, <1>1, <1>5, Zenon DEF Windows, InFlight
<1>9. Once' BY <1>0, <1>1, <1>2, <1>5, ZenonT(30) DEF Windows, InFlight, Once, Nothing
<1>10. QED BY <1>6, <1>7, <1>8, <1>9, Zenon DEF Windows

----------------------------------------------------------------------------
(* The inductive invariant.                                                 *)

\* Giving up the rings and the actions that touch neither of them.
LEMMA OtherKeeps ==
    ASSUME Types, Shape, Windows,
           \/ \E accepts \in BOOLEAN : WriteFeatures(accepts)
           \/ WriteStatus \/ Reset \/ \E value \in Sizes : WriteSize(value)
           \/ WriteReady \/ WriteUnready \/ ReadConfig \/ Kick \/ TakeInterrupt \/ Acknowledge
           \/ Wake \/ Notify \/ Finish \/ Refused \/ Restored \/ \E length \in Lengths : Restore(length)
    PROVE  Types' /\ Windows'
<1> DEFINE Same == UNCHANGED <<avail, ring, used, elements, seen, inflight, size, next_avail, made, request>>
<1>0. /\ avail \in Idx /\ used \in Idx /\ next_avail \in Idx /\ seen \in Idx /\ answered \in Idx
      /\ 0 \in Idx /\ 0 \in Nat /\ next_used = used
  BY TransportAssumption DEF Types, Shape, Idx
<1>1. ASSUME Same, answered' \in Idx, pc' = "index" => pc = "index" PROVE Types' /\ Windows'
  BY <1>1, Untouched, Zenon DEF Types
<1>2. CASE \/ \E accepts \in BOOLEAN : WriteFeatures(accepts)
           \/ WriteStatus \/ ReadConfig \/ Kick \/ TakeInterrupt \/ Acknowledge
  BY <1>0, <1>1, <1>2, ZenonT(30)
  DEF WriteFeatures, WriteStatus, ReadConfig, Kick, TakeInterrupt, Acknowledge,
      guest, rings, registers, cursors, thread
<1>3. CASE Wake \/ Notify \/ Finish \/ Refused \/ Restored \/ \E length \in Lengths : Restore(length)
  BY <1>0, <1>1, <1>3, ZenonT(30)
  DEF Wake, Notify, Finish, Refused, Restored, Restore, BringUp, guest, rings, registers, cursors
<1>14. ASSUME Unlocked, ~ready \/ Reset \/ WriteUnready,
              UNCHANGED <<made, request, answered, pc>>, size' \in 0 .. MaxSize,
              \/ UNCHANGED <<avail, used, seen, inflight, ring, elements>> /\ ~ready /\ next_avail' = 0
              \/ Forget /\ next_avail' = 0
       PROVE  Types' /\ Windows'
  <2>1. /\ avail' = 0 /\ used' = 0 /\ seen' = 0 /\ next_avail' = 0 /\ inflight' = {}
        /\ request' = Nothing /\ pc' # "index"
    BY <1>14, Zenon DEF Shape, Forget, Unlocked
  <2>2. Windows' BY <1>0, <1>14, <2>1, Emptied, TransportAssumption
  <2>3. ring' \in [Slots -> Nat] /\ elements' \in [Slots -> Nat]
    BY <1>14 DEF Types, Forget, Nothing
  <2>4. QED BY <1>0, <1>14, <2>1, <2>2, <2>3, Zenon DEF Types
<1>15. CASE Reset
  <2>1. made' = made BY <1>15, Zenon DEF Reset, Forget
  <2>2. 0 \in 0 .. MaxSize BY TransportAssumption
  <2>3. QED BY <1>14, <1>15, <2>1, <2>2, Zenon DEF Reset, thread
<1>16. CASE WriteUnready
  <2>1. made' = made BY <1>16, Zenon DEF WriteUnready, Forget
  <2>2. QED BY <1>14, <1>16, <2>1, Zenon DEF WriteUnready, registers, thread, Types
<1>17. CASE \E value \in Sizes : WriteSize(value)
  <2>1. PICK value \in Sizes : WriteSize(value) BY <1>17, Zenon
  <2>2. value \in Nat /\ MaxSize \in Nat BY TransportAssumption, Zenon
  <2>3. size' \in 0 .. MaxSize BY <2>1, <2>2, SMTT(60) DEF WriteSize
  <2>4. QED BY <1>14, <2>1, <2>3, ZenonT(30) DEF WriteSize, guest, rings, cursors, thread, Shape
<1>18. CASE WriteReady
  BY <1>14, <1>18, ZenonT(30) DEF WriteReady, guest, rings, cursors, thread, Types, Shape
<1>19. QED BY <1>2, <1>3, <1>15, <1>16, <1>17, <1>18, ZenonT(30)

\* Every step keeps the types and the two rings.
LEMMA WindowsKeep ==
    ASSUME Types, Shape, Windows, [Next]_vars
    PROVE  Types' /\ Windows'
<1>1. CASE UNCHANGED vars
  BY <1>1, Untouched, ZenonT(30) DEF Types, vars, guest, rings, registers, cursors, thread
<1>2. CASE Next
  BY <1>2, PublishKeeps, ConsumeKeeps, PopKeeps, WriteElementKeeps, WriteIndexKeeps, OtherKeeps, ZenonT(30)
  DEF Next, Driver, Handler, DeviceThread
<1>3. QED BY <1>1, <1>2, Zenon

\* The loop of Block::notify runs over a ready queue, a queue is given up empty, and
\* something in the available ring is looked at, or will be: a pop that holds a request
\* arms a deadline, and what is made available is kicked.
LEMMA ControlKeeps ==
    ASSUME Types, Shape, Windows, Watched, [Next]_vars
    PROVE  Shape' /\ Watched'
<1>0. CASE UNCHANGED <<avail, used, seen, inflight, next_avail, next_used, size, status, ready, owed, kick,
                       due, pc, request>>
  BY <1>0, Zenon DEF Shape, Watched
<1>1. CASE \/ \E accepts \in BOOLEAN : WriteFeatures(accepts)
           \/ ReadConfig
           \/ TakeInterrupt
           \/ Acknowledge
           \/ UNCHANGED vars
  BY <1>0, <1>1, ZenonT(30) DEF WriteFeatures, ReadConfig, TakeInterrupt, Acknowledge, vars, guest, rings,
     registers, cursors, irq, disk, thread
<1>2. CASE WriteStatus
  BY <1>2, ZenonT(30) DEF Shape, Watched, WriteStatus, guest, rings, registers, cursors, irq, disk, thread
<1>3. CASE Reset
  BY <1>3, Zenon DEF Shape, Watched, Reset, Forget, Unlocked, guest, rings, registers, cursors, irq, disk, thread
<1>4. CASE \E value \in Sizes : WriteSize(value)
  BY <1>4 DEF Shape, Watched, WriteSize, guest, rings, registers, cursors, irq, disk, thread
<1>5. CASE WriteReady
  <2>1. IsPowerOfTwo(size) => size # 0 /\ IDX % size = 0
    <3>1. size \in 0 .. MaxSize BY Zenon DEF Types
    <3>2. ~IsPowerOfTwo(0) BY DEF IsPowerOfTwo
    <3>3. QED BY <3>1, <3>2, TransportAssumption
  <2>2. QED BY <1>5, <2>1 DEF Shape, Watched, WriteReady, Unlocked, guest, rings, registers,
               cursors, disk, thread
<1>6. CASE WriteUnready
  BY <1>6, ZenonT(30) DEF Shape, Watched, WriteUnready, Forget, Unlocked, guest, rings, registers, cursors, irq,
     disk, thread
<1>7. CASE \E malformed \in BOOLEAN : Publish(malformed)
  BY <1>7 DEF Shape, Watched, Publish, guest, rings, registers, cursors, irq, disk, thread
<1>8. CASE Kick
  BY <1>8, Zenon DEF Shape, Watched, Kick, guest, rings, registers, cursors, irq, disk, thread
<1>9. CASE Consume
  BY <1>9, Zenon DEF Shape, Watched, Consume, guest, rings, registers, cursors, irq, disk, thread
<1>10. CASE Wake
  BY <1>10, Zenon DEF Shape, Watched, Wake, guest, rings, registers, cursors, irq, disk, thread
<1>11. CASE Notify
  BY <1>11, Zenon DEF Shape, Watched, Notify, guest, rings, registers, cursors, irq, disk, thread
<1>12. CASE Pop
  <2>1. PopHeld \/ PopServed => Head # Nothing BY <1>12, PopKeeps, Zenon
  <2>2. QED BY <1>12, <2>1, Zenon DEF Shape, Watched, Pop, PopEmpty, PopRefused, PopHeld, PopServed, guest, rings
<1>13. CASE WriteElement
  BY <1>13, Zenon DEF Shape, Watched, WriteElement, guest, rings, registers, cursors, irq, disk, thread
<1>14. CASE WriteIndex
  BY <1>14, Zenon DEF Shape, Watched, WriteIndex, guest, rings, registers, cursors, irq, disk, thread
<1>15. CASE Finish
  BY <1>15, Zenon DEF Shape, Watched, Finish, guest, rings, registers, cursors, irq, disk, thread
<1>16. CASE Refused
  BY <1>16, Zenon DEF Shape, Watched, Refused, guest, rings, registers, cursors, irq, disk, thread
<1>17. CASE Restored
  BY <1>17, ZenonT(30) DEF Shape, Watched, Restored, guest, rings, registers, cursors, irq, disk, thread
<1>18. CASE \E length \in Lengths : Restore(length)
  BY <1>18, SMTT(60) DEF Shape, Watched, Restore, BringUp, guest, rings, registers, cursors, irq, disk, thread
<1>19. QED BY <1>1, <1>2, <1>3, <1>4, <1>5, <1>6, <1>7, <1>8, <1>9, <1>10, <1>11, <1>12, <1>13,
              <1>14, <1>15, <1>16, <1>17, <1>18, ZenonT(30) DEF Next, Driver, Handler, DeviceThread

\* The device answers in one notify no more than was ever made available.  Fewer requests
\* than indices, the used index has then moved when a request was answered, and the driver
\* is told: by the line, or by the device thread before it is idle again, or the handler
\* is at it.
LEMMA ToldKeeps ==
    ASSUME Requests < IDX, Types, Shape, Windows, Short, Told, [Next]_vars
    PROVE  Short' /\ Told'
<1>a. /\ avail \in Idx /\ used \in Idx /\ next_avail \in Idx /\ answered \in Idx /\ seen \in Idx
      /\ made \in Nat /\ next_used = used /\ Requests \in Nat /\ IDX \in Nat
  BY TransportAssumption, Zenon DEF Types, Shape
<1>b. /\ Dist(avail, next_avail) \in Nat /\ Dist(used, answered) \in Nat /\ Dist(used, used) = 0
      /\ Dist(avail, next_avail) + Serving <= made
  <2>1. Dist(used, seen) \in Nat /\ Dist(avail, next_avail) \in Nat /\ Dist(used, answered) \in Nat /\ Dist(used, used) = 0
    BY <1>a, DistType, Zenon
  <2>2. Cardinality(inflight) \in Nat /\ Cardinality(inflight) <= made BY Flying, Zenon
  <2>3. QED BY <1>a, <2>1, <2>2 DEF Windows, Counted, Serving
<1>0. CASE UNCHANGED <<avail, used, seen, next_avail, answered, made, request, pc, ready, status, isr, cause, irq>>
  BY <1>0, Zenon DEF Short, Told, Serving, irq
<1>1. CASE \/ \E accepts \in BOOLEAN : WriteFeatures(accepts)
           \/ \E value \in Sizes : WriteSize(value)
           \/ ReadConfig
           \/ Kick
           \/ UNCHANGED vars
  BY <1>0, <1>1, ZenonT(30) DEF WriteFeatures, WriteSize, ReadConfig, Kick, vars, guest, rings, registers,
     cursors, irq, disk, thread
<1>2. CASE WriteStatus
  BY <1>2, Zenon DEF Short, Told, Serving, Shape, WriteStatus, guest, rings, registers, cursors,
     irq, disk, thread
<1>3. CASE Reset
  BY <1>3, ZenonT(30) DEF Short, Told, Serving, Shape, Reset, Forget, Unlocked, guest, rings, registers,
     cursors, irq, disk, thread
<1>4. CASE WriteReady
  BY <1>4, Zenon DEF Short, Told, Serving, Shape, WriteReady, Unlocked, guest, rings, registers, cursors,
     irq, disk, thread
<1>5. CASE WriteUnready
  BY <1>5, ZenonT(30) DEF Short, Told, Serving, Shape, WriteUnready, Forget, Unlocked, guest, rings, registers,
     cursors, irq, disk, thread
<1>6. CASE \E malformed \in BOOLEAN : Publish(malformed)
  <2>1. PICK malformed \in BOOLEAN : Publish(malformed) BY <1>6, Zenon
  <2>2. /\ made' = made + 1 /\ made < Requests /\ avail' = (avail + 1) % IDX
        /\ UNCHANGED <<used, answered, next_avail, pc, request, seen, ready, irq, status, isr, cause>>
    BY <2>1, ZenonT(30) DEF Publish, registers, cursors, thread
  <2>3. Dist(avail', next_avail) <= Dist(avail, next_avail) + 1
    BY <1>a, <2>2, Up, TransportAssumption DEF Dist, Idx
  <2>4. Dist(avail', next_avail) \in Nat
    <3>1. Types' BY <2>1, PublishKeeps, ZenonT(30)
    <3>2. QED BY <1>a, <2>2, <3>1, DistType, Zenon DEF Types
  <2>5. Short' BY <1>a, <1>b, <2>2, <2>3, <2>4, SMTT(60) DEF Short, Serving
  <2>6. QED BY <2>2, <2>5, Zenon DEF Told, irq
<1>7. CASE TakeInterrupt
  BY <1>7, Zenon DEF Short, Told, Serving, Shape, TakeInterrupt, guest, rings, registers,
     cursors, irq, disk, thread
<1>8. CASE Acknowledge
  BY <1>8, Zenon DEF Short, Told, Serving, Shape, Acknowledge, guest, rings, registers, cursors,
     irq, disk, thread
<1>9. CASE Consume
  BY <1>9, Zenon DEF Short, Told, Serving, Shape, Consume, guest, rings, registers, cursors, irq,
     disk, thread
<1>10. CASE Wake
  BY <1>10, ZenonT(30) DEF Short, Told, Serving, Shape, Wake, guest, rings, registers, cursors, irq,
     disk, thread
<1>11. CASE Notify
  BY <1>11, <1>a, <1>b DEF Short, Told, Serving, Shape, Notify, guest, rings, registers, cursors,
     irq, disk, thread
<1>12. CASE Pop
  <2>1. UNCHANGED <<avail, used, answered, made>> /\ pc = "pop" /\ request = Nothing
    BY <1>12, Zenon DEF Pop, Shape, guest, rings
  <2>2. \/ UNCHANGED <<next_avail, request>>
        \/ next_avail # avail /\ next_avail' = (next_avail + 1) % IDX
    BY <1>12, <2>1, Zenon DEF Pop, PopEmpty, PopRefused, PopHeld, PopServed
  <2>3. next_avail # avail /\ next_avail' = (next_avail + 1) % IDX
            => Dist(avail, next_avail') = Dist(avail, next_avail) - 1
    BY <1>a, Shrink, ZenonT(30)
  <2>4. Short' BY <1>a, <1>b, <2>1, <2>2, <2>3, SMTT(60) DEF Short, Serving
  <2>5. Told' BY <1>12, Zenon DEF Told, Pop, PopEmpty, PopRefused, PopHeld, PopServed, guest, rings, irq
  <2>6. QED BY <2>4, <2>5, Zenon
<1>13. CASE WriteElement
  BY <1>13, Zenon DEF Short, Told, Serving, Shape, WriteElement, guest, rings, registers,
     cursors, irq, disk, thread
<1>14. CASE WriteIndex
  <2>1. /\ UNCHANGED <<avail, next_avail, answered, made>> /\ pc = "index" /\ pc' = "pop"
        /\ request # Nothing /\ request' = Nothing /\ used' = (used + 1) % IDX
    BY <1>14, Zenon DEF WriteIndex, Shape
  <2>2. Dist(used, answered) + 1 < IDX BY <1>a, <1>b, <2>1 DEF Short, Serving
  <2>3. used' \in Idx /\ Dist(used', answered) = Dist(used, answered) + 1 BY <1>a, <2>1, <2>2, Grow, ZenonT(30)
  <2>4. Short' BY <1>a, <1>b, <2>1, <2>3, SMTT(60) DEF Short, Serving
  <2>5. used' # answered' BY <1>a, <1>b, <2>1, <2>3, DistType, SMTT(60)
  <2>6. QED BY <2>1, <2>4, <2>5, ZenonT(30) DEF Told
<1>15. CASE Finish
  BY <1>15, SMTT(60) DEF Short, Told, Serving, Shape, Finish, Raise, guest, rings, registers,
     cursors, irq, disk, thread
<1>16. CASE Refused
  BY <1>16, Zenon DEF Short, Told, Serving, Shape, Refused, guest, rings, registers, cursors,
     irq, disk, thread
<1>17. CASE Restored
  BY <1>17, ZenonT(30) DEF Short, Told, Serving, Shape, Restored, Raise, guest, rings, registers, cursors, irq,
     disk, thread
<1>18. CASE \E length \in Lengths : Restore(length)
  BY <1>18, <1>a, <1>b DEF Short, Told, Serving, Shape, Restore, BringUp, guest, rings, registers,
     cursors, irq, disk, thread
<1>19. QED BY <1>1, <1>2, <1>3, <1>4, <1>5, <1>6, <1>7, <1>8, <1>9, <1>10, <1>11, <1>12, <1>13,
              <1>14, <1>15, <1>16, <1>17, <1>18, ZenonT(30) DEF Next, Driver, Handler, DeviceThread

\* The generation counts every change of the capacity.
LEMMA FreshKeeps ==
    ASSUME Fresh, [Next]_vars
    PROVE  Fresh'
<1>1. CASE UNCHANGED <<config, generation, sectors>>
  BY <1>1, Zenon DEF Fresh
<1>2. CASE ReadConfig
  <2>1. UNCHANGED <<generation, sectors>> BY <1>2, Zenon DEF ReadConfig, registers, disk
  <2>2. CASE config.step = 0 /\ config' = [config EXCEPT !.step = 1, !.generation = generation]
    <3>1. config' = [step |-> 1, generation |-> generation, low |-> config.low, high |-> config.high]
      BY <2>2, Zenon DEF Fresh
    <3>2. QED BY <2>1, <3>1 DEF Fresh
  <2>3. CASE config.step = 1 /\ config' = [config EXCEPT !.step = 2, !.low = sectors]
    <3>1. config' = [step |-> 2, generation |-> config.generation, low |-> sectors, high |-> config.high]
      BY <2>3, Zenon DEF Fresh
    <3>2. QED BY <2>1, <3>1 DEF Fresh
  <2>4. CASE config.step = 2 /\ config' = [config EXCEPT !.step = 3, !.high = sectors]
    BY <2>1, <2>4, Zenon DEF Fresh
  <2>5. CASE config' = NoConfig BY <2>1, <2>5 DEF Fresh, NoConfig
  <2>6. QED BY <1>2, <2>2, <2>3, <2>4, <2>5, Zenon DEF ReadConfig
<1>3. CASE \E length \in Lengths : Restore(length)
  <2>1. PICK length \in Lengths : Restore(length) BY <1>3, Zenon
  <2>2. /\ config' = config /\ sectors' = length
        /\ generation' = IF length # sectors THEN generation + 1 ELSE generation
    BY <2>1, Zenon DEF Restore, BringUp, Bumped, guest
  <2>3. CASE length = sectors BY <1>1, <2>2, <2>3, Zenon
  <2>4. CASE length # sectors
    <3>1. generation' = generation + 1 BY <2>2, <2>4, ZenonT(30)
    <3>2. generation \in Nat /\ config.generation \in Nat /\ config.generation <= generation
      BY Zenon DEF Fresh
    <3>3. config.generation # generation' /\ config.generation <= generation' /\ generation' \in Nat
      BY <3>1, <3>2
    <3>4. QED BY <2>2, <3>2, <3>3, ZenonT(30) DEF Fresh
  <2>5. QED BY <2>3, <2>4, ZenonT(30)
<1>4. ASSUME Next, ~ReadConfig, ~\E length \in Lengths : Restore(length)
      PROVE  UNCHANGED <<config, generation, sectors>>
  <2>1. CASE Driver
    BY <1>4, <2>1, ZenonT(30) DEF Driver, WriteFeatures, WriteStatus, Reset, Forget, WriteSize,
       WriteReady, WriteUnready,
                      Publish, guest, registers, disk
  <2>2. CASE Kick \/ Handler
    BY <2>2, ZenonT(30) DEF Kick, Handler, TakeInterrupt, Acknowledge, Consume, guest, registers, disk
  <2>3. CASE DeviceThread
    BY <2>3, Zenon DEF DeviceThread, Wake, Notify, Pop, WriteElement, WriteIndex, Finish, Refused, Restored, guest,
                registers, disk
  <2>4. QED BY <1>4, <2>1, <2>2, <2>3, ZenonT(30) DEF Next
<1>5. QED BY <1>1, <1>2, <1>3, <1>4, Zenon DEF vars, guest, registers, disk

----------------------------------------------------------------------------

\* A queue in use for a while, with nothing in flight, begins in the invariant.
LEMMA RingInit == Init => RingInv /\ Short /\ Told /\ Fresh
<1> SUFFICES ASSUME Init PROVE RingInv /\ Short /\ Told /\ Fresh
  BY Zenon
<1>1. avail \in Idx /\ 0 \in Idx /\ MaxSize \in Nat /\ MaxSize > 0 /\ Requests \in Nat
  <2>1. avail \in Starts BY Zenon DEF Init
  <2>2. QED BY <2>1, TransportAssumption DEF Idx
<1>2. Types
  BY <1>1, TransportAssumption DEF Init, Types, Nothing
<1>3. Shape
  BY <1>1, TransportAssumption, ZenonT(30) DEF Init, Shape
<1>4. Dist(avail, avail) = 0 /\ \A p \in Idx : ~Between(p, avail, avail)
  BY <1>1, DistType, Nowhere, ZenonT(30)
<1>5. Counted
  <2>1. Cardinality({}) = 0 BY FS_EmptySet, Zenon
  <2>2. QED BY <1>1, <1>4, <2>1 DEF Init, Counted, Serving
<1>6. InFlight /\ Once
  BY <1>4, Zenon DEF Init, InFlight, Once, Waiting, Unread
<1>7. Watched /\ Short /\ Told
  BY <1>1, SMTT(60) DEF Init, Watched, Short, Told
<1>8. Fresh
  BY DEF Init, Fresh, NoConfig
<1>9. QED BY <1>2, <1>3, <1>5, <1>6, <1>7, <1>8, ZenonT(30) DEF RingInv

\* Every step of the driver and of the device keeps the invariant of the ring.
LEMMA RingStep == RingInv /\ [Next]_vars => RingInv'
<1> SUFFICES ASSUME RingInv, [Next]_vars PROVE RingInv'
  OBVIOUS
<1>1. Types /\ Shape /\ Windows /\ Watched BY Zenon DEF RingInv, Windows
<1>2. Types' /\ Windows' BY <1>1, WindowsKeep, Zenon
<1>3. Shape' /\ Watched' BY <1>1, ControlKeeps, Zenon
<1>4. QED BY <1>2, <1>3, ZenonT(30) DEF RingInv, Windows

\* What the driver reads from the used ring is a request it waits for, however many
\* requests there are and however often the indices wrap (Queue::add_used).
THEOREM UsedInFlight == Spec => []UsedIsInFlight
<1>1. RingInv => UsedIsInFlight
  <2> SUFFICES ASSUME RingInv, ready, seen # used PROVE elements[seen % size] \in inflight
    BY Zenon DEF UsedIsInFlight
  <2>1. seen \in Idx /\ used \in Idx BY Zenon DEF RingInv, Types
  <2>2. Unread(seen) BY <2>1, Shrink, ZenonT(30) DEF Unread
  <2>3. QED BY <2>1, <2>2, Zenon DEF RingInv, InFlight
<1>2. QED BY <1>1, RingInit, RingStep, PTL DEF Spec

\* Nothing made available is left behind by a device thread that went idle, through
\* holds by the rate and restores (Block::notify, Transport::restored).
THEOREM NoneForgotten == Spec => []NothingForgotten
<1>1. RingInv => NothingForgotten BY Zenon DEF RingInv, Watched, NothingForgotten
<1>2. QED BY <1>1, RingInit, RingStep, PTL DEF Spec

\* Fewer requests than the indices have values, a request is in flight until it is
\* used once, is not passed over, and is announced.  The bound is the code's own:
\* Transport::notify tells by the used index alone whether it moved.
THEOREM RingIsSound == Requests < IDX => (Spec => []RingSound)
<1> SUFFICES ASSUME Requests < IDX PROVE Spec => []RingSound
  OBVIOUS
<1> DEFINE J == RingInv /\ Short /\ Told
<1>1. Init => J BY RingInit, Zenon
<1>2. J /\ [Next]_vars => J'
  <2> SUFFICES ASSUME J, [Next]_vars PROVE J'
    OBVIOUS
  <2>1. Types /\ Shape /\ Windows BY Zenon DEF RingInv, Windows
  <2>2. RingInv' BY RingStep, ZenonT(30)
  <2>3. Short' /\ Told' BY <2>1, ToldKeeps, Zenon
  <2>4. QED BY <2>2, <2>3, Zenon
<1>3. J => UsedIsAnnounced BY Zenon DEF Told, UsedIsAnnounced
<1>4. Spec => []UsedIsAnnounced BY <1>1, <1>2, <1>3, PTL DEF Spec
<1>5. QED BY <1>4, UsedInFlight, NoneForgotten, PTL DEF RingSound

\* A capacity the driver reads between two equal generations is of one disk
\* (Transport::restored).
THEOREM ConfigWhole == Spec => []ConfigNotTorn
<1>1. Init => Fresh BY RingInit, Zenon
<1>2. Fresh /\ [Next]_vars => Fresh' BY FreshKeeps, Zenon
<1>3. Fresh => ConfigNotTorn BY Zenon DEF Fresh, ConfigNotTorn
<1>4. QED BY <1>1, <1>2, <1>3, PTL DEF Spec
=============================================================================
