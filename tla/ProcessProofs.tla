--------------------------- MODULE ProcessProofs ---------------------------
(***************************************************************************)
(* What can end the process of the engine, in two parts that share no      *)
(* state.                                                                  *)
(*                                                                         *)
(* The watch on lost pages, for any table, any number of clones and any    *)
(* addresses: an entry has one owner, a page lost under a watched clone    *)
(* does not end the process, and while no entry is freed the fault is told *)
(* to the right owner.  The handler's scan is what makes the invariant: it *)
(* never gets past the clone's own entry, which is complete and stays so   *)
(* as long as a thread of the clone is in the handler.                     *)
(*                                                                         *)
(* The lingcore program, whatever is typed and however often it is         *)
(* signalled: the ways out of boot, and the threads that race to say how   *)
(* the guest ended.                                                        *)
(***************************************************************************)
EXTENDS FaultWatch, Program, TLAPS

\* Sequences of bytes: which are the same, a byte that moves from the head of one to the end
\* of the one before it, and a sequence cut in two.
LEMMA SameBytes ==
    ASSUME NEW s \in Seq(Nat), NEW t \in Seq(Nat), Len(s) = Len(t), \A i \in 1 .. Len(s) : s[i] = t[i]
    PROVE  s = t
BY SMTT(30)

\* Facts about sequences of bytes: concatenation associates;
LEMMA Associates ==
    ASSUME NEW a \in Seq(Nat), NEW b \in Seq(Nat), NEW c \in Seq(Nat)
    PROVE  (a \o b) \o c = a \o (b \o c)
BY SMTT(30)

\* what a concatenation holds;
LEMMA Concats ==
    ASSUME NEW a \in Seq(Nat), NEW b \in Seq(Nat)
    PROVE  /\ a \o b \in Seq(Nat) /\ Len(a \o b) = Len(a) + Len(b)
           /\ \A i \in 1 .. Len(a) + Len(b) : (a \o b)[i] = IF i <= Len(a) THEN a[i] ELSE b[i - Len(a)]
OBVIOUS

\* the empty sequence adds nothing;
LEMMA EmptySeq ==
    ASSUME NEW s \in Seq(Nat)
    PROVE  s \o <<>> = s /\ <<>> \o s = s /\ SubSeq(s, 1, Len(s)) = s
OBVIOUS

\* a head moved from one queue to the end of the other;
LEMMA MoveHead ==
    ASSUME NEW e \in Seq(Nat), NEW c \in Seq(Nat), c # <<>>
    PROVE  /\ Append(e, Head(c)) \in Seq(Nat) /\ Tail(c) \in Seq(Nat)
           /\ Append(e, Head(c)) \o Tail(c) = e \o c
BY SMTT(30)

\* what a prefix holds;
LEMMA PartOf ==
    ASSUME NEW s \in Seq(Nat), NEW n \in 0 .. Len(s)
    PROVE  /\ SubSeq(s, 1, n) \in Seq(Nat) /\ Len(SubSeq(s, 1, n)) = n
           /\ \A i \in 1 .. n : SubSeq(s, 1, n)[i] = s[i]
OBVIOUS

\* a sequence is what was taken of it and what was left.
LEMMA SplitAt ==
    ASSUME NEW s \in Seq(Nat), NEW n \in 0 .. Len(s)
    PROVE  /\ SubSeq(s, 1, n) \in Seq(Nat) /\ SubSeq(s, n + 1, Len(s)) \in Seq(Nat)
           /\ SubSeq(s, 1, n) \o SubSeq(s, n + 1, Len(s)) = s
<1>1. SubSeq(s, 1, n) \in Seq(Nat) /\ SubSeq(s, n + 1, Len(s)) \in Seq(Nat) OBVIOUS
<1>2. PICK a \in Seq(Nat), b \in Seq(Nat) : a = SubSeq(s, 1, n) /\ b = SubSeq(s, n + 1, Len(s)) BY <1>1, Zenon
<1>3. Len(a) = n /\ Len(b) = Len(s) - n /\ \A i \in 1 .. n : a[i] = s[i] BY <1>2
<1>4. \A i \in 1 .. Len(s) - n : b[i] = s[n + i] BY <1>2
<1>5. a \o b \in Seq(Nat) /\ Len(a \o b) = Len(s) BY <1>3, Concats
<1>6. ASSUME NEW i \in 1 .. Len(s) PROVE (a \o b)[i] = s[i]
  <2>0. i \in Nat /\ n \in Nat /\ (a \o b)[i] = IF i <= n THEN a[i] ELSE b[i - n]
    <3>1. i \in 1 .. Len(a) + Len(b) /\ Len(a) = n /\ i \in Nat /\ n \in Nat BY <1>3
    <3>2. \A j \in 1 .. Len(a) + Len(b) : (a \o b)[j] = IF j <= Len(a) THEN a[j] ELSE b[j - Len(a)] BY Concats, Zenon
    <3>3. QED BY <3>1, <3>2, Zenon
  <2>1. CASE i <= n BY <1>3, <2>0, <2>1
  <2>2. CASE i > n
    <3>1. (a \o b)[i] = b[i - n] BY <2>0, <2>2
    <3>2. i - n \in 1 .. Len(s) - n /\ n + (i - n) = i BY <2>2
    <3>3. QED BY <1>4, <3>1, <3>2, Zenon
  <2>3. QED BY <2>0, <2>1, <2>2
<1>7. a \o b = s BY <1>5, <1>6, SameBytes, ZenonT(30)
<1>8. QED BY <1>1, <1>2, <1>7, ZenonT(30)

\* A beginning of what follows, put after what came before, is a beginning of the two.
LEMMA BeginningOf ==
    ASSUME NEW p \in Seq(Nat), NEW s \in Seq(Nat), NEW n \in 0 .. Len(s)
    PROVE  p \o SubSeq(s, 1, n) = SubSeq(p \o s, 1, Len(p) + n)
<1>1. p \o SubSeq(s, 1, n) \in Seq(Nat) /\ SubSeq(p \o s, 1, Len(p) + n) \in Seq(Nat) BY SMTT(30)
<1>2. PICK a \in Seq(Nat), b \in Seq(Nat) : a = p \o SubSeq(s, 1, n) /\ b = SubSeq(p \o s, 1, Len(p) + n)
  BY <1>1, Zenon
<1>3. Len(a) = Len(p) + n /\ \A i \in 1 .. Len(p) + n : a[i] = IF i <= Len(p) THEN p[i] ELSE s[i - Len(p)]
  BY <1>2
<1>4. Len(b) = Len(p) + n /\ \A i \in 1 .. Len(p) + n : b[i] = IF i <= Len(p) THEN p[i] ELSE s[i - Len(p)]
  BY <1>2
<1>5. \A i \in 1 .. Len(a) : a[i] = b[i] BY <1>3, <1>4, ZenonT(30)
<1>6. QED BY <1>2, <1>3, <1>4, <1>5, SameBytes, Zenon

\* Two that hold no escape hold none together.
LEMMA ConcatHolds ==
    ASSUME NEW p \in Seq(Nat), NEW q \in Seq(Nat), ~HasEscape(p), ~HasEscape(q)
    PROVE  ~HasEscape(p \o q)
<1>1. DOMAIN (p \o q) = 1 .. Len(p) + Len(q) /\ DOMAIN p = 1 .. Len(p) /\ DOMAIN q = 1 .. Len(q)
      /\ Len(p) \in Nat /\ Len(q) \in Nat
  BY Concats
<1>2. ASSUME NEW i \in DOMAIN (p \o q), (p \o q)[i] = ESCAPE PROVE FALSE
  <2>0. (p \o q)[i] = IF i <= Len(p) THEN p[i] ELSE q[i - Len(p)] BY <1>1, Concats
  <2>1. i <= Len(p) => i \in DOMAIN p /\ p[i] = ESCAPE BY <1>1, <1>2, <2>0
  <2>2. ~(i <= Len(p)) => i - Len(p) \in DOMAIN q /\ q[i - Len(p)] = ESCAPE BY <1>1, <1>2, <2>0
  <2>3. QED BY <2>1, <2>2, Zenon DEF HasEscape
<1>3. QED BY <1>2, Zenon DEF HasEscape

\* The first escape of what is typed, counted from what came before.
LEMMA EscapeFirst ==
    ASSUME NEW p \in Seq(Nat), NEW s \in Seq(Nat), NEW n \in 1 .. Len(s), ~HasEscape(p),
           NEW cut \in EscapesAt(SubSeq(s, 1, n)), cut # 0
    PROVE  /\ tty /\ cut \in 1 .. n
           /\ Len(p) + cut \in EscapesAt(p \o s)
<1>0. n \in 0 .. Len(s) OBVIOUS
<1>1. PICK b \in Seq(Nat) : b = SubSeq(s, 1, n) BY <1>0, SplitAt, ZenonT(30)
<1>2. Len(b) = n /\ \A i \in 1 .. n : b[i] = s[i] BY <1>0, <1>1, PartOf, Zenon
<1>3. tty /\ cut \in 1 .. Len(b) /\ b[cut] = ESCAPE /\ \A j \in 1 .. cut - 1 : b[j] # ESCAPE
  BY <1>1, Zenon DEF EscapesAt
<1>4. Len(p) \in Nat /\ Len(s) \in Nat /\ cut \in Nat /\ 1 <= cut /\ cut <= n /\ n <= Len(s) BY <1>2, <1>3
<1>5. PICK w \in Seq(Nat) : w = p \o s BY Concats, ZenonT(30)
<1>6. /\ Len(w) = Len(p) + Len(s)
      /\ \A i \in 1 .. Len(p) + Len(s) : w[i] = IF i <= Len(p) THEN p[i] ELSE s[i - Len(p)]
  BY <1>5, Concats, ZenonT(30)
<1>7. PICK k \in 1 .. Len(w) : k = Len(p) + cut
  <2>1. Len(w) = Len(p) + Len(s) BY <1>6, Zenon
  <2>2. Len(p) + cut \in 1 .. Len(p) + Len(s) BY <1>4
  <2>3. Len(p) + cut \in 1 .. Len(w) BY <2>1, <2>2, Zenon
  <2>4. QED BY <2>3, Zenon
<1>8. w[k] = ESCAPE
  <2>1. w[k] = s[cut]
    <3>0. k = Len(p) + cut BY <1>7, Zenon
    <3>1. k \in 1 .. Len(p) + Len(s) /\ ~(k <= Len(p)) /\ k - Len(p) = cut BY <1>4, <3>0, SMTT(30)
    <3>2. w[k] = IF k <= Len(p) THEN p[k] ELSE s[k - Len(p)] BY <1>6, <3>1, Zenon
    <3>3. QED BY <3>1, <3>2, Zenon
  <2>2. s[cut] = b[cut] BY <1>2, <1>4, SMTT(30)
  <2>3. QED BY <1>3, <2>1, <2>2, Zenon
<1>9. ASSUME NEW j \in 1 .. k - 1 PROVE w[j] # ESCAPE
  <2>1. j \in Nat /\ 1 <= j /\ j < Len(p) + cut BY <1>4, <1>7
  <2>2. j \in 1 .. Len(p) + Len(s) BY <1>4, <2>1
  <2>3. w[j] = IF j <= Len(p) THEN p[j] ELSE s[j - Len(p)] BY <1>6, <2>2, Zenon
  <2>4. CASE j <= Len(p)
    <3>1. j \in DOMAIN p BY <1>4, <2>1, <2>4
    <3>2. p[j] # ESCAPE BY <3>1, Zenon DEF HasEscape
    <3>3. QED BY <2>3, <2>4, <3>2, Zenon
  <2>5. CASE ~(j <= Len(p))
    <3>1. j - Len(p) \in 1 .. cut - 1 /\ j - Len(p) \in 1 .. n BY <1>4, <2>1, <2>5, SMTT(30)
    <3>2. b[j - Len(p)] # ESCAPE /\ b[j - Len(p)] = s[j - Len(p)] BY <1>2, <1>3, <3>1, ZenonT(30)
    <3>3. QED BY <2>3, <2>5, <3>2, Zenon
  <2>6. QED BY <2>4, <2>5, Zenon
<1>10. HasEscape(w)
  <2>1. k \in DOMAIN w BY <1>7
  <2>2. QED BY <1>8, <2>1, Zenon DEF HasEscape
<1>11. k \in EscapesAt(w) BY <1>3, <1>8, <1>9, <1>10, Zenon DEF EscapesAt
<1>12. cut \in 1 .. n BY <1>2, <1>3, Zenon
<1>13. QED BY <1>3, <1>5, <1>7, <1>11, <1>12, Zenon

-----------------------------------------------------------------------------
\* What a clone has stored of its entry at each point of `of` and `drop`.
OwnedBy(c) ==
    /\ pc[c] \in {"hit", "len", "start", "unmapped", "drop len", "drop taken"}
          => slot[c] \in Slots
    /\ pc[c] = "live" => slot[c] \in Slots \cup {0}
    /\ pc[c] = "claim" => slot[c] \in 1 .. WATCHED + 1
    /\ Holds(c) => slot[c] \in taken
    /\ Mapped(c) => base[c] \in 1 .. Pages
    /\ pc[c] \in {"start", "live"} /\ slot[c] # 0 => len[slot[c]] = size[c]
    /\ pc[c] = "live" /\ slot[c] # 0 => start[slot[c]] = base[c]

\* Where the handler of a clone is with respect to the clone's own entry.
ScanOf(c) ==
    fault[c] # "none" =>
        /\ pc[c] = "live"
        /\ addr[c] >= base[c] /\ addr[c] < base[c] + size[c]
        /\ scan[c] \in 1 .. WATCHED + 1
        /\ fault[c] # "taken" => scan[c] \in Slots
        /\ slot[c] # 0 => scan[c] <= slot[c]
        /\ (fault[c] = "len" /\ scan[c] = slot[c]) => seen[c] = base[c]

\* Mappings do not overlap.
Disjoint ==
    \A c, d \in Clones : (c # d /\ Mapped(c) /\ Mapped(d)) =>
        base[c] + size[c] <= base[d] \/ base[d] + size[d] <= base[c]

\* A start that is not 0 was stored by the owner of the entry.
Filled ==
    \A i \in Slots : start[i] # 0 =>
        \E d \in Clones : slot[d] = i /\ pc[d] \in {"live", "unmapped"} /\ base[d] = start[i]

\* While the handler is undisturbed, nothing is being freed and a start it read
\* is the one of a mapping that is still there.
StillFor(c) ==
    (fault[c] # "none" /\ calm[c] = "still") =>
        /\ \A d \in Clones : ~Freeing(d)
        /\ (fault[c] = "len" /\ seen[c] # 0) =>
              \E d \in Clones : slot[d] = scan[c] /\ pc[d] = "live" /\ base[d] = seen[c]

Owned == \A c \in Clones : OwnedBy(c)
Scanning == \A c \in Clones : ScanOf(c)
Still == \A c \in Clones : StillFor(c)

IInv ==
    /\ TypeOK /\ Owned /\ SlotsExclusive /\ Scanning /\ Disjoint /\ Filled /\ Still
    /\ ProcessSurvives /\ QuietFaultIsTold

----------------------------------------------------------------------------

\* The table is empty and nobody is in the handler at first.
LEMMA InitInv == Init => IInv
  BY WatchAssumption DEF Init, IInv, TypeOK, Owned, SlotsExclusive, Scanning, Disjoint,
     OwnedBy, ScanOf, StillFor, Filled, Still, ProcessSurvives, QuietFaultIsTold, Holds,
     Mapped, Freeing, Slots

\* The ranges the fields of the model take their values from.
LEMMA Ranges ==
    /\ 0 \in 0 .. Pages /\ 0 \in 0 .. WATCHED + 1 /\ 1 \in 0 .. WATCHED + 1
    /\ 1 \in 1 .. WATCHED + 1 /\ \A i \in Slots : i + 1 \in 1 .. WATCHED + 1
    /\ \A p \in 1 .. Pages : p \in 0 .. Pages
    /\ \A i \in Slots : i + 1 \in 0 .. WATCHED + 1
  BY WatchAssumption DEF Slots

\* Arithmetic of the scan of the table.
LEMMA Later == \A i, j \in Nat : i <= j /\ i # j => i + 1 <= j
  OBVIOUS

\* The range test of the handler, on numbers.
LEMMA InsideOwn ==
    \A page, first, count \in Nat :
        Inside(page, first, count) <=> first # 0 /\ page >= first /\ page < first + count
  BY DEF Inside

\* The fields a clone's thread computes with are numbers.
LEMMA Numbers ==
    ASSUME TypeOK, NEW c \in Clones
    PROVE  base[c] \in Nat /\ size[c] \in Nat /\ slot[c] \in Nat /\ addr[c] \in Nat
           /\ scan[c] \in Nat /\ seen[c] \in Nat
  <1>1. 0 .. Pages \subseteq Nat /\ 0 .. WATCHED + 1 \subseteq Nat
    BY WatchAssumption
  <1> QED
    BY <1>1, ZenonT(30) DEF TypeOK

\* Every step of `of`, `drop` and the handler keeps the types.
LEMMA NextType == TypeOK /\ Owned /\ Scanning /\ Next => TypeOK'
  <1> SUFFICES ASSUME TypeOK, Owned, Scanning, NEW c \in Clones, OwnerStep(c) \/ HandlerStep(c)
               PROVE  TypeOK'
    BY Zenon DEF Next
  <1>a. OwnedBy(c) /\ ScanOf(c)
    BY Zenon DEF Owned, Scanning
  <1> USE Ranges DEF TypeOK
  <1>1. ASSUME NEW first \in 1 .. Pages, NEW count \in 1 .. Pages, Map(c, first, count)
        PROVE  TypeOK'
    <2>1. first \in 0 .. Pages /\ count \in 0 .. Pages
      OBVIOUS
    <2> QED
      BY <1>1, <2>1, Zenon DEF Map, watch, handler
  <1>2. CASE Claim(c)
    <2>1. slot' \in [Clones -> 0 .. WATCHED + 1]
      <3>1. slot[c] \in taken => slot[c] + 1 \in 0 .. WATCHED + 1
        OBVIOUS
      <3> QED
        BY <1>2, <3>1, ZenonT(30) DEF Claim
    <2>2. taken' \subseteq Slots
      BY <1>2, ZenonT(30) DEF Claim
    <2> QED
      BY <1>2, <2>1, <2>2, Zenon DEF Claim, handler
  <1>3. CASE ClearHit(c)
    BY <1>3, Zenon DEF ClearHit, handler
  <1>4. CASE StoreLen(c)
    BY <1>4, Zenon DEF StoreLen, handler
  <1>5. CASE StoreStart(c)
    BY <1>5, Zenon DEF StoreStart, handler
  <1>6. CASE Unmap(c)
    BY <1>6, Zenon DEF Unmap, watch
  <1>7. CASE DropStart(c)
    BY <1>7, Zenon DEF DropStart, handler
  <1>8. CASE DropLen(c)
    BY <1>8, Zenon DEF DropLen, handler
  <1>9. CASE DropTaken(c)
    BY <1>9, Zenon DEF DropTaken, handler
  <1>10. ASSUME NEW page \in 1 .. Pages, Fault(c, page) PROVE TypeOK'
    <2>1. page \in 0 .. Pages
      OBVIOUS
    <2> QED
      BY <1>10, <2>1, Zenon DEF Fault, watch, clone
  <1>11. CASE ReadTaken(c)
    <2>1. scan' \in [Clones -> 0 .. WATCHED + 1]
      BY <1>11, ZenonT(30) DEF ReadTaken
    <2> QED
      BY <1>11, <2>1, Zenon DEF ReadTaken, watch, clone
  <1>12. CASE ReadStart(c)
    BY <1>12, <1>a, Zenon DEF ReadStart, watch, clone, ScanOf
  <1>13. CASE ReadLen(c)
    <2>1. scan[c] \in Slots
      BY <1>13, <1>a, Zenon DEF ReadLen, ScanOf
    <2>2. scan' \in [Clones -> 0 .. WATCHED + 1]
      BY <1>13, <2>1, ZenonT(30) DEF ReadLen
    <2> QED
      BY <1>13, <2>2, Zenon DEF ReadLen, watch, clone
  <1>14. CASE Place(c)
    BY <1>14, Zenon DEF Place, watch, clone
  <1>15. CASE Mark(c)
    BY <1>15, <1>a, Zenon DEF Mark, clone, ScanOf
  <1> QED
    BY <1>1, <1>2, <1>3, <1>4, <1>5, <1>6, <1>7, <1>8, <1>9, <1>10, <1>11, <1>12, <1>13,
       <1>14, <1>15, ZenonT(30) DEF OwnerStep, HandlerStep

\* The entry of a clone stays as the clone stored it: nobody else writes it.
LEMMA NextOwned == TypeOK /\ Owned /\ SlotsExclusive /\ Next => Owned'
  <1> SUFFICES ASSUME TypeOK, Owned, SlotsExclusive, NEW c \in Clones,
                      OwnerStep(c) \/ HandlerStep(c), NEW d \in Clones
               PROVE  OwnedBy(d)'
    BY Zenon DEF Next, Owned
  <1>a. OwnedBy(c) /\ OwnedBy(d)
    BY Zenon DEF Owned
  <1>b. (Holds(c) /\ Holds(d) /\ slot[c] = slot[d]) => c = d
    BY Zenon DEF SlotsExclusive
  <1>c. /\ taken \subseteq Slots /\ start \in [Slots -> 0 .. Pages] /\ len \in [Slots -> 0 .. Pages]
        /\ pc \in [Clones -> {"absent", "claim", "hit", "len", "start", "live", "unmapped",
                              "drop len", "drop taken"}]
        /\ base \in [Clones -> 0 .. Pages] /\ size \in [Clones -> 0 .. Pages]
        /\ slot \in [Clones -> 0 .. WATCHED + 1]
    BY Zenon DEF TypeOK
  <1>d. WATCHED \in Nat \ {0}
    BY WatchAssumption, Zenon
  <1> HIDE DEF TypeOK, Owned, SlotsExclusive
  <1> USE <1>a, <1>b, <1>c, <1>d DEF OwnedBy, Holds, Mapped, Slots
  <1>1. ASSUME NEW first \in 1 .. Pages, NEW count \in 1 .. Pages, Map(c, first, count)
        PROVE  OwnedBy(d)'
    <2>1. CASE c = d
      <3>1. pc'[d] = "claim" /\ slot'[d] = 1 /\ base'[d] = first
        BY <1>1, <2>1, Zenon DEF Map
      <3> HIDE <1>a, <1>b, <1>c DEF Slots
      <3> QED
        BY <3>1, Ranges, Zenon
    <2>2. CASE c # d
      <3>1. /\ pc'[d] = pc[d] /\ slot'[d] = slot[d] /\ base'[d] = base[d] /\ size'[d] = size[d]
            /\ taken' = taken /\ len' = len /\ start' = start
        BY <1>1, <2>2, Zenon DEF Map, watch
      <3> QED
        BY <3>1, Zenon
    <2> QED
      BY <2>1, <2>2, Zenon
  <1>2. CASE Claim(c)
    <2>1. taken \subseteq taken' /\ start' = start /\ len' = len /\ base' = base /\ size' = size
      BY <1>2, Zenon DEF Claim
    <2>2. CASE c = d
      <3>1. \/ pc'[c] = "live" /\ slot'[c] = 0
            \/ pc'[c] = "hit" /\ slot'[c] = slot[c] /\ slot[c] \in Slots /\ slot[c] \in taken'
            \/ pc'[c] = "claim" /\ slot'[c] = slot[c] + 1 /\ slot[c] \in Slots
        BY <1>2, Zenon DEF Claim
      <3>2. base[c] \in 1 .. Pages
        BY <1>2, Zenon DEF Claim
      <3> HIDE <1>a, <1>b, <1>c DEF Slots
      <3> QED
        BY <2>1, <2>2, <3>1, <3>2, Ranges, Zenon
    <2>3. CASE c # d
      <3>1. pc'[d] = pc[d] /\ slot'[d] = slot[d]
        BY <1>2, <2>3, Zenon DEF Claim
      <3> QED
        BY <2>1, <3>1, Zenon
    <2> QED
      BY <2>2, <2>3, Zenon
  <1>3. CASE ClearHit(c)
    BY <1>3, Zenon DEF ClearHit
  <1>4. CASE StoreLen(c)
    BY <1>4, Zenon DEF StoreLen
  <1>5. CASE StoreStart(c)
    BY <1>5, Zenon DEF StoreStart
  <1>6. CASE Unmap(c)
    BY <1>6, Zenon DEF Unmap, watch
  <1>7. CASE DropStart(c)
    BY <1>7, ZenonT(30) DEF DropStart
  <1>8. CASE DropLen(c)
    BY <1>8, Zenon DEF DropLen
  <1>9. CASE DropTaken(c)
    BY <1>9, ZenonT(30) DEF DropTaken
  <1>10. CASE HandlerStep(c)
    <2>1. UNCHANGED <<taken, start, len, clone>>
      BY <1>10, Zenon DEF HandlerStep, Fault, ReadTaken, ReadStart, ReadLen, Place, Mark, watch, clone
    <2> QED
      BY <2>1, ZenonT(30) DEF clone
  <1> QED
    BY <1>1, <1>2, <1>3, <1>4, <1>5, <1>6, <1>7, <1>8, <1>9, <1>10, Zenon DEF OwnerStep

\* An entry is taken by one compare_exchange and given free by its owner.
LEMMA NextExclusive == TypeOK /\ Owned /\ SlotsExclusive /\ Next => SlotsExclusive'
  <1> SUFFICES ASSUME TypeOK, Owned, SlotsExclusive, NEW e \in Clones,
                      OwnerStep(e) \/ HandlerStep(e), NEW c \in Clones, NEW d \in Clones,
                      Holds(c)', Holds(d)', slot'[c] = slot'[d]
               PROVE  c = d
    BY Zenon DEF Next, SlotsExclusive
  <1>a. OwnedBy(c) /\ OwnedBy(d)
    BY Zenon DEF Owned
  <1>b. (Holds(c) /\ Holds(d) /\ slot[c] = slot[d]) => c = d
    BY Zenon DEF SlotsExclusive
  <1>c. pc \in [Clones -> {"absent", "claim", "hit", "len", "start", "live", "unmapped",
                           "drop len", "drop taken"}] /\ slot \in [Clones -> 0 .. WATCHED + 1]
    BY Zenon DEF TypeOK
  <1> HIDE DEF TypeOK, Owned, SlotsExclusive
  <1>1. CASE Claim(e)
    <2>1. ASSUME NEW x \in Clones, Holds(x)', x # e
          PROVE  Holds(x) /\ slot'[x] = slot[x]
      BY <1>1, <2>1, <1>c, Zenon DEF Claim, Holds
    <2>2. Holds(e)' => slot'[e] = slot[e] /\ slot[e] \notin taken
      BY <1>1, <1>c, Zenon DEF Claim, Holds
    <2>3. ASSUME NEW x \in Clones, Holds(x)', x # e
          PROVE  slot'[x] \in taken
      BY <2>1, <2>3, Zenon DEF Owned, OwnedBy
    <2>4. CASE c = e /\ d # e
      BY <2>2, <2>3, <2>4, Zenon
    <2>5. CASE c # e /\ d = e
      BY <2>2, <2>3, <2>5, Zenon
    <2>6. CASE c # e /\ d # e
      BY <2>1, <2>6, <1>b, Zenon
    <2> QED
      BY <2>4, <2>5, <2>6, Zenon
  <1>2. CASE ~Claim(e)
    <2>1. ASSUME NEW x \in Clones, Holds(x)'
          PROVE  Holds(x) /\ slot'[x] = slot[x]
      BY <1>2, <2>1, <1>c, ZenonT(30) DEF OwnerStep, HandlerStep, Map, ClearHit, StoreLen, StoreStart, Unmap,
         DropStart, DropLen, DropTaken, Fault, ReadTaken, ReadStart, ReadLen, Place, Mark, clone,
         Holds
    <2> QED
      BY <2>1, <1>b, Zenon
  <1> QED
    BY <1>1, <1>2, Zenon

\* The kernel gives a new mapping pages that are free.
LEMMA NextDisjoint == TypeOK /\ Disjoint /\ Next => Disjoint'
  <1> SUFFICES ASSUME TypeOK, Disjoint, NEW e \in Clones, OwnerStep(e) \/ HandlerStep(e),
                      NEW c \in Clones, NEW d \in Clones, c # d, Mapped(c)', Mapped(d)'
               PROVE  (base[c] + size[c] <= base[d] \/ base[d] + size[d] <= base[c])'
    BY Zenon DEF Next, Disjoint
  <1>c. /\ pc \in [Clones -> {"absent", "claim", "hit", "len", "start", "live", "unmapped",
                              "drop len", "drop taken"}]
        /\ base \in [Clones -> 0 .. Pages] /\ size \in [Clones -> 0 .. Pages]
    BY Zenon DEF TypeOK
  <1> HIDE DEF TypeOK
  <1>1. ASSUME NEW first \in 1 .. Pages, NEW count \in 1 .. Pages, Map(e, first, count)
        PROVE  (base[c] + size[c] <= base[d] \/ base[d] + size[d] <= base[c])'
    <2>1. ASSUME NEW x \in Clones, Mapped(x)', x # e
          PROVE  /\ Mapped(x) /\ base'[x] = base[x] /\ size'[x] = size[x]
                 /\ first + count <= base[x] \/ base[x] + size[x] <= first
      BY <1>1, <2>1, <1>c, Zenon DEF Map, Mapped
    <2>2. base'[e] = first /\ size'[e] = count
      BY <1>1, <1>c, Zenon DEF Map
    <2> QED
      BY <2>1, <2>2, Zenon DEF Disjoint
  <1>2. CASE \A first, count \in 1 .. Pages : ~Map(e, first, count)
    <2>1. ASSUME NEW x \in Clones, Mapped(x)'
          PROVE  Mapped(x) /\ base'[x] = base[x] /\ size'[x] = size[x]
      BY <1>2, <2>1, <1>c, Zenon DEF OwnerStep, HandlerStep, Claim, ClearHit, StoreLen, StoreStart, Unmap,
         DropStart, DropLen, DropTaken, Fault, ReadTaken, ReadStart, ReadLen, Place, Mark, clone,
         Mapped
    <2> QED
      BY <2>1, Zenon DEF Disjoint
  <1> QED
    BY <1>1, <1>2, Zenon

\* The scan of a handler stops at the clone's own entry at the latest: the entry
\* is taken, and its start and length are those of the mapping.
LEMMA NextScanning == TypeOK /\ Owned /\ Scanning /\ Next => Scanning'
  <1> SUFFICES ASSUME TypeOK, Owned, Scanning, NEW c \in Clones,
                      OwnerStep(c) \/ HandlerStep(c), NEW d \in Clones
               PROVE  ScanOf(d)'
    BY Zenon DEF Next, Scanning
  <1>a. OwnedBy(d) /\ ScanOf(d)
    BY Zenon DEF Owned, Scanning
  <1>c. /\ taken \subseteq Slots /\ start \in [Slots -> 0 .. Pages] /\ len \in [Slots -> 0 .. Pages]
        /\ pc \in [Clones -> {"absent", "claim", "hit", "len", "start", "live", "unmapped",
                              "drop len", "drop taken"}]
        /\ base \in [Clones -> 0 .. Pages] /\ size \in [Clones -> 0 .. Pages]
        /\ slot \in [Clones -> 0 .. WATCHED + 1] /\ addr \in [Clones -> 0 .. Pages]
        /\ fault \in [Clones -> {"none", "taken", "start", "len", "place", "mark"}]
        /\ scan \in [Clones -> 0 .. WATCHED + 1] /\ seen \in [Clones -> 0 .. Pages]
    BY Zenon DEF TypeOK
  <1>n. /\ base[d] \in Nat /\ size[d] \in Nat /\ slot[d] \in Nat /\ addr[d] \in Nat
        /\ scan[d] \in Nat /\ seen[d] \in Nat
    BY Numbers, Zenon
  <1> HIDE DEF TypeOK, Owned, Scanning
  <1>1. CASE OwnerStep(c)
    <2>1. fault' = fault /\ addr' = addr /\ scan' = scan /\ seen' = seen
      BY <1>1, ZenonT(30) DEF OwnerStep, Map, Claim, ClearHit, StoreLen, StoreStart, Unmap, DropStart,
         DropLen, DropTaken, handler
    <2>2. (fault[d] # "none" /\ pc[d] = "live") =>
             pc'[d] = "live" /\ slot'[d] = slot[d] /\ base'[d] = base[d] /\ size'[d] = size[d]
      BY <1>1, <1>c, ZenonT(30) DEF OwnerStep, Map, Claim, ClearHit, StoreLen, StoreStart, Unmap, DropStart,
         DropLen, DropTaken
    <2> QED
      BY <2>1, <2>2, <1>a, Zenon DEF ScanOf
  <1>2. CASE HandlerStep(c)
    <2>1. pc' = pc /\ slot' = slot /\ base' = base /\ size' = size
      BY <1>2, Zenon DEF HandlerStep, Fault, ReadTaken, ReadStart, ReadLen, Place, Mark, clone
    <2>2. CASE c # d
      <3>1. fault'[d] = fault[d] /\ addr'[d] = addr[d] /\ scan'[d] = scan[d] /\ seen'[d] = seen[d]
        BY <1>2, <2>2, <1>c, ZenonT(30) DEF HandlerStep, Fault, ReadTaken, ReadStart, ReadLen, Place, Mark
      <3> QED
        BY <2>1, <3>1, <1>a, ZenonT(30) DEF ScanOf
    <2> SUFFICES ASSUME c = d PROVE ScanOf(d)'
      BY <2>2, Zenon
    <2>3. ASSUME NEW page \in 1 .. Pages, Fault(d, page) PROVE ScanOf(d)'
      <3>1. fault'[d] = "taken" /\ addr'[d] = page /\ scan'[d] = 1 /\ pc[d] = "live"
            /\ page >= base[d] /\ page < base[d] + size[d]
        BY <2>3, <1>c, Zenon DEF Fault
      <3>2. slot[d] # 0 => 1 <= slot[d]
        BY <1>n
      <3> QED
        BY <2>1, <3>1, <3>2, Ranges, Zenon DEF ScanOf
    <2>4. CASE ReadTaken(d)
      <3>1. slot[d] # 0 => slot[d] \in taken
        BY <2>4, <1>a, ZenonT(30) DEF ReadTaken, ScanOf, OwnedBy, Holds
      <3>2. CASE scan[d] \in Slots \ taken /\ scan'[d] = scan[d] + 1 /\ fault'[d] = "taken"
        <4>1. slot[d] # 0 => scan[d] + 1 <= slot[d]
          BY <2>4, <3>1, <3>2, <1>a, <1>n, Later, Zenon DEF ReadTaken, ScanOf
        <4> QED
          BY <2>1, <2>4, <3>2, <4>1, <1>a, Ranges, Zenon DEF ReadTaken, ScanOf
      <3>3. CASE scan'[d] = scan[d] /\ (fault'[d] = fault[d] \/ (scan[d] \in taken /\ fault'[d] = "start"))
        BY <2>1, <2>4, <3>3, <1>a, <1>c, ZenonT(30) DEF ReadTaken, ScanOf
      <3>4. CASE scan[d] > WATCHED /\ fault' = fault /\ scan' = scan
        BY <2>1, <2>4, <3>4, <1>a, Zenon DEF ReadTaken, ScanOf
      <3>5. CASE scan[d] \in Slots \ taken /\ scan' = [scan EXCEPT ![d] = @ + 1] /\ fault' = fault
        BY <2>4, <3>2, <3>5, <1>c, Zenon DEF ReadTaken
      <3>6. CASE scan[d] \in taken /\ fault' = [fault EXCEPT ![d] = "start"] /\ scan' = scan
        BY <3>3, <3>6, <1>c, Zenon
      <3> QED
        BY <2>4, <3>4, <3>5, <3>6, Zenon DEF ReadTaken
    <2>5. CASE ReadStart(d)
      <3>1. fault'[d] = "len" /\ seen'[d] = start[scan[d]] /\ scan' = scan /\ addr' = addr
        BY <2>5, <1>c, ZenonT(30) DEF ReadStart
      <3>2. (scan[d] = slot[d] /\ slot[d] # 0) => start[scan[d]] = base[d]
        BY <2>5, <1>a, ZenonT(30) DEF ReadStart, ScanOf, OwnedBy
      <3>3. scan[d] \in Slots /\ scan[d] # 0
        BY <2>5, <1>a, WatchAssumption, SMTT(60) DEF ReadStart, ScanOf, Slots
      <3> QED
        BY <2>1, <2>5, <3>1, <3>2, <3>3, <1>a, Zenon DEF ReadStart, ScanOf
    <2>6. CASE ReadLen(d)
      <3>1. scan[d] \in Slots /\ pc[d] = "live"
        BY <2>6, <1>a, ZenonT(30) DEF ReadLen, ScanOf
      <3>2. (scan[d] = slot[d]) => Inside(addr[d], seen[d], len[scan[d]])
        <4> SUFFICES ASSUME scan[d] = slot[d] PROVE Inside(addr[d], seen[d], len[scan[d]])
          OBVIOUS
        <4>1. slot[d] # 0
          BY <3>1, WatchAssumption DEF Slots
        <4>2. seen[d] = base[d] /\ len[scan[d]] = size[d] /\ base[d] \in 1 .. Pages
          BY <2>6, <3>1, <4>1, <1>a, Zenon DEF ReadLen, ScanOf, OwnedBy, Mapped
        <4>4. base[d] # 0
          BY <4>2, WatchAssumption, SMTT(60)
        <4>3. addr[d] >= base[d] /\ addr[d] < base[d] + size[d]
          BY <2>6, <1>a, Zenon DEF ReadLen, ScanOf
        <4> QED
          BY <4>1, <4>2, <4>3, <4>4, <1>n, InsideOwn, Zenon
      <3>3. CASE Inside(addr[d], seen[d], len[scan[d]])
        BY <2>1, <2>6, <3>1, <3>3, <1>a, <1>c, ZenonT(30) DEF ReadLen, ScanOf
      <3>4. CASE ~Inside(addr[d], seen[d], len[scan[d]])
        <4>1. slot[d] # 0 => scan[d] + 1 <= slot[d]
          BY <2>6, <3>2, <3>4, <1>a, <1>n, Later, Zenon DEF ReadLen, ScanOf
        <4>2. fault'[d] = "taken" /\ scan'[d] = scan[d] + 1 /\ addr' = addr
          BY <2>6, <3>4, <1>c, Zenon DEF ReadLen
        <4>3. addr[d] >= base[d] /\ addr[d] < base[d] + size[d]
          BY <2>6, <1>a, Zenon DEF ReadLen, ScanOf
        <4>4. scan'[d] \in 1 .. WATCHED + 1
          BY <3>1, <4>2, Ranges, Zenon
        <4> QED
          BY <2>1, <3>1, <4>1, <4>2, <4>3, <4>4, Zenon DEF ScanOf
      <3> QED
        BY <3>3, <3>4, Zenon
    <2>7. CASE Place(d)
      BY <2>1, <2>7, <1>a, <1>c, Zenon DEF Place, ScanOf
    <2>8. CASE Mark(d)
      BY <2>1, <2>8, <1>a, <1>c, Zenon DEF Mark, ScanOf
    <2> QED
      BY <1>2, <2>3, <2>4, <2>5, <2>6, <2>7, <2>8, Zenon DEF HandlerStep
  <1> QED
    BY <1>1, <1>2, Zenon

\* Only the owner of an entry stores its start, and it clears it before it is
\* gone.
LEMMA NextFilled == TypeOK /\ Owned /\ SlotsExclusive /\ Filled /\ Next => Filled'
  <1> SUFFICES ASSUME TypeOK, Owned, SlotsExclusive, Filled, NEW c \in Clones,
                      OwnerStep(c) \/ HandlerStep(c), NEW i \in Slots, start'[i] # 0
               PROVE  \E d \in Clones :
                         slot'[d] = i /\ pc'[d] \in {"live", "unmapped"} /\ base'[d] = start'[i]
    BY Zenon DEF Next, Filled
  <1>c. /\ pc \in [Clones -> {"absent", "claim", "hit", "len", "start", "live", "unmapped",
                              "drop len", "drop taken"}]
        /\ base \in [Clones -> 0 .. Pages] /\ slot \in [Clones -> 0 .. WATCHED + 1]
        /\ start \in [Slots -> 0 .. Pages]
    BY Zenon DEF TypeOK
  <1> HIDE DEF TypeOK
  <1>1. CASE StoreStart(c) /\ slot[c] = i
    BY <1>1, <1>c, Zenon DEF StoreStart
  <1>2. CASE ~(StoreStart(c) /\ slot[c] = i)
    <2>1. start'[i] = start[i]
      BY <1>2, <1>c, ZenonT(30) DEF OwnerStep, HandlerStep, Map, Claim, ClearHit, StoreLen, StoreStart, Unmap,
         DropStart, DropLen, DropTaken, Fault, ReadTaken, ReadStart, ReadLen, Place, Mark, watch
    <2>2. PICK d \in Clones : slot[d] = i /\ pc[d] \in {"live", "unmapped"} /\ base[d] = start[i]
      BY <2>1, Zenon DEF Filled
    <2>3. ~(DropStart(c) /\ c = d)
      BY <2>1, <2>2, <1>c, Zenon DEF DropStart
    <2>4. i # 0
      BY WatchAssumption, SMTT(60) DEF Slots
    <2>5. slot'[d] = i /\ pc'[d] \in {"live", "unmapped"} /\ base'[d] = base[d]
      BY <2>2, <2>3, <2>4, <1>c, ZenonT(30) DEF OwnerStep, HandlerStep, Map, Claim, ClearHit, StoreLen,
         StoreStart, Unmap, DropStart, DropLen, DropTaken, Fault, ReadTaken, ReadStart, ReadLen,
         Place, Mark, clone
    <2> QED
      BY <2>1, <2>2, <2>5, Zenon
  <1> QED
    BY <1>1, <1>2, Zenon

\* Freeing begins with Unmap, which ends the calm of every handler.
LEMMA NextStill ==
    TypeOK /\ Owned /\ Scanning /\ Filled /\ Still /\ Next => Still'
  <1> SUFFICES ASSUME TypeOK, Owned, Scanning, Filled, Still, NEW e \in Clones,
                      OwnerStep(e) \/ HandlerStep(e), NEW c \in Clones,
                      fault'[c] # "none", calm'[c] = "still"
               PROVE  /\ \A d \in Clones : ~Freeing(d)'
                      /\ (fault'[c] = "len" /\ seen'[c] # 0) => \E d \in Clones :
                            slot'[d] = scan'[c] /\ pc'[d] = "live" /\ base'[d] = seen'[c]
    BY ZenonT(30) DEF Next, Still, StillFor
  <1>a. StillFor(c) /\ ScanOf(c)
    BY Zenon DEF Still, Scanning
  <1>c. /\ pc \in [Clones -> {"absent", "claim", "hit", "len", "start", "live", "unmapped",
                              "drop len", "drop taken"}]
        /\ base \in [Clones -> 0 .. Pages] /\ slot \in [Clones -> 0 .. WATCHED + 1]
        /\ fault \in [Clones -> {"none", "taken", "start", "len", "place", "mark"}]
        /\ scan \in [Clones -> 0 .. WATCHED + 1] /\ seen \in [Clones -> 0 .. Pages]
        /\ calm \in [Clones -> {"still", "freed", "freeing"}]
    BY ZenonT(30) DEF TypeOK
  <1> HIDE DEF TypeOK, Owned, Scanning, Still, Filled
  <1>1. CASE OwnerStep(e)
    <2>1. ~Unmap(e)
      BY Zenon DEF Unmap
    <2>2. fault' = fault /\ calm' = calm /\ scan' = scan /\ seen' = seen
      BY <1>1, <2>1, ZenonT(30) DEF OwnerStep, Map, Claim, ClearHit, StoreLen, StoreStart, DropStart,
         DropLen, DropTaken, handler
    <2>3. \A d \in Clones : ~Freeing(d)
      BY <2>2, <1>a, Zenon DEF StillFor
    <2>4. \A d \in Clones : ~Freeing(d)'
      BY <1>1, <2>1, <2>3, <1>c, ZenonT(30) DEF OwnerStep, Map, Claim, ClearHit, StoreLen, StoreStart,
         DropStart, DropLen, DropTaken, Freeing
    <2>5. ASSUME NEW d \in Clones, pc[d] = "live"
          PROVE  pc'[d] = "live" /\ slot'[d] = slot[d] /\ base'[d] = base[d]
      BY <1>1, <2>1, <2>5, <1>c, ZenonT(30) DEF OwnerStep, Map, Claim, ClearHit, StoreLen, StoreStart,
         DropStart, DropLen, DropTaken
    <2> QED
      BY <2>2, <2>4, <2>5, <1>a, ZenonT(30) DEF StillFor
  <1>2. CASE HandlerStep(e)
    <2>1. pc' = pc /\ slot' = slot /\ base' = base
      BY <1>2, ZenonT(30) DEF HandlerStep, Fault, ReadTaken, ReadStart, ReadLen, Place, Mark, clone
    <2>2. CASE \E page \in 1 .. Pages : Fault(e, page) /\ e = c
      <3>1. fault'[c] = "taken" /\ \A d \in Clones : ~Freeing(d)
        BY <2>2, <1>c, ZenonT(30) DEF Fault
      <3> QED
        BY <2>1, <3>1, Zenon DEF Freeing
    <2>3. CASE \A page \in 1 .. Pages : ~(Fault(e, page) /\ e = c)
      <3>1. calm'[c] = calm[c] /\ fault[c] # "none"
        BY <1>2, <2>3, <1>c, ZenonT(30) DEF HandlerStep, Fault, ReadTaken, ReadStart, ReadLen, Place, Mark
      <3>2. \A d \in Clones : ~Freeing(d)
        BY <3>1, <1>a, Zenon DEF StillFor
      <3>3. CASE ReadStart(e) /\ e = c
        <4>1. seen'[c] = start[scan[c]] /\ scan' = scan /\ scan[c] \in Slots
          BY <3>3, <1>a, <1>c, ZenonT(30) DEF ReadStart, ScanOf
        <4>2. ASSUME seen'[c] # 0
              PROVE  \E d \in Clones : slot[d] = scan[c] /\ pc[d] = "live" /\ base[d] = seen'[c]
          <5>1. PICK d \in Clones : /\ slot[d] = scan[c] /\ pc[d] \in {"live", "unmapped"}
                                    /\ base[d] = start[scan[c]]
            BY <4>1, <4>2, Zenon DEF Filled
          <5> QED
            BY <3>2, <4>1, <5>1, Zenon DEF Freeing
        <4> QED
          BY <2>1, <3>2, <4>1, <4>2, Zenon DEF Freeing
      <3>4. CASE ~(ReadStart(e) /\ e = c)
        <4>1. fault'[c] = "len" => fault[c] = "len" /\ seen'[c] = seen[c] /\ scan'[c] = scan[c]
          BY <1>2, <3>4, <1>c, ZenonT(30) DEF HandlerStep, Fault, ReadTaken, ReadStart, ReadLen, Place, Mark
        <4> QED
          BY <2>1, <3>1, <3>2, <4>1, <1>a, ZenonT(30) DEF StillFor, Freeing
      <3> QED
        BY <3>3, <3>4, ZenonT(30)
    <2> QED
      BY <2>2, <2>3, ZenonT(30)
  <1> QED
    BY <1>1, <1>2, ZenonT(30)

\* Past the last entry the clone cannot have one, its scan stopped there.
LEMMA NextSurvives ==
    TypeOK /\ Owned /\ Scanning /\ ProcessSurvives /\ Next => ProcessSurvives'
  <1> SUFFICES ASSUME TypeOK, Owned, Scanning, exited = Nobody, NEW e \in Clones,
                      OwnerStep(e) \/ HandlerStep(e), NEW c \in Clones, exited' = c
               PROVE  slot'[c] = 0 \/ fault'[c] = "place"
    BY Zenon DEF Next, ProcessSurvives
  <1>1. c # Nobody
    BY WatchAssumption, Zenon
  <1>2. HandlerStep(e) /\ e = c /\ (ReadTaken(c) \/ Place(c))
    BY <1>1, Zenon DEF OwnerStep, HandlerStep, Map, Claim, ClearHit, StoreLen, StoreStart, Unmap,
       DropStart, DropLen, DropTaken, Fault, ReadTaken, ReadStart, ReadLen, Place, Mark
  <1>3. CASE Place(c)
    BY <1>1, <1>3, Zenon DEF Place
  <1>4. CASE ReadTaken(c)
    <2>1. scan[c] > WATCHED /\ slot' = slot
      BY <1>1, <1>4, Zenon DEF ReadTaken, clone
    <2>2. pc[c] = "live" /\ (slot[c] # 0 => scan[c] <= slot[c])
      BY <1>4, Zenon DEF Scanning, ScanOf, ReadTaken
    <2>3. slot[c] # 0 => slot[c] \in Slots
      BY <2>2, Zenon DEF Owned, OwnedBy
    <2>4. scan[c] \in Nat
      BY Numbers, Zenon
    <2> HIDE DEF TypeOK, Owned, Scanning
    <2> QED
      BY <2>1, <2>2, <2>3, <2>4, WatchAssumption DEF Slots
  <1> QED
    BY <1>2, <1>3, <1>4, Zenon

\* An undisturbed handler matches an entry of a mapping that holds the page, and
\* only the clone's own does.
LEMMA NextQuiet ==
    TypeOK /\ Owned /\ Scanning /\ Disjoint /\ Still /\ QuietFaultIsTold /\ Next => QuietFaultIsTold'
  <1> SUFFICES ASSUME TypeOK, Owned, Scanning, Disjoint, Still, QuietFaultIsTold, NEW e \in Clones,
                      OwnerStep(e) \/ HandlerStep(e), NEW c \in Clones,
                      fault'[c] \in {"place", "mark"}, calm'[c] = "still", slot'[c] # 0
               PROVE  scan'[c] = slot'[c]
    BY Zenon DEF Next, QuietFaultIsTold
  <1>c. /\ pc \in [Clones -> {"absent", "claim", "hit", "len", "start", "live", "unmapped",
                              "drop len", "drop taken"}]
        /\ slot \in [Clones -> 0 .. WATCHED + 1]
        /\ fault \in [Clones -> {"none", "taken", "start", "len", "place", "mark"}]
        /\ scan \in [Clones -> 0 .. WATCHED + 1]
        /\ calm \in [Clones -> {"still", "freed", "freeing"}]
    BY Zenon DEF TypeOK
  <1>1. CASE ReadLen(e) /\ e = c
    <2>1. /\ Inside(addr[c], seen[c], len[scan[c]]) /\ fault[c] = "len" /\ calm[c] = "still"
          /\ scan' = scan /\ slot' = slot
      BY <1>1, <1>c, Zenon DEF ReadLen, clone
    <2>2. /\ pc[c] = "live" /\ scan[c] \in Slots
          /\ addr[c] >= base[c] /\ addr[c] < base[c] + size[c]
      BY <2>1, Zenon DEF Scanning, ScanOf
    <2>3. seen[c] # 0
      BY <2>1, Zenon DEF Inside
    <2>4. PICK d \in Clones : slot[d] = scan[c] /\ pc[d] = "live" /\ base[d] = seen[c]
      BY <2>1, <2>3, Zenon DEF Still, StillFor
    <2>5. slot[d] # 0
      BY <2>2, <2>4, WatchAssumption, SMTT(60) DEF Slots
    <2>6. len[scan[c]] = size[d]
      BY <2>4, <2>5, ZenonT(30) DEF Owned, OwnedBy
    <2>7. /\ base[c] \in Nat /\ size[c] \in Nat /\ addr[c] \in Nat
          /\ base[d] \in Nat /\ size[d] \in Nat
      BY Numbers, Zenon
    <2>8. addr[c] >= base[d] /\ addr[c] < base[d] + size[d]
      BY <2>1, <2>4, <2>6, <2>7, InsideOwn, Zenon
    <2>9. c # d => base[c] + size[c] <= base[d] \/ base[d] + size[d] <= base[c]
      BY <2>2, <2>4, Zenon DEF Disjoint, Mapped
    <2> HIDE DEF TypeOK, Owned, Scanning, Disjoint, Still, QuietFaultIsTold
    <2>10. c = d
      BY <2>2, <2>7, <2>8, <2>9, SMTT(60)
    <2> QED
      BY <2>1, <2>4, <2>10, Zenon
  <1>2. CASE ~(ReadLen(e) /\ e = c)
    <2>1. fault[c] \in {"place", "mark"} /\ calm[c] = "still" /\ scan'[c] = scan[c]
      BY <1>2, <1>c, ZenonT(30) DEF OwnerStep, HandlerStep, Map, Claim, ClearHit, StoreLen, StoreStart, Unmap,
         DropStart, DropLen, DropTaken, Fault, ReadTaken, ReadStart, ReadLen, Place, Mark, handler
    <2>2. pc[c] = "live"
      BY <2>1, ZenonT(30) DEF Scanning, ScanOf
    <2>3. slot'[c] = slot[c]
      BY <2>1, <2>2, <1>c, Zenon DEF OwnerStep, HandlerStep, Map, Claim, ClearHit, StoreLen, StoreStart,
         Unmap, DropStart, DropLen, DropTaken, Fault, ReadTaken, ReadStart, ReadLen, Place, Mark,
         clone
    <2> QED
      BY <2>1, <2>3, Zenon DEF QuietFaultIsTold
  <1> QED
    BY <1>1, <1>2, Zenon

----------------------------------------------------------------------------

\* The table, the owners and the handlers keep the inductive invariant through
\* every interleaving of Watched::of, Watched::drop and on_bus.
THEOREM WatchInvariant == Spec => []IInv
  <1>1. IInv /\ [Next]_vars => IInv'
    <2>1. IInv /\ Next => IInv'
      BY NextType, NextOwned, NextExclusive, NextScanning, NextDisjoint, NextFilled, NextStill,
         NextSurvives, NextQuiet, Zenon DEF IInv
    <2>2. IInv /\ UNCHANGED vars => IInv'
      <3> SUFFICES ASSUME IInv, UNCHANGED vars PROVE IInv'
        OBVIOUS
      <3> USE DEF IInv, vars, watch, clone, handler
      <3>1. TypeOK'
        BY ZenonT(30) DEF TypeOK
      <3>2. Owned' /\ SlotsExclusive'
        BY ZenonT(30) DEF Owned, OwnedBy, SlotsExclusive, Holds, Mapped
      <3>3. Scanning' /\ Disjoint'
        BY Zenon DEF Scanning, ScanOf, Disjoint, Mapped
      <3>4. Filled' /\ Still'
        BY ZenonT(60) DEF Filled, Still, StillFor, Freeing
      <3>5. ProcessSurvives' /\ QuietFaultIsTold'
        BY Zenon DEF ProcessSurvives, QuietFaultIsTold
      <3> QED
        BY <3>1, <3>2, <3>3, <3>4, <3>5, Zenon
    <2> QED
      BY <2>1, <2>2, Zenon
  <1> QED
    BY InitInv, <1>1, PTL DEF Spec

\* No entry is held by two GuestRams (the compare_exchange of Watched::of).
THEOREM OneOwner == Spec => []SlotsExclusive
  BY WatchInvariant, PTL DEF IInv

\* The handler ends the process only for a page of a clone without an entry, or
\* when mmap fails (on_bus).
THEOREM LostPageSurvived == Spec => []ProcessSurvives
  BY WatchInvariant, PTL DEF IInv

\* With no entry being freed, the fault is marked on the clone it happened in, so
\* that `faulted` tells the right owner.
THEOREM RightOwnerTold == Spec => []QuietFaultIsTold
  BY WatchInvariant, PTL DEF IInv

-----------------------------------------------------------------------------
ProgramType ==
    /\ stage \in {"args", "config", "assemble", "arm", "raw", "start", "forward", "drive", "fault", "deadline",
                  "report", "printed", "exited", "killed"}
    /\ watcher \in {"none", "read", "store", "stop", "gone"}
    /\ typist \in {"none", "read", "queue", "store", "stop", "gone"}
    /\ vm \in {"created", "running", "shutdown", "reboot", "other", "interrupted"}
    /\ signals \in Nat /\ signalled \in {0, SIGTERM}
    /\ raw \in BOOLEAN /\ tty \in BOOLEAN /\ escape \in BOOLEAN /\ escaped \in BOOLEAN /\ gap \in BOOLEAN

\* How far the program is, and what has begun by then.
Begun ==
    /\ raw => stage \in {"start", "forward", "drive", "fault", "deadline", "report"}
    /\ stage \in {"raw", "start", "forward", "drive", "fault", "deadline", "report"} => caught
    /\ stage \in {"args", "config", "assemble", "arm"} => watcher = "none"
    /\ stage \in {"args", "config", "assemble", "arm", "raw", "start", "forward"} => typist = "none"
    /\ stage \in {"args", "config", "assemble", "arm", "raw", "start", "printed", "killed"} => vm = "created"
    /\ vm = "running" => stage \in {"forward", "drive", "fault", "deadline"}

\* A stop is told after its reason is stored, and for a signal that was sent.
Reasons ==
    /\ sigpipe # <<>> \/ watcher \in {"store", "stop", "gone"} \/ signalled # 0 => signals > 0
    /\ watcher \in {"stop", "gone"} => signalled = SIGTERM
    /\ "signal" \in toldVm => watcher = "gone"
    /\ typist \in {"stop", "gone"} => escaped
    /\ "escape" \in toldVm => typist = "gone"
    /\ stage = "deadline" => "timeout" \in toldVm
    /\ stage = "report" => /\ ended = "nothing" => "timeout" \in toldVm
                           /\ ended \in {"error", "nothing", vm}

\* The bytes the input thread took, and what they are of.
Passed == echoed \o console \o chunk
PassedOf(typed) ==
    IF escape THEN \E cut \in EscapesAt(typed) \ {0} : Passed = SubSeq(typed, 1, cut - 1)
    ELSE Passed \o stdin = typed /\ (tty => ~HasEscape(Passed))

InputKept ==
    /\ stdin \in Seq(Nat) /\ chunk \in Seq(Nat) /\ console \in Seq(Nat) /\ echoed \in Seq(Nat)
    /\ typist = "none" => echoed = <<>> /\ console = <<>>
    /\ typist \in {"none", "read"} => chunk = <<>> /\ ~escape
    /\ typist \in {"store", "stop", "gone"} => chunk = <<>> /\ escape
    /\ ~gap => \E typed \in KEYS \cup {<<>>} : PassedOf(typed)

ProgramKept == ProgramType /\ Begun /\ Reasons /\ CodeIsTrue /\ InputKept

\* How a program ends: every step keeps what it rests on.
EndsWell == ProgramType /\ Begun /\ Reasons /\ CodeIsTrue

\* Giving up before the guest runs, with the usage or an error.
LEMMA GiveUp ==
    ASSUME ProgramType, Begun, Reasons, CodeIsTrue, stage \in {"args", "config", "assemble", "arm", "raw", "start"},
           stage' = "exited", raw' = FALSE, code' \in {EXIT_USAGE, EXIT_FAILURE},
           tty' \in BOOLEAN,
           UNCHANGED <<sigpipe, signals, watcher, signalled, typist, escape, escaped, gap, vm, toldVm>>
    PROVE  EndsWell'
<1>1. /\ sigpipe' = sigpipe /\ signals' = signals /\ watcher' = watcher /\ signalled' = signalled /\ typist' = typist
      /\ escape' = escape /\ escaped' = escaped /\ gap' = gap /\ vm' = vm /\ toldVm' = toldVm
  OBVIOUS
<1>2. vm = "created" BY Zenon DEF Begun
<1>3. code' \in {1, 2} BY Zenon DEF EXIT_USAGE, EXIT_FAILURE
<1>4. ProgramType' BY <1>1, ZenonT(30) DEF ProgramType
<1>5. Begun' BY <1>1, <1>2, Zenon DEF Begun
<1>6. Reasons' BY <1>1 DEF Reasons
<1>7. CodeIsTrue' BY <1>1, <1>2, <1>3 DEF CodeIsTrue, EXIT_TIMEOUT, SIGTERM
<1>8. QED BY <1>4, <1>5, <1>6, <1>7, Zenon DEF EndsWell

\* Every step keeps what the exit code rests on: who told the guest to stop, and what each
\* thread stored before it did.
LEMMA EndStep ==
    ASSUME EndsWell, [ProgramNext]_programVars
    PROVE  EndsWell'
<1>0. ProgramType /\ Begun /\ Reasons /\ CodeIsTrue BY Zenon DEF EndsWell
<1>1. CASE Cli
  <2>1. CASE stage' = "exited"
    <3>1. stage = "args" /\ raw' = FALSE /\ code' = EXIT_USAGE /\ UNCHANGED <<tty, Unstarted>>
      BY <1>1, <2>1, Zenon DEF Cli, Exit
    <3>2. tty' \in BOOLEAN BY <1>0, <3>1, Zenon DEF ProgramType
    <3>3. QED BY <1>0, <2>1, <3>1, <3>2, GiveUp, ZenonT(30) DEF Unstarted
  <2>2. CASE stage' # "exited"
    <3>1. ProgramType' BY <1>0, <1>1, <2>2 DEF Cli, Unstarted, Exit, ProgramType
    <3>2. Begun' BY <1>0, <1>1, <2>2 DEF Cli, Unstarted, Exit, Begun
    <3>3. Reasons' BY <1>0, <1>1, <2>2, Zenon DEF Cli, Unstarted, Exit, Reasons, ProgramType
    <3>4. CodeIsTrue' BY <1>0, <1>1, <2>2, Zenon DEF Cli, Unstarted, Exit, CodeIsTrue, ProgramType
    <3>5. QED BY <3>1, <3>2, <3>3, <3>4, Zenon DEF EndsWell
  <2>3. QED BY <2>1, <2>2, Zenon
<1>2. CASE ConfigOf
  <2>1. CASE stage' = "exited"
    <3>1. stage = "config" /\ raw' = FALSE /\ code' = EXIT_USAGE /\ UNCHANGED <<tty, Unstarted>>
      BY <1>2, <2>1, Zenon DEF ConfigOf, Exit
    <3>2. tty' \in BOOLEAN BY <1>0, <3>1, Zenon DEF ProgramType
    <3>3. QED BY <1>0, <2>1, <3>1, <3>2, GiveUp, ZenonT(30) DEF Unstarted
  <2>2. CASE stage' # "exited"
    <3>1. ProgramType' BY <1>0, <1>2, <2>2 DEF ConfigOf, Unstarted, Exit, ProgramType
    <3>2. Begun' BY <1>0, <1>2, <2>2 DEF ConfigOf, Unstarted, Exit, Begun
    <3>3. Reasons' BY <1>0, <1>2, <2>2, Zenon DEF ConfigOf, Unstarted, Exit, Reasons, ProgramType
    <3>4. CodeIsTrue' BY <1>0, <1>2, <2>2, Zenon DEF ConfigOf, Unstarted, Exit, CodeIsTrue, ProgramType
    <3>5. QED BY <3>1, <3>2, <3>3, <3>4, Zenon DEF EndsWell
  <2>3. QED BY <2>1, <2>2, Zenon
<1>3. CASE BootStep
  <2>1. UNCHANGED <<timeout, tty, sigpipe, signals, signalled, stdin, chunk, escape, escaped, console, echoed, gap,
                    toldVm, ended>>
    BY <1>3, Zenon DEF BootStep
  <2>2. CASE Assemble
    <3>1. ProgramType' BY <1>0, <2>1, <2>2 DEF Assemble, Goes, ProgramType
    <3>2. Begun' BY <1>0, <2>1, <2>2, Zenon DEF Assemble, Goes, Begun
    <3>3. Reasons' BY <1>0, <2>1, <2>2, Zenon DEF Assemble, Goes, Reasons, ProgramType
    <3>4. CodeIsTrue' BY <1>0, <2>1, <2>2, Zenon DEF Assemble, Goes, CodeIsTrue, ProgramType
    <3>5. QED BY <3>1, <3>2, <3>3, <3>4, Zenon DEF EndsWell
  <2>3. CASE ArmSignals
    <3>1. ProgramType' BY <1>0, <2>1, <2>3 DEF ArmSignals, Goes, ProgramType
    <3>2. Begun' BY <1>0, <2>1, <2>3, Zenon DEF ArmSignals, Goes, Begun
    <3>3. Reasons' BY <1>0, <2>1, <2>3, Zenon DEF ArmSignals, Goes, Reasons, Begun
    <3>4. CodeIsTrue' BY <1>0, <2>1, <2>3, Zenon DEF ArmSignals, Goes, CodeIsTrue, ProgramType
    <3>5. QED BY <3>1, <3>2, <3>3, <3>4, Zenon DEF EndsWell
  <2>4. CASE Raw
    <3>1. ProgramType' BY <1>0, <2>1, <2>4 DEF Raw, Goes, ProgramType
    <3>2. Begun' BY <1>0, <2>1, <2>4, Zenon DEF Raw, Goes, Begun
    <3>3. Reasons' BY <1>0, <2>1, <2>4, Zenon DEF Raw, Goes, Reasons, ProgramType
    <3>4. CodeIsTrue' BY <1>0, <2>1, <2>4, Zenon DEF Raw, Goes, CodeIsTrue, ProgramType
    <3>5. QED BY <3>1, <3>2, <3>3, <3>4, Zenon DEF EndsWell
  <2>5. CASE Start
    <3>1. ProgramType' BY <1>0, <2>1, <2>5 DEF Start, Goes, ProgramType
    <3>2. Begun' BY <1>0, <2>1, <2>5, Zenon DEF Start, Goes, Begun
    <3>3. Reasons' BY <1>0, <2>1, <2>5, Zenon DEF Start, Goes, Reasons, ProgramType
    <3>4. CodeIsTrue' BY <1>0, <2>1, <2>5, Zenon DEF Start, Goes, CodeIsTrue, ProgramType
    <3>5. QED BY <3>1, <3>2, <3>3, <3>4, Zenon DEF EndsWell
  <2>6. CASE ForwardInput
    <3>1. ProgramType' BY <1>0, <2>1, <2>6 DEF ForwardInput, Goes, ProgramType
    <3>2. Begun' BY <1>0, <2>1, <2>6, Zenon DEF ForwardInput, Goes, Begun
    <3>3. Reasons' BY <1>0, <2>1, <2>6, Zenon DEF ForwardInput, Goes, Reasons, Begun
    <3>4. CodeIsTrue' BY <1>0, <2>1, <2>6, Zenon DEF ForwardInput, Goes, CodeIsTrue, ProgramType
    <3>5. QED BY <3>1, <3>2, <3>3, <3>4, Zenon DEF EndsWell
  <2>7. CASE stage \in {"assemble", "arm", "raw", "start"} /\ Fails
    <3>1. stage' = "exited" /\ raw' = FALSE /\ code' = EXIT_FAILURE /\ UNCHANGED <<watcher, vm, typist>>
      BY <2>7, Zenon DEF Fails, Exit
    <3>2. tty' \in BOOLEAN BY <1>0, <2>1, Zenon DEF ProgramType
    <3>3. QED BY <1>0, <2>1, <2>7, <3>1, <3>2, GiveUp, ZenonT(30)
  <2>8. QED BY <1>3, <2>2, <2>3, <2>4, <2>5, <2>6, <2>7, Zenon DEF BootStep
<1>4. CASE MachineEnds
  <2>1. ProgramType' BY <1>0, <1>4 DEF MachineEnds, threads, SIGTERM, ProgramType
  <2>2. Begun' BY <1>0, <1>4, Zenon DEF MachineEnds, threads, SIGTERM, Begun
  <2>3. Reasons' BY <1>0, <1>4, Zenon DEF MachineEnds, threads, Reasons, Begun
  <2>4. CodeIsTrue' BY <1>0, <1>4, Zenon DEF MachineEnds, threads, CodeIsTrue, Begun
  <2>5. QED BY <2>1, <2>2, <2>3, <2>4, Zenon DEF EndsWell
<1>5. CASE GuestReads
  <2>1. ProgramType' BY <1>0, <1>5 DEF GuestReads, SIGTERM, ProgramType
  <2>2. Begun' BY <1>0, <1>5, Zenon DEF GuestReads, SIGTERM, Begun
  <2>3. Reasons' BY <1>0, <1>5, Zenon DEF GuestReads, SIGTERM, Reasons, ProgramType
  <2>4. CodeIsTrue' BY <1>0, <1>5, Zenon DEF GuestReads, SIGTERM, CodeIsTrue, ProgramType
  <2>5. QED BY <2>1, <2>2, <2>3, <2>4, Zenon DEF EndsWell
<1>6. CASE ControlStop
  <2>1. ProgramType' BY <1>0, <1>6 DEF ControlStop, TellVm, threads, SIGTERM, ProgramType
  <2>2. Begun' BY <1>0, <1>6, Zenon DEF ControlStop, TellVm, threads, SIGTERM, Begun
  <2>3. Reasons' BY <1>0, <1>6, Zenon DEF ControlStop, TellVm, threads, SIGTERM, Reasons, ProgramType
  <2>4. CodeIsTrue' BY <1>0, <1>6, Zenon DEF ControlStop, TellVm, threads, SIGTERM, CodeIsTrue, ProgramType
  <2>5. QED BY <2>1, <2>2, <2>3, <2>4, Zenon DEF EndsWell
<1>7. CASE Drive
  <2>1. ProgramType' BY <1>0, <1>7 DEF Drive, TellVm, threads, SIGTERM, ProgramType
  <2>2. Begun' BY <1>0, <1>7, Zenon DEF Drive, TellVm, threads, SIGTERM, Begun
  <2>3. Reasons' BY <1>0, <1>7, Zenon DEF Drive, TellVm, threads, SIGTERM, Reasons, ProgramType
  <2>4. CodeIsTrue' BY <1>0, <1>7, Zenon DEF Drive, TellVm, threads, SIGTERM, CodeIsTrue, ProgramType
  <2>5. QED BY <2>1, <2>2, <2>3, <2>4, Zenon DEF EndsWell
<1>8. CASE DriveWait
  <2>1. ProgramType' BY <1>0, <1>8 DEF DriveWait, threads, SIGTERM, ProgramType
  <2>2. Begun' BY <1>0, <1>8, Zenon DEF DriveWait, threads, SIGTERM, Begun
  <2>3. Reasons' BY <1>0, <1>8, Zenon DEF DriveWait, threads, SIGTERM, Reasons, ProgramType
  <2>4. CodeIsTrue' BY <1>0, <1>8, Zenon DEF DriveWait, threads, SIGTERM, CodeIsTrue, ProgramType
  <2>5. QED BY <2>1, <2>2, <2>3, <2>4, Zenon DEF EndsWell
<1>9. CASE ReturnCode
  <2>1. /\ stage = "report" /\ stage' = "exited" /\ code' = Status /\ raw' = FALSE
        /\ UNCHANGED <<timeout, tty, caught, sigpipe, signals, threads, vm, toldVm, ended>>
    BY <1>9, Zenon DEF ReturnCode, Exit
  <2>8. /\ watcher' = watcher /\ signalled' = signalled /\ typist' = typist /\ escape' = escape /\ escaped' = escaped
        /\ gap' = gap /\ vm' = vm /\ signals' = signals /\ tty' = tty
    BY <2>1, Zenon DEF threads
  <2>5. ProgramType'
    <3>1. ProgramType BY <1>0, Zenon
    <3>2. stage' = "exited" /\ raw' \in BOOLEAN BY <2>1, ZenonT(30)
    <3>3. QED BY <2>8, <3>1, <3>2, SMTT(30) DEF ProgramType
  <2>6. Begun' BY <1>0, <2>1, Zenon DEF Begun, threads
  <2>7. Reasons' BY <1>0, <2>1, Zenon DEF Reasons, threads
  <2>2. ProgramType' /\ Begun' /\ Reasons' BY <2>5, <2>6, <2>7, Zenon
  <2>3. CodeIsTrue'
    BY <1>0, <2>1 DEF ProgramType, Begun, Reasons, CodeIsTrue, threads, Status, ExitCode,
       EXIT_REBOOT, EXIT_USAGE, EXIT_FAILURE, EXIT_TIMEOUT, SIGTERM
  <2>4. QED BY <2>2, <2>3, Zenon DEF EndsWell
<1>10. CASE Signal
  <2>1. ProgramType' BY <1>0, <1>10 DEF Signal, Alive, threads, SIGTERM, ProgramType
  <2>2. Begun' BY <1>0, <1>10, Zenon DEF Signal, Alive, threads, Begun, ProgramType
  <2>3. Reasons' BY <1>0, <1>10 DEF Signal, Alive, threads, SIGTERM, Reasons, ProgramType
  <2>4. CodeIsTrue' BY <1>0, <1>10, ZenonT(30) DEF Signal, Alive, threads, SIGTERM, CodeIsTrue, ProgramType
  <2>5. QED BY <2>1, <2>2, <2>3, <2>4, Zenon DEF EndsWell
<1>11. CASE Watch
  <2>1. /\ watcher = "read" => watcher' = "store" /\ sigpipe # <<>>
        /\ watcher = "store" => watcher' = "stop" /\ signalled' = SIGTERM
        /\ watcher = "stop" => watcher' = "gone" /\ toldVm' = toldVm \cup {"signal"}
        /\ watcher # "store" => signalled' = signalled
        /\ watcher # "stop" => toldVm' = toldVm
        /\ watcher \in {"read", "store", "stop"} /\ stage \notin {"printed", "exited", "killed"}
        /\ watcher # "read" => sigpipe' = sigpipe
        /\ UNCHANGED <<stage, timeout, tty, raw, caught, signals, typist, stdin, chunk, escape, escaped, console, echoed,
                       gap, vm, ended, code>>
    BY <1>11 DEF Watch, After, WatcherOrder, Alive
  <2>2. ProgramType' BY <1>0, <2>1, SMTT(30) DEF ProgramType
  <2>3. Begun' BY <1>0, <2>1, ZenonT(30) DEF Begun
  <2>4. Reasons' BY <1>0, <2>1, SMTT(30) DEF ProgramType, Reasons
  <2>5. CodeIsTrue' BY <1>0, <2>1, Zenon DEF CodeIsTrue
  <2>6. QED BY <2>2, <2>3, <2>4, <2>5, Zenon DEF EndsWell
<1>12. CASE ReadInput
  <2>1. ProgramType' BY <1>0, <1>12 DEF ReadInput, Alive, SIGTERM, ProgramType
  <2>2. Begun' BY <1>0, <1>12, Zenon DEF ReadInput, Alive, SIGTERM, Begun
  <2>3. Reasons' BY <1>0, <1>12, Zenon DEF ReadInput, Alive, SIGTERM, Reasons, ProgramType
  <2>4. CodeIsTrue' BY <1>0, <1>12, Zenon DEF ReadInput, Alive, SIGTERM, CodeIsTrue, ProgramType
  <2>5. QED BY <2>1, <2>2, <2>3, <2>4, Zenon DEF EndsWell
<1>13. CASE Queue
  <2>1. ProgramType'
    <3>1. typist' \in {"queue", "store", "read"} /\ gap' \in BOOLEAN BY <1>0, <1>13, ZenonT(30) DEF Queue, ProgramType
    <3>2. UNCHANGED <<stage, watcher, vm, signals, signalled, raw, tty, escape, escaped>> BY <1>13, Zenon DEF Queue
    <3>3. ProgramType BY <1>0, Zenon
    <3>4. QED BY <3>1, <3>2, <3>3, SMTT(30) DEF ProgramType
  <2>2. Begun' BY <1>0, <1>13, Zenon DEF Queue, Begun
  <2>3. Reasons' BY <1>0, <1>13, ZenonT(30) DEF Queue, ProgramType, Reasons
  <2>4. CodeIsTrue' BY <1>0, <1>13, Zenon DEF Queue, Alive, CodeIsTrue
  <2>5. QED BY <2>1, <2>2, <2>3, <2>4, Zenon DEF EndsWell
<1>14. CASE Escape
  <2>1. ProgramType' BY <1>0, <1>14 DEF Escape, Alive, ProgramType
  <2>2. Begun' BY <1>0, <1>14, Zenon DEF Escape, Alive, Begun
  <2>3. Reasons' BY <1>0, <1>14, ZenonT(30) DEF Escape, Alive, ProgramType, Reasons
  <2>4. CodeIsTrue' BY <1>0, <1>14, Zenon DEF Escape, Alive, Alive, CodeIsTrue
  <2>5. QED BY <2>1, <2>2, <2>3, <2>4, Zenon DEF EndsWell
<1>15. CASE UNCHANGED programVars
  <2>1. ProgramType' BY <1>0, <1>15 DEF programVars, ProgramType
  <2>2. Begun' BY <1>0, <1>15, Zenon DEF programVars, Begun
  <2>3. Reasons' BY <1>0, <1>15, Zenon DEF programVars, Reasons, ProgramType
  <2>4. CodeIsTrue' BY <1>0, <1>15, Zenon DEF programVars, CodeIsTrue, ProgramType
  <2>5. QED BY <2>1, <2>2, <2>3, <2>4, Zenon DEF EndsWell
<1>16. QED BY <1>1, <1>2, <1>3, <1>4, <1>5, <1>6, <1>7, <1>8, <1>9, <1>10, <1>11, <1>12, <1>13,
              <1>14, <1>15, Zenon DEF ProgramNext

-----------------------------------------------------------------------------
\* InputKept is told by the variables of the input.
LEMMA InputSame ==
    ASSUME InputKept, UNCHANGED <<tty, stdin, chunk, escape, console, echoed, gap>>,
           \/ typist' = typist
           \/ typist = "none" /\ typist' = "read"
           \/ typist \in {"store", "stop"} /\ typist' \in {"stop", "gone"}
    PROVE  InputKept'
<1>1. /\ stdin \in Seq(Nat) /\ chunk \in Seq(Nat) /\ console \in Seq(Nat) /\ echoed \in Seq(Nat)
      /\ typist = "none" => echoed = <<>> /\ console = <<>>
      /\ typist \in {"none", "read"} => chunk = <<>> /\ ~escape
      /\ typist \in {"store", "stop", "gone"} => chunk = <<>> /\ escape
  BY Zenon DEF InputKept
<1>2. /\ (stdin \in Seq(Nat) /\ chunk \in Seq(Nat) /\ console \in Seq(Nat) /\ echoed \in Seq(Nat))'
      /\ (typist = "none" => echoed = <<>> /\ console = <<>>)'
      /\ (typist \in {"none", "read"} => chunk = <<>> /\ ~escape)'
      /\ (typist \in {"store", "stop", "gone"} => chunk = <<>> /\ escape)'
  BY <1>1, Zenon
<1>3. ASSUME NEW typed, PassedOf(typed) PROVE PassedOf(typed)'
  <2>1. EscapesAt(typed)' = EscapesAt(typed) BY Zenon DEF EscapesAt
  <2>2. Passed' = Passed BY Zenon DEF Passed
  <2>3. QED BY <1>3, <2>1, <2>2, Zenon DEF PassedOf
<1>4. ~gap' => \E typed \in KEYS \cup {<<>>} : PassedOf(typed)' BY <1>3, Zenon DEF InputKept
<1>5. QED BY <1>2, <1>4, Zenon DEF InputKept

\* Every step keeps what was typed in order: read, waiting, queued and echoed.
LEMMA InputStep ==
    ASSUME ProgramType, Begun, InputKept, [ProgramNext]_programVars
    PROVE  InputKept'
<1>0. /\ stdin \in Seq(Nat) /\ chunk \in Seq(Nat) /\ console \in Seq(Nat) /\ echoed \in Seq(Nat)
      /\ typist = "none" => echoed = <<>> /\ console = <<>>
      /\ typist \in {"none", "read"} => chunk = <<>> /\ ~escape
      /\ typist \in {"store", "stop", "gone"} => chunk = <<>> /\ escape
  BY Zenon DEF InputKept
<1>1. CASE ConfigOf /\ stage' = "assemble"
  <2>1. /\ stage = "config" /\ stdin' \in KEYS /\ tty' \in BOOLEAN
        /\ UNCHANGED <<typist, chunk, escape, console, echoed, gap>>
    BY <1>1, Zenon DEF ConfigOf, Unstarted, Exit
  <2>2. typist = "none" BY <2>1, Zenon DEF Begun
  <2>3. echoed' = <<>> /\ console' = <<>> /\ chunk' = <<>> /\ escape' = FALSE
    <3>1. escape \in BOOLEAN BY Zenon DEF ProgramType
    <3>2. QED BY <1>0, <2>1, <2>2, <3>1, Zenon
  <2>4. stdin' \in Seq(Nat) BY <2>1, ProgramAssumption, Zenon
  <2>5. Passed' = <<>>
    <3>1. <<>> \in Seq(Nat) OBVIOUS
    <3>2. Passed' = (<<>> \o <<>>) \o <<>> BY <2>3, Zenon DEF Passed
    <3>3. QED BY <3>1, <3>2, EmptySeq, Zenon
  <2>6. ~HasEscape(<<>>) BY DEF HasEscape
  <2>7. PICK typed \in KEYS : typed = stdin' BY <2>1, Zenon
  <2>10. PassedOf(typed)'
    <3>1. typed \in Seq(Nat) BY <2>4, <2>7, Zenon
    <3>2. <<>> \o typed = typed BY <3>1, EmptySeq, Zenon
    <3>3. (Passed \o stdin)' = typed BY <2>5, <2>7, <3>2, Zenon
    <3>4. (tty => ~HasEscape(Passed))' BY <2>5, <2>6, Zenon
    <3>5. QED BY <2>3, <3>3, <3>4, Zenon DEF PassedOf
  <2>8. \E all \in KEYS \cup {<<>>} : PassedOf(all)' BY <2>10, Zenon
  <2>9. QED BY <1>0, <2>1, <2>2, <2>3, <2>4, <2>8, Zenon DEF InputKept
<1>2. CASE GuestReads
  <2>1. /\ console # <<>> /\ echoed' = Append(echoed, Head(console)) /\ console' = Tail(console)
        /\ tty' = tty /\ typist' = typist /\ stdin' = stdin /\ chunk' = chunk /\ escape' = escape /\ gap' = gap
    BY <1>2, Zenon DEF GuestReads
  <2>2. echoed' \in Seq(Nat) /\ console' \in Seq(Nat) /\ echoed' \o console' = echoed \o console
    BY <1>0, <2>1, MoveHead, ZenonT(30)
  <2>3. Passed' = Passed BY <2>1, <2>2, ZenonT(30) DEF Passed
  <2>4. ASSUME NEW typed, PassedOf(typed) PROVE PassedOf(typed)'
    <3>1. EscapesAt(typed)' = EscapesAt(typed) BY <2>1, Zenon DEF EscapesAt
    <3>2. QED BY <2>1, <2>3, <2>4, <3>1, Zenon DEF PassedOf
  <2>5. ~gap' => \E typed \in KEYS \cup {<<>>} : PassedOf(typed)' BY <2>1, <2>4, Zenon DEF InputKept
  <2>6. typist # "none" BY <1>0, <2>1, Zenon
  <2>7. QED BY <1>0, <2>1, <2>2, <2>5, <2>6, Zenon DEF InputKept
<1>3. CASE Queue
  <2>1. /\ typist = "queue" /\ tty' = tty /\ stdin' = stdin /\ escape' = escape /\ echoed' = echoed
    BY <1>3, Zenon DEF Queue
  <2>2. CASE chunk # <<>> /\ chunk' = <<>> /\ gap' = TRUE /\ UNCHANGED <<typist, console>>
    BY <1>0, <2>1, <2>2 DEF InputKept
  <2>3. CASE chunk = <<>> /\ typist' = (IF escape THEN "store" ELSE "read") /\ UNCHANGED <<chunk, console, gap>>
    <3>1. Passed' = Passed BY <2>1, <2>3, Zenon DEF Passed
    <3>2. ASSUME NEW typed, PassedOf(typed) PROVE PassedOf(typed)'
      <4>1. EscapesAt(typed)' = EscapesAt(typed) BY <2>1, Zenon DEF EscapesAt
      <4>2. QED BY <2>1, <3>1, <3>2, <4>1, Zenon DEF PassedOf
    <3>3. ~gap' => \E typed \in KEYS \cup {<<>>} : PassedOf(typed)' BY <2>3, <3>2, Zenon DEF InputKept
    <3>4. QED BY <1>0, <2>1, <2>3, <3>3, Zenon DEF InputKept
  <2>4. CASE \E n \in 0 .. Len(chunk) : /\ console' = console \o SubSeq(chunk, 1, n)
                                        /\ chunk' = SubSeq(chunk, n + 1, Len(chunk))
                                        /\ UNCHANGED <<typist, gap>>
    <3>1. PICK n \in 0 .. Len(chunk) : /\ console' = console \o SubSeq(chunk, 1, n)
                                       /\ chunk' = SubSeq(chunk, n + 1, Len(chunk))
                                       /\ typist' = typist /\ gap' = gap
      BY <2>4, Zenon
    <3>2. PICK a \in Seq(Nat), b \in Seq(Nat) :
              /\ a = SubSeq(chunk, 1, n) /\ b = SubSeq(chunk, n + 1, Len(chunk)) /\ a \o b = chunk
      <4>1. /\ SubSeq(chunk, 1, n) \in Seq(Nat) /\ SubSeq(chunk, n + 1, Len(chunk)) \in Seq(Nat)
            /\ SubSeq(chunk, 1, n) \o SubSeq(chunk, n + 1, Len(chunk)) = chunk
        BY <1>0, SplitAt, ZenonT(30)
      <4>2. QED BY <4>1, Zenon
    <3>3. console' = console \o a /\ chunk' = b BY <3>1, <3>2, Zenon
    <3>4. console' \in Seq(Nat) /\ chunk' \in Seq(Nat) BY <1>0, <3>2, <3>3, Concats, ZenonT(30)
    <3>5. Passed' = Passed
      <4>1. Passed' = (echoed \o (console \o a)) \o b BY <2>1, <3>3, Zenon DEF Passed
      <4>2. PICK e \in Seq(Nat), c \in Seq(Nat) : e = echoed /\ c = console BY <1>0, Zenon
      <4>3. e \o (c \o a) = (e \o c) \o a BY Associates, ZenonT(30)
      <4>4. PICK p \in Seq(Nat) : p = e \o c BY Concats, ZenonT(30)
      <4>5. (p \o a) \o b = p \o (a \o b) BY Associates, ZenonT(30)
      <4>6. QED BY <3>2, <4>1, <4>2, <4>3, <4>4, <4>5, Zenon DEF Passed
    <3>6. ASSUME NEW typed, PassedOf(typed) PROVE PassedOf(typed)'
      <4>1. EscapesAt(typed)' = EscapesAt(typed) BY <2>1, Zenon DEF EscapesAt
      <4>2. QED BY <2>1, <3>5, <3>6, <4>1, Zenon DEF PassedOf
    <3>7. ~gap' => \E typed \in KEYS \cup {<<>>} : PassedOf(typed)' BY <3>1, <3>6, Zenon DEF InputKept
    <3>8. QED BY <1>0, <2>1, <3>1, <3>4, <3>7, Zenon DEF InputKept
  <2>5. CASE chunk # <<>> /\ Len(console) < ROOM
             /\ LET n == IF Len(chunk) < ROOM - Len(console) THEN Len(chunk) ELSE ROOM - Len(console)
                IN  console' = console \o SubSeq(chunk, 1, n) /\ chunk' = SubSeq(chunk, n + 1, Len(chunk))
             /\ UNCHANGED <<typist, gap>>
    <3>1. Len(chunk) \in Nat /\ Len(console) \in Nat /\ ROOM \in Nat BY <1>0, ProgramAssumption
    <3>2. PICK n : n = IF Len(chunk) < ROOM - Len(console) THEN Len(chunk) ELSE ROOM - Len(console) BY Zenon
    <3>3. n \in 0 .. Len(chunk) BY <2>5, <3>1, <3>2
    <3>4. console' = console \o SubSeq(chunk, 1, n) /\ chunk' = SubSeq(chunk, n + 1, Len(chunk))
      BY <2>5, <3>2, Zenon
    <3>5. QED BY <2>4, <2>5, <3>3, <3>4, ZenonT(30)
  <2>6. QED BY <1>3, <2>2, <2>3, <2>5, ZenonT(30) DEF Queue
<1>4. CASE ReadInput
  <2>1. /\ typist = "read" /\ typist' = "queue" /\ tty' = tty /\ console' = console /\ echoed' = echoed /\ gap' = gap
    BY <1>4, Zenon DEF ReadInput
  <2>0. PICK n \in 1 .. Len(stdin) : \E cut \in EscapesAt(SubSeq(stdin, 1, n)) :
            /\ chunk' = SubSeq(stdin, 1, IF cut = 0 THEN n ELSE cut - 1)
            /\ escape' = (cut # 0)
            /\ stdin' = SubSeq(stdin, n + 1, Len(stdin))
    BY <1>4, Zenon DEF ReadInput
  <2>2. PICK cut \in EscapesAt(SubSeq(stdin, 1, n)) :
            /\ chunk' = SubSeq(stdin, 1, IF cut = 0 THEN n ELSE cut - 1)
            /\ escape' = (cut # 0)
            /\ stdin' = SubSeq(stdin, n + 1, Len(stdin))
    BY <2>0, Zenon
  <2>3. PICK p \in Seq(Nat) : p = echoed \o console BY <1>0, Concats, ZenonT(30)
  <2>4. chunk = <<>> /\ ~escape BY <1>0, <2>1, Zenon
  <2>5. Passed = p BY <1>0, <2>3, <2>4, EmptySeq, Zenon DEF Passed
  <2>6. n \in 0 .. Len(stdin) /\ Len(stdin) \in Nat /\ n \in Nat BY <1>0
  <2>7. stdin' \in Seq(Nat) BY <1>0, <2>2, <2>6, SplitAt, ZenonT(30)
  <2>8. Passed' = p \o chunk' BY <2>1, <2>3, Zenon DEF Passed
  <2>9. \A typed \in KEYS \cup {<<>>} : PassedOf(typed) => p \o stdin = typed /\ (tty => ~HasEscape(p))
    BY <2>4, <2>5, Zenon DEF PassedOf
  <2>10. CASE cut = 0
    <3>1. chunk' = SubSeq(stdin, 1, n) /\ escape' = FALSE BY <2>2, <2>10, ZenonT(30)
    <3>2. PICK a \in Seq(Nat), b \in Seq(Nat) : a = chunk' /\ b = stdin' /\ a \o b = stdin
      BY <1>0, <2>2, <2>6, <3>1, SplitAt, ZenonT(30)
    <3>3. tty => ~HasEscape(a) 
      <4>1. a = SubSeq(stdin, 1, n) /\ 0 \in EscapesAt(a) BY <2>2, <2>10, <3>1, <3>2, Zenon
      <4>2. 0 \notin 1 .. Len(a) OBVIOUS
      <4>3. QED BY <4>1, <4>2, Zenon DEF EscapesAt
    <3>4. (p \o a) \o b = p \o stdin BY <3>2, Associates, ZenonT(60)
    <3>5. (tty /\ ~HasEscape(p)) => ~HasEscape(p \o a) BY <3>3, ConcatHolds, Zenon
    <3>6. ASSUME NEW typed \in KEYS \cup {<<>>}, PassedOf(typed) PROVE PassedOf(typed)'
      <4>1. p \o stdin = typed /\ (tty => ~HasEscape(p)) BY <2>9, <3>6, Zenon
      <4>2. Passed' = p \o a /\ Passed' \o stdin' = typed BY <2>8, <3>2, <3>4, <4>1, Zenon
      <4>3. tty' => ~HasEscape(Passed') BY <2>1, <3>5, <4>1, <4>2, Zenon
      <4>4. QED BY <3>1, <4>2, <4>3, Zenon DEF PassedOf
    <3>7. ~gap' => \E typed \in KEYS \cup {<<>>} : PassedOf(typed)' BY <2>1, <3>6, Zenon DEF InputKept
    <3>8. chunk' \in Seq(Nat) BY <3>2, Zenon
    <3>9. QED BY <1>0, <2>1, <2>7, <3>7, <3>8, Zenon DEF InputKept
  <2>11. CASE cut # 0
    <3>1. chunk' = SubSeq(stdin, 1, cut - 1) /\ escape' = TRUE BY <2>2, <2>11, ZenonT(30)
    <3>2. tty /\ cut \in 1 .. n
      <4>1. <<>> \in Seq(Nat) /\ ~HasEscape(<<>>) BY DEF HasEscape
      <4>2. QED BY <1>0, <2>2, <2>11, <4>1, EscapeFirst, ZenonT(30)
    <3>3. cut - 1 \in 0 .. Len(stdin) /\ cut \in Nat BY <2>6, <3>2
    <3>4. chunk' \in Seq(Nat) BY <1>0, <3>1, <3>3, SplitAt, ZenonT(30)
    <3>5. ASSUME NEW typed \in KEYS \cup {<<>>}, PassedOf(typed) PROVE PassedOf(typed)'
      <4>1. p \o stdin = typed /\ ~HasEscape(p) BY <2>9, <3>2, <3>5, Zenon
      <4>2. Len(p) + cut \in EscapesAt(p \o stdin) BY <1>0, <2>2, <2>11, <4>1, EscapeFirst, ZenonT(30)
      <4>3. PICK k : k = Len(p) + cut BY Zenon
      <4>4. k \in EscapesAt(typed) /\ k # 0 /\ k - 1 = Len(p) + (cut - 1)
        <5>1. Len(p) \in Nat /\ cut > 0 BY <3>2, <2>6
        <5>2. k # 0 /\ k - 1 = Len(p) + (cut - 1) BY <3>3, <4>3, <5>1
        <5>3. k \in EscapesAt(typed) BY <4>1, <4>2, <4>3, Zenon
        <5>4. QED BY <5>2, <5>3, Zenon
      <4>5. EscapesAt(typed)' = EscapesAt(typed) BY <2>1, Zenon DEF EscapesAt
      <4>6. p \o SubSeq(stdin, 1, cut - 1) = SubSeq(p \o stdin, 1, Len(p) + (cut - 1))
        BY <1>0, <3>3, BeginningOf, ZenonT(30)
      <4>7. Passed' = SubSeq(typed, 1, k - 1) BY <2>8, <3>1, <4>1, <4>4, <4>6, ZenonT(30)
      <4>8. \E i \in EscapesAt(typed)' \ {0} : Passed' = SubSeq(typed, 1, i - 1) BY <4>4, <4>5, <4>7, Zenon
      <4>9. QED BY <3>1, <4>8, ZenonT(30) DEF PassedOf
    <3>6. ~gap' => \E typed \in KEYS \cup {<<>>} : PassedOf(typed)' BY <2>1, <3>5, Zenon DEF InputKept
    <3>7. QED BY <1>0, <2>1, <2>7, <3>4, <3>6, Zenon DEF InputKept
  <2>12. QED BY <2>10, <2>11, Zenon
<1>5. CASE ConfigOf /\ stage' # "assemble" BY <1>5, InputSame, Zenon DEF ConfigOf, Unstarted, Exit
<1>6. CASE Cli BY <1>6, InputSame, Zenon DEF Cli, Unstarted
<1>7. CASE BootStep
  <2>1. typist' = typist \/ (typist' = "read" /\ typist = "none")
    BY <1>7, Zenon DEF BootStep, Assemble, ArmSignals, Raw, Start, ForwardInput, Fails, Goes, Begun
  <2>2. UNCHANGED <<tty, stdin, chunk, escape, console, echoed, gap>> BY <1>7, Zenon DEF BootStep
  <2>3. QED BY <2>1, <2>2, InputSame, Zenon
<1>8. CASE MachineEnds \/ ControlStop \/ Drive \/ DriveWait \/ ReturnCode \/ Signal
  <2>1. UNCHANGED <<tty, threads>>
    BY <1>8, Zenon DEF MachineEnds, ControlStop, Drive, DriveWait, ReturnCode, Signal
  <2>2. QED BY <2>1, InputSame, Zenon DEF threads
<1>9. CASE Watch BY <1>9, InputSame, Zenon DEF Watch
<1>10. CASE Escape BY <1>10, InputSame, Zenon DEF Escape
<1>11. CASE UNCHANGED programVars BY <1>11, InputSame, Zenon DEF programVars
<1>12. QED BY <1>1, <1>2, <1>3, <1>4, <1>5, <1>6, <1>7, <1>8, <1>9, <1>10, <1>11, ZenonT(30) DEF ProgramNext

\* What the invariant says of the input at every moment.
LEMMA InputIsInOrder ==
    ASSUME ProgramType, Reasons, InputKept
    PROVE  InputInOrder
<1>0. /\ stdin \in Seq(Nat) /\ chunk \in Seq(Nat) /\ console \in Seq(Nat) /\ echoed \in Seq(Nat)
      /\ typist \in {"store", "stop", "gone"} => chunk = <<>> /\ escape
  BY Zenon DEF InputKept
<1>1. SUFFICES ASSUME ~gap
               PROVE  /\ \E typed \in KEYS \cup {<<>>} : \E n \in 0 .. Len(typed) : Passed = SubSeq(typed, 1, n)
                      /\ "escape" \in toldVm =>
                           \E typed \in KEYS : \E cut \in EscapesAt(typed) \ {0} :
                               echoed \o console = SubSeq(typed, 1, cut - 1)
  BY ZenonT(30) DEF InputInOrder, Passed
<1>2. PICK typed \in KEYS \cup {<<>>} : PassedOf(typed) BY <1>1, Zenon DEF InputKept
<1>3. typed \in Seq(Nat)
  <2>1. CASE typed \in KEYS BY <2>1, ProgramAssumption, Zenon
  <2>2. CASE typed = <<>> BY <2>2
  <2>3. QED BY <2>1, <2>2, Zenon
<1>4. PICK e \in Seq(Nat) : e = echoed \o console BY <1>0, Concats, ZenonT(30)
<1>5. PICK p \in Seq(Nat) : p = Passed BY <1>0, <1>4, Concats, ZenonT(30) DEF Passed
<1>6. CASE escape
  <2>1. PICK cut \in EscapesAt(typed) \ {0} : p = SubSeq(typed, 1, cut - 1) BY <1>2, <1>5, <1>6, Zenon DEF PassedOf
  <2>2. tty /\ HasEscape(typed) /\ cut \in 1 .. Len(typed) BY <2>1, Zenon DEF EscapesAt
  <2>3. cut - 1 \in 0 .. Len(typed) /\ Len(typed) \in Nat BY <1>3, <2>2
  <2>6. \E n \in 0 .. Len(typed) : Passed = SubSeq(typed, 1, n) BY <1>5, <2>1, <2>3, Zenon
  <2>7. ASSUME "escape" \in toldVm PROVE echoed \o console = SubSeq(typed, 1, cut - 1)
    <3>1. typist = "gone" BY <2>7, Zenon DEF Reasons
    <3>2. chunk = <<>> BY <1>0, <3>1, Zenon
    <3>3. Passed = e BY <1>4, <3>2, EmptySeq, Zenon DEF Passed
    <3>4. QED BY <1>4, <1>5, <2>1, <3>3, ZenonT(30)
  <2>8. typed # <<>> BY <2>2 DEF HasEscape
  <2>9. QED BY <1>2, <2>1, <2>6, <2>7, <2>8, ZenonT(30)
<1>7. CASE ~escape
  <2>1. p \o stdin = typed BY <1>2, <1>5, <1>7, Zenon DEF PassedOf
  <2>2. Len(p) \in Nat /\ Len(stdin) \in Nat /\ Len(typed) = Len(p) + Len(stdin)
    BY <1>0, <2>1, Concats
  <2>3. p = SubSeq(typed, 1, Len(p))
    <3>1. 0 \in 0 .. Len(stdin) /\ Len(p) + 0 = Len(p) BY <2>2
    <3>2. p \o SubSeq(stdin, 1, 0) = SubSeq(typed, 1, Len(p)) BY <1>0, <2>1, <3>1, BeginningOf
    <3>3. SubSeq(stdin, 1, 0) = <<>> BY <1>0, <3>1, PartOf
    <3>4. QED BY <3>2, <3>3, EmptySeq, Zenon
  <2>4. \E n \in 0 .. Len(typed) : Passed = SubSeq(typed, 1, n)
    <3>1. Len(p) \in 0 .. Len(typed) BY <2>2
    <3>2. QED BY <1>5, <2>3, <3>1, Zenon
  <2>5. "escape" \notin toldVm BY <1>0, <1>7, Zenon DEF Reasons
  <2>6. QED BY <1>2, <2>4, <2>5, Zenon
<1>8. QED BY <1>6, <1>7, ZenonT(30)

\* lingcore ends as it should: the terminal is put back on every way out, the exit code
\* says what ended the guest, and what is typed reaches the guest in order, all of it up
\* to Ctrl-] before the guest is told to stop; whatever is typed, whatever room the console
\* has and however often a signal comes.
THEOREM ProgramIsSound == ProgramSpec => []ProgramSound
<1>1. ProgramInit => ProgramKept
  <2>1. SUFFICES ASSUME ProgramInit PROVE ProgramKept OBVIOUS
  <2>2. ProgramType /\ Begun /\ Reasons /\ CodeIsTrue
    BY <2>1, ZenonT(30) DEF ProgramInit, ProgramType, Begun, Reasons, CodeIsTrue
  <2>3. Passed = <<>> /\ stdin = <<>> /\ ~escape
    <3>1. <<>> \in Seq(Nat) OBVIOUS
    <3>2. Passed = (<<>> \o <<>>) \o <<>> /\ stdin = <<>> /\ ~escape BY <2>1, Zenon DEF ProgramInit, Passed
    <3>3. QED BY <3>1, <3>2, EmptySeq, Zenon
  <2>4. PassedOf(<<>>)
    <3>1. <<>> \in Seq(Nat) /\ ~HasEscape(<<>>) BY DEF HasEscape
    <3>2. Passed \o stdin = <<>> BY <2>3, <3>1, EmptySeq, Zenon
    <3>3. QED BY <2>3, <3>1, <3>2, Zenon DEF PassedOf
  <2>5. InputKept BY <2>1, <2>4 DEF ProgramInit, InputKept
  <2>6. QED BY <2>2, <2>5, Zenon DEF ProgramKept
<1>2. ProgramKept /\ [ProgramNext]_programVars => ProgramKept'
  <2>1. SUFFICES ASSUME ProgramKept, [ProgramNext]_programVars PROVE ProgramKept' OBVIOUS
  <2>2. EndsWell /\ InputKept /\ ProgramType /\ Begun BY <2>1, Zenon DEF ProgramKept, EndsWell
  <2>3. EndsWell' BY <2>1, <2>2, EndStep, Zenon
  <2>4. InputKept' BY <2>1, <2>2, InputStep, Zenon
  <2>5. QED BY <2>3, <2>4, Zenon DEF ProgramKept, EndsWell
<1>3. ProgramKept => ProgramSound
  <2>1. SUFFICES ASSUME ProgramKept PROVE ProgramSound OBVIOUS
  <2>2. ProgramType /\ Begun /\ Reasons /\ CodeIsTrue /\ InputKept BY <2>1, Zenon DEF ProgramKept
  <2>3. TerminalIsRestored BY <2>2, Zenon DEF Begun, TerminalIsRestored, Alive
  <2>4. InputInOrder BY <2>2, InputIsInOrder, Zenon
  <2>5. QED BY <2>2, <2>3, <2>4, Zenon DEF ProgramSound
<1>4. QED BY <1>1, <1>2, <1>3, PTL DEF ProgramSpec
=============================================================================
