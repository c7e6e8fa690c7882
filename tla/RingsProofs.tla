----------------------------- MODULE RingsProofs -----------------------------
(***************************************************************************)
(* The arrays of BlockRing and CheckpointRing implement Engine's sequences *)
(* for every capacity, every number of slots and every bound (Rings).      *)
(***************************************************************************)
EXTENDS Rings, FiniteSetTheorems, SequenceTheorems, NaturalsInduction,
        WellFoundedInduction, TLAPS

-----------------------------------------------------------------------------
(***************************************************************************)
(* The invariant.                                                          *)
(***************************************************************************)
Entry == [number : 0..MaxNumber, hash : Hash \cup {"zero"}]
Cursor == [block : 0..MaxNumber, log : 0..MaxLog] \cup {NoPos}
Held == {SlotOf(c) : c \in Cursor}

\* MaxNumber bounds the lanes' zeros too.
RingTyped ==
    /\ entries \in [0..(RingCapacity - 1) -> Entry]
    /\ head \in 0..(RingCapacity - 1)
    /\ len \in 0..RingCapacity

\* What is in the ring, from the oldest entry to the newest, ascends.
Ascends == \A i, j \in 0..(len - 1) : i < j => NumberAt(i) < NumberAt(j)

\* The newest entry is the cursor's block.
TipIsCursor ==
    /\ cursor \in Cursor
    /\ len = 0 => cursor = NoPos
    /\ len > 0 => cursor.block = NumberAt(len - 1)

CellsTyped ==
    /\ cells \in [0..(CheckpointSlots - 1) -> Held \cup {Free}]
    /\ next \in 0..(CheckpointSlots - 1) \/ (CheckpointSlots = 0 /\ next = 0)

\* From the write position on the cells are free and then taken, by slots that
\* get no older, none of them past the cursor.
AgesInOrder ==
    /\ \A i, j \in 1..CheckpointSlots :
         i < j /\ Taken(Aged(i)) =>
            Taken(Aged(j)) /\ ~After(Aged(i).cursor, Aged(j).cursor)
    /\ \A i \in 1..CheckpointSlots :
         Taken(Aged(i)) => ~After(Aged(i).cursor, cursor)

RingsInv == RingTyped /\ Ascends /\ TipIsCursor /\ CellsTyped /\ AgesInOrder

-----------------------------------------------------------------------------
(***************************************************************************)
(* Numbers.                                                                *)
(***************************************************************************)
\* A set of natural numbers has a least element.
LEMMA LeastNumber ==
    ASSUME NEW S \in SUBSET Nat, S # {}
    PROVE  \E n \in S : \A m \in S : n <= m
  <1> DEFINE Less == {ss \in Nat \X Nat : ss[1] < ss[2]}
  <1>1. IsWellFoundedOn(Less, Nat)
    BY NatLessThanWellFounded DEF OpToRel
  <1>2. \E n \in S : \A m \in S : <<m, n>> \notin Less
    BY <1>1, WFMin
  <1>3. PICK n \in S : \A m \in S : <<m, n>> \notin Less
    BY <1>2
  <1>4. ASSUME NEW m \in S PROVE n <= m
    <2>1. m \in Nat /\ n \in Nat
      OBVIOUS
    <2>2. m < n => <<m, n>> \in Less
      BY <2>1
    <2>3. QED
      BY <1>3, <2>1, <2>2
  <1>5. QED
    BY <1>4

\* A set of integers bounded above has a greatest element.
LEMMA GreatestNumber ==
    ASSUME NEW S \in SUBSET Int, S # {}, NEW b \in Int, \A x \in S : x <= b
    PROVE  \E m \in S : \A x \in S : x <= m
  <1> DEFINE Gaps == {b - x : x \in S}
  <1>0. ASSUME NEW x \in S PROVE x \in Int /\ b - x \in Nat
    OBVIOUS
  <1>1. Gaps \in SUBSET Nat /\ Gaps # {}
    BY <1>0, Zenon
  <1>2. PICK g \in Gaps : \A h \in Gaps : g <= h
    BY <1>1, LeastNumber
  <1>3. PICK m \in S : g = b - m
    BY <1>2
  <1>4. ASSUME NEW x \in S PROVE x <= m
    <2>1. b - m <= b - x
      BY <1>2, <1>3
    <2>2. QED
      BY <1>0, <2>1
  <1>5. QED
    BY <1>4

\* A bounded history with room for one more, and a full one.
LEMMA AppendKeeping ==
    ASSUME NEW S, NEW s \in Seq(S), NEW x \in S, NEW t \in Seq(S), Len(t) = Len(s) + 1,
           \A i \in 1..Len(s) : t[i] = s[i], t[Len(s) + 1] = x
    PROVE  t = Append(s, x)
  <1>1. /\ Append(s, x) \in Seq(S) /\ Len(Append(s, x)) = Len(s) + 1 /\ Len(s) \in Nat
        /\ \A i \in 1..Len(s) : Append(s, x)[i] = s[i]
        /\ Append(s, x)[Len(s) + 1] = x
    BY AppendProperties
  <1>2. ASSUME NEW i \in 1..Len(t) PROVE t[i] = Append(s, x)[i]
    BY <1>1
  <1>3. QED
    BY <1>1, <1>2, SeqEqual

LEMMA AppendEvicting ==
    ASSUME NEW S, NEW s \in Seq(S), NEW x \in S, NEW t \in Seq(S), Len(t) = Len(s), s # <<>>,
           \A i \in 1..(Len(s) - 1) : t[i] = s[i + 1], t[Len(s)] = x
    PROVE  t = Append(Tail(s), x)
  <1>1. /\ Tail(s) \in Seq(S) /\ Len(Tail(s)) = Len(s) - 1 /\ Len(s) \in Nat
        /\ \A i \in 1..Len(Tail(s)) : Tail(s)[i] = s[i + 1]
    BY HeadTailProperties
  <1>2. Len(t) = Len(Tail(s)) + 1 /\ t[Len(Tail(s)) + 1] = x
    BY <1>1
  <1>3. \A i \in 1..Len(Tail(s)) : t[i] = Tail(s)[i]
    BY <1>1
  <1>4. QED
    BY <1>1, <1>2, <1>3, AppendKeeping

-----------------------------------------------------------------------------
(***************************************************************************)
(* BlockRing: the searches.                                                *)
(***************************************************************************)
LEMMA EntriesTyped ==
    ASSUME RingTyped
    PROVE  /\ RingCapacity \in Nat \ {0} /\ len \in Nat /\ head \in Nat
           /\ \A i \in 0..RingCapacity :
                /\ Physical(i) \in 0..(RingCapacity - 1)
                /\ EntryAt(i) \in Entry
                /\ NumberAt(i) \in 0..MaxNumber /\ NumberAt(i) \in Int
  <1>1. RingCapacity \in Nat \ {0} /\ MaxNumber \in Nat
    BY RingsAssumption
  <1>2. ASSUME NEW i \in 0..RingCapacity
        PROVE  Physical(i) \in 0..(RingCapacity - 1)
    BY <1>1 DEF RingTyped, Physical
  <1>3. ASSUME NEW i \in 0..RingCapacity
        PROVE  EntryAt(i) \in Entry
    BY <1>2 DEF EntryAt, RingTyped
  <1>4. ASSUME NEW i \in 0..RingCapacity
        PROVE  NumberAt(i) \in 0..MaxNumber /\ NumberAt(i) \in Int
    BY <1>1, <1>3 DEF NumberAt, Entry
  <1>5. QED
    BY <1>1, <1>2, <1>3, <1>4 DEF RingTyped

\* The oldest g + 1 entries, and no other, lie at or below the number.
Divides(g, number) ==
    /\ g \in -1..(len - 1)
    /\ \A i \in 0..(len - 1) : i <= g <=> NumberAt(i) <= number

LEMMA Divided ==
    ASSUME RingTyped, Ascends, NEW number \in Int
    PROVE  \E g : Divides(g, number)
  <1> DEFINE S == {i \in 0..(len - 1) : NumberAt(i) <= number} \cup {-1}
  <1>0. len \in Nat /\ \A i \in 0..(len - 1) : NumberAt(i) \in Int
    BY EntriesTyped DEF RingTyped
  <1>1. S \in SUBSET Int /\ S # {} /\ \A x \in S : x <= len - 1
    BY <1>0
  <1>2. PICK g \in S : \A x \in S : x <= g
    <2>1. len - 1 \in Int
      BY <1>0
    <2> HIDE DEF S
    <2>2. QED
      BY <1>1, <2>1, GreatestNumber
  <1>3. g \in -1..(len - 1)
    BY <1>0
  <1>4. ASSUME NEW i \in 0..(len - 1)
        PROVE  i <= g <=> NumberAt(i) <= number
    <2>1. NumberAt(i) <= number => i <= g
      BY <1>2
    <2>2. CASE i < g
      <3>1. g \in 0..(len - 1) /\ NumberAt(g) <= number
        BY <2>2, <1>0, <1>3
      <3>2. NumberAt(i) < NumberAt(g)
        BY <2>2, <3>1 DEF Ascends
      <3>3. QED
        BY <1>0, <2>2, <3>1, <3>2
    <2>3. CASE i = g
      BY <2>3
    <2>4. QED
      BY <1>0, <1>3, <2>1, <2>2, <2>3
  <1>5. QED
    BY <1>3, <1>4 DEF Divides

\* The binary search ends at the division.
LEMMA SearchFinds ==
    ASSUME RingTyped, Ascends, NEW number \in Int, NEW g, Divides(g, number)
    PROVE  IndexAtOrBelow(number) = g
  <1> DEFINE n == len - 1
             D == (0..n) \X (0..n)
             mid(l, h) == l + (h - l + 1) \div 2
             step(f) == [range \in D |->
                           IF range[1] >= range[2] THEN range[1]
                           ELSE IF NumberAt(mid(range[1], range[2])) <= number
                           THEN f[<<mid(range[1], range[2]), range[2]>>]
                           ELSE f[<<range[1], mid(range[1], range[2]) - 1>>]]
             clamp(l, h) == IF l >= h \/ g < l THEN l ELSE IF g > h THEN h ELSE g
             w == [range \in D |-> clamp(range[1], range[2])]
             search == CHOOSE f : f = step(f)
  <1>1. /\ len \in Nat /\ g \in Int /\ g >= -1 /\ g <= n
        /\ \A i \in 0..n : NumberAt(i) \in Int /\ (i <= g <=> NumberAt(i) <= number)
    BY EntriesTyped DEF RingTyped, Divides
  <1>2. CASE len = 0
    BY <1>1, <1>2 DEF IndexAtOrBelow
  <1>3. CASE len > 0
    <2>1. ASSUME NEW l \in 0..n, NEW h \in 0..n, l < h
          PROVE  mid(l, h) \in (l + 1)..h /\ mid(l, h) \in 0..n /\ mid(l, h) - 1 \in 0..n
      BY <2>1, <1>1
    <2> HIDE DEF mid
    <2>2. ASSUME NEW l \in 0..n, NEW h \in 0..n
          PROVE  clamp(l, h) = IF l >= h THEN l
                               ELSE IF NumberAt(mid(l, h)) <= number THEN clamp(mid(l, h), h)
                               ELSE clamp(l, mid(l, h) - 1)
      <3>1. CASE l >= h
        BY <3>1
      <3>2. CASE l < h
        <4>1. /\ mid(l, h) \in (l + 1)..h /\ mid(l, h) \in 0..n
              /\ mid(l, h) <= g <=> NumberAt(mid(l, h)) <= number
          BY <1>1, <2>1, <3>2
        <4>2. QED
          BY <1>1, <3>2, <4>1
      <3>3. QED
        BY <1>1, <3>1, <3>2
    <2>3. w = step(w)
      <3>1. ASSUME NEW range \in D
            PROVE  w[range] = step(w)[range]
        <4>1. PICK l \in 0..n, h \in 0..n : range = <<l, h>>
          OBVIOUS
        <4>2. range[1] = l /\ range[2] = h
          BY <4>1
        <4>3. CASE l >= h
          BY <4>2, <4>3, <1>1
        <4>4. CASE l < h
          <5>1. <<mid(l, h), h>> \in D /\ <<l, mid(l, h) - 1>> \in D
            BY <2>1, <4>4
          <5>2. /\ w[<<mid(l, h), h>>] = clamp(mid(l, h), h)
                /\ w[<<l, mid(l, h) - 1>>] = clamp(l, mid(l, h) - 1)
            BY <5>1
          <5>3. w[range] = clamp(l, h)
            BY <4>2
          <5>4. step(w)[range] = IF l >= h THEN l
                                 ELSE IF NumberAt(mid(l, h)) <= number THEN w[<<mid(l, h), h>>]
                                 ELSE w[<<l, mid(l, h) - 1>>]
            BY <4>2
          <5> HIDE DEF w, step, clamp
          <5>5. QED
            BY <2>2, <4>4, <5>2, <5>3, <5>4
        <4>5. QED
          BY <1>1, <4>3, <4>4
      <3> HIDE DEF mid, clamp
      <3>2. QED
        BY <3>1, Zenon
    <2>4. search = step(search)
      <3> HIDE DEF w, step
      <3>1. QED
        BY <2>3, Zenon
    <2>5. ASSUME NEW l \in 0..n, NEW h \in 0..n
          PROVE  search[<<l, h>>] = IF l >= h THEN l
                                    ELSE IF NumberAt(mid(l, h)) <= number
                                    THEN search[<<mid(l, h), h>>]
                                    ELSE search[<<l, mid(l, h) - 1>>]
      <3> HIDE DEF search
      <3>1. <<l, h>> \in D /\ <<l, h>>[1] = l /\ <<l, h>>[2] = h
        OBVIOUS
      <3>2. QED
        BY <2>4, <3>1
    <2> HIDE DEF search, w, step, clamp
    <2>6. ASSUME NEW l \in 0..n, NEW h \in 0..n
          PROVE  search[<<l, h>>] = clamp(l, h)
      <3> DEFINE Bad == {d \in Nat : \E a, b \in 0..n : /\ b - a <= d
                                                        /\ search[<<a, b>>] # clamp(a, b)}
      <3>1. ASSUME NEW a \in 0..n, NEW b \in 0..n, a >= b
            PROVE  search[<<a, b>>] = clamp(a, b)
        <4>1. search[<<a, b>>] = a
          BY <2>5, <3>1
        <4>2. clamp(a, b) = a
          BY <2>2, <3>1
        <4>3. QED
          BY <4>1, <4>2
      <3>2. ASSUME NEW d \in Nat, d \notin Bad, NEW a \in 0..n, NEW b \in 0..n, b - a <= d
            PROVE  search[<<a, b>>] = clamp(a, b)
        BY <3>2
      <3>3. Bad \in SUBSET Nat
        OBVIOUS
      <3>4. ASSUME NEW d \in Bad
            PROVE  \E a, b \in 0..n : b - a <= d /\ search[<<a, b>>] # clamp(a, b)
        OBVIOUS
      <3> HIDE DEF Bad
      <3>5. Bad = {}
        <4>1. SUFFICES ASSUME Bad # {} PROVE FALSE
          OBVIOUS
        <4>2. PICK d \in Bad : \A e \in Bad : d <= e
          BY <3>3, <4>1, LeastNumber
        <4>3. PICK a \in 0..n, b \in 0..n : b - a <= d /\ search[<<a, b>>] # clamp(a, b)
          BY <3>4
        <4>4. d \in Nat /\ a \in Nat /\ b \in Nat /\ a < b
          BY <3>1, <3>3, <4>3, <1>1
        <4>5. mid(a, b) \in (a + 1)..b /\ mid(a, b) \in 0..n /\ mid(a, b) - 1 \in 0..n
          BY <2>1, <4>4
        <4>6. d - 1 \in Nat /\ d - 1 \notin Bad
          BY <4>2, <4>3, <4>4
        <4>7. b - mid(a, b) <= d - 1 /\ mid(a, b) - 1 - a <= d - 1
          BY <4>3, <4>4, <4>5
        <4>8. search[<<mid(a, b), b>>] = clamp(mid(a, b), b)
          BY <3>2, <4>5, <4>6, <4>7
        <4>9. search[<<a, mid(a, b) - 1>>] = clamp(a, mid(a, b) - 1)
          BY <3>2, <4>5, <4>6, <4>7
        <4>10. QED
          BY <2>2, <2>5, <4>3, <4>8, <4>9
      <3>6. CASE h >= l
        <4>1. h - l \in Nat /\ h - l \notin Bad /\ h - l <= h - l
          BY <1>1, <3>5, <3>6
        <4>2. QED
          BY <3>2, <4>1
      <3>7. QED
        BY <1>1, <3>1, <3>6
    <2>7. IndexAtOrBelow(number) = IF len = 0 THEN -1
                                   ELSE IF NumberAt(n) <= number THEN n
                                   ELSE IF NumberAt(search[<<0, n>>]) <= number
                                   THEN search[<<0, n>>] ELSE -1
      BY DEF IndexAtOrBelow, search, step, mid
    <2>8. search[<<0, n>>] = IF 0 >= n \/ g < 0 THEN 0 ELSE g
      BY <1>1, <1>3, <2>6 DEF clamp
    <2>9. QED
      BY <1>1, <1>3, <2>7, <2>8
  <1>4. QED
    BY <1>1, <1>2, <1>3

\* index_of finds the number when it is there, and nothing when it is not.
LEMMA IndexOfFinds ==
    ASSUME RingTyped, Ascends, NEW number \in Int
    PROVE  /\ IndexOf(number) \in -1..(len - 1)
           /\ IndexOf(number) >= 0 => NumberAt(IndexOf(number)) = number
           /\ \A i \in 0..(len - 1) : NumberAt(i) = number => IndexOf(number) >= 0
  <1>1. PICK g : Divides(g, number)
    BY Divided
  <1>2. IndexAtOrBelow(number) = g
    BY <1>1, SearchFinds
  <1>3. /\ len \in Nat /\ g \in Int /\ g >= -1 /\ g <= len - 1
        /\ \A i \in 0..(len - 1) : NumberAt(i) \in Int /\ (i <= g <=> NumberAt(i) <= number)
    BY <1>1, EntriesTyped DEF RingTyped, Divides
  <1>4. CASE len = 0
    BY <1>3, <1>4 DEF IndexOf
  <1>5. CASE len > 0
    <2> DEFINE behind == NumberAt(len - 1) - number
               guess  == IF behind <= len - 1 THEN len - 1 - behind ELSE 0
    <2>1. IndexOf(number) = IF behind < 0 THEN -1
                            ELSE IF NumberAt(guess) = number THEN guess
                            ELSE IF g >= 0 /\ NumberAt(g) = number THEN g
                            ELSE -1
      BY <1>2, <1>3, <1>5 DEF IndexOf
    <2>2. behind \in Int /\ (behind >= 0 => guess \in 0..(len - 1))
      BY <1>3, <1>5
    <2>3. ASSUME NEW i \in 0..(len - 1), NumberAt(i) = number
          PROVE  behind >= 0 /\ g = i
      <3>1. i <= len - 1 /\ i <= g
        BY <1>3, <2>3
      <3>2. i < len - 1 => NumberAt(i) < NumberAt(len - 1)
        BY <1>3, <1>5 DEF Ascends
      <3>3. i < g => NumberAt(i) < NumberAt(g) /\ NumberAt(g) <= number
        BY <1>3, <1>5 DEF Ascends
      <3>4. QED
        BY <1>3, <1>5, <2>3, <3>1, <3>2, <3>3
    <2> HIDE DEF behind, guess
    <2>4. IndexOf(number) \in -1..(len - 1)
      <3> DEFINE R == -1..(len - 1)
      <3>1. -1 \in R /\ g \in R /\ (~(behind < 0) => guess \in R)
        BY <1>3, <1>5, <2>2
      <3> HIDE DEF R
      <3>2. IndexOf(number) \in R
        BY <2>1, <3>1
      <3>3. QED
        BY <3>2 DEF R
    <2>5. IndexOf(number) >= 0 => NumberAt(IndexOf(number)) = number
      BY <2>1
    <2>6. ASSUME NEW i \in 0..(len - 1), NumberAt(i) = number
          PROVE  IndexOf(number) >= 0
      <3>1. behind >= 0 /\ g = i /\ g >= 0 /\ NumberAt(g) = number
        BY <2>3, <2>6
      <3>2. ~(behind < 0) /\ guess >= 0
        BY <1>3, <2>2, <3>1
      <3>3. QED
        BY <2>1, <3>1, <3>2
    <2>7. QED
      BY <2>4, <2>5, <2>6
  <1>6. QED
    BY <1>3, <1>4, <1>5

LEMMA RingSeqTyped ==
    ASSUME RingTyped
    PROVE  /\ RingSeq \in Seq(Entry) /\ Len(RingSeq) = len
           /\ \A i \in 1..len : RingSeq[i] = EntryAt(i - 1) /\ RingSeq[i].number = NumberAt(i - 1)
  <1>1. len \in Nat /\ \A i \in 1..len : EntryAt(i - 1) \in Entry
    BY EntriesTyped DEF RingTyped
  <1>2. QED
    BY <1>1 DEF RingSeq, NumberAt

LEMMA ObservesIs ==
    ASSUME RingTyped, Ascends, NEW number \in Int
    PROVE  E!Observes(RingSeq, number) <=> IndexOf(number) >= 0
  <1>1. len \in Nat /\ \A i \in 0..(len - 1) : i + 1 \in 1..len
    BY EntriesTyped
  <1>2. ASSUME E!Observes(RingSeq, number) PROVE IndexOf(number) >= 0
    <2>1. PICK i \in 1..len : RingSeq[i].number = number
      BY <1>2, RingSeqTyped DEF E!Observes
    <2>2. i - 1 \in 0..(len - 1) /\ NumberAt(i - 1) = number
      BY <1>1, <2>1, RingSeqTyped
    <2>3. QED
      BY <2>2, IndexOfFinds
  <1>3. ASSUME IndexOf(number) >= 0 PROVE E!Observes(RingSeq, number)
    <2>1. IndexOf(number) \in 0..(len - 1) /\ NumberAt(IndexOf(number)) = number
      BY <1>1, <1>3, IndexOfFinds
    <2>2. IndexOf(number) + 1 \in 1..len /\ RingSeq[IndexOf(number) + 1].number = number
      <3>1. \A k \in 0..(len - 1) : k + 1 \in 1..len /\ RingSeq[k + 1].number = NumberAt(k)
        BY <1>1, RingSeqTyped
      <3>2. QED
        BY <2>1, <3>1
    <2>3. QED
      BY <2>2, RingSeqTyped DEF E!Observes
  <1>4. QED
    BY <1>2, <1>3

LEMMA AtOrBelowIs ==
    ASSUME RingTyped, Ascends, NEW number \in Int
    PROVE  /\ E!AtOrBelow(RingSeq, number, IndexAtOrBelow(number) + 1)
           /\ IndexAtOrBelow(number) + 1 \in 0..len
  <1>1. PICK g : Divides(g, number)
    BY Divided
  <1>2. IndexAtOrBelow(number) = g
    BY <1>1, SearchFinds
  <1>3. len \in Nat /\ g \in Int /\ g + 1 \in 0..len
    BY <1>1, EntriesTyped DEF Divides
  <1>4. ASSUME NEW i \in 1..len
        PROVE  i <= g + 1 <=> RingSeq[i].number <= number
    <2>1. i - 1 \in 0..(len - 1) /\ (i - 1 <= g <=> NumberAt(i - 1) <= number)
      BY <1>1, <1>3 DEF Divides
    <2>2. RingSeq[i].number = NumberAt(i - 1)
      BY RingSeqTyped
    <2>3. QED
      BY <1>3, <2>1, <2>2
  <1>5. QED
    BY <1>2, <1>3, <1>4, RingSeqTyped DEF E!AtOrBelow

LEMMA InvLookups ==
    ASSUME RingTyped, Ascends
    PROVE  LookupsAgree
  <1>1. SUFFICES ASSUME NEW number \in 0..(MaxNumber + 1)
                 PROVE  /\ E!AtOrBelow(RingSeq, number, IndexAtOrBelow(number) + 1)
                        /\ E!Observes(RingSeq, number) <=> IndexOf(number) >= 0
                        /\ IndexOf(number) >= 0 => RingSeq[IndexOf(number) + 1].number = number
    BY DEF LookupsAgree
  <1>2. number \in Int /\ len \in Nat
    BY EntriesTyped
  <1>3. IndexOf(number) >= 0 => RingSeq[IndexOf(number) + 1].number = number
    <2>1. \A k \in 0..(len - 1) : RingSeq[k + 1].number = NumberAt(k)
      BY <1>2, RingSeqTyped
    <2>2. IndexOf(number) >= 0 => IndexOf(number) \in 0..(len - 1) /\ NumberAt(IndexOf(number)) = number
      BY <1>2, IndexOfFinds
    <2>3. QED
      BY <2>1, <2>2
  <1>4. QED
    BY <1>2, <1>3, AtOrBelowIs, ObservesIs

-----------------------------------------------------------------------------
(***************************************************************************)
(* BlockRing: pushing and truncating.                                      *)
(***************************************************************************)
\* A logical index goes around the array once at most.
LEMMA PhysicalIs ==
    ASSUME RingTyped, NEW i \in 0..RingCapacity
    PROVE  Physical(i) = IF head + i < RingCapacity THEN head + i ELSE head + i - RingCapacity
  BY RingsAssumption DEF Physical, RingTyped

\* The entries a push leaves, oldest first.
LEMMA PushMoves ==
    ASSUME RingTyped, NEW block \in Entry, PushEntry(block)
    PROVE  /\ RingTyped'
           /\ len < RingCapacity =>
                /\ len' = len + 1
                /\ \A i \in 0..len : EntryAt(i)' = IF i < len THEN EntryAt(i) ELSE block
           /\ len = RingCapacity =>
                /\ len' = len
                /\ \A i \in 0..(len - 1) :
                     EntryAt(i)' = IF i < len - 1 THEN EntryAt(i + 1) ELSE block
  <1>1. /\ RingCapacity \in Nat \ {0} /\ len \in 0..RingCapacity /\ head \in 0..(RingCapacity - 1)
        /\ entries \in [0..(RingCapacity - 1) -> Entry]
    BY EntriesTyped DEF RingTyped
  <1>2. CASE len < RingCapacity
    <2>1. /\ entries' = [entries EXCEPT ![Physical(len)] = block]
          /\ len' = len + 1 /\ head' = head
      BY <1>2 DEF PushEntry
    <2>2. Physical(len) \in 0..(RingCapacity - 1)
      BY <1>1, <1>2, EntriesTyped
    <2>3. RingTyped'
      BY <1>1, <1>2, <2>1, <2>2 DEF RingTyped
    <2>4. ASSUME NEW i \in 0..len
          PROVE  EntryAt(i)' = IF i < len THEN EntryAt(i) ELSE block
      <3>1. EntryAt(i)' = entries'[Physical(i)]
        BY <2>1 DEF EntryAt, Physical
      <3>2. Physical(i) \in 0..(RingCapacity - 1)
        BY <1>1, <1>2, EntriesTyped
      <3>3. i < len => Physical(i) # Physical(len)
        <4>1. i \in 0..RingCapacity /\ len \in 0..RingCapacity
          BY <1>1
        <4>2. QED
          BY <1>1, <1>2, <4>1, PhysicalIs
      <3>4. QED
        BY <1>1, <2>1, <2>2, <3>1, <3>2, <3>3 DEF EntryAt
    <2>5. QED
      BY <1>1, <1>2, <2>1, <2>3, <2>4
  <1>3. CASE len = RingCapacity
    <2>1. /\ entries' = [entries EXCEPT ![head] = block]
          /\ len' = len /\ head' = (head + 1) % RingCapacity
      BY <1>1, <1>3 DEF PushEntry
    <2>2. head' = IF head + 1 < RingCapacity THEN head + 1 ELSE 0
      BY <1>1, <2>1
    <2>3. RingTyped'
      BY <1>1, <1>3, <2>1, <2>2 DEF RingTyped
    <2>4. ASSUME NEW i \in 0..(len - 1)
          PROVE  EntryAt(i)' = IF i < len - 1 THEN EntryAt(i + 1) ELSE block
      <3>1. EntryAt(i)' = entries'[(head' + i) % RingCapacity]
        BY DEF EntryAt, Physical
      <3>2. (head' + i) % RingCapacity =
              IF head' + i < RingCapacity THEN head' + i ELSE head' + i - RingCapacity
        BY <1>1, <1>3, <2>2
      <3>3. CASE i < len - 1
        <4>1. i + 1 \in 0..RingCapacity
          BY <1>1, <1>3, <3>3
        <4>2. Physical(i + 1) = IF head + (i + 1) < RingCapacity THEN head + (i + 1)
                                ELSE head + (i + 1) - RingCapacity
          BY <4>1, PhysicalIs
        <4>3. /\ Physical(i + 1) = (head' + i) % RingCapacity /\ Physical(i + 1) # head
              /\ Physical(i + 1) \in 0..(RingCapacity - 1)
          BY <1>1, <1>3, <2>2, <3>2, <3>3, <4>2
        <4>4. QED
          BY <1>1, <2>1, <3>1, <3>3, <4>3 DEF EntryAt
      <3>4. CASE i = len - 1
        <4>1. (head' + i) % RingCapacity = head
          BY <1>1, <1>3, <2>2, <3>2, <3>4
        <4>2. QED
          BY <1>1, <2>1, <3>1, <3>4, <4>1
      <3>5. QED
        BY <1>1, <3>3, <3>4
    <2>5. QED
      BY <1>1, <1>3, <2>1, <2>3, <2>4
  <1>4. QED
    BY <1>1, <1>2, <1>3

\* A push above the newest number keeps the ring in order and is the push of the
\* sequence.
LEMMA PushKeeps ==
    ASSUME RingTyped, Ascends, NEW block \in Entry, PushEntry(block),
           len > 0 => NumberAt(len - 1) < block.number
    PROVE  /\ RingTyped' /\ Ascends'
           /\ len' > 0 /\ (NumberAt(len - 1))' = block.number
           /\ RingSeq' = E!Push(RingSeq, block)
  <1>1. /\ RingCapacity \in Nat \ {0} /\ len \in 0..RingCapacity /\ block.number \in Int
        /\ \A i \in 0..(len - 1) : NumberAt(i) \in Int
    BY RingsAssumption, EntriesTyped DEF RingTyped, Entry
  <1>2. RingTyped'
    BY PushMoves
  <1>3. ASSUME NEW i \in 0..(len - 1), i < len - 1
        PROVE  NumberAt(i) < NumberAt(len - 1) /\ NumberAt(i) < block.number
    <2>1. len > 0 /\ len - 1 \in 0..(len - 1)
      BY <1>1, <1>3
    <2>2. NumberAt(i) < NumberAt(len - 1)
      BY <1>3, <2>1 DEF Ascends
    <2>3. QED
      BY <1>1, <2>1, <2>2
  <1>4. CASE len < RingCapacity
    <2>1. len' = len + 1 /\ \A i \in 0..len : EntryAt(i)' = IF i < len THEN EntryAt(i) ELSE block
      BY <1>4, PushMoves
    <2>2. \A i \in 0..len : NumberAt(i)' = IF i < len THEN NumberAt(i) ELSE block.number
      BY <2>1 DEF NumberAt
    <2>3. Ascends'
      <3>1. SUFFICES ASSUME NEW i \in 0..len, NEW j \in 0..len, i < j
                     PROVE  NumberAt(i)' < NumberAt(j)'
        BY <1>1, <2>1 DEF Ascends
      <3>2. i < len /\ i \in 0..(len - 1) /\ NumberAt(i)' = NumberAt(i)
        BY <1>1, <2>2, <3>1
      <3>3. CASE j < len
        <4>1. j \in 0..(len - 1) /\ NumberAt(j)' = NumberAt(j)
          BY <1>1, <2>2, <3>3
        <4>2. QED
          BY <3>1, <3>2, <4>1 DEF Ascends
      <3>4. CASE j = len
        <4>1. NumberAt(j)' = block.number
          BY <1>1, <2>2, <3>4
        <4>2. QED
          BY <1>1, <1>3, <3>2, <4>1
      <3>5. QED
        BY <1>1, <3>3, <3>4
    <2>4. (NumberAt(len - 1))' = block.number
      <3>1. ASSUME NEW k, k = len' - 1 PROVE (NumberAt(len - 1))' = NumberAt(k)'
        BY <3>1 DEF NumberAt, EntryAt, Physical
      <3>2. len \in 0..len /\ len = len' - 1
        BY <1>1, <2>1
      <3>3. PICK k \in 0..len : k = len
        BY <3>2
      <3>4. NumberAt(k)' = block.number
        BY <1>1, <2>2, <3>3
      <3>5. QED
        BY <3>1, <3>2, <3>3, <3>4
    <2>5. RingSeq' = E!Push(RingSeq, block)
      <3>1. RingSeq \in Seq(Entry) /\ Len(RingSeq) = len
        BY RingSeqTyped
      <3>2. E!Push(RingSeq, block) = Append(RingSeq, block)
        BY <1>4, <3>1 DEF E!Push
      <3>3. RingSeq' = [i \in 1..(len + 1) |-> EntryAt(i - 1)']
        BY <2>1 DEF RingSeq
      <3>4. \A i \in 1..(len + 1) : EntryAt(i - 1)' = IF i <= len THEN RingSeq[i] ELSE block
        BY <1>1, <2>1 DEF RingSeq
      <3>5. /\ RingSeq' \in Seq(Entry) /\ Len(RingSeq') = len + 1
            /\ \A i \in 1..len : RingSeq'[i] = RingSeq[i]
            /\ RingSeq'[len + 1] = block
        <4> HIDE DEF RingSeq
        <4>1. \A i \in 1..len : RingSeq[i] \in Entry
          BY <3>1
        <4>2. RingSeq' = [i \in 1..(len + 1) |-> IF i <= len THEN RingSeq[i] ELSE block]
          BY <3>3, <3>4, Zenon
        <4>3. QED
          BY <1>1, <4>1, <4>2
      <3>6. QED
        BY <3>1, <3>2, <3>5, AppendKeeping
    <2>6. QED
      BY <1>1, <1>2, <2>1, <2>3, <2>4, <2>5
  <1>5. CASE len = RingCapacity
    <2>1. /\ len' = len
          /\ \A i \in 0..(len - 1) : EntryAt(i)' = IF i < len - 1 THEN EntryAt(i + 1) ELSE block
      BY <1>5, PushMoves
    <2>2. \A i \in 0..(len - 1) :
            NumberAt(i)' = IF i < len - 1 THEN NumberAt(i + 1) ELSE block.number
      BY <2>1 DEF NumberAt
    <2>3. Ascends'
      <3>1. SUFFICES ASSUME NEW i \in 0..(len - 1), NEW j \in 0..(len - 1), i < j
                     PROVE  NumberAt(i)' < NumberAt(j)'
        BY <1>1, <2>1 DEF Ascends
      <3>2. i < len - 1 /\ i + 1 \in 0..(len - 1) /\ NumberAt(i)' = NumberAt(i + 1)
        BY <1>1, <2>2, <3>1
      <3>3. CASE j < len - 1
        <4>1. j + 1 \in 0..(len - 1) /\ NumberAt(j)' = NumberAt(j + 1) /\ i + 1 < j + 1
          BY <1>1, <2>2, <3>1, <3>3
        <4>2. QED
          BY <3>2, <4>1 DEF Ascends
      <3>4. CASE j = len - 1
        <4>1. NumberAt(j)' = block.number
          BY <1>1, <2>2, <3>4
        <4>2. NumberAt(i + 1) < block.number
          <5>1. i + 1 < len - 1 \/ i + 1 = len - 1
            BY <1>1, <3>2
          <5>2. QED
            BY <1>1, <1>3, <3>2, <5>1
        <4>3. QED
          BY <3>2, <4>1, <4>2
      <3>5. QED
        BY <1>1, <3>3, <3>4
    <2>4. (NumberAt(len - 1))' = block.number
      <3>1. ASSUME NEW k, k = len' - 1 PROVE (NumberAt(len - 1))' = NumberAt(k)'
        BY <3>1 DEF NumberAt, EntryAt, Physical
      <3>2. PICK k \in 0..(len - 1) : k = len - 1
        BY <1>1, <1>5
      <3>3. NumberAt(k)' = block.number
        BY <1>1, <2>2, <3>2
      <3>4. QED
        BY <2>1, <3>1, <3>2, <3>3
    <2>5. RingSeq' = E!Push(RingSeq, block)
      <3>1. RingSeq \in Seq(Entry) /\ Len(RingSeq) = len
        BY RingSeqTyped
      <3>2. E!Push(RingSeq, block) = Append(Tail(RingSeq), block)
        BY <1>1, <1>5, <3>1 DEF E!Push
      <3>3. RingSeq' = [i \in 1..len |-> EntryAt(i - 1)']
        BY <2>1 DEF RingSeq
      <3>4. \A i \in 1..len : EntryAt(i - 1)' = IF i < len THEN RingSeq[i + 1] ELSE block
        BY <1>1, <2>1 DEF RingSeq
      <3>5. /\ RingSeq' \in Seq(Entry) /\ Len(RingSeq') = len
            /\ \A i \in 1..(len - 1) : RingSeq'[i] = RingSeq[i + 1]
            /\ RingSeq'[len] = block /\ RingSeq # <<>>
        <4> HIDE DEF RingSeq
        <4>1. \A i \in 1..len : RingSeq[i] \in Entry
          BY <3>1
        <4>2. QED
          BY <1>1, <1>5, <3>1, <3>3, <3>4, <4>1
      <3>6. QED
        BY <3>1, <3>2, <3>5, AppendEvicting
    <2>6. QED
      BY <1>1, <1>2, <1>5, <2>1, <2>3, <2>4, <2>5
  <1>6. QED
    BY <1>1, <1>4, <1>5

\* A ring cut to its oldest entries keeps them.
LEMMA CutKeeps ==
    ASSUME RingTyped, Ascends, NEW m \in 0..len,
           len' = m, head' = IF m = 0 THEN 0 ELSE head, entries' = entries
    PROVE  /\ RingTyped' /\ Ascends'
           /\ \A i \in 0..(m - 1) : NumberAt(i)' = NumberAt(i)
           /\ RingSeq' = SubSeq(RingSeq, 1, m)
  <1>1. len \in Nat /\ RingCapacity \in Nat \ {0}
    BY EntriesTyped
  <1>2. RingTyped'
    BY <1>1 DEF RingTyped
  <1>3. ASSUME NEW i \in 0..(m - 1)
        PROVE  EntryAt(i)' = EntryAt(i) /\ NumberAt(i)' = NumberAt(i)
    <2>1. head' = head
      BY <1>1
    <2>2. QED
      BY <2>1 DEF EntryAt, NumberAt, Physical
  <1>4. Ascends'
    <2>1. SUFFICES ASSUME NEW i \in 0..(m - 1), NEW j \in 0..(m - 1), i < j
                   PROVE  NumberAt(i)' < NumberAt(j)'
      BY DEF Ascends
    <2>2. i \in 0..(len - 1) /\ j \in 0..(len - 1)
      BY <1>1
    <2>3. QED
      BY <1>3, <2>1, <2>2 DEF Ascends
  <1>5. RingSeq' = SubSeq(RingSeq, 1, m)
    <2>1. RingSeq \in Seq(Entry) /\ Len(RingSeq) = len
      BY RingSeqTyped
    <2>2. RingSeq' = [i \in 1..m |-> EntryAt(i - 1)']
      BY DEF RingSeq
    <2>3. \A i \in 1..m : EntryAt(i - 1)' = RingSeq[i]
      BY <1>1, <1>3 DEF RingSeq
    <2>4. \A i \in 1..m : RingSeq[i] \in Entry
      BY <1>1, <2>1
    <2> HIDE DEF RingSeq
    <2>5. /\ RingSeq' \in Seq(Entry) /\ Len(RingSeq') = m
          /\ \A i \in 1..m : RingSeq'[i] = RingSeq[i]
      <3>1. RingSeq' = [i \in 1..m |-> RingSeq[i]]
        BY <2>2, <2>3, Zenon
      <3>2. QED
        BY <1>1, <2>4, <3>1
    <2>6. /\ SubSeq(RingSeq, 1, m) \in Seq(Entry)
          /\ Len(SubSeq(RingSeq, 1, m)) = m
          /\ \A i \in 1..m : SubSeq(RingSeq, 1, m)[i] = RingSeq[i]
      BY <1>1, <2>1, <2>4
    <2>7. QED
      BY <2>5, <2>6, SeqEqual
  <1>6. QED
    BY <1>2, <1>3, <1>4, <1>5

-----------------------------------------------------------------------------
(***************************************************************************)
(* CheckpointRing: the cells in the order of their age.                    *)
(***************************************************************************)
\* Where the i-th cell from the write position nx on lies.
Place(nx, i) == (nx + i - 1) % CheckpointSlots

LEMMA PlaceIs ==
    ASSUME NEW nx \in 0..(CheckpointSlots - 1), NEW i \in 1..CheckpointSlots
    PROVE  /\ Place(nx, i) = IF nx + i - 1 < CheckpointSlots THEN nx + i - 1
                             ELSE nx + i - 1 - CheckpointSlots
           /\ Place(nx, i) \in 0..(CheckpointSlots - 1)
  BY RingsAssumption DEF Place

\* The places of the cells are all places, each once.
LEMMA PlacesDiffer ==
    ASSUME NEW nx \in 0..(CheckpointSlots - 1),
           NEW i \in 1..CheckpointSlots, NEW j \in 1..CheckpointSlots,
           Place(nx, i) = Place(nx, j)
    PROVE  i = j
  BY RingsAssumption DEF Place

LEMMA PlacesCover ==
    ASSUME NEW nx \in 0..(CheckpointSlots - 1), NEW p \in 0..(CheckpointSlots - 1)
    PROVE  \E i \in 1..CheckpointSlots : Place(nx, i) = p
  <1> DEFINE i == IF p >= nx THEN p - nx + 1 ELSE p - nx + 1 + CheckpointSlots
  <1>1. i \in 1..CheckpointSlots
    BY RingsAssumption
  <1>2. Place(nx, i) = p
    BY RingsAssumption, <1>1, PlaceIs
  <1>3. QED
    BY <1>1, <1>2

\* The write position moved on by one, and back by k.
LEMMA MovedOn ==
    ASSUME NEW nx \in 0..(CheckpointSlots - 1), NEW i \in 1..CheckpointSlots
    PROVE  /\ (nx + 1) % CheckpointSlots \in 0..(CheckpointSlots - 1)
           /\ Place((nx + 1) % CheckpointSlots, i) =
                IF i < CheckpointSlots THEN Place(nx, i + 1) ELSE nx
  <1> DEFINE on == (nx + 1) % CheckpointSlots
  <1>1. CheckpointSlots \in Nat /\ on = IF nx + 1 < CheckpointSlots THEN nx + 1 ELSE 0
    BY RingsAssumption
  <1>2. on \in 0..(CheckpointSlots - 1)
    BY <1>1
  <1> HIDE DEF on
  <1>3. Place(on, i) = IF on + i - 1 < CheckpointSlots THEN on + i - 1
                       ELSE on + i - 1 - CheckpointSlots
    BY <1>2, PlaceIs
  <1>4. i < CheckpointSlots =>
          Place(nx, i + 1) = IF nx + i < CheckpointSlots THEN nx + i ELSE nx + i - CheckpointSlots
    <2>1. i < CheckpointSlots => i + 1 \in 1..CheckpointSlots
      BY <1>1
    <2>2. i < CheckpointSlots =>
            Place(nx, i + 1) = IF nx + (i + 1) - 1 < CheckpointSlots THEN nx + (i + 1) - 1
                               ELSE nx + (i + 1) - 1 - CheckpointSlots
      BY <2>1, PlaceIs
    <2>3. QED
      BY <1>1, <2>2
  <1>5. Place(on, i) = IF i < CheckpointSlots THEN Place(nx, i + 1) ELSE nx
    BY <1>1, <1>2, <1>3, <1>4
  <1>6. QED
    BY <1>2, <1>5 DEF on

LEMMA MovedBack ==
    ASSUME NEW nx \in 0..(CheckpointSlots - 1), NEW k \in 0..CheckpointSlots,
           NEW i \in 1..CheckpointSlots
    PROVE  /\ (nx + k * (CheckpointSlots - 1)) % CheckpointSlots \in 0..(CheckpointSlots - 1)
           /\ Place((nx + k * (CheckpointSlots - 1)) % CheckpointSlots, i) =
                IF i <= k THEN Place(nx, CheckpointSlots - k + i) ELSE Place(nx, i - k)
  <1> DEFINE back == (nx + k * (CheckpointSlots - 1)) % CheckpointSlots
  <1>1. CheckpointSlots \in Nat \ {0}
    BY RingsAssumption
  <1>2. back = IF nx >= k THEN nx - k ELSE nx - k + CheckpointSlots
    BY <1>1
  <1>3. back \in 0..(CheckpointSlots - 1)
    BY <1>1, <1>2
  <1> HIDE DEF back
  <1>4. Place(back, i) = IF back + i - 1 < CheckpointSlots THEN back + i - 1
                         ELSE back + i - 1 - CheckpointSlots
    BY <1>3, PlaceIs
  <1>5. CASE i <= k
    <2> DEFINE j == CheckpointSlots - k + i
    <2>1. j \in 1..CheckpointSlots
      BY <1>1, <1>5
    <2>2. Place(nx, j) = IF nx + j - 1 < CheckpointSlots THEN nx + j - 1
                         ELSE nx + j - 1 - CheckpointSlots
      BY <2>1, PlaceIs
    <2>3. QED
      BY <1>1, <1>2, <1>3, <1>4, <1>5, <2>2 DEF back
  <1>6. CASE i > k
    <2> DEFINE j == i - k
    <2>1. j \in 1..CheckpointSlots
      BY <1>1, <1>6
    <2>2. Place(nx, j) = IF nx + j - 1 < CheckpointSlots THEN nx + j - 1
                         ELSE nx + j - 1 - CheckpointSlots
      BY <2>1, PlaceIs
    <2>3. QED
      BY <1>1, <1>2, <1>3, <1>4, <1>6, <2>2 DEF back
  <1>7. QED
    BY <1>1, <1>5, <1>6

\* The last h cells take h places.
LEMMA PlacesCount ==
    ASSUME NEW nx \in 0..(CheckpointSlots - 1), NEW h \in 0..CheckpointSlots, NEW P,
           P = {Place(nx, i) : i \in (CheckpointSlots - h + 1)..CheckpointSlots}
    PROVE  Cardinality(P) = h
  <1> DEFINE f == [i \in 1..h |-> Place(nx, CheckpointSlots - h + i)]
  <1>1. CheckpointSlots \in Nat /\ h \in Nat
    BY RingsAssumption
  <1>2. \A i \in 1..h : CheckpointSlots - h + i \in (CheckpointSlots - h + 1)..CheckpointSlots
    BY <1>1
  <1>3. \A i \in (CheckpointSlots - h + 1)..CheckpointSlots :
          i \in 1..CheckpointSlots /\ i - (CheckpointSlots - h) \in 1..h
    BY <1>1
  <1>4. f \in [1..h -> P]
    BY <1>2
  <1>5. ASSUME NEW i \in 1..h, NEW j \in 1..h, f[i] = f[j]
        PROVE  i = j
    <2>1. Place(nx, CheckpointSlots - h + i) = Place(nx, CheckpointSlots - h + j)
      BY <1>5
    <2>2. CheckpointSlots - h + i = CheckpointSlots - h + j
      BY <1>2, <1>3, <2>1, PlacesDiffer
    <2>3. QED
      BY <1>1, <2>2
  <1>6. ASSUME NEW p \in P
        PROVE  \E i \in 1..h : f[i] = p
    <2>1. PICK j \in (CheckpointSlots - h + 1)..CheckpointSlots : p = Place(nx, j)
      OBVIOUS
    <2>2. CheckpointSlots - h + (j - (CheckpointSlots - h)) = j
      BY <1>1
    <2>3. f[j - (CheckpointSlots - h)] = p
      BY <1>3, <2>1, <2>2
    <2>4. QED
      BY <1>3, <2>3
  <1>7. f \in Bijection(1..h, P)
    <2> HIDE DEF f
    <2>1. QED
      BY <1>4, <1>5, <1>6 DEF Bijection, Injection, Surjection, IsInjective
  <1>8. ExistsBijection(1..h, P)
    BY <1>7 DEF ExistsBijection
  <1>9. QED
    BY <1>1, <1>8, FS_CountingElements

-----------------------------------------------------------------------------
(***************************************************************************)
(* CheckpointRing: slots.                                                  *)
(***************************************************************************)
LEMMA CursorIs ==
    ASSUME NEW c \in Cursor
    PROVE  /\ c.block \in Int /\ c.log \in Int /\ c.block >= -1
           /\ c.block = -1 <=> c = NoPos
           /\ c # NoPos => c.block \in 0..MaxNumber
  BY RingsAssumption DEF Cursor, NoPos

LEMMA HeldIs ==
    ASSUME NEW s \in Held
    PROVE  /\ Taken(s) /\ s.cursor \in Cursor /\ s = SlotOf(s.cursor)
           /\ s.fold = SlotOf(NoPos).fold
  <1>1. PICK c \in Cursor : s = SlotOf(c)
    BY DEF Held
  <1>2. s.cursor = c /\ s.fold = SlotOf(NoPos).fold
    BY <1>1 DEF SlotOf
  <1>3. s # Free
    <2>1. "cursor" \in DOMAIN s /\ "cursor" \notin DOMAIN Free
      BY <1>1 DEF SlotOf, Free
    <2>2. QED
      BY <2>1
  <1>4. QED
    BY <1>1, <1>2, <1>3 DEF Taken

\* The order of the cursors.
LEMMA AfterOrder ==
    ASSUME NEW a \in Cursor, NEW b \in Cursor, NEW c \in Cursor, ~After(a, b)
    PROVE  /\ After(a, c) => After(b, c)
           /\ ~After(b, c) => ~After(a, c)
  BY CursorIs DEF After

LEMMA AgedIs ==
    ASSUME CellsTyped, NEW i \in 1..CheckpointSlots
    PROVE  /\ CheckpointSlots \in Nat \ {0} /\ next \in 0..(CheckpointSlots - 1)
           /\ Aged(i) = cells[Place(next, i)] /\ Place(next, i) \in 0..(CheckpointSlots - 1)
           /\ Aged(i) \in Held \cup {Free}
           /\ Taken(Aged(i)) <=> Aged(i) \in Held
           /\ Taken(Aged(i)) => Aged(i).cursor \in Cursor
  <1>1. CheckpointSlots \in Nat \ {0}
    BY RingsAssumption
  <1>2. next \in 0..(CheckpointSlots - 1)
    BY <1>1 DEF CellsTyped
  <1>3. Aged(i) = cells[Place(next, i)] /\ Place(next, i) \in 0..(CheckpointSlots - 1)
    BY <1>2, PlaceIs DEF Aged, Place
  <1>4. Aged(i) \in Held \cup {Free}
    BY <1>3 DEF CellsTyped
  <1>5. Taken(Aged(i)) <=> Aged(i) \in Held
    BY <1>4, HeldIs DEF Taken
  <1>6. QED
    BY <1>1, <1>2, <1>3, <1>4, <1>5, HeldIs

\* An array whose last h cells, by age, are taken holds h slots.
LEMMA CountIs ==
    ASSUME NEW nx \in 0..(CheckpointSlots - 1), NEW h \in 0..CheckpointSlots,
           NEW cs, DOMAIN cs = 0..(CheckpointSlots - 1), NEW P \in SUBSET (DOMAIN cs),
           \A i \in 1..CheckpointSlots : Place(nx, i) \in P <=> i > CheckpointSlots - h
    PROVE  Cardinality(P) = h
  <1>1. CheckpointSlots \in Nat
    BY RingsAssumption
  <1>2. \A i \in (CheckpointSlots - h + 1)..CheckpointSlots :
          i \in 1..CheckpointSlots /\ i > CheckpointSlots - h
    BY <1>1
  <1>3. \A i \in 1..CheckpointSlots :
          i > CheckpointSlots - h => i \in (CheckpointSlots - h + 1)..CheckpointSlots
    BY <1>1
  <1>4. P = {Place(nx, i) : i \in (CheckpointSlots - h + 1)..CheckpointSlots}
    <2>1. ASSUME NEW p \in P
          PROVE  \E i \in (CheckpointSlots - h + 1)..CheckpointSlots : p = Place(nx, i)
      <3>1. PICK i \in 1..CheckpointSlots : Place(nx, i) = p
        BY PlacesCover
      <3>2. QED
        BY <1>3, <3>1
    <2>2. ASSUME NEW i \in (CheckpointSlots - h + 1)..CheckpointSlots
          PROVE  Place(nx, i) \in P
      BY <1>2
    <2>3. QED
      BY <2>1, <2>2
  <1>5. QED
    BY <1>4, PlacesCount

\* What holds from some cell on holds of the last ones.
LEMMA Suffix ==
    ASSUME NEW T \in SUBSET (1..CheckpointSlots),
           \A i, j \in 1..CheckpointSlots : i < j /\ i \in T => j \in T
    PROVE  \E h \in 0..CheckpointSlots :
             \A i \in 1..CheckpointSlots : i \in T <=> i > CheckpointSlots - h
  <1>1. CheckpointSlots \in Nat
    BY RingsAssumption
  <1>2. CASE T = {}
    <2>1. \A i \in 1..CheckpointSlots : ~(i > CheckpointSlots - 0)
      BY <1>1
    <2>2. QED
      BY <1>1, <1>2, <2>1
  <1>3. CASE T # {}
    <2>1. T \in SUBSET Nat
      BY <1>1
    <2>2. PICK n \in T : \A m \in T : n <= m
      BY <1>3, <2>1, LeastNumber
    <2>3. n \in 1..CheckpointSlots /\ CheckpointSlots - n + 1 \in 0..CheckpointSlots
      BY <1>1
    <2>4. ASSUME NEW i \in 1..CheckpointSlots
          PROVE  i \in T <=> i > CheckpointSlots - (CheckpointSlots - n + 1)
      <3>1. i \in T <=> i >= n
        <4>1. i > n => i \in T
          BY <2>3
        <4>2. i = n => i \in T
          OBVIOUS
        <4>3. QED
          BY <2>2, <2>3, <4>1, <4>2
      <3>2. QED
        BY <1>1, <2>3, <3>1
    <2>5. QED
      BY <2>3, <2>4
  <1>4. QED
    BY <1>2, <1>3

\* The number of slots says which cells hold them.
LEMMA HeldCountIs ==
    ASSUME CellsTyped, AgesInOrder
    PROVE  /\ HeldCount \in 0..CheckpointSlots
           /\ \A i \in 1..CheckpointSlots : Taken(Aged(i)) <=> i > CheckpointSlots - HeldCount
  <1> DEFINE T == {i \in 1..CheckpointSlots : Taken(Aged(i))}
             P == {p \in DOMAIN cells : Taken(cells[p])}
  <1>1. PICK h \in 0..CheckpointSlots :
          \A i \in 1..CheckpointSlots : i \in T <=> i > CheckpointSlots - h
    <2>1. \A i, j \in 1..CheckpointSlots : i < j /\ i \in T => j \in T
      BY DEF AgesInOrder
    <2>2. QED
      BY <2>1, Suffix
  <1>2. CASE CheckpointSlots = 0
    <2>1. P = {}
      BY <1>2 DEF CellsTyped
    <2>2. HeldCount = 0
      BY <2>1, FS_EmptySet DEF HeldCount
    <2>3. QED
      BY <1>2, <2>2
  <1>3. CASE CheckpointSlots # 0
    <2>1. next \in 0..(CheckpointSlots - 1) /\ DOMAIN cells = 0..(CheckpointSlots - 1)
      BY <1>3 DEF CellsTyped
    <2>2. ASSUME NEW i \in 1..CheckpointSlots
          PROVE  Place(next, i) \in P <=> i > CheckpointSlots - h
      BY <1>1, <2>1, AgedIs
    <2>3. Cardinality(P) = h
      BY <2>1, <2>2, CountIs
    <2>4. QED
      BY <1>1, <2>3 DEF HeldCount
  <1>4. QED
    BY <1>2, <1>3

-----------------------------------------------------------------------------
(***************************************************************************)
(* CheckpointRing: storing and dropping.                                   *)
(***************************************************************************)
LEMMA StoreMoves ==
    ASSUME CellsTyped, CheckpointSlots # 0, NEW slot \in Held, StoreSlot(slot)
    PROVE  /\ CellsTyped'
           /\ \A i \in 1..CheckpointSlots :
                Aged(i)' = IF i < CheckpointSlots THEN Aged(i + 1) ELSE slot
  <1>1. CheckpointSlots \in Nat \ {0} /\ next \in 0..(CheckpointSlots - 1)
    BY RingsAssumption DEF CellsTyped
  <1>2. cells' = [cells EXCEPT ![next] = slot] /\ next' = (next + 1) % CheckpointSlots
    BY DEF StoreSlot
  <1>3. CellsTyped'
    <2>1. next' \in 0..(CheckpointSlots - 1)
      BY <1>1, <1>2
    <2>2. QED
      BY <1>1, <1>2, <2>1 DEF CellsTyped
  <1>4. ASSUME NEW i \in 1..CheckpointSlots
        PROVE  Aged(i)' = IF i < CheckpointSlots THEN Aged(i + 1) ELSE slot
    <2>1. Aged(i)' = cells'[Place(next', i)]
      BY DEF Aged, Place
    <2>2. Place(next', i) = IF i < CheckpointSlots THEN Place(next, i + 1) ELSE next
      BY <1>1, <1>2, MovedOn
    <2>3. CASE i < CheckpointSlots
      <3>1. i + 1 \in 1..CheckpointSlots /\ 1 \in 1..CheckpointSlots /\ i + 1 # 1
        BY <1>1, <2>3
      <3>2. Place(next, 1) = next
        BY <1>1, <3>1, PlaceIs
      <3>3. Place(next, i + 1) # next
        BY <1>1, <3>1, <3>2, PlacesDiffer
      <3>4. Aged(i + 1) = cells[Place(next, i + 1)] /\ Place(next, i + 1) \in 0..(CheckpointSlots - 1)
        BY <3>1, AgedIs
      <3>5. QED
        BY <1>2, <2>1, <2>2, <2>3, <3>3, <3>4 DEF CellsTyped
    <2>4. CASE ~(i < CheckpointSlots)
      BY <1>1, <1>2, <2>1, <2>2, <2>4 DEF CellsTyped
    <2>5. QED
      BY <2>3, <2>4
  <1>5. QED
    BY <1>3, <1>4

\* What drop_newer drops are the k newest cells, and the others stay in order.
LEMMA DropMoves ==
    ASSUME CellsTyped, AgesInOrder, CheckpointSlots # 0, NEW c \in Cursor, DropNewer(c)
    PROVE  /\ CellsTyped'
           /\ \E k \in 0..CheckpointSlots :
                /\ \A i \in 1..CheckpointSlots :
                     Taken(Aged(i)) /\ After(Aged(i).cursor, c) <=> i > CheckpointSlots - k
                /\ \A i \in 1..CheckpointSlots :
                     Aged(i)' = IF i <= k THEN Free ELSE Aged(i - k)
  <1> DEFINE T == {i \in 1..CheckpointSlots : Taken(Aged(i)) /\ After(Aged(i).cursor, c)}
             newer == {p \in DOMAIN cells : Taken(cells[p]) /\ After(cells[p].cursor, c)}
  <1>1. /\ CheckpointSlots \in Nat \ {0} /\ next \in 0..(CheckpointSlots - 1)
        /\ DOMAIN cells = 0..(CheckpointSlots - 1)
    BY RingsAssumption DEF CellsTyped
  <1>2. /\ cells' = [p \in DOMAIN cells |-> IF p \in newer THEN Free ELSE cells[p]]
        /\ next' = IF newer = {} THEN next
                   ELSE (next + Cardinality(newer) * (CheckpointSlots - 1)) % CheckpointSlots
    BY DEF DropNewer
  <1>3. PICK k \in 0..CheckpointSlots :
          \A i \in 1..CheckpointSlots : i \in T <=> i > CheckpointSlots - k
    <2>1. ASSUME NEW i \in 1..CheckpointSlots, NEW j \in 1..CheckpointSlots, i < j, i \in T
          PROVE  j \in T
      <3>1. Taken(Aged(i)) /\ After(Aged(i).cursor, c)
        BY <2>1
      <3>2. Taken(Aged(j)) /\ ~After(Aged(i).cursor, Aged(j).cursor)
        BY <2>1, <3>1 DEF AgesInOrder
      <3>3. Aged(i).cursor \in Cursor /\ Aged(j).cursor \in Cursor
        BY <3>1, <3>2, AgedIs
      <3>4. After(Aged(j).cursor, c)
        BY <3>1, <3>2, <3>3, AfterOrder
      <3>5. QED
        BY <3>2, <3>4
    <2> HIDE DEF T
    <2>2. T \in SUBSET (1..CheckpointSlots)
      BY DEF T
    <2>3. QED
      BY <2>1, <2>2, Suffix
  <1>4. ASSUME NEW i \in 1..CheckpointSlots
        PROVE  Place(next, i) \in newer <=> i > CheckpointSlots - k
    BY <1>1, <1>3, AgedIs
  <1>5. Cardinality(newer) = k
    <2> HIDE DEF newer
    <2>1. newer \in SUBSET (DOMAIN cells)
      BY DEF newer
    <2>2. QED
      BY <1>1, <1>4, <2>1, CountIs
  <1> DEFINE back == (next + k * (CheckpointSlots - 1)) % CheckpointSlots
  <1>6. next' = back
    <2>1. CASE newer = {}
      <3>1. k = 0
        BY <1>5, <2>1, FS_EmptySet
      <3>2. QED
        BY <1>1, <1>2, <2>1, <3>1
    <2>2. CASE newer # {}
      BY <1>2, <1>5, <2>2
    <2>3. QED
      BY <2>1, <2>2
  <1> HIDE DEF newer, T
  <1>7. CellsTyped'
    <2>1. back \in 0..(CheckpointSlots - 1)
      BY <1>1
    <2> HIDE DEF back
    <2>2. \A p \in DOMAIN cells : cells[p] \in Held \cup {Free}
      BY DEF CellsTyped
    <2>3. cells' \in [0..(CheckpointSlots - 1) -> Held \cup {Free}]
      BY <1>1, <1>2, <2>2
    <2>4. QED
      BY <1>6, <2>1, <2>3 DEF CellsTyped
  <1>8. ASSUME NEW i \in 1..CheckpointSlots
        PROVE  Aged(i)' = IF i <= k THEN Free ELSE Aged(i - k)
    <2>1. Aged(i)' = cells'[Place(back, i)]
      BY <1>6 DEF Aged, Place
    <2>2. Place(back, i) = IF i <= k THEN Place(next, CheckpointSlots - k + i)
                           ELSE Place(next, i - k)
      BY <1>1, MovedBack
    <2> HIDE DEF back
    <2>3. CASE i <= k
      <3>1. /\ CheckpointSlots - k + i \in 1..CheckpointSlots
            /\ CheckpointSlots - k + i > CheckpointSlots - k
        BY <1>1, <2>3
      <3>2. Place(next, CheckpointSlots - k + i) \in newer
        BY <1>4, <3>1
      <3>3. Place(next, CheckpointSlots - k + i) \in DOMAIN cells
        BY <1>1, <3>1, PlaceIs
      <3>4. QED
        BY <1>2, <2>1, <2>2, <2>3, <3>2, <3>3
    <2>4. CASE ~(i <= k)
      <3>1. i - k \in 1..CheckpointSlots /\ ~(i - k > CheckpointSlots - k)
        BY <1>1, <2>4
      <3>2. Place(next, i - k) \notin newer
        BY <1>4, <3>1
      <3>3. Aged(i - k) = cells[Place(next, i - k)] /\ Place(next, i - k) \in DOMAIN cells
        BY <1>1, <3>1, AgedIs
      <3>4. QED
        BY <1>2, <2>1, <2>2, <2>4, <3>2, <3>3
    <2>5. QED
      BY <2>3, <2>4
  <1>9. \A i \in 1..CheckpointSlots :
          Taken(Aged(i)) /\ After(Aged(i).cursor, c) <=> i > CheckpointSlots - k
    BY <1>3 DEF T
  <1>10. QED
    BY <1>7, <1>8, <1>9

-----------------------------------------------------------------------------
(***************************************************************************)
(* The slots as a sequence.                                                *)
(***************************************************************************)
LEMMA OldestFirstIs ==
    ASSUME CellsTyped, AgesInOrder
    PROVE  /\ OldestFirst \in Seq(Held) /\ Len(OldestFirst) = HeldCount
           /\ HeldCount \in 0..CheckpointSlots /\ CheckpointSlots \in Nat
           /\ \A i \in 1..HeldCount :
                /\ CheckpointSlots - HeldCount + i \in 1..CheckpointSlots
                /\ OldestFirst[i] = Aged(CheckpointSlots - HeldCount + i)
                /\ OldestFirst[i] \in Held
  <1>1. CheckpointSlots \in Nat /\ HeldCount \in 0..CheckpointSlots /\ HeldCount \in Nat
    BY RingsAssumption, HeldCountIs
  <1>2. ASSUME NEW i \in 1..HeldCount
        PROVE  /\ CheckpointSlots - HeldCount + i \in 1..CheckpointSlots
               /\ CheckpointSlots - HeldCount + i > CheckpointSlots - HeldCount
    BY <1>1
  <1>3. ASSUME NEW i \in 1..HeldCount
        PROVE  Aged(CheckpointSlots - HeldCount + i) \in Held
    BY <1>2, HeldCountIs, AgedIs
  <1>4. OldestFirst \in [1..HeldCount -> Held]
    BY <1>3 DEF OldestFirst
  <1>5. \A i \in 1..HeldCount : OldestFirst[i] = Aged(CheckpointSlots - HeldCount + i)
    BY DEF OldestFirst
  <1>6. OldestFirst \in Seq(Held) /\ Len(OldestFirst) = HeldCount
    BY <1>1, <1>4
  <1>7. QED
    BY <1>1, <1>2, <1>3, <1>5, <1>6

\* The slots after a step that leaves the h newest cells taken.
LEMMA OldestFirstNext ==
    ASSUME CellsTyped', CheckpointSlots # 0, NEW h \in 0..CheckpointSlots,
           NEW v \in [1..CheckpointSlots -> Held \cup {Free}],
           \A i \in 1..CheckpointSlots : Aged(i)' = v[i],
           \A i \in 1..CheckpointSlots : Taken(v[i]) <=> i > CheckpointSlots - h
    PROVE  /\ OldestFirst' \in Seq(Held) /\ Len(OldestFirst') = h
           /\ \A i \in 1..h : OldestFirst'[i] = v[CheckpointSlots - h + i]
  <1> DEFINE P == {p \in DOMAIN cells' : Taken(cells'[p])}
  <1>1. /\ CheckpointSlots \in Nat \ {0} /\ next' \in 0..(CheckpointSlots - 1)
        /\ DOMAIN cells' = 0..(CheckpointSlots - 1)
    BY RingsAssumption DEF CellsTyped
  <1>2. ASSUME NEW i \in 1..CheckpointSlots
        PROVE  Place(next', i) \in P <=> i > CheckpointSlots - h
    <2>1. Aged(i)' = cells'[Place(next', i)]
      BY DEF Aged, Place
    <2>2. Place(next', i) \in DOMAIN cells'
      BY <1>1, PlaceIs
    <2>3. QED
      BY <2>1, <2>2
  <1>3. Cardinality(P) = h
    <2> HIDE DEF P
    <2>1. P \in SUBSET (DOMAIN cells')
      BY DEF P
    <2>2. QED
      BY <1>1, <1>2, <2>1, CountIs
  <1>4. HeldCount' = h
    BY <1>3 DEF HeldCount
  <1>5. ASSUME NEW i \in 1..h
        PROVE  /\ CheckpointSlots - h + i \in 1..CheckpointSlots
               /\ v[CheckpointSlots - h + i] \in Held
    <2>1. /\ CheckpointSlots - h + i \in 1..CheckpointSlots
          /\ CheckpointSlots - h + i > CheckpointSlots - h
      BY <1>1
    <2>2. Taken(v[CheckpointSlots - h + i])
      BY <2>1
    <2>3. QED
      BY <2>1, <2>2 DEF Taken
  <1>6. OldestFirst' = [i \in 1..h |-> Aged(CheckpointSlots - h + i)']
    BY <1>4 DEF OldestFirst
  <1>7. OldestFirst' = [i \in 1..h |-> v[CheckpointSlots - h + i]]
    BY <1>5, <1>6, Zenon
  <1>8. QED
    BY <1>5, <1>7

\* A cell serves a rollback exactly when its slot does in the sequence.
LEMMA EligibleIs ==
    ASSUME RingsInv, NEW i \in 1..HeldCount, NEW block \in Int
    PROVE  E!Serves(i, block) <=> Eligible(CheckpointSlots - HeldCount + i, block)
  <1> DEFINE slot == OldestFirst[i]
  <1>1. /\ slot = Aged(CheckpointSlots - HeldCount + i) /\ slot \in Held
    BY OldestFirstIs DEF RingsInv
  <1>2. Taken(slot) /\ slot.cursor \in Cursor /\ slot.cursor.block \in Int
    BY <1>1, HeldIs, CursorIs
  <1> HIDE DEF slot
  <1>3. E!Observes(RingSeq, slot.cursor.block) <=> IndexOf(slot.cursor.block) >= 0
    BY <1>2, ObservesIs DEF RingsInv
  <1>4. E!Live(slot) <=> IsLive(slot)
    BY <1>3 DEF E!Live, IsLive, E!NoPos, NoPos
  <1>5. E!Serves(i, block) <=> E!Live(slot) /\ slot.cursor.block <= block
    BY DEF E!Serves, slot
  <1>6. Eligible(CheckpointSlots - HeldCount + i, block) <=>
          Taken(slot) /\ IsLive(slot) /\ slot.cursor.block <= block
    BY <1>1 DEF Eligible
  <1>7. QED
    BY <1>2, <1>4, <1>5, <1>6

\* Only a slot of the sequence can serve.
LEMMA EligibleHeld ==
    ASSUME RingsInv, NEW j \in 1..CheckpointSlots, Taken(Aged(j))
    PROVE  /\ j - (CheckpointSlots - HeldCount) \in 1..HeldCount
           /\ CheckpointSlots - HeldCount + (j - (CheckpointSlots - HeldCount)) = j
  <1>1. CheckpointSlots \in Nat /\ HeldCount \in 0..CheckpointSlots
    BY OldestFirstIs DEF RingsInv
  <1>2. j > CheckpointSlots - HeldCount
    BY HeldCountIs DEF RingsInv
  <1>3. QED
    BY <1>1, <1>2

LEMMA InvAges ==
    ASSUME RingsInv
    PROVE  SlotsAgeInOrder
  <1>1. SUFFICES ASSUME NEW block \in 0..MaxNumber
                 PROVE  E!CanRollback(block) <=>
                          \E i \in 1..CheckpointSlots : BestAtOrBelow(i, block)
    BY DEF SlotsAgeInOrder, RingsInv, AgesInOrder
  <1>2. /\ CheckpointSlots \in Nat /\ block \in Int
        /\ Len(OldestFirst) = HeldCount
        /\ \A i \in 1..HeldCount : CheckpointSlots - HeldCount + i \in 1..CheckpointSlots
    BY RingsAssumption, OldestFirstIs DEF RingsInv
  <1>3. E!CanRollback(block) <=> \E i \in 1..HeldCount : E!Serves(i, block)
    BY <1>2 DEF E!CanRollback
  <1>4. ASSUME NEW i \in 1..HeldCount, E!Serves(i, block)
        PROVE  \E b \in 1..CheckpointSlots : BestAtOrBelow(b, block)
    <2> DEFINE S == {j \in 1..CheckpointSlots : Eligible(j, block)}
    <2>1. CheckpointSlots - HeldCount + i \in S
      BY <1>2, <1>4, EligibleIs
    <2>2. S \in SUBSET Int /\ S # {} /\ \A j \in S : j <= CheckpointSlots
      BY <1>2, <2>1
    <2>3. PICK b \in S : \A j \in S : j <= b
      <3> HIDE DEF S
      <3>1. CheckpointSlots \in Int
        BY <1>2
      <3>2. QED
        BY <2>2, <3>1, GreatestNumber
    <2>4. ASSUME NEW j \in (b + 1)..CheckpointSlots PROVE ~Eligible(j, block)
      <3>1. b \in 1..CheckpointSlots
        OBVIOUS
      <3>2. j \in 1..CheckpointSlots /\ ~(j <= b)
        BY <1>2, <3>1
      <3>3. QED
        BY <2>3, <3>2
    <2>5. QED
      BY <2>3, <2>4 DEF BestAtOrBelow
  <1>5. ASSUME NEW b \in 1..CheckpointSlots, BestAtOrBelow(b, block)
        PROVE  \E i \in 1..HeldCount : E!Serves(i, block)
    <2>1. Eligible(b, block) /\ Taken(Aged(b))
      BY <1>5 DEF BestAtOrBelow, Eligible
    <2>2. /\ b - (CheckpointSlots - HeldCount) \in 1..HeldCount
          /\ CheckpointSlots - HeldCount + (b - (CheckpointSlots - HeldCount)) = b
      BY <2>1, EligibleHeld
    <2>3. E!Serves(b - (CheckpointSlots - HeldCount), block)
      BY <1>2, <2>1, <2>2, EligibleIs
    <2>4. QED
      BY <2>2, <2>3
  <1>6. QED
    BY <1>3, <1>4, <1>5

-----------------------------------------------------------------------------
(***************************************************************************)
(* The steps.                                                              *)
(***************************************************************************)
LEMMA SameRing ==
    ASSUME UNCHANGED <<entries, head, len>>
    PROVE  /\ RingTyped => RingTyped' /\ (Ascends => Ascends')
           /\ RingSeq' = RingSeq
           /\ (NumberAt(len - 1))' = NumberAt(len - 1)
  BY DEF RingTyped, Ascends, RingSeq, NumberAt, EntryAt, Physical

LEMMA SameCells ==
    ASSUME UNCHANGED <<cells, next>>
    PROVE  /\ CellsTyped => CellsTyped'
           /\ OldestFirst' = OldestFirst
           /\ \A i \in 1..CheckpointSlots : Aged(i)' = Aged(i)
  BY DEF CellsTyped, OldestFirst, HeldCount, Aged

\* The slots stay in order when the cursor does not go back.
LEMMA CursorRises ==
    ASSUME CellsTyped, AgesInOrder, UNCHANGED <<cells, next>>,
           cursor \in Cursor, cursor' \in Cursor, ~After(cursor, cursor')
    PROVE  CellsTyped' /\ AgesInOrder'
  <1>1. \A i \in 1..CheckpointSlots : Aged(i)' = Aged(i)
    BY SameCells
  <1>2. ASSUME NEW i \in 1..CheckpointSlots, Taken(Aged(i))
        PROVE  ~After(Aged(i).cursor, cursor')
    <2>1. Aged(i).cursor \in Cursor /\ ~After(Aged(i).cursor, cursor)
      BY <1>2, AgedIs DEF AgesInOrder
    <2>2. QED
      BY <2>1, AfterOrder
  <1>3. QED
    BY <1>1, <1>2, SameCells DEF AgesInOrder

LEMMA InitEstablishesInv == Init => RingsInv
  <1>1. SUFFICES ASSUME Init PROVE RingsInv
    OBVIOUS
  <1>2. RingTyped /\ Ascends
    BY <1>1, RingsAssumption DEF Init, RingTyped, Ascends, Entry
  <1>3. TipIsCursor
    BY <1>1 DEF Init, TipIsCursor, Cursor
  <1>4. CellsTyped
    BY <1>1, RingsAssumption DEF Init, CellsTyped
  <1>5. ASSUME NEW i \in 1..CheckpointSlots PROVE ~Taken(Aged(i))
    <2>1. Aged(i) = cells[Place(next, i)] /\ Place(next, i) \in 0..(CheckpointSlots - 1)
      BY <1>4, AgedIs
    <2>2. QED
      BY <1>1, <2>1 DEF Init, Taken
  <1>6. QED
    BY <1>2, <1>3, <1>4, <1>5 DEF RingsInv, AgesInOrder

LEMMA ObserveKeepsInv ==
    ASSUME RingsInv, NEW number \in 0..MaxNumber, NEW hash \in Hash, Observe(number, hash)
    PROVE  /\ RingsInv'
           /\ RingSeq' = E!Push(RingSeq, [number |-> number, hash |-> hash])
  <1> DEFINE block == [number |-> number, hash |-> hash]
  <1>1. block \in Entry /\ block.number = number
    BY DEF Entry
  <1>2. RingTyped /\ Ascends /\ TipIsCursor /\ CellsTyped /\ AgesInOrder /\ len \in Nat
    BY EntriesTyped DEF RingsInv
  <1>3. /\ PushEntry(block) /\ cursor' = [block |-> number, log |-> 0]
        /\ UNCHANGED <<cells, next>>
        /\ len > 0 => NumberAt(len - 1) < number
    BY <1>2 DEF Observe
  <1> HIDE DEF block
  <1>4. /\ RingTyped' /\ Ascends' /\ len' > 0 /\ (NumberAt(len - 1))' = number
        /\ RingSeq' = E!Push(RingSeq, block)
    BY <1>1, <1>2, <1>3, PushKeeps
  <1>5. cursor' \in Cursor /\ cursor'.block = number
    BY <1>3, RingsAssumption DEF Cursor
  <1>6. TipIsCursor'
    BY <1>4, <1>5 DEF TipIsCursor
  <1>7. ~After(cursor, cursor')
    <2>1. cursor.block < number
      <3>1. CASE len = 0
        BY <1>2, <3>1 DEF TipIsCursor, NoPos
      <3>2. CASE len > 0
        BY <1>2, <1>3, <3>2 DEF TipIsCursor
      <3>3. QED
        BY <1>2, <3>1, <3>2
    <2>2. cursor.block \in Int /\ number \in Int
      BY <1>2, CursorIs DEF TipIsCursor
    <2>3. QED
      BY <1>5, <2>1, <2>2 DEF After
  <1>8. CellsTyped' /\ AgesInOrder'
    BY <1>2, <1>3, <1>5, <1>7, CursorRises DEF TipIsCursor
  <1>9. QED
    BY <1>4, <1>6, <1>8 DEF RingsInv, block

LEMMA MoveOnKeepsInv ==
    ASSUME RingsInv, MoveOn
    PROVE  RingsInv'
  <1>1. RingTyped /\ Ascends /\ TipIsCursor /\ CellsTyped /\ AgesInOrder
    BY DEF RingsInv
  <1>2. /\ cursor \in [block : 0..MaxNumber, log : 0..MaxLog] /\ cursor.log < MaxLog
        /\ cursor' = [cursor EXCEPT !.log = @ + 1]
        /\ UNCHANGED <<entries, head, len>> /\ UNCHANGED <<cells, next>>
    BY <1>1 DEF MoveOn, TipIsCursor, Cursor
  <1>3. /\ cursor' \in [block : 0..MaxNumber, log : 0..MaxLog]
        /\ cursor'.block = cursor.block /\ cursor'.log = cursor.log + 1
    BY <1>2, RingsAssumption
  <1>4. RingTyped' /\ Ascends' /\ (NumberAt(len - 1))' = NumberAt(len - 1)
    BY <1>1, <1>2, SameRing
  <1>5. TipIsCursor'
    <2>1. cursor # NoPos
      BY DEF MoveOn
    <2>2. len > 0 /\ len' = len
      BY <1>1, <1>2, <2>1, EntriesTyped DEF TipIsCursor
    <2>3. QED
      BY <1>1, <1>3, <1>4, <2>2, EntriesTyped DEF TipIsCursor, Cursor
  <1>6. ~After(cursor, cursor')
    BY <1>2, <1>3, RingsAssumption DEF After
  <1>7. CellsTyped' /\ AgesInOrder'
    BY <1>1, <1>2, <1>3, <1>6, CursorRises DEF Cursor
  <1>8. QED
    BY <1>4, <1>5, <1>7 DEF RingsInv

LEMMA CheckpointKeepsInv ==
    ASSUME RingsInv, TakeCheckpoint
    PROVE  RingsInv' /\ OldestFirst' = E!Store(OldestFirst, SlotOf(cursor))
  <1>1. RingTyped /\ Ascends /\ TipIsCursor /\ CellsTyped /\ AgesInOrder
    BY DEF RingsInv
  <1>2. /\ StoreSlot(SlotOf(cursor)) /\ cursor' = cursor
        /\ UNCHANGED <<entries, head, len>>
    BY DEF TakeCheckpoint
  <1>3. SlotOf(cursor) \in Held /\ SlotOf(cursor).cursor = cursor /\ Taken(SlotOf(cursor))
    BY <1>1, HeldIs DEF TipIsCursor, Held, SlotOf
  <1>4. RingTyped' /\ Ascends' /\ TipIsCursor'
    BY <1>1, <1>2, SameRing DEF TipIsCursor
  <1>5. CASE CheckpointSlots = 0
    <2>1. UNCHANGED <<cells, next>>
      BY <1>2, <1>5 DEF StoreSlot
    <2>2. CellsTyped' /\ OldestFirst' = OldestFirst
      BY <1>1, <2>1, SameCells
    <2>3. AgesInOrder'
      BY <1>5 DEF AgesInOrder
    <2>4. QED
      BY <1>4, <1>5, <2>2, <2>3 DEF RingsInv, E!Store
  <1>6. CASE CheckpointSlots # 0
    <2> DEFINE C == CheckpointSlots
               h == HeldCount
               v == [i \in 1..C |-> IF i < C THEN Aged(i + 1) ELSE SlotOf(cursor)]
    <2>1. /\ CellsTyped'
          /\ \A i \in 1..C : Aged(i)' = IF i < C THEN Aged(i + 1) ELSE SlotOf(cursor)
      BY <1>1, <1>2, <1>3, <1>6, StoreMoves
    <2>2. C \in Nat \ {0} /\ h \in 0..C
      BY <1>6, RingsAssumption, <1>1, OldestFirstIs
    <2>3. ASSUME NEW i \in 1..C, i < C
          PROVE  /\ i + 1 \in 1..C /\ Aged(i + 1) \in Held \cup {Free}
                 /\ Taken(Aged(i + 1)) <=> i + 1 > C - h
                 /\ Taken(Aged(i + 1)) => /\ Aged(i + 1).cursor \in Cursor
                                          /\ ~After(Aged(i + 1).cursor, cursor)
      <3>1. i + 1 \in 1..C
        BY <2>2, <2>3
      <3>2. QED
        BY <1>1, <3>1, AgedIs, HeldCountIs DEF AgesInOrder
    <2>4. AgesInOrder'
      <3>1. ASSUME NEW i \in 1..C, Taken(Aged(i)')
            PROVE  ~After((Aged(i)').cursor, cursor)
        <4>1. CASE i < C
          BY <2>1, <2>3, <3>1, <4>1
        <4>2. CASE ~(i < C)
          BY <1>1, <1>3, <2>1, <4>2, CursorIs DEF After, TipIsCursor
        <4>3. QED
          BY <4>1, <4>2
      <3>2. ASSUME NEW i \in 1..C, NEW j \in 1..C, i < j, Taken(Aged(i)')
            PROVE  Taken(Aged(j)') /\ ~After((Aged(i)').cursor, (Aged(j)').cursor)
        <4>1. i < C /\ Aged(i)' = Aged(i + 1)
          BY <2>1, <2>2, <3>2
        <4>2. CASE j < C
          <5>1. i + 1 \in 1..C /\ j + 1 \in 1..C /\ i + 1 < j + 1 /\ Aged(j)' = Aged(j + 1)
            BY <2>1, <2>2, <3>2, <4>1, <4>2
          <5>2. QED
            BY <1>1, <3>2, <4>1, <5>1 DEF AgesInOrder
        <4>3. CASE ~(j < C)
          <5>1. Aged(j)' = SlotOf(cursor)
            BY <2>1, <4>3
          <5>2. QED
            BY <1>3, <3>1, <3>2, <5>1
        <4>4. QED
          BY <4>2, <4>3
      <3>3. QED
        BY <1>2, <3>1, <3>2 DEF AgesInOrder
    <2>5. OldestFirst' = E!Store(OldestFirst, SlotOf(cursor))
      <3> DEFINE g == IF h < C THEN h + 1 ELSE h
      <3>1. v \in [1..C -> Held \cup {Free}] /\ \A i \in 1..C : Aged(i)' = v[i]
        BY <1>3, <2>1, <2>3
      <3>2. g \in 0..C /\ \A i \in 1..C : Taken(v[i]) <=> i > C - g
        <4>1. g \in 0..C
          BY <2>2
        <4>2. ASSUME NEW i \in 1..C PROVE Taken(v[i]) <=> i > C - g
          <5>1. CASE i < C
            <6>1. Taken(v[i]) <=> i + 1 > C - h
              BY <2>3, <5>1
            <6>2. i + 1 > C - h <=> i > C - g
              BY <2>2, <5>1
            <6>3. QED
              BY <6>1, <6>2
          <5>2. CASE ~(i < C)
            <6>1. Taken(v[i])
              BY <1>3, <5>2
            <6>2. i > C - g
              BY <2>2, <5>2
            <6>3. QED
              BY <6>1, <6>2
          <5>3. QED
            BY <5>1, <5>2
        <4>3. QED
          BY <4>1, <4>2
      <3>3. /\ OldestFirst' \in Seq(Held) /\ Len(OldestFirst') = g
            /\ \A i \in 1..g : OldestFirst'[i] = v[C - g + i]
        <4> HIDE DEF v, g
        <4>1. QED
          BY <1>6, <2>1, <3>1, <3>2, OldestFirstNext
      <3>4. /\ OldestFirst \in Seq(Held) /\ Len(OldestFirst) = h
            /\ \A i \in 1..h : OldestFirst[i] = Aged(C - h + i)
        BY <1>1, OldestFirstIs
      <3>5. CASE h < C
        <4>1. g = h + 1 /\ C - g + (h + 1) = C
          BY <2>2, <3>5
        <4>2. OldestFirst'[h + 1] = SlotOf(cursor)
          <5>1. h + 1 \in 1..g
            BY <2>2, <4>1
          <5>2. C \in 1..C /\ ~(C < C)
            BY <2>2
          <5>3. v[C] = SlotOf(cursor)
            BY <5>2
          <5> HIDE DEF v, g
          <5>4. OldestFirst'[h + 1] = v[C]
            BY <3>3, <4>1, <5>1
          <5>5. QED
            BY <5>3, <5>4
        <4>3. ASSUME NEW i \in 1..h PROVE OldestFirst'[i] = OldestFirst[i]
          <5>1. i \in 1..g /\ C - g + i \in 1..C /\ C - g + i < C /\ (C - g + i) + 1 = C - h + i
            BY <2>2, <3>5, <4>1
          <5>2. v[C - g + i] = Aged(C - h + i)
            BY <5>1
          <5>3. QED
            BY <3>3, <3>4, <5>1, <5>2
        <4>4. E!Store(OldestFirst, SlotOf(cursor)) = Append(OldestFirst, SlotOf(cursor))
          BY <1>6, <3>4, <3>5 DEF E!Store
        <4>5. QED
          BY <1>3, <3>3, <3>4, <4>1, <4>2, <4>3, <4>4, AppendKeeping
      <3>6. CASE ~(h < C)
        <4>1. g = h /\ h = C
          BY <2>2, <3>6
        <4>2. OldestFirst'[h] = SlotOf(cursor)
          <5>1. h \in 1..g /\ C - g + h = C /\ C \in 1..C /\ ~(C < C)
            BY <2>2, <4>1
          <5>2. v[C] = SlotOf(cursor)
            BY <5>1
          <5> HIDE DEF v, g
          <5>3. OldestFirst'[h] = v[C]
            BY <3>3, <5>1
          <5>4. QED
            BY <5>2, <5>3
        <4>3. ASSUME NEW i \in 1..(h - 1) PROVE OldestFirst'[i] = OldestFirst[i + 1]
          <5>1. /\ i \in 1..g /\ i + 1 \in 1..h /\ C - g + i = i /\ i \in 1..C /\ i < C
                /\ C - h + (i + 1) = i + 1
            BY <2>2, <4>1
          <5>2. v[i] = Aged(i + 1)
            BY <5>1
          <5>3. OldestFirst'[i] = v[i] /\ OldestFirst[i + 1] = Aged(i + 1)
            BY <3>3, <3>4, <5>1
          <5>4. QED
            BY <5>2, <5>3
        <4>4. E!Store(OldestFirst, SlotOf(cursor)) = Append(Tail(OldestFirst), SlotOf(cursor))
          BY <1>6, <3>4, <3>6 DEF E!Store
        <4>5. OldestFirst # <<>>
          BY <2>2, <3>4, <4>1
        <4>6. QED
          BY <1>3, <3>3, <3>4, <4>1, <4>2, <4>3, <4>4, <4>5, AppendEvicting
      <3>7. QED
        BY <3>5, <3>6
    <2>6. QED
      BY <1>4, <2>1, <2>4, <2>5 DEF RingsInv
  <1>7. QED
    BY <1>5, <1>6

\* A rollback to a live slot leaves the ring at the slot's block.
LEMMA RollbackCuts ==
    ASSUME RingTyped, Ascends, NEW c \in Cursor, c = NoPos \/ IndexOf(c.block) >= 0,
           cursor' = c, IF c = NoPos THEN ClearRing ELSE TruncateAbove(c.block)
    PROVE  /\ RingTyped' /\ Ascends' /\ TipIsCursor'
           /\ \E m \in 0..Len(RingSeq) :
                E!AtOrBelow(RingSeq, c.block, m) /\ RingSeq' = SubSeq(RingSeq, 1, m)
  <1> DEFINE m == IndexAtOrBelow(c.block) + 1
  <1>1. /\ c.block \in Int /\ len \in Nat /\ RingCapacity \in Nat /\ len <= RingCapacity
        /\ \A i \in 0..(len - 1) : NumberAt(i) \in Int /\ NumberAt(i) >= 0
    BY CursorIs, EntriesTyped DEF RingTyped
  <1>2. m \in 0..len /\ E!AtOrBelow(RingSeq, c.block, m)
    BY <1>1, AtOrBelowIs
  <1> HIDE DEF m
  <1>3. \A i \in 0..(len - 1) : i < m <=> NumberAt(i) <= c.block
    <2>1. \A i \in 1..len : i <= m <=> RingSeq[i].number <= c.block
      BY <1>2, RingSeqTyped DEF E!AtOrBelow
    <2>2. ASSUME NEW i \in 0..(len - 1) PROVE i < m <=> NumberAt(i) <= c.block
      <3>1. i + 1 \in 1..len /\ (i + 1) - 1 = i
        BY <1>1
      <3>2. RingSeq[i + 1].number = NumberAt(i)
        BY <3>1, RingSeqTyped
      <3>3. i + 1 <= m <=> NumberAt(i) <= c.block
        BY <2>1, <3>1, <3>2
      <3>4. QED
        BY <1>1, <1>2, <3>3
    <2>3. QED
      BY <2>2
  <1>4. c = NoPos => m = 0
    <2>1. c = NoPos => c.block = -1
      BY DEF NoPos
    <2>2. m > 0 => 0 \in 0..(len - 1) /\ 0 < m
      BY <1>1, <1>2
    <2>3. QED
      BY <1>1, <1>2, <1>3, <2>1, <2>2
  <1>5. len' = m /\ head' = (IF m = 0 THEN 0 ELSE head) /\ entries' = entries
    <2>1. CASE c = NoPos
      BY <1>4, <2>1 DEF ClearRing
    <2>2. CASE c # NoPos
      BY <2>2 DEF TruncateAbove, m
    <2>3. QED
      BY <2>1, <2>2
  <1>6. /\ RingTyped' /\ Ascends' /\ RingSeq' = SubSeq(RingSeq, 1, m)
        /\ \A i \in 0..(m - 1) : NumberAt(i)' = NumberAt(i)
    BY <1>2, <1>5, CutKeeps
  <1>7. c # NoPos => m > 0 /\ NumberAt(m - 1) = c.block
    <2>1. SUFFICES ASSUME c # NoPos PROVE m > 0 /\ NumberAt(m - 1) = c.block
      OBVIOUS
    <2>2. PICK x \in 0..(len - 1) : NumberAt(x) = c.block
      <3>1. IndexOf(c.block) \in 0..(len - 1)
        BY <1>1, <2>1, IndexOfFinds
      <3>2. NumberAt(IndexOf(c.block)) = c.block
        BY <1>1, <2>1, IndexOfFinds
      <3>3. QED
        BY <3>1, <3>2
    <2>3. x < m
      BY <1>1, <1>3, <2>2
    <2>4. m > 0 /\ m - 1 \in 0..(len - 1) /\ x <= m - 1 /\ m - 1 < m
      BY <1>1, <1>2, <2>3
    <2>5. NumberAt(m - 1) <= c.block
      BY <1>3, <2>4
    <2>6. x < m - 1 => NumberAt(x) < NumberAt(m - 1)
      BY <2>4 DEF Ascends
    <2>7. QED
      BY <1>1, <2>2, <2>4, <2>5, <2>6
  <1>8. TipIsCursor'
    <2>1. m = 0 => c = NoPos
      BY <1>7
    <2>2. m > 0 => (NumberAt(len - 1))' = c.block
      <3>1. SUFFICES ASSUME m > 0 PROVE (NumberAt(len - 1))' = c.block
        OBVIOUS
      <3>2. PICK k \in 0..(m - 1) : k = m - 1
        BY <1>1, <1>2, <3>1
      <3>3. (NumberAt(len - 1))' = NumberAt(k)'
        BY <1>5, <3>2 DEF NumberAt, EntryAt, Physical
      <3>4. NumberAt(k)' = NumberAt(m - 1)
        BY <1>6, <3>2
      <3>5. QED
        BY <1>4, <1>7, <3>1, <3>3, <3>4
    <2>3. QED
      BY <1>5, <2>1, <2>2 DEF TipIsCursor
  <1>9. QED
    BY <1>2, <1>6, <1>8, RingSeqTyped

\* A rollback drops the slots after the cursor it restores, and only those.
LEMMA RollbackDrops ==
    ASSUME CellsTyped, AgesInOrder, CheckpointSlots # 0, NEW c \in Cursor, cursor' = c,
           DropNewer(c)
    PROVE  /\ CellsTyped' /\ AgesInOrder'
           /\ \E n \in 0..Len(OldestFirst) :
                E!NotNewer(OldestFirst, c, n) /\ OldestFirst' = SubSeq(OldestFirst, 1, n)
  <1> DEFINE C == CheckpointSlots
             h == HeldCount
  <1>1. CellsTyped'
    BY DropMoves
  <1>2. PICK k \in 0..C :
          /\ \A i \in 1..C : Taken(Aged(i)) /\ After(Aged(i).cursor, c) <=> i > C - k
          /\ \A i \in 1..C : Aged(i)' = IF i <= k THEN Free ELSE Aged(i - k)
    BY DropMoves
  <1>3. /\ C \in Nat \ {0} /\ h \in 0..C
        /\ OldestFirst \in Seq(Held) /\ Len(OldestFirst) = h
        /\ \A i \in 1..h : /\ C - h + i \in 1..C
                           /\ OldestFirst[i] = Aged(C - h + i) /\ OldestFirst[i] \in Held
        /\ \A i \in 1..C : Taken(Aged(i)) <=> i > C - h
    BY OldestFirstIs, HeldCountIs
  <1>4. k <= h
    <2>1. SUFFICES ASSUME k > h PROVE FALSE
      BY <1>3
    <2>2. C - k + 1 \in 1..C /\ C - k + 1 > C - k /\ ~(C - k + 1 > C - h)
      BY <1>3, <2>1
    <2>3. QED
      BY <1>2, <1>3, <2>2
  <1>5. AgesInOrder'
    <2>1. ASSUME NEW i \in 1..C, Taken(Aged(i)')
          PROVE  i > k /\ i - k \in 1..C /\ Aged(i)' = Aged(i - k) /\ Taken(Aged(i - k))
      <3>1. ~(i <= k)
        BY <1>2, <2>1 DEF Taken
      <3>2. QED
        BY <1>2, <1>3, <2>1, <3>1
    <2>2. ASSUME NEW i \in 1..C, Taken(Aged(i)')
          PROVE  ~After((Aged(i)').cursor, c)
      <3>1. i - k \in 1..C /\ Aged(i)' = Aged(i - k) /\ Taken(Aged(i - k))
        BY <2>1, <2>2
      <3>2. ~(i - k > C - k)
        BY <1>3
      <3>3. QED
        BY <1>2, <3>1, <3>2
    <2>3. ASSUME NEW i \in 1..C, NEW j \in 1..C, i < j, Taken(Aged(i)')
          PROVE  Taken(Aged(j)') /\ ~After((Aged(i)').cursor, (Aged(j)').cursor)
      <3>1. i > k /\ i - k \in 1..C /\ Aged(i)' = Aged(i - k) /\ Taken(Aged(i - k))
        BY <2>1, <2>3
      <3>2. j - k \in 1..C /\ i - k < j - k /\ ~(j <= k)
        BY <1>3, <2>3, <3>1
      <3>3. Aged(j)' = Aged(j - k)
        BY <1>2, <3>2
      <3>4. QED
        BY <3>1, <3>2, <3>3 DEF AgesInOrder
    <2>4. QED
      BY <2>2, <2>3 DEF AgesInOrder
  <1> DEFINE n == h - k
             v == [i \in 1..C |-> IF i <= k THEN Free ELSE Aged(i - k)]
  <1>6. n \in 0..C /\ n \in 0..h
    BY <1>3, <1>4
  <1>7. /\ v \in [1..C -> Held \cup {Free}]
        /\ \A i \in 1..C : Aged(i)' = v[i]
        /\ \A i \in 1..C : Taken(v[i]) <=> i > C - n
    <2>1. ASSUME NEW i \in 1..C, ~(i <= k)
          PROVE  i - k \in 1..C /\ Aged(i - k) \in Held \cup {Free}
      <3>1. i - k \in 1..C
        BY <1>3, <2>1
      <3>2. QED
        BY <3>1, AgedIs
    <2>2. v \in [1..C -> Held \cup {Free}]
      BY <2>1
    <2>3. \A i \in 1..C : Aged(i)' = v[i]
      BY <1>2
    <2>4. ASSUME NEW i \in 1..C PROVE Taken(v[i]) <=> i > C - n
      <3>1. CASE i <= k
        <4>1. ~Taken(v[i])
          BY <3>1 DEF Taken
        <4>2. ~(i > C - n)
          BY <1>3, <1>4, <3>1
        <4>3. QED
          BY <4>1, <4>2
      <3>2. CASE ~(i <= k)
        <4>1. Taken(v[i]) <=> i - k > C - h
          BY <1>3, <2>1, <3>2
        <4>2. i - k > C - h <=> i > C - n
          BY <1>3, <1>4
        <4>3. QED
          BY <4>1, <4>2
      <3>3. QED
        BY <3>1, <3>2
    <2>5. QED
      BY <2>2, <2>3, <2>4
  <1>8. /\ OldestFirst' \in Seq(Held) /\ Len(OldestFirst') = n
        /\ \A i \in 1..n : OldestFirst'[i] = v[C - n + i]
    <2> HIDE DEF v, n
    <2>1. QED
      BY <1>1, <1>6, <1>7, OldestFirstNext
  <1>9. ASSUME NEW i \in 1..n
        PROVE  i \in 1..h /\ OldestFirst'[i] = OldestFirst[i]
    <2>1. /\ i \in 1..h /\ C - n + i \in 1..C /\ ~(C - n + i <= k)
          /\ (C - n + i) - k = C - h + i
      BY <1>3, <1>4
    <2>2. v[C - n + i] = Aged(C - h + i)
      BY <2>1
    <2>3. QED
      BY <1>3, <1>8, <2>1, <2>2
  <1>10. OldestFirst' = SubSeq(OldestFirst, 1, n)
    <2> HIDE DEF v, n, h
    <2>1. \A i \in 1..n : OldestFirst[i] \in Held
      BY <1>3, <1>9
    <2>2. /\ SubSeq(OldestFirst, 1, n) \in Seq(Held)
          /\ Len(SubSeq(OldestFirst, 1, n)) = n
          /\ \A i \in 1..n : SubSeq(OldestFirst, 1, n)[i] = OldestFirst[i]
      BY <1>3, <1>6, <2>1
    <2>3. QED
      BY <1>8, <1>9, <2>2, SeqEqual
  <1>11. E!NotNewer(OldestFirst, c, n)
    <2>1. ASSUME NEW i \in 1..h
          PROVE  i <= n <=> ~After(OldestFirst[i].cursor, c)
      <3>1. /\ C - h + i \in 1..C /\ OldestFirst[i] = Aged(C - h + i)
            /\ Taken(Aged(C - h + i))
        BY <1>3, HeldIs
      <3>2. After(OldestFirst[i].cursor, c) <=> C - h + i > C - k
        BY <1>2, <3>1
      <3>3. C - h + i > C - k <=> ~(i <= n)
        BY <1>3, <1>4
      <3>4. QED
        BY <3>2, <3>3
    <2>2. \A a, b : E!After(a, b) <=> After(a, b)
      BY DEF E!After, After
    <2>3. QED
      BY <1>3, <1>6, <2>1, <2>2 DEF E!NotNewer
  <1>12. QED
    BY <1>1, <1>3, <1>5, <1>6, <1>10, <1>11

LEMMA RollbackKeepsInv ==
    ASSUME RingsInv, NEW block \in 0..MaxNumber, RollbackAtOrBelow(block)
    PROVE  RingsInv' /\ E!Rollback(block)
  <1> DEFINE C == CheckpointSlots
             h == HeldCount
  <1>1. RingTyped /\ Ascends /\ TipIsCursor /\ CellsTyped /\ AgesInOrder
    BY DEF RingsInv
  <1>2. PICK b \in 1..C :
          /\ BestAtOrBelow(b, block)
          /\ cursor' = Aged(b).cursor
          /\ IF cursor' = NoPos THEN ClearRing ELSE TruncateAbove(cursor'.block)
          /\ DropNewer(cursor')
    BY DEF RollbackAtOrBelow
  <1>3. C \in Nat \ {0} /\ block \in Int /\ h \in 0..C /\ Len(OldestFirst) = h
    BY <1>1, AgedIs, OldestFirstIs, RingsAssumption
  <1>4. Eligible(b, block) /\ Taken(Aged(b)) /\ IsLive(Aged(b)) /\ Aged(b).cursor \in Cursor
    BY <1>1, <1>2, AgedIs DEF BestAtOrBelow, Eligible
  <1>5. PICK c \in Cursor : c = Aged(b).cursor
    BY <1>4
  <1>6. /\ cursor' = c /\ (c = NoPos \/ IndexOf(c.block) >= 0) /\ DropNewer(c)
        /\ IF c = NoPos THEN ClearRing ELSE TruncateAbove(c.block)
    BY <1>2, <1>4, <1>5 DEF IsLive
  <1>7. /\ RingTyped' /\ Ascends' /\ TipIsCursor'
        /\ \E m \in 0..Len(RingSeq) :
             E!AtOrBelow(RingSeq, c.block, m) /\ RingSeq' = SubSeq(RingSeq, 1, m)
    BY <1>1, <1>6, RollbackCuts
  <1>8. /\ CellsTyped' /\ AgesInOrder'
        /\ \E n \in 0..Len(OldestFirst) :
             E!NotNewer(OldestFirst, c, n) /\ OldestFirst' = SubSeq(OldestFirst, 1, n)
    BY <1>1, <1>3, <1>6, RollbackDrops
  <1> DEFINE i == b - (C - h)
  <1>9. i \in 1..h /\ C - h + i = b
    BY <1>4, EligibleHeld
  <1> HIDE DEF i
  <1>10. OldestFirst[i] = Aged(b) /\ OldestFirst[i] \in Held
    BY <1>1, <1>9, OldestFirstIs
  <1>11. E!IsBest(i, block)
    <2>1. E!Serves(i, block)
      BY <1>3, <1>4, <1>9, EligibleIs
    <2>2. ASSUME NEW j \in (i + 1)..h PROVE ~E!Serves(j, block)
      <3>1. j \in 1..h /\ C - h + j \in (b + 1)..C
        BY <1>3, <1>9
      <3>2. ~Eligible(C - h + j, block)
        BY <1>2, <3>1 DEF BestAtOrBelow
      <3>3. QED
        BY <1>3, <3>1, <3>2, EligibleIs
    <2>3. QED
      BY <1>3, <1>9, <2>1, <2>2 DEF E!IsBest
  <1>12. E!CanRollback(block)
    BY <1>3, <1>9, <1>11 DEF E!CanRollback, E!IsBest
  <1>13. OldestFirst[i].cursor = c /\ OldestFirst[i].fold = SlotOf(cursor').fold
    BY <1>5, <1>10, HeldIs DEF SlotOf
  <1>14. E!Rollback(block)
    BY <1>3, <1>6, <1>7, <1>8, <1>9, <1>11, <1>12, <1>13
       DEF E!Rollback, E!Idle, E!NoCall, E!NoBlock, SlotOf
  <1>15. QED
    BY <1>7, <1>8, <1>14 DEF RingsInv

LEMMA ResetKeepsInv ==
    ASSUME RingsInv, ResetAll
    PROVE  RingsInv'
  <1>1. RingTyped /\ CellsTyped
    BY DEF RingsInv
  <1>2. /\ head' = 0 /\ len' = 0 /\ entries' = entries /\ cursor' = NoPos
        /\ cells' = [p \in DOMAIN cells |-> Free] /\ next' = next
    BY DEF ResetAll, ClearRing, ClearSlots
  <1>3. RingTyped' /\ Ascends'
    BY <1>1, <1>2, RingsAssumption DEF RingTyped, Ascends
  <1>4. TipIsCursor'
    BY <1>2 DEF TipIsCursor, Cursor
  <1>5. CellsTyped'
    BY <1>1, <1>2 DEF CellsTyped
  <1>6. ASSUME NEW i \in 1..CheckpointSlots PROVE ~Taken(Aged(i)')
    <2>1. Place(next, i) \in DOMAIN cells
      BY <1>1, AgedIs DEF CellsTyped
    <2>2. Aged(i)' = cells'[Place(next, i)]
      BY <1>2 DEF Aged, Place
    <2>3. QED
      BY <1>2, <2>1, <2>2 DEF Taken
  <1>7. AgesInOrder'
    BY <1>6 DEF AgesInOrder
  <1>8. QED
    BY <1>3, <1>4, <1>5, <1>7 DEF RingsInv

LEMMA NextKeepsInv == RingsInv /\ [Next]_vars => RingsInv'
  <1>1. SUFFICES ASSUME RingsInv, [Next]_vars PROVE RingsInv'
    OBVIOUS
  <1>2. ASSUME NEW number \in 0..MaxNumber, NEW hash \in Hash, Observe(number, hash)
        PROVE  RingsInv'
    BY <1>1, <1>2, ObserveKeepsInv
  <1>3. CASE MoveOn
    BY <1>1, <1>3, MoveOnKeepsInv
  <1>4. CASE TakeCheckpoint
    BY <1>1, <1>4, CheckpointKeepsInv
  <1>5. ASSUME NEW block \in 0..MaxNumber, RollbackAtOrBelow(block)
        PROVE  RingsInv'
    BY <1>1, <1>5, RollbackKeepsInv
  <1>6. CASE ResetAll
    BY <1>1, <1>6, ResetKeepsInv
  <1>7. CASE UNCHANGED vars
    <2>1. UNCHANGED <<entries, head, len>> /\ UNCHANGED <<cells, next>> /\ cursor' = cursor
      BY <1>7 DEF vars
    <2>2. RingTyped' /\ Ascends' /\ TipIsCursor'
      BY <1>1, <2>1, SameRing DEF RingsInv, TipIsCursor
    <2>3. CellsTyped' /\ AgesInOrder'
      BY <1>1, <2>1, SameCells DEF RingsInv, AgesInOrder
    <2>4. QED
      BY <2>2, <2>3 DEF RingsInv
  <1>8. QED
    BY <1>1, <1>2, <1>3, <1>4, <1>5, <1>6, <1>7 DEF Next

-----------------------------------------------------------------------------
(***************************************************************************)
(* Theorems.                                                               *)
(***************************************************************************)
\* RingsInv holds in every state of the two rings under the engine's calls.
THEOREM InductiveInvariant == Spec => []RingsInv
  <1>1. Init => RingsInv
    BY InitEstablishesInv
  <1>2. RingsInv /\ [Next]_vars => RingsInv'
    BY NextKeepsInv
  <1>3. QED
    BY <1>1, <1>2, PTL DEF Spec

\* The indices of both rings stay inside their arrays, and a slot is a checkpoint of
\* the engine.
THEOREM TypeCorrect == Spec => []TypeOK
  <1>1. RingsInv => TypeOK
    <2>1. SUFFICES ASSUME RingsInv PROVE TypeOK
      OBVIOUS
    <2>2. RingTyped /\ TipIsCursor /\ CellsTyped
      BY <2>1 DEF RingsInv
    <2>3. ASSUME NEW p \in DOMAIN cells, Taken(cells[p])
          PROVE  cells[p] \in [fold : E!Fold, cursor : E!Position \cup {NoPos}]
      <3>1. cells[p] \in Held
        BY <2>2, <2>3 DEF CellsTyped, Taken
      <3>2. PICK c \in Cursor : cells[p] = SlotOf(c)
        BY <3>1 DEF Held
      <3>3. c \in E!Position \cup {NoPos}
        BY RingsAssumption DEF Cursor, E!Position
      <3>4. [events |-> <<>>, torn |-> FALSE] \in E!Fold
        BY DEF E!Fold
      <3>5. QED
        BY <3>2, <3>3, <3>4 DEF SlotOf
    <2>4. next \in 0..CheckpointSlots
      BY <2>2, RingsAssumption DEF CellsTyped
    <2>5. QED
      BY <2>2, <2>3, <2>4 DEF TypeOK, RingTyped, TipIsCursor, Cursor
  <1>2. QED
    BY <1>1, InductiveInvariant, PTL

\* index_at_or_below and index_of answer what the sequence holds, whatever the
\* capacity, the gaps in the numbers and where the ring has wrapped around.
THEOREM LookupsAnswer == Spec => []LookupsAgree
  <1>1. RingsInv => LookupsAgree
    BY InvLookups DEF RingsInv
  <1>2. QED
    BY <1>1, InductiveInvariant, PTL

\* From the write position on come the free cells and then the slots by age, and
\* best_at_or_below finds a slot exactly when one serves.
THEOREM SlotsAge == Spec => []SlotsAgeInOrder
  <1>1. RingsInv => SlotsAgeInOrder
    BY InvAges
  <1>2. QED
    BY <1>1, InductiveInvariant, PTL

\* push, store and rollback_at_or_below do to the arrays what Engine does to its
\* sequences.
THEOREM ArraysImplementSequences == Spec => ImplementsSequences
  <1> DEFINE A == /\ \A number \in 0..MaxNumber, hash \in Hash :
                       Observe(number, hash) =>
                         RingSeq' = E!Push(RingSeq, [number |-> number, hash |-> hash])
                  /\ TakeCheckpoint => E!Checkpoint
                  /\ \A block \in 0..MaxNumber : RollbackAtOrBelow(block) => E!Rollback(block)
  <1>1. RingsInv => A
    <2>1. SUFFICES ASSUME RingsInv PROVE A
      OBVIOUS
    <2>2. ASSUME TakeCheckpoint PROVE E!Checkpoint
      <3>1. OldestFirst' = E!Store(OldestFirst, SlotOf(cursor))
        BY <2>1, <2>2, CheckpointKeepsInv
      <3>2. cursor' = cursor /\ RingSeq' = RingSeq
        BY <2>2, SameRing DEF TakeCheckpoint
      <3>3. SlotOf(cursor) = [fold |-> SlotOf(cursor).fold, cursor |-> cursor]
        BY DEF SlotOf
      <3>4. QED
        BY <3>1, <3>2, <3>3 DEF E!Checkpoint, E!Idle, E!NoCall
    <2>3. QED
      BY <2>1, <2>2, ObserveKeepsInv, RollbackKeepsInv
  <1>2. RingsInv => [A]_vars
    BY <1>1
  <1>3. QED
    BY <1>2, InductiveInvariant, PTL DEF ImplementsSequences
=============================================================================
