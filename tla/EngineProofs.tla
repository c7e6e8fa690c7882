---------------------------- MODULE EngineProofs ----------------------------
(***************************************************************************)
(* Proofs about Engine, for every ring capacity, every number of slots,    *)
(* every set of batches and every fold.                                    *)
(***************************************************************************)
EXTENDS Engine, TLAPS

USE RingCapacityAssumption, CheckpointSlotsAssumption

-----------------------------------------------------------------------------
(***************************************************************************)
(* Positions.                                                              *)
(***************************************************************************)
\* Anything with an integer block and log can be compared: a position, the
\* absent position, an event.
Point(p) == p.block \in Int /\ p.log \in Int

\* The order of positions is transitive, also through positions that are equal.
LEMMA AfterTransitive ==
    ASSUME NEW p, NEW q, NEW r, Point(p), Point(q), Point(r)
    PROVE  /\ After(p, q) /\ After(q, r) => After(p, r)
           /\ After(p, q) /\ ~After(r, q) => After(p, r)
           /\ ~After(p, q) /\ ~After(q, r) => ~After(p, r)
           /\ ~After(p, p)
           /\ After(p, q) => ~After(q, p)
  BY DEF After, Point

\* Every cursor and every event is comparable.
LEMMA PointsCompare ==
    /\ \A p \in Position \cup {NoPos} : Point(p)
    /\ \A e \in Event : Point(e)
    /\ NoPos \notin Position
    /\ \A p \in Position \cup {NoPos} : p # NoPos => p \in Position
    /\ \A p \in Position \cup {NoPos} : p.block < 0 <=> p = NoPos
  BY DEF Point, Position, NoPos, Event

-----------------------------------------------------------------------------
(***************************************************************************)
(* The ring.                                                               *)
(***************************************************************************)
\* The entries of a ring are blocks with natural numbers.
LEMMA RingEntries ==
    ASSUME NEW r \in Seq(BlockRef)
    PROVE  \A k \in 1..Len(r) : r[k] \in BlockRef /\ r[k].number \in Nat
  <1>1. \A k \in 1..Len(r) : r[k] \in BlockRef
    OBVIOUS
  <1>2. \A b \in BlockRef : b.number \in Nat
    BY DEF BlockRef
  <1>3. QED
    BY <1>1, <1>2

\* Pushing a block above the newest one keeps the ring within its capacity and
\* ending at the new block, and adds nothing else.
LEMMA PushEndsAtBlock ==
    ASSUME NEW r \in Seq(BlockRef), Len(r) <= RingCapacity,
           NEW c \in Position \cup {NoPos}, RingEndsAt(r, c),
           NEW b \in BlockRef, r = <<>> \/ Newest(r).number < b.number,
           NEW p \in Position, p.block = b.number
    PROVE  /\ Push(r, b) \in Seq(BlockRef)
           /\ Len(Push(r, b)) <= RingCapacity
           /\ RingEndsAt(Push(r, b), p)
           /\ Push(r, b) # <<>>
           /\ Newest(Push(r, b)) = b
           /\ \A k \in 1..Len(Push(r, b)) :
                Push(r, b)[k] = b \/ \E m \in 1..Len(r) : Push(r, b)[k] = r[m]
  <1> DEFINE q == Push(r, b)
  <1>0. \A i \in 1..Len(r) : r[i].number < b.number
    <2> SUFFICES ASSUME NEW i \in 1..Len(r) PROVE r[i].number < b.number
      OBVIOUS
    <2>1. r # <<>> /\ Len(r) \in 1..Len(r)
      OBVIOUS
    <2>2. r[i] \in BlockRef /\ r[Len(r)] \in BlockRef
      BY <2>1
    <2>3. i = Len(r) \/ r[i].number < r[Len(r)].number
      BY <2>1 DEF RingEndsAt
    <2>4. QED
      BY <2>1, <2>2, <2>3 DEF Newest, BlockRef
  <1>1. CASE Len(r) < RingCapacity
    <2>1. q = Append(r, b)
      BY <1>1 DEF Push
    <2>2. /\ q \in Seq(BlockRef) /\ Len(q) = Len(r) + 1
          /\ q[Len(q)] = b
          /\ \A k \in 1..Len(r) : q[k] = r[k]
      BY <2>1
    <2>4. \A i, j \in 1..Len(q) : i < j => q[i].number < q[j].number
      BY <1>0, <2>2 DEF RingEndsAt
    <2>5. QED
      BY <1>1, <2>2, <2>4, PointsCompare DEF RingEndsAt, Newest
  <1>2. CASE ~(Len(r) < RingCapacity)
    <2>1. q = Append(Tail(r), b) /\ r # <<>>
      BY <1>2 DEF Push
    <2>2. /\ q \in Seq(BlockRef) /\ Len(q) = Len(r)
          /\ q[Len(q)] = b
          /\ \A k \in 1..(Len(r) - 1) : q[k] = r[k + 1]
      BY <2>1
    <2>4. \A i, j \in 1..Len(q) : i < j => q[i].number < q[j].number
      BY <1>0, <2>2 DEF RingEndsAt
    <2>5. \A k \in 1..Len(q) : q[k] = b \/ \E m \in 1..Len(r) : q[k] = r[m]
      BY <2>2
    <2>6. Len(r) >= 1 /\ q # <<>>
      BY <2>1, <2>2
    <2>7. RingEndsAt(q, p)
      BY <2>2, <2>4, <2>6, PointsCompare DEF RingEndsAt, Newest
    <2>8. QED
      BY <2>2, <2>5, <2>6, <2>7 DEF Newest
  <1>3. QED
    BY <1>1, <1>2

\* The part of the ring at or below an observed cursor block, or below nothing,
\* ends at that cursor.
LEMMA TruncatedEndsAtCursor ==
    ASSUME NEW r \in Seq(BlockRef), Len(r) <= RingCapacity,
           NEW c \in Position \cup {NoPos}, RingEndsAt(r, c),
           NEW p \in Position \cup {NoPos}, p = NoPos \/ Observes(r, p.block),
           NEW m \in 0..Len(r), AtOrBelow(r, p.block, m)
    PROVE  /\ SubSeq(r, 1, m) \in Seq(BlockRef)
           /\ Len(SubSeq(r, 1, m)) <= RingCapacity
           /\ RingEndsAt(SubSeq(r, 1, m), p)
           /\ \A k \in 1..Len(SubSeq(r, 1, m)) : k \in 1..Len(r) /\ SubSeq(r, 1, m)[k] = r[k]
  <1> DEFINE q == SubSeq(r, 1, m)
  <1>1. q \in Seq(BlockRef) /\ Len(q) = m /\ \A k \in 1..m : q[k] = r[k]
    OBVIOUS
  <1>2. CASE p = NoPos
    <2>1. m = 0
      BY <1>2, RingEntries DEF AtOrBelow, NoPos
    <2>2. q = <<>>
      BY <1>1, <2>1
    <2>3. QED
      BY <1>1, <1>2, <2>1, <2>2 DEF RingEndsAt
  <1>3. CASE p # NoPos
    <2>1. PICK k \in 1..Len(r) : r[k].number = p.block
      BY <1>3 DEF Observes
    <2>2. k <= m
      BY <2>1, RingEntries DEF AtOrBelow
    <2>3. k = m
      <3>1. r[m].number <= p.block
        BY <2>2 DEF AtOrBelow
      <3>2. k < m => r[k].number < r[m].number
        BY <2>2 DEF RingEndsAt
      <3>3. r[k].number \in Nat /\ r[m].number \in Nat
        BY <2>1, <2>2, RingEntries
      <3>4. QED
        BY <2>1, <2>2, <3>1, <3>2, <3>3
    <2>4. q # <<>> /\ Newest(q).number = p.block
      BY <1>1, <2>1, <2>3 DEF Newest
    <2>5. QED
      BY <1>1, <1>3, <2>4 DEF RingEndsAt
  <1>4. QED
    BY <1>2, <1>3

-----------------------------------------------------------------------------
(***************************************************************************)
(* Folds.                                                                  *)
(***************************************************************************)
\* The events of a fold are events.
LEMMA FoldEntries ==
    ASSUME NEW f \in Fold
    PROVE  /\ f.events \in Seq(Event) /\ f.torn \in BOOLEAN
           /\ \A k \in 1..Len(f.events) :
                /\ f.events[k] \in Event
                /\ Point(f.events[k])
  <1>1. f.events \in Seq(Event) /\ f.torn \in BOOLEAN
    BY DEF Fold
  <1>2. \A k \in 1..Len(f.events) : f.events[k] \in Event
    BY <1>1
  <1>3. QED
    BY <1>1, <1>2, PointsCompare

\* A fold of one chain stays one when the ring loses entries or gains a block
\* the fold agrees with, and when the cursor rises.
LEMMA FoldSurvives ==
    ASSUME NEW f \in Fold,
           NEW c \in Position \cup {NoPos}, NEW d \in Position \cup {NoPos}, ~After(c, d),
           NEW r \in Seq(BlockRef), NEW q \in Seq(BlockRef), NEW b \in BlockRef,
           FoldsOneChain(f, c, r),
           \A k \in 1..Len(f.events) : f.events[k].block = b.number => f.events[k].hash = b.hash,
           \A k \in 1..Len(q) : q[k] = b \/ \E m \in 1..Len(r) : q[k] = r[m]
    PROVE  FoldsOneChain(f, d, q)
  <1>1. \A i \in 1..Len(f.events) : ~After(f.events[i], d)
    <2> SUFFICES ASSUME NEW i \in 1..Len(f.events) PROVE ~After(f.events[i], d)
      OBVIOUS
    <2>1. ~After(f.events[i], c)
      BY DEF FoldsOneChain
    <2>2. QED
      BY <2>1, FoldEntries, PointsCompare, AfterTransitive
  <1>2. \A i \in 1..Len(f.events), k \in 1..Len(q) :
          f.events[i].block = q[k].number => f.events[i].hash = q[k].hash
    <2> SUFFICES ASSUME NEW i \in 1..Len(f.events), NEW k \in 1..Len(q),
                        f.events[i].block = q[k].number
                 PROVE  f.events[i].hash = q[k].hash
      OBVIOUS
    <2>1. CASE q[k] = b
      BY <2>1
    <2>2. CASE \E m \in 1..Len(r) : q[k] = r[m]
      BY <2>2 DEF FoldsOneChain
    <2>3. QED
      BY <2>1, <2>2
  <1>3. QED
    BY <1>1, <1>2 DEF FoldsOneChain

\* The same when the ring only loses entries.
LEMMA FoldSurvivesLoss ==
    ASSUME NEW f \in Fold,
           NEW c \in Position \cup {NoPos}, NEW d \in Position \cup {NoPos}, ~After(c, d),
           NEW r \in Seq(BlockRef), NEW q \in Seq(BlockRef),
           FoldsOneChain(f, c, r),
           \A k \in 1..Len(q) : \E m \in 1..Len(r) : q[k] = r[m]
    PROVE  FoldsOneChain(f, d, q)
  <1>1. \A i \in 1..Len(f.events) : ~After(f.events[i], d)
    <2> SUFFICES ASSUME NEW i \in 1..Len(f.events) PROVE ~After(f.events[i], d)
      OBVIOUS
    <2>1. ~After(f.events[i], c)
      BY DEF FoldsOneChain
    <2>2. QED
      BY <2>1, FoldEntries, PointsCompare, AfterTransitive
  <1>2. \A i \in 1..Len(f.events), k \in 1..Len(q) :
          f.events[i].block = q[k].number => f.events[i].hash = q[k].hash
    <2> SUFFICES ASSUME NEW i \in 1..Len(f.events), NEW k \in 1..Len(q),
                        f.events[i].block = q[k].number
                 PROVE  f.events[i].hash = q[k].hash
      OBVIOUS
    <2>1. PICK m \in 1..Len(r) : q[k] = r[m]
      OBVIOUS
    <2>2. QED
      BY <2>1 DEF FoldsOneChain
  <1>3. QED
    BY <1>1, <1>2 DEF FoldsOneChain

\* Accepting an event after everything folded, of a block the ring does not
\* contradict, keeps a fold of one chain.
LEMMA FoldAcceptsNext ==
    ASSUME NEW f \in Fold, NEW r \in Seq(BlockRef), NEW e \in Event,
           NEW c \in Position \cup {NoPos}, NEW d \in Position,
           d.block = e.block, d.log = e.log,
           FoldsOneChain(f, c, r), After(e, c),
           \A k \in 1..Len(r) : r[k].number = e.block => r[k].hash = e.hash
    PROVE  /\ [f EXCEPT !.events = Append(@, e)] \in Fold
           /\ FoldsOneChain([f EXCEPT !.events = Append(@, e)], d, r)
  <1> DEFINE g == [f EXCEPT !.events = Append(@, e)]
  <1>1. /\ f.events \in Seq(Event) /\ f.torn = FALSE
        /\ g \in Fold /\ g.torn = FALSE /\ g.events = Append(f.events, e)
    <2>1. f.events \in Seq(Event) /\ f.torn \in BOOLEAN
      BY FoldEntries
    <2>2. f.torn = FALSE
      BY <2>1 DEF FoldsOneChain
    <2>3. Append(f.events, e) \in Seq(Event)
      BY <2>1
    <2>4. g.torn = f.torn /\ g.events = Append(f.events, e)
      BY DEF Fold
    <2>5. g \in Fold
      BY <2>3 DEF Fold
    <2>6. QED
      BY <2>1, <2>2, <2>4, <2>5
  <1>2. /\ Len(g.events) = Len(f.events) + 1
        /\ g.events[Len(f.events) + 1] = e
        /\ \A k \in 1..Len(f.events) : g.events[k] = f.events[k]
    BY <1>1
  <1> HIDE DEF g
  <1>3. \A k \in 1..Len(f.events) : ~After(f.events[k], c) /\ Point(f.events[k])
    BY FoldEntries DEF FoldsOneChain
  <1>4. \A k \in 1..Len(f.events) : After(e, f.events[k]) /\ ~After(f.events[k], d)
    <2> SUFFICES ASSUME NEW k \in 1..Len(f.events)
                 PROVE  After(e, f.events[k]) /\ ~After(f.events[k], d)
      OBVIOUS
    <2>1. After(e, f.events[k])
      BY <1>3, PointsCompare, AfterTransitive
    <2>2. After(d, f.events[k])
      BY <2>1 DEF After
    <2>3. QED
      BY <1>3, <2>1, <2>2, PointsCompare, AfterTransitive
  <1>5. \A i, j \in 1..Len(g.events) : i < j => After(g.events[j], g.events[i])
    <2> SUFFICES ASSUME NEW i \in 1..Len(g.events), NEW j \in 1..Len(g.events), i < j
                 PROVE  After(g.events[j], g.events[i])
      OBVIOUS
    <2>1. i \in 1..Len(f.events) /\ g.events[i] = f.events[i]
      BY <1>2
    <2>2. CASE j = Len(f.events) + 1
      BY <1>2, <1>4, <2>1, <2>2
    <2>3. CASE j # Len(f.events) + 1
      BY <1>2, <2>1, <2>3 DEF FoldsOneChain
    <2>4. QED
      BY <2>2, <2>3
  <1>6. \A i \in 1..Len(g.events) : ~After(g.events[i], d)
    <2>1. ~After(e, d)
      BY PointsCompare DEF After, Point
    <2>2. QED
      BY <1>2, <1>4, <2>1
  <1>7. \A i \in 1..Len(g.events), k \in 1..Len(r) :
          g.events[i].block = r[k].number => g.events[i].hash = r[k].hash
    <2> SUFFICES ASSUME NEW i \in 1..Len(g.events), NEW k \in 1..Len(r),
                        g.events[i].block = r[k].number
                 PROVE  g.events[i].hash = r[k].hash
      OBVIOUS
    <2>1. CASE i = Len(f.events) + 1
      BY <1>2, <2>1
    <2>2. CASE i # Len(f.events) + 1
      <3>1. i \in 1..Len(f.events) /\ g.events[i] = f.events[i]
        BY <1>2, <2>2
      <3>2. QED
        BY <3>1 DEF FoldsOneChain
    <2>3. QED
      BY <2>1, <2>2
  <1>8. g \in Fold /\ FoldsOneChain(g, d, r)
    BY <1>1, <1>5, <1>6, <1>7 DEF FoldsOneChain
  <1>9. QED
    BY <1>8 DEF g

-----------------------------------------------------------------------------
(***************************************************************************)
(* Inside a batch.                                                         *)
(***************************************************************************)
\* The span at the head of the loop is well formed.
LEMMA HeadSpan ==
    ASSUME EngineInv, AtSpan
    PROVE  /\ Head(todo) \in Span
           /\ Head(todo).number \in Nat /\ Head(todo).hash \in Hash
           /\ Head(todo).logs \in Seq(Nat) /\ Head(todo).logs # <<>>
           /\ Ascending(Head(todo).logs)
           /\ BlockOf(Head(todo)) \in BlockRef
           /\ \A i \in 1..Len(Head(todo).logs) :
                /\ Head(todo).logs[i] \in Nat
                /\ PosAt(Head(todo), i) \in Position
                /\ EventAt(Head(todo), i) \in Event
  <1>1. todo \in Seq(Span) /\ todo # <<>>
    BY DEF EngineInv, EngineTypeOK, AtSpan
  <1>2. Head(todo) = todo[1] /\ 1 \in 1..Len(todo) /\ Head(todo) \in Span
    BY <1>1
  <1>3. Head(todo).logs # <<>> /\ Ascending(Head(todo).logs)
    BY <1>2 DEF EngineInv, CallConsistent
  <1>4. \A s \in Span : s.number \in Nat /\ s.hash \in Hash /\ s.logs \in Seq(Nat)
    BY DEF Span
  <1>5. /\ Head(todo).number \in Nat /\ Head(todo).hash \in Hash
        /\ Head(todo).logs \in Seq(Nat)
    BY <1>2, <1>4
  <1>6. \A i \in 1..Len(Head(todo).logs) : Head(todo).logs[i] \in Nat
    BY <1>5
  <1>7. BlockOf(Head(todo)) \in BlockRef
    BY <1>5 DEF BlockOf, BlockRef
  <1>8. \A i \in 1..Len(Head(todo).logs) :
          PosAt(Head(todo), i) \in Position /\ EventAt(Head(todo), i) \in Event
    BY <1>5, <1>6 DEF PosAt, Position, EventAt, Event
  <1>9. QED
    BY <1>2, <1>3, <1>5, <1>6, <1>7, <1>8

\* The tail of the spans is as well formed as the spans.
LEMMA TailSpans ==
    ASSUME EngineInv, AtSpan
    PROVE  /\ Tail(todo) \in Seq(Span)
           /\ \A k \in 1..Len(Tail(todo)) :
                Tail(todo)[k].logs # <<>> /\ Ascending(Tail(todo)[k].logs)
  <1>1. todo \in Seq(Span) /\ todo # <<>>
    BY DEF EngineInv, EngineTypeOK, AtSpan
  <1>2. /\ Tail(todo) \in Seq(Span) /\ Len(Tail(todo)) = Len(todo) - 1
        /\ \A k \in 1..Len(Tail(todo)) : Tail(todo)[k] = todo[k + 1] /\ k + 1 \in 1..Len(todo)
    BY <1>1
  <1>3. QED
    BY <1>2 DEF EngineInv, CallConsistent

\* The ring agrees with an admitted span that reaches beyond the cursor.
LEMMA AdmittedAgrees ==
    ASSUME EngineInv, AtSpan, Admitted(Head(todo)),
           NEW i \in 1..Len(Head(todo).logs), After(PosAt(Head(todo), i), cursor)
    PROVE  /\ cursor.block <= Head(todo).number
           /\ \A k \in 1..Len(ring) :
                /\ ring[k].number <= cursor.block
                /\ ring[k].number = Head(todo).number => ring[k].hash = Head(todo).hash
  <1> DEFINE s == Head(todo)
  <1>1. /\ cursor \in Position \cup {NoPos} /\ ring \in Seq(BlockRef)
        /\ RingEndsAt(ring, cursor)
    BY DEF EngineInv, EngineTypeOK, RingTipIsCursor
  <1>2. Point(cursor) /\ s.number \in Nat
    BY <1>1, PointsCompare, HeadSpan
  <1>3. cursor.block <= s.number
    BY <1>2, HeadSpan DEF After, PosAt, Point
  <1>4. ASSUME NEW k \in 1..Len(ring)
        PROVE  ring[k].number <= cursor.block /\ cursor # NoPos
    <2>1. ring # <<>> /\ Len(ring) \in 1..Len(ring)
      BY <1>1
    <2>2. ring[k].number \in Nat /\ ring[Len(ring)].number = cursor.block
      BY <1>1, <2>1, RingEntries DEF RingEndsAt, Newest
    <2>3. k = Len(ring) \/ ring[k].number < ring[Len(ring)].number
      BY <2>1, <1>1 DEF RingEndsAt
    <2>4. QED
      BY <1>1, <1>2, <2>1, <2>2, <2>3 DEF RingEndsAt, Point
  <1>5. ASSUME NEW k \in 1..Len(ring), ring[k].number = s.number
        PROVE  ring[k].hash = s.hash
    <2>1. Redelivered(s)
      BY <1>4, <1>5 DEF Redelivered
    <2>2. ~Contradicts(ring, s.number, s.hash)
      BY <2>1 DEF Admitted
    <2>3. QED
      BY <1>5, <2>2 DEF Contradicts
  <1>6. QED
    BY <1>3, <1>4, <1>5

\* What the cursor's move to an event of the span preserves: the ring ends at the
\* cursor, freshness names its tip, every checkpoint is still trusted, and a fold
\* that agrees with the span agrees with the new ring.
LEMMA AdvanceKeeps ==
    ASSUME EngineInv, AtSpan, Admitted(Head(todo)),
           NEW i \in 1..Len(Head(todo).logs), After(PosAt(Head(todo), i), cursor),
           Advance(Head(todo), i), slots' = slots
    PROVE  /\ cursor' = PosAt(Head(todo), i) /\ cursor' \in Position
           /\ ring' \in Seq(BlockRef) /\ Len(ring') <= RingCapacity
           /\ lastVerified' \in BlockRef \cup {NoBlock}
           /\ RingTipIsCursor'
           /\ FreshnessNamesTip'
           /\ CheckpointsTrusted'
           /\ \A k \in 1..Len(ring') :
                ring'[k] = BlockOf(Head(todo)) \/ \E m \in 1..Len(ring) : ring'[k] = ring[m]
  <1> DEFINE s == Head(todo)
  <1>1. /\ cursor \in Position \cup {NoPos}
        /\ ring \in Seq(BlockRef) /\ Len(ring) <= RingCapacity
        /\ lastVerified \in BlockRef \cup {NoBlock}
        /\ RingEndsAt(ring, cursor)
        /\ slots \in Seq(Slot)
        /\ FreshnessNamesTip /\ CheckpointsTrusted
    BY DEF EngineInv, EngineTypeOK, RingTipIsCursor
  <1>2. /\ cursor' = PosAt(s, i) /\ cursor' \in Position /\ cursor'.block = s.number
        /\ cursor' # NoPos
    BY HeadSpan, PointsCompare DEF Advance, PosAt
  <1>3. /\ BlockOf(s) \in BlockRef /\ BlockOf(s).number = s.number /\ BlockOf(s).hash = s.hash
        /\ BlockOf(s) # NoBlock
    <2>1. BlockOf(s) \in BlockRef /\ BlockOf(s).number = s.number /\ BlockOf(s).hash = s.hash
      BY HeadSpan DEF BlockOf
    <2>2. BlockOf(s).number >= 0
      BY HeadSpan DEF BlockOf
    <2>3. QED
      BY <2>1, <2>2 DEF NoBlock
  <1>4. CASE ring = <<>> \/ Newest(ring).number < s.number
    <2>1. ring' = Push(ring, BlockOf(s)) /\ lastVerified' = BlockOf(s)
      BY <1>4 DEF Advance
    <2>2. /\ ring' \in Seq(BlockRef) /\ Len(ring') <= RingCapacity
          /\ RingEndsAt(ring', cursor') /\ ring' # <<>> /\ Newest(ring') = BlockOf(s)
          /\ \A k \in 1..Len(ring') :
               ring'[k] = BlockOf(s) \/ \E m \in 1..Len(ring) : ring'[k] = ring[m]
      BY <1>1, <1>2, <1>3, <1>4, <2>1, PushEndsAtBlock
    <2>3. RingTipIsCursor' /\ FreshnessNamesTip'
      BY <2>1, <2>2 DEF RingTipIsCursor, FreshnessNamesTip
    <2>4. cursor.block < s.number
      BY <1>1, <1>4, HeadSpan, PointsCompare DEF RingEndsAt, NoPos
    <2>5. ASSUME NEW n \in 1..Len(slots)
          PROVE  /\ FoldsOneChain(slots[n].fold, slots[n].cursor, ring')
                 /\ ~After(slots[n].cursor, cursor')
      <3>1. slots[n] \in Slot
        BY <1>1
      <3>2. slots[n].fold \in Fold /\ slots[n].cursor \in Position \cup {NoPos}
        BY <3>1 DEF Slot
      <3>3. /\ FoldsOneChain(slots[n].fold, slots[n].cursor, ring)
            /\ ~After(slots[n].cursor, cursor)
        BY <1>1 DEF CheckpointsTrusted
      <3>4. \A k \in 1..Len(slots[n].fold.events) :
              slots[n].fold.events[k].block # BlockOf(s).number
        <4> SUFFICES ASSUME NEW k \in 1..Len(slots[n].fold.events)
                     PROVE  slots[n].fold.events[k].block # s.number
          BY <1>3
        <4>1. Point(slots[n].fold.events[k])
          BY <3>2, FoldEntries
        <4>2. ~After(slots[n].fold.events[k], slots[n].cursor)
          BY <3>3 DEF FoldsOneChain
        <4>3. Point(slots[n].cursor) /\ Point(cursor)
          BY <1>1, <3>2, PointsCompare
        <4>4. ~After(slots[n].fold.events[k], cursor)
          BY <3>3, <4>1, <4>2, <4>3, AfterTransitive
        <4>5. QED
          BY <2>4, <4>1, <4>3, <4>4, HeadSpan DEF After, Point
      <3>5. ~After(slots[n].cursor, slots[n].cursor)
        BY <3>2, PointsCompare, AfterTransitive
      <3>6. FoldsOneChain(slots[n].fold, slots[n].cursor, ring')
        <4> DEFINE f == slots[n].fold
                   c == slots[n].cursor
                   r == ring
                   q == ring'
                   b == BlockOf(s)
        <4>1. /\ f \in Fold /\ c \in Position \cup {NoPos} /\ ~After(c, c)
              /\ r \in Seq(BlockRef) /\ q \in Seq(BlockRef) /\ b \in BlockRef
              /\ FoldsOneChain(f, c, r)
          BY <1>1, <1>3, <2>2, <3>2, <3>3, <3>5
        <4>2. \A k \in 1..Len(f.events) : f.events[k].block = b.number => f.events[k].hash = b.hash
          BY <3>4
        <4>3. \A k \in 1..Len(q) : q[k] = b \/ \E m \in 1..Len(r) : q[k] = r[m]
          BY <2>2
        <4> HIDE DEF f, c, r, q, b
        <4>4. FoldsOneChain(f, c, q)
          BY <4>1, <4>2, <4>3, FoldSurvives, ZenonT(60)
        <4>5. QED
          BY <4>4 DEF f, c, q
      <3>7. Point(slots[n].cursor) /\ Point(cursor)
        BY <1>1, <3>2, PointsCompare
      <3>8. ~After(slots[n].cursor, cursor')
        BY <1>2, <2>4, <3>3, <3>7, HeadSpan DEF After, Point
      <3>9. QED
        BY <3>6, <3>8
    <2>6. CheckpointsTrusted'
      BY <1>1, <2>5 DEF CheckpointsTrusted
    <2>7. QED
      BY <1>2, <1>3, <2>1, <2>2, <2>3, <2>6
  <1>5. CASE ~(ring = <<>> \/ Newest(ring).number < s.number)
    <2>1. ring' = ring /\ lastVerified' = lastVerified
      BY <1>5 DEF Advance
    <2>2. Newest(ring).number = cursor.block /\ cursor # NoPos /\ cursor.block = s.number
      BY <1>1, <1>5, AdmittedAgrees, HeadSpan, PointsCompare DEF RingEndsAt, Point
    <2>3. RingTipIsCursor'
      BY <1>1, <1>2, <1>5, <2>1, <2>2 DEF RingEndsAt, RingTipIsCursor
    <2>4. FreshnessNamesTip'
      BY <1>1, <2>1 DEF FreshnessNamesTip
    <2>5. ASSUME NEW n \in 1..Len(slots)
          PROVE  ~After(slots[n].cursor, cursor')
      <3>1. slots[n] \in Slot
        BY <1>1
      <3>2. Point(slots[n].cursor) /\ Point(cursor) /\ Point(cursor')
        BY <1>1, <1>2, <3>1, PointsCompare DEF Slot
      <3>3. ~After(slots[n].cursor, cursor) /\ After(cursor', cursor)
        BY <1>1, <1>2 DEF CheckpointsTrusted
      <3>4. QED
        BY <3>2, <3>3, AfterTransitive
    <2>6. CheckpointsTrusted'
      BY <1>1, <2>1, <2>5 DEF CheckpointsTrusted
    <2>7. QED
      BY <1>1, <1>2, <2>1, <2>3, <2>4, <2>6
  <1>6. QED
    BY <1>4, <1>5

\* The next event lies after everything consumed, in a span that is admitted.
LEMMA NextIsAfter ==
    ASSUME EngineInv, AtSpan, NEW i, IsNext(Head(todo), i)
    PROVE  /\ i \in 1..Len(Head(todo).logs)
           /\ Admitted(Head(todo))
           /\ After(PosAt(Head(todo), i), cursor)
           /\ After(PosAt(Head(todo), i), Reach)
           /\ ~fold.torn
           /\ Reach \in Position \cup {NoPos}
           /\ ~After(cursor, Reach)
  <1> DEFINE s == Head(todo)
  <1>1. i \in 1..Len(s.logs) /\ done \in Nat /\ cursor \in Position \cup {NoPos}
    BY DEF IsNext, EngineInv, EngineTypeOK
  <1>2. ~fold.torn
    BY DEF EngineInv, CallConsistent, AtSpan
  <1>3. CASE done = 0
    <2>1. Reach = cursor
      BY <1>3 DEF Reach
    <2>2. Admitted(s) /\ After(PosAt(s, i), cursor)
      BY <1>3 DEF IsNext
    <2>3. ~After(cursor, cursor)
      BY <1>1, PointsCompare, AfterTransitive
    <2>4. QED
      BY <1>1, <1>2, <2>1, <2>2, <2>3
  <1>4. CASE done # 0
    <2>1. done > 0 /\ i = done + 1 /\ Reach = PosAt(s, done)
      BY <1>1, <1>4 DEF IsNext, Reach
    <2>2. /\ done < Len(s.logs) /\ Admitted(s) /\ After(PosAt(s, done), cursor)
      BY <2>1 DEF EngineInv, CallConsistent
    <2>3. done \in 1..Len(s.logs) /\ done \in 1..(Len(s.logs) - 1)
      BY <1>1, <2>1, <2>2, HeadSpan
    <2>4. s.logs[done] < s.logs[i]
      BY <2>1, <2>3, HeadSpan DEF Ascending
    <2>5. After(PosAt(s, i), PosAt(s, done))
      BY <2>4 DEF After, PosAt
    <2>6. /\ PosAt(s, done) \in Position /\ PosAt(s, i) \in Position
      BY <1>1, <2>3, HeadSpan
    <2>7. Point(PosAt(s, done)) /\ Point(PosAt(s, i)) /\ Point(cursor)
      BY <1>1, <2>6, PointsCompare
    <2>8. After(PosAt(s, i), cursor) /\ ~After(cursor, PosAt(s, done))
      BY <2>2, <2>5, <2>7, AfterTransitive
    <2>9. QED
      BY <1>1, <1>2, <2>1, <2>2, <2>5, <2>6, <2>8
  <1>5. QED
    BY <1>3, <1>4

\* A call of the fold that accepts or skips an event.
LEMMA ConsumeKeepsInv ==
    ASSUME EngineInv, AtSpan, NEW i, NEW f,
           f = fold \/ f = [fold EXCEPT !.events = Append(@, EventAt(Head(todo), i))],
           Consume(i, f)
    PROVE  EngineInv'
  <1> DEFINE s == Head(todo)
             e == EventAt(s, i)
             p == PosAt(s, i)
  <1>1. IsNext(s, i) /\ fold' = f /\ UNCHANGED <<slots, status, resets, snap, ret>>
    BY DEF Consume
  <1>2. /\ i \in 1..Len(s.logs) /\ Admitted(s) /\ After(p, cursor) /\ After(p, Reach)
        /\ ~fold.torn /\ Reach \in Position \cup {NoPos} /\ ~After(cursor, Reach)
    BY <1>1, NextIsAfter
  <1>3. /\ p \in Position /\ e \in Event /\ e.block = s.number /\ e.log = p.log
        /\ e.hash = s.hash /\ p.block = s.number
    BY <1>2, HeadSpan DEF EventAt, PosAt
  <1>4. /\ fold \in Fold /\ ring \in Seq(BlockRef) /\ Len(ring) <= RingCapacity
        /\ cursor \in Position \cup {NoPos}
        /\ FoldsOneChain(fold, Reach, ring)
        /\ RingEndsAt(ring, cursor)
        /\ done \in Nat
    BY <1>2 DEF EngineInv, EngineTypeOK, FoldConsistent, RingTipIsCursor
  <1>5. /\ cursor.block <= s.number
        /\ \A k \in 1..Len(ring) : ring[k].number = s.number => ring[k].hash = s.hash
    BY <1>2, AdmittedAgrees
  <1>6. Point(p) /\ Point(Reach) /\ Point(cursor) /\ Point(e)
    BY <1>2, <1>3, <1>4, PointsCompare
  <1>7. After(e, Reach) /\ ~After(Reach, p)
    <2>1. After(e, Reach)
      BY <1>2, <1>3 DEF After
    <2>2. QED
      BY <1>2, <1>6, <2>1, AfterTransitive
  \* the fold after the call
  <1>8. fold' \in Fold /\ FoldsOneChain(fold', p, ring)
    <2>1. CASE f = fold
      BY <1>1, <1>2, <1>3, <1>4, <1>7, <2>1, FoldSurvivesLoss
    <2>2. CASE f = [fold EXCEPT !.events = Append(@, e)]
      BY <1>1, <1>2, <1>3, <1>4, <1>5, <1>7, <2>2, FoldAcceptsNext
    <2>3. QED
      BY <2>1, <2>2
  <1>9. ~fold'.torn
    BY <1>8 DEF FoldsOneChain
  <1>10. \A k \in 1..Len(fold.events) : fold.events[k].block = s.number => fold.events[k].hash = s.hash
    <2>1. CASE done > 0
      BY <1>2, <2>1 DEF EngineInv, FoldConsistent
    <2>2. CASE ~(done > 0)
      <3> SUFFICES ASSUME NEW k \in 1..Len(fold.events), fold.events[k].block = s.number
                   PROVE  fold.events[k].hash = s.hash
        OBVIOUS
      <3>1. Reach = cursor /\ ~After(fold.events[k], cursor) /\ Point(fold.events[k])
        BY <1>4, <2>2, FoldEntries DEF Reach, FoldsOneChain
      <3>2. cursor.block = s.number
        BY <1>5, <1>6, <3>1, HeadSpan DEF After, Point
      <3>3. cursor # NoPos
        BY <3>2, HeadSpan DEF NoPos
      <3>4. ring # <<>> /\ Len(ring) \in 1..Len(ring) /\ ring[Len(ring)].number = s.number
        BY <1>4, <3>2, <3>3 DEF RingEndsAt, Newest
      <3>5. fold.events[k].hash = ring[Len(ring)].hash
        BY <1>4, <3>4 DEF FoldsOneChain
      <3>6. QED
        BY <1>5, <3>4, <3>5
    <2>3. QED
      BY <2>1, <2>2
  <1>11. \A k \in 1..Len(fold'.events) : fold'.events[k].block = s.number => fold'.events[k].hash = s.hash
    <2>1. CASE f = fold
      BY <1>1, <1>10, <2>1
    <2>2. CASE f = [fold EXCEPT !.events = Append(@, e)]
      <3>1. fold'.events = Append(fold.events, e) /\ fold.events \in Seq(Event)
        BY <1>1, <1>4, <2>2, FoldEntries DEF Fold
      <3>2. \A k \in 1..Len(fold'.events) :
              fold'.events[k] = e \/ (k \in 1..Len(fold.events) /\ fold'.events[k] = fold.events[k])
        <4> DEFINE g == fold'.events
                   h == fold.events
        <4>1. g = Append(h, e) /\ h \in Seq(Event) /\ e \in Event
          BY <1>3, <3>1
        <4> HIDE DEF g, h, e
        <4>2. Len(g) = Len(h) + 1 /\ g[Len(h) + 1] = e /\ \A k \in 1..Len(h) : g[k] = h[k]
          BY <4>1
        <4>3. Len(h) \in Nat
          BY <4>1
        <4>4. \A k \in 1..Len(g) : g[k] = e \/ (k \in 1..Len(h) /\ g[k] = h[k])
          BY <4>2, <4>3
        <4>5. QED
          BY <4>4 DEF g, h
      <3>3. QED
        BY <1>3, <1>10, <3>2
    <2>3. QED
      BY <2>1, <2>2
  <1>12. SnapshotRestores'
    BY <1>1 DEF EngineInv, SnapshotRestores, Decodable, Newest
  <1>13. ret = "running" /\ ret' = "running" /\ status' = "Poisoned"
    BY <1>1 DEF AtSpan, EngineInv, CallConsistent
  <1>14. CASE i = Len(s.logs)
    <2>1. Advance(s, i) /\ todo' = Tail(todo) /\ done' = 0
      BY <1>14 DEF Consume
    <2>2. /\ cursor' = p /\ cursor' \in Position
          /\ ring' \in Seq(BlockRef) /\ Len(ring') <= RingCapacity
          /\ lastVerified' \in BlockRef \cup {NoBlock}
          /\ RingTipIsCursor' /\ FreshnessNamesTip' /\ CheckpointsTrusted'
          /\ \A k \in 1..Len(ring') :
               ring'[k] = BlockOf(s) \/ \E m \in 1..Len(ring) : ring'[k] = ring[m]
      BY <1>1, <1>2, <2>1, AdvanceKeeps
    <2>3. FoldsOneChain(fold', p, ring')
      <3> DEFINE g == fold'
                 r == ring
                 q == ring'
                 b == BlockOf(s)
      <3>1. /\ g \in Fold /\ p \in Position \cup {NoPos} /\ ~After(p, p)
            /\ r \in Seq(BlockRef) /\ q \in Seq(BlockRef) /\ b \in BlockRef
            /\ FoldsOneChain(g, p, r)
        BY <1>3, <1>4, <1>6, <1>8, <2>2, HeadSpan, AfterTransitive
      <3>2. \A k \in 1..Len(g.events) : g.events[k].block = b.number => g.events[k].hash = b.hash
        BY <1>11 DEF BlockOf
      <3>3. \A k \in 1..Len(q) : q[k] = b \/ \E m \in 1..Len(r) : q[k] = r[m]
        BY <2>2
      <3> HIDE DEF g, r, q, b, p
      <3>4. FoldsOneChain(g, p, q)
        BY <3>1, <3>2, <3>3, FoldSurvives, SMTT(60)
      <3>5. QED
        BY <3>4 DEF g, q
    <2>4. FoldConsistent'
      BY <2>1, <2>2, <2>3 DEF FoldConsistent, Reach
    <2>5. CallConsistent'
      BY <1>9, <1>13, <2>1, TailSpans DEF CallConsistent
    <2>6. EngineTypeOK'
      BY <1>1, <1>8, <2>1, <2>2, TailSpans DEF EngineInv, EngineTypeOK
    <2>7. QED
      BY <1>12, <2>2, <2>4, <2>5, <2>6 DEF EngineInv
  <1>15. CASE i # Len(s.logs)
    <2>1. done' = i /\ UNCHANGED <<cursor, ring, lastVerified, todo>>
      BY <1>15 DEF Consume
    <2>2. EngineTypeOK'
      BY <1>1, <1>2, <1>8, <2>1 DEF EngineInv, EngineTypeOK
    <2>3. i > 0 /\ i < Len(s.logs) /\ todo # <<>>
      BY <1>2, <1>15, HeadSpan DEF AtSpan
    <2>4. CallConsistent'
      BY <1>2, <1>9, <1>13, <2>1, <2>3
         DEF EngineInv, CallConsistent, Admitted, Redelivered, Contradicts
    <2>5. Reach' = p
      BY <2>1, <2>3 DEF Reach
    <2>6. FoldConsistent'
      BY <1>8, <1>11, <2>1, <2>5 DEF FoldConsistent
    <2>7. RingTipIsCursor' /\ FreshnessNamesTip' /\ CheckpointsTrusted'
      BY <1>1, <2>1 DEF EngineInv, RingTipIsCursor, FreshnessNamesTip, CheckpointsTrusted
    <2>8. QED
      BY <1>12, <2>2, <2>4, <2>6, <2>7 DEF EngineInv
  <1>16. QED
    BY <1>14, <1>15

\* Every state in which no call runs satisfies CallConsistent when only a
\* Poisoned engine holds a torn fold.
LEMMA NoCallConsistent ==
    ASSUME ret' # "running", todo' = <<>>, done' = 0, fold'.torn => status' = "Poisoned"
    PROVE  CallConsistent'
  BY DEF CallConsistent

\* A call of the fold that halts, or that poisons the engine.
LEMMA RefuseKeepsInv ==
    ASSUME EngineInv, NEW newStatus, NEW reply, NEW f,
           Refuse(newStatus, reply, f),
           \/ newStatus = "Halted" /\ reply = "halted" /\ f = fold
           \/ newStatus = "Poisoned" /\ reply = "poisoned" /\ f = [fold EXCEPT !.torn = TRUE]
    PROVE  EngineInv'
  <1> DEFINE s == Head(todo)
  <1>1. /\ AtSpan /\ ConsumedThrough(s) /\ fold' = f /\ status' = newStatus
        /\ ret' = reply /\ todo' = <<>> /\ done' = 0 /\ UNCHANGED <<slots, resets, snap>>
    BY DEF Refuse, Returns
  <1>2. /\ fold \in Fold /\ ring \in Seq(BlockRef) /\ Len(ring) <= RingCapacity
        /\ cursor \in Position \cup {NoPos} /\ done \in Nat
        /\ lastVerified \in BlockRef \cup {NoBlock}
        /\ ~fold.torn /\ FoldsOneChain(fold, Reach, ring)
    BY <1>1 DEF EngineInv, EngineTypeOK, CallConsistent, FoldConsistent, AtSpan
  <1>3. f \in Fold /\ (f.torn => newStatus = "Poisoned")
    <2>1. CASE newStatus = "Halted" /\ f = fold
      BY <1>2, <2>1
    <2>2. CASE newStatus = "Poisoned" /\ f = [fold EXCEPT !.torn = TRUE]
      BY <1>2, <2>2 DEF Fold
    <2>3. QED
      BY <2>1, <2>2
  <1>4. CallConsistent'
    <2>1. ret' # "running"
      BY <1>1
    <2>2. QED
      BY <1>1, <1>3, <2>1, NoCallConsistent
  <1>5. SnapshotRestores'
    BY <1>1 DEF EngineInv, SnapshotRestores, Decodable, Newest
  <1>6. /\ cursor' \in Position \cup {NoPos}
        /\ ring' \in Seq(BlockRef) /\ Len(ring') <= RingCapacity
        /\ lastVerified' \in BlockRef \cup {NoBlock}
        /\ RingTipIsCursor' /\ FreshnessNamesTip' /\ CheckpointsTrusted'
        /\ FoldsOneChain(fold, cursor', ring')
    <2>1. CASE done = 0
      <3>1. UNCHANGED <<cursor, ring, lastVerified>> /\ Reach = cursor
        BY <1>1, <2>1 DEF ConsumedThrough, Reach
      <3>2. QED
        BY <1>1, <1>2, <3>1 DEF EngineInv, RingTipIsCursor, FreshnessNamesTip, CheckpointsTrusted
    <2>2. CASE done # 0
      <3>1. Advance(s, done) /\ done > 0 /\ Reach = PosAt(s, done)
        BY <1>1, <1>2, <2>2 DEF ConsumedThrough, Reach
      <3>2. done < Len(s.logs) /\ Admitted(s) /\ After(PosAt(s, done), cursor)
        BY <3>1 DEF EngineInv, CallConsistent
      <3>3. done \in 1..Len(s.logs)
        BY <1>1, <1>2, <3>1, <3>2, HeadSpan
      <3>4. /\ cursor' = Reach /\ cursor' \in Position
            /\ ring' \in Seq(BlockRef) /\ Len(ring') <= RingCapacity
            /\ lastVerified' \in BlockRef \cup {NoBlock}
            /\ RingTipIsCursor' /\ FreshnessNamesTip' /\ CheckpointsTrusted'
            /\ \A k \in 1..Len(ring') :
                 ring'[k] = BlockOf(s) \/ \E m \in 1..Len(ring) : ring'[k] = ring[m]
        BY <1>1, <3>1, <3>2, <3>3, AdvanceKeeps
      <3>5. FoldsOneChain(fold, cursor', ring')
        <4> DEFINE g == fold
                   p == cursor'
                   r == ring
                   q == ring'
                   b == BlockOf(s)
        <4>1. /\ g \in Fold /\ p \in Position \cup {NoPos} /\ ~After(p, p)
              /\ r \in Seq(BlockRef) /\ q \in Seq(BlockRef) /\ b \in BlockRef
              /\ FoldsOneChain(g, p, r)
          BY <1>1, <1>2, <3>4, HeadSpan, PointsCompare, AfterTransitive
        <4>2. \A k \in 1..Len(g.events) : g.events[k].block = b.number => g.events[k].hash = b.hash
          BY <1>2, <3>1 DEF EngineInv, FoldConsistent, BlockOf
        <4>3. \A k \in 1..Len(q) : q[k] = b \/ \E m \in 1..Len(r) : q[k] = r[m]
          BY <3>4
        <4> HIDE DEF g, p, r, q, b
        <4>4. FoldsOneChain(g, p, q)
          BY <4>1, <4>2, <4>3, FoldSurvives, SMTT(60)
        <4>5. QED
          BY <4>4 DEF g, p, q
      <3>6. QED
        BY <3>4, <3>5
    <2>3. QED
      BY <2>1, <2>2
  <1>7. FoldConsistent'
    <2>1. Reach' = cursor' /\ ~(done' > 0)
      BY <1>1 DEF Reach
    <2>2. CASE f = fold
      BY <1>1, <1>6, <2>1, <2>2 DEF FoldConsistent
    <2>3. CASE f = [fold EXCEPT !.torn = TRUE]
      <3>1. fold'.torn
        BY <1>1, <1>2, <2>3 DEF Fold
      <3>2. QED
        BY <3>1 DEF FoldConsistent
    <2>4. QED
      BY <2>2, <2>3
  <1>8. EngineTypeOK'
    BY <1>1, <1>3, <1>6 DEF EngineInv, EngineTypeOK
  <1>9. QED
    BY <1>4, <1>5, <1>6, <1>7, <1>8 DEF EngineInv

\* A panic inside the fold.
LEMMA PanicKeepsInv ==
    ASSUME EngineInv, FoldPanics
    PROVE  EngineInv'
  <1>1. /\ fold' = [fold EXCEPT !.torn = TRUE] /\ ret' = "panicked" /\ todo' = <<>> /\ done' = 0
        /\ UNCHANGED <<cursor, ring, slots, status, lastVerified, resets, snap>>
        /\ status = "Poisoned"
    BY DEF FoldPanics, Returns, AtSpan, EngineInv, CallConsistent
  <1>2. fold' \in Fold /\ fold'.torn
    BY <1>1 DEF EngineInv, EngineTypeOK, Fold
  <1>3. EngineTypeOK'
    BY <1>1, <1>2 DEF EngineInv, EngineTypeOK
  <1>4. CallConsistent'
    BY <1>1, NoCallConsistent
  <1>5. FoldConsistent'
    BY <1>2 DEF FoldConsistent
  <1>6. /\ RingTipIsCursor' /\ FreshnessNamesTip' /\ CheckpointsTrusted' /\ SnapshotRestores'
    BY <1>1 DEF EngineInv, RingTipIsCursor, FreshnessNamesTip, CheckpointsTrusted,
                SnapshotRestores, Decodable, Newest
  <1>7. QED
    BY <1>3, <1>4, <1>5, <1>6 DEF EngineInv

\* The steps of apply_batch that call no fold and move neither cursor nor ring.
LEMMA QuietStepKeepsInv ==
    ASSUME EngineInv, UNCHANGED <<fold, cursor, ring, slots, snap>>, done = 0, done' = 0,
           EngineTypeOK', CallConsistent', FreshnessNamesTip'
    PROVE  EngineInv'
  <1>1. Reach' = Reach
    BY DEF Reach
  <1>2. FoldConsistent'
    BY <1>1 DEF EngineInv, FoldConsistent
  <1>3. RingTipIsCursor' /\ CheckpointsTrusted' /\ SnapshotRestores'
    BY DEF EngineInv, RingTipIsCursor, CheckpointsTrusted, SnapshotRestores, Decodable, Newest
  <1>4. QED
    BY <1>2, <1>3 DEF EngineInv

\* apply_batch up to the first span.
LEMMA ApplyBatchKeepsInv ==
    ASSUME EngineInv, NEW b \in Batch, ApplyBatch(b)
    PROVE  EngineInv'
  <1>1. /\ Idle /\ todo = <<>> /\ done = 0
        /\ UNCHANGED <<fold, cursor, ring, slots, resets, snap>> /\ done' = 0
    BY DEF ApplyBatch, RefuseBatch, AcceptBatch, Idle, EngineInv, CallConsistent, Returns
  <1>2. CASE RefuseBatch(b)
    <2>1. /\ ret' \in Verdicts /\ todo' = <<>> /\ UNCHANGED <<status, lastVerified>>
      BY <1>2 DEF RefuseBatch, Returns, Verdict, Verdicts
    <2>2. EngineTypeOK'
      BY <1>1, <2>1 DEF EngineInv, EngineTypeOK
    <2>3. CallConsistent'
      <3>1. ret' # "running"
        BY <2>1 DEF Verdicts
      <3>2. QED
        BY <1>1, <2>1, <3>1, NoCallConsistent DEF EngineInv, CallConsistent
    <2>4. FreshnessNamesTip'
      BY <1>1, <2>1 DEF EngineInv, FreshnessNamesTip
    <2>5. QED
      BY <1>1, <2>2, <2>3, <2>4, QuietStepKeepsInv
  <1>3. CASE AcceptBatch(b)
    <2>1. /\ ret' = "running" /\ todo' = b.spans /\ status' = "Poisoned" /\ status = "Active"
          /\ lastVerified' = IF cursor = NoPos THEN lastVerified ELSE b.boundary
          /\ Verdict(b) = "accept"
      BY <1>3 DEF AcceptBatch, Verdict
    <2>2. /\ Validate(b)
          /\ cursor # NoPos => /\ b.boundary # NoBlock /\ b.boundary.number = cursor.block
                               /\ ~Contradicts(ring, cursor.block, b.boundary.hash)
      BY <2>1 DEF Verdict
    <2>3. b.spans \in Seq(Span) /\ b.boundary \in BlockRef \cup {NoBlock}
      BY DEF Batch
    <2>4. ~fold.torn
      BY <2>1 DEF EngineInv, CallConsistent
    <2>5. EngineTypeOK'
      BY <1>1, <2>1, <2>3 DEF EngineInv, EngineTypeOK
    <2>6. CallConsistent'
      BY <1>1, <2>1, <2>2, <2>4 DEF CallConsistent, Validate
    <2>7. FreshnessNamesTip'
      <3>1. CASE cursor = NoPos
        BY <1>1, <2>1, <3>1 DEF EngineInv, FreshnessNamesTip
      <3>2. CASE cursor # NoPos
        <4>1. /\ ring \in Seq(BlockRef) /\ RingEndsAt(ring, cursor)
          BY DEF EngineInv, EngineTypeOK, RingTipIsCursor
        <4>2. /\ ring # <<>> /\ Newest(ring).number = cursor.block
              /\ Len(ring) \in 1..Len(ring) /\ Newest(ring) = ring[Len(ring)]
          BY <3>2, <4>1 DEF RingEndsAt, Newest
        <4>3. Newest(ring).hash = b.boundary.hash
          BY <2>2, <3>2, <4>2 DEF Contradicts
        <4>4. Newest(ring) \in BlockRef /\ b.boundary \in BlockRef
          BY <2>2, <2>3, <3>2, <4>1, <4>2
        <4>5. Newest(ring) = b.boundary
          BY <2>2, <3>2, <4>2, <4>3, <4>4 DEF BlockRef
        <4>6. QED
          BY <1>1, <2>1, <3>2, <4>2, <4>5 DEF FreshnessNamesTip
      <3>3. QED
        BY <3>1, <3>2
    <2>8. QED
      BY <1>1, <2>5, <2>6, <2>7, QuietStepKeepsInv
  <1>4. QED
    BY <1>2, <1>3 DEF ApplyBatch

\* The loop of apply_batch.
LEMMA ApplyStepKeepsInv ==
    ASSUME EngineInv, ApplyStep
    PROVE  EngineInv'
  <1>1. CASE SpanForked
    <2>1. /\ done = 0 /\ done' = 0 /\ ret' = "fork" /\ todo' = <<>> /\ status' = "Active"
          /\ UNCHANGED <<fold, cursor, ring, slots, lastVerified, resets, snap>> /\ ~fold.torn
      BY <1>1 DEF SpanForked, Returns, AtSpan, EngineInv, CallConsistent
    <2>2. EngineTypeOK' /\ FreshnessNamesTip'
      BY <2>1 DEF EngineInv, EngineTypeOK, FreshnessNamesTip, Verdicts
    <2>3. CallConsistent'
      BY <2>1, NoCallConsistent
    <2>4. QED
      BY <2>1, <2>2, <2>3, QuietStepKeepsInv
  <1>2. CASE SpanDeduped
    <2>1. /\ AtSpan /\ done = 0 /\ done' = 0 /\ todo' = Tail(todo)
          /\ UNCHANGED <<fold, cursor, ring, slots, status, lastVerified, resets, snap, ret>>
      BY <1>2 DEF SpanDeduped
    <2>2. EngineTypeOK' /\ FreshnessNamesTip'
      BY <2>1, TailSpans DEF EngineInv, EngineTypeOK, FreshnessNamesTip
    <2>3. CallConsistent'
      BY <2>1, TailSpans DEF EngineInv, CallConsistent, AtSpan
    <2>4. QED
      BY <2>1, <2>2, <2>3, QuietStepKeepsInv
  <1>3. CASE FoldAccepts
    BY <1>3, ConsumeKeepsInv DEF FoldAccepts
  <1>4. CASE FoldSkips
    BY <1>4, ConsumeKeepsInv DEF FoldSkips
  <1>5. CASE FoldHalts
    BY <1>5, RefuseKeepsInv DEF FoldHalts
  <1>6. CASE FoldPoisons
    BY <1>6, RefuseKeepsInv DEF FoldPoisons
  <1>7. CASE FoldPanics
    BY <1>7, PanicKeepsInv
  <1>8. CASE BatchDone
    <2>1. /\ ret = "running" /\ todo = <<>> /\ done' = 0 /\ ret' = "ok" /\ todo' = <<>>
          /\ status' = "Active"
          /\ UNCHANGED <<fold, cursor, ring, slots, lastVerified, resets, snap>> /\ ~fold.torn
      BY <1>8 DEF BatchDone, Returns, EngineInv, CallConsistent
    <2>2. done = 0
      BY <2>1 DEF EngineInv, EngineTypeOK, CallConsistent
    <2>3. EngineTypeOK' /\ FreshnessNamesTip'
      BY <2>1 DEF EngineInv, EngineTypeOK, FreshnessNamesTip
    <2>4. CallConsistent'
      BY <2>1, NoCallConsistent
    <2>5. QED
      BY <2>1, <2>2, <2>3, <2>4, QuietStepKeepsInv
  <1>9. QED
    BY <1>1, <1>2, <1>3, <1>4, <1>5, <1>6, <1>7, <1>8 DEF ApplyStep

-----------------------------------------------------------------------------
(***************************************************************************)
(* Between batches.                                                        *)
(***************************************************************************)
\* Between batches the last position handed to the fold is the cursor.
LEMMA IdleFacts ==
    ASSUME EngineInv, Idle
    PROVE  /\ todo = <<>> /\ done = 0 /\ Reach = cursor
           /\ ~fold.torn => FoldsOneChain(fold, cursor, ring)
  <1>1. todo = <<>> /\ done = 0
    BY DEF EngineInv, CallConsistent, Idle
  <1>2. Reach = cursor
    BY <1>1 DEF Reach
  <1>3. QED
    BY <1>1, <1>2 DEF EngineInv, FoldConsistent

\* The slots are well typed.
LEMMA SlotEntries ==
    ASSUME EngineInv
    PROVE  /\ slots \in Seq(Slot)
           /\ \A k \in 1..Len(slots) :
                /\ slots[k] \in Slot
                /\ slots[k].fold \in Fold
                /\ slots[k].cursor \in Position \cup {NoPos}
                /\ Point(slots[k].cursor)
                /\ FoldsOneChain(slots[k].fold, slots[k].cursor, ring)
                /\ ~After(slots[k].cursor, cursor)
  <1>1. slots \in Seq(Slot)
    BY DEF EngineInv, EngineTypeOK
  <1>2. \A k \in 1..Len(slots) : slots[k] \in Slot
    BY <1>1
  <1>3. \A t \in Slot : t.fold \in Fold /\ t.cursor \in Position \cup {NoPos}
    BY DEF Slot
  <1>4. QED
    BY <1>1, <1>2, <1>3, PointsCompare DEF EngineInv, CheckpointsTrusted

\* Storing a checkpoint: an Active engine's fold is trusted and not behind any slot.
LEMMA CheckpointKeepsInv ==
    ASSUME EngineInv, Checkpoint
    PROVE  EngineInv'
  <1>1. /\ Idle /\ ret' = "none" /\ todo' = <<>> /\ done' = 0
        /\ UNCHANGED <<fold, cursor, ring, status, lastVerified, resets, snap>>
    BY DEF Checkpoint, NoCall
  <1>2. CallConsistent'
    BY <1>1, NoCallConsistent DEF EngineInv, CallConsistent
  <1>3. FoldConsistent'
    <2>1. Reach' = cursor /\ ~(done' > 0)
      BY <1>1 DEF Reach
    <2>2. QED
      BY <1>1, <2>1, IdleFacts DEF FoldConsistent
  <1>4. RingTipIsCursor' /\ FreshnessNamesTip' /\ SnapshotRestores'
    BY <1>1 DEF EngineInv, RingTipIsCursor, FreshnessNamesTip, SnapshotRestores, Decodable, Newest
  <1>5. slots' \in Seq(Slot) /\ Len(slots') <= CheckpointSlots /\ CheckpointsTrusted'
    <2> DEFINE t == [fold |-> fold, cursor |-> cursor]
    <2>1. CASE slots' = slots
      BY <1>1, <2>1 DEF EngineInv, EngineTypeOK, CheckpointsTrusted
    <2>2. CASE slots' # slots
      <3>1. status = "Active" /\ CheckpointSlots # 0
            /\ slots' = Append(IF Len(slots) < CheckpointSlots THEN slots ELSE Tail(slots), t)
        BY <2>2 DEF Checkpoint, Store
      <3>2. ~fold.torn /\ FoldsOneChain(fold, cursor, ring)
        BY <1>1, <3>1, IdleFacts DEF EngineInv, CallConsistent
      <3>3. t \in Slot /\ t.fold = fold /\ t.cursor = cursor /\ ~After(cursor, cursor)
        <4>1. cursor \in Position \cup {NoPos} /\ fold \in Fold
          BY DEF EngineInv, EngineTypeOK
        <4>2. QED
          BY <4>1, PointsCompare, AfterTransitive DEF Slot
      <3> HIDE DEF t
      <3>4. PICK d \in {0, 1} :
              /\ slots' \in Seq(Slot) /\ Len(slots') = Len(slots) - d + 1
              /\ Len(slots') <= CheckpointSlots
              /\ slots'[Len(slots')] = t
              /\ \A k \in 1..(Len(slots') - 1) : slots'[k] = slots[k + d] /\ k + d \in 1..Len(slots)
        <4>1. slots \in Seq(Slot) /\ Len(slots) <= CheckpointSlots
          BY DEF EngineInv, EngineTypeOK
        <4>2. CASE Len(slots) < CheckpointSlots
          <5>1. slots' = Append(slots, t)
            BY <3>1, <4>2
          <5>2. /\ slots' \in Seq(Slot) /\ Len(slots') = Len(slots) + 1
                /\ slots'[Len(slots')] = t
                /\ \A k \in 1..Len(slots) : slots'[k] = slots[k]
            BY <3>3, <4>1, <5>1
          <5>3. QED
            BY <4>1, <4>2, <5>2
        <4>3. CASE ~(Len(slots) < CheckpointSlots)
          <5>1. slots' = Append(Tail(slots), t) /\ slots # <<>>
            BY <3>1, <4>1, <4>3
          <5>2. /\ slots' \in Seq(Slot) /\ Len(slots') = Len(slots)
                /\ slots'[Len(slots')] = t
                /\ \A k \in 1..(Len(slots) - 1) : slots'[k] = slots[k + 1]
            BY <3>3, <4>1, <5>1
          <5>3. QED
            BY <4>1, <4>3, <5>2
        <4>4. QED
          BY <4>2, <4>3
      <3>5. Len(slots') \in Nat /\ Len(slots) \in Nat
        BY <3>4, SlotEntries
      <3>6. \A k \in 1..Len(slots') :
              /\ FoldsOneChain(slots'[k].fold, slots'[k].cursor, ring)
              /\ ~After(slots'[k].cursor, cursor)
        <4> SUFFICES ASSUME NEW k \in 1..Len(slots')
                     PROVE  /\ FoldsOneChain(slots'[k].fold, slots'[k].cursor, ring)
                            /\ ~After(slots'[k].cursor, cursor)
          OBVIOUS
        <4>1. CASE k = Len(slots')
          BY <3>2, <3>3, <3>4, <4>1
        <4>2. CASE k # Len(slots')
          <5>1. k \in 1..(Len(slots') - 1)
            BY <3>5, <4>2
          <5>2. slots'[k] = slots[k + d] /\ k + d \in 1..Len(slots)
            BY <3>4, <5>1
          <5>3. QED
            BY <5>2, SlotEntries
        <4>3. QED
          BY <4>1, <4>2
      <3>7. \A i, j \in 1..Len(slots') : i < j => ~After(slots'[i].cursor, slots'[j].cursor)
        <4> SUFFICES ASSUME NEW i \in 1..Len(slots'), NEW j \in 1..Len(slots'), i < j
                     PROVE  ~After(slots'[i].cursor, slots'[j].cursor)
          OBVIOUS
        <4>1. slots'[i] = slots[i + d] /\ i + d \in 1..Len(slots)
          BY <3>4, <3>5
        <4>2. CASE j = Len(slots')
          BY <3>3, <3>4, <4>1, <4>2, SlotEntries
        <4>3. CASE j # Len(slots')
          <5>1. slots'[j] = slots[j + d] /\ j + d \in 1..Len(slots)
            BY <3>4, <3>5, <4>3
          <5>2. i + d < j + d
            BY <3>4
          <5>3. QED
            BY <4>1, <5>1, <5>2 DEF EngineInv, CheckpointsTrusted
        <4>4. QED
          BY <4>2, <4>3
      <3>8. QED
        BY <1>1, <3>4, <3>6, <3>7 DEF CheckpointsTrusted
    <2>3. QED
      BY <2>1, <2>2
  <1>6. EngineTypeOK'
    BY <1>1, <1>5 DEF EngineInv, EngineTypeOK
  <1>7. QED
    BY <1>2, <1>3, <1>4, <1>5, <1>6 DEF EngineInv

\* What a rollback restores: a slot, the ring up to it, and the slots up to it.
LEMMA RollbackRestores ==
    ASSUME EngineInv, NEW block \in Nat, Rollback(block)
    PROVE  \E i \in 1..Len(slots), m \in 0..Len(ring) :
             /\ Serves(i, block)
             /\ fold' = slots[i].fold /\ cursor' = slots[i].cursor
             /\ AtOrBelow(ring, slots[i].cursor.block, m) /\ ring' = SubSeq(ring, 1, m)
             /\ slots' = SubSeq(slots, 1, i)
             /\ slots' \in Seq(Slot) /\ Len(slots') = i
             /\ \A k \in 1..i : slots'[k] = slots[k]
  <1>1. PICK i \in 1..Len(slots), m \in 0..Len(ring), n \in 0..Len(slots) :
          /\ IsBest(i, block)
          /\ fold' = slots[i].fold /\ cursor' = slots[i].cursor
          /\ AtOrBelow(ring, slots[i].cursor.block, m) /\ ring' = SubSeq(ring, 1, m)
          /\ NotNewer(slots, slots[i].cursor, n) /\ slots' = SubSeq(slots, 1, n)
    BY DEF Rollback
  <1>2. Serves(i, block) /\ \A j \in (i + 1)..Len(slots) : ~Serves(j, block)
    BY <1>1 DEF IsBest
  <1>3. slots \in Seq(Slot) /\ Len(slots) \in Nat
    BY SlotEntries
  <1>4. i <= n
    BY SlotEntries, <1>1, AfterTransitive DEF NotNewer
  <1>5. ~(i < n)
    <2> SUFFICES ASSUME i < n PROVE FALSE
      OBVIOUS
    <2>1. n \in 1..Len(slots) /\ n \in (i + 1)..Len(slots)
      BY <1>3
    <2>2. ~After(slots[n].cursor, slots[i].cursor)
      BY <1>1, <2>1 DEF NotNewer
    <2>3. ~After(slots[i].cursor, slots[n].cursor)
      BY <2>1 DEF EngineInv, CheckpointsTrusted
    <2>4. Point(slots[i].cursor) /\ Point(slots[n].cursor)
      BY <2>1, SlotEntries
    <2>5. slots[n].cursor.block = slots[i].cursor.block
      BY <2>2, <2>3, <2>4 DEF After, Point
    <2>6. slots[n].cursor = NoPos <=> slots[i].cursor = NoPos
      BY <2>1, <2>5, SlotEntries, PointsCompare
    <2>7. Serves(n, block)
      BY <1>2, <2>5, <2>6 DEF Serves, Live
    <2>8. QED
      BY <1>2, <2>1, <2>7
  <1>6. n = i
    BY <1>3, <1>4, <1>5
  <1>7. /\ slots' = SubSeq(slots, 1, i) /\ slots' \in Seq(Slot) /\ Len(slots') = i
        /\ \A k \in 1..i : slots'[k] = slots[k]
    BY <1>1, <1>3, <1>6
  <1>8. QED
    BY <1>1, <1>2, <1>7

\* A rollback restores a trusted slot and cuts ring and slots back to it.
LEMMA RollbackKeepsInv ==
    ASSUME EngineInv, NEW block \in Nat, Rollback(block)
    PROVE  EngineInv'
  <1>1. PICK i \in 1..Len(slots), m \in 0..Len(ring) :
          /\ Serves(i, block)
          /\ fold' = slots[i].fold /\ cursor' = slots[i].cursor
          /\ AtOrBelow(ring, slots[i].cursor.block, m) /\ ring' = SubSeq(ring, 1, m)
          /\ slots' \in Seq(Slot) /\ Len(slots') = i
          /\ \A k \in 1..i : slots'[k] = slots[k]
    BY RollbackRestores
  <1>2. /\ status' = "Active" /\ lastVerified' = NoBlock
        /\ ret' = "none" /\ todo' = <<>> /\ done' = 0 /\ UNCHANGED <<resets, snap>>
    BY DEF Rollback, NoCall
  <1>3. /\ ring \in Seq(BlockRef) /\ Len(ring) <= RingCapacity
        /\ cursor \in Position \cup {NoPos} /\ RingEndsAt(ring, cursor)
        /\ Len(slots) \in Nat /\ Len(slots) <= CheckpointSlots
    BY SlotEntries DEF EngineInv, EngineTypeOK, RingTipIsCursor
  <1>4. /\ slots[i].cursor \in Position \cup {NoPos}
        /\ slots[i].cursor = NoPos \/ Observes(ring, slots[i].cursor.block)
    BY <1>1, SlotEntries DEF Serves, Live
  <1>5. /\ ring' \in Seq(BlockRef) /\ Len(ring') <= RingCapacity
        /\ RingEndsAt(ring', cursor')
        /\ \A k \in 1..Len(ring') : k \in 1..Len(ring) /\ ring'[k] = ring[k]
    BY <1>1, <1>3, <1>4, TruncatedEndsAtCursor
  <1>6. \A k \in 1..Len(slots) : FoldsOneChain(slots[k].fold, slots[k].cursor, ring')
    <2> SUFFICES ASSUME NEW k \in 1..Len(slots)
                 PROVE  FoldsOneChain(slots[k].fold, slots[k].cursor, ring')
      OBVIOUS
    <2> DEFINE f == slots[k].fold
               c == slots[k].cursor
               r == ring
               q == ring'
    <2>1. /\ f \in Fold /\ c \in Position \cup {NoPos} /\ ~After(c, c) /\ FoldsOneChain(f, c, r)
          /\ r \in Seq(BlockRef) /\ q \in Seq(BlockRef)
      BY <1>3, <1>5, SlotEntries, AfterTransitive
    <2>2. \A j \in 1..Len(q) : \E l \in 1..Len(r) : q[j] = r[l]
      BY <1>5
    <2> HIDE DEF f, c, r, q
    <2>3. FoldsOneChain(f, c, q)
      BY <2>1, <2>2, FoldSurvivesLoss
    <2>4. QED
      BY <2>3 DEF f, c, q
  <1>7. FoldsOneChain(fold', cursor', ring') /\ fold' \in Fold /\ ~fold'.torn
    BY <1>1, <1>6, SlotEntries DEF FoldsOneChain
  <1>8. CheckpointsTrusted'
    <2>1. \A k \in 1..i : ~After(slots[k].cursor, slots[i].cursor)
      <3> SUFFICES ASSUME NEW k \in 1..i PROVE ~After(slots[k].cursor, slots[i].cursor)
        OBVIOUS
      <3>1. k = i \/ k < i
        OBVIOUS
      <3>2. CASE k = i
        BY <3>2, SlotEntries, AfterTransitive
      <3>3. CASE k < i
        BY <1>3, <3>3 DEF EngineInv, CheckpointsTrusted
      <3>4. QED
        BY <3>1, <3>2, <3>3
    <2>2. \A k \in 1..i : k \in 1..Len(slots)
      BY <1>3
    <2>3. \A k \in 1..Len(slots') :
            /\ FoldsOneChain(slots'[k].fold, slots'[k].cursor, ring')
            /\ ~After(slots'[k].cursor, cursor')
      BY <1>1, <1>6, <2>1, <2>2
    <2>4. \A k, j \in 1..Len(slots') : k < j => ~After(slots'[k].cursor, slots'[j].cursor)
      BY <1>1, <2>2 DEF EngineInv, CheckpointsTrusted
    <2>5. QED
      BY <2>3, <2>4 DEF CheckpointsTrusted
  <1>9. CallConsistent'
    BY <1>2, <1>7, NoCallConsistent
  <1>10. FoldConsistent'
    <2>1. Reach' = cursor' /\ ~(done' > 0)
      BY <1>2 DEF Reach
    <2>2. QED
      BY <1>7, <2>1 DEF FoldConsistent
  <1>11. RingTipIsCursor' /\ FreshnessNamesTip' /\ SnapshotRestores'
    BY <1>2, <1>5 DEF EngineInv, RingTipIsCursor, FreshnessNamesTip, SnapshotRestores, Decodable, Newest
  <1>12. EngineTypeOK'
    BY <1>1, <1>2, <1>3, <1>4, <1>5, <1>7 DEF EngineInv, EngineTypeOK
  <1>13. QED
    BY <1>8, <1>9, <1>10, <1>11, <1>12 DEF EngineInv

\* A ring that ends at its cursor and fits the capacity passes the decoder.
LEMMA EndsAtCursorDecodes ==
    ASSUME NEW s \in Snapshot, Len(s.ring) <= RingCapacity, RingEndsAt(s.ring, s.cursor)
    PROVE  Decodable(s)
  <1>1. s.ring \in Seq(BlockRef) /\ Len(s.ring) \in Nat
    BY DEF Snapshot
  <1>2. \A i \in 1..(Len(s.ring) - 1) : i \in 1..Len(s.ring) /\ i + 1 \in 1..Len(s.ring) /\ i < i + 1
    BY <1>1
  <1>3. QED
    BY <1>2 DEF Decodable, RingEndsAt

\* A state with nothing consumed, as a reset and a new engine have it.
LEMMA EmptyEngine ==
    /\ Genesis \in Fold
    /\ ~Genesis.torn
    /\ RingEndsAt(<<>>, NoPos)
    /\ FoldsOneChain(Genesis, NoPos, <<>>)
    /\ NoSnap \in Snapshot
    /\ Decodable(NoSnap)
  <1>1. Genesis \in Fold /\ ~Genesis.torn /\ Genesis.events = <<>>
    BY DEF Genesis, Fold
  <1>2. RingEndsAt(<<>>, NoPos)
    BY DEF RingEndsAt
  <1>3. FoldsOneChain(Genesis, NoPos, <<>>)
    BY <1>1 DEF FoldsOneChain
  <1>4. NoSnap \in Snapshot /\ NoSnap.ring = <<>> /\ NoSnap.cursor = NoPos
    BY <1>1 DEF NoSnap, Snapshot
  <1>5. Decodable(NoSnap)
    BY <1>2, <1>4, EndsAtCursorDecodes
  <1>6. QED
    BY <1>1, <1>2, <1>3, <1>4, <1>5

\* The initial state.
LEMMA InitEstablishesInv ==
    ASSUME EngineInit
    PROVE  EngineInv
  <1>1. /\ fold = Genesis /\ cursor = NoPos /\ ring = <<>> /\ slots = <<>> /\ status = "Active"
        /\ lastVerified = NoBlock /\ resets = 0 /\ snap = NoSnap
        /\ ret = "none" /\ todo = <<>> /\ done = 0
    BY DEF EngineInit, Fresh
  <1>2. EngineTypeOK
    BY <1>1, EmptyEngine DEF EngineTypeOK
  <1>3. CallConsistent /\ Reach = cursor
    BY <1>1, EmptyEngine DEF CallConsistent, Reach
  <1>4. RingTipIsCursor /\ FreshnessNamesTip /\ CheckpointsTrusted
    BY <1>1, EmptyEngine DEF RingTipIsCursor, FreshnessNamesTip, CheckpointsTrusted
  <1>5. FoldConsistent
    BY <1>1, <1>3, EmptyEngine DEF FoldConsistent
  <1>6. SnapshotRestores
    <2>1. NoSnap.fold = Genesis /\ NoSnap.ring = <<>> /\ NoSnap.cursor = NoPos
      BY DEF NoSnap
    <2>2. QED
      BY <1>1, <2>1, EmptyEngine DEF SnapshotRestores
  <1>7. QED
    BY <1>2, <1>3, <1>4, <1>5, <1>6 DEF EngineInv

\* A step after which the engine is Active, without slots and with nothing
\* verified: what a reset and a restart have in common.
LEMMA StartOverKeepsInv ==
    ASSUME EngineInv, UNCHANGED snap, resets' \in Nat, NoCall,
           status' = "Active", slots' = <<>>, lastVerified' = NoBlock,
           fold' \in Fold, cursor' \in Position \cup {NoPos},
           ring' \in Seq(BlockRef), Len(ring') <= RingCapacity,
           RingEndsAt(ring', cursor'), FoldsOneChain(fold', cursor', ring')
    PROVE  EngineInv'
  <1>1. ret' = "none" /\ todo' = <<>> /\ done' = 0 /\ ~fold'.torn
    BY DEF NoCall, FoldsOneChain
  <1>2. EngineTypeOK'
    BY <1>1 DEF EngineInv, EngineTypeOK
  <1>3. CallConsistent'
    BY <1>1, NoCallConsistent
  <1>4. FoldConsistent'
    <2>1. Reach' = cursor' /\ ~(done' > 0)
      BY <1>1 DEF Reach
    <2>2. QED
      BY <2>1 DEF FoldConsistent
  <1>5. RingTipIsCursor' /\ FreshnessNamesTip' /\ CheckpointsTrusted' /\ SnapshotRestores'
    BY DEF EngineInv, RingTipIsCursor, FreshnessNamesTip, CheckpointsTrusted,
           SnapshotRestores, Decodable, Newest
  <1>6. QED
    BY <1>2, <1>3, <1>4, <1>5 DEF EngineInv

\* Dropping everything consumed and starting again from the initial fold.
LEMMA ResetKeepsInv ==
    ASSUME EngineInv, Reset(Genesis)
    PROVE  EngineInv'
  <1>1. /\ fold' = Genesis /\ cursor' = NoPos /\ ring' = <<>> /\ slots' = <<>>
        /\ status' = "Active" /\ lastVerified' = NoBlock /\ NoCall /\ UNCHANGED snap
        /\ resets' = resets + 1
    BY DEF Reset
  <1>2. resets' \in Nat
    BY <1>1 DEF EngineInv, EngineTypeOK
  <1>3. ring' \in Seq(BlockRef) /\ Len(ring') <= RingCapacity
    BY <1>1
  <1>4. QED
    BY <1>1, <1>2, <1>3, EmptyEngine, StartOverKeepsInv

\* A restart decodes the last snapshot.
LEMMA RestartKeepsInv ==
    ASSUME EngineInv, Restart
    PROVE  EngineInv'
  <1>1. /\ fold' = snap.fold /\ cursor' = snap.cursor /\ ring' = snap.ring /\ slots' = <<>>
        /\ status' = "Active" /\ lastVerified' = NoBlock /\ resets' = 0 /\ NoCall
        /\ UNCHANGED snap /\ Decodable(snap)
    BY DEF Restart
  <1>2. snap \in Snapshot /\ Len(snap.ring) <= RingCapacity
        /\ RingEndsAt(snap.ring, snap.cursor) /\ FoldsOneChain(snap.fold, snap.cursor, snap.ring)
    BY DEF EngineInv, EngineTypeOK, SnapshotRestores, Decodable
  <1>3. snap.fold \in Fold /\ snap.cursor \in Position \cup {NoPos} /\ snap.ring \in Seq(BlockRef)
    BY <1>2 DEF Snapshot
  <1>4. QED
    BY <1>1, <1>2, <1>3, StartOverKeepsInv

\* The driver gives an engine up while it is Active, so its fold is not torn.
LEMMA GiveUpKeepsInv ==
    ASSUME EngineInv, GiveUp
    PROVE  EngineInv'
  <1>1. /\ Idle /\ status = "Active" /\ status' = "Unrecoverable"
        /\ ret' = "none" /\ todo' = <<>> /\ done' = 0
        /\ UNCHANGED <<fold, cursor, ring, slots, lastVerified, resets, snap>>
    BY DEF GiveUp, MarkUnrecoverable, NoCall
  <1>2. ~fold.torn /\ done = 0
    BY <1>1, IdleFacts DEF EngineInv, CallConsistent
  <1>3. EngineTypeOK' /\ FreshnessNamesTip'
    BY <1>1 DEF EngineInv, EngineTypeOK, FreshnessNamesTip
  <1>4. CallConsistent'
    BY <1>1, <1>2, NoCallConsistent
  <1>5. QED
    BY <1>1, <1>2, <1>3, <1>4, QuietStepKeepsInv

\* A step that encodes a snapshot and touches nothing else.
LEMMA EncodeKeepsInv ==
    ASSUME EngineInv, Idle, NoCall,
           UNCHANGED <<fold, cursor, ring, slots, status, lastVerified, resets>>,
           snap' \in Snapshot, Len(snap'.ring) <= RingCapacity,
           RingEndsAt(snap'.ring, snap'.cursor),
           FoldsOneChain(snap'.fold, snap'.cursor, snap'.ring)
    PROVE  EngineInv'
  <1>1. ret' = "none" /\ todo' = <<>> /\ done' = 0
    BY DEF NoCall
  <1>2. EngineTypeOK'
    BY <1>1 DEF EngineInv, EngineTypeOK
  <1>3. CallConsistent'
    BY <1>1, NoCallConsistent DEF EngineInv, CallConsistent
  <1>4. FoldConsistent'
    <2>1. Reach' = cursor /\ ~(done' > 0)
      BY <1>1 DEF Reach
    <2>2. QED
      BY <2>1, IdleFacts DEF FoldConsistent
  <1>5. RingTipIsCursor' /\ FreshnessNamesTip' /\ CheckpointsTrusted'
    BY DEF EngineInv, RingTipIsCursor, FreshnessNamesTip, CheckpointsTrusted
  <1>6. SnapshotRestores'
    <2>1. Decodable(snap')
      BY EndsAtCursorDecodes
    <2>2. QED
      BY <2>1 DEF SnapshotRestores, Decodable, Newest
  <1>7. QED
    BY <1>2, <1>3, <1>4, <1>5, <1>6 DEF EngineInv

\* The snapshot of the current state.
LEMMA EncodeSnapshotKeepsInv ==
    ASSUME EngineInv, EncodeSnapshot
    PROVE  EngineInv'
  <1>1. /\ Idle /\ NoCall /\ status # "Poisoned"
        /\ snap' = [fold |-> fold, cursor |-> cursor, ring |-> ring]
        /\ UNCHANGED <<fold, cursor, ring, slots, status, lastVerified, resets>>
    BY DEF EncodeSnapshot
  <1>2. fold \in Fold /\ cursor \in Position \cup {NoPos} /\ ring \in Seq(BlockRef)
        /\ Len(ring) <= RingCapacity /\ RingEndsAt(ring, cursor)
    BY DEF EngineInv, EngineTypeOK, RingTipIsCursor
  <1>3. FoldsOneChain(fold, cursor, ring)
    BY <1>1, IdleFacts DEF EngineInv, CallConsistent
  <1>4. snap' \in Snapshot /\ snap'.fold = fold /\ snap'.cursor = cursor /\ snap'.ring = ring
    BY <1>1, <1>2 DEF Snapshot
  <1>5. QED
    BY <1>1, <1>2, <1>3, <1>4, EncodeKeepsInv

\* The snapshot of the oldest live checkpoint, with the ring cut back to it.
LEMMA EncodeDurableSnapshotKeepsInv ==
    ASSUME EngineInv, EncodeDurableSnapshot
    PROVE  EngineInv'
  <1>1. PICK i \in 1..Len(slots), m \in 0..Len(ring) :
          /\ IsOldest(i) /\ slots[i].cursor # NoPos
          /\ AtOrBelow(ring, slots[i].cursor.block, m)
          /\ snap' = [fold |-> slots[i].fold, cursor |-> slots[i].cursor,
                      ring |-> SubSeq(ring, 1, m)]
    BY DEF EncodeDurableSnapshot
  <1>2. /\ Idle /\ NoCall
        /\ UNCHANGED <<fold, cursor, ring, slots, status, lastVerified, resets>>
    BY DEF EncodeDurableSnapshot
  <1> DEFINE f == slots[i].fold
             c == slots[i].cursor
             r == ring
             q == SubSeq(ring, 1, m)
  <1>3. /\ r \in Seq(BlockRef) /\ Len(r) <= RingCapacity
        /\ cursor \in Position \cup {NoPos} /\ RingEndsAt(r, cursor)
    BY DEF EngineInv, EngineTypeOK, RingTipIsCursor
  <1>4. /\ f \in Fold /\ c \in Position \cup {NoPos} /\ FoldsOneChain(f, c, r) /\ ~After(c, c)
        /\ c = NoPos \/ Observes(r, c.block)
    BY <1>1, SlotEntries, AfterTransitive DEF IsOldest, Live
  <1>5. /\ q \in Seq(BlockRef) /\ Len(q) <= RingCapacity /\ RingEndsAt(q, c)
        /\ \A k \in 1..Len(q) : k \in 1..Len(r) /\ q[k] = r[k]
    BY <1>1, <1>3, <1>4, TruncatedEndsAtCursor
  <1>6. snap' = [fold |-> f, cursor |-> c, ring |-> q]
    BY <1>1
  <1> HIDE DEF f, c, r, q
  <1>7. \A k \in 1..Len(q) : \E l \in 1..Len(r) : q[k] = r[l]
    BY <1>5
  <1>8. FoldsOneChain(f, c, q)
    BY <1>3, <1>4, <1>5, <1>7, FoldSurvivesLoss
  <1>9. snap' \in Snapshot /\ snap'.fold = f /\ snap'.cursor = c /\ snap'.ring = q
    BY <1>4, <1>5, <1>6 DEF Snapshot
  <1>10. QED
    BY <1>2, <1>5, <1>8, <1>9, EncodeKeepsInv

-----------------------------------------------------------------------------
(***************************************************************************)
(* The theorems.                                                           *)
(***************************************************************************)
\* No step of the engine, whoever calls it and whatever the fold does, breaks
\* the inductive invariant.
LEMMA NextKeepsInv ==
    ASSUME EngineInv, [EngineNext]_engineVars
    PROVE  EngineInv'
  <1>1. CASE \E b \in Batches : ApplyBatch(b)
    BY <1>1, ApplyBatchKeepsInv, BatchesAssumption
  <1>2. CASE ApplyStep
    BY <1>2, ApplyStepKeepsInv
  <1>3. CASE Checkpoint
    BY <1>3, CheckpointKeepsInv
  <1>4. CASE \E block \in RollbackTargets : Rollback(block)
    BY <1>4, RollbackKeepsInv, RollbackTargetsAssumption
  <1>5. CASE Reset(Genesis)
    BY <1>5, ResetKeepsInv
  <1>6. CASE GiveUp
    BY <1>6, GiveUpKeepsInv
  <1>7. CASE EncodeSnapshot
    BY <1>7, EncodeSnapshotKeepsInv
  <1>8. CASE EncodeDurableSnapshot
    BY <1>8, EncodeDurableSnapshotKeepsInv
  <1>9. CASE Restart
    BY <1>9, RestartKeepsInv
  <1>10. CASE UNCHANGED engineVars
    <2>1. UNCHANGED <<fold, cursor, ring, slots, status, lastVerified, resets, snap, ret, todo, done>>
      BY <1>10 DEF engineVars
    <2>2. Reach' = Reach
      BY <2>1 DEF Reach
    <2>3. CallConsistent'
      BY <2>1 DEF EngineInv, CallConsistent, Admitted, Redelivered, Contradicts
    <2>4. QED
      BY <2>1, <2>2, <2>3 DEF EngineInv, EngineTypeOK, RingTipIsCursor, FreshnessNamesTip,
            FoldConsistent, CheckpointsTrusted, SnapshotRestores, Decodable, Newest
  <1>11. QED
    BY <1>1, <1>2, <1>3, <1>4, <1>5, <1>6, <1>7, <1>8, <1>9, <1>10 DEF EngineNext

\* The inductive invariant holds in every reachable state, the states inside
\* apply_batch and after a panic in the fold included.
THEOREM InductiveInvariant == EngineSpec => []EngineInv
  <1>1. EngineInit => EngineInv
    BY InitEstablishesInv
  <1>2. EngineInv /\ [EngineNext]_engineVars => EngineInv'
    BY NextKeepsInv
  <1>3. QED
    BY <1>1, <1>2, PTL DEF EngineSpec

\* Every variable of the engine keeps its type; the ring and the checkpoints
\* never outgrow their configured sizes.
THEOREM TypeCorrect == EngineSpec => []EngineTypeOK
  <1>1. EngineInv => EngineTypeOK
    BY DEF EngineInv
  <1>2. QED
    BY <1>1, InductiveInvariant, PTL

\* The ring's newest entry is the cursor block, at every step.
THEOREM RingTip == EngineSpec => []RingTipIsCursor
  <1>1. EngineInv => RingTipIsCursor
    BY DEF EngineInv
  <1>2. QED
    BY <1>1, InductiveInvariant, PTL

\* No engine that accepts batches, or halted cleanly, holds an event twice, out
\* of order, or from a block other than the one the ring observed.
THEOREM OneChain == EngineSpec => []NoForkMixing
  <1>1. EngineInv => NoForkMixing
    <2> SUFFICES ASSUME EngineInv, Idle, status # "Poisoned"
                 PROVE  FoldsOneChain(fold, cursor, ring)
      BY DEF NoForkMixing
    <2>1. ~fold.torn
      BY DEF EngineInv, CallConsistent
    <2>2. QED
      BY <2>1, IdleFacts
  <1>2. QED
    BY <1>1, InductiveInvariant, PTL

\* Every retained checkpoint holds trusted state of the ring's chain, at or
\* behind the cursor, in order of age.
THEOREM CheckpointsHoldOneChain == EngineSpec => []CheckpointsTrusted
  <1>1. EngineInv => CheckpointsTrusted
    BY DEF EngineInv
  <1>2. QED
    BY <1>1, InductiveInvariant, PTL

\* Every snapshot the engine encodes decodes, to a consistent engine.
THEOREM SnapshotsDecode == EngineSpec => []SnapshotRestores
  <1>1. EngineInv => SnapshotRestores
    BY DEF EngineInv
  <1>2. QED
    BY <1>1, InductiveInvariant, PTL

\* The freshness statement never names a block the engine has left.
THEOREM FreshnessIsCurrent == EngineSpec => []FreshnessNamesTip
  <1>1. EngineInv => FreshnessNamesTip
    BY DEF EngineInv
  <1>2. QED
    BY <1>1, InductiveInvariant, PTL

\* A rollback ends at or below its block, never ahead of the engine, and can be
\* run again from the checkpoint it keeps.
THEOREM RollbackRetreats == EngineSpec => RollbackGoesBack
  <1>1. ASSUME EngineInv, NEW block \in RollbackTargets, Rollback(block)
        PROVE  RollbackStep(block)
    <2>1. block \in Nat
      BY RollbackTargetsAssumption
    <2>2. PICK i \in 1..Len(slots) :
            /\ Serves(i, block) /\ fold' = slots[i].fold /\ cursor' = slots[i].cursor
            /\ slots' \in Seq(Slot) /\ Len(slots') = i
            /\ \A k \in 1..i : slots'[k] = slots[k]
      BY <1>1, <2>1, RollbackRestores
    <2>3. i \in Nat /\ i \in 1..i /\ slots[i] \in Slot
      BY <1>1, SlotEntries
    <2>4. slots'[Len(slots')] = slots[i] /\ slots' # <<>>
      BY <2>2, <2>3
    <2>5. slots[i] = [fold |-> slots[i].fold, cursor |-> slots[i].cursor]
      BY <2>3 DEF Slot
    <2>6. cursor'.block <= block
      BY <2>2 DEF Serves
    <2>7. ~After(cursor', cursor)
      BY <1>1, <2>2, SlotEntries
    <2>8. QED
      BY <2>2, <2>4, <2>5, <2>6, <2>7 DEF RollbackStep
  <1>2. EngineInv /\ [EngineNext]_engineVars
          => [\A block \in RollbackTargets : Rollback(block) => RollbackStep(block)]_engineVars
    BY <1>1
  <1>3. QED
    BY <1>2, InductiveInvariant, PTL DEF EngineSpec, RollbackGoesBack
=============================================================================
