-------------------------- MODULE TreeReaderProofs --------------------------
(***************************************************************************)
(* What the in-memory tree computes, for every arity from 2 to 255, every  *)
(* depth and number of leaves: its nodes are the Merkle tree's over the    *)
(* leaves inserted, and its inclusion and consistency proofs verify for    *)
(* what they are about and for nothing else.                               *)
(***************************************************************************)
EXTENDS TreeReader, LeanIMTProofs

\* The leaves of a tree of this size.
Inserted(size) == [i \in 1..size |-> Leaf(i)]

Holds(t, n) ==
    /\ t.size \in 0..MaxLeaves /\ t.depth <= MaxDepth
    /\ Shaped(t, Inserted(t.size), n) /\ Right(t, Inserted(t.size), n)
    /\ t.root = RootOf(Inserted(t.size), n)

\* Every node is right, in the tree and in the snapshot.
IInv == arity \in Arities /\ Holds(tree, arity) /\ Holds(held, arity)

LEMMA ArityFacts ==
    ASSUME NEW n \in Arities
    PROVE  n \in Nat \ {0, 1} /\ n \in Nat /\ n \in Nat \ {0}
  BY LeanIMTAssumption

\* The counts of a consistency proof fit a u8: none of the generator's to_u8 calls fails.
LEMMA CountsFit ==
    ASSUME arity \in Arities, NEW old \in Nat \ {0}, NEW now \in Nat, NEW l \in Nat
    PROVE  SharedCount(old, l) \in 0..255 /\ NewCount(old, now, l) <= 255
  <1>1. arity \in 2..255 /\ arity \in Nat \ {0}
    BY LeanIMTAssumption
  <1>2. PICK s \in Nat \ {0} : s = Span(l)
    BY <1>1, PowerPositive DEF Span
  <1>3. LevelSize(old, l) \in Int /\ LevelSize(now, l) \in Int
    BY <1>2 DEF LevelSize, CeilDiv
  <1>4. PICK b \in Int : b = Boundary(old, l)
    BY <1>3 DEF Boundary
  <1>5. PICK p \in Nat : p = BoundaryPos(old, l) /\ p < arity
    BY <1>1, <1>4 DEF BoundaryPos
  <1>6. PICK size \in Int : size = LevelSize(now, l)
    BY <1>3
  <1>7. SharedCount(old, l) \in 0..255
    BY <1>1, <1>5 DEF SharedCount
  <1>8. NewCount(old, now, l) = LessOf(size, b - p + arity) - b - 1
    BY <1>4, <1>5, <1>6 DEF NewCount
  <1>9. LessOf(size, b - p + arity) <= b - p + arity /\ LessOf(size, b - p + arity) \in Int
    BY <1>1, <1>4, <1>5, <1>6 DEF LessOf
  <1>10. QED
    BY <1>1, <1>4, <1>5, <1>7, <1>8, <1>9

LEMMA InsertedIsSeq ==
    ASSUME NEW size \in Nat
    PROVE  IsSeq(Inserted(size)) /\ Len(Inserted(size)) = size
  <1> DEFINE s == Inserted(size)
  <1>1. s = [k \in 1..size |-> s[k]]
    BY DEF Inserted
  <1> HIDE DEF s
  <1>2. QED
    BY <1>1, TableIsSeq DEF s

LEMMA InsertedMore ==
    ASSUME NEW size \in Nat, NEW count \in Nat
    PROVE  /\ IsSeq([i \in 1..count |-> Leaf(size + i)]) /\ Len([i \in 1..count |-> Leaf(size + i)]) = count
           /\ Inserted(size) \o [i \in 1..count |-> Leaf(size + i)] = Inserted(size + count)
  <1> DEFINE a == Inserted(size)
             m == [i \in 1..count |-> Leaf(size + i)]
             b == Inserted(size + count)
  <1>1. IsSeq(a) /\ Len(a) = size /\ IsSeq(b) /\ Len(b) = size + count
    BY InsertedIsSeq
  <1>2. IsSeq(m) /\ Len(m) = count
    <2>1. m = [k \in 1..count |-> m[k]]
      OBVIOUS
    <2> HIDE DEF m
    <2>2. QED
      BY <2>1, TableIsSeq
  <1>3. /\ \A k \in 1..size : a[k] = Leaf(k)
        /\ \A k \in 1..count : m[k] = Leaf(size + k)
        /\ \A k \in 1..size + count : b[k] = Leaf(k)
    BY DEF Inserted
  <1> HIDE DEF a, b, m
  <1>4. /\ IsSeq(a \o m) /\ Len(a \o m) = size + count
        /\ \A k \in 1..size + count : (a \o m)[k] = IF k <= size THEN a[k] ELSE m[k - size]
    <2>1. /\ IsSeq(a \o m) /\ Len(a \o m) = Len(a) + Len(m)
          /\ \A k \in 1..Len(a) + Len(m) : (a \o m)[k] = IF k <= Len(a) THEN a[k] ELSE m[k - Len(a)]
      BY <1>1, <1>2, ConcatIsSeq
    <2>2. QED
      BY <1>1, <1>2, <2>1
  <1>5. ASSUME NEW k \in 1..size + count PROVE (a \o m)[k] = b[k]
    <2>1. CASE k <= size
      BY <1>3, <1>4, <2>1
    <2>2. CASE ~(k <= size)
      <3>1. k - size \in 1..count /\ size + (k - size) = k
        BY <2>2
      <3>2. m[k - size] = Leaf(size + (k - size))
        BY <1>3, <3>1
      <3>3. QED
        BY <1>3, <1>4, <2>2, <3>1, <3>2
    <2>3. QED
      BY <2>1, <2>2
  <1>6. a \o m = b
    BY <1>1, <1>4, <1>5, SeqEqual2
  <1>7. QED
    BY <1>2, <1>6 DEF a, b, m

LEMMA InsertedNext ==
    ASSUME NEW size \in Nat
    PROVE  Append(Inserted(size), Leaf(size + 1)) = Inserted(size + 1)
  <1> DEFINE a == Inserted(size)
             b == Inserted(size + 1)
             e == Leaf(size + 1)
  <1>1. IsSeq(a) /\ Len(a) = size /\ IsSeq(b) /\ Len(b) = size + 1
    BY InsertedIsSeq
  <1>2. (\A k \in 1..size : a[k] = Leaf(k)) /\ (\A k \in 1..size + 1 : b[k] = Leaf(k))
    BY DEF Inserted
  <1>3. e = Leaf(size + 1)
    OBVIOUS
  <1> HIDE DEF a, b, e
  <1>4. /\ IsSeq(Append(a, e)) /\ Len(Append(a, e)) = size + 1
        /\ \A k \in 1..size : Append(a, e)[k] = a[k]
        /\ Append(a, e)[size + 1] = e
    BY <1>1, AppendIsSeq
  <1>5. ASSUME NEW k \in 1..size + 1 PROVE Append(a, e)[k] = b[k]
    <2>1. k \in 1..size \/ k = size + 1
      OBVIOUS
    <2>2. QED
      BY <1>2, <1>3, <1>4, <2>1
  <1>6. Append(a, e) = b
    BY <1>1, <1>4, <1>5, SeqEqual2
  <1>7. QED
    BY <1>6 DEF a, b, e

LEMMA RightTrusted ==
    ASSUME NEW n \in Nat \ {0, 1}, NEW t, NEW leaves, Shaped(t, leaves, n), Right(t, leaves, n)
    PROVE  Trusted(t, leaves, n)
  <1> DEFINE size == Len(leaves)
  <1>0. size \in Nat /\ size < size + 1 /\ size + 1 \in Nat
    BY DEF Shaped, IsSeq
  <1>1. SUFFICES ASSUME NEW l \in Levels, NEW k \in Nat \ {0}, k * Power(n, l) <= size
                 PROVE  t.levels[l][k] = Layer(leaves, l, n)[k]
    BY DEF Trusted
  <1>2. l \in Nat /\ Len(t.levels[l]) = Stored(size, l, n)
    BY LeanIMTAssumption DEF Levels, Shaped
  <1>3. size \div Power(n, l) <= Stored(size, l, n) /\ Stored(size, l, n) \in Nat /\ size \div Power(n, l) \in Nat
    BY <1>0, <1>2, StoredBounds
  <1>4. k <= size \div Power(n, l)
    BY <1>0, <1>1, <1>2, DirtyFacts
  <1>5. k \in 1..Len(t.levels[l])
    BY <1>2, <1>3, <1>4
  <1>6. QED
    BY <1>5 DEF Right

LEMMA EmptyHolds ==
    ASSUME NEW n \in Nat \ {0, 1}
    PROVE  Holds(EmptyTree, n)
  <1> DEFINE t == EmptyTree
  <1>1. IsSeq(Inserted(0)) /\ Len(Inserted(0)) = 0 /\ IsSeq(<<>>) /\ Len(<<>>) = 0
    BY InsertedIsSeq, EmptyIsSeq
  <1>2. Inserted(0) = <<>>
    BY <1>1, SeqEqual2
  <1>3. /\ IsTree(t) /\ t.size = 0 /\ t.depth = 0 /\ t.root = NoRoot
        /\ \A l \in Levels : t.levels[l] = <<>>
    BY <1>1 DEF EmptyTree, IsTree
  <1>4. CeilLogN(0, n) = 0
    BY DEF CeilLogN
  <1>5. ASSUME NEW l \in Levels PROVE Stored(0, l, n) = 0
    <2>1. l \in Nat
      BY LeanIMTAssumption DEF Levels
    <2>2. Power(n, l) \in Nat \ {0}
      BY <2>1, PowerPositive
    <2>3. CeilDiv(0, Power(n, l)) = 0
      BY <2>2 DEF CeilDiv
    <2>4. QED
      BY <2>3 DEF Stored
  <1>6. 0 \in Levels /\ 0 \in 0..MaxLeaves /\ 0 <= MaxDepth
    BY LeanIMTAssumption DEF Levels
  <1> HIDE DEF t
  <1>7. Shaped(t, Inserted(0), n)
    BY <1>1, <1>2, <1>3, <1>4, <1>5, <1>6 DEF Shaped
  <1>8. Right(t, Inserted(0), n)
    BY <1>1, <1>3 DEF Right
  <1>9. RootOf(Inserted(0), n) = NoRoot
    BY <1>1 DEF RootOf
  <1>10. QED
    BY <1>3, <1>6, <1>7, <1>8, <1>9 DEF Holds, t

LEMMA InsertHolds ==
    ASSUME arity \in Arities, NEW t, Holds(t, arity), t.size < MaxLeaves, Fits(t, 1)
    PROVE  Holds(Insert(t, Leaf(t.size + 1)), arity)
  <1> DEFINE n == arity
             size == t.size
             old == Inserted(size)
             new == Inserted(size + 1)
             u == Insert(t, Leaf(size + 1))
  <1>0. /\ n \in Nat \ {0, 1} /\ size \in Nat /\ size + 1 \in 0..MaxLeaves /\ size + 1 \in Nat
        /\ Shaped(t, old, n) /\ Right(t, old, n)
    BY ArityFacts, LeanIMTAssumption DEF Holds
  <1>1. IsSeq(old) /\ Len(old) = size /\ IsSeq(new) /\ Len(new) = size + 1 /\ new = Append(old, Leaf(size + 1))
    BY <1>0, InsertedIsSeq, InsertedNext
  <1>2. Trusted(t, old, n)
    BY <1>0, RightTrusted
  <1>3. CeilLogN(Len(old) + 1, n) <= MaxDepth
    BY <1>1 DEF Fits
  <1> HIDE DEF old, new
  <1>4. Shaped(u, new, n)
    BY <1>0, <1>1, <1>3, InsertLevels
  <1>5. Rehashed(t, old, u, new, n) /\ u.root = RootOf(new, n)
    BY <1>0, <1>1, <1>2, <1>3, InsertNodes
  <1>6. \A i \in 1..Len(old) : old[i] = new[i]
    BY <1>0, <1>1 DEF old, new, Inserted
  <1>7. Right(u, new, n)
    <2>1. Len(old) < Len(new)
      BY <1>0, <1>1
    <2> HIDE DEF u
    <2>2. QED
      BY <1>0, <1>4, <1>5, <1>6, <2>1, RehashedKeeps
  <1>8. u.size = size + 1 /\ u.depth <= MaxDepth
    <2>1. u.size = Len(new) /\ u.depth = CeilLogN(Len(new), n)
      BY <1>4 DEF Shaped
    <2>2. QED
      BY <1>1, <1>3, <2>1
  <1> HIDE DEF u
  <1>9. QED
    BY <1>0, <1>4, <1>5, <1>7, <1>8 DEF Holds, new, u

LEMMA InsertManyHolds ==
    ASSUME arity \in Arities, NEW t, Holds(t, arity), NEW count \in 1..MaxBatch,
           t.size + count <= MaxLeaves, Fits(t, count)
    PROVE  Holds(InsertMany(t, [i \in 1..count |-> Leaf(t.size + i)]), arity)
  <1> DEFINE n == arity
             size == t.size
             old == Inserted(size)
             more == [i \in 1..count |-> Leaf(size + i)]
             new == Inserted(size + count)
             u == InsertMany(t, more)
  <1>0. /\ n \in Nat \ {0, 1} /\ size \in Nat /\ size + count \in 0..MaxLeaves
        /\ size + count \in Nat /\ count \in Nat /\ count > 0
        /\ Shaped(t, old, n) /\ Right(t, old, n)
    BY ArityFacts, LeanIMTAssumption DEF Holds
  <1>1. IsSeq(old) /\ Len(old) = size /\ IsSeq(new) /\ Len(new) = size + count
    BY <1>0, InsertedIsSeq
  <1>2. IsSeq(more) /\ Len(more) = count /\ new = old \o more
    BY <1>0, InsertedMore
  <1>3. Trusted(t, old, n)
    BY <1>0, RightTrusted
  <1>4. CeilLogN(Len(old) + Len(more), n) <= MaxDepth
    BY <1>1, <1>2 DEF Fits
  <1> HIDE DEF old, new, more
  <1>5. Shaped(u, new, n)
    BY <1>0, <1>1, <1>2, <1>4, InsertManyShape DEF BatchSet
  <1>6. Rehashed(t, old, u, new, n) /\ u.root = RootOf(new, n)
    BY <1>0, <1>1, <1>2, <1>3, <1>4, InsertManyNodes
  <1>7. \A i \in 1..Len(old) : old[i] = new[i]
    BY <1>0, <1>1 DEF old, new, Inserted
  <1>8. Right(u, new, n)
    <2>1. Len(old) < Len(new)
      BY <1>0, <1>1
    <2> HIDE DEF u
    <2>2. QED
      BY <1>0, <1>5, <1>6, <1>7, <2>1, RehashedKeeps
  <1>9. u.size = size + count /\ u.depth <= MaxDepth
    <2>1. u.size = Len(new) /\ u.depth = CeilLogN(Len(new), n)
      BY <1>5 DEF Shaped
    <2>2. QED
      BY <1>1, <1>2, <1>4, <2>1
  <1> HIDE DEF u
  <1>10. QED
    BY <1>0, <1>5, <1>6, <1>8, <1>9 DEF Holds, new, u, more

\* A snapshot has the levels up to the depth, and there is nothing above.
SnapshotOf(t) == [t EXCEPT !.levels = [l \in Levels |-> IF l <= t.depth THEN @[l] ELSE <<>>]]

LEMMA SnapshotIsTree ==
    ASSUME NEW n \in Nat \ {0, 1}, NEW t, Holds(t, n)
    PROVE  SnapshotOf(t) = t
  <1> DEFINE size == t.size
             old == Inserted(size)
  <1>0. size \in Nat /\ Shaped(t, old, n) /\ Len(old) = size
    BY InsertedIsSeq, LeanIMTAssumption DEF Holds
  <1> HIDE DEF old
  <1>1. ASSUME NEW l \in Levels, ~(l <= t.depth) PROVE t.levels[l] = <<>>
    <2>1. IsSeq(t.levels[l]) /\ Len(t.levels[l]) = 0
      BY <1>0, <1>1 DEF Shaped, IsTree, Stored
    <2>2. QED
      BY <2>1, EmptyIsSeq, SeqEqual2
  <1>2. t = [levels |-> t.levels, root |-> t.root, size |-> t.size, depth |-> t.depth]
        /\ t.levels = [l \in Levels |-> t.levels[l]]
    BY <1>0 DEF Shaped, IsTree
  <1>3. t.levels = [l \in Levels |-> IF l <= t.depth THEN t.levels[l] ELSE <<>>]
    BY <1>1, <1>2
  <1>4. QED
    BY <1>2, <1>3 DEF SnapshotOf

\* The tree and the snapshot hold the Merkle tree of their leaves: the inductive
\* invariant of insert, insert_many and snapshot.
THEOREM NodesStayRight == Spec => []IInv
  <1>1. Init => IInv
    <2>1. SUFFICES ASSUME Init PROVE IInv
      OBVIOUS
    <2>2. QED
      BY <2>1, ArityFacts, EmptyHolds DEF Init, IInv
  <1>2. IInv /\ [Next]_vars => IInv'
    <2> SUFFICES ASSUME IInv, [Next]_vars PROVE IInv'
      OBVIOUS
    <2>0. arity \in Arities /\ arity \in Nat \ {0, 1} /\ Holds(tree, arity) /\ Holds(held, arity)
      BY ArityFacts DEF IInv
    <2>1. CASE InsertLeaf
      <3>1. Holds(tree', arity) /\ arity' = arity /\ held' = held
        BY <2>0, <2>1, InsertHolds DEF InsertLeaf
      <3>2. QED
        BY <2>0, <3>1 DEF IInv, Holds
    <2>2. CASE InsertLeaves
      <3>1. PICK count \in 1..MaxBatch :
              /\ tree.size + count <= MaxLeaves /\ Fits(tree, count)
              /\ tree' = InsertMany(tree, NewLeaves(count)) /\ arity' = arity /\ held' = held
        BY <2>2 DEF InsertLeaves
      <3>2. NewLeaves(count) = [i \in 1..count |-> Leaf(tree.size + i)]
        BY DEF NewLeaves
      <3>3. Holds(tree', arity)
        BY <2>0, <3>1, <3>2, InsertManyHolds
      <3>4. QED
        BY <2>0, <3>1, <3>3 DEF IInv, Holds
    <2>3. CASE TreeFull
      BY <2>0, <2>3 DEF TreeFull, vars, IInv, Holds
    <2>4. CASE TakeSnapshot
      <3>1. held' = SnapshotOf(tree) /\ arity' = arity /\ tree' = tree
        BY <2>4 DEF TakeSnapshot, SnapshotOf
      <3>2. held' = tree
        BY <2>0, <3>1, SnapshotIsTree
      <3>3. QED
        BY <2>0, <3>1, <3>2 DEF IInv, Holds
    <2>5. CASE UNCHANGED vars
      BY <2>0, <2>5 DEF vars, IInv, Holds
    <2>6. QED
      BY <2>1, <2>2, <2>3, <2>4, <2>5 DEF Next
  <1>3. QED
    BY <1>1, <1>2, PTL DEF Spec

\* TypeOK follows from the shape alone.
THEOREM TypesAreKept == Spec => []TypeOK
  <1>1. IInv => TypeOK
    <2> SUFFICES ASSUME IInv PROVE TypeOK
      OBVIOUS
    <2>1. ASSUME NEW t, Holds(t, arity)
          PROVE  /\ t.size \in 0..MaxLeaves /\ t.depth \in 0..MaxDepth /\ DOMAIN t.levels = Levels
                 /\ \A l \in Levels : Len(t.levels[l]) <= t.size
      <3> DEFINE leaves == Inserted(t.size)
                 n == arity
      <3>1. /\ n \in Nat \ {0, 1} /\ n \in Nat \ {0} /\ t.size \in Nat /\ t.size \in 0..MaxLeaves
            /\ t.depth <= MaxDepth /\ Shaped(t, leaves, n)
        BY <2>1, ArityFacts, LeanIMTAssumption DEF Holds, IInv
      <3>2. Len(leaves) = t.size
        BY <3>1, InsertedIsSeq
      <3> HIDE DEF leaves
      <3>3. t.depth \in 0..MaxDepth
        BY <3>1, <3>2, DepthBounds, LeanIMTAssumption DEF Shaped
      <3>4. DOMAIN t.levels = Levels
        BY <3>1 DEF Shaped, IsTree
      <3>5. ASSUME NEW l \in Levels PROVE Len(t.levels[l]) <= t.size
        <4>1. l \in Nat
          BY LeanIMTAssumption DEF Levels
        <4>2. Power(n, l) \in Nat \ {0}
          BY <3>1, <4>1, PowerPositive
        <4>3. CeilDiv(t.size, Power(n, l)) <= t.size
          <5>1. ASSUME NEW p \in Nat \ {0}, NEW s \in Nat PROVE CeilDiv(s, p) <= s
            <6>1. CeilDiv(s, p) \in Nat /\ p * CeilDiv(s, p) < s + p
              BY CeilDivBounds
            <6>2. ASSUME NEW c \in Nat, p * c < s + p PROVE c <= s
              <7>1. CASE c = 0
                BY <7>1
              <7>2. CASE c # 0
                <8>1. PICK e \in Nat : c = e + 1
                  BY <7>2
                <8>2. p * c = p * e + p
                  BY <8>1
                <8>3. p * e >= e
                  OBVIOUS
                <8>4. QED
                  BY <6>2, <8>1, <8>2, <8>3
              <7>3. QED
                BY <7>1, <7>2
            <6>3. QED
              BY <6>1, <6>2
          <5>2. QED
            BY <3>1, <4>2, <5>1
        <4>4. QED
          BY <3>1, <3>2, <4>3 DEF Shaped, Stored
      <3>6. QED
        BY <3>1, <3>3, <3>4, <3>5
    <2>2. QED
      BY <2>1 DEF TypeOK, IInv
  <1>2. QED
    BY <1>1, NodesStayRight, PTL

-----------------------------------------------------------------------------
(***************************************************************************)
(* The Merkle tree read from the top down is the one hashed from the       *)
(* leaves up.                                                              *)
(***************************************************************************)
RowOver(total, l, below) ==
    [i \in 0..total |->
       LET first == i * arity
           count == LessOf(arity, LevelSize(total, l - 1) - first)
       IN IF count = 1 THEN below[first] ELSE HashChildren([k \in 1..count |-> below[first + k - 1]])]

RowTable(f, total, level) ==
    f = [l \in 0..level |-> IF l = 0 THEN [i \in 0..total |-> Leaf(i + 1)] ELSE RowOver(total, l, f[l - 1])]

LEMMA RowTableExists ==
    ASSUME NEW total, NEW level \in Nat
    PROVE  \E f : RowTable(f, total, level)
  <1> DEFINE base == [i \in 0..total |-> Leaf(i + 1)]
             Good == {m \in Nat : \E f : RowTable(f, total, m)}
  <1>0. ASSUME NEW f, NEW m \in Nat
        PROVE  RowTable(f, total, m) <=>
                 f = [l \in 0..m |-> IF l = 0 THEN base ELSE RowOver(total, l, f[l - 1])]
    BY DEF RowTable
  <1> HIDE DEF base
  <1>1. 0 \in Good
    <2> DEFINE g == [k \in 0..0 |-> base]
    <2>1. g = [l \in 0..0 |-> IF l = 0 THEN base ELSE RowOver(total, l, g[l - 1])]
      OBVIOUS
    <2> HIDE DEF g
    <2>2. RowTable(g, total, 0)
      BY <1>0, <2>1
    <2>3. QED
      BY <2>2, Zenon
  <1>2. ASSUME NEW m \in Nat, m \in Good PROVE m + 1 \in Good
    <2>1. PICK f : RowTable(f, total, m)
      BY <1>2, Zenon
    <2> DEFINE g == [k \in 0..m + 1 |-> IF k = m + 1 THEN RowOver(total, m + 1, f[m]) ELSE f[k]]
    <2>2. f = [l \in 0..m |-> IF l = 0 THEN base ELSE RowOver(total, l, f[l - 1])]
      BY <1>0, <2>1
    <2>3. ASSUME NEW k \in 0..m + 1 PROVE g[k] = IF k = 0 THEN base ELSE RowOver(total, k, g[k - 1])
      BY <2>2
    <2>4. g = [l \in 0..m + 1 |-> IF l = 0 THEN base ELSE RowOver(total, l, g[l - 1])]
      BY <2>3
    <2>5. m + 1 \in Nat
      OBVIOUS
    <2> HIDE DEF g
    <2>6. RowTable(g, total, m + 1)
      BY <1>0, <2>4, <2>5
    <2>7. QED
      BY <2>5, <2>6
  <1>3. level \in Good
    BY <1>1, <1>2, Inductive
  <1>4. QED
    BY <1>3

LEMMA MerkleNodeInTable ==
    ASSUME NEW total, NEW level \in Nat, NEW index
    PROVE  \E f : RowTable(f, total, level) /\ MerkleNode(total, level, index) = f[level][index]
  <1> DEFINE step(f) == [l \in 0..level |->
               [i \in 0..total |->
               IF l = 0 THEN Leaf(i + 1)
               ELSE LET first == i * arity
                        count == LessOf(arity, LevelSize(total, l - 1) - first)
                    IN IF count = 1 THEN f[l - 1][first]
                       ELSE HashChildren([k \in 1..count |-> f[l - 1][first + k - 1]])]]
             chosen == CHOOSE f : f = step(f)
  <1>1. ASSUME NEW f PROVE RowTable(f, total, level) <=> f = step(f)
    <2>1. ASSUME NEW l \in 0..level
          PROVE  step(f)[l] = IF l = 0 THEN [i \in 0..total |-> Leaf(i + 1)] ELSE RowOver(total, l, f[l - 1])
      <3>1. CASE l = 0
        BY <3>1
      <3>2. CASE l # 0
        BY <3>2 DEF RowOver
      <3>3. QED
        BY <3>1, <3>2
    <2>2. step(f) = [l \in 0..level |-> IF l = 0 THEN [i \in 0..total |-> Leaf(i + 1)]
                                        ELSE RowOver(total, l, f[l - 1])]
      <3>1. step(f) = [l \in 0..level |-> step(f)[l]]
        OBVIOUS
      <3> HIDE DEF step
      <3>2. QED
        BY <2>1, <3>1
    <2> HIDE DEF step
    <2>3. QED
      BY <2>2 DEF RowTable
  <1>2. MerkleNode(total, level, index) = chosen[level][index]
    BY DEF MerkleNode
  <1> HIDE DEF step
  <1>3. \E f : f = step(f)
    BY <1>1, RowTableExists
  <1>4. chosen = step(chosen)
    BY <1>3, Zenon
  <1> HIDE DEF chosen
  <1>5. RowTable(chosen, total, level)
    BY <1>1, <1>4
  <1>6. QED
    BY <1>2, <1>5

LEMMA LevelSizeBounds ==
    ASSUME arity \in Nat \ {0, 1}, NEW total \in Nat, NEW l \in Nat
    PROVE  LevelSize(total, l) \in Nat /\ LevelSize(total, l) <= total
           /\ LevelSize(total, l) = CeilDiv(total, Power(arity, l))
  <1> DEFINE P == Power(arity, l)
             c == CeilDiv(total, P)
  <1>1. P \in Nat \ {0}
    BY PowerPositive
  <1>2. c \in Nat /\ P * c < total + P
    BY <1>1, CeilDivBounds
  <1>3. LevelSize(total, l) = c
    BY DEF LevelSize, Span
  <1> HIDE DEF P, c
  <1>4. c <= total
    <2>1. SUFFICES ASSUME c >= total + 1 PROVE FALSE
      BY <1>2
    <2>2. P * c >= P * (total + 1) /\ P * (total + 1) = P * total + P /\ P * total \in Nat /\ P * c \in Nat
          /\ P * total >= total
      BY <1>1, <1>2, <2>1
    <2>3. QED
      BY <1>1, <1>2, <2>2
  <1>5. QED
    BY <1>2, <1>3, <1>4 DEF c, P

LEMMA RowIsLayer ==
    ASSUME arity \in Nat \ {0, 1}, NEW total \in Nat, NEW level \in Nat, NEW f, RowTable(f, total, level)
    PROVE  \A l \in 0..level : \A i \in Nat :
             i < LevelSize(total, l) => f[l][i] = Layer(Inserted(total), l, arity)[i + 1]
  <1> DEFINE n == arity
             leaves == Inserted(total)
             same(l) == \A i \in Nat : i < LevelSize(total, l) => f[l][i] = Layer(leaves, l, n)[i + 1]
             Good == {l \in Nat : l <= level => same(l)}
  <1>0. /\ IsSeq(leaves) /\ Len(leaves) = total /\ n \in Nat /\ n \in Nat \ {0}
        /\ \A i \in 1..total : leaves[i] = Leaf(i)
    <2>1. IsSeq(leaves) /\ Len(leaves) = total
      BY InsertedIsSeq
    <2>2. \A i \in 1..total : leaves[i] = Leaf(i)
      BY DEF Inserted
    <2>3. QED
      BY <2>1, <2>2
  <1>1. /\ f[0] = [i \in 0..total |-> Leaf(i + 1)]
        /\ \A l \in 0..level - 1 : f[l + 1] = RowOver(total, l + 1, f[l])
    <2>1. ASSUME NEW l \in 0..level
          PROVE  f[l] = IF l = 0 THEN [i \in 0..total |-> Leaf(i + 1)] ELSE RowOver(total, l, f[l - 1])
      BY DEF RowTable
    <2>2. \A l \in 0..level - 1 : l + 1 \in 0..level /\ l + 1 # 0 /\ l + 1 - 1 = l
      OBVIOUS
    <2>3. ASSUME NEW l \in 0..level - 1 PROVE f[l + 1] = RowOver(total, l + 1, f[l + 1 - 1])
      <3>1. ASSUME NEW m \in 0..level, m # 0 PROVE f[m] = RowOver(total, m, f[m - 1])
        BY <2>1, <3>1
      <3>2. QED
        BY <2>2, <3>1
    <2>4. 0 \in 0..level
      OBVIOUS
    <2>5. QED
      BY <2>1, <2>2, <2>3, <2>4
  <1> HIDE DEF leaves
  <1>2. same(0)
    <2>1. Layer(leaves, 0, n) = leaves /\ Power(n, 0) = 1
      BY <1>0, LayerSteps, PowerSteps
    <2>2. LevelSize(total, 0) <= total /\ LevelSize(total, 0) \in Nat
      BY LevelSizeBounds
    <2>3. ASSUME NEW i \in Nat, i < LevelSize(total, 0) PROVE f[0][i] = leaves[i + 1]
      <3>1. i \in 0..total /\ i + 1 \in 1..total
        BY <2>2, <2>3
      <3>2. QED
        BY <1>0, <1>1, <3>1
    <2>4. QED
      BY <2>1, <2>3
  <1>3. ASSUME NEW l \in 0..level - 1, same(l) PROVE same(l + 1)
    <2>1. l \in Nat /\ l + 1 \in Nat /\ l + 1 - 1 = l
      OBVIOUS
    <2> DEFINE B == Layer(leaves, l, n)
               len == LevelSize(total, l)
    <2>2. IsSeq(B) /\ Len(B) = len /\ len \in Nat /\ len <= total
      <3>1. IsSeq(B) /\ Len(B) = CeilDiv(Len(leaves), Power(n, l))
        BY <1>0, <2>1, LayerIsSeq
      <3>2. len \in Nat /\ len <= total /\ len = CeilDiv(total, Power(n, l))
        BY <2>1, LevelSizeBounds
      <3>3. QED
        BY <1>0, <3>1, <3>2
    <2>3. LevelSize(total, l + 1) \in Nat /\ LevelSize(total, l + 1) <= total
          /\ LevelSize(total, l + 1) = CeilDiv(total, Power(n, l + 1))
      BY <2>1, LevelSizeBounds
    <2>4. f[l + 1] = RowOver(total, l + 1, f[l])
      BY <1>1
    <2> HIDE DEF B, len
    <2>5. ASSUME NEW i \in Nat, i < LevelSize(total, l + 1)
          PROVE  f[l + 1][i] = Layer(leaves, l + 1, n)[i + 1]
      <3> DEFINE first == i * n
                 count == LessOf(n, len - first)
                 g == Group(B, i, n)
                 row == [k \in 1..count |-> f[l][first + k - 1]]
      <3>1. i \in 0..total
        BY <2>3, <2>5
      <3>2. f[l + 1][i] = IF count = 1 THEN f[l][first] ELSE row
        BY <2>1, <2>4, <3>1 DEF RowOver, HashChildren, len
      <3>3. Layer(leaves, l + 1, n)[i + 1] = GroupHash(g) /\ first < Len(B)
        <4>1. i < CeilDiv(Len(leaves), Power(n, l + 1))
          BY <1>0, <2>3, <2>5
        <4>2. QED
          BY <1>0, <2>1, <4>1, LayerNode DEF B
      <3>4. IsSeq(g) /\ Len(g) = GroupLen(B, i, n) /\ Copies(g, B, first)
        <4>1. Starts(B, i, n)
          BY <2>2, <3>3 DEF Starts, IsSeq
        <4>2. QED
          BY <1>0, <2>2, <4>1, GroupCopies
      <3>5. first \in Nat
        BY <1>0
      <3>6. Len(g) = count
        BY <2>2, <3>4 DEF GroupLen
      <3>7. \A k \in 1..count : g[k] = B[first + k]
        BY <3>4, <3>6 DEF Copies
      <3> HIDE DEF first, g
      <3>8. count \in Nat /\ count >= 1 /\ first + count <= len
        BY <1>0, <2>2, <3>3, <3>5 DEF LessOf
      <3> HIDE DEF count
      <3>9. ASSUME NEW k \in 1..count PROVE f[l][first + k - 1] = B[first + k]
        <4>1. first + k - 1 \in Nat /\ first + k - 1 < len /\ first + k - 1 + 1 = first + k
          BY <2>2, <3>5, <3>8
        <4>2. \A j \in Nat : j < len => f[l][j] = B[j + 1]
          BY <1>3 DEF B, len
        <4>3. f[l][first + k - 1] = B[first + k - 1 + 1]
          BY <4>1, <4>2, Zenon
        <4>4. QED
          BY <4>1, <4>3
      <3>10. CASE count = 1
        <4>1. GroupHash(g) = g[1]
          BY <3>6, <3>10 DEF GroupHash
        <4>2. 1 \in 1..count /\ first + 1 - 1 = first
          BY <3>5, <3>10
        <4>3. QED
          BY <3>2, <3>3, <3>7, <3>9, <3>10, <4>1, <4>2
      <3>11. CASE count # 1
        <4>1. GroupHash(g) = g
          BY <3>6, <3>11 DEF GroupHash, HashChildren
        <4>2. row = [k \in 1..count |-> row[k]]
          OBVIOUS
        <4>3. \A k \in 1..count : row[k] = g[k]
          BY <3>7, <3>9
        <4> HIDE DEF row
        <4>4. IsSeq(row) /\ Len(row) = count
          BY <3>8, <4>2, TableIsSeq
        <4>5. row = g
          BY <3>4, <3>6, <4>3, <4>4, SeqEqual2
        <4>6. QED
          BY <3>2, <3>3, <3>11, <4>1, <4>5
      <3>12. QED
        BY <3>10, <3>11
    <2>6. QED
      BY <2>5
  <1> HIDE DEF same
  <1>4. 0 \in Good
    BY <1>2
  <1>5. ASSUME NEW l \in Nat, l \in Good PROVE l + 1 \in Good
    BY <1>3, <1>5
  <1>6. \A l \in Nat : l \in Good
    <2> HIDE DEF Good
    <2>1. QED
      BY <1>4, <1>5, Inductive
  <1>7. \A l \in 0..level : same(l)
    BY <1>6
  <1>8. QED
    BY <1>7 DEF same, leaves

LEMMA MerkleNodeIsNode ==
    ASSUME arity \in Nat \ {0, 1}, NEW total \in Nat, NEW l \in Nat, NEW i \in Nat, i < LevelSize(total, l)
    PROVE  MerkleNode(total, l, i) = Layer(Inserted(total), l, arity)[i + 1]
  <1>1. PICK f : RowTable(f, total, l) /\ MerkleNode(total, l, i) = f[l][i]
    BY MerkleNodeInTable
  <1>2. l \in 0..l
    OBVIOUS
  <1>3. QED
    BY <1>1, <1>2, RowIsLayer

LEMMA NodesAreMerkle ==
    ASSUME arity \in Arities, Holds(tree, arity)
    PROVE  LevelsAreHashes
  <1> DEFINE n == arity
             size == tree.size
             depth == tree.depth
             leaves == Inserted(size)
  <1>0. /\ n \in Nat \ {0, 1} /\ size \in Nat /\ depth <= MaxDepth /\ Shaped(tree, leaves, n)
        /\ Right(tree, leaves, n) /\ tree.root = RootOf(leaves, n)
    BY ArityFacts, LeanIMTAssumption DEF Holds
  <1>1. IsSeq(leaves) /\ Len(leaves) = size
    BY <1>0, InsertedIsSeq
  <1> HIDE DEF leaves
  <1>2. SUFFICES ASSUME size > 0 PROVE LevelsAreHashes
    BY DEF LevelsAreHashes
  <1>3. depth = CeilLogN(size, n)
    BY <1>0, <1>1 DEF Shaped
  <1>4. depth \in Nat /\ LevelSize(size, depth) = 1
    <2>1. 0 \in Nat /\ 0 < size
      BY <1>0, <1>2
    <2>2. depth \in Nat /\ CeilDiv(size, Power(n, depth)) = 1
      BY <1>0, <1>3, <2>1, TopNode
    <2>3. QED
      BY <2>2 DEF LevelSize, Span
  <1>5. ASSUME depth > 0 PROVE LevelSize(size, depth - 1) > 1
    <2> DEFINE P == Power(n, depth - 1)
               c == LevelSize(size, depth - 1)
    <2>1. P < size
      BY <1>0, <1>3, <1>5, DepthBounds
    <2>2. depth - 1 \in Nat
      BY <1>4, <1>5
    <2>3. P \in Nat \ {0}
      BY <1>0, <2>2, PowerPositive
    <2>4. CeilDiv(size, P) \in Nat /\ size <= P * CeilDiv(size, P)
      BY <1>0, <2>3, CeilDivBounds
    <2>5. c = CeilDiv(size, P)
      BY DEF LevelSize, Span
    <2> HIDE DEF P, c
    <2>6. ASSUME NEW x \in Nat, size <= P * x PROVE x > 1
      <3>1. CASE x = 0
        BY <1>0, <1>2, <2>3, <2>6, <3>1
      <3>2. CASE x = 1
        BY <1>0, <2>1, <2>3, <2>6, <3>2
      <3>3. QED
        BY <3>1, <3>2
    <2>7. c > 1
      BY <2>4, <2>5, <2>6
    <2>8. QED
      BY <2>7 DEF c
  <1>6. ASSUME NEW l \in Levels, l <= depth
        PROVE  tree.levels[l] = [i \in 1..LevelSize(size, l) |-> MerkleNode(size, l, i - 1)]
    <2> DEFINE level == tree.levels[l]
               len == LevelSize(size, l)
    <2>1. l \in Nat
      BY LeanIMTAssumption DEF Levels
    <2>2. len \in Nat /\ len = CeilDiv(size, Power(n, l))
      BY <1>0, <2>1, LevelSizeBounds
    <2>3. IsSeq(level) /\ Len(level) = len
      BY <1>0, <1>1, <1>3, <1>6, <2>2 DEF Shaped, IsTree, Stored
    <2>4. \A k \in 1..len : level[k] = Layer(leaves, l, n)[k]
      BY <1>0, <2>3 DEF Right
    <2>5. ASSUME NEW i \in 1..len PROVE level[i] = MerkleNode(size, l, i - 1)
      <3>1. i - 1 \in Nat /\ i - 1 < len /\ i - 1 + 1 = i
        BY <2>2
      <3>2. ASSUME NEW j \in Nat, j < len PROVE MerkleNode(size, l, j) = Layer(leaves, l, n)[j + 1]
        BY <1>0, <2>1, <3>2, MerkleNodeIsNode DEF leaves
      <3>3. MerkleNode(size, l, i - 1) = Layer(leaves, l, n)[i - 1 + 1]
        BY <3>1, <3>2, Zenon
      <3>4. QED
        BY <2>4, <3>1, <3>3
    <2> HIDE DEF level, len
    <2>6. level = [i \in 1..len |-> level[i]]
      BY <2>3 DEF IsSeq
    <2>7. level = [i \in 1..len |-> MerkleNode(size, l, i - 1)]
      BY <2>5, <2>6, Zenon
    <2>8. QED
      BY <2>7 DEF level, len
  <1>7. tree.root = MerkleNode(size, depth, 0)
    <2>1. tree.root = Layer(leaves, depth, n)[1]
      BY <1>0, <1>1, <1>2, <1>3 DEF RootOf
    <2>2. MerkleNode(size, depth, 0) = Layer(leaves, depth, n)[0 + 1]
      <3>1. 0 \in Nat /\ 0 < LevelSize(size, depth)
        BY <1>4
      <3>2. QED
        BY <1>0, <1>4, <3>1, MerkleNodeIsNode DEF leaves
    <2>3. QED
      BY <2>1, <2>2
  <1>8. RecomputeRoot(tree) = tree.root
    <2>1. tree.levels[0] = leaves /\ tree.size = Len(leaves) /\ tree.depth = CeilLogN(Len(leaves), n)
      BY <1>0 DEF Shaped
    <2>2. QED
      BY <1>0, <1>1, <2>1, RecomputedRoot
  <1>9. QED
    BY <1>4, <1>5, <1>6, <1>7, <1>8 DEF LevelsAreHashes

\* However single and batch inserts are mixed, every stored node, the root and the
\* recomputed root are those of the Merkle tree over the leaves, and the depth is
\* the least with a single node on top (insert, insert_many, ceil_log_n).
THEOREM TreeIsMerkle == Spec => []LevelsAreHashes
  <1>1. IInv => LevelsAreHashes
    BY NodesAreMerkle DEF IInv
  <1>2. QED
    BY <1>1, NodesStayRight, PTL

-----------------------------------------------------------------------------
(***************************************************************************)
(* Inclusion proofs: the siblings of a path, put together again with the   *)
(* path's own node, are the groups it passes through.                      *)
(***************************************************************************)
Put(siblings, pos, node) ==
    SubSeq(siblings, 1, pos) \o <<node>> \o SubSeq(siblings, pos + 1, Len(siblings))

LEMMA SiblingsOfGroup ==
    ASSUME NEW group, IsSeq(group), NEW pos \in Nat, pos < Len(group)
    PROVE  /\ IsSeq(Siblings(group, pos)) /\ Len(Siblings(group, pos)) = Len(group) - 1
           /\ \A j \in 1..Len(group) - 1 :
                Siblings(group, pos)[j] = IF j <= pos THEN group[j] ELSE group[j + 1]
  <1> DEFINE len == Len(group)
             a == SubSeq(group, 1, pos)
             b == SubSeq(group, pos + 2, len)
  <1>0. len \in Nat /\ len - 1 \in Nat
    BY DEF IsSeq
  <1>1. IsSeq(a) /\ Len(a) = pos /\ \A j \in 1..pos : a[j] = group[j]
    <2>1. IsSeq(a) /\ Len(a) = pos - 1 + 1 /\ \A j \in 1..pos - 1 + 1 : a[j] = group[1 + j - 1]
      BY <1>0, SubSeqIsSeq
    <2>2. pos - 1 + 1 = pos /\ \A j \in 1..pos : 1 + j - 1 = j
      OBVIOUS
    <2> HIDE DEF a
    <2>3. QED
      BY <2>1, <2>2
  <1>2. IsSeq(b) /\ Len(b) = len - pos - 1 /\ \A j \in 1..len - pos - 1 : b[j] = group[pos + j + 1]
    <2>1. IsSeq(b) /\ Len(b) = len - (pos + 2) + 1 /\ \A j \in 1..len - (pos + 2) + 1 : b[j] = group[pos + 2 + j - 1]
      BY <1>0, SubSeqIsSeq
    <2>2. len - (pos + 2) + 1 = len - pos - 1 /\ \A j \in 1..len - pos - 1 : pos + 2 + j - 1 = pos + j + 1
      BY <1>0
    <2> HIDE DEF b
    <2>3. QED
      BY <2>1, <2>2
  <1>3. Siblings(group, pos) = a \o b
    BY DEF Siblings
  <1> HIDE DEF a, b, len
  <1>4. /\ IsSeq(a \o b) /\ Len(a \o b) = len - 1
        /\ \A j \in 1..len - 1 : (a \o b)[j] = IF j <= pos THEN a[j] ELSE b[j - pos]
    <2>1. /\ IsSeq(a \o b) /\ Len(a \o b) = Len(a) + Len(b)
          /\ \A j \in 1..Len(a) + Len(b) : (a \o b)[j] = IF j <= Len(a) THEN a[j] ELSE b[j - Len(a)]
      BY <1>1, <1>2, ConcatIsSeq
    <2>2. Len(a) + Len(b) = len - 1
      BY <1>0, <1>1, <1>2
    <2>3. QED
      BY <1>1, <2>1, <2>2
  <1>5. ASSUME NEW j \in 1..len - 1 PROVE (a \o b)[j] = IF j <= pos THEN group[j] ELSE group[j + 1]
    <2>1. CASE j <= pos
      <3>1. j \in 1..pos
        BY <1>0, <2>1
      <3>2. QED
        BY <1>1, <1>4, <2>1, <3>1
    <2>2. CASE ~(j <= pos)
      <3>1. j - pos \in 1..len - pos - 1 /\ pos + (j - pos) + 1 = j + 1
        BY <1>0, <2>2
      <3>2. b[j - pos] = group[pos + (j - pos) + 1]
        BY <1>2, <3>1, Zenon
      <3>3. QED
        BY <1>4, <2>2, <3>1, <3>2
    <2>3. QED
      BY <2>1, <2>2
  <1>6. QED
    BY <1>3, <1>4, <1>5 DEF len

LEMMA PutIsSeq ==
    ASSUME NEW sib, IsSeq(sib), NEW pos \in Nat, pos <= Len(sib), NEW node
    PROVE  /\ IsSeq(Put(sib, pos, node)) /\ Len(Put(sib, pos, node)) = Len(sib) + 1
           /\ \A j \in 1..Len(sib) + 1 : Put(sib, pos, node)[j] =
                IF j <= pos THEN sib[j] ELSE IF j = pos + 1 THEN node ELSE sib[j - 1]
  <1> DEFINE len == Len(sib)
             a == SubSeq(sib, 1, pos)
             e == <<node>>
             b == SubSeq(sib, pos + 1, len)
             ae == a \o e
             s == ae \o b
  <1>0. len \in Nat
    BY DEF IsSeq
  <1>1. IsSeq(a) /\ Len(a) = pos /\ \A j \in 1..pos : a[j] = sib[j]
    <2>1. IsSeq(a) /\ Len(a) = pos - 1 + 1 /\ \A j \in 1..pos - 1 + 1 : a[j] = sib[1 + j - 1]
      BY <1>0, SubSeqIsSeq
    <2>2. pos - 1 + 1 = pos /\ \A j \in 1..pos : 1 + j - 1 = j
      OBVIOUS
    <2> HIDE DEF a
    <2>3. QED
      BY <2>1, <2>2
  <1>2. IsSeq(b) /\ Len(b) = len - pos /\ \A j \in 1..len - pos : b[j] = sib[pos + j]
    <2>1. IsSeq(b) /\ Len(b) = len - (pos + 1) + 1 /\ \A j \in 1..len - (pos + 1) + 1 : b[j] = sib[pos + 1 + j - 1]
      BY <1>0, SubSeqIsSeq, SMTT(30)
    <2>2. len - (pos + 1) + 1 = len - pos /\ \A j \in 1..len - pos : pos + 1 + j - 1 = pos + j
      BY <1>0
    <2> HIDE DEF b
    <2>3. QED
      BY <2>1, <2>2
  <1>3. IsSeq(e) /\ Len(e) = 1 /\ e[1] = node
    BY OneIsSeq
  <1>4. Put(sib, pos, node) = s
    BY DEF Put
  <1> HIDE DEF a, b, len, e
  <1>5. /\ IsSeq(ae) /\ Len(ae) = pos + 1
        /\ \A j \in 1..pos + 1 : ae[j] = IF j <= pos THEN a[j] ELSE e[j - pos]
    <2>1. /\ IsSeq(ae) /\ Len(ae) = Len(a) + Len(e)
          /\ \A j \in 1..Len(a) + Len(e) : ae[j] = IF j <= Len(a) THEN a[j] ELSE e[j - Len(a)]
      BY <1>1, <1>3, ConcatIsSeq
    <2> HIDE DEF ae
    <2>2. QED
      BY <1>1, <1>3, <2>1
  <1> HIDE DEF ae
  <1>6. /\ IsSeq(s) /\ Len(s) = len + 1
        /\ \A j \in 1..len + 1 : s[j] = IF j <= pos + 1 THEN ae[j] ELSE b[j - (pos + 1)]
    <2>1. /\ IsSeq(s) /\ Len(s) = Len(ae) + Len(b)
          /\ \A j \in 1..Len(ae) + Len(b) : s[j] = IF j <= Len(ae) THEN ae[j] ELSE b[j - Len(ae)]
      BY <1>2, <1>5, ConcatIsSeq
    <2>2. Len(ae) + Len(b) = len + 1
      BY <1>0, <1>2, <1>5
    <2> HIDE DEF s
    <2>3. QED
      BY <1>5, <2>1, <2>2
  <1> HIDE DEF s
  <1>7. ASSUME NEW j \in 1..len + 1
        PROVE  s[j] = IF j <= pos THEN sib[j] ELSE IF j = pos + 1 THEN node ELSE sib[j - 1]
    <2>1. CASE j <= pos
      <3>1. j \in 1..pos /\ j \in 1..pos + 1 /\ j <= pos + 1
        BY <1>0, <2>1
      <3>2. QED
        BY <1>1, <1>5, <1>6, <2>1, <3>1
    <2>2. CASE j = pos + 1
      <3>1. ~(j <= pos) /\ j \in 1..pos + 1 /\ j <= pos + 1 /\ j - pos = 1
        BY <1>0, <2>2
      <3>2. QED
        BY <1>3, <1>5, <1>6, <2>2, <3>1
    <2>3. CASE j > pos + 1
      <3>1. j - (pos + 1) \in 1..len - pos /\ pos + (j - (pos + 1)) = j - 1 /\ ~(j <= pos + 1)
            /\ ~(j <= pos) /\ j # pos + 1
        BY <1>0, <2>3
      <3>2. b[j - (pos + 1)] = sib[pos + (j - (pos + 1))]
        BY <1>2, <3>1, Zenon
      <3>3. QED
        BY <1>6, <3>1, <3>2
    <2>4. QED
      BY <1>0, <2>1, <2>2, <2>3
  <1>8. QED
    BY <1>4, <1>6, <1>7 DEF len

\* The siblings with a node in the gap: the group with that node in its place.
LEMMA PutSiblings ==
    ASSUME NEW group, IsSeq(group), NEW pos \in Nat, pos < Len(group), NEW node
    PROVE  /\ IsSeq(Put(Siblings(group, pos), pos, node))
           /\ Len(Put(Siblings(group, pos), pos, node)) = Len(group)
           /\ Put(Siblings(group, pos), pos, node)[pos + 1] = node
           /\ node = group[pos + 1] => Put(Siblings(group, pos), pos, node) = group
  <1> DEFINE sib == Siblings(group, pos)
             len == Len(group)
             s == Put(sib, pos, node)
  <1>0. len \in Nat /\ len - 1 + 1 = len /\ pos + 1 \in 1..len /\ pos <= len - 1
    BY DEF IsSeq
  <1>1. /\ IsSeq(sib) /\ Len(sib) = len - 1
        /\ \A j \in 1..len - 1 : sib[j] = IF j <= pos THEN group[j] ELSE group[j + 1]
    BY SiblingsOfGroup
  <1> HIDE DEF sib, len
  <1>2. /\ IsSeq(s) /\ Len(s) = Len(sib) + 1
        /\ \A j \in 1..Len(sib) + 1 : s[j] =
             IF j <= pos THEN sib[j] ELSE IF j = pos + 1 THEN node ELSE sib[j - 1]
    BY <1>0, <1>1, PutIsSeq
  <1> HIDE DEF s
  <1>3. Len(s) = len /\ \A j \in 1..len : s[j] =
             IF j <= pos THEN sib[j] ELSE IF j = pos + 1 THEN node ELSE sib[j - 1]
    BY <1>0, <1>1, <1>2
  <1>4. s[pos + 1] = node
    BY <1>0, <1>3
  <1>5. ASSUME node = group[pos + 1] PROVE s = group
    <2>1. ASSUME NEW j \in 1..len PROVE s[j] = group[j]
      <3>1. CASE j <= pos
        <4>1. j \in 1..len - 1
          BY <1>0, <3>1
        <4>2. QED
          BY <1>1, <1>3, <3>1, <4>1
      <3>2. CASE j = pos + 1
        BY <1>4, <1>5, <3>2
      <3>3. CASE j > pos + 1
        <4>1. j - 1 \in 1..len - 1 /\ ~(j - 1 <= pos) /\ j - 1 + 1 = j /\ ~(j <= pos) /\ j # pos + 1
          BY <1>0, <3>3
        <4>2. sib[j - 1] = group[j - 1 + 1]
          BY <1>1, <4>1
        <4>3. QED
          BY <1>3, <4>1, <4>2
      <3>4. QED
        BY <1>0, <3>1, <3>2, <3>3
    <2>2. QED
      BY <1>2, <1>3, <2>1, SeqEqual2 DEF len
  <1>6. QED
    BY <1>2, <1>3, <1>4, <1>5 DEF s, sib, len

\* The node over leaf i in level l.
PathNode(leaves, i, l, n) == Layer(leaves, l, n)[i \div Power(n, l) + 1]

OnPath(at, group, pos, leaves, i, l, n) ==
    /\ at = i \div Power(n, l) /\ pos = at % n
    /\ group = Group(Layer(leaves, l, n), at \div n, n)

\* The group a path passes through, and where in it the path's node is.
LEMMA PathGroup ==
    ASSUME NEW n \in Nat \ {0, 1}, NEW leaves, IsSeq(leaves), NEW i \in Nat, i < Len(leaves),
           NEW l \in Nat, NEW at, NEW group, NEW pos, OnPath(at, group, pos, leaves, i, l, n)
    PROVE  /\ IsSeq(group) /\ pos \in Nat /\ pos < Len(group) /\ Len(group) <= n
           /\ group[pos + 1] = PathNode(leaves, i, l, n)
           /\ GroupHash(group) = PathNode(leaves, i, l + 1, n)
  <1> DEFINE P == Power(n, l)
             B == Layer(leaves, l, n)
             q == at \div n
             z == q * n
  <1>0. Len(leaves) \in Nat /\ n \in Nat /\ n \in Nat \ {0} /\ l + 1 \in Nat
    BY DEF IsSeq
  <1>1. P \in Nat \ {0} /\ Power(n, l + 1) = n * P
    BY <1>0, PowerSteps, PowerPositive
  <1>2. at \in Nat /\ at < CeilDiv(Len(leaves), P)
    <2>1. at \in Nat
      BY <1>1, DivBounds DEF OnPath
    <2>2. i \div Power(n, l) < CeilDiv(Len(leaves), Power(n, l))
      BY <1>0, DirtyFacts
    <2>3. QED
      BY <2>1, <2>2 DEF OnPath
  <1>3. q \in Nat /\ pos \in 0..n - 1 /\ at = z + pos /\ z \in Nat /\ z <= at
    <2>1. q = at \div n /\ pos = at % n /\ at \in Nat /\ n \in Nat \ {0}
      BY <1>0, <1>2 DEF OnPath
    <2>2. at \div n \in Nat /\ at % n \in 0..n - 1 /\ at = (at \div n) * n + (at % n)
      BY <2>1, DivBounds
    <2>3. q \in Nat /\ pos \in 0..n - 1 /\ at = q * n + pos
      BY <2>1, <2>2, Zenon
    <2> HIDE DEF q
    <2>4. q * n \in Nat
      BY <1>0, <2>3
    <2>5. QED
      BY <1>2, <2>3, <2>4
  <1>4. i \div Power(n, l + 1) = q /\ q < CeilDiv(Len(leaves), Power(n, l + 1))
    <2>1. i \div (n * P) = (i \div P) \div n
      BY <1>0, <1>1, DivNested
    <2>2. i \div Power(n, l + 1) < CeilDiv(Len(leaves), Power(n, l + 1))
      BY <1>0, DirtyFacts
    <2>3. i \div Power(n, l + 1) = q
      BY <1>1, <2>1 DEF OnPath
    <2>4. QED
      BY <2>2, <2>3
  <1>5. IsSeq(B) /\ Len(B) \in Nat /\ at < Len(B)
    BY <1>0, <1>2, LayerIsSeq DEF IsSeq
  <1>6. group = Group(B, q, n)
    BY DEF OnPath
  <1>7. Layer(leaves, l + 1, n)[q + 1] = GroupHash(group)
    BY <1>3, <1>4, <1>6, LayerNode
  <1> HIDE DEF B, q
  <1>8. IsSeq(group) /\ Len(group) = GroupLen(B, q, n) /\ Copies(group, B, z)
    <2>1. Starts(B, q, n)
      BY <1>3, <1>5 DEF Starts
    <2>2. QED
      BY <1>0, <1>3, <1>5, <1>6, <2>1, GroupCopies
  <1>9. Len(group) = LessOf(n, Len(B) - z)
    BY <1>8 DEF GroupLen
  <1> HIDE DEF z
  <1>10. Len(group) \in Nat /\ pos \in Nat /\ pos < Len(group) /\ Len(group) <= n
         /\ pos + 1 \in 1..Len(group) /\ z + (pos + 1) = at + 1
    <2> DEFINE len == Len(B)
               m == Len(group)
    <2>1. n \in Nat \ {0} /\ z \in Nat /\ pos \in 0..n - 1 /\ at = z + pos /\ len \in Nat /\ at < len
          /\ m = LessOf(n, len - z)
      BY <1>0, <1>3, <1>5, <1>9
    <2> HIDE DEF len, m
    <2>2. /\ m \in Nat /\ pos \in Nat /\ pos < m /\ m <= n
          /\ pos + 1 \in 1..m /\ z + (pos + 1) = at + 1
      BY <2>1 DEF LessOf
    <2>3. QED
      BY <2>2 DEF m
  <1>11. group[pos + 1] = B[at + 1]
    <2>1. pos + 1 \in 1..Len(group) /\ z + (pos + 1) = at + 1
      BY <1>10
    <2>2. group[pos + 1] = B[z + (pos + 1)]
      BY <1>8, <2>1, Zenon DEF Copies
    <2>3. QED
      BY <2>1, <2>2, Zenon
  <1>12. PathNode(leaves, i, l, n) = B[at + 1] /\ PathNode(leaves, i, l + 1, n) = Layer(leaves, l + 1, n)[q + 1]
    BY <1>4, Zenon DEF PathNode, B, OnPath
  <1>13. QED
    BY <1>7, <1>8, <1>10, <1>11, <1>12, Zenon

ClimbTable(f, leaf, levels, depth) ==
    f = [k \in 0..depth |-> IF k = 0 THEN leaf
                            ELSE GroupHash(Put(levels[k].siblings, levels[k].position, f[k - 1]))]

LEMMA ClimbTableExists ==
    ASSUME NEW leaf, NEW levels, NEW depth \in Nat
    PROVE  \E f : ClimbTable(f, leaf, levels, depth)
  <1> DEFINE over(k, node) == GroupHash(Put(levels[k].siblings, levels[k].position, node))
             Good == {m \in Nat : \E f : ClimbTable(f, leaf, levels, m)}
  <1>0. ASSUME NEW f, NEW m \in Nat
        PROVE  ClimbTable(f, leaf, levels, m) <=>
                 f = [k \in 0..m |-> IF k = 0 THEN leaf ELSE over(k, f[k - 1])]
    BY DEF ClimbTable
  <1> HIDE DEF over
  <1>1. 0 \in Good
    <2> DEFINE g == [k \in 0..0 |-> leaf]
    <2>1. g = [k \in 0..0 |-> IF k = 0 THEN leaf ELSE over(k, g[k - 1])]
      OBVIOUS
    <2> HIDE DEF g
    <2>2. ClimbTable(g, leaf, levels, 0)
      BY <1>0, <2>1
    <2>3. QED
      BY <2>2, Zenon
  <1>2. ASSUME NEW m \in Nat, m \in Good PROVE m + 1 \in Good
    <2>1. PICK f : ClimbTable(f, leaf, levels, m)
      BY <1>2, Zenon
    <2> DEFINE g == [k \in 0..m + 1 |-> IF k = m + 1 THEN over(m + 1, f[m]) ELSE f[k]]
    <2>2. f = [k \in 0..m |-> IF k = 0 THEN leaf ELSE over(k, f[k - 1])]
      BY <1>0, <2>1
    <2>3. ASSUME NEW k \in 0..m + 1 PROVE g[k] = IF k = 0 THEN leaf ELSE over(k, g[k - 1])
      BY <2>2
    <2>4. g = [k \in 0..m + 1 |-> IF k = 0 THEN leaf ELSE over(k, g[k - 1])]
      BY <2>3
    <2>5. m + 1 \in Nat
      OBVIOUS
    <2> HIDE DEF g
    <2>6. ClimbTable(g, leaf, levels, m + 1)
      BY <1>0, <2>4, <2>5
    <2>7. QED
      BY <2>5, <2>6
  <1>3. depth \in Good
    BY <1>1, <1>2, Inductive
  <1>4. QED
    BY <1>3

LEMMA ClimbInTable ==
    ASSUME NEW p, Len(p.levels) \in Nat
    PROVE  \E f : /\ Climb(p) = f[Len(p.levels)] /\ f[0] = p.leaf
                  /\ \A k \in 1..Len(p.levels) :
                       f[k] = GroupHash(Put(p.levels[k].siblings, p.levels[k].position, f[k - 1]))
  <1> DEFINE depth == Len(p.levels)
             step(f) == [k \in 0..depth |->
                IF k = 0 THEN p.leaf
                ELSE LET sib == p.levels[k].siblings
                         pos == p.levels[k].position
                     IN GroupHash(SubSeq(sib, 1, pos) \o <<f[k - 1]>> \o SubSeq(sib, pos + 1, Len(sib)))]
             chosen == CHOOSE f : f = step(f)
  <1>1. \A f : ClimbTable(f, p.leaf, p.levels, depth) <=> f = step(f)
    BY DEF ClimbTable, Put
  <1>2. Climb(p) = chosen[depth]
    BY DEF Climb
  <1> HIDE DEF step
  <1>3. \E f : f = step(f)
    BY <1>1, ClimbTableExists
  <1>4. chosen = step(chosen)
    BY <1>3, Zenon
  <1> HIDE DEF chosen
  <1>5. ClimbTable(chosen, p.leaf, p.levels, depth)
    BY <1>1, <1>4
  <1>6. chosen[0] = p.leaf
    BY <1>5 DEF ClimbTable
  <1>7. ASSUME NEW k \in 1..depth
        PROVE  chosen[k] = GroupHash(Put(p.levels[k].siblings, p.levels[k].position, chosen[k - 1]))
    <2>1. k \in 0..depth /\ k # 0
      OBVIOUS
    <2>2. QED
      BY <1>5, <2>1 DEF ClimbTable
  <1>8. QED
    BY <1>2, <1>6, <1>7

\* Two nodes in one place of a group give two parents.
LEMMA HashTells ==
    ASSUME NEW group, IsSeq(group), NEW pos \in Nat, pos < Len(group), NEW a, NEW b, a # b
    PROVE  GroupHash(Put(Siblings(group, pos), pos, a)) # GroupHash(Put(Siblings(group, pos), pos, b))
  <1> DEFINE s == Put(Siblings(group, pos), pos, a)
             t == Put(Siblings(group, pos), pos, b)
  <1>1. Len(s) = Len(group) /\ s[pos + 1] = a /\ Len(t) = Len(group) /\ t[pos + 1] = b
    BY PutSiblings
  <1> HIDE DEF s, t
  <1>2. CASE Len(group) = 1
    <2>1. pos + 1 = 1
      BY <1>2
    <2>2. QED
      BY <1>1, <1>2, <2>1 DEF GroupHash, s, t
  <1>3. CASE Len(group) # 1
    BY <1>1, <1>3 DEF GroupHash, HashChildren, s, t
  <1>4. QED
    BY <1>2, <1>3

\* A record of a proof holds a group's nodes but one, and the group's hash is the
\* next node of the path.
RungOf(rec, leaves, i, l, n) ==
    \E group : \E pos \in Nat :
      /\ IsSeq(group) /\ pos < Len(group) /\ Len(group) <= n
      /\ rec.position = pos /\ rec.siblings = Siblings(group, pos)
      /\ group[pos + 1] = PathNode(leaves, i, l, n)
      /\ GroupHash(group) = PathNode(leaves, i, l + 1, n)

\* What is above is the path's next node exactly when what is below is its node.
RungTells(above, below, leaves, i, l, n) ==
    above = PathNode(leaves, i, l + 1, n) <=> below = PathNode(leaves, i, l, n)

LEMMA RungClimbs ==
    ASSUME NEW rec, NEW leaves, NEW i, NEW l, NEW n, RungOf(rec, leaves, i, l, n), NEW node
    PROVE  RungTells(GroupHash(Put(rec.siblings, rec.position, node)), node, leaves, i, l, n)
  <1>0. PICK group : \E pos \in Nat :
          /\ IsSeq(group) /\ pos < Len(group) /\ Len(group) <= n
          /\ rec.position = pos /\ rec.siblings = Siblings(group, pos)
          /\ group[pos + 1] = PathNode(leaves, i, l, n)
          /\ GroupHash(group) = PathNode(leaves, i, l + 1, n)
    BY DEF RungOf
  <1>1. PICK pos \in Nat :
          /\ IsSeq(group) /\ pos < Len(group)
          /\ rec.position = pos /\ rec.siblings = Siblings(group, pos)
          /\ group[pos + 1] = PathNode(leaves, i, l, n)
          /\ GroupHash(group) = PathNode(leaves, i, l + 1, n)
    BY <1>0
  <1> DEFINE own == group[pos + 1]
             put(x) == GroupHash(Put(Siblings(group, pos), pos, x))
  <1>2. Put(Siblings(group, pos), pos, own) = group
    BY <1>1, PutSiblings
  <1>3. put(own) = PathNode(leaves, i, l + 1, n)
    BY <1>1, <1>2
  <1>4. node # own => put(node) # put(own)
    BY <1>1, HashTells
  <1>5. GroupHash(Put(rec.siblings, rec.position, node)) = put(node)
    BY <1>1
  <1>6. QED
    BY <1>1, <1>3, <1>4, <1>5 DEF RungTells

\* A proof whose records follow a path ends in the path's top exactly when it starts
\* with the path's leaf.
LEMMA ClimbTells ==
    ASSUME NEW p, NEW leaves, NEW i, NEW n, Len(p.levels) \in Nat,
           \A l \in 0..Len(p.levels) - 1 : RungOf(p.levels[l + 1], leaves, i, l, n)
    PROVE  Climb(p) = PathNode(leaves, i, Len(p.levels), n) <=> p.leaf = PathNode(leaves, i, 0, n)
  <1> DEFINE depth == Len(p.levels)
  <1>1. PICK f : /\ Climb(p) = f[depth] /\ f[0] = p.leaf
                 /\ \A k \in 1..depth :
                       f[k] = GroupHash(Put(p.levels[k].siblings, p.levels[k].position, f[k - 1]))
    BY ClimbInTable
  <1> DEFINE fits(k) == f[k] = PathNode(leaves, i, k, n) <=> p.leaf = PathNode(leaves, i, 0, n)
             Good == {k \in Nat : k <= depth => fits(k)}
  <1>2. 0 \in Good
    BY <1>1
  <1>3. ASSUME NEW l \in Nat, l \in Good PROVE l + 1 \in Good
    <2>1. SUFFICES ASSUME l + 1 <= depth PROVE fits(l + 1)
      OBVIOUS
    <2>2. l \in 0..depth - 1 /\ l + 1 \in 1..depth /\ l + 1 - 1 = l /\ l <= depth
      BY <2>1
    <2>3. fits(l)
      BY <1>3, <2>2
    <2> DEFINE rec == p.levels[l + 1]
    <2>4. RungOf(rec, leaves, i, l, n)
      BY <2>2
    <2>5. f[l + 1] = GroupHash(Put(rec.siblings, rec.position, f[l]))
      <3>1. f[l + 1] = GroupHash(Put(rec.siblings, rec.position, f[l + 1 - 1]))
        <4>1. ASSUME NEW k \in 1..depth
              PROVE  f[k] = GroupHash(Put(p.levels[k].siblings, p.levels[k].position, f[k - 1]))
          BY <1>1
        <4>2. QED
          BY <2>2, <4>1
      <3>2. QED
        BY <2>2, <3>1
    <2> HIDE DEF rec
    <2>6. RungTells(GroupHash(Put(rec.siblings, rec.position, f[l])), f[l], leaves, i, l, n)
      <3>1. ASSUME NEW node
            PROVE  RungTells(GroupHash(Put(rec.siblings, rec.position, node)), node, leaves, i, l, n)
        BY <2>4, RungClimbs
      <3>2. QED
        BY <3>1, Zenon
    <2>7. QED
      BY <2>3, <2>5, <2>6 DEF RungTells
  <1>4. \A k \in Nat : k \in Good
    <2> HIDE DEF Good
    <2>1. QED
      BY <1>2, <1>3, Inductive
  <1>5. fits(depth)
    BY <1>4
  <1>6. QED
    BY <1>1, <1>5

\* The records of a proof of the tree follow the path of its leaf.
LEMMA ProofFollows ==
    ASSUME arity \in Arities, Holds(tree, arity), NEW i \in 0..tree.size - 1, NEW l \in 0..tree.depth - 1
    PROVE  /\ RungOf(GenerateProof(tree, i).levels[l + 1], Inserted(tree.size), i, l, arity)
           /\ GenerateProof(tree, i).levels[l + 1].position = (i \div Span(l)) % arity
  <1> DEFINE n == arity
             size == tree.size
             depth == tree.depth
             leaves == Inserted(size)
             at == i \div Power(n, l)
             pos == at % n
             group == Group(Layer(leaves, l, n), at \div n, n)
             rec == GenerateProof(tree, i).levels[l + 1]
  <1>0. /\ n \in Nat \ {0, 1} /\ size \in Nat /\ depth <= MaxDepth /\ Shaped(tree, leaves, n)
        /\ Right(tree, leaves, n)
    BY ArityFacts, LeanIMTAssumption DEF Holds
  <1>1. IsSeq(leaves) /\ Len(leaves) = size
    BY <1>0, InsertedIsSeq
  <1>2. depth = CeilLogN(size, n) /\ depth \in Nat
    BY <1>0, <1>1, DepthBounds DEF Shaped
  <1>3. i \in Nat /\ i < size /\ l \in Nat /\ l \in Levels /\ l + 1 \in 1..depth /\ l + 1 - 1 = l /\ l <= depth
    BY <1>0, <1>2, LeanIMTAssumption DEF Levels
  <1>4. tree.levels[l] = Layer(leaves, l, n)
    <2> DEFINE B == Layer(leaves, l, n)
               level == tree.levels[l]
    <2> HIDE DEF leaves
    <2>1. n \in Nat \ {0}
      BY <1>0
    <2>2. IsSeq(B) /\ Len(B) = CeilDiv(size, Power(n, l))
      BY <1>1, <1>3, <2>1, LayerIsSeq
    <2>3. IsSeq(level) /\ Len(level) = CeilDiv(size, Power(n, l))
      BY <1>0, <1>1, <1>2, <1>3 DEF Shaped, IsTree, Stored
    <2>4. \A k \in 1..Len(level) : level[k] = B[k]
      BY <1>0, <1>3 DEF Right
    <2> HIDE DEF B, level
    <2>5. level = B
      BY <2>2, <2>3, <2>4, SeqEqual2
    <2>6. QED
      BY <2>5 DEF B, level
  <1>5. rec = [position |-> pos, siblings |-> Siblings(group, pos)]
    <2>1. ASSUME NEW k \in 1..depth, k - 1 = l
          PROVE  GenerateProof(tree, i).levels[k] = [position |-> pos, siblings |-> Siblings(group, pos)]
      BY <1>4, <2>1 DEF GenerateProof, Span, Children
    <2>2. QED
      BY <1>3, <2>1
  <1>6. OnPath(at, group, pos, leaves, i, l, n)
    BY DEF OnPath
  <1> HIDE DEF at, group, pos, leaves, rec
  <1>7. /\ IsSeq(group) /\ pos \in Nat /\ pos < Len(group) /\ Len(group) <= n
        /\ group[pos + 1] = PathNode(leaves, i, l, n)
        /\ GroupHash(group) = PathNode(leaves, i, l + 1, n)
    BY <1>0, <1>1, <1>3, <1>6, PathGroup
  <1>8. rec.position = pos /\ rec.siblings = Siblings(group, pos)
    BY <1>5
  <1>9. RungOf(rec, leaves, i, l, n)
    BY <1>7, <1>8 DEF RungOf
  <1>10. pos = (i \div Span(l)) % arity
    BY DEF pos, at, Span
  <1>11. QED
    BY <1>8, <1>9, <1>10 DEF rec, leaves

\* A record that follows a path is as long as a proof's record may be.
LEMMA RungLength ==
    ASSUME NEW rec, NEW leaves, NEW i, NEW l, NEW n \in Nat, RungOf(rec, leaves, i, l, n)
    PROVE  Len(rec.siblings) + 1 <= n /\ rec.position <= Len(rec.siblings)
  <1>1. PICK group : \E pos \in Nat :
          /\ IsSeq(group) /\ pos < Len(group) /\ Len(group) <= n
          /\ rec.position = pos /\ rec.siblings = Siblings(group, pos)
    BY DEF RungOf
  <1>2. PICK pos \in Nat :
          /\ IsSeq(group) /\ pos < Len(group) /\ Len(group) <= n
          /\ rec.position = pos /\ rec.siblings = Siblings(group, pos)
    BY <1>1
  <1>3. Len(group) \in Nat
    BY <1>2 DEF IsSeq
  <1>4. Len(Siblings(group, pos)) = Len(group) - 1
    BY <1>2, SiblingsOfGroup
  <1>5. QED
    BY <1>2, <1>3, <1>4

\* A proof with the records the tree gives for a leaf is well formed, and climbs to
\* the root exactly when it has that leaf.
LEMMA RecordsVerify ==
    ASSUME arity \in Arities, Holds(tree, arity), NEW i \in 0..tree.size - 1, NEW q,
           q.levels = GenerateProof(tree, i).levels, q.index = i, q.size = tree.size, q.root = tree.root
    PROVE  Verify(q) <=> q.leaf = Leaf(i + 1)
  <1> DEFINE n == arity
             size == tree.size
             depth == tree.depth
             leaves == Inserted(size)
  <1>0. /\ n \in Nat \ {0, 1} /\ n \in Nat /\ size \in Nat /\ depth <= MaxDepth
        /\ Shaped(tree, leaves, n) /\ tree.root = RootOf(leaves, n)
    BY ArityFacts, LeanIMTAssumption DEF Holds
  <1>1. IsSeq(leaves) /\ Len(leaves) = size
    BY <1>0, InsertedIsSeq
  <1>2. depth = CeilLogN(size, n) /\ depth \in Nat
    BY <1>0, <1>1, DepthBounds DEF Shaped
  <1>3. Len(q.levels) = depth
    BY <1>2 DEF GenerateProof
  <1>4. ASSUME NEW l \in 0..depth - 1
        PROVE  /\ RungOf(q.levels[l + 1], leaves, i, l, n)
               /\ q.levels[l + 1].position = (i \div Span(l)) % arity
    BY <1>4, ProofFollows
  <1>5. i \in Nat /\ i < size /\ i + 1 \in 1..size
    BY <1>0
  <1>6. PathNode(leaves, i, 0, n) = Leaf(i + 1)
    <2>1. Layer(leaves, 0, n) = leaves
      BY LayerSteps
    <2>2. Power(n, 0) = 1
      BY <1>0, PowerSteps
    <2>3. i \div 1 = i
      BY <1>5
    <2>4. leaves[i + 1] = Leaf(i + 1)
      BY <1>5 DEF Inserted
    <2>5. QED
      BY <2>1, <2>2, <2>3, <2>4 DEF PathNode
  <1>7. PathNode(leaves, i, depth, n) = tree.root
    <2>1. i \div Power(n, depth) = 0
      BY <1>0, <1>2, <1>5, TopNode
    <2>2. size # 0
      BY <1>5
    <2>3. tree.root = Layer(leaves, depth, n)[1]
      BY <1>0, <1>1, <1>2, <2>2 DEF RootOf
    <2>4. QED
      BY <2>1, <2>3 DEF PathNode
  <1>8. WellFormed(q)
    <2>1. q.index < q.size
      BY <1>5
    <2>2. Len(q.levels) = CeilLogN(q.size, arity) /\ Len(q.levels) <= MaxDepth
      BY <1>0, <1>2, <1>3
    <2>3. ASSUME NEW k \in 1..Len(q.levels)
          PROVE  /\ q.levels[k].position = (q.index \div Span(k - 1)) % arity
                 /\ Len(q.levels[k].siblings) + 1 <= arity
                 /\ q.levels[k].position <= Len(q.levels[k].siblings)
      <3> DEFINE l == k - 1
      <3>1. l \in 0..depth - 1 /\ l + 1 = k
        BY <1>2, <1>3
      <3>2. RungOf(q.levels[k], leaves, i, l, n) /\ q.levels[k].position = (i \div Span(l)) % arity
        BY <1>4, <3>1
      <3> HIDE DEF leaves
      <3>3. QED
        BY <1>0, <3>2, RungLength
    <2>4. QED
      BY <2>1, <2>2, <2>3 DEF WellFormed
  <1> HIDE DEF leaves
  <1>9. Climb(q) = PathNode(leaves, i, Len(q.levels), n) <=> q.leaf = PathNode(leaves, i, 0, n)
    BY <1>2, <1>3, <1>4, ClimbTells
  <1>10. QED
    BY <1>3, <1>6, <1>7, <1>8, <1>9 DEF Verify

\* InclusionVerifies for every arity up to 255, depth and number of leaves:
\* generate_proof and NaryProof::verify agree, and a proof holds for one leaf only.
\* (Hashes are taken to be collision-free: HashChildren is its argument.)
THEOREM InclusionProofsVerify == Spec => []InclusionVerifies
  <1>1. ASSUME IInv PROVE InclusionVerifies
    <2> SUFFICES ASSUME NEW i \in 0..tree.size - 1
                 PROVE  LET p == GenerateProof(tree, i)
                        IN /\ Verify(p) /\ p.leaf = Leaf(i + 1)
                           /\ \A other \in 1..tree.size + 1 :
                                other # i + 1 => ~Verify([p EXCEPT !.leaf = Leaf(other)])
      BY DEF InclusionVerifies
    <2> DEFINE p == GenerateProof(tree, i)
    <2>1. arity \in Arities /\ Holds(tree, arity) /\ tree.size \in Nat
      BY <1>1, LeanIMTAssumption DEF IInv, Holds
    <2>2. p = [root |-> tree.root, leaf |-> tree.levels[0][i + 1], index |-> i, size |-> tree.size,
               levels |-> p.levels]
      BY DEF GenerateProof
    <2>3. tree.levels[0][i + 1] = Leaf(i + 1)
      <3>1. tree.levels[0] = Inserted(tree.size)
        BY <2>1 DEF Holds, Shaped
      <3>2. i + 1 \in 1..tree.size
        BY <2>1
      <3>3. QED
        BY <3>1, <3>2 DEF Inserted
    <2> DEFINE recs == p.levels
    <2>4. recs = GenerateProof(tree, i).levels
      OBVIOUS
    <2> HIDE DEF p, recs
    <2>5. Verify(p) /\ p.leaf = Leaf(i + 1)
      <3>1. p.root = tree.root /\ p.leaf = Leaf(i + 1) /\ p.index = i /\ p.size = tree.size
        BY <2>2, <2>3
      <3>2. p.levels = GenerateProof(tree, i).levels
        BY DEF p
      <3>3. QED
        BY <2>1, <3>1, <3>2, RecordsVerify
    <2>6. ASSUME NEW other \in 1..tree.size + 1, other # i + 1
          PROVE  ~Verify([p EXCEPT !.leaf = Leaf(other)])
      <3> DEFINE q == [p EXCEPT !.leaf = Leaf(other)]
      <3>1. /\ q.root = tree.root /\ q.leaf = Leaf(other) /\ q.index = i /\ q.size = tree.size
            /\ q.levels = p.levels
        BY <2>2
      <3>2. q.levels = GenerateProof(tree, i).levels
        BY <3>1 DEF p
      <3>3. Leaf(other) # Leaf(i + 1)
        BY <2>6 DEF Leaf
      <3> HIDE DEF q
      <3>4. ~Verify(q)
        BY <2>1, <3>1, <3>2, <3>3, RecordsVerify
      <3>5. QED
        BY <3>4 DEF q
    <2>7. QED
      BY <2>5, <2>6 DEF p
  <1>2. QED
    BY <1>1, NodesStayRight, PTL

-----------------------------------------------------------------------------
(***************************************************************************)
(* Consistency proofs: a record holds the group of the boundary, the last  *)
(* node of the old tree in a level, so both hashes the verifier carries    *)
(* are the boundary's nodes in the old and in the new tree.                *)
(***************************************************************************)
\* Leaves that begin with others, which are not none.
Continues(new, old) ==
    /\ IsSeq(old) /\ IsSeq(new) /\ 0 < Len(old) /\ Len(old) <= Len(new)
    /\ \A i \in 1..Len(old) : old[i] = new[i]

\* The last node of a level of the old tree, by the index of the last old leaf.
LEMMA BoundaryIs ==
    ASSUME arity \in Nat \ {0, 1}, NEW o \in Nat \ {0}, NEW l \in Nat
    PROVE  /\ Boundary(o, l) = (o - 1) \div Power(arity, l) /\ Boundary(o, l) \in Nat
           /\ LevelSize(o, l) = Boundary(o, l) + 1
           /\ Boundary(o, l) \div arity \in Nat /\ BoundaryPos(o, l) \in 0..arity - 1
           /\ Boundary(o, l) - BoundaryPos(o, l) = (Boundary(o, l) \div arity) * arity
  <1> DEFINE P == Power(arity, l)
  <1>1. P \in Nat \ {0} /\ arity \in Nat \ {0}
    BY PowerPositive
  <1>2. PICK s \in Nat : s + 1 = o /\ o - 1 = s
    OBVIOUS
  <1> HIDE DEF P
  <1>3. CeilDiv(o, P) = s \div P + 1
    BY <1>1, <1>2, CeilDivNext
  <1>4. PICK b \in Nat : b = s \div P
    BY <1>1, DivBounds
  <1>5. Boundary(o, l) = b /\ LevelSize(o, l) = b + 1
    BY <1>3, <1>4 DEF Boundary, LevelSize, Span, P
  <1>6. b \div arity \in Nat /\ b % arity \in 0..arity - 1 /\ b = (b \div arity) * arity + (b % arity)
    BY <1>1, DivBounds
  <1>7. PICK z \in Nat : z = (b \div arity) * arity
    BY <1>1, <1>6
  <1>8. b - (b % arity) = (b \div arity) * arity
    BY <1>6, <1>7
  <1>9. QED
    BY <1>2, <1>4, <1>5, <1>6, <1>8 DEF P, BoundaryPos

LEMMA BoundaryNodes ==
    ASSUME NEW n \in Nat \ {0, 1}, NEW old, NEW new, Continues(new, old), NEW l \in Nat,
           NEW b, b = (Len(old) - 1) \div Power(n, l)
    PROVE  /\ b \in Nat /\ IsSeq(Layer(old, l, n)) /\ IsSeq(Layer(new, l, n))
           /\ Len(Layer(old, l, n)) = b + 1 /\ b < Len(Layer(new, l, n))
           /\ \A k \in 1..b : Layer(old, l, n)[k] = Layer(new, l, n)[k]
  <1> DEFINE P == Power(n, l)
             o == Len(old)
             t == Len(new)
  <1>1. P \in Nat \ {0} /\ n \in Nat \ {0}
    BY PowerPositive
  <1>2. IsSeq(old) /\ IsSeq(new) /\ o \in Nat /\ t \in Nat /\ 0 < o /\ o <= t
    BY DEF Continues, IsSeq
  <1>3. PICK s \in Nat : s + 1 = o /\ o - 1 = s /\ s < t
    BY <1>2
  <1>4. b = s \div P
    BY <1>3
  <1>5. b \in Nat /\ CeilDiv(o, P) = b + 1
    <2> HIDE DEF P, o
    <2>1. s \div P \in Nat
      BY <1>1, DivBounds
    <2>2. CeilDiv(s + 1, P) = s \div P + 1
      BY <1>1, CeilDivNext
    <2>3. QED
      BY <1>3, <1>4, <2>1, <2>2, Zenon
  <1>6. /\ IsSeq(Layer(old, l, n)) /\ IsSeq(Layer(new, l, n))
        /\ Len(Layer(old, l, n)) = CeilDiv(o, P) /\ Len(Layer(new, l, n)) = CeilDiv(t, P)
    BY <1>1, <1>2, LayerIsSeq
  <1>7. /\ s \div Power(n, l) < CeilDiv(t, Power(n, l))
        /\ \A k \in Nat : k <= s \div Power(n, l) <=> k * Power(n, l) <= s
    BY <1>2, <1>3, DirtyFacts
  <1>8. \A k \in Nat \ {0} : k * Power(n, l) <= o => Layer(old, l, n)[k] = Layer(new, l, n)[k]
    BY <1>2, LayerStable DEF Continues
  <1>9. ASSUME NEW k \in 1..b PROVE Layer(old, l, n)[k] = Layer(new, l, n)[k]
    <2>1. k \in Nat /\ k \in Nat \ {0} /\ k <= b
      BY <1>5
    <2>2. k * P <= s
      BY <1>4, <1>7, <2>1
    <2>3. PICK m \in Nat : m = k * P
      BY <1>1, <2>1
    <2>4. k * P <= o
      BY <1>2, <1>3, <2>2, <2>3
    <2>5. QED
      BY <1>8, <2>1, <2>4
  <1>10. QED
    BY <1>4, <1>5, <1>6, <1>7, <1>9

\* The boundary's group among the old nodes ends with the boundary; among the new ones
\* it begins alike and goes on.
BoundaryGroups(G, H, pos, old, new, l, n) ==
    /\ IsSeq(G) /\ IsSeq(H) /\ pos \in Nat /\ pos < n /\ Len(G) = pos + 1 /\ pos < Len(H)
    /\ \A j \in 1..pos : G[j] = H[j]
    /\ G[pos + 1] = PathNode(old, Len(old) - 1, l, n) /\ H[pos + 1] = PathNode(new, Len(old) - 1, l, n)
    /\ GroupHash(G) = PathNode(old, Len(old) - 1, l + 1, n)
    /\ GroupHash(H) = PathNode(new, Len(old) - 1, l + 1, n)

AtBoundary(b, g, pos, G, H, old, new, l, n) ==
    /\ b = (Len(old) - 1) \div Power(n, l) /\ g = b \div n /\ pos = b % n
    /\ G = Group(Layer(old, l, n), g, n) /\ H = Group(Layer(new, l, n), g, n)

LEMMA GroupsAtBoundary ==
    ASSUME NEW n \in Nat \ {0, 1}, NEW old, NEW new, Continues(new, old), NEW l \in Nat,
           NEW b, NEW g, NEW pos, NEW G, NEW H, AtBoundary(b, g, pos, G, H, old, new, l, n)
    PROVE  /\ BoundaryGroups(G, H, pos, old, new, l, n)
           /\ Len(H) = LessOf(n, Len(Layer(new, l, n)) - g * n) /\ Copies(H, Layer(new, l, n), g * n)
  <1> DEFINE A == Layer(old, l, n)
             B == Layer(new, l, n)
             i == Len(old) - 1
             z == g * n
  <1>1. /\ b \in Nat /\ IsSeq(A) /\ IsSeq(B) /\ Len(A) = b + 1 /\ b < Len(B)
        /\ \A k \in 1..b : A[k] = B[k]
    <2>1. b = (Len(old) - 1) \div Power(n, l)
      BY DEF AtBoundary
    <2>2. QED
      BY <2>1, BoundaryNodes
  <1>2. IsSeq(old) /\ IsSeq(new) /\ i \in Nat /\ i < Len(old) /\ i < Len(new) /\ n \in Nat \ {0} /\ n \in Nat
    BY DEF Continues, IsSeq
  <1>3. g \in Nat /\ pos \in 0..n - 1 /\ b = z + pos /\ z \in Nat
    <2>1. b \div n \in Nat /\ b % n \in 0..n - 1 /\ b = (b \div n) * n + (b % n)
      BY <1>1, <1>2, DivBounds
    <2>2. g \in Nat /\ pos \in 0..n - 1 /\ b = g * n + pos
      BY <2>1, Zenon DEF AtBoundary
    <2>3. g * n \in Nat
      BY <1>2, <2>2
    <2>4. QED
      BY <2>2, <2>3
  <1>4. OnPath(b, G, pos, old, i, l, n) /\ OnPath(b, H, pos, new, i, l, n)
    BY DEF OnPath, AtBoundary
  <1>5. Len(B) \in Nat
    BY <1>1 DEF IsSeq
  <1>6. Starts(A, g, n) /\ Starts(B, g, n)
    <2> HIDE DEF A, B
    <2>1. z <= Len(A) /\ z <= Len(B)
      <3> HIDE DEF z
      <3>1. QED
        BY <1>1, <1>3, <1>5
    <2>2. QED
      BY <2>1 DEF Starts
  <1> HIDE DEF A, B, i, z
  <1>7. /\ IsSeq(G) /\ pos \in Nat /\ G[pos + 1] = PathNode(old, i, l, n)
        /\ GroupHash(G) = PathNode(old, i, l + 1, n)
    BY <1>2, <1>4, PathGroup
  <1>8. /\ IsSeq(H) /\ pos < Len(H) /\ H[pos + 1] = PathNode(new, i, l, n)
        /\ GroupHash(H) = PathNode(new, i, l + 1, n)
    BY <1>2, <1>4, PathGroup
  <1>9. /\ Len(G) = GroupLen(A, g, n) /\ Copies(G, A, z)
        /\ Len(H) = GroupLen(B, g, n) /\ Copies(H, B, z)
    BY <1>1, <1>2, <1>3, <1>6, GroupCopies DEF A, B, z, AtBoundary
  <1>10. Len(G) = pos + 1
    <2>1. Len(G) = LessOf(n, (b + 1) - z)
      BY <1>1, <1>9 DEF GroupLen, z
    <2>2. QED
      BY <1>2, <1>3, <2>1 DEF LessOf
  <1>11. ASSUME NEW j \in 1..pos PROVE G[j] = H[j]
    <2>1. j \in 1..Len(G) /\ j \in 1..Len(H) /\ z + j \in 1..b
      BY <1>3, <1>7, <1>8, <1>10 DEF IsSeq
    <2>2. G[j] = A[z + j] /\ H[j] = B[z + j] /\ A[z + j] = B[z + j]
      BY <1>1, <1>9, <2>1, Zenon DEF Copies
    <2>3. QED
      BY <2>2
  <1>12. pos < n
    BY <1>2, <1>3
  <1>13. QED
    BY <1>7, <1>8, <1>9, <1>10, <1>11, <1>12 DEF BoundaryGroups, GroupLen, A, B, i, z

\* What a record of a consistency proof holds of the boundary's group.
Halves(rec, H, pos, l) ==
    /\ IsSeq(rec.shared) /\ Len(rec.shared) = (IF l = 0 THEN pos + 1 ELSE pos)
    /\ \A j \in 1..Len(rec.shared) : rec.shared[j] = H[j]
    /\ IsSeq(rec.new) /\ Len(rec.new) = Len(H) - pos - 1
    /\ \A j \in 1..Len(rec.new) : rec.new[j] = H[pos + 1 + j]

\* A group put together from its left part, the boundary and its right part.
Joined(rec, pos, a, b, G, H) ==
    /\ SubSeq(rec.shared, 1, pos) \o <<a>> = G
    /\ SubSeq(rec.shared, 1, pos) \o <<b>> \o rec.new = H

LEMMA HalvesMeet ==
    ASSUME NEW n \in Nat \ {0, 1}, NEW old, NEW new, NEW l \in Nat, NEW G, NEW H, NEW pos,
           BoundaryGroups(G, H, pos, old, new, l, n), NEW rec, Halves(rec, H, pos, l)
    PROVE  Joined(rec, pos, PathNode(old, Len(old) - 1, l, n), PathNode(new, Len(old) - 1, l, n), G, H)
  <1> DEFINE sh == rec.shared
             nw == rec.new
             a == PathNode(old, Len(old) - 1, l, n)
             b == PathNode(new, Len(old) - 1, l, n)
             left == SubSeq(sh, 1, pos)
             m == Len(H)
  <1>1. /\ IsSeq(G) /\ IsSeq(H) /\ pos \in Nat /\ Len(G) = pos + 1 /\ pos < m /\ m \in Nat
        /\ \A j \in 1..pos : G[j] = H[j]
        /\ G[pos + 1] = a /\ H[pos + 1] = b
    BY DEF BoundaryGroups, IsSeq
  <1>2. /\ IsSeq(sh) /\ Len(sh) \in Nat /\ pos <= Len(sh) /\ \A j \in 1..Len(sh) : sh[j] = H[j]
        /\ IsSeq(nw) /\ Len(nw) = m - pos - 1 /\ \A j \in 1..Len(nw) : nw[j] = H[pos + 1 + j]
    BY <1>1 DEF Halves, IsSeq
  <1> HIDE DEF sh, nw, a, b, m
  <1>3. IsSeq(left) /\ Len(left) = pos /\ \A j \in 1..pos : left[j] = H[j]
    <2>1. /\ IsSeq(SubSeq(sh, 1, pos)) /\ Len(SubSeq(sh, 1, pos)) = pos - 1 + 1
          /\ \A k \in 1..pos - 1 + 1 : SubSeq(sh, 1, pos)[k] = sh[1 + k - 1]
      BY <1>1, <1>2, SubSeqIsSeq
    <2>2. pos - 1 + 1 = pos /\ \A k \in 1..pos : 1 + k - 1 = k /\ k \in 1..Len(sh)
      BY <1>1, <1>2
    <2>3. QED
      BY <1>2, <2>1, <2>2
  <1> HIDE DEF left
  <1>4. IsSeq(<<a>>) /\ Len(<<a>>) = 1 /\ <<a>>[1] = a /\ IsSeq(<<b>>) /\ Len(<<b>>) = 1 /\ <<b>>[1] = b
    BY OneIsSeq
  <1>5. left \o <<a>> = G
    <2> DEFINE u == left \o <<a>>
    <2>1. /\ IsSeq(u) /\ Len(u) = pos + 1
          /\ \A k \in 1..pos + 1 : u[k] = IF k <= pos THEN left[k] ELSE <<a>>[k - pos]
      BY <1>3, <1>4, ConcatIsSeq
    <2> HIDE DEF u
    <2>2. ASSUME NEW k \in 1..pos + 1 PROVE u[k] = G[k]
      <3>1. CASE k <= pos
        BY <1>1, <1>3, <2>1, <3>1
      <3>2. CASE ~(k <= pos)
        <4>1. k = pos + 1 /\ k - pos = 1
          BY <1>1, <3>2
        <4>2. QED
          BY <1>1, <1>4, <2>1, <4>1
      <3>3. QED
        BY <3>1, <3>2
    <2>3. u = G
      BY <1>1, <2>1, <2>2, SeqEqual2
    <2>4. QED
      BY <2>3 DEF u
  <1>6. left \o <<b>> \o nw = H
    <2> DEFINE v == left \o <<b>>
               u == v \o nw
    <2>1. /\ IsSeq(v) /\ Len(v) = pos + 1
          /\ \A k \in 1..pos + 1 : v[k] = IF k <= pos THEN left[k] ELSE <<b>>[k - pos]
      BY <1>3, <1>4, ConcatIsSeq
    <2> HIDE DEF v
    <2>2. pos + 1 + (m - pos - 1) = m
      BY <1>1
    <2>3. /\ IsSeq(u) /\ Len(u) = m
          /\ \A k \in 1..m : u[k] = IF k <= pos + 1 THEN v[k] ELSE nw[k - (pos + 1)]
      <3>1. /\ IsSeq(u) /\ Len(u) = Len(v) + Len(nw)
            /\ \A k \in 1..Len(v) + Len(nw) : u[k] = IF k <= Len(v) THEN v[k] ELSE nw[k - Len(v)]
        BY <1>2, <2>1, ConcatIsSeq
      <3>2. Len(v) + Len(nw) = m
        BY <1>2, <2>1, <2>2
      <3>3. QED
        BY <2>1, <3>1, <3>2, Zenon
    <2> HIDE DEF u
    <2>4. ASSUME NEW k \in 1..m PROVE u[k] = H[k]
      <3>1. CASE k <= pos
        <4>1. k \in 1..pos /\ k \in 1..pos + 1 /\ k <= pos + 1
          BY <1>1, <3>1
        <4>2. QED
          BY <1>3, <2>1, <2>3, <3>1, <4>1
      <3>2. CASE k = pos + 1
        <4>1. k \in 1..pos + 1 /\ k <= pos + 1 /\ ~(k <= pos) /\ k - pos = 1
          BY <1>1, <3>2
        <4>2. QED
          BY <1>1, <1>4, <2>1, <2>3, <3>2, <4>1
      <3>3. CASE k > pos + 1
        <4>1. k - (pos + 1) \in 1..Len(nw) /\ pos + 1 + (k - (pos + 1)) = k /\ ~(k <= pos + 1)
          BY <1>1, <1>2, <3>3
        <4>2. QED
          BY <1>2, <2>3, <4>1
      <3>4. QED
        BY <1>1, <3>1, <3>2, <3>3
    <2>5. u = H
      BY <1>1, <2>3, <2>4, SeqEqual2 DEF m
    <2>6. QED
      BY <2>5 DEF u, v
  <1>7. QED
    BY <1>5, <1>6 DEF left, sh, nw, a, b, Joined

\* The recursive function of BoundaryHashes.
Pair(a, b) == [old |-> a, new |-> b]

PairAbove(levels, o, l, pair) ==
    Pair(GroupHash(SubSeq(levels[l].shared, 1, BoundaryPos(o, l - 1)) \o <<pair.old>>),
         GroupHash(SubSeq(levels[l].shared, 1, BoundaryPos(o, l - 1)) \o <<pair.new>> \o levels[l].new))

PairAtLeaf(levels, o) ==
    Pair(levels[1].shared[BoundaryPos(o, 0) + 1], levels[1].shared[BoundaryPos(o, 0) + 1])

PairTable(f, levels, o, depth) ==
    f = [l \in 0..depth |-> IF l = 0 THEN PairAtLeaf(levels, o) ELSE PairAbove(levels, o, l, f[l - 1])]

LEMMA PairTableExists ==
    ASSUME NEW levels, NEW o, NEW depth \in Nat
    PROVE  \E f : PairTable(f, levels, o, depth)
  <1> DEFINE own == PairAtLeaf(levels, o)
             over(l, pair) == PairAbove(levels, o, l, pair)
             Good == {m \in Nat : \E f : PairTable(f, levels, o, m)}
  <1>0. ASSUME NEW f, NEW m \in Nat
        PROVE  PairTable(f, levels, o, m) <=>
                 f = [l \in 0..m |-> IF l = 0 THEN own ELSE over(l, f[l - 1])]
    BY DEF PairTable
  <1> HIDE DEF own, over
  <1>1. 0 \in Good
    <2> DEFINE g == [l \in 0..0 |-> own]
    <2>1. g = [l \in 0..0 |-> IF l = 0 THEN own ELSE over(l, g[l - 1])]
      OBVIOUS
    <2> HIDE DEF g
    <2>2. PairTable(g, levels, o, 0)
      BY <1>0, <2>1
    <2>3. QED
      BY <2>2, Zenon
  <1>2. ASSUME NEW m \in Nat, m \in Good PROVE m + 1 \in Good
    <2>1. PICK f : PairTable(f, levels, o, m)
      BY <1>2, Zenon
    <2> DEFINE g == [l \in 0..m + 1 |-> IF l = m + 1 THEN over(m + 1, f[m]) ELSE f[l]]
    <2>2. f = [l \in 0..m |-> IF l = 0 THEN own ELSE over(l, f[l - 1])]
      BY <1>0, <2>1
    <2>3. ASSUME NEW l \in 0..m + 1 PROVE g[l] = IF l = 0 THEN own ELSE over(l, g[l - 1])
      BY <2>2
    <2>4. g = [l \in 0..m + 1 |-> IF l = 0 THEN own ELSE over(l, g[l - 1])]
      BY <2>3
    <2>5. m + 1 \in Nat
      OBVIOUS
    <2> HIDE DEF g
    <2>6. PairTable(g, levels, o, m + 1)
      BY <1>0, <2>4, <2>5
    <2>7. QED
      BY <2>5, <2>6
  <1>3. depth \in Good
    BY <1>1, <1>2, Inductive
  <1>4. QED
    BY <1>3

LEMMA BoundaryHashesAreTable ==
    ASSUME NEW c, Len(c.levels) \in Nat
    PROVE  /\ BoundaryHashes(c)[0] = PairAtLeaf(c.levels, c.old)
           /\ \A l \in 1..Len(c.levels) :
                BoundaryHashes(c)[l] = PairAbove(c.levels, c.old, l, BoundaryHashes(c)[l - 1])
  <1> DEFINE depth == Len(c.levels)
             step(f) == [l \in 0..depth |->
                IF l = 0
                THEN LET own == c.levels[1].shared[BoundaryPos(c.old, 0) + 1] IN [old |-> own, new |-> own]
                ELSE [old |-> GroupHash(LeftOf(c, l - 1) \o <<f[l - 1].old>>),
                      new |-> GroupHash(LeftOf(c, l - 1) \o <<f[l - 1].new>> \o c.levels[l].new)]]
             chosen == CHOOSE f : f = step(f)
  <1>1. ASSUME NEW f PROVE PairTable(f, c.levels, c.old, depth) <=> f = step(f)
    <2>1. ASSUME NEW l \in 0..depth, l # 0 PROVE LeftOf(c, l - 1) = SubSeq(c.levels[l].shared, 1, BoundaryPos(c.old, l - 1))
      <3>1. l - 1 + 1 = l
        OBVIOUS
      <3>2. QED
        BY <3>1 DEF LeftOf
    <2>2. QED
      BY <2>1 DEF PairTable, PairAtLeaf, PairAbove, Pair
  <1>2. BoundaryHashes(c) = chosen
    BY DEF BoundaryHashes
  <1> HIDE DEF step
  <1>3. \E f : f = step(f)
    BY <1>1, PairTableExists
  <1>4. chosen = step(chosen)
    BY <1>3, Zenon
  <1> HIDE DEF chosen
  <1>5. PairTable(chosen, c.levels, c.old, depth)
    BY <1>1, <1>4
  <1>6. chosen[0] = PairAtLeaf(c.levels, c.old)
    BY <1>5 DEF PairTable
  <1>7. ASSUME NEW l \in 1..depth PROVE chosen[l] = PairAbove(c.levels, c.old, l, chosen[l - 1])
    <2>1. l \in 0..depth /\ l # 0
      OBVIOUS
    <2>2. QED
      BY <1>5, <2>1 DEF PairTable
  <1>8. QED
    BY <1>2, <1>6, <1>7

BoundaryGroup(leaves, o, l) == Group(Layer(leaves, l, arity), Boundary(o, l) \div arity, arity)

LEMMA BoundaryHere ==
    ASSUME arity \in Nat \ {0, 1}, NEW old, NEW new, Continues(new, old), NEW l \in Nat
    PROVE  /\ BoundaryGroups(BoundaryGroup(old, Len(old), l), BoundaryGroup(new, Len(old), l),
                             BoundaryPos(Len(old), l), old, new, l, arity)
           /\ Len(BoundaryGroup(new, Len(old), l)) =
                LessOf(arity, LevelSize(Len(new), l) - (Boundary(Len(old), l) \div arity) * arity)
           /\ Copies(BoundaryGroup(new, Len(old), l), Layer(new, l, arity),
                     (Boundary(Len(old), l) \div arity) * arity)
  <1> DEFINE o == Len(old)
             b == Boundary(o, l)
             g == b \div arity
             pos == BoundaryPos(o, l)
             G == BoundaryGroup(old, o, l)
             H == BoundaryGroup(new, o, l)
  <1>1. o \in Nat \ {0} /\ IsSeq(new) /\ Len(new) \in Nat /\ arity \in Nat \ {0}
    BY DEF Continues, IsSeq
  <1>2. b = (o - 1) \div Power(arity, l)
    BY <1>1, BoundaryIs
  <1>3. AtBoundary(b, g, pos, G, H, old, new, l, arity)
    BY <1>2 DEF AtBoundary, BoundaryPos, BoundaryGroup
  <1>4. Len(Layer(new, l, arity)) = LevelSize(Len(new), l)
    BY <1>1, LayerIsSeq DEF LevelSize, Span
  <1> HIDE DEF b, g, pos, G, H
  <1>5. /\ BoundaryGroups(G, H, pos, old, new, l, arity)
        /\ Len(H) = LessOf(arity, Len(Layer(new, l, arity)) - g * arity)
        /\ Copies(H, Layer(new, l, arity), g * arity)
    BY <1>3, GroupsAtBoundary
  <1>6. QED
    BY <1>4, <1>5 DEF b, g, pos, G, H

\* The records of c hold the groups of the boundary of old in the tree over new.
ShowsBoundary(c, old, new) ==
    /\ c.old = Len(old) /\ Len(c.levels) \in Nat
    /\ \A l \in 0..Len(c.levels) - 1 :
         Halves(c.levels[l + 1], BoundaryGroup(new, Len(old), l), BoundaryPos(Len(old), l), l)

LEMMA PathStart ==
    ASSUME NEW n \in Nat \ {0, 1}, NEW leaves, NEW i \in Nat
    PROVE  PathNode(leaves, i, 0, n) = leaves[i + 1]
  <1>1. Layer(leaves, 0, n) = leaves
    BY LayerSteps
  <1>2. Power(n, 0) = 1 /\ i \div 1 = i
    BY PowerSteps
  <1>3. QED
    BY <1>1, <1>2 DEF PathNode

\* Both hashes of the verifier are the boundary's nodes, level by level.
LEMMA BoundaryClimbs ==
    ASSUME arity \in Nat \ {0, 1}, NEW old, NEW new, Continues(new, old), NEW c,
           ShowsBoundary(c, old, new), 0 < Len(c.levels)
    PROVE  \A l \in 0..Len(c.levels) :
             BoundaryHashes(c)[l] = Pair(PathNode(old, Len(old) - 1, l, arity), PathNode(new, Len(old) - 1, l, arity))
  <1> DEFINE o == Len(old)
             D == Len(c.levels)
             f == BoundaryHashes(c)
             a(l) == PathNode(old, o - 1, l, arity)
             b(l) == PathNode(new, o - 1, l, arity)
             S == {l \in Nat : l <= D => f[l] = Pair(a(l), b(l))}
  <1>1. /\ c.old = o /\ D \in Nat /\ o \in Nat /\ 0 < o /\ o - 1 \in Nat /\ o \in 1..o /\ o - 1 + 1 = o
        /\ 0 < D /\ IsSeq(old)
    BY DEF Continues, ShowsBoundary, IsSeq
  <1>2. /\ f[0] = PairAtLeaf(c.levels, o)
        /\ \A l \in 1..D : f[l] = PairAbove(c.levels, o, l, f[l - 1])
    BY <1>1, BoundaryHashesAreTable
  <1>3. ASSUME NEW l \in Nat, l < D
        PROVE  /\ Halves(c.levels[l + 1], BoundaryGroup(new, o, l), BoundaryPos(o, l), l)
               /\ BoundaryGroups(BoundaryGroup(old, o, l), BoundaryGroup(new, o, l), BoundaryPos(o, l), old, new, l, arity)
    <2>1. l \in 0..D - 1
      BY <1>1, <1>3
    <2>2. QED
      BY <2>1, BoundaryHere DEF ShowsBoundary
  <1> HIDE DEF f, D
  <1>4. f[0] = Pair(a(0), b(0))
    <2> DEFINE H == BoundaryGroup(new, o, 0)
               pos == BoundaryPos(o, 0)
               sh == c.levels[1].shared
    <2>1. Halves(c.levels[0 + 1], H, pos, 0) /\ BoundaryGroups(BoundaryGroup(old, o, 0), H, pos, old, new, 0, arity)
      BY <1>1, <1>3
    <2> HIDE DEF H, pos
    <2>2. 0 + 1 = 1 /\ pos \in Nat /\ H[pos + 1] = b(0)
      BY <2>1 DEF BoundaryGroups
    <2>3. Len(sh) = pos + 1 /\ \A j \in 1..Len(sh) : sh[j] = H[j]
      BY <2>1, <2>2 DEF Halves
    <2>4. sh[pos + 1] = b(0)
      BY <2>2, <2>3
    <2>5. a(0) = old[o] /\ b(0) = new[o]
      BY <1>1, PathStart
    <2>6. old[o] = new[o]
      BY <1>1 DEF Continues
    <2>7. QED
      BY <1>2, <2>4, <2>5, <2>6 DEF PairAtLeaf, pos
  <1>5. ASSUME NEW l \in Nat, l \in S PROVE l + 1 \in S
    <2> SUFFICES ASSUME l + 1 <= D PROVE f[l + 1] = Pair(a(l + 1), b(l + 1))
      OBVIOUS
    <2> DEFINE G == BoundaryGroup(old, o, l)
               H == BoundaryGroup(new, o, l)
               pos == BoundaryPos(o, l)
               rec == c.levels[l + 1]
    <2>1. l < D /\ l + 1 \in 1..D /\ l + 1 - 1 = l /\ f[l] = Pair(a(l), b(l))
      BY <1>1, <1>5
    <2>2. Halves(rec, H, pos, l) /\ BoundaryGroups(G, H, pos, old, new, l, arity)
      BY <1>3, <2>1
    <2>3. f[l + 1] = PairAbove(c.levels, o, l + 1, f[l])
      BY <1>2, <2>1
    <2>4. f[l].old = a(l) /\ f[l].new = b(l)
      BY <2>1 DEF Pair
    <2>5. f[l + 1] = Pair(GroupHash(SubSeq(rec.shared, 1, pos) \o <<a(l)>>),
                          GroupHash(SubSeq(rec.shared, 1, pos) \o <<b(l)>> \o rec.new))
      BY <2>1, <2>3, <2>4 DEF PairAbove
    <2> HIDE DEF G, H, pos, rec
    <2>6. /\ SubSeq(rec.shared, 1, pos) \o <<a(l)>> = G
          /\ SubSeq(rec.shared, 1, pos) \o <<b(l)>> \o rec.new = H
      <3>1. Joined(rec, pos, PathNode(old, Len(old) - 1, l, arity), PathNode(new, Len(old) - 1, l, arity), G, H)
        BY <2>2, HalvesMeet
      <3>2. QED
        BY <3>1 DEF Joined
    <2>7. GroupHash(G) = a(l + 1) /\ GroupHash(H) = b(l + 1)
      BY <2>2 DEF BoundaryGroups
    <2>8. QED
      BY <2>5, <2>6, <2>7
  <1>6. 0 \in S
    BY <1>4
  <1> HIDE DEF S
  <1>7. \A l \in Nat : l \in S
    BY <1>5, <1>6, Inductive
  <1>8. ASSUME NEW l \in 0..D PROVE f[l] = Pair(a(l), b(l))
    <2>1. l \in Nat /\ l <= D
      BY <1>1
    <2>2. QED
      BY <1>7, <2>1 DEF S
  <1>9. QED
    BY <1>8 DEF f, D

\* Above its root a tree lifts it.
LEMMA PathLifts ==
    ASSUME NEW n \in Nat \ {0, 1}, NEW leaves, IsSeq(leaves), 0 < Len(leaves), NEW l \in Nat,
           Len(leaves) <= Power(n, l)
    PROVE  PathNode(leaves, Len(leaves) - 1, l + 1, n) = PathNode(leaves, Len(leaves) - 1, l, n)
  <1> DEFINE i == Len(leaves) - 1
             P == Power(n, l)
             b == i \div P
             pos == b % n
             g == b \div n
             G == Group(Layer(leaves, l, n), g, n)
  <1>1. i \in Nat /\ i < P /\ P \in Nat \ {0}
    BY PowerPositive DEF IsSeq
  <1>2. b = 0
    <2> HIDE DEF i, P
    <2>1. i \div P \in Nat /\ (i \div P) * P <= i
      BY <1>1, DivBounds
    <2>2. PICK x \in Nat : x = i \div P /\ x * P <= i
      BY <2>1
    <2>3. x = 0
      BY <1>1, <2>2
    <2>4. QED
      BY <2>2, <2>3
  <1>3. pos = 0
    BY <1>2
  <1>4. AtBoundary(b, g, pos, G, G, leaves, leaves, l, n)
    BY DEF AtBoundary
  <1>5. Continues(leaves, leaves)
    BY DEF Continues, IsSeq
  <1> HIDE DEF b, g, pos, G
  <1>6. BoundaryGroups(G, G, pos, leaves, leaves, l, n)
    BY <1>4, <1>5, GroupsAtBoundary
  <1>7. Len(G) = 1 /\ G[1] = PathNode(leaves, i, l, n) /\ GroupHash(G) = PathNode(leaves, i, l + 1, n)
    BY <1>3, <1>6 DEF BoundaryGroups
  <1>8. QED
    BY <1>7 DEF GroupHash

LEMMA TopIsRoot ==
    ASSUME NEW n \in Nat \ {0, 1}, NEW leaves, IsSeq(leaves), 0 < Len(leaves), NEW d \in Nat,
           CeilLogN(Len(leaves), n) <= d
    PROVE  PathNode(leaves, Len(leaves) - 1, d, n) = RootOf(leaves, n)
  <1> DEFINE i == Len(leaves) - 1
             e == CeilLogN(Len(leaves), n)
             S == {l \in Nat : e <= l => PathNode(leaves, i, l, n) = RootOf(leaves, n)}
  <1>1. Len(leaves) \in Nat /\ i \in Nat /\ i < Len(leaves) /\ Len(leaves) # 0
    BY DEF IsSeq
  <1>2. e \in Nat /\ Len(leaves) <= Power(n, e)
    BY <1>1, DepthBounds
  <1>3. PathNode(leaves, i, e, n) = RootOf(leaves, n)
    <2>1. i \div Power(n, e) = 0
      BY <1>1, TopNode
    <2>2. QED
      BY <1>1, <2>1 DEF PathNode, RootOf
  <1>4. ASSUME NEW l \in Nat, l \in S PROVE l + 1 \in S
    <2> SUFFICES ASSUME e <= l + 1 PROVE PathNode(leaves, i, l + 1, n) = RootOf(leaves, n)
      OBVIOUS
    <2>1. CASE e = l + 1
      BY <1>3, <2>1
    <2>2. CASE e # l + 1
      <3> HIDE DEF i, e
      <3>1. e <= l
        BY <1>2, <2>2
      <3>2. Len(leaves) <= Power(n, l)
        <4>1. Power(n, e) \in Nat /\ Power(n, l) \in Nat
          BY <1>2, PowerPositive
        <4>2. CASE e = l
          BY <1>2, <4>2
        <4>3. CASE e < l
          <5>1. Power(n, e) < Power(n, l)
            BY <1>2, <4>3, PowerAscends
          <5>2. QED
            BY <1>1, <1>2, <4>1, <5>1
        <4>4. QED
          BY <1>2, <3>1, <4>2, <4>3
      <3>3. PathNode(leaves, i, l, n) = RootOf(leaves, n)
        BY <1>4, <3>1
      <3>4. QED
        BY <3>2, <3>3, PathLifts DEF i
    <2>3. QED
      BY <2>1, <2>2
  <1>5. 0 \in S
    <2> SUFFICES ASSUME e <= 0 PROVE PathNode(leaves, i, 0, n) = RootOf(leaves, n)
      OBVIOUS
    <2>1. e = 0
      BY <1>2
    <2>2. QED
      BY <1>3, <2>1
  <1> HIDE DEF S
  <1>6. \A l \in Nat : l \in S
    BY <1>4, <1>5, Inductive
  <1>7. QED
    BY <1>6 DEF S

-----------------------------------------------------------------------------
(***************************************************************************)
(* What generate_consistency_proof cuts out of the levels.                 *)
(***************************************************************************)
LEMMA LevelIsLayer ==
    ASSUME arity \in Arities, NEW t, Holds(t, arity), NEW l \in Levels, l <= t.depth
    PROVE  t.levels[l] = Layer(Inserted(t.size), l, arity)
  <1> DEFINE n == arity
             leaves == Inserted(t.size)
             B == Layer(leaves, l, n)
             level == t.levels[l]
  <1>1. /\ n \in Nat \ {0, 1} /\ n \in Nat \ {0} /\ t.size \in Nat /\ Shaped(t, leaves, n)
        /\ Right(t, leaves, n) /\ l \in Nat
    BY ArityFacts, LeanIMTAssumption DEF Holds, Levels
  <1>2. IsSeq(leaves) /\ Len(leaves) = t.size
    BY <1>1, InsertedIsSeq
  <1> HIDE DEF leaves
  <1>3. IsSeq(B) /\ Len(B) = CeilDiv(t.size, Power(n, l))
    <2>1. IsSeq(B) /\ Len(B) = CeilDiv(Len(leaves), Power(n, l))
      BY <1>1, <1>2, LayerIsSeq, Zenon
    <2>2. QED
      BY <1>2, <2>1, Zenon
  <1>4. IsSeq(level) /\ Len(level) = CeilDiv(t.size, Power(n, l))
    BY <1>1, <1>2 DEF Shaped, IsTree, Stored
  <1>5. \A k \in 1..Len(level) : level[k] = B[k]
    BY <1>1 DEF Right
  <1> HIDE DEF B, level
  <1>6. level = B
    BY <1>3, <1>4, <1>5, SeqEqual2
  <1>7. QED
    BY <1>6 DEF B, level, leaves

LEMMA InsertedContinue ==
    ASSUME NEW o \in Nat \ {0}, NEW t \in Nat, o <= t
    PROVE  Continues(Inserted(t), Inserted(o))
  <1>1. IsSeq(Inserted(o)) /\ Len(Inserted(o)) = o /\ IsSeq(Inserted(t)) /\ Len(Inserted(t)) = t
    BY InsertedIsSeq
  <1>2. \A i \in 1..o : Inserted(o)[i] = Inserted(t)[i]
    BY DEF Inserted
  <1>3. QED
    BY <1>1, <1>2 DEF Continues

\* A level has one node or more, by how its span compares with the leaves.
LEMMA LevelCounts ==
    ASSUME arity \in Nat \ {0, 1}, NEW s \in Nat, NEW l \in Nat
    PROVE  LevelSize(s, l) \in Nat /\ (LevelSize(s, l) <= 1 <=> s <= Power(arity, l))
  <1> DEFINE P == Power(arity, l)
             x == CeilDiv(s, P)
  <1>1. P \in Nat \ {0}
    BY PowerPositive
  <1> HIDE DEF P
  <1>2. x \in Nat /\ s <= P * x /\ P * x < s + P
    BY <1>1, CeilDivBounds
  <1> HIDE DEF x
  <1>3. ASSUME x <= 1 PROVE s <= P
    <2>1. x = 0 \/ x = 1
      BY <1>2, <1>3
    <2>2. P * 0 = 0 /\ P * 1 = P
      BY <1>1
    <2>3. QED
      BY <1>1, <1>2, <2>1, <2>2
  <1>4. ASSUME s <= P PROVE x <= 1
    <2>1. SUFFICES ASSUME ~(x <= 1) PROVE FALSE
      OBVIOUS
    <2>2. PICK y \in Nat : x = y + 2
      <3>1. x - 2 \in Nat /\ x = (x - 2) + 2
        BY <1>2, <2>1
      <3>2. QED
        BY <3>1
    <2>3. P * (y + 2) = P * y + P + P /\ P * y \in Nat
      BY <1>1
    <2>4. PICK m \in Nat : m = P * y /\ P * x = m + P + P
      BY <2>2, <2>3
    <2>5. QED
      BY <1>1, <1>2, <1>4, <2>4
  <1>5. LevelSize(s, l) = x
    BY DEF LevelSize, Span, x, P
  <1>6. QED
    BY <1>2, <1>3, <1>4, <1>5 DEF P

\* A proof has as many levels as the newer tree.
LEMMA ConsistencyDepthIs ==
    ASSUME arity \in Nat \ {0, 1}, NEW o \in Nat, NEW t \in Nat, o < t
    PROVE  ConsistencyDepth(o, t) = CeilLogN(t, arity)
  <1> DEFINE D == CeilLogN(t, arity)
             Ends(d) == /\ LevelSize(o, d) <= 1 /\ LevelSize(t, d) <= 1
                        /\ \A e \in 0..d - 1 : LevelSize(o, e) > 1 \/ LevelSize(t, e) > 1
             d0 == CHOOSE d \in 0..t : Ends(d)
  <1>1. D \in Nat /\ t <= Power(arity, D) /\ (D > 0 => Power(arity, D - 1) < t)
    BY DepthBounds
  <1> HIDE DEF D
  <1>2. Power(arity, D) \in Nat
    BY <1>1, PowerPositive
  <1>3. LevelSize(o, D) \in Nat /\ LevelSize(o, D) <= 1 /\ LevelSize(t, D) \in Nat /\ LevelSize(t, D) <= 1
    <2>1. o <= Power(arity, D)
      BY <1>1, <1>2
    <2>2. QED
      BY <1>1, <2>1, LevelCounts
  <1>4. ASSUME NEW e \in Nat, e < D PROVE LevelSize(t, e) \in Nat /\ LevelSize(t, e) > 1
    <2>1. D - 1 \in Nat /\ e <= D - 1 /\ Power(arity, D - 1) < t
      BY <1>1, <1>4
    <2>2. Power(arity, e) \in Nat /\ Power(arity, D - 1) \in Nat
      BY <2>1, PowerPositive
    <2>3. Power(arity, e) < t
      <3>1. CASE e = D - 1
        BY <2>1, <3>1
      <3>2. CASE e < D - 1
        <4>1. Power(arity, e) < Power(arity, D - 1)
          BY <2>1, <3>2, PowerAscends
        <4>2. QED
          BY <2>1, <2>2, <4>1
      <3>3. QED
        BY <2>1, <3>1, <3>2
    <2>4. ~(t <= Power(arity, e))
      BY <2>2, <2>3
    <2>5. LevelSize(t, e) \in Nat /\ ~(LevelSize(t, e) <= 1)
      BY <2>4, LevelCounts
    <2>6. QED
      BY <2>5
  <1>5. D \in 0..t /\ Ends(D)
    <2>1. D <= t
      <3>1. CASE D = 0
        BY <3>1
      <3>2. CASE D > 0
        <4>1. D - 1 \in Nat /\ Power(arity, D - 1) < t /\ Power(arity, D - 1) \in Nat
          BY <1>1, <3>2, PowerPositive
        <4>2. Power(arity, D - 1) > D - 1
          BY <4>1, PowerAboveExponent
        <4>3. QED
          BY <1>1, <4>1, <4>2
      <3>3. QED
        BY <1>1, <3>1, <3>2
    <2>2. ASSUME NEW e \in 0..D - 1 PROVE LevelSize(t, e) > 1
      <3>1. e \in Nat /\ e < D
        BY <1>1
      <3>2. QED
        BY <1>4, <3>1
    <2>3. QED
      BY <1>1, <1>3, <2>1, <2>2
  <1>6. ConsistencyDepth(o, t) = d0
    BY DEF ConsistencyDepth
  <1>7. d0 \in 0..t /\ Ends(d0)
    <2> HIDE DEF Ends
    <2>1. QED
      BY <1>5, Zenon
  <1> HIDE DEF d0
  <1>8. d0 = D
    <2>1. d0 \in Nat
      BY <1>7
    <2>2. ~(d0 < D)
      <3>1. SUFFICES ASSUME d0 < D PROVE FALSE
        OBVIOUS
      <3>2. LevelSize(t, d0) \in Nat /\ LevelSize(t, d0) > 1
        BY <1>4, <2>1, <3>1
      <3>3. QED
        BY <1>7, <3>2
    <2>3. ~(D < d0)
      <3>1. SUFFICES ASSUME D < d0 PROVE FALSE
        OBVIOUS
      <3>2. D \in 0..d0 - 1
        BY <1>1, <2>1, <3>1
      <3>3. LevelSize(o, D) > 1 \/ LevelSize(t, D) > 1
        BY <1>7, <3>2
      <3>4. QED
        BY <1>3, <3>3
    <2>4. QED
      BY <1>1, <2>1, <2>2, <2>3
  <1>9. QED
    BY <1>6, <1>8 DEF D

\* What the generator cuts out of a level.
CutAt(rec, B, z, pos, l, n) ==
    /\ rec.shared = SubSeq(B, z + 1, z + (IF l = 0 THEN pos + 1 ELSE pos))
    /\ rec.new = SubSeq(B, z + pos + 2, z + pos + 1 + (LessOf(Len(B), z + n) - (z + pos) - 1))

GroupIn(H, B, z, pos, n) ==
    /\ IsSeq(B) /\ IsSeq(H) /\ n \in Nat \ {0} /\ z \in Nat /\ pos \in Nat
    /\ pos < Len(H) /\ Len(H) = LessOf(n, Len(B) - z) /\ Copies(H, B, z)

CountIs(H, B, z, pos, n) == LessOf(Len(B), z + n) - (z + pos) - 1 = Len(H) - pos - 1

LEMMA CutHalves ==
    ASSUME NEW B, NEW H, NEW n, NEW z, NEW pos, NEW l \in Nat, GroupIn(H, B, z, pos, n),
           NEW rec, CutAt(rec, B, z, pos, l, n)
    PROVE  Halves(rec, H, pos, l) /\ CountIs(H, B, z, pos, n)
  <1> DEFINE L == Len(B)
             m == Len(H)
             s == IF l = 0 THEN pos + 1 ELSE pos
             r == LessOf(Len(B), z + n) - (z + pos) - 1
  <1>0. /\ IsSeq(B) /\ IsSeq(H) /\ n \in Nat \ {0} /\ z \in Nat /\ pos \in Nat
        /\ pos < Len(H) /\ Len(H) = LessOf(n, Len(B) - z) /\ Copies(H, B, z)
    BY DEF GroupIn
  <1>1. L \in Nat /\ m \in Nat
    BY <1>0 DEF IsSeq
  <1>2. /\ s \in Nat /\ pos <= s /\ s <= pos + 1 /\ s <= m /\ z + m <= L
        /\ r = m - pos - 1 /\ r \in Nat /\ z + pos + 1 + r = z + m
    <2>1. s \in Nat /\ pos <= s /\ s <= pos + 1
      BY <1>0
    <2>2. m = LessOf(n, L - z) /\ pos < m
      BY <1>0
    <2>3. r = LessOf(L, z + n) - (z + pos) - 1
      OBVIOUS
    <2> HIDE DEF s, r, L, m
    <2>4. (n <= L - z /\ m = n) \/ (~(n <= L - z) /\ m = L - z)
      BY <2>2 DEF LessOf
    <2>5. LessOf(L, z + n) = z + m
      <3>1. CASE n <= L - z /\ m = n
        BY <1>0, <1>1, <3>1 DEF LessOf
      <3>2. CASE ~(n <= L - z) /\ m = L - z
        BY <1>0, <1>1, <3>2 DEF LessOf
      <3>3. QED
        BY <2>4, <3>1, <3>2
    <2>6. r = m - pos - 1 /\ r \in Nat /\ z + pos + 1 + r = z + m
      <3>1. r = (z + m) - (z + pos) - 1
        BY <2>3, <2>5, Zenon
      <3>2. pos < m
        BY <2>2
      <3>3. QED
        BY <1>0, <1>1, <3>1, <3>2
    <2>7. s <= m /\ z + m <= L
      BY <1>0, <1>1, <2>1, <2>2, <2>4
    <2>8. QED
      BY <2>1, <2>6, <2>7
  <1>3. rec.shared = SubSeq(B, z + 1, z + s) /\ rec.new = SubSeq(B, z + pos + 2, z + m)
    BY <1>2 DEF CutAt
  <1> HIDE DEF s, r, L, m
  <1>4. /\ IsSeq(rec.shared) /\ Len(rec.shared) = s
        /\ \A j \in 1..s : rec.shared[j] = B[z + j]
    <2> DEFINE x == z + 1
               y == z + s
    <2>1. x \in Nat \ {0} /\ y \in Nat /\ y <= L /\ x <= y + 1 /\ y - x + 1 = s
          /\ \A j \in 1..s : x + j - 1 = z + j
      BY <1>0, <1>1, <1>2
    <2>2. rec.shared = SubSeq(B, x, y)
      BY <1>3
    <2> HIDE DEF x, y
    <2>3. /\ IsSeq(SubSeq(B, x, y)) /\ Len(SubSeq(B, x, y)) = y - x + 1
          /\ \A k \in 1..y - x + 1 : SubSeq(B, x, y)[k] = B[x + k - 1]
      BY <1>0, <2>1, SubSeqIsSeq DEF L
    <2>4. QED
      BY <2>1, <2>2, <2>3
  <1>5. /\ IsSeq(rec.new) /\ Len(rec.new) = r
        /\ \A j \in 1..r : rec.new[j] = B[z + (pos + 1 + j)]
    <2> DEFINE x == z + pos + 2
               y == z + m
    <2>1. x \in Nat \ {0} /\ y \in Nat /\ y <= L /\ x <= y + 1 /\ y - x + 1 = r
          /\ \A j \in 1..r : x + j - 1 = z + (pos + 1 + j)
      BY <1>0, <1>1, <1>2
    <2>2. rec.new = SubSeq(B, x, y)
      BY <1>3
    <2> HIDE DEF x, y
    <2>3. /\ IsSeq(SubSeq(B, x, y)) /\ Len(SubSeq(B, x, y)) = y - x + 1
          /\ \A k \in 1..y - x + 1 : SubSeq(B, x, y)[k] = B[x + k - 1]
      BY <1>0, <2>1, SubSeqIsSeq DEF L
    <2>4. QED
      BY <2>1, <2>2, <2>3
  <1>6. ASSUME NEW j \in 1..s PROVE rec.shared[j] = H[j]
    <2>1. j \in 1..m
      BY <1>0, <1>1, <1>2
    <2>2. H[j] = B[z + j]
      BY <1>0, <2>1 DEF Copies, m
    <2>3. QED
      BY <1>4, <2>2
  <1>7. ASSUME NEW j \in 1..r PROVE rec.new[j] = H[pos + 1 + j]
    <2>1. pos + 1 + j \in 1..m
      BY <1>0, <1>1, <1>2
    <2>2. H[pos + 1 + j] = B[z + (pos + 1 + j)]
      BY <1>0, <2>1 DEF Copies, m
    <2>3. QED
      BY <1>5, <2>2
  <1>8. QED
    BY <1>2, <1>4, <1>5, <1>6, <1>7 DEF Halves, CountIs, s, m, r

\* The tree the snapshot was taken of has grown.
Grew(o, t) == arity \in Arities /\ Holds(tree, arity) /\ o \in Nat \ {0} /\ t = tree.size /\ o < t

LEMMA GrewFacts ==
    ASSUME NEW o, NEW t, Grew(o, t)
    PROVE  /\ arity \in Nat \ {0, 1} /\ arity \in Nat \ {0} /\ o \in Nat \ {0} /\ o \in Nat /\ t \in Nat /\ o < t /\ o <= t
           /\ Continues(Inserted(t), Inserted(o)) /\ Len(Inserted(o)) = o /\ Len(Inserted(t)) = t
           /\ IsSeq(Inserted(o)) /\ IsSeq(Inserted(t))
           /\ tree.depth = CeilLogN(t, arity) /\ tree.depth \in Nat /\ 0 < tree.depth /\ tree.depth <= MaxDepth
           /\ \A l \in 0..tree.depth - 1 : l \in Levels /\ l <= tree.depth /\ l \in Nat
           /\ tree.root = RootOf(Inserted(t), arity)
  <1>1. /\ arity \in Nat \ {0, 1} /\ arity \in Nat \ {0} /\ o \in Nat \ {0} /\ t \in Nat /\ o < t /\ o <= t
        /\ tree.depth <= MaxDepth /\ Shaped(tree, Inserted(t), arity) /\ tree.root = RootOf(Inserted(t), arity)
    BY ArityFacts, LeanIMTAssumption DEF Grew, Holds
  <1>2. /\ Continues(Inserted(t), Inserted(o)) /\ Len(Inserted(o)) = o /\ Len(Inserted(t)) = t
        /\ IsSeq(Inserted(o)) /\ IsSeq(Inserted(t))
    BY <1>1, InsertedContinue, InsertedIsSeq
  <1>3. tree.depth = CeilLogN(t, arity)
    BY <1>1, <1>2 DEF Shaped
  <1>4. tree.depth \in Nat /\ t <= Power(arity, tree.depth)
    BY <1>1, <1>3, DepthBounds
  <1>5. 0 < tree.depth
    <2>1. SUFFICES ASSUME tree.depth = 0 PROVE FALSE
      BY <1>4
    <2>2. Power(arity, 0) = 1
      BY <1>1, PowerSteps
    <2>3. QED
      BY <1>1, <1>4, <2>1, <2>2
  <1>6. \A l \in 0..tree.depth - 1 : l \in Levels /\ l <= tree.depth /\ l \in Nat
    BY <1>1, <1>4, LeanIMTAssumption DEF Levels
  <1>7. QED
    BY <1>1, <1>2, <1>3, <1>4, <1>5, <1>6

\* A record as the generator makes it.
MadeAt(u, o, t, l) ==
    [shared |-> SubSeq(u.levels[l], Boundary(o, l) - BoundaryPos(o, l) + 1,
                       Boundary(o, l) - BoundaryPos(o, l) + SharedCount(o, l)),
     new    |-> SubSeq(u.levels[l], Boundary(o, l) + 2, Boundary(o, l) + 1 + NewCount(o, t, l))]

LEMMA GeneratedHalves ==
    ASSUME NEW o, NEW t, Grew(o, t), NEW r, NEW l \in 0..tree.depth - 1
    PROVE  /\ Halves(GenerateConsistencyProof(tree, o, r).levels[l + 1], BoundaryGroup(Inserted(t), o, l),
                     BoundaryPos(o, l), l)
           /\ NewCount(o, t, l) = Len(BoundaryGroup(Inserted(t), o, l)) - BoundaryPos(o, l) - 1
  <1> DEFINE n == arity
             old == Inserted(o)
             new == Inserted(t)
             B == Layer(new, l, n)
             H == BoundaryGroup(new, o, l)
             pos == BoundaryPos(o, l)
             b == Boundary(o, l)
             z == (b \div n) * n
             D == tree.depth
             rec == GenerateConsistencyProof(tree, o, r).levels[l + 1]
  <1>1. /\ n \in Nat \ {0, 1} /\ n \in Nat \ {0} /\ o \in Nat \ {0} /\ o \in Nat /\ t \in Nat /\ o < t
        /\ Continues(new, old) /\ Len(old) = o /\ Len(new) = t /\ IsSeq(new)
        /\ D = CeilLogN(t, n) /\ D \in Nat /\ l \in Levels /\ l <= D /\ l \in Nat
    BY GrewFacts
  <1>2. tree.levels[l] = B
    <2>1. arity \in Arities /\ Holds(tree, arity) /\ t = tree.size
      BY DEF Grew
    <2>2. QED
      BY <1>1, <2>1, LevelIsLayer
  <1>3. ConsistencyDepth(o, t) = D
    BY <1>1, ConsistencyDepthIs
  <1>4. IsSeq(B) /\ Len(B) = LevelSize(t, l)
    BY <1>1, LayerIsSeq DEF LevelSize, Span
  <1>5. b \in Nat /\ b \div n \in Nat /\ pos \in 0..n - 1 /\ b - pos = z
    BY <1>1, BoundaryIs
  <1>6. z \in Nat /\ b = z + pos
    <2>1. PICK g \in Nat : g = b \div n
      BY <1>5
    <2>2. g * n \in Nat /\ z = g * n
      BY <1>1, <2>1
    <2> HIDE DEF z, b, pos
    <2>3. QED
      BY <1>1, <1>5, <2>2
  <1>7. /\ BoundaryGroups(BoundaryGroup(old, o, l), H, pos, old, new, l, n)
        /\ Len(H) = LessOf(n, Len(B) - z) /\ Copies(H, B, z)
    <2>1. /\ BoundaryGroups(BoundaryGroup(old, Len(old), l), BoundaryGroup(new, Len(old), l),
                            BoundaryPos(Len(old), l), old, new, l, arity)
          /\ Len(BoundaryGroup(new, Len(old), l)) =
               LessOf(arity, LevelSize(Len(new), l) - (Boundary(Len(old), l) \div arity) * arity)
          /\ Copies(BoundaryGroup(new, Len(old), l), Layer(new, l, arity),
                    (Boundary(Len(old), l) \div arity) * arity)
      BY ONLY <1>1, BoundaryHere, Zenon
    <2>2. QED
      BY <1>1, <1>4, <2>1, Zenon
  <1>8. IsSeq(H) /\ pos \in Nat /\ pos < Len(H)
    BY <1>7 DEF BoundaryGroups
  <1>9. /\ rec.shared = SubSeq(B, b - pos + 1, b - pos + SharedCount(o, l))
        /\ rec.new = SubSeq(B, b + 2, b + 1 + NewCount(o, t, l))
    <2>1. GenerateConsistencyProof(tree, o, r).levels = [k \in 1..D |-> MadeAt(tree, o, t, k - 1)]
      <3>1. t = tree.size
        BY DEF Grew
      <3>2. QED
        BY <1>3, <3>1 DEF GenerateConsistencyProof, MadeAt
    <2>2. l + 1 \in 1..D /\ l + 1 - 1 = l
      BY <1>1
    <2>3. rec = MadeAt(tree, o, t, l)
      BY <2>1, <2>2
    <2> HIDE DEF rec, B
    <2>4. MadeAt(tree, o, t, l) = [shared |-> SubSeq(B, b - pos + 1, b - pos + SharedCount(o, l)),
                                   new    |-> SubSeq(B, b + 2, b + 1 + NewCount(o, t, l))]
      BY <1>2, Zenon DEF MadeAt
    <2> HIDE DEF b, pos
    <2> DEFINE sx == SubSeq(B, b - pos + 1, b - pos + SharedCount(o, l))
               nx == SubSeq(B, b + 2, b + 1 + NewCount(o, t, l))
    <2>5. rec = [shared |-> sx, new |-> nx]
      BY <2>3, <2>4, Zenon
    <2> HIDE DEF sx, nx
    <2>6. rec.shared = sx /\ rec.new = nx
      BY <2>5
    <2>7. QED
      BY <2>6, Zenon DEF sx, nx
  <1>10. /\ SharedCount(o, l) = (IF l = 0 THEN pos + 1 ELSE pos)
         /\ NewCount(o, t, l) = LessOf(Len(B), z + n) - (z + pos) - 1
    BY <1>4, <1>5, <1>6 DEF SharedCount, NewCount
  <1>11. GroupIn(H, B, z, pos, n)
    BY <1>1, <1>4, <1>6, <1>7, <1>8 DEF GroupIn
  <1> HIDE DEF z, b, pos, H, B, rec
  <1>12. CutAt(rec, B, z, pos, l, n)
    <2>1. b - pos = z /\ b + 2 = z + pos + 2 /\ b + 1 = z + pos + 1
      BY <1>5, <1>6, <1>8
    <2>2. QED
      BY <1>9, <1>10, <2>1 DEF CutAt
  <1>13. Halves(rec, H, pos, l) /\ CountIs(H, B, z, pos, n)
    BY <1>1, <1>11, <1>12, CutHalves
  <1>14. QED
    BY <1>10, <1>13 DEF rec, H, pos, CountIs

\* c has the records and sizes of the tree's consistency proof for its first o leaves.
IsProofOf(c, o, t) ==
    /\ c.old = o /\ c.now = t
    /\ \E r : c.levels = GenerateConsistencyProof(tree, o, r).levels

\* Such a proof is well formed and climbs to the two roots.
LEMMA ProofClimbs ==
    ASSUME NEW o, NEW t, Grew(o, t), NEW c, IsProofOf(c, o, t)
    PROVE  /\ Len(c.levels) = tree.depth /\ ShowsBoundary(c, Inserted(o), Inserted(t))
           /\ ConsistencyWellFormed(c)
           /\ BoundaryHashes(c)[tree.depth] = Pair(RootOf(Inserted(o), arity), RootOf(Inserted(t), arity))
  <1> DEFINE n == arity
             old == Inserted(o)
             new == Inserted(t)
             D == tree.depth
  <1>1. /\ n \in Nat \ {0, 1} /\ o \in Nat \ {0} /\ o \in Nat /\ t \in Nat /\ o < t /\ o <= t
        /\ Continues(new, old) /\ Len(old) = o /\ Len(new) = t /\ IsSeq(old) /\ IsSeq(new)
        /\ D = CeilLogN(t, n) /\ D \in Nat /\ 0 < D /\ D <= MaxDepth
        /\ \A l \in 0..D - 1 : l \in Nat
    BY GrewFacts
  <1>2. c.old = o /\ c.now = t
    BY DEF IsProofOf
  <1>3. PICK r : c.levels = GenerateConsistencyProof(tree, o, r).levels
    BY DEF IsProofOf
  <1>4. ConsistencyDepth(o, t) = D
    BY <1>1, ConsistencyDepthIs
  <1>5. Len(c.levels) = D
    <2>1. t = tree.size
      BY DEF Grew
    <2>2. QED
      BY <1>1, <1>3, <1>4, <2>1 DEF GenerateConsistencyProof
  <1>6. ASSUME NEW l \in 0..D - 1
        PROVE  /\ Halves(c.levels[l + 1], BoundaryGroup(new, o, l), BoundaryPos(o, l), l)
               /\ NewCount(o, t, l) = Len(BoundaryGroup(new, o, l)) - BoundaryPos(o, l) - 1
    BY <1>3, GeneratedHalves
  <1>7. ShowsBoundary(c, old, new)
    BY <1>1, <1>2, <1>5, <1>6 DEF ShowsBoundary
  <1>8. ConsistencyWellFormed(c)
    <2>1. ASSUME NEW k \in 1..D
          PROVE  /\ Len(c.levels[k].shared) = SharedCount(o, k - 1)
                 /\ Len(c.levels[k].new) = NewCount(o, t, k - 1)
      <3>1. PICK l \in 0..D - 1 : l + 1 = k /\ k - 1 = l
        <4>1. k - 1 \in 0..D - 1 /\ (k - 1) + 1 = k
          BY <1>1
        <4>2. QED
          BY <4>1
      <3>2. /\ Halves(c.levels[k], BoundaryGroup(new, o, l), BoundaryPos(o, l), l)
            /\ NewCount(o, t, l) = Len(BoundaryGroup(new, o, l)) - BoundaryPos(o, l) - 1
        BY <1>6, <3>1
      <3>3. Len(c.levels[k].shared) = SharedCount(o, l)
        BY <3>2 DEF Halves, SharedCount
      <3>4. Len(c.levels[k].new) = NewCount(o, t, l)
        BY <3>2 DEF Halves
      <3>5. QED
        BY <3>1, <3>3, <3>4
    <2>2. QED
      BY <1>1, <1>2, <1>4, <1>5, <2>1 DEF ConsistencyWellFormed
  <1>9. BoundaryHashes(c)[D] = Pair(RootOf(old, n), RootOf(new, n))
    <2> HIDE DEF old, new
    <2>1. D \in 0..Len(c.levels) /\ 0 < Len(c.levels)
      BY <1>1, <1>5
    <2>2. BoundaryHashes(c)[D] = Pair(PathNode(old, Len(old) - 1, D, n), PathNode(new, Len(old) - 1, D, n))
      BY <1>1, <1>7, <2>1, BoundaryClimbs
    <2>3. PathNode(old, Len(old) - 1, D, n) = RootOf(old, n)
      <3>1. CeilLogN(Len(old), n) <= D
        BY <1>1, DepthAscends
      <3>2. 0 < Len(old)
        BY <1>1
      <3>3. QED
        BY <1>1, <3>1, <3>2, TopIsRoot
    <2>4. PathNode(new, Len(old) - 1, D, n) = RootOf(new, n)
      <3>1. o - 1 \in Nat /\ o - 1 < t /\ t # 0
        BY <1>1
      <3>2. (o - 1) \div Power(n, D) = 0
        BY <1>1, <3>1, TopNode
      <3>3. RootOf(new, n) = Layer(new, D, n)[1]
        BY <1>1, <3>1 DEF RootOf
      <3>4. QED
        BY <1>1, <3>2, <3>3 DEF PathNode
    <2>5. QED
      BY <2>2, <2>3, <2>4
  <1>10. QED
    BY <1>5, <1>7, <1>8, <1>9

\* A proof of the tree verifies exactly for its own roots.
LEMMA ProofVerifies ==
    ASSUME NEW o, NEW t, Grew(o, t), NEW c, IsProofOf(c, o, t)
    PROVE  VerifyConsistency(c) <=> c.oldRoot = RootOf(Inserted(o), arity) /\ c.newRoot = RootOf(Inserted(t), arity)
  <1> DEFINE a == RootOf(Inserted(o), arity)
             b == RootOf(Inserted(t), arity)
  <1>1. /\ Len(c.levels) = tree.depth /\ ConsistencyWellFormed(c)
        /\ BoundaryHashes(c)[tree.depth] = Pair(a, b)
    BY ProofClimbs
  <1>2. c.old # c.now
    <2>1. o \in Nat /\ t \in Nat /\ o < t
      BY GrewFacts
    <2>2. QED
      BY <2>1 DEF IsProofOf
  <1> HIDE DEF a, b
  <1>3. BoundaryHashes(c)[Len(c.levels)].old = a /\ BoundaryHashes(c)[Len(c.levels)].new = b
    BY <1>1 DEF Pair
  <1>4. VerifyConsistency(c) <=> a = c.oldRoot /\ b = c.newRoot
    BY <1>1, <1>2, <1>3, Zenon DEF VerifyConsistency
  <1>5. QED
    BY <1>4 DEF a, b

-----------------------------------------------------------------------------
(***************************************************************************)
(* update_inclusion_proof: the groups before the boundary's are full and   *)
(* do not change; the boundary's gets its new hash and its new neighbours. *)
(***************************************************************************)
\* Two sequences with the same nodes everywhere but at pos + 1.
SameBut(s, t, pos) ==
    /\ IsSeq(s) /\ IsSeq(t) /\ Len(s) = Len(t) /\ pos \in Nat /\ pos < Len(t)
    /\ \A j \in 1..Len(t) : j # pos + 1 => s[j] = t[j]

LEMMA SiblingsAgree ==
    ASSUME NEW s, NEW t, NEW pos, SameBut(s, t, pos)
    PROVE  Siblings(s, pos) = Siblings(t, pos)
  <1> DEFINE len == Len(t)
             a == Siblings(s, pos)
             b == Siblings(t, pos)
  <1>1. /\ IsSeq(s) /\ IsSeq(t) /\ Len(s) = len /\ pos \in Nat /\ pos < len /\ len \in Nat
        /\ \A j \in 1..len : j # pos + 1 => s[j] = t[j]
    BY DEF SameBut, IsSeq
  <1>2. /\ IsSeq(a) /\ Len(a) = len - 1
        /\ \A j \in 1..len - 1 : a[j] = IF j <= pos THEN s[j] ELSE s[j + 1]
    <2>1. /\ IsSeq(a) /\ Len(a) = Len(s) - 1
          /\ \A j \in 1..Len(s) - 1 : a[j] = IF j <= pos THEN s[j] ELSE s[j + 1]
      BY <1>1, SiblingsOfGroup
    <2>2. QED
      BY <1>1, <2>1
  <1>3. /\ IsSeq(b) /\ Len(b) = len - 1
        /\ \A j \in 1..len - 1 : b[j] = IF j <= pos THEN t[j] ELSE t[j + 1]
    BY <1>1, SiblingsOfGroup
  <1> HIDE DEF a, b, len
  <1>4. ASSUME NEW j \in 1..len - 1 PROVE a[j] = b[j]
    <2>1. CASE j <= pos
      <3>1. j \in 1..len /\ j # pos + 1
        BY <1>1, <2>1
      <3>2. QED
        BY <1>1, <1>2, <1>3, <2>1, <3>1
    <2>2. CASE ~(j <= pos)
      <3>1. j + 1 \in 1..len /\ j + 1 # pos + 1
        BY <1>1, <2>2
      <3>2. s[j + 1] = t[j + 1]
        BY <1>1, <3>1
      <3>3. QED
        BY <1>2, <1>3, <2>2, <3>2
    <2>3. QED
      BY <2>1, <2>2
  <1>5. a = b
    BY <1>2, <1>3, <1>4, SeqEqual2
  <1>6. QED
    BY <1>5 DEF a, b

LEMMA PutElsewhere ==
    ASSUME NEW group, IsSeq(group), NEW pos \in Nat, pos < Len(group), NEW node
    PROVE  SameBut(Put(Siblings(group, pos), pos, node), group, pos)
  <1> DEFINE sib == Siblings(group, pos)
             len == Len(group)
             s == Put(sib, pos, node)
  <1>0. len \in Nat /\ len - 1 + 1 = len /\ pos <= len - 1 /\ pos < len
    BY DEF IsSeq
  <1>1. /\ IsSeq(sib) /\ Len(sib) = len - 1
        /\ \A j \in 1..len - 1 : sib[j] = IF j <= pos THEN group[j] ELSE group[j + 1]
    BY SiblingsOfGroup
  <1> HIDE DEF sib, len
  <1>2. /\ IsSeq(s) /\ Len(s) = Len(sib) + 1
        /\ \A j \in 1..Len(sib) + 1 : s[j] =
             IF j <= pos THEN sib[j] ELSE IF j = pos + 1 THEN node ELSE sib[j - 1]
    BY <1>0, <1>1, PutIsSeq
  <1> HIDE DEF s
  <1>3. Len(s) = len /\ \A j \in 1..len : s[j] =
             IF j <= pos THEN sib[j] ELSE IF j = pos + 1 THEN node ELSE sib[j - 1]
    BY <1>0, <1>1, <1>2
  <1>4. ASSUME NEW j \in 1..len, j # pos + 1 PROVE s[j] = group[j]
    <2>1. CASE j <= pos
      <3>1. j \in 1..len - 1
        BY <1>0, <2>1
      <3>2. QED
        BY <1>1, <1>3, <2>1, <3>1
    <2>2. CASE j > pos + 1
      <3>1. j - 1 \in 1..len - 1 /\ ~(j - 1 <= pos) /\ j - 1 + 1 = j /\ ~(j <= pos)
        BY <1>0, <2>2
      <3>2. sib[j - 1] = group[j - 1 + 1]
        BY <1>1, <3>1
      <3>3. QED
        BY <1>3, <1>4, <3>1, <3>2
    <2>3. QED
      BY <1>0, <1>4, <2>1, <2>2
  <1>5. QED
    BY <1>0, <1>2, <1>3, <1>4 DEF SameBut, s, sib, len

\* The boundary's group among the old nodes, brought up to date.
Renewed(G, H, bpos, pos, l) ==
    IF l > 0 /\ pos # bpos THEN [Put(Siblings(G, pos), pos, Zero) EXCEPT ![bpos + 1] = H[bpos + 1]]
    ELSE Put(Siblings(G, pos), pos, Zero)

\* With the nodes to the right of the boundary it has the new group's siblings.
LEMMA RenewedGrows ==
    ASSUME NEW n, NEW old, NEW new, NEW l \in Nat, NEW G, NEW H, NEW bpos,
           BoundaryGroups(G, H, bpos, old, new, l, n), NEW rec, Halves(rec, H, bpos, l),
           l = 0 => G[bpos + 1] = H[bpos + 1], NEW pos \in Nat, pos <= bpos
    PROVE  Siblings(Renewed(G, H, bpos, pos, l) \o rec.new, pos) = Siblings(H, pos)
  <1> DEFINE nw == rec.new
             m == Len(H)
             put == Put(Siblings(G, pos), pos, Zero)
             r == Renewed(G, H, bpos, pos, l)
             u == r \o nw
  <1>1. /\ IsSeq(G) /\ IsSeq(H) /\ bpos \in Nat /\ Len(G) = bpos + 1 /\ bpos < m /\ m \in Nat
        /\ \A j \in 1..bpos : G[j] = H[j]
    BY DEF BoundaryGroups, IsSeq
  <1>2. IsSeq(nw) /\ Len(nw) = m - bpos - 1 /\ \A j \in 1..Len(nw) : nw[j] = H[bpos + 1 + j]
    BY <1>1 DEF Halves, IsSeq
  <1>3. SameBut(put, G, pos)
    <2>1. pos < Len(G)
      BY <1>1
    <2>2. QED
      BY <1>1, <2>1, PutElsewhere
  <1>4. IsSeq(put) /\ Len(put) = bpos + 1 /\ \A j \in 1..bpos + 1 : j # pos + 1 => put[j] = G[j]
    BY <1>1, <1>3 DEF SameBut
  <1>5. r = IF l > 0 /\ pos # bpos THEN [put EXCEPT ![bpos + 1] = H[bpos + 1]] ELSE put
    BY DEF Renewed
  <1> HIDE DEF put, nw, m, r
  <1>6. IsSeq(r) /\ Len(r) = bpos + 1 /\ \A j \in 1..bpos + 1 : j # pos + 1 => r[j] = H[j]
    <2>1. put = [j \in 1..bpos + 1 |-> put[j]]
      BY <1>4 DEF IsSeq
    <2>2. r = [j \in 1..bpos + 1 |-> r[j]]
      BY <1>5, <2>1
    <2>3. bpos + 1 \in Nat
      BY <1>1
    <2>4. IsSeq(r) /\ Len(r) = bpos + 1
      BY <2>2, <2>3, TableIsSeq
    <2>5. ASSUME NEW j \in 1..bpos + 1, j # pos + 1 PROVE r[j] = H[j]
      <3>1. CASE j \in 1..bpos
        <4>1. put[j] = G[j] /\ G[j] = H[j] /\ j # bpos + 1
          BY <1>1, <1>4, <2>5, <3>1
        <4>2. QED
          BY <1>5, <2>1, <4>1
      <3>2. CASE j = bpos + 1
        <4>1. pos # bpos
          BY <2>5, <3>2
        <4>2. CASE l = 0
          <5>1. r = put
            BY <1>5, <4>2
          <5>2. QED
            BY <1>4, <2>5, <3>2, <4>2, <5>1
        <4>3. CASE l > 0
          BY <1>5, <2>1, <3>2, <4>1, <4>3
        <4>4. QED
          BY <4>2, <4>3
      <3>3. QED
        BY <1>1, <3>1, <3>2
    <2>6. QED
      BY <2>4, <2>5
  <1>7. /\ IsSeq(u) /\ Len(u) = m
        /\ \A k \in 1..m : u[k] = IF k <= bpos + 1 THEN r[k] ELSE nw[k - (bpos + 1)]
    <2>1. /\ IsSeq(u) /\ Len(u) = Len(r) + Len(nw)
          /\ \A k \in 1..Len(r) + Len(nw) : u[k] = IF k <= Len(r) THEN r[k] ELSE nw[k - Len(r)]
      BY <1>2, <1>6, ConcatIsSeq
    <2>2. Len(r) + Len(nw) = m
      BY <1>1, <1>2, <1>6
    <2>3. QED
      BY <1>6, <2>1, <2>2, Zenon
  <1> HIDE DEF u
  <1>8. ASSUME NEW k \in 1..m, k # pos + 1 PROVE u[k] = H[k]
    <2>1. CASE k <= bpos + 1
      <3>1. k \in 1..bpos + 1
        BY <1>1, <2>1
      <3>2. QED
        BY <1>6, <1>7, <1>8, <2>1, <3>1
    <2>2. CASE ~(k <= bpos + 1)
      <3>1. k - (bpos + 1) \in 1..Len(nw) /\ bpos + 1 + (k - (bpos + 1)) = k
        BY <1>1, <1>2, <2>2
      <3>2. QED
        BY <1>2, <1>7, <2>2, <3>1
    <2>3. QED
      BY <2>1, <2>2
  <1>9. SameBut(u, H, pos)
    BY <1>1, <1>7, <1>8 DEF SameBut, m
  <1>10. Siblings(u, pos) = Siblings(H, pos)
    BY <1>9, SiblingsAgree
  <1>11. QED
    BY <1>10 DEF u, r, nw

\* A node of a path stands in a group up to the boundary's and, in that one, not behind it.
UpTo(m, b, n) ==
    /\ m \in Nat /\ b \in Nat /\ m <= b /\ m \div n \in Nat /\ b \div n \in Nat
    /\ m % n \in 0..n - 1 /\ m \div n <= b \div n
    /\ m \div n = b \div n => m % n <= b % n

LEMMA GroupsUpTo ==
    ASSUME NEW n \in Nat \ {0}, NEW m \in Nat, NEW b \in Nat, m <= b
    PROVE  UpTo(m, b, n)
  <1>1. /\ m \div n \in Nat /\ m % n \in 0..n - 1 /\ m = (m \div n) * n + (m % n)
        /\ (m \div n) * n <= m
    BY DivBounds
  <1>2. /\ b \div n \in Nat /\ b % n \in 0..n - 1 /\ b = (b \div n) * n + (b % n)
        /\ b < (b \div n) * n + n
    BY DivBounds
  <1>3. PICK x \in Nat : x = m \div n /\ x * n <= m
    BY <1>1
  <1>4. PICK y \in Nat : y = b \div n /\ b < y * n + n
    BY <1>2
  <1>5. PICK u \in Nat : u = x * n
    BY <1>3
  <1>6. PICK v \in Nat : v = y * n
    BY <1>4
  <1>7. x * n <= b
    BY <1>3, <1>5
  <1>8. y >= x
    BY <1>4, <1>7, QuotientAbove
  <1>9. ASSUME x = y PROVE m % n <= b % n
    <2>1. m = u + (m % n) /\ b = u + (b % n)
      BY <1>1, <1>2, <1>3, <1>4, <1>5, <1>9
    <2>2. PICK g \in Nat : g = m % n
      BY <1>1
    <2>3. PICK h \in Nat : h = b % n
      BY <1>2
    <2>4. g <= h
      BY <2>1, <2>2, <2>3
    <2>5. QED
      BY <2>2, <2>3, <2>4
  <1>10. QED
    BY <1>1, <1>2, <1>3, <1>4, <1>8, <1>9 DEF UpTo

LEMMA PathUpTo ==
    ASSUME arity \in Nat \ {0, 1}, NEW o \in Nat \ {0}, NEW i \in 0..o - 1, NEW l \in Nat
    PROVE  UpTo(i \div Power(arity, l), Boundary(o, l), arity)
  <1> DEFINE P == Power(arity, l)
             m == i \div P
  <1>1. P \in Nat \ {0} /\ arity \in Nat \ {0}
    BY PowerPositive
  <1>2. i \in Nat /\ o - 1 \in Nat /\ i <= o - 1 /\ o \in Nat /\ o - 1 < o
    OBVIOUS
  <1>3. Boundary(o, l) = (o - 1) \div P /\ Boundary(o, l) \in Nat
    BY BoundaryIs
  <1>4. m \in Nat /\ m * P <= i
    <2> HIDE DEF P
    <2>1. QED
      BY <1>1, <1>2, DivBounds
  <1>5. m <= (o - 1) \div P
    <2>1. \A k \in Nat : k <= (o - 1) \div Power(arity, l) <=> k * Power(arity, l) <= o - 1
      BY <1>2, DirtyFacts
    <2> HIDE DEF m
    <2>2. PICK x \in Nat : x = m * P
      BY <1>1, <1>4
    <2>3. m * P <= o - 1
      BY <1>2, <1>4, <2>2
    <2>4. QED
      BY <1>4, <2>1, <2>3
  <1>6. UpTo(m, Boundary(o, l), arity)
    <2> HIDE DEF m, P
    <2>1. m <= Boundary(o, l)
      BY <1>3, <1>5
    <2>2. QED
      BY <1>1, <1>3, <1>4, <2>1, GroupsUpTo
  <1>7. QED
    BY <1>6

LEMMA LastFits ==
    ASSUME NEW z \in Nat, NEW n \in Nat \ {0}, NEW x \in Nat, NEW b \in Nat, z + n + x <= b
    PROVE  z + n <= b /\ 0 < b
  OBVIOUS

\* The groups before the boundary's are full and stay as they are.
LEMMA GroupsBefore ==
    ASSUME NEW n \in Nat \ {0, 1}, NEW old, NEW new, Continues(new, old), NEW l \in Nat,
           NEW b, b = (Len(old) - 1) \div Power(n, l), NEW q \in Nat, q < b \div n
    PROVE  Group(Layer(old, l, n), q, n) = Group(Layer(new, l, n), q, n) /\ 0 < b
  <1> DEFINE A == Layer(old, l, n)
             B == Layer(new, l, n)
             z == q * n
             G == Group(A, q, n)
             H == Group(B, q, n)
  <1>1. /\ b \in Nat /\ IsSeq(A) /\ IsSeq(B) /\ Len(A) = b + 1 /\ b < Len(B)
        /\ \A k \in 1..b : A[k] = B[k]
    BY BoundaryNodes
  <1>2. n \in Nat \ {0} /\ Len(B) \in Nat /\ z \in Nat
    BY <1>1 DEF IsSeq
  <1> HIDE DEF A, B, G, H
  <1>3. PICK y \in Nat : y = b \div n /\ y * n <= b /\ q < y
    BY <1>1, <1>2, DivBounds
  <1>4. z + n <= b /\ 0 < b
    <2>1. PICK d \in Nat : y = q + 1 + d
      <3>1. y - q - 1 \in Nat /\ y = q + 1 + (y - q - 1)
        BY <1>3
      <3>2. QED
        BY <3>1
    <2>2. (q + 1 + d) * n = q * n + n + d * n /\ d * n \in Nat
      BY <1>2
    <2>3. PICK x \in Nat : x = d * n /\ y * n = z + n + x
      BY <2>1, <2>2
    <2> HIDE DEF z
    <2>4. z + n + x <= b
      BY <1>3, <2>3, Zenon
    <2>5. QED
      BY <1>1, <1>2, <2>4, LastFits
  <1>5. Starts(A, q, n) /\ Starts(B, q, n)
    <2>1. z <= Len(A) /\ z <= Len(B)
      <3> HIDE DEF z
      <3>1. QED
        BY <1>1, <1>2, <1>4
    <2>2. QED
      BY <2>1 DEF Starts
  <1>6. /\ IsSeq(G) /\ Len(G) = GroupLen(A, q, n) /\ Copies(G, A, z)
        /\ IsSeq(H) /\ Len(H) = GroupLen(B, q, n) /\ Copies(H, B, z)
    BY <1>1, <1>2, <1>5, GroupCopies DEF G, H
  <1>7. GroupLen(A, q, n) = LessOf(n, (b + 1) - z) /\ GroupLen(B, q, n) = LessOf(n, Len(B) - z)
    BY <1>1 DEF GroupLen
  <1> HIDE DEF z
  <1>8. Len(G) = n /\ Len(H) = n
    <2>1. n <= (b + 1) - z /\ n <= Len(B) - z
      BY <1>1, <1>2, <1>4
    <2>2. QED
      BY <1>6, <1>7, <2>1 DEF LessOf
  <1>9. ASSUME NEW j \in 1..n PROVE G[j] = H[j]
    <2>1. z + j \in 1..b
      BY <1>1, <1>2, <1>4
    <2>2. G[j] = A[z + j] /\ H[j] = B[z + j]
      BY <1>6, <1>8 DEF Copies
    <2>3. QED
      BY <1>1, <2>1, <2>2
  <1>10. G = H
    BY <1>6, <1>8, <1>9, SeqEqual2
  <1>11. QED
    BY <1>4, <1>10 DEF G, H, A, B

\* A record of an inclusion proof, by the leaves.
RecordOf(leaves, i, l) ==
    [position |-> (i \div Power(arity, l)) % arity,
     siblings |-> Siblings(Group(Layer(leaves, l, arity), (i \div Power(arity, l)) \div arity, arity),
                           (i \div Power(arity, l)) % arity)]

LEMMA RecordsOfProof ==
    ASSUME arity \in Arities, NEW t, Holds(t, arity), NEW i \in Nat
    PROVE  GenerateProof(t, i).levels = [k \in 1..t.depth |-> RecordOf(Inserted(t.size), i, k - 1)]
  <1>1. /\ arity \in Nat \ {0, 1} /\ t.size \in Nat /\ t.depth <= MaxDepth
        /\ t.depth = CeilLogN(t.size, arity) /\ t.depth \in Nat
    <2>1. arity \in Nat \ {0, 1} /\ t.size \in Nat /\ t.depth <= MaxDepth /\ Shaped(t, Inserted(t.size), arity)
      BY ArityFacts, LeanIMTAssumption DEF Holds
    <2>2. Len(Inserted(t.size)) = t.size
      BY <2>1, InsertedIsSeq
    <2>3. QED
      BY <2>1, <2>2, DepthBounds DEF Shaped
  <1>2. ASSUME NEW k \in 1..t.depth PROVE t.levels[k - 1] = Layer(Inserted(t.size), k - 1, arity)
    <2>1. k - 1 \in Levels /\ k - 1 <= t.depth
      BY <1>1, LeanIMTAssumption DEF Levels
    <2>2. QED
      BY <2>1, LevelIsLayer
  <1>3. QED
    BY <1>2 DEF GenerateProof, RecordOf, Span, Children

\* The siblings a proof has at a level, and a level of the proof brought up to date.
SiblingsAt(p, l) == IF l < Len(p.levels) THEN p.levels[l + 1].siblings ELSE <<>>

UpdatedAt(c, p, l) ==
    IF (p.index \div Span(l)) \div arity # Boundary(c.old, l) \div arity
    THEN IF l < Len(p.levels) THEN p.levels[l + 1] ELSE [position |-> 0, siblings |-> <<>>]
    ELSE [position |-> (p.index \div Span(l)) % arity,
          siblings |-> Siblings(Refresh(Put(SiblingsAt(p, l), (p.index \div Span(l)) % arity, Zero), l,
                                        (p.index \div Span(l)) % arity, c) \o c.levels[l + 1].new,
                                (p.index \div Span(l)) % arity)]

\* p has the records of the inclusion proof of leaf i among the first o.
HasRecords(p, o, i) ==
    /\ p.index = i /\ i \in 0..o - 1
    /\ p.levels = [k \in 1..CeilLogN(o, arity) |-> RecordOf(Inserted(o), i, k - 1)]

\* The proof reaches a level whose nodes are more than one; above, a group is one node.
LEMMA RecordAt ==
    ASSUME arity \in Nat \ {0, 1}, NEW o \in Nat \ {0}, NEW p, NEW i, HasRecords(p, o, i), NEW l \in Nat
    PROVE  /\ l < Len(p.levels) => p.levels[l + 1] = RecordOf(Inserted(o), i, l)
           /\ ~(l < Len(p.levels)) => Boundary(o, l) = 0
  <1> DEFINE e == CeilLogN(o, arity)
  <1>1. e \in Nat /\ o <= Power(arity, e)
    BY DepthBounds
  <1> HIDE DEF e
  <1>2. p.levels = [k \in 1..e |-> RecordOf(Inserted(o), i, k - 1)]
    BY DEF HasRecords, e
  <1>3. Len(p.levels) = e
    BY <1>1, <1>2
  <1>4. ASSUME l < e PROVE p.levels[l + 1] = RecordOf(Inserted(o), i, l)
    <2>1. l + 1 \in 1..e /\ l + 1 - 1 = l
      BY <1>1, <1>4
    <2>2. QED
      BY <1>2, <2>1
  <1>5. ASSUME ~(l < e) PROVE Boundary(o, l) = 0
    <2>1. e <= l
      BY <1>1, <1>5
    <2>2. Power(arity, e) \in Nat /\ Power(arity, l) \in Nat
      BY <1>1, PowerPositive
    <2>3. o <= Power(arity, l)
      <3>1. CASE e = l
        BY <1>1, <3>1
      <3>2. CASE e < l
        <4>1. Power(arity, e) < Power(arity, l)
          BY <1>1, <3>2, PowerAscends
        <4>2. QED
          BY <1>1, <2>2, <4>1
      <3>3. QED
        BY <1>1, <2>1, <3>1, <3>2
    <2>4. LevelSize(o, l) <= 1
      BY <2>3, LevelCounts
    <2>5. LevelSize(o, l) = Boundary(o, l) + 1 /\ Boundary(o, l) \in Nat
      BY BoundaryIs
    <2>6. QED
      BY <2>4, <2>5
  <1>6. QED
    BY <1>3, <1>4, <1>5

\* Every level comes out as the new tree's proof has it.
LEMMA UpdatedIs ==
    ASSUME NEW o, NEW t, Grew(o, t), NEW c, IsProofOf(c, o, t), NEW p, NEW i, HasRecords(p, o, i),
           NEW l \in 0..tree.depth - 1
    PROVE  UpdatedAt(c, p, l) = RecordOf(Inserted(t), i, l)
  <1> DEFINE n == arity
             old == Inserted(o)
             new == Inserted(t)
             m == i \div Power(n, l)
             b == Boundary(o, l)
             pos == m % n
             bpos == BoundaryPos(o, l)
             G == BoundaryGroup(old, o, l)
             H == BoundaryGroup(new, o, l)
             rec == c.levels[l + 1]
             D == tree.depth
  <1>1. /\ n \in Nat \ {0, 1} /\ n \in Nat \ {0} /\ o \in Nat \ {0} /\ o \in Nat /\ t \in Nat /\ o < t
        /\ Continues(new, old) /\ Len(old) = o /\ Len(new) = t /\ IsSeq(old) /\ IsSeq(new)
        /\ D \in Nat /\ 0 < D /\ l \in Nat
    BY GrewFacts
  <1>2. c.old = o /\ p.index = i /\ i \in 0..o - 1
    BY DEF IsProofOf, HasRecords
  <1>3. UpTo(m, b, n)
    BY <1>1, <1>2, PathUpTo
  <1>4. Len(c.levels) = D /\ ShowsBoundary(c, old, new)
    BY ProofClimbs
  <1>5. b = (Len(old) - 1) \div Power(n, l) /\ bpos = b % n
    <2>1. b = (o - 1) \div Power(n, l)
      BY <1>1, BoundaryIs
    <2>2. QED
      BY <1>1, <2>1 DEF BoundaryPos
  <1>6. /\ l < Len(p.levels) => p.levels[l + 1] = RecordOf(old, i, l)
        /\ ~(l < Len(p.levels)) => b = 0
    BY <1>1, RecordAt
  <1>7. UpdatedAt(c, p, l) =
          IF m \div n # b \div n
          THEN IF l < Len(p.levels) THEN p.levels[l + 1] ELSE [position |-> 0, siblings |-> <<>>]
          ELSE [position |-> pos,
                siblings |-> Siblings(Refresh(Put(SiblingsAt(p, l), pos, Zero), l, pos, c) \o rec.new, pos)]
    BY <1>2, Zenon DEF UpdatedAt, Span
  <1>8. CASE m \div n # b \div n
    <2>1. m \div n \in Nat /\ m \div n < b \div n
      BY <1>3, <1>8 DEF UpTo
    <2>2. Group(Layer(old, l, n), m \div n, n) = Group(Layer(new, l, n), m \div n, n) /\ 0 < b
      <3> HIDE DEF m, b, old, new
      <3>1. PICK q \in Nat : q = m \div n /\ q < b \div n
        BY <2>1
      <3>2. Group(Layer(old, l, n), q, n) = Group(Layer(new, l, n), q, n) /\ 0 < b
        BY <1>1, <1>5, <3>1, GroupsBefore
      <3>3. QED
        BY <3>1, <3>2
    <2>3. RecordOf(old, i, l) = RecordOf(new, i, l)
      BY <2>2, Zenon DEF RecordOf
    <2>4. l < Len(p.levels)
      <3> HIDE DEF b
      <3>1. QED
        BY <1>6, <2>2
    <2>5. QED
      BY <1>6, <1>7, <1>8, <2>3, <2>4, Zenon
  <1>9. CASE m \div n = b \div n
    <2>1. pos \in Nat /\ pos <= bpos /\ pos \in 0..n - 1
      <3> HIDE DEF m, b
      <3>1. m % n \in 0..n - 1 /\ m % n <= b % n
        BY <1>3, <1>9 DEF UpTo
      <3>2. QED
        BY <1>1, <1>5, <3>1
    <2>2. BoundaryGroups(G, H, bpos, old, new, l, n)
      <3>1. BoundaryGroups(BoundaryGroup(old, Len(old), l), BoundaryGroup(new, Len(old), l),
                           BoundaryPos(Len(old), l), old, new, l, arity)
        BY ONLY <1>1, BoundaryHere, Zenon
      <3>2. QED
        BY <1>1, <3>1, Zenon
    <2>3. Halves(rec, H, bpos, l)
      <3>1. l \in 0..Len(c.levels) - 1
        BY <1>4
      <3>2. Halves(c.levels[l + 1], BoundaryGroup(new, Len(old), l), BoundaryPos(Len(old), l), l)
        BY <1>4, <3>1 DEF ShowsBoundary
      <3>3. QED
        BY <1>1, <3>2, Zenon
    <2>4. /\ RecordOf(old, i, l) = [position |-> pos, siblings |-> Siblings(G, pos)]
          /\ RecordOf(new, i, l) = [position |-> pos, siblings |-> Siblings(H, pos)]
      BY <1>9, Zenon DEF RecordOf, BoundaryGroup
    <2>5. BoundaryHashes(c)[l] = Pair(PathNode(old, Len(old) - 1, l, n), PathNode(new, Len(old) - 1, l, n))
      <3> HIDE DEF old, new
      <3>1. l \in 0..Len(c.levels) /\ 0 < Len(c.levels)
        BY <1>1, <1>4
      <3>2. QED
        BY <1>1, <1>4, <3>1, BoundaryClimbs
    <2>6. l = 0 => G[bpos + 1] = H[bpos + 1]
      <3> SUFFICES ASSUME l = 0 PROVE G[bpos + 1] = H[bpos + 1]
        OBVIOUS
      <3>1. o - 1 \in Nat /\ o - 1 + 1 = o /\ o \in 1..o
        BY <1>1
      <3>2. G[bpos + 1] = PathNode(old, o - 1, 0, n) /\ H[bpos + 1] = PathNode(new, o - 1, 0, n)
        BY <1>1, <2>2 DEF BoundaryGroups
      <3>3. PathNode(old, o - 1, 0, n) = old[o] /\ PathNode(new, o - 1, 0, n) = new[o]
        BY <1>1, <3>1, PathStart
      <3>4. old[o] = new[o]
        BY <1>1, <3>1 DEF Continues
      <3>5. QED
        BY <3>2, <3>3, <3>4
    <2> HIDE DEF old, new, m, b, pos, bpos, G, H, rec
    <2>7. BoundaryHashes(c)[l].new = H[bpos + 1]
      BY <2>2, <2>5 DEF BoundaryGroups, Pair
    <2>8. SiblingsAt(p, l) = Siblings(G, pos)
      <3>1. CASE l < Len(p.levels)
        <4> DEFINE sx == Siblings(G, pos)
        <4>1. p.levels[l + 1] = [position |-> pos, siblings |-> sx]
          BY <1>6, <2>4, <3>1, Zenon
        <4> HIDE DEF sx
        <4>2. p.levels[l + 1].siblings = sx
          BY <4>1
        <4>3. QED
          BY <3>1, <4>2, Zenon DEF SiblingsAt, sx
      <3>2. CASE ~(l < Len(p.levels))
        <4>1. b = 0
          BY <1>6, <3>2
        <4>2. bpos = 0
          BY <1>1, <1>5, <4>1
        <4>3. pos = 0
          BY <2>1, <4>2
        <4>4. IsSeq(G) /\ Len(G) = 1
          BY <2>2, <4>2 DEF BoundaryGroups
        <4>5. IsSeq(Siblings(G, pos)) /\ Len(Siblings(G, pos)) = 0
          BY <4>3, <4>4, SiblingsOfGroup
        <4>6. Siblings(G, pos) = <<>>
          BY <4>5, EmptyIsSeq, SeqEqual2
        <4>7. QED
          BY <3>2, <4>6, Zenon DEF SiblingsAt
      <3>3. QED
        BY <3>1, <3>2
    <2>9. Refresh(Put(SiblingsAt(p, l), pos, Zero), l, pos, c) = Renewed(G, H, bpos, pos, l)
      <3>1. BoundaryPos(c.old, l) = bpos
        BY <1>2, Zenon DEF bpos
      <3>2. QED
        BY <2>7, <2>8, <3>1, Zenon DEF Refresh, Renewed
    <2>10. Siblings(Renewed(G, H, bpos, pos, l) \o rec.new, pos) = Siblings(H, pos)
      BY <1>1, <2>1, <2>2, <2>3, <2>6, RenewedGrows
    <2>11. UpdatedAt(c, p, l) =
             [position |-> pos,
              siblings |-> Siblings(Refresh(Put(SiblingsAt(p, l), pos, Zero), l, pos, c) \o rec.new, pos)]
      BY <1>7, <1>9, Zenon
    <2>12. QED
      BY <2>4, <2>9, <2>10, <2>11, Zenon DEF new
  <1>10. QED
    BY <1>8, <1>9

\* The snapshot is never ahead of the tree.
Behind == held.size <= tree.size

LEMMA UpdateByLevels ==
    ASSUME NEW c, NEW p
    PROVE  UpdateInclusionProof(c, p) =
             [root |-> c.newRoot, leaf |-> p.leaf, index |-> p.index, size |-> c.now,
              levels |-> [k \in 1..Len(c.levels) |-> UpdatedAt(c, p, k - 1)]]
  BY DEF UpdateInclusionProof, UpdatedAt, SiblingsAt, Put

LEMMA FirstLeaves ==
    ASSUME NEW t, Holds(t, arity), NEW i \in 0..t.size - 1
    PROVE  t.levels[0][i + 1] = Leaf(i + 1)
  <1>1. t.levels[0] = Inserted(t.size) /\ t.size \in Nat
    BY LeanIMTAssumption DEF Holds, Shaped
  <1>2. i + 1 \in 1..t.size
    BY <1>1
  <1>3. QED
    BY <1>1, <1>2 DEF Inserted

\* An inclusion proof of the snapshot comes out as the tree's own.
LEMMA UpdatedProof ==
    ASSUME Grew(held.size, tree.size), Holds(held, arity), NEW i \in 0..held.size - 1
    PROVE  UpdateInclusionProof(GenerateConsistencyProof(tree, held.size, held.root), GenerateProof(held, i))
             = GenerateProof(tree, i)
  <1> DEFINE o == held.size
             t == tree.size
             c == GenerateConsistencyProof(tree, o, held.root)
             p == GenerateProof(held, i)
             q == GenerateProof(tree, i)
  <1>1. /\ arity \in Arities /\ Holds(tree, arity) /\ o \in Nat \ {0} /\ t \in Nat /\ o < t /\ arity \in Nat \ {0, 1}
    <2>1. t \in Nat /\ arity \in Nat \ {0, 1}
      BY GrewFacts
    <2>2. QED
      BY <2>1 DEF Grew
  <1>2. i \in Nat /\ i \in 0..t - 1
    BY <1>1
  <1>3. /\ c.old = o /\ c.now = t /\ c.newRoot = tree.root
        /\ p.leaf = held.levels[0][i + 1] /\ p.index = i
        /\ q = [root |-> tree.root, leaf |-> tree.levels[0][i + 1], index |-> i, size |-> t, levels |-> q.levels]
    BY DEF GenerateConsistencyProof, GenerateProof
  <1>4. IsProofOf(c, o, t)
    BY <1>3 DEF IsProofOf
  <1>5. p.leaf = Leaf(i + 1) /\ tree.levels[0][i + 1] = Leaf(i + 1)
    BY <1>1, <1>2, <1>3, FirstLeaves
  <1>6. /\ p.levels = [k \in 1..held.depth |-> RecordOf(Inserted(o), i, k - 1)]
        /\ q.levels = [k \in 1..tree.depth |-> RecordOf(Inserted(t), i, k - 1)]
    BY <1>1, <1>2, RecordsOfProof
  <1>7. held.depth = CeilLogN(o, arity)
    <2>1. Shaped(held, Inserted(o), arity) /\ Len(Inserted(o)) = o
      BY <1>1, InsertedIsSeq DEF Holds
    <2>2. QED
      BY <2>1 DEF Shaped
  <1>8. HasRecords(p, o, i)
    BY <1>3, <1>6, <1>7 DEF HasRecords
  <1>9. Len(c.levels) = tree.depth
    BY <1>4, ProofClimbs
  <1> HIDE DEF c, p, q
  <1>10. ASSUME NEW k \in 1..tree.depth PROVE UpdatedAt(c, p, k - 1) = RecordOf(Inserted(t), i, k - 1)
    <2>1. tree.depth \in Nat
      BY GrewFacts
    <2>2. k - 1 \in 0..tree.depth - 1
      BY <2>1
    <2>3. QED
      BY <1>4, <1>8, <2>2, UpdatedIs
  <1>11. [k \in 1..Len(c.levels) |-> UpdatedAt(c, p, k - 1)] = q.levels
    BY <1>6, <1>9, <1>10
  <1>12. UpdateInclusionProof(c, p) =
           [root |-> c.newRoot, leaf |-> p.leaf, index |-> p.index, size |-> c.now,
            levels |-> [k \in 1..Len(c.levels) |-> UpdatedAt(c, p, k - 1)]]
    BY UpdateByLevels
  <1>13. UpdateInclusionProof(c, p) = q
    BY <1>3, <1>5, <1>11, <1>12
  <1>14. QED
    BY <1>13 DEF c, p, q

\* ConsistencyVerifies while the snapshot is a part of the tree.
LEMMA GrownVerifies ==
    ASSUME IInv, held.size > 0, held.size < tree.size
    PROVE  ConsistencyVerifies
  <1> DEFINE o == held.size
             t == tree.size
             c == GenerateConsistencyProof(tree, o, held.root)
             d == [c EXCEPT !.oldRoot = tree.root]
  <1>1. arity \in Arities /\ Holds(tree, arity) /\ Holds(held, arity) /\ o \in Nat \ {0} /\ o < t
    BY LeanIMTAssumption DEF IInv, Holds
  <1>2. Grew(o, t)
    BY <1>1 DEF Grew
  <1>3. held.root = RootOf(Inserted(o), arity) /\ tree.root = RootOf(Inserted(t), arity)
    BY <1>1 DEF Holds
  <1>4. /\ c = [oldRoot |-> held.root, newRoot |-> tree.root, old |-> o, now |-> t, levels |-> c.levels]
        /\ c.old = o /\ c.now = t /\ c.oldRoot = held.root /\ c.newRoot = tree.root
    BY DEF GenerateConsistencyProof
  <1>5. /\ d.old = o /\ d.now = t /\ d.oldRoot = tree.root /\ d.newRoot = tree.root /\ d.levels = c.levels
    BY <1>4
  <1>6. IsProofOf(c, o, t) /\ IsProofOf(d, o, t)
    BY <1>4, <1>5 DEF IsProofOf
  <1> HIDE DEF d
  <1>7. VerifyConsistency(c)
    BY <1>2, <1>3, <1>4, <1>6, ProofVerifies
  <1>8. held.root # tree.root => ~VerifyConsistency(d)
    BY <1>2, <1>3, <1>5, <1>6, ProofVerifies
  <1>9. ASSUME NEW i \in 0..o - 1
        PROVE  /\ Updatable(c, GenerateProof(held, i))
               /\ UpdateInclusionProof(c, GenerateProof(held, i)) = GenerateProof(tree, i)
    <2>1. UpdateInclusionProof(c, GenerateProof(held, i)) = GenerateProof(tree, i)
      BY <1>1, <1>2, UpdatedProof
    <2>2. GenerateProof(held, i).root = held.root /\ GenerateProof(held, i).index = i
      BY DEF GenerateProof
    <2>3. i < o
      BY <1>1
    <2>4. Updatable(c, GenerateProof(held, i))
      BY <1>1, <1>4, <1>7, <2>2, <2>3 DEF Updatable
    <2>5. QED
      BY <2>1, <2>4
  <1>10. QED
    BY <1>7, <1>8, <1>9 DEF ConsistencyVerifies, d

\* A snapshot of the tree as it is: the proof is empty, and the roots are one.
LEMMA SameVerifies ==
    ASSUME IInv, held.size > 0, held.size = tree.size
    PROVE  ConsistencyVerifies
  <1> DEFINE o == held.size
             c == GenerateConsistencyProof(tree, o, held.root)
  <1>1. o \in Nat /\ 0 < o /\ held.root = tree.root
    BY LeanIMTAssumption DEF IInv, Holds
  <1>2. c.old = o /\ c.now = o /\ c.oldRoot = c.newRoot
    BY <1>1 DEF GenerateConsistencyProof
  <1>3. c.levels = <<>>
    BY DEF GenerateConsistencyProof, ConsistencyDepth
  <1>4. Len(c.levels) <= MaxDepth
    BY <1>3, LeanIMTAssumption
  <1>5. VerifyConsistency(c)
    <2> HIDE DEF c
    <2>1. ConsistencyWellFormed(c)
      BY <1>1, <1>2, <1>4 DEF ConsistencyWellFormed
    <2>2. QED
      BY <1>2, <2>1 DEF VerifyConsistency
  <1>6. ~(held.size < tree.size)
    BY <1>1
  <1>7. QED
    BY <1>1, <1>5, <1>6 DEF ConsistencyVerifies

\* ConsistencyVerifies for every arity up to 255, depth, and pair of sizes:
\* ConsistencyProof::verify accepts what the tree generates for a snapshot of it, refuses
\* it for another old root, and update_inclusion_proof gives the proof the tree itself
\* would give.  From 256 on generate_consistency_proof can fail (to_u8; CountsFit).
THEOREM ConsistencyProofsVerify == Spec => []ConsistencyVerifies
  <1>1. Init => Behind
    BY DEF Init, Behind, EmptyTree
  <1>2. IInv /\ Behind /\ [Next]_vars => Behind'
    <2> SUFFICES ASSUME IInv, Behind, [Next]_vars PROVE Behind'
      OBVIOUS
    <2>0. held.size \in Nat /\ tree.size \in Nat /\ held.size <= tree.size
      BY LeanIMTAssumption DEF IInv, Holds, Behind
    <2>1. CASE InsertLeaf
      <3>1. tree'.size = tree.size + 1 /\ held' = held
        BY <2>1 DEF InsertLeaf, Insert
      <3>2. QED
        BY <2>0, <3>1 DEF Behind
    <2>2. CASE InsertLeaves
      <3>1. PICK count \in 1..MaxBatch : tree' = InsertMany(tree, NewLeaves(count)) /\ held' = held
        BY <2>2 DEF InsertLeaves
      <3>2. Len(NewLeaves(count)) = count /\ count \in Nat
        BY LeanIMTAssumption DEF NewLeaves
      <3>3. tree'.size = tree.size + count
        BY <3>1, <3>2 DEF InsertMany
      <3>4. QED
        BY <2>0, <3>1, <3>2, <3>3 DEF Behind
    <2>3. CASE TreeFull
      BY <2>0, <2>3 DEF TreeFull, vars, Behind
    <2>4. CASE TakeSnapshot
      <3>1. held' = SnapshotOf(tree) /\ tree' = tree
        BY <2>4 DEF TakeSnapshot, SnapshotOf
      <3>2. SnapshotOf(tree) = tree
        BY ArityFacts, SnapshotIsTree DEF IInv
      <3>3. QED
        BY <2>0, <3>1, <3>2 DEF Behind
    <2>5. CASE UNCHANGED vars
      BY <2>0, <2>5 DEF vars, Behind
    <2>6. QED
      BY <2>1, <2>2, <2>3, <2>4, <2>5 DEF Next
  <1>3. IInv /\ Behind => ConsistencyVerifies
    <2> SUFFICES ASSUME IInv, Behind PROVE ConsistencyVerifies
      OBVIOUS
    <2>1. held.size \in Nat /\ tree.size \in Nat /\ held.size <= tree.size
      BY LeanIMTAssumption DEF IInv, Holds, Behind
    <2>2. CASE held.size = 0
      <3>1. ~(held.size > 0)
        BY <2>2
      <3>2. QED
        BY <3>1 DEF ConsistencyVerifies
    <2>3. CASE held.size > 0 /\ held.size < tree.size
      BY <2>3, GrownVerifies
    <2>4. CASE held.size > 0 /\ held.size = tree.size
      BY <2>4, SameVerifies
    <2>5. QED
      BY <2>1, <2>2, <2>3, <2>4
  <1>4. QED
    BY <1>1, <1>2, <1>3, NodesStayRight, PTL DEF Spec
=============================================================================
