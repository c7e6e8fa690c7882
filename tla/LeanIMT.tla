------------------------------ MODULE LeanIMT -------------------------------
(***************************************************************************)
(* The rotortree append-only Merkle tree and its proofs                    *)
(* (crates/rotortree/src: tree.rs, chunked_level.rs, proof.rs, hash.rs).   *)
(*                                                                         *)
(* A hash is injective and no leaf collides with a parent: a parent is the *)
(* tuple of its children, two of them at least, a leaf a tuple of one      *)
(* value, and the zero fill of a fresh slot the empty tuple.               *)
(*                                                                         *)
(* What is abstracted: a level is the sequence of its nodes (its chunks    *)
(* are the business of modules ChunkedLevel, in memory, and RotorTree, on  *)
(* disk); batched and parallel hashing compute the same parents as the     *)
(* scalar loop; u64 and usize arithmetic does not overflow below MaxDepth  *)
(* levels.  An arity is at most 255: a proof stores the positions and the  *)
(* counts within a group, up to N of them, as u8 (to_u8 of proof.rs), and  *)
(* above that the generators end in MathError for some trees.              *)
(*                                                                         *)
(* A definition introduced as faulty is a bug the code could have had: it  *)
(* stands before the definition it imitates and nothing uses it.           *)
(***************************************************************************)
EXTENDS Integers, Sequences

CONSTANTS
    Arities,    \* branching factors to check; a tree has one, fixed when it is made
    MaxDepth,   \* MAX_DEPTH
    MaxBatch,   \* leaves an insert_many brings at most
    MaxLeaves   \* bound: leaves ever inserted

ASSUME LeanIMTAssumption ==
    /\ Arities \subseteq 2..255 /\ MaxDepth \in Nat \ {0}
    /\ MaxBatch \in Nat \ {0} /\ MaxLeaves \in Nat

VARIABLES
    arity,   \* N
    tree     \* TreeInner

-----------------------------------------------------------------------------
(***************************************************************************)
(* Hashes, groups and depths.                                              *)
(***************************************************************************)
Zero == <<>>
Leaf(value) == <<value>>
HashChildren(children) == children

\* A group of one is lifted: its only child stands for it.
GroupHash(group) == IF Len(group) = 1 THEN group[1] ELSE HashChildren(group)

CeilDiv(a, b) == (a + b - 1) \div b
LessOf(a, b) == IF a <= b THEN a ELSE b

\* n to the power e.
Power(n, e) ==
    LET power[k \in 0..e] == IF k = 0 THEN 1 ELSE n * power[k - 1]
    IN power[e]

\* The leaves under a full node of level l: a level up divides an index by N.
Span(l) == Power(arity, l)

\* The least power of two above v is 2 to the power BitLength(v).
BitLength(v) == CHOOSE b \in 0..v + 1 : Power(2, b) > v /\ \A c \in 0..b - 1 : Power(2, c) <= v
ILog(v, n) == CHOOSE e \in 0..v : Power(n, e) <= v /\ Power(n, e + 1) > v
IsPowerOfTwo(n) == Power(2, BitLength(n) - 1) = n

\* ceil_log_n: the number of hash layers above the leaves.
CeilLogN(size, n) ==
    IF size <= 1 THEN 0
    ELSE IF IsPowerOfTwo(n)
         THEN CeilDiv(BitLength(size - 1), BitLength(n) - 1)
         ELSE ILog(size - 1, n) + 1

Levels == 0..MaxDepth - 1

NoRoot == Zero
EmptyTree == [levels |-> [l \in Levels |-> <<>>], root |-> NoRoot, size |-> 0, depth |-> 0]

\* The children of parent p in a level, and the parent itself.
Group(level, p, n) == SubSeq(level, p * n + 1, LessOf((p + 1) * n, Len(level)))
Children(level, p) == Group(level, p, arity)
ParentOf(level, p) == GroupHash(Children(level, p))

\* ChunkedLevel::set: slots between the end and the index are zero-filled.
SetNode(level, index, node) ==
    [k \in 1..(IF index < Len(level) THEN Len(level) ELSE index + 1) |->
        IF k = index + 1 THEN node ELSE IF k <= Len(level) THEN level[k] ELSE Zero]

-----------------------------------------------------------------------------
(***************************************************************************)
(* Insertion.                                                              *)
(***************************************************************************)
Fits(t, count) == CeilLogN(t.size + count, arity) <= MaxDepth

\* _insert: one path from the leaf to the root, each rung hashed with the siblings
\* to its left.
Rungs(t, leaf, depth) ==
    LET rung[l \in 0..depth] ==
            IF l = 0 THEN leaf
            ELSE LET locus == t.size \div Span(l - 1)
                     rank  == locus % arity
                 IN GroupHash(SubSeq(t.levels[l - 1], locus - rank + 1, locus)
                                \o <<rung[l - 1]>>)
    IN rung

Insert(t, leaf) ==
    LET depth == CeilLogN(t.size + 1, arity)
        rung  == Rungs(t, leaf, depth)
    IN [levels |-> [l \in Levels |-> IF l <= depth
                                     THEN SetNode(t.levels[l], t.size \div Span(l), rung[l])
                                     ELSE t.levels[l]],
        root |-> rung[depth], size |-> t.size + 1, depth |-> depth]

\* Faulty: the group the old leaves left half full is not computed again.
FirstDirtyRounded(t, l) == CeilDiv(t.size, Span(l))

\* start_parent: the first node of level l that new leaves reach.
FirstDirty(t, l) == t.size \div Span(l)

\* _insert_many: level by level, every parent from the first one the new leaves
\* reach.  The level above the last stored one holds the root alone.
Grown(t, leaves, depth) ==
    LET grown[l \in 0..depth] ==
            IF l = 0 THEN t.levels[0] \o leaves
            ELSE LET child == grown[l - 1]
                     old   == IF l \in Levels THEN t.levels[l] ELSE <<>>
                 IN [p \in 1..CeilDiv(Len(child), arity) |->
                       IF p <= FirstDirty(t, l)
                       THEN IF p <= Len(old) THEN old[p] ELSE Zero
                       ELSE ParentOf(child, p - 1)]
    IN grown

InsertMany(t, leaves) ==
    LET depth == CeilLogN(t.size + Len(leaves), arity)
        grown == Grown(t, leaves, depth)
    IN [levels |-> [l \in Levels |-> IF l <= depth THEN grown[l] ELSE t.levels[l]],
        root |-> grown[depth][Len(grown[depth])],
        size |-> t.size + Len(leaves), depth |-> depth]

\* Every layer from the leaves up, n children to a parent.
Frontier(leaves, depth, n) ==
    LET frontier[l \in 0..depth] ==
            IF l = 0 THEN leaves
            ELSE LET below == frontier[l - 1]
                 IN [p \in 1..CeilDiv(Len(below), n) |-> GroupHash(Group(below, p - 1, n))]
    IN frontier

\* TreeInner::recompute_root.
RecomputeRoot(t) ==
    IF t.size = 0 THEN NoRoot ELSE Frontier(t.levels[0], t.depth, arity)[t.depth][1]

-----------------------------------------------------------------------------
(***************************************************************************)
(* Inclusion proofs: one record a level, from the leaf to the root.        *)
(***************************************************************************)
\* Faulty: off by one, the member stays and the last sibling goes.
SiblingsShifted(group, pos) == SubSeq(group, 1, pos) \o SubSeq(group, pos + 1, Len(group) - 1)

Siblings(group, pos) == SubSeq(group, 1, pos) \o SubSeq(group, pos + 2, Len(group))

\* generate_proof; a position and a sibling count are less than N, so to_u8 takes them.
GenerateProof(t, index) ==
    [root |-> t.root, leaf |-> t.levels[0][index + 1], index |-> index, size |-> t.size,
     levels |-> [k \in 1..t.depth |->
        LET at    == index \div Span(k - 1)
            pos   == at % arity
            group == Children(t.levels[k - 1], at \div arity)
        IN [position |-> pos,
            siblings |-> Siblings(group, pos)]]]

\* NaryProof::verify's checks of a proof's shape; each failure is an error.
WellFormed(p) ==
    /\ p.index < p.size
    /\ Len(p.levels) = CeilLogN(p.size, arity) /\ Len(p.levels) <= MaxDepth
    /\ \A k \in 1..Len(p.levels) :
         /\ p.levels[k].position = (p.index \div Span(k - 1)) % arity
         /\ p.levels[k].siblings # <<>> =>
              /\ Len(p.levels[k].siblings) + 1 <= arity
              /\ p.levels[k].position <= Len(p.levels[k].siblings)

Climb(p) ==
    LET at[k \in 0..Len(p.levels)] ==
            IF k = 0 THEN p.leaf
            ELSE LET sib == p.levels[k].siblings
                     pos == p.levels[k].position
                 IN GroupHash(SubSeq(sib, 1, pos) \o <<at[k - 1]>> \o SubSeq(sib, pos + 1, Len(sib)))
    IN at[Len(p.levels)]

Verify(p) == WellFormed(p) /\ Climb(p) = p.root

-----------------------------------------------------------------------------
(***************************************************************************)
(* Consistency proofs.  The boundary is the last node of the old tree in a *)
(* level: shared holds what stands left of it in its group (and itself,    *)
(* among the leaves), new what the new tree has to its right.              *)
(***************************************************************************)
LevelSize(total, l) == CeilDiv(total, Span(l))
Boundary(old, l) == LevelSize(old, l) - 1
BoundaryPos(old, l) == Boundary(old, l) % arity
SharedCount(old, l) == IF l = 0 THEN BoundaryPos(old, l) + 1 ELSE BoundaryPos(old, l)

\* Faulty: the whole next group counts as the boundary's.
NewCountWide(old, now, l) == LessOf(LevelSize(now, l), Boundary(old, l) + arity) - Boundary(old, l) - 1

NewCount(old, now, l) ==
    LET start == Boundary(old, l) - BoundaryPos(old, l)
    IN LessOf(LevelSize(now, l), start + arity) - Boundary(old, l) - 1

\* The levels a consistency proof has: until both trees are down to one node.
ConsistencyDepth(old, now) ==
    IF old = now THEN 0
    ELSE CHOOSE d \in 0..now : /\ LevelSize(old, d) <= 1 /\ LevelSize(now, d) <= 1
                               /\ \A e \in 0..d - 1 : LevelSize(old, e) > 1 \/ LevelSize(now, e) > 1

\* generate_consistency_proof; the shared nodes and the new ones are N at most, all of
\* them shared when the leaves of the old tree fill the group, so to_u8 takes the counts.
GenerateConsistencyProof(t, old, oldRoot) ==
    [oldRoot |-> oldRoot, newRoot |-> t.root, old |-> old, now |-> t.size,
     levels |-> [k \in 1..ConsistencyDepth(old, t.size) |->
        LET l     == k - 1
            start == Boundary(old, l) - BoundaryPos(old, l)
        IN [shared |-> SubSeq(t.levels[l], start + 1, start + SharedCount(old, l)),
            new    |-> SubSeq(t.levels[l], Boundary(old, l) + 2,
                              Boundary(old, l) + 1 + NewCount(old, t.size, l))]]]

ConsistencyWellFormed(c) ==
    /\ 0 < c.old /\ c.old <= c.now /\ Len(c.levels) <= MaxDepth
    /\ c.old < c.now =>
         /\ Len(c.levels) = ConsistencyDepth(c.old, c.now)
         /\ \A k \in 1..Len(c.levels) :
              /\ Len(c.levels[k].shared) = SharedCount(c.old, k - 1)
              /\ Len(c.levels[k].new) = NewCount(c.old, c.now, k - 1)

\* What stands left of the boundary in its group.
LeftOf(c, l) == SubSeq(c.levels[l + 1].shared, 1, BoundaryPos(c.old, l))

\* The boundary's hash in the old and in the new tree, up to level l.
BoundaryHashes(c) ==
    LET at[l \in 0..Len(c.levels)] ==
            IF l = 0
            THEN LET own == c.levels[1].shared[BoundaryPos(c.old, 0) + 1] IN [old |-> own, new |-> own]
            ELSE [old |-> GroupHash(LeftOf(c, l - 1) \o <<at[l - 1].old>>),
                  new |-> GroupHash(LeftOf(c, l - 1) \o <<at[l - 1].new>> \o c.levels[l].new)]
    IN at

VerifyConsistency(c) ==
    /\ ConsistencyWellFormed(c)
    /\ IF c.old = c.now THEN c.oldRoot = c.newRoot
       ELSE LET top == BoundaryHashes(c)[Len(c.levels)]
            IN top.old = c.oldRoot /\ top.new = c.newRoot

\* ConsistencyProof::update_inclusion_proof, for a proof its checks let pass.
Updatable(c, p) ==
    p.root = c.oldRoot /\ VerifyConsistency(c) /\ p.index < c.old /\ c.old < c.now

\* Faulty: a boundary node the new leaves reached keeps its old hash.
RefreshNever(group, l, memberPos, c) == group

\* The boundary, when it is not the member itself, has its new hash.
Refresh(group, l, memberPos, c) ==
    IF l > 0 /\ memberPos # BoundaryPos(c.old, l)
    THEN [group EXCEPT ![BoundaryPos(c.old, l) + 1] = BoundaryHashes(c)[l].new]
    ELSE group

\* The siblings of a record stay fewer than N, which to_u8 takes.
UpdateInclusionProof(c, p) ==
    LET updated(l) ==
            LET member  == p.index \div Span(l)
                pos     == member % arity
                known   == l < Len(p.levels)
                sib     == IF known THEN p.levels[l + 1].siblings ELSE <<>>
                group   == SubSeq(sib, 1, pos) \o <<Zero>> \o SubSeq(sib, pos + 1, Len(sib))
                grown   == Refresh(group, l, pos, c) \o c.levels[l + 1].new
            IN IF member \div arity # Boundary(c.old, l) \div arity
               THEN IF known THEN p.levels[l + 1] ELSE [position |-> 0, siblings |-> <<>>]
               ELSE [position |-> pos,
                     siblings |-> Siblings(grown, pos)]
    IN [root |-> c.newRoot, leaf |-> p.leaf, index |-> p.index, size |-> c.now,
        levels |-> [k \in 1..Len(c.levels) |-> updated(k - 1)]]
=============================================================================
