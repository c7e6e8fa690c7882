----------------------------- MODULE TreeReader -----------------------------
(***************************************************************************)
(* An in-memory LeanIMT in use: a writer inserts leaves one by one or in   *)
(* batches while a reader holds a snapshot taken some time ago and asks    *)
(* the current one for proofs (crates/rotortree/src: tree.rs, proof.rs).   *)
(* The value of a leaf is its index plus one.  "tree" and "held" have each *)
(* level as the sequence of its nodes; "mem" is where the nodes are.       *)
(***************************************************************************)
EXTENDS ChunkedLevel
LOCAL INSTANCE SequencesExt

CONSTANT
    ParallelThreshold   \* parallel_threshold()

ASSUME ParallelAssumption == ParallelThreshold \in Nat

VARIABLE held   \* TreeSnapshot the reader took, or the empty tree

vars == <<arity, tree, held, mem>>

Init == arity \in Arities /\ tree = EmptyTree /\ held = EmptyTree /\ mem = EmptyMemory

NewLeaves(count) == [i \in 1..count |-> Leaf(tree.size + i)]

\* The levels of t that are written when it comes to be, the leaves' first.
Touched(t) == [i \in 1..LessOf(t.depth + 1, MaxDepth) |-> i - 1]

\* _insert sets one node a level.
StoreInsert(t) ==
    LET store(m, l) == LET locus == tree.size \div Span(l)
                       IN SetInLevel(m, l, locus, t.levels[l][locus + 1])
    IN FoldLeft(store, mem, Touched(t))

\* _insert_many appends the leaves, then rewrites each level above from its first
\* dirty node.  With enough work the dirty node that is there already is rewritten
\* and the others are appended; otherwise the level is grown first.
StoreInsertMany(t) ==
    LET store(m, l) ==
            LET dirty   == FirstDirty(tree, l)
                nodes   == SubSeq(t.levels[l], dirty + 1, Len(t.levels[l]))
                overlap == IF dirty < m.live[l].len THEN 1 ELSE 0
            IN IF l = 0 THEN ExtendWith(m, l, nodes)
               ELSE IF Len(nodes) >= ParallelThreshold
                    THEN ExtendWith(WriteWith(m, l, dirty, SubSeq(nodes, 1, overlap)), l,
                                    SubSeq(nodes, overlap + 1, Len(nodes)))
                    ELSE WriteWith(EnsureLen(m, l, Len(t.levels[l])), l, dirty, nodes)
    IN FoldLeft(store, mem, Touched(t))

InsertLeaf ==
    /\ tree.size < MaxLeaves /\ Fits(tree, 1)
    /\ tree' = Insert(tree, Leaf(tree.size + 1))
    /\ mem' = StoreInsert(tree')
    /\ UNCHANGED <<arity, held>>

InsertLeaves ==
    \E count \in 1..MaxBatch :
      /\ tree.size + count <= MaxLeaves /\ Fits(tree, count)
      /\ tree' = InsertMany(tree, NewLeaves(count))
      /\ mem' = StoreInsertMany(tree')
      /\ UNCHANGED <<arity, held>>

\* MaxDepthExceeded, before anything is written.
TreeFull ==
    \E count \in 1..MaxBatch :
      /\ tree.size + count <= MaxLeaves /\ ~Fits(tree, count)
      /\ UNCHANGED vars

\* TreeInner::snapshot copies the levels up to the depth.
TakeSnapshot ==
    /\ held' = [tree EXCEPT !.levels = [l \in Levels |-> IF l <= tree.depth THEN @[l] ELSE <<>>]]
    /\ mem' = CloneLevels(mem, LessOf(tree.depth + 1, MaxDepth))
    /\ UNCHANGED <<arity, tree>>

Next == InsertLeaf \/ InsertLeaves \/ TreeFull \/ TakeSnapshot

Spec == Init /\ [][Next]_vars

-----------------------------------------------------------------------------
(***************************************************************************)
(* Properties.                                                             *)
(***************************************************************************)
\* A tree has its fields' shapes; its depth is in bounds and no level is longer
\* than its leaves.
TypeOK ==
    /\ arity \in Arities
    /\ \A t \in {tree, held} :
         /\ t.size \in 0..MaxLeaves /\ t.depth \in 0..MaxDepth
         /\ DOMAIN t.levels = Levels
         /\ \A l \in Levels : Len(t.levels[l]) <= t.size

\* The Merkle tree over leaves 1..total, from the top down: a node of level l + 1
\* covers the next arity nodes of level l, and one that covers a single node is it.
MerkleNode(total, level, index) ==
    LET row[l \in 0..level] ==
            [i \in 0..total |->
               IF l = 0 THEN Leaf(i + 1)
               ELSE LET first == i * arity
                        count == LessOf(arity, LevelSize(total, l - 1) - first)
                    IN IF count = 1 THEN row[l - 1][first]
                       ELSE HashChildren([k \in 1..count |-> row[l - 1][first + k - 1]])]
    IN row[level][index]

\* However single and batch inserts were mixed, every stored node, the root and
\* the recomputed root are those of the Merkle tree over the leaves, whose depth
\* is the least with a single node on top.
LevelsAreHashes ==
    tree.size > 0 =>
      /\ LevelSize(tree.size, tree.depth) = 1
      /\ tree.depth > 0 => LevelSize(tree.size, tree.depth - 1) > 1
      /\ \A l \in Levels : l <= tree.depth =>
           tree.levels[l] = [i \in 1..LevelSize(tree.size, l) |-> MerkleNode(tree.size, l, i - 1)]
      /\ tree.root = MerkleNode(tree.size, tree.depth, 0)
      /\ RecomputeRoot(tree) = tree.root

\* However far the writer has gone on in chunks and segments it shares with the
\* snapshot, the tree reads back its own nodes and the snapshot those of the moment
\* it was taken; what lies behind the last node of either is zero.
ChunksHoldLevels ==
    \A x \in {<<mem.live, tree>>, <<mem.held, held>>} : \A l \in Levels :
      LET level == x[1][l]
          slots == ChunkTotal(level) * ChunkSize
      IN /\ Nodes(mem, level) = x[2].levels[l]
         /\ slots \in level.len..level.len + ChunkSize - 1
         /\ \A k \in level.len + 1..slots : Nodes(mem, [level EXCEPT !.len = slots])[k] = Zero

\* The proof of every leaf verifies, names that leaf, and stops verifying when
\* another leaf is put in its place.
InclusionVerifies ==
    \A i \in 0..tree.size - 1 :
      LET p == GenerateProof(tree, i)
      IN /\ Verify(p) /\ p.leaf = Leaf(i + 1)
         /\ \A other \in 1..tree.size + 1 :
              other # i + 1 => ~Verify([p EXCEPT !.leaf = Leaf(other)])

\* The snapshot the reader holds is a prefix of the tree, and the proof of it
\* verifies; it turns every inclusion proof of the held snapshot into the one the
\* current tree would give.
ConsistencyVerifies ==
    held.size > 0 =>
      LET c == GenerateConsistencyProof(tree, held.size, held.root)
      IN /\ VerifyConsistency(c)
         /\ held.root # tree.root => ~VerifyConsistency([c EXCEPT !.oldRoot = tree.root])
         /\ held.size < tree.size =>
              \A i \in 0..held.size - 1 :
                LET p == GenerateProof(held, i)
                IN Updatable(c, p) /\ UpdateInclusionProof(c, p) = GenerateProof(tree, i)
=============================================================================
