---------------------------- MODULE ChunkedLevel ----------------------------
(***************************************************************************)
(* How a level of the tree is kept in memory, and what a snapshot shares   *)
(* with the tree it was taken from (crates/rotortree/src:                  *)
(* chunked_level.rs).                                                      *)
(*                                                                         *)
(* A chunk is an Arc of ChunkSize hashes; SegmentChunks of them, once      *)
(* complete, are frozen into a segment, an Arc of its own.  A snapshot     *)
(* clones the Arcs, so a write first asks whether it is the only owner     *)
(* (Arc::make_mut) and copies the segment, then the chunk, if it is not.   *)
(* The memory is a record of two heaps and of the levels that point into   *)
(* them: "live" those of the tree, "held" those of the snapshot.           *)
(*                                                                         *)
(* An address is <<level, position, copy>>.  Chunks mapped from a file are *)
(* the business of module RotorTree.                                       *)
(***************************************************************************)
EXTENDS LeanIMT, FiniteSets, TLC
LOCAL INSTANCE SequencesExt

CONSTANTS
    ChunkSize,      \* CHUNK_SIZE
    SegmentChunks   \* CHUNKS_PER_SEGMENT

ASSUME ChunkAssumption == ChunkSize \in Nat \ {0} /\ SegmentChunks \in Nat \ {0}

VARIABLE mem   \* [chunks, segments : the heaps, live, held : [Levels -> level]]

NewLevel == [segments |-> <<>>, pending |-> <<>>, len |-> 0]
NoNodes == [l \in Levels |-> NewLevel]
EmptyMemory == [chunks |-> <<>>, segments |-> <<>>, live |-> NoNodes, held |-> NoNodes]

\* An address no Arc of the heap has.
Fresh(heap, l, position) ==
    CHOOSE a \in {<<l, position, copy>> : copy \in 0..1} : a \notin DOMAIN heap

\* ChunkedLevel::chunk_count and chunk: below "committed" in the segments.
Committed(level) == Len(level.segments) * SegmentChunks
ChunkTotal(level) == Committed(level) + Len(level.pending)
Chunk(m, level, c) ==
    IF c < Committed(level)
    THEN m.segments[level.segments[c \div SegmentChunks + 1]][(c % SegmentChunks) + 1]
    ELSE level.pending[c - Committed(level) + 1]

\* get and runs: the nodes of a level, read chunk by chunk.
Nodes(m, level) ==
    [k \in 1..level.len |-> m.chunks[Chunk(m, level, (k - 1) \div ChunkSize)]
                                    [((k - 1) % ChunkSize) + 1]]

-----------------------------------------------------------------------------
(***************************************************************************)
(* Copy on write.                                                          *)
(***************************************************************************)
AllLevels == {<<owner, l>> : owner \in {"live", "held"}, l \in Levels}

\* The strong counts: a level names a segment once, a chunk is named by the
\* pending lists and by the segments, not by those who share a segment.
SegmentOwners(m, a) ==
    Cardinality({x \in AllLevels : a \in ToSet(m[x[1]][x[2]].segments)})
ChunkOwners(m, a) ==
    Cardinality({x \in AllLevels : a \in ToSet(m[x[1]][x[2]].pending)})
      + Cardinality({s \in DOMAIN m.segments : a \in ToSet(m.segments[s])})

\* Faulty: a frozen segment is taken for the tree's own.
OwnSegmentShared(m, l, s) == m

\* Arc::make_mut of segment s of a level: the copy holds the same chunks.
OwnSegment(m, l, s) ==
    LET a    == m.live[l].segments[s]
        copy == Fresh(m.segments, l, s - 1)
    IN IF SegmentOwners(m, a) = 1 THEN m
       ELSE [m EXCEPT !.segments = @ @@ (copy :> m.segments[a]), !.live[l].segments[s] = copy]

\* chunk_slice_mut: the tree alone owns chunk c, and its segment, afterwards.
OwnChunk(m, l, c) ==
    LET frozen == c < Committed(m.live[l])
        s      == c \div SegmentChunks + 1
        n      == IF frozen THEN OwnSegment(m, l, s) ELSE m
        a      == Chunk(n, n.live[l], c)
        copy   == Fresh(n.chunks, l, c)
        copied == [n EXCEPT !.chunks = @ @@ (copy :> n.chunks[a])]
    IN IF ChunkOwners(n, a) = 1 THEN n
       ELSE IF frozen
            THEN [copied EXCEPT !.segments[n.live[l].segments[s]][(c % SegmentChunks) + 1] = copy]
            ELSE [copied EXCEPT !.live[l].pending[c - Committed(n.live[l]) + 1] = copy]

\* Nodes put into one chunk, from an offset on.
WriteChunk(m, l, c, offset, nodes) ==
    LET n == OwnChunk(m, l, c)
    IN [n EXCEPT !.chunks[Chunk(n, n.live[l], c)] =
          [k \in 1..ChunkSize |-> IF k - offset \in DOMAIN nodes THEN nodes[k - offset] ELSE @[k]]]

-----------------------------------------------------------------------------
(***************************************************************************)
(* Writing a level of the live tree.                                       *)
(***************************************************************************)
\* write_with: from index start on, chunk after chunk.
WriteWith(m, l, start, nodes) ==
    LET first == start \div ChunkSize
        last  == (start + Len(nodes) - 1) \div ChunkSize
        write(n, c) ==
            LET from == IF c = first THEN start ELSE c * ChunkSize
                upto == LessOf((c + 1) * ChunkSize, start + Len(nodes))
            IN WriteChunk(n, l, c, from % ChunkSize,
                          SubSeq(nodes, from - start + 1, upto - start))
    IN IF nodes = <<>> THEN m
       ELSE FoldLeft(write, m, [i \in 1..last - first + 1 |-> first + i - 1])

\* freeze_pending, when push_chunk filled the list.
FreezePending(m, l) ==
    LET a == Fresh(m.segments, l, Len(m.live[l].segments))
    IN IF Len(m.live[l].pending) < SegmentChunks THEN m
       ELSE [m EXCEPT !.segments = @ @@ (a :> m.live[l].pending),
                      !.live[l].segments = Append(@, a), !.live[l].pending = <<>>]

\* push_chunk of a new chunk, the slots after its nodes filled with zero.
PushChunk(m, l, nodes) ==
    LET a       == Fresh(m.chunks, l, ChunkTotal(m.live[l]))
        content == [k \in 1..ChunkSize |-> IF k \in DOMAIN nodes THEN nodes[k] ELSE Zero]
    IN FreezePending([m EXCEPT !.chunks = @ @@ (a :> content),
                               !.live[l].pending = Append(@, a)], l)

\* extend_with: the room in the last chunk first, then chunks of their own.
ExtendWith(m, l, nodes) ==
    LET len  == m.live[l].len
        room == LessOf((ChunkSize - (len % ChunkSize)) % ChunkSize, Len(nodes))
        rest == SubSeq(nodes, room + 1, Len(nodes))
        push(n, i) == PushChunk(n, l, SubSeq(rest, (i - 1) * ChunkSize + 1,
                                                   LessOf(i * ChunkSize, Len(rest))))
        topped == IF room = 0 THEN m
                  ELSE WriteChunk(m, l, len \div ChunkSize, len % ChunkSize,
                                  SubSeq(nodes, 1, room))
    IN [FoldLeft(push, topped, [i \in 1..CeilDiv(Len(rest), ChunkSize) |-> i])
          EXCEPT !.live[l].len = len + Len(nodes)]

EnsureLen(m, l, target) ==
    IF m.live[l].len >= target THEN m
    ELSE ExtendWith(m, l, [k \in 1..target - m.live[l].len |-> Zero])

\* set
SetInLevel(m, l, index, node) ==
    WriteChunk(EnsureLen(m, l, index + 1), l, index \div ChunkSize, index % ChunkSize, <<node>>)

-----------------------------------------------------------------------------
(***************************************************************************)
(* Sharing.                                                                *)
(***************************************************************************)
\* The first "count" levels cloned, which drops the snapshot held before and every
\* Arc only it had.  The Arcs left are the tree's: each is given copy 0 again, so
\* that memories that differ in addresses alone are one state.
CloneLevels(m, count) ==
    LET Segments == UNION {ToSet(m.live[l].segments) : l \in Levels}
        Chunks   == UNION {ToSet(m.live[l].pending) : l \in Levels}
                      \cup UNION {ToSet(m.segments[a]) : a \in Segments}
        Base(a)      == <<a[1], a[2], 0>>
        Based(as)    == [i \in DOMAIN as |-> Base(as[i])]
        At(a, As)    == CHOOSE b \in As : Base(b) = a
        live == [l \in Levels |-> [m.live[l] EXCEPT !.segments = Based(@), !.pending = Based(@)]]
    IN [chunks   |-> [a \in {Base(b) : b \in Chunks} |-> m.chunks[At(a, Chunks)]],
        segments |-> [a \in {Base(b) : b \in Segments} |-> Based(m.segments[At(a, Segments)])],
        live     |-> live,
        held     |-> [l \in Levels |-> IF l < count THEN live[l] ELSE NewLevel]]
=============================================================================
