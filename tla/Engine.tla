------------------------------- MODULE Engine -------------------------------
(***************************************************************************)
(* The chainfold engine: a single-writer fold over chain events with       *)
(* ordering, dedup, fork detection, checkpoints, rollback and snapshots    *)
(* (crates/chainfold/src: engine.rs, ring.rs, checkpoint.rs, batch.rs,     *)
(* snapshot.rs).                                                           *)
(*                                                                         *)
(* What is abstracted:                                                     *)
(*  - the consumer's fold is the sequence of the events it accepted, plus  *)
(*    a flag saying that an apply left it half mutated;                    *)
(*  - a block hash is an element of Hash; here nothing links hashes, the   *)
(*    module Driver gives them their ancestry;                             *)
(*  - the block ring and the checkpoint ring are sequences, oldest first   *)
(*    (module Rings shows that the circular array with its searches and    *)
(*    the array with its write index implement them);                      *)
(*  - the skip counter and the position inside Halted / Poisoned, which    *)
(*    nothing reads but a status report, are left out.                     *)
(*                                                                         *)
(* apply_batch hands events to foreign code (Fold::apply), which may       *)
(* succeed, skip, halt, poison or unwind, so each such call is a step.     *)
(* Between the first and the last of them the engine is exclusively        *)
(* borrowed: no other operation is enabled while ret = "running".          *)
(*                                                                         *)
(* A definition introduced as faulty is a bug the code could have had: it  *)
(* stands before the definition it imitates and nothing uses it.           *)
(***************************************************************************)
EXTENDS Integers, Sequences

CONSTANTS
    Hash,             \* block hashes
    RingCapacity,     \* EngineConfig::ring_capacity
    CheckpointSlots,  \* EngineConfig::checkpoint_slots; zero disables rollback
    Batches,          \* the batches a source may hand over
    Foreign,          \* the events a fold may declare not its own
    RollbackTargets,  \* the blocks a caller may roll back to
    MaxResets         \* bound on calls of reset

ASSUME RingCapacityAssumption == RingCapacity \in Nat \ {0}
ASSUME CheckpointSlotsAssumption == CheckpointSlots \in Nat
ASSUME RollbackTargetsAssumption == RollbackTargets \subseteq Nat
ASSUME MaxResetsAssumption == MaxResets \in Nat

VARIABLES
    fold,          \* the consumer's state
    cursor,        \* the last consumed position, or NoPos
    ring,          \* observed blocks, oldest first
    slots,         \* retained checkpoints, oldest first
    status,        \* EngineStatus
    lastVerified,  \* the block whose hash the source confirmed last, or NoBlock
    resets,        \* count of resets
    snap,          \* the last encoded snapshot, or NoSnap
    ret,           \* what apply_batch returned; "running" inside the call
    todo,          \* spans apply_batch has still to consume
    done           \* index of the last event of Head(todo) consumed, or 0

engineVars == <<fold, cursor, ring, slots, status, lastVerified, resets, snap,
                ret, todo, done>>

-----------------------------------------------------------------------------
(***************************************************************************)
(* Positions and blocks.  The absent position lies below every other one,  *)
(* as None does in the order of Option<Position>.                          *)
(***************************************************************************)
NoPos == [block |-> -1, log |-> -1]
Position == [block : Nat, log : Nat]

After(p, q) == \/ p.block > q.block
               \/ p.block = q.block /\ p.log > q.log

BlockRef == [number : Nat, hash : Hash]
NoBlock == [number |-> -1]

Event == [block : Nat, log : Nat, hash : Hash]
Fold == [events : Seq(Event), torn : BOOLEAN]

\* The state a driver starts from: no event folded.
Genesis == [events |-> <<>>, torn |-> FALSE]

-----------------------------------------------------------------------------
(***************************************************************************)
(* Batches.                                                                *)
(***************************************************************************)
Span == [number : Nat, hash : Hash, logs : Seq(Nat)]
Batch == [boundary : BlockRef \cup {NoBlock}, spans : Seq(Span)]

ASSUME BatchesAssumption == Batches \subseteq Batch

Ascending(s) == \A i \in 1..(Len(s) - 1) : s[i] < s[i + 1]

\* Block numbers ascend, no span is empty, log indices ascend in each span.
Validate(b) ==
    /\ \A i \in 1..(Len(b.spans) - 1) : b.spans[i].number < b.spans[i + 1].number
    /\ \A i \in 1..Len(b.spans) : b.spans[i].logs # <<>> /\ Ascending(b.spans[i].logs)

BlockOf(s) == [number |-> s.number, hash |-> s.hash]
PosAt(s, i) == [block |-> s.number, log |-> s.logs[i]]
EventAt(s, i) == [block |-> s.number, log |-> s.logs[i], hash |-> s.hash]

-----------------------------------------------------------------------------
(***************************************************************************)
(* The ring of observed blocks.                                            *)
(***************************************************************************)
Newest(r) == r[Len(r)]

Observes(r, number) == \E i \in 1..Len(r) : r[i].number = number

\* The ring observed number under another hash than this.
Contradicts(r, number, hash) ==
    \E i \in 1..Len(r) : r[i].number = number /\ r[i].hash # hash

\* A faulty Push that never evicts.
PushUnbounded(r, block) == Append(r, block)

Push(r, block) ==
    Append(IF Len(r) < RingCapacity THEN r ELSE Tail(r), block)

\* m entries of the ring, the oldest ones, lie at or below number.
AtOrBelow(r, number, m) ==
    /\ m \in 0..Len(r)
    /\ \A i \in 1..Len(r) : i <= m <=> r[i].number <= number

-----------------------------------------------------------------------------
(***************************************************************************)
(* The checkpoints.                                                        *)
(***************************************************************************)
Slot == [fold : Fold, cursor : Position \cup {NoPos}]

\* The ring can still serve the slot's window.
Live(slot) == slot.cursor = NoPos \/ Observes(ring, slot.cursor.block)

\* Storing into a full ring overwrites the oldest slot, live or not.
Store(s, slot) ==
    IF CheckpointSlots = 0 THEN s
    ELSE Append(IF Len(s) < CheckpointSlots THEN s ELSE Tail(s), slot)

\* Slot i is the oldest live one.
IsOldest(i) ==
    /\ i \in 1..Len(slots)
    /\ Live(slots[i])
    /\ \A j \in 1..(i - 1) : ~Live(slots[j])

\* Slot i is the newest live one with a cursor block at or below block.
Serves(i, block) == Live(slots[i]) /\ slots[i].cursor.block <= block

IsBest(i, block) ==
    /\ i \in 1..Len(slots)
    /\ Serves(i, block)
    /\ \A j \in (i + 1)..Len(slots) : ~Serves(j, block)

\* A faulty drop_newer that keeps every slot.
NotNewerKeepAll(s, pos, n) == n = Len(s)

\* n slots, the oldest ones, have a cursor that is not after pos.
NotNewer(s, pos, n) ==
    /\ n \in 0..Len(s)
    /\ \A i \in 1..Len(s) : i <= n <=> ~After(s[i].cursor, pos)

-----------------------------------------------------------------------------
Idle == ret # "running"
NoCall == ret' = "none" /\ todo' = <<>> /\ done' = 0
Returns(r) == ret' = r /\ todo' = <<>> /\ done' = 0

\* The engine Engine::new builds around a fold.
Fresh(f) ==
    /\ fold = f
    /\ cursor = NoPos
    /\ ring = <<>>
    /\ slots = <<>>
    /\ status = "Active"
    /\ lastVerified = NoBlock
    /\ resets = 0

NoSnap == [fold |-> Genesis, cursor |-> NoPos, ring |-> <<>>]

EngineInit ==
    /\ Fresh(Genesis)
    /\ snap = NoSnap
    /\ ret = "none" /\ todo = <<>> /\ done = 0

-----------------------------------------------------------------------------
(***************************************************************************)
(* apply_batch: the checks before any event reaches the fold.              *)
(***************************************************************************)
Verdict(b) ==
    IF status # "Active" THEN "notActive"
    ELSE IF ~Validate(b) THEN "shape"
    ELSE IF cursor = NoPos THEN "accept"
    ELSE IF b.boundary = NoBlock THEN "missingBoundary"
    ELSE IF b.boundary.number # cursor.block THEN "boundaryMismatch"
    ELSE IF ~Observes(ring, cursor.block) THEN "unobserved"
    ELSE IF Contradicts(ring, cursor.block, b.boundary.hash) THEN "fork"
    ELSE "accept"

RefuseBatch(b) ==
    /\ Idle
    /\ Verdict(b) # "accept"
    /\ Returns(Verdict(b))
    /\ UNCHANGED <<fold, cursor, ring, slots, status, lastVerified, resets, snap>>

\* A faulty apply_batch that does not mark the engine before it calls the fold.
AcceptBatchUnmarked(b) ==
    /\ Idle
    /\ Verdict(b) = "accept"
    /\ lastVerified' = IF cursor = NoPos THEN lastVerified ELSE b.boundary
    /\ ret' = "running" /\ todo' = b.spans /\ done' = 0
    /\ UNCHANGED <<fold, cursor, ring, slots, status, resets, snap>>

\* The status is Poisoned for the length of the loop, so an unwind leaves it so.
AcceptBatch(b) ==
    /\ Idle
    /\ Verdict(b) = "accept"
    /\ lastVerified' = IF cursor = NoPos THEN lastVerified ELSE b.boundary
    /\ status' = "Poisoned"
    /\ ret' = "running" /\ todo' = b.spans /\ done' = 0
    /\ UNCHANGED <<fold, cursor, ring, slots, resets, snap>>

ApplyBatch(b) == RefuseBatch(b) \/ AcceptBatch(b)

(***************************************************************************)
(* apply_batch: the loop over the spans.                                   *)
(***************************************************************************)
AtSpan == ret = "running" /\ todo # <<>>

Redelivered(s) == cursor # NoPos /\ s.number <= cursor.block

\* A span at or below the cursor whose hash the ring contradicts; what the
\* earlier spans of the batch consumed stays consumed.
SpanForked ==
    /\ AtSpan /\ done = 0
    /\ Redelivered(Head(todo))
    /\ Contradicts(ring, Head(todo).number, Head(todo).hash)
    /\ status' = "Active"
    /\ Returns("fork")
    /\ UNCHANGED <<fold, cursor, ring, slots, lastVerified, resets, snap>>

Admitted(s) == ~(Redelivered(s) /\ Contradicts(ring, s.number, s.hash))

\* Every event of the span is at or below the cursor.
SpanDeduped ==
    /\ AtSpan /\ done = 0
    /\ Admitted(Head(todo))
    /\ \A i \in 1..Len(Head(todo).logs) : ~After(PosAt(Head(todo), i), cursor)
    /\ todo' = Tail(todo)
    /\ UNCHANGED <<fold, cursor, ring, slots, status, lastVerified, resets, snap, ret, done>>

\* The event the fold sees next: the first one after the cursor, then one by one.
IsNext(s, i) ==
    /\ i \in 1..Len(s.logs)
    /\ IF done = 0
       THEN /\ Admitted(s)
            /\ After(PosAt(s, i), cursor)
            /\ \A j \in 1..(i - 1) : ~After(PosAt(s, j), cursor)
       ELSE i = done + 1

\* A faulty advance that records the block but not its verification.
AdvanceStale(s, i) ==
    /\ cursor' = PosAt(s, i)
    /\ IF ring = <<>> \/ Newest(ring).number < s.number
       THEN ring' = Push(ring, BlockOf(s)) /\ UNCHANGED lastVerified
       ELSE UNCHANGED <<ring, lastVerified>>

\* Moves the cursor to event i, recording the block the first time the
\* cursor enters it.
Advance(s, i) ==
    /\ cursor' = PosAt(s, i)
    /\ IF ring = <<>> \/ Newest(ring).number < s.number
       THEN ring' = Push(ring, BlockOf(s)) /\ lastVerified' = BlockOf(s)
       ELSE UNCHANGED <<ring, lastVerified>>

\* The fold accepts the event, or says that it is not its own.
Consume(i, f) ==
    /\ IsNext(Head(todo), i)
    /\ fold' = f
    /\ IF i = Len(Head(todo).logs)
       THEN Advance(Head(todo), i) /\ todo' = Tail(todo) /\ done' = 0
       ELSE done' = i /\ UNCHANGED <<cursor, ring, lastVerified, todo>>
    /\ UNCHANGED <<slots, status, resets, snap, ret>>

FoldAccepts ==
    AtSpan /\ \E i \in 1..Len(Head(todo).logs) :
        Consume(i, [fold EXCEPT !.events = Append(@, EventAt(Head(todo), i))])

FoldSkips ==
    AtSpan /\ \E i \in 1..Len(Head(todo).logs) :
        EventAt(Head(todo), i) \in Foreign /\ Consume(i, fold)

\* A faulty consumed_through that moves the cursor but records no block.
ConsumedThroughUnrecorded(s) ==
    /\ cursor' = IF done = 0 THEN cursor ELSE PosAt(s, done)
    /\ UNCHANGED <<ring, lastVerified>>

\* The cursor moves to the predecessor of the refused event; nothing moves
\* when the event is the first of its span.
ConsumedThrough(s) ==
    IF done = 0 THEN UNCHANGED <<cursor, ring, lastVerified>> ELSE Advance(s, done)

Refuse(newStatus, reply, f) ==
    /\ AtSpan
    /\ \E i \in 1..Len(Head(todo).logs) : IsNext(Head(todo), i)
    /\ ConsumedThrough(Head(todo))
    /\ fold' = f
    /\ status' = newStatus
    /\ Returns(reply)
    /\ UNCHANGED <<slots, resets, snap>>

FoldHalts == Refuse("Halted", "halted", fold)

\* A poisoning apply has mutated the state partially.
FoldPoisons == Refuse("Poisoned", "poisoned", [fold EXCEPT !.torn = TRUE])

\* A panic inside Fold::apply unwinds out of the loop.
FoldPanics ==
    /\ AtSpan
    /\ \E i \in 1..Len(Head(todo).logs) : IsNext(Head(todo), i)
    /\ fold' = [fold EXCEPT !.torn = TRUE]
    /\ Returns("panicked")
    /\ UNCHANGED <<cursor, ring, slots, status, lastVerified, resets, snap>>

BatchDone ==
    /\ ret = "running" /\ todo = <<>>
    /\ status' = "Active"
    /\ Returns("ok")
    /\ UNCHANGED <<fold, cursor, ring, slots, lastVerified, resets, snap>>

ApplyStep ==
    \/ SpanForked \/ SpanDeduped
    \/ FoldAccepts \/ FoldSkips \/ FoldHalts \/ FoldPoisons \/ FoldPanics
    \/ BatchDone

-----------------------------------------------------------------------------
(***************************************************************************)
(* Checkpoints, rollback, reset.                                           *)
(***************************************************************************)
\* A faulty checkpoint that stores whatever the status is.
CheckpointUntrusted ==
    /\ Idle
    /\ slots' = Store(slots, [fold |-> fold, cursor |-> cursor])
    /\ NoCall
    /\ UNCHANGED <<fold, cursor, ring, status, lastVerified, resets, snap>>

Checkpoint ==
    /\ Idle
    /\ slots' = IF status = "Active"
                THEN Store(slots, [fold |-> fold, cursor |-> cursor])
                ELSE slots
    /\ NoCall
    /\ UNCHANGED <<fold, cursor, ring, status, lastVerified, resets, snap>>

CanRollback(block) ==
    status # "Unrecoverable" /\ \E i \in 1..Len(slots) : Serves(i, block)

\* rollback_at_or_below; without a slot that serves the block, or once the
\* engine is unrecoverable, it fails and changes nothing.
Rollback(block) ==
    /\ Idle
    /\ CanRollback(block)
    /\ \E i \in 1..Len(slots) :
         /\ IsBest(i, block)
         /\ fold' = slots[i].fold
         /\ cursor' = slots[i].cursor
         /\ \E m \in 0..Len(ring) :
              /\ AtOrBelow(ring, slots[i].cursor.block, m)
              /\ ring' = SubSeq(ring, 1, m)
         /\ \E n \in 0..Len(slots) :
              /\ NotNewer(slots, slots[i].cursor, n)
              /\ slots' = SubSeq(slots, 1, n)
    /\ status' = "Active"
    /\ lastVerified' = NoBlock
    /\ NoCall
    /\ UNCHANGED <<resets, snap>>

Reset(f) ==
    /\ Idle
    /\ resets < MaxResets
    /\ fold' = f
    /\ cursor' = NoPos
    /\ ring' = <<>>
    /\ slots' = <<>>
    /\ status' = "Active"
    /\ lastVerified' = NoBlock
    /\ resets' = resets + 1
    /\ NoCall
    /\ UNCHANGED snap

MarkUnrecoverable ==
    /\ Idle
    /\ status' = "Unrecoverable"
    /\ NoCall
    /\ UNCHANGED <<fold, cursor, ring, slots, lastVerified, resets, snap>>

-----------------------------------------------------------------------------
(***************************************************************************)
(* Snapshots.  The envelope's framing and checksum are left out: what is   *)
(* kept is what goes in, and what the decoder demands of it.               *)
(***************************************************************************)
EncodeSnapshot ==
    /\ Idle
    /\ status # "Poisoned"
    /\ snap' = [fold |-> fold, cursor |-> cursor, ring |-> ring]
    /\ NoCall
    /\ UNCHANGED <<fold, cursor, ring, slots, status, lastVerified, resets>>

\* A faulty encode_durable_snapshot that writes the whole ring.
EncodeDurableSnapshotWholeRing ==
    /\ Idle
    /\ \E i \in 1..Len(slots) :
         /\ IsOldest(i)
         /\ slots[i].cursor # NoPos
         /\ snap' = [fold |-> slots[i].fold, cursor |-> slots[i].cursor, ring |-> ring]
    /\ NoCall
    /\ UNCHANGED <<fold, cursor, ring, slots, status, lastVerified, resets>>

\* The oldest live checkpoint with the part of the ring up to its cursor.
EncodeDurableSnapshot ==
    /\ Idle
    /\ \E i \in 1..Len(slots) :
         /\ IsOldest(i)
         /\ slots[i].cursor # NoPos
         /\ \E m \in 0..Len(ring) :
              /\ AtOrBelow(ring, slots[i].cursor.block, m)
              /\ snap' = [fold |-> slots[i].fold, cursor |-> slots[i].cursor,
                          ring |-> SubSeq(ring, 1, m)]
    /\ NoCall
    /\ UNCHANGED <<fold, cursor, ring, slots, status, lastVerified, resets>>

\* What decode_snapshot demands before it builds an engine.
Decodable(s) ==
    /\ Len(s.ring) <= RingCapacity
    /\ \A i \in 1..(Len(s.ring) - 1) : s.ring[i].number < s.ring[i + 1].number
    /\ IF s.ring = <<>> THEN s.cursor = NoPos ELSE s.cursor.block = Newest(s.ring).number

\* The process stops at any moment, in the middle of a batch too, and a new
\* one decodes the last snapshot (the genesis fold when there was none).
Restart ==
    /\ Decodable(snap)
    /\ fold' = snap.fold
    /\ cursor' = snap.cursor
    /\ ring' = snap.ring
    /\ slots' = <<>>
    /\ status' = "Active"
    /\ lastVerified' = NoBlock
    /\ resets' = 0
    /\ NoCall
    /\ UNCHANGED snap

-----------------------------------------------------------------------------
(***************************************************************************)
(* The only caller of mark_unrecoverable is the driver's recovery from a   *)
(* fork, which an Active engine alone can report.                          *)
(***************************************************************************)
GiveUp == status = "Active" /\ MarkUnrecoverable

EngineNext ==
    \/ \E b \in Batches : ApplyBatch(b)
    \/ ApplyStep
    \/ Checkpoint
    \/ \E block \in RollbackTargets : Rollback(block)
    \/ Reset(Genesis)
    \/ GiveUp
    \/ EncodeSnapshot
    \/ EncodeDurableSnapshot
    \/ Restart

EngineSpec == EngineInit /\ [][EngineNext]_engineVars

-----------------------------------------------------------------------------
(***************************************************************************)
(* Properties.                                                             *)
(***************************************************************************)
Snapshot == [fold : Fold, cursor : Position \cup {NoPos}, ring : Seq(BlockRef)]

Verdicts == {"notActive", "shape", "missingBoundary", "boundaryMismatch",
             "unobserved", "fork"}

\* The values each variable takes.
EngineTypeOK ==
    /\ fold \in Fold
    /\ cursor \in Position \cup {NoPos}
    /\ ring \in Seq(BlockRef) /\ Len(ring) <= RingCapacity
    /\ slots \in Seq(Slot) /\ Len(slots) <= CheckpointSlots
    /\ status \in {"Active", "Halted", "Poisoned", "Unrecoverable"}
    /\ lastVerified \in BlockRef \cup {NoBlock}
    /\ resets \in Nat
    /\ snap \in Snapshot
    /\ ret \in {"none", "running", "ok", "halted", "poisoned", "panicked"} \cup Verdicts
    /\ todo \in Seq(Span)
    /\ done \in Nat

\* A ring r ends at the block of the cursor c, with ascending numbers, and is
\* empty exactly when there is no cursor.
RingEndsAt(r, c) ==
    /\ \A i, j \in 1..Len(r) : i < j => r[i].number < r[j].number
    /\ r = <<>> <=> c = NoPos
    /\ r # <<>> => Newest(r).number = c.block

\* engine.rs: "When the cursor is set, the ring's newest entry is the cursor
\* block", in the middle of a batch, after a panic and after a rollback too.
RingTipIsCursor == RingEndsAt(ring, cursor)

\* A fold f holds events at strictly increasing positions, none of them after
\* c, and agrees with the ring r about the hash of every block both know.
FoldsOneChain(f, c, r) ==
    /\ ~f.torn
    /\ \A i, j \in 1..Len(f.events) : i < j => After(f.events[j], f.events[i])
    /\ \A i \in 1..Len(f.events) : ~After(f.events[i], c)
    /\ \A i \in 1..Len(f.events), k \in 1..Len(r) :
         f.events[i].block = r[k].number => f.events[i].hash = r[k].hash

\* An engine that accepts batches, or halted cleanly, has folded no event twice
\* or out of order, and none of a block other than the one the ring observed at
\* that height: events of two forks never meet in one state.
NoForkMixing ==
    (Idle /\ status # "Poisoned") => FoldsOneChain(fold, cursor, ring)

\* A slot that rollback may restore holds trusted state of the same chain as the
\* ring, whatever panics, reorgs, evictions and rollbacks came after it was
\* stored, and lies at or behind the cursor; slots are kept oldest first, as
\* drop_newer and the durable point assume.
CheckpointsTrusted ==
    /\ \A i \in 1..Len(slots) :
         /\ FoldsOneChain(slots[i].fold, slots[i].cursor, ring)
         /\ ~After(slots[i].cursor, cursor)
    /\ \A i, j \in 1..Len(slots) : i < j => ~After(slots[i].cursor, slots[j].cursor)

\* A snapshot the engine encoded always decodes, to an engine whose ring ends
\* at its cursor and whose fold holds one chain.
SnapshotRestores ==
    /\ Decodable(snap)
    /\ RingEndsAt(snap.ring, snap.cursor)
    /\ FoldsOneChain(snap.fold, snap.cursor, snap.ring)

\* last_verified never names a block the engine has left: it is the newest
\* observed block, or nothing.
FreshnessNamesTip ==
    lastVerified # NoBlock => ring # <<>> /\ lastVerified = Newest(ring)

\* A rollback to a block ends at or below it and never ahead of where the engine
\* was, and keeps the checkpoint it restored as the newest one, so that the same
\* rollback can be run again; nothing it keeps is newer than the restored state.
RollbackStep(block) ==
    /\ cursor'.block <= block
    /\ ~After(cursor', cursor)
    /\ slots' # <<>>
    /\ slots'[Len(slots')] = [fold |-> fold', cursor |-> cursor']

RollbackGoesBack ==
    [][\A block \in RollbackTargets : Rollback(block) => RollbackStep(block)]_engineVars

-----------------------------------------------------------------------------
(***************************************************************************)
(* The inductive invariant behind them: what holds inside a batch.         *)
(***************************************************************************)
\* The spans still to consume are well formed; inside a span the last consumed
\* event lies after the cursor and the ring does not contradict the span; only
\* an engine that is Poisoned and has left the loop holds a torn fold.
CallConsistent ==
    /\ ret = "running" => status = "Poisoned"
    /\ ret # "running" => todo = <<>> /\ done = 0
    /\ \A k \in 1..Len(todo) : todo[k].logs # <<>> /\ Ascending(todo[k].logs)
    /\ done > 0 => /\ todo # <<>>
                   /\ done < Len(Head(todo).logs)
                   /\ Admitted(Head(todo))
                   /\ After(PosAt(Head(todo), done), cursor)
    /\ fold.torn => status = "Poisoned" /\ ret # "running"

\* The last position handed to the fold.
Reach == IF done > 0 THEN PosAt(Head(todo), done) ELSE cursor

\* A fold that is not torn holds one chain, up to the last event it was handed.
FoldConsistent ==
    ~fold.torn =>
      /\ FoldsOneChain(fold, Reach, ring)
      /\ done > 0 => \A i \in 1..Len(fold.events) :
                       fold.events[i].block = Head(todo).number
                         => fold.events[i].hash = Head(todo).hash

EngineInv ==
    /\ EngineTypeOK
    /\ CallConsistent
    /\ RingTipIsCursor
    /\ FreshnessNamesTip
    /\ FoldConsistent
    /\ CheckpointsTrusted
    /\ SnapshotRestores
=============================================================================
