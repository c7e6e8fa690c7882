# TLA+ models of chainfold, rotortree, sealring and binius-mayo

The repository holds four independent Rust crates. Two keep state that must survive
reorganisations, crashes and concurrent threads: **chainfold** folds a chain's event log
into a deterministic state and persists it, **rotortree** is an append-only Merkle tree
with a write-ahead log and memory-mapped data files. Two are cryptographic: **sealring**
seals notes to a key and scans batches of them with reused buffers, **binius-mayo**
proves in a circuit that a MAYO signature is valid. This directory models the four,
checks the models with TLC and proves chainfold's engine, rings, driver, store, flusher
and harness and rotortree's tree and storage with TLAPS. `PROJECT.json` gives, for each
definition, the source lines it stands for; the names follow the source.

## 1. Inventory

### chainfold

| part | state | operations | hard because | must hold |
|---|---|---|---|---|
| engine (`engine.rs`, `batch.rs`, `snapshot.rs`) | fold, cursor, block ring, checkpoint slots, status, `last_verified` | `apply_batch`, `checkpoint`, `rollback_at_or_below`, `reset`, `mark_unrecoverable`, two snapshot encoders, decoder | a batch stops at any event (panic, halt, poison, fork, gap) and leaves a prefix applied; batches are redelivered; the ring forgets | one fork in the fold, each event once; checkpoints and snapshots restore what they claim |
| rings (`ring.rs`, `checkpoint.rs`) | circular arrays with write positions | push, truncate, lookup by number; store, drop, clear | wraparound, gaps in numbers, holes after a rollback | they implement the bounded sequences the engine relies on |
| driver (`driver.rs`, `source.rs`) | `span`, the `walked` and `vouched` marks, `caught_up`, the cadences' marks, `seen_resets` | `tick` (`step`, `poll_apply`, `scan`, `recover_via_bisection`, `resync_or_terminal`), `checkpoint`, `engine_mut`, `source_mut` | the chain may move between any two source calls of one tick; marks outlive the tick that set them; a restart has no checkpoints | nothing skipped, nothing folded twice, recovery loses no more than it must, the head is reached |
| snapshot store (`store.rs`, `manifest.rs`, `vfs.rs`) | snapshot files, two manifest slots, active side, poison flag | `open`, `commit`, `prune` | a kill, a failing call or a power failure between any two file-system calls | an open finds the last acknowledged commit or the one under way |
| flusher (`flusher.rs`, `sink.rs`) | job queue, admission slots, epoch, watermark, poison flag, tokens | offer, reset, join; the flusher thread's loop | two threads and a bounded queue; a thread may die | slots are conserved, the watermark never names what a restart cannot find |
| harness (`harness.rs`) | stop flag, request counter, published status, condition variable | the loop, `request_checkpoint`, `shutdown` | a signal between the loop's check and its wait; a blocked offer at shutdown | no signal is lost, every shutdown ends |

The harness's loop thread owns the driver; the driver owns the engine, calls the
source and offers encoded snapshots to its sink, the flusher; the flusher thread
commits them to the store; at start the store's snapshot is decoded into an engine.

### rotortree

| part | state | operations | hard because | must hold |
|---|---|---|---|---|
| LeanIMT (`tree.rs`, `chunked_level.rs`, `hash.rs`) | levels of nodes in shared chunks and segments, root, depth | `insert`, `insert_many`, snapshots | the half-full group at each level; depth at powers of the arity; a snapshot shares chunks the writer goes on filling | the levels are those of the leaves' Merkle tree, a snapshot stays as it was |
| proofs (`proof.rs`, `verify`) | none | inclusion and consistency proofs, updating a proof | boundaries at full groups and level changes | every proof the tree gives verifies, also after an update |
| storage (`storage/*`) | WAL buffer and file, data files, checkpoint record, durability tokens | insert, flush, checkpoint, close, recovery | inserts run beside a checkpoint; failures between its file-system calls | leaves whose token said durable are back after a crash, in their order, under their own root (not after the crashes of section 5, 3 and 4) |

### sealring

| part | state | operations | hard because | must hold |
|---|---|---|---|---|
| adapters (`kem.rs`, `adapters/*`) | scratch of one batch | `encap`, `decap`, `decap_batch` | unusable inputs in a batch, one inversion for all of them | the batch gives what one-by-one decapsulation gives |
| sealing (`seal.rs`, `envelope.rs`, `domain.rs`, `recipient.rs`) | none | `seal`, `open`, `parse` | keys that share x-coordinates, cut or damaged bytes, another domain's tag | a note opens for its recipient, domain and aad, and for no other |
| scanning (`scan.rs`) | epk, slot and note buffers kept from scan to scan | `scan`, `scan_parallel` | partly filled chunks, reuse, a consumer that panics half way, task boundaries | a scan reports what opening each blob alone would; no secret outlives its chunk, unless a panic cuts the chunk short |

### binius-mayo

| part | state | operations | hard because | must hold |
|---|---|---|---|---|
| field and circuit (`gf16/*`, `quadratic.rs`, `whipping.rs`, `shake256.rs`, `verify.rs`) | wires | gates, `populate_*` | sixty-four nibbles in four words; reduction modulo f(z); columns that start inside a byte | the circuit is the public map, its equations hold for signatures only |
| interface (`api.rs`, `params.rs`) | a prover, a verifier, their layouts, a bundle | `prove`, `verify`, commitments, key expansion | prover and verifier are built apart and agree by offsets only | a bundle verifies exactly if it was proved for those inputs |

The examples, hash adapters and re-exporting `lib.rs` files have no state of their own
and are not modelled.

`PROJECT.json` lists 40 hazards at their lines. They were the starting point for the
properties; the ones no property covers carry a note.

## 2. Modules

    Engine <- EngineProofs <-----+  SnapshotCell <- Store <- MCStore
      ^    <- MCEngine           |        ^              <- StoreProofs
      |    <- Driver <- MCDriver |     Flusher <- Harness <- HarnessProofs
      |              <- DriverProofs
    (INSTANCE) Rings <- RingsProofs
                                     LeanIMT <- ChunkedLevel <- TreeReader
    SealKem <- Sealring                ^     <- RotorTree <- MCRotorTree
                  ^                    |
               Scanner <-----+       LeanIMTProofs <- TreeReaderProofs (and TreeReader)
                             |                     <- RotorTreeProofs (and RotorTree)
    Gf16 <- Mayo <- MayoApi <- MCCrypto

An arrow is EXTENDS; `Store` and `Rings` reach the module they refine by INSTANCE. `MC*`
modules give CONSTANTS values; `MCCrypto` also puts the two cryptographic libraries,
which share nothing, into one specification, each behaviour being of one of them. A
definition whose comment calls it *faulty* is a bug the code could have had, used only
to make sure that a property notices it.

**Engine.** `apply_batch` is a call under way: `todo` holds the remaining spans
and `done` the events of the first span already folded, and each step is one call of
`Fold::apply` (or one exit: redelivered, forked, out of order, panic, halt, poison).
So the state after each event is visible, as it is to a caller whose fold panics.
Ring and slots are sequences, oldest first. A snapshot is the record of the fields
that decoding cross-checks; bytes, lengths and checksums are left out, as are the
skip counter and the `ApplySummary`.

**Rings.** The arrays behind those sequences, with physical indices, the
interpolated guess and the binary search. `Aged(i)` is the i-th cell of the slot array
in the order in which `oldest_first` walks it. `RingSeq` and `OldestFirst` map the arrays
to the sequences, and the properties compare each operation with Engine's operator.

**Driver.** Extends Engine. `pc` names the next call of the tick, one action
per source call, so `ChainMoves`, `SourceFails`, `SourcePrunes` and `Crash` fall between
any two of them. Blocks are a tree (`Parent`, `Number`, `Logs`) and the source
answers from `canon`, its present head. `CallerMovesEngine` and the like are uses of
`engine_mut` between ticks. Delays and the generation counter are left out.

**SnapshotCell, Store.** SnapshotCell is what a store promises: a cell that
holds the last committed value and may take the pending one. Store has one action
per file-system call, a `cache` (what the process sees) and a `disk` (what was
synced); a power failure keeps for each file and slot the old content, the new one
or garbage, as `CrashVfs` in `test_util` does. `ImplementsCell` is the refinement.

**Flusher, Harness.** Flusher extends SnapshotCell (the store seen from above) with
the apply thread's half (`OfferAdmitted` ... `Join`) and the flusher thread's half (`Recv` ...
`DropJob`, `ThreadDies`). Harness adds the loop thread, the mutex and condition
variable, requests and shutdown; a tick is reduced to what it does to the sink.
The `wait_*` methods only read the published status and have no action.

**LeanIMT, ChunkedLevel, TreeReader.** LeanIMT has the algorithms as operators over
levels (a level is the sequence of its nodes). A hash is the sequence of what is
hashed, so equality of hashes is equality of inputs. ChunkedLevel is how a level is
stored: two heaps of reference-counted chunks and segments, the tree's levels and
the snapshot's pointing into them, and the writes of `set`, `extend_with` and
`write_with` with the copies `Arc::make_mut` takes; counts are the number of
references, a released address is named afresh so that equal memories are equal
states. TreeReader inserts, holds one snapshot and goes on; a batch stores a level by
the sequential or by the parallel path, by the amount of work. That batched and
parallel hashing compute the parents of the scalar loop is taken for granted.
`MerkleNode` is the reference the levels are compared with: a node is the hash of the
nodes it covers, by its index and the number of leaves alone. A proof's positions and
sibling counts are kept in bytes (`to_u8`, `proof.rs:12`), and the generator answers
MathError when one does not fit, in a consistency proof from N = 256 on.
`LeanIMTAssumption` therefore asks for an arity from 2 to 255, for which every count fits
(`CountsFit` in `TreeReaderProofs`) and the conversion is the identity.

**RotorTree.** Extends LeanIMT with the buffer, the log file, the data files,
the checkpoint record, the flushed mark and the promises tokens made. A checkpoint
is one action per call (write, sync, snapshot, each level, sync, rename, directory
sync, remap, cut, sync); `wal`, files and record have a synced and an unsynced part.
Frames are whole or torn; a level has one shard; file headers are left out. `log` is a
history variable: the leaves inserted, in their order. It outlives crashes, and a recovery
takes from its end as many leaves as the recovered tree has fewer, so that a leaf missing
before another, or replayed twice, is seen in the tree. An open refuses a root that does
not match (DataCorruption), replayed leaves that do not fit (MaxDepthExceeded) and, in some
cases, a torn frame before whole ones (CrcMismatch).

**SealKem, Sealring, Scanner.** The curves are one toy group in which a point is its
scalar and P and -P share an x-coordinate, as they do on a curve; K256, X25519 and
Grumpkin differ in what they accept and in how they batch, Montgomery's trick included.
Bytes are cells: an epk, a length or a ciphertext is a short sequence, so
a damaged or cut blob is one with a changed or missing cell. HKDF and the AEAD are
ideal (a key is what it was derived from); the ephemeral scalar is a draw counter.
Scanner is the machine: blobs are sealed, damaged or taken from elsewhere, then one
scan runs chunk by chunk through the scanner's own buffers, with `decode_note` and
`verify` of the consumer as the calls that may panic; the scanner can be used again
after that. `leftover` is a history variable, the slots a panic has left unwiped; a chunk
that reaches them wipes them. The tasks of a parallel scan share nothing, so each is one
step.

**Gf16, Mayo, MayoApi.** A word is the set of its bits. Gf16 has the bitsliced
arithmetic and its scalar reference, Mayo the circuit gate by gate (sixty-four lanes,
the reduction polynomial and K = 4 as in the code, V and O smaller) and the values
`populate_*` writes to the wires, MayoApi building a prover and a verifier, proving and
verifying. AES and SHAKE are constants, Keccak a symbol, the proof system ideal: it
accepts what satisfies the constraints, may fail, and may panic. The
randomness that blinds a proof is left out.

## 3. Runs

| run | shows | instance |
|---|---|---|
| `engine` | any sequence of good, malformed, redelivered and forked batches with failing folds, checkpoints, rollbacks, resets, restarts: the ring ends at the cursor, no fork mixing, checkpoints and snapshots can be trusted, a rollback goes back | heights 1-3, a fork at 2, ring 2, slots 2, one reset |
| `rings` | the arrays implement the sequences | ring 4, slots 3, numbers 0-4, logs 0-1 |
| `driver` | the fold is complete up to the cursor for one chain (`FoldComplete`), so are the restore points; the marks name only folded blocks; "caught up" is true; a checkpoint stays; recovery goes to the best checkpoint on the source's chain; when disturbances end the head is reached (`Converges`) | chain a1-a4, fork b2-b4, window 1, span up to 2, ring 2, slots 2 |
| `store` | an open succeeds and finds an acknowledged or pending commit; slots name their own file | retain 1, five commits; 3 power failures, or 2 kills and 3 failing calls |
| `harness` | admission slots conserved, watermark honest across resets, join drains, requests taken, shutdown ends | three snapshots, queue 2, one reset, one request |
| `tree` | levels equal a top-down definition of the Merkle tree; the chunks hold the levels of the tree and, untouched, those of the snapshot; all inclusion, consistency and updated proofs between two states verify | arities 2, 3, 4; depth 4; batches up to 5; 28 leaves; chunks of 2, segments of 2 |
| `rotortree` | under the listed mishaps durable leaves survive, the leaves are the inserted ones in order, the root is theirs, the tree opens again | arity 2, chunk 2, depth 2, 4 leaves, all three checkpoint policies; a power failure with a kill and two restarts, or with a failing call and one restart; a failing log write of a checkpoint and no restart |
| `crypto` | sealring: a scan, sequential or parallel, reports exactly what opening each blob alone would; a scanner receives its notes and no other's; a slot holds a secret of its own chunk or none, save those a panic left, until a chunk as long is wiped. binius-mayo: the circuit computes the public map; its equations hold for exactly the signatures; a verifier accepts a bundle exactly if it was proved for its inputs | every adapter, five blobs of which one is odd, chunk 2, window 4, a panic and a second scan; V 3, O 2, K 4; two keys, two payloads, three signatures, four layouts |
| `store_adopted_slot` | **violated**: see 5 | one kill, one power failure |
| `rotortree_stale_nodes` | **violated**: see 5 | nothing goes wrong |
| `rotortree_log_retry` | **violated**: see 5 | one failing log write, one restart |
| `rotortree_number_reuse` | **violated**: see 5 | one failing flush, one power failure, two restarts |

Each run checks what could go wrong. The type invariants of Rings, Driver, Store,
Flusher with Harness, TreeReader and RotorTree are proved, Engine's is checked and proved.

*Bounds.* Disturbances are spent from `Budgets`, sets of records: each member is a
separate story, so that mishaps combine where they interact without multiplying
everywhere. A ring of two and two slots evict, wrap and leave holes; three heights are
enough for "below, at and above" the ring; the fork has blocks without events so walks
cross empty blocks, and a block with two events lets the cursor stop inside one. Five
commits use each manifest side twice and reach pruning. In the tree, 28 leaves pass 2^4,
3^3 and 4^2, so each arity gets a full level, one past it and a level change; chunks and
segments of two make a group cross chunks (arity 3 and 4), a half-full last chunk sit in
a frozen segment, and a batch span several segments. In rotortree a chunk of two nodes
and four leaves give complete and partial chunks at the leaf level; larger inner levels
only lead to the stale nodes of section 5, which has its own run. The `rotortree` run
keeps kills and restarts away from a failed log write of a checkpoint, and a second
restart from a failing flush with a power failure, for the same reason:
`rotortree_log_retry` and `rotortree_number_reuse` are those sequences. In sealring five
blobs with a chunk of two are two full chunks and a partial one, and with a window of
four one past a window; the key 5 is the mirror image of the scanner's key 2; `MaxOdd` =
1 puts one odd blob (damaged, cut, foreign, unusable epk, panicking note) at every
place. In mayo N = 5 is odd, so columns start inside a byte; the signatures include a
valid one, one that differs in a nibble, and one for another key; two of the layouts are
ones the code must refuse. `MaxLeaves`, `MaxCommits`, `MaxResets`, `MaxEpoch`,
`MaxRequests`, `MaxNumber`, `MaxLog`, `MaxSeals` and `MaxOdd` bound counters the code
does not bound.

*An assumption.* `driver` runs with `ChainMayReturn = FALSE`: no chain leaves a head and
returns to it within one tick. Head, windows, anchor and the head's header are
read in turn (`driver.rs:682`), and a chain that leaves and returns in between passes
the recheck though the reads come from another fork. With TRUE, TLC violates
`MarksSound`; the driver has no means of seeing it. The theorems about what the fold
holds have the same hypothesis.

*Deadlock* is checked in every run; a process that is meant to stop stutters in an
explicit action (`Finished`, `Refused`, `StaysDown`).

*Fairness.* Driver: weak fairness of `TickStep`; the owner's loop keeps calling
`step`. Nothing is assumed of the chain, failures, the caller or restarts: they are
finite because budgets are. Harness: weak fairness of the loop's deterministic steps,
of the flusher thread's steps and of a caller's `notify_all` after its store; threads
that can run do. None on a timeout, on the loop's choices, on a caller's calls or
on the death of a thread.

## 4. Proofs

Every theorem holds for every value of the constants that satisfies the named
assumptions of its component's module, so for every capacity, tree of blocks, window,
cadence, arity, depth, chunk size, budget of disturbances and number of commits or leaves.
`A` is proved inductive below means: `Init => A`, `A /\ [Next]_vars => A'` with one lemma
per action, and the properties follow from `A`. The inductive invariants were checked with
TLC on the run's instance before they were proved, but for RotorTree's, which speaks of
some history and is nothing TLC can enumerate: there the properties were.

### Engine

`EngineProofs`, under `RingCapacity \in Nat \ {0}`, `CheckpointSlots`,
`MaxResets \in Nat`, `RollbackTargets \subseteq Nat`, `Batches \subseteq Batch`:

- `TypeCorrect`: `EngineSpec => []EngineTypeOK`, capacities included
- `RingTip`: the newest observed block is the cursor's
- `OneChain`: the fold of an engine that is not Poisoned holds one chain in order
- `CheckpointsHoldOneChain`, `SnapshotsDecode`, `FreshnessIsCurrent`
- `RollbackRetreats`: the action property `RollbackGoesBack`

The properties are not inductive alone, for they do not say what holds between two
events of a batch. `EngineInv` adds `CallConsistent` (the spans still to come are well
formed; inside a span that has `done` events folded, the last of them is after the
cursor, which only moves when the span is through or refused half way, and the ring
does not contradict the span; only a Poisoned engine outside a call holds a torn fold)
and `FoldConsistent` (a fold that is not torn has ascending events, none after the last
one it was handed, agreeing with the ring and with the span under way).
The step for a fold call then needs: the next event is after the cursor
(`NextIsAfter`), a span let through agrees with the ring (`AdmittedAgrees`), pushing
the block keeps ring, fold and slots consistent though an old entry may be evicted
(`AdvanceKeeps`, `FoldSurvives`, `FoldSurvivesLoss`). Rollback needs that a ring cut
at a live slot's cursor ends there (`TruncatedEndsAtCursor`).

### Rings

`RingsProofs`, under `RingsAssumption`, for every capacity, number of slots and bound:

- `TypeCorrect`: no index leaves its array
- `LookupsAnswer` (`LookupsAgree`), `SlotsAge` (`SlotsAgeInOrder`)
- `ArraysImplementSequences`: the action property `ImplementsSequences`; what is proved
  of Engine's sequences is thereby about the arrays

`RingsInv` says that the entries ascend from `head` on (`Ascends`), that the newest is the
cursor's block (`TipIsCursor`), and that the cells, read from the write position on, are
free and then taken by slots that get no older, none past the cursor (`AgesInOrder`). The
search is a recursive function: `SearchFinds` gives the function that meets its equation,
a clamp of the dividing index, and shows by a least counterexample that no other does.
A drop is a rotation: the dropped slots are the k newest (`Suffix`, from the order of the
cursors), so k steps back of the write position put the free cells first again
(`DropMoves`, `MovedBack`). The order of the slots is needed for that: `drop_newer` of an
array out of order would leave holes between them.

### Driver

Under `TreeAssumption` (heights fall by one towards the root) and
`DriverConfigAssumption`, with Engine's.

The first part of `DriverProofs` is about the source: the recursive functions behind `Chain`,
`LogsAfter` and `EventsIn` exist and satisfy their equations (a least-counterexample
argument, since an induction rule cannot be applied to an operator); two blocks of one
chain are comparable (`ChainIsLinear`); a header names a block exactly if it is on the
chain (`HeaderConfirms`); a window's spans hold the chain's events after the cursor,
all of them and no others (`EventsInSound`, `EventsInComplete`).

The second part, control, needs nothing of what the source answers. `ControlInv` is
`EngineInv`, the types, `TickControl` (which variables are in use at which `pc`),
`CheckpointMarks` (the mark of the last checkpoint, lowered to the cursor, names one
that is kept) and `CheckpointKept`. Theorems: `DriverTypeCorrect`; `EngineKeptByDriver`,
that all of Engine's invariants hold of the engine inside the driver;
`CheckpointsAreKept`.

The third part, content, assumes `ChainMayReturn = FALSE` (section 3 says why it must):

- `FoldIsComplete`, `RestorePointsAreComplete`: fold, checkpoints and snapshot hold
  exactly their chain's events
- `MarksAreSound`: what a tick skips because of a mark holds nothing to fold
- `CaughtUpHasFolded`: Idle under a head that stayed means that everything is folded
- `RecoveryIsBest`: the action property `RecoveryKeepsMost`

The inductive invariant is `ControlInv /\ ContentInv`. `ContentInv` follows a tick
through its calls: as long as the tick's head is still on the source's chain (`~Left`),
what the scan has read so far is of that chain and leaves out nothing below `from`
(`WalkContent`); a batch that is applied was rechecked or the chain did not move, and the
boundary check puts the engine on the same chain (`AcceptedOnChain`), so each event
after the last one handed to the fold is still pending (`BatchContent`); when nothing
is pending the marks may be set (`Marked`). `LeftBehind` says that a caller can only
take the engine back from where a tick left it: so an engine found there was not moved,
or was rolled back in place, and the marks still hold. `Bisecting` splits the ring at the
newest block still canonical; the slots that serve it are then the ones on the source's
chain (`GoodSlots`).

An attempt to prove `RecoveryKeepsMost` as it was first stated failed for a reason: it
counted a checkpoint from before the first event as one to go back to even when the
source had pruned its start block. A caller's checkpoint before the first event together
with a pruning refuted it in TLC; `OnSourceChain` now says `~pruned` there. The code
was right.

### Store

`StoreProofs`, under `StoreAssumption` and the hypothesis `OneKindOfMishap`: a budget
has power failures, or kills and failing calls, not both. The combination is what run
`store_adopted_slot` refutes (section 5), so the hypothesis is needed.

- `TypeCorrect`, `OpensOnceAcked` (`OpensAfterAck`), `SlotsNameSnapshots`
- `StoreImplementsCell`: the refinement `ImplementsCell`; every call is a step of
  SnapshotCell or a stutter

`StoreInv` says what each call may rely on. `Reopens`: what an open would find now; every
valid slot names its whole snapshot, the newest is the acknowledged snapshot or the one
offered, and once a commit returned Ok there is a valid slot. `MemoryCurrent`: the open
store's copy of the slots is theirs, but for one it is writing or failed to write.
`CommitProgress`: how far the commit under way has come. `DiskFollows`: while the power
may still fail the disk holds the files the slots need, and the slots themselves but for
one being written.

### Flusher and harness

`HarnessProofs`, under Harness's and Flusher's assumptions, for every interleaving of
the loop, the flusher thread and the callers, the death of the flusher thread and a panic
of the loop included:
`TypeCorrect`, `SlotsAreConserved`, `WatermarkStored`, `WatermarkOfEpoch`,
`JoinHasDrained`, `PublishedOfThisRun`. `HarnessInv` adds to the properties where each
thread's control stands (`FlusherControl`, `LoopControl`), that queued jobs carry
ascending snapshots and epochs (`JobsInOrder`), that every admitted job is queued,
held, or settled (`TokensSettle`), that a watermark is stored and of the present epoch, as
is every job behind it (`WatermarkHonest`), and that no watermark of an earlier run of the
engine was published (`PublishedHonest`).

### The tree and its proofs

`LeanIMTProofs` and `TreeReaderProofs`, under `LeanIMTAssumption`, for every arity from 2 to
255, depth, batch size and number of leaves:

- `NodesStayRight`, `TypesAreKept`: the inductive invariant and the types
- `TreeIsMerkle` (`LevelsAreHashes`): incremental insertion builds what the top-down
  definition gives, and the depth computed from bit lengths and integer logarithms is the
  least one with a single node on top
- `InclusionProofsVerify` (`InclusionVerifies`): the proof of every leaf verifies and does
  not verify for another leaf
- `ConsistencyProofsVerify` (`ConsistencyVerifies`): the consistency proof from any earlier
  snapshot verifies, does not with the new root as the old one, and turns the snapshot's
  inclusion proofs into the tree's own

`LeanIMTProofs` first shows that the recursive functions the operators are made of
(`Power`, `Rungs`, `Grown`, `Frontier`, `Climb`, `BoundaryHashes`) exist and satisfy
their equations, by a least counterexample as for the driver. `Layer(leaves, l, n)` is
level l of the tree over some leaves, computed bottom up. The invariant is that the tree
has the lengths the leaves ask for (`Shaped`) and that each stored node is `Layer`'s
(`Right`). An insert changes the nodes on one path, a batch those from `FirstDirty` on;
the others stay right because a full group does not change when leaves are appended, and
the node computed anew reads only nodes that are right. The storage needs more: a tree
loaded from files may hold a stale node at the end of a level, so `Trusted` asks for the
nodes only that a later insert reads, and `TreeGrown` is proved from that. A tampered
leaf changes every node up to the root since a hash is what was hashed.

For consistency proofs the boundary, the old tree's last node in a level, is followed
upwards: its group ends with it in the old layer and begins alike in the new one
(`BoundaryGroups`), a record holds what lies left and right of it (`Halves`), so the
verifier's two hashes are the boundary's nodes in the two trees (`BoundaryClimbs`) and meet
the two roots at the top, however much lower the old root is. A member in an earlier
group keeps its siblings, one in the boundary's group gets the boundary's new hash and the
nodes behind it (`UpdatedIs`). That the snapshot is not ahead of the tree (`Behind`) is an
invariant of its own.

### rotortree's storage

`RotorTreeProofs`, under `RotorTreeAssumption`, for any number of inserts, flushes,
checkpoints and closes, and calls that fail, kills, power failures and restarts between any
two of their steps:

- `StorageHasHistory`, `StorageTypes`: the inductive invariant and the types
- `DurableAfterCrashes` and `DurableWhileNumbersAdvance` (`DurableSurvives`), `NumbersGoOn`
- `RootAfterCrashes` (`RootIsOfLeaves`), `AlwaysReopens` (`Reopens`)

The invariant `IInv` says there is a *history*: all leaves in order, cut into numbered
entries; while the tree is open its leaves are `log`. `wal` is the run of its entries
from some number on, at most one past the checkpoint's, and `walDisk` a run that may end
earlier or, once a cut of the log is unsynced, begin earlier (`LogRun`); the buffer is
the run behind it; `meta` and `metaDisk` name the end of an entry, and the data files
hold the nodes over the leaves up to there that are ever read again (`Data`); the
promises are a prefix of the entries before `safe`, all of which are in the synced log
or below the synced metadata. Each call of a flush or a checkpoint moves one of these; a
power failure keeps any prefix of the unsynced frames (`LeftLog`), and a recovery that
finds less than the history goes on in the history cut there, which agrees with the old
one up to `safe`. So that the root comes out right, the nodes of a chunk that counts as
done must not change any more, or not be read: that is where chunk size and arity meet.

Three hypotheses name what the code does not withstand. Each is needed:

- `LogFailsLast`: a process whose checkpoint failed to write the log is not restarted (run
  `rotortree_log_retry` refutes `DurableSurvives` otherwise).
- `Numbered`: no recovered tree numbers its entries at or below those of its checkpoint.
  `NumbersGoOn` proves it when a budget has no power failures, or has no kills and no
  failing flush (`Steady`). With both a number may be used twice (run
  `rotortree_number_reuse`), and
  `DurableWhileNumbersAdvance` says that nothing else can lose a durable leaf.
- `ChunksAlign`, for root and opening only: the arity divides `ChunkSize` (the
  stale node of section 5, 2 stays unread then; with an arity of 3 and chunks of 2 TLC
  finds it in a root).

The run's budgets combine a power failure with a kill or a failing flush, so there TLC
adds short stories to which `Steady` does not apply.

### Left to TLC

Liveness (`Converges`, `RequestTaken`, `ShutdownEnds`), which with ENABLED is out of the
prover's reach. Of the tree, the sharing of chunks with a snapshot (`ChunksHoldLevels`):
folds over levels of stores into chunks. Scanner, which reaches the Bitwise module
through SealKem, and Mayo, whose statements are about what recursive operators compute.

## 5. Where code and text disagree

1. *A slot adopted without a sync* (`store.rs:191`). After a kill between slot write
   and fsync, open adopts the slot from the page cache; the next commit overwrites
   the only durable slot, and a power failure then leaves none.
2. *Whole chunks with a node still growing* (`rotortree/src/storage/mod.rs:227`). A
   full chunk above the leaves counts as done though its last node covers an
   incomplete group. A leaf inserted between a checkpoint's snapshot and the same
   checkpoint's remap changes the node, and the remap puts the file's stale one back into
   the tree (run `rotortree_stale_nodes`, violated in the twentieth state); a leaf after the
   checkpoint and a second checkpoint do the same.
3. *A failed log write in `checkpoint()`* (`mod.rs:196`). Unlike `flush`, it neither
   cuts the log back nor reports an error in the background; the entries are
   appended again, and replay stops at the repetition.
4. *Numbers used twice* (`recovery.rs:268`, run `rotortree_number_reuse`). A flush writes
   frames and its sync fails (or the process is killed before it); a checkpoint that finds
   the buffer empty does not sync the log (`mod.rs:195`) and publishes metadata whose
   `last_wal_seq` covers those frames; a power failure takes some of them. The
   recovered tree goes on from the last frame it found, below `last_wal_seq`, and the
   next replay skips what was then synced and acknowledged under those numbers: a
   counterexample to `DurableSurvives` of 26 states. It was met as the step of the proof
   that could not be done without `Numbered`.

## 6. Not modelled

- What a private mapping shows after its file was rewritten (`checkpoint.rs:299`): it
  depends on the platform's page cache.
- Threads that wait for a durability token (`insert_durable` beside a failing flush,
  `mod.rs:566`); RotorTree records what tokens promised, not who waits.
- An engine used without a driver that is marked unrecoverable while Poisoned
  (`snapshot.rs:286`): `GiveUp` marks an Active engine, as the driver does, and without
  that guard `SnapshotRestores` is false; a first commit whose slot tears
  (`store.rs:177`) is reached, but loses nothing and no property speaks of it.
- AES, SHAKE, Keccak, BLAKE3, HKDF, the AEAD and the curves: replaced by ideal or
  symbolic functions. Secrecy and zero knowledge are not statements about states.
- Test doubles other than `CrashVfs` and `MockKem`, the conformance helpers, the
  examples, and `lib.rs` files that only re-export.

## 7. State

Modelled and checked: every component of section 1. Proved: Engine, Rings, Driver, Store
over SnapshotCell, Flusher and Harness, the tree with its inclusion and consistency
proofs, and the storage under the hypotheses above. Open: `ChunksHoldLevels` as a theorem.
Scanner and Mayo stay with TLC.
