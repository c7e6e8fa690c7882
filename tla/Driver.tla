------------------------------- MODULE Driver -------------------------------
(***************************************************************************)
(* The chainfold driver: one tick reads the source, hands the engine a     *)
(* batch and recovers from a fork (crates/chainfold/src: driver.rs,        *)
(* source.rs, sink.rs), composed with Engine, whose actions it calls.      *)
(*                                                                         *)
(* A tick makes several calls to the source, and the source's chain may    *)
(* move between any two of them: every call is a step, and pc says which   *)
(* call comes next.  A call returns an answer about the chain of that      *)
(* moment, or fails.                                                       *)
(*                                                                         *)
(* What is abstracted:                                                     *)
(*  - the chain is a constant tree of blocks; canon is the block the       *)
(*    source serves as its head;                                           *)
(*  - both cadences are configured (None turns a rule off);                *)
(*  - the sink commits an offer at once: its queue is left out;            *)
(*  - delays and the generation counter are left out.                      *)
(*                                                                         *)
(* A definition introduced as faulty is a bug the code could have had: it  *)
(* stands before the definition it imitates and nothing uses it.           *)
(***************************************************************************)
EXTENDS Engine

CONSTANTS
    Number,              \* the height of a block
    Parent,              \* the parent of a block; the root is its own parent
    Logs,                \* the log indices of a block's events
    StartBlock,          \* DriverConfig::start_block
    Window,              \* Source::window
    MaxSpan,             \* windows one tick reads at most
    CheckpointInterval,  \* DriverConfig::checkpoint_interval
    SnapshotInterval,    \* DriverConfig::snapshot_interval
    Budgets,             \* how often each disturbance of the environment may happen
    ChainMayReturn       \* may the chain leave a head and return to it in one tick?

ASSUME TreeAssumption ==
    /\ Number \in [Hash -> Nat] /\ Parent \in [Hash -> Hash] /\ Logs \in [Hash -> Seq(Nat)]
    /\ \A h \in Hash : Parent[h] = h \/ Number[Parent[h]] = Number[h] - 1
ASSUME DriverConfigAssumption ==
    /\ StartBlock \in Nat /\ CheckpointInterval \in Nat /\ SnapshotInterval \in Nat
    /\ Window \in Nat \ {0} /\ MaxSpan \in Nat \ {0}
    /\ ChainMayReturn \in BOOLEAN

VARIABLES
    canon,           \* the head of the source's chain
    pruned,          \* the source's horizon has passed StartBlock
    walked,          \* the block the last capped walk ended on, or NoBlock
    vouched,         \* the head the last folding or capped tick ran under, or NoBlock
    leftAt,          \* where the last tick left the engine, or NoPoint
    caughtUp,        \* the last poll that ended found nothing new
    lastCheckpoint,  \* block of the last checkpoint, or -1
    lastSnapshot,    \* block of the last offer, or -1
    seenResets,      \* resets of the engine the sink was told of
    durabilityLost,  \* the sink refused an offer
    span,            \* windows the next tick may read
    durable,         \* the sink's watermark, or NoPos
    pc,              \* the call the tick makes next; "idle" between ticks
    scan,            \* what the running tick has read
    tick,            \* how the last tick ended
    steady,          \* the chain has not moved since the last read of its head
    budget           \* disturbances left

chainVars == <<canon, pruned, steady>>
markVars == <<lastCheckpoint, lastSnapshot, seenResets, durabilityLost, durable>>
driverVars == <<walked, vouched, leftAt, caughtUp, span, tick>>
vars == <<engineVars, chainVars, markVars, driverVars, pc, scan, budget>>

-----------------------------------------------------------------------------
(***************************************************************************)
(* The chain, as the source serves it.                                     *)
(***************************************************************************)
Chain[h \in Hash] == {h} \cup (IF Parent[h] = h THEN {} ELSE Chain[Parent[h]])

Ref(h) == [number |-> Number[h], hash |-> h]

\* Source::header_at on the chain of head h.
HeaderOn(h, number) ==
    IF \E a \in Chain[h] : Number[a] = number
    THEN Ref(CHOOSE a \in Chain[h] : Number[a] = number)
    ELSE NoBlock

HeaderAt(number) == HeaderOn(canon, number)

\* The log indices of block a's events after the position p.
LogsAfter(a, p) ==
    LET kept[i \in 0..Len(Logs[a])] ==
            IF i = 0 THEN <<>>
            ELSE IF After([block |-> Number[a], log |-> Logs[a][i]], p)
                 THEN Append(kept[i - 1], Logs[a][i])
                 ELSE kept[i - 1]
    IN kept[Len(Logs[a])]

\* The events of the chain's block at this height after p, none when there is no block.
SpanOn(h, number, p) ==
    LET block == HeaderOn(h, number) IN
    [number |-> number,
     hash |-> IF block = NoBlock THEN h ELSE block.hash,
     logs |-> IF block = NoBlock THEN <<>> ELSE LogsAfter(block.hash, p)]

HasLogs(s) == s.logs # <<>>

\* Source::events_in, with what lies after p retained and grouped into spans as
\* group_into does.
EventsIn(h, from, to, p) ==
    LET spans[i \in 0..(to - from + 1)] ==
            IF i = 0 THEN <<>>
            ELSE IF HasLogs(SpanOn(h, from + i - 1, p))
                 THEN Append(spans[i - 1], SpanOn(h, from + i - 1, p))
                 ELSE spans[i - 1]
    IN spans[to - from + 1]

-----------------------------------------------------------------------------
NoPoint == [resets |-> -1]
EnginePoint == [cursor |-> cursor, resets |-> resets]

NoScan == [head |-> NoBlock, from |-> 0, end |-> 0, resumed |-> FALSE,
           boundary |-> NoBlock, spans |-> <<>>, anchor |-> NoBlock,
           walked |-> NoBlock, lo |-> 0, hi |-> 0]

Least(m, n) == IF m <= n THEN m ELSE n

Due(last, block, interval) == last = -1 \/ block >= last + interval

Spend(what) ==
    /\ budget[what] > 0
    /\ budget' = [budget EXCEPT ![what] = @ - 1]

\* The span halves after a source error and doubles after any other tick.
NextSpan(outcome) ==
    IF outcome # "SourceError" THEN Least(2 * span, MaxSpan)
    ELSE IF span \div 2 = 0 THEN 1
    ELSE span \div 2

\* The tail of step: the next tick's span, and where this tick leaves the engine.
EndTick(outcome) ==
    /\ tick' = outcome
    /\ span' = NextSpan(outcome)
    /\ leftAt' = IF status' = "Active"
                 THEN [cursor |-> cursor', resets |-> resets']
                 ELSE NoPoint
    /\ pc' = "idle"
    /\ scan' = NoScan

\* A driver built around an engine, before its first checkpoint.
DriverInit ==
    /\ walked = NoBlock /\ vouched = NoBlock
    /\ leftAt = NoPoint
    /\ caughtUp = FALSE
    /\ lastCheckpoint = -1 /\ lastSnapshot = -1
    /\ durabilityLost = FALSE
    /\ span = MaxSpan
    /\ scan = NoScan
    /\ tick = "none"

Init ==
    /\ EngineInit
    /\ DriverInit
    /\ seenResets = 0
    /\ durable = NoPos
    /\ pc = "idle"
    /\ canon \in Hash
    /\ pruned = FALSE
    /\ steady = FALSE
    /\ budget \in Budgets

-----------------------------------------------------------------------------
(***************************************************************************)
(* step: what the caller did to the engine since the last tick.            *)
(***************************************************************************)
\* A faulty clamp_marks that leaves the marks where they are.
ClampNever(mark) == mark

\* clamp_marks: a mark is lowered to the cursor block, and cleared without a cursor.
Clamp(mark) == Least(mark, cursor.block)

\* A faulty step that trusts its marks whatever the caller did.
UndisturbedAlways == TRUE

\* The engine is where the last tick left it.
Undisturbed == leftAt = EnginePoint

Step ==
    /\ pc = "idle"
    /\ lastCheckpoint' = Clamp(lastCheckpoint)
    /\ lastSnapshot' = Clamp(lastSnapshot)
    /\ durable' = IF seenResets # resets THEN NoPos ELSE durable
    /\ seenResets' = resets
    /\ IF Undisturbed
       THEN UNCHANGED <<walked, vouched>>
       ELSE walked' = NoBlock /\ vouched' = NoBlock
    /\ UNCHANGED <<engineVars, chainVars, caughtUp, durabilityLost, budget>>
    /\ IF status = "Active"
       THEN leftAt' = NoPoint /\ pc' = "head" /\ UNCHANGED <<scan, span, tick>>
       ELSE EndTick("Terminal")

-----------------------------------------------------------------------------
(***************************************************************************)
(* scan: one action per call to the source.                                *)
(***************************************************************************)
\* What the engine has consumed or the walk has covered.
Floor == IF walked # NoBlock THEN walked.number ELSE cursor.block

ReadHead ==
    /\ pc = "head"
    /\ scan' = [scan EXCEPT !.head = Ref(canon)]
    /\ steady' = TRUE
    /\ pc' = IF Number[canon] < Floor THEN "lag" ELSE "resume"
    /\ UNCHANGED <<engineVars, canon, pruned, markVars, driverVars, budget>>

\* The newest observed block at or below the head is on the head's chain, as
\* far as the source says.
Lagging ==
    \/ \A k \in 1..Len(ring) : ring[k].number > scan.head.number
    \/ \E k \in 1..Len(ring) :
         /\ AtOrBelow(ring, scan.head.number, k)
         /\ IF ring[k].number = scan.head.number
            THEN ring[k] = scan.head
            ELSE HeaderAt(ring[k].number) \in {NoBlock, ring[k]}

LagCheck ==
    /\ pc = "lag"
    /\ UNCHANGED <<engineVars, chainVars, markVars, walked, vouched, budget>>
    /\ IF Lagging
       THEN caughtUp' = TRUE /\ EndTick("Idle")
       ELSE pc' = "resume" /\ UNCHANGED <<caughtUp, leftAt, span, tick, scan>>

\* Where the walk starts: above the mark when the head's chain holds it, above
\* the cursor block when this head was vouched for, else at the cursor block.
Resume ==
    /\ pc = "resume"
    /\ LET known    == vouched = scan.head
           marked   == walked # NoBlock
           holds    == known \/ scan.head = walked \/ HeaderAt(walked.number) = walked
           above    == ~marked /\ known /\ cursor # NoPos
           from     == IF marked /\ holds THEN walked.number + 1
                       ELSE IF above THEN cursor.block + 1
                       ELSE IF cursor = NoPos THEN StartBlock
                       ELSE cursor.block
           end      == Least(scan.head.number, from + span * Window - 1)
       IN /\ walked' = IF marked /\ ~holds THEN NoBlock ELSE walked
          /\ scan' = [scan EXCEPT !.from = from, !.end = end,
                                  !.resumed = (marked /\ holds) \/ above]
          /\ pc' = IF from <= end THEN "window" ELSE "boundary"
    /\ UNCHANGED <<engineVars, chainVars, markVars, vouched, leftAt, caughtUp, span, tick, budget>>

\* One window.  The window that starts at the cursor block also names its header,
\* when that block has events, and keeps only what the engine has not consumed.
ReadWindow ==
    /\ pc = "window"
    /\ LET to       == Least(scan.end, scan.from + Window - 1)
           atCursor == cursor # NoPos /\ scan.from = cursor.block
           named    == atCursor /\ HasLogs(SpanOn(canon, cursor.block, NoPos))
       IN \E owed \in {EventsIn(canon, scan.from, to, IF atCursor THEN cursor ELSE NoPos)} :
          /\ scan' = [scan EXCEPT !.from = to + 1, !.spans = owed,
                                  !.boundary = IF named THEN HeaderAt(cursor.block) ELSE @]
          /\ pc' = IF owed # <<>> \/ to = scan.end THEN "boundary" ELSE "window"
    /\ UNCHANGED <<engineVars, chainVars, markVars, driverVars, budget>>

\* The cursor block's header, and what is still to be read about the head.
ReadBoundary ==
    /\ pc = "boundary"
    /\ scan' = [scan EXCEPT !.boundary =
                  IF cursor = NoPos \/ @ # NoBlock THEN @
                  ELSE IF scan.resumed THEN Newest(ring)
                  ELSE IF scan.head.number = cursor.block THEN scan.head
                  ELSE HeaderAt(cursor.block)]
    /\ pc' = IF scan.spans # <<>> THEN "recheck"
             ELSE IF scan.end < scan.head.number THEN "anchor"
             ELSE "apply"
    /\ UNCHANGED <<engineVars, chainVars, markVars, driverVars, budget>>

\* The walk stopped at its cap: the block it ended on.
ReadAnchor ==
    /\ pc = "anchor"
    /\ scan' = [scan EXCEPT !.anchor = HeaderAt(scan.end)]
    /\ pc' = "recheck"
    /\ UNCHANGED <<engineVars, chainVars, markVars, driverVars, budget>>

\* A faulty scan that does not ask for the head again.
UnmovedUnchecked == scan.spans # <<>> \/ scan.anchor # NoBlock

\* The answer is dropped unless the source still has the head.
Unmoved ==
    /\ HeaderAt(scan.head.number) = scan.head
    /\ scan.spans # <<>> \/ scan.anchor # NoBlock

Recheck ==
    /\ pc = "recheck"
    /\ UNCHANGED <<engineVars, chainVars, markVars, walked, vouched, caughtUp, budget>>
    /\ IF Unmoved
       THEN pc' = "apply" /\ UNCHANGED <<leftAt, span, tick, scan>>
       ELSE EndTick("SourceError")

\* A call to the source fails, or answers outside the window it was asked for.
\* (In a state whose next step reads nothing this is the failure of the call
\* before it: both leave the driver in the same state.)
SourceFails ==
    /\ pc \in {"head", "lag", "resume", "window", "boundary", "anchor", "recheck", "bisect"}
    /\ Spend("errors")
    /\ UNCHANGED <<engineVars, chainVars, markVars, walked, vouched, caughtUp>>
    /\ EndTick("SourceError")

-----------------------------------------------------------------------------
(***************************************************************************)
(* poll_apply: the batch, and what follows from its outcome.               *)
(***************************************************************************)
\* The mark is taken: it survives only a batch that folds nothing.
Apply ==
    /\ pc = "apply"
    /\ ApplyBatch([boundary |-> scan.boundary, spans |-> scan.spans])
    /\ scan' = [scan EXCEPT !.walked = walked]
    /\ walked' = NoBlock
    /\ pc' = "applying"
    /\ UNCHANGED <<chainVars, markVars, vouched, leftAt, caughtUp, span, tick, budget>>

\* The fold consumes the batch, event by event.
FoldWorks ==
    /\ pc = "applying"
    /\ FoldAccepts \/ FoldSkips \/ BatchDone
    /\ UNCHANGED <<chainVars, markVars, driverVars, pc, scan, budget>>

FoldFails ==
    /\ pc = "applying"
    /\ Spend("faults")
    /\ FoldHalts \/ FoldPoisons \/ FoldPanics
    /\ UNCHANGED <<chainVars, markVars, driverVars, pc, scan>>

\* A faulty idle test that takes the cap for the head.
NothingNewCapped == scan.spans = <<>>

\* The walk reached the head and found nothing to fold.
NothingNew == scan.spans = <<>> /\ scan.anchor = NoBlock

Applied ==
    /\ pc = "applying" /\ ret = "ok"
    /\ walked' = IF scan.spans # <<>> THEN NoBlock
                 ELSE IF scan.anchor # NoBlock THEN scan.anchor
                 ELSE scan.walked
    /\ vouched' = IF NothingNew THEN vouched ELSE scan.head
    /\ caughtUp' = NothingNew
    /\ pc' = "checkpoint"
    /\ UNCHANGED <<engineVars, chainVars, markVars, leftAt, span, tick, scan, budget>>

\* The source's chain is not the one the engine folded.
Forked ==
    /\ pc = "applying" /\ ret \in {"fork", "missingBoundary", "unobserved"}
    /\ vouched' = NoBlock
    /\ scan' = [scan EXCEPT !.lo = 0, !.hi = Len(ring)]
    /\ pc' = "bisect"
    /\ UNCHANGED <<engineVars, chainVars, markVars, walked, leftAt, caughtUp, span, tick, budget>>

Stopped ==
    /\ pc = "applying" /\ ret \in {"halted", "poisoned", "shape", "boundaryMismatch"}
    /\ UNCHANGED <<engineVars, chainVars, markVars, walked, vouched, caughtUp, budget>>
    /\ EndTick(IF ret \in {"halted", "poisoned"} THEN "Terminal" ELSE "SourceError")

\* A panic of the fold unwinds through the tick, which does not reach its tail.
Unwound ==
    /\ pc = "applying" /\ ret = "panicked"
    /\ tick' = "Panicked"
    /\ pc' = "idle"
    /\ scan' = NoScan
    /\ UNCHANGED <<engineVars, chainVars, markVars, walked, vouched, leftAt, caughtUp, span, budget>>

-----------------------------------------------------------------------------
(***************************************************************************)
(* The cadences.                                                           *)
(***************************************************************************)
\* run_checkpoint records the block whether or not the engine stored a slot.
RunCheckpoint ==
    /\ Checkpoint
    /\ lastCheckpoint' = IF cursor = NoPos THEN lastCheckpoint ELSE cursor.block

AutoCheckpoint ==
    IF cursor # NoPos /\ Due(lastCheckpoint, cursor.block, CheckpointInterval)
    THEN RunCheckpoint
    ELSE UNCHANGED <<engineVars, lastCheckpoint>>

CheckpointRule ==
    /\ pc = "checkpoint"
    /\ AutoCheckpoint
    /\ pc' = "offer"
    /\ UNCHANGED <<chainVars, lastSnapshot, seenResets, durabilityLost, durable, driverVars,
                   scan, budget>>

\* The durable point is the oldest live checkpoint.
OfferDue ==
    /\ ~durabilityLost
    /\ \E i \in 1..Len(slots) :
         /\ IsOldest(i)
         /\ slots[i].cursor # NoPos
         /\ Due(lastSnapshot, slots[i].cursor.block, SnapshotInterval)

Outcome == IF NothingNew THEN "Idle" ELSE "Progressed"

NoOffer ==
    /\ pc = "offer" /\ ~OfferDue
    /\ UNCHANGED <<engineVars, chainVars, markVars, walked, vouched, caughtUp, budget>>
    /\ EndTick(Outcome)

\* The sink takes the offer and commits it.
OfferTaken ==
    /\ pc = "offer" /\ OfferDue
    /\ EncodeDurableSnapshot
    /\ lastSnapshot' = snap'.cursor.block
    /\ durable' = snap'.cursor
    /\ UNCHANGED <<chainVars, lastCheckpoint, seenResets, durabilityLost, walked, vouched,
                   caughtUp, budget>>
    /\ EndTick(Outcome)

OfferRefused ==
    /\ pc = "offer" /\ OfferDue
    /\ Spend("refusals")
    /\ durabilityLost' = TRUE
    /\ UNCHANGED <<engineVars, chainVars, lastCheckpoint, lastSnapshot, seenResets, durable,
                   walked, vouched, caughtUp>>
    /\ EndTick("DurabilityLost")

-----------------------------------------------------------------------------
(***************************************************************************)
(* recover_via_bisection.                                                  *)
(***************************************************************************)
Bisect ==
    /\ pc = "bisect" /\ scan.lo < scan.hi
    /\ LET mid == scan.lo + (scan.hi - scan.lo) \div 2
           seen == ring[mid + 1]
       IN scan' = IF HeaderAt(seen.number) = seen
                  THEN [scan EXCEPT !.lo = mid + 1]
                  ELSE [scan EXCEPT !.hi = mid]
    /\ UNCHANGED <<engineVars, chainVars, markVars, driverVars, pc, budget>>

\* The bisection has ended, at the newest observed block that is still canonical.
Bisected == pc = "bisect" /\ scan.lo = scan.hi

\* A faulty retreat that asks for the engine's own tip.
RetreatToTip == Newest(ring).number

\* The block to roll back to.
RetreatBlock == ring[scan.lo].number

\* A faulty test that takes the oldest observed block for none.
CanRetreatShort == scan.lo > 1 /\ CanRollback(RetreatBlock)

CanRetreat == scan.lo > 0 /\ CanRollback(RetreatBlock)

RollBackTo ==
    /\ Bisected /\ CanRetreat
    /\ Rollback(RetreatBlock)
    /\ caughtUp' = FALSE
    /\ UNCHANGED <<chainVars, markVars, walked, vouched, budget>>
    /\ EndTick("RolledBack")

Resync ==
    /\ Bisected /\ ~CanRetreat /\ ~pruned
    /\ Reset(Genesis)
    /\ caughtUp' = FALSE
    /\ UNCHANGED <<chainVars, markVars, walked, vouched, budget>>
    /\ EndTick("Resynced")

Unrecoverable ==
    /\ Bisected /\ ~CanRetreat /\ pruned
    /\ MarkUnrecoverable
    /\ UNCHANGED <<chainVars, markVars, walked, vouched, caughtUp, budget>>
    /\ EndTick("Terminal")

-----------------------------------------------------------------------------
(***************************************************************************)
(* The caller, between ticks: manual recovery through engine_mut, a forced *)
(* checkpoint, access to the source.                                       *)
(***************************************************************************)
CallerMovesEngine ==
    /\ pc = "idle" /\ Spend("calls")
    /\ (\E block \in RollbackTargets : Rollback(block)) \/ Reset(Genesis)
    /\ UNCHANGED <<chainVars, markVars, driverVars, pc, scan>>

CallerCheckpoints ==
    /\ pc = "idle" /\ Spend("calls")
    /\ RunCheckpoint
    /\ UNCHANGED <<chainVars, lastSnapshot, seenResets, durabilityLost, durable, driverVars,
                   pc, scan>>

CallerTakesSource ==
    /\ pc = "idle" /\ Spend("calls")
    /\ walked' = NoBlock /\ vouched' = NoBlock
    /\ steady' = FALSE
    /\ UNCHANGED <<engineVars, canon, pruned, markVars, leftAt, caughtUp, span, tick, pc, scan>>

(***************************************************************************)
(* The environment.                                                        *)
(***************************************************************************)
\* The head this tick runs under has left the chain.
Left == scan.head # NoBlock /\ HeaderAt(scan.head.number) # scan.head

\* The chain grows, reorganises, or the source falls behind.  A move matters
\* only where the next step reads the chain.
ChainMoves ==
    /\ pc \in {"head", "lag", "resume", "window", "boundary", "anchor", "recheck", "bisect"}
    /\ Spend("moves")
    /\ canon' \in Hash \ {canon}
    /\ Left /\ ~ChainMayReturn => HeaderOn(canon', scan.head.number) # scan.head
    /\ steady' = FALSE
    /\ UNCHANGED <<engineVars, pruned, markVars, driverVars, pc, scan>>

SourcePrunes ==
    /\ pc = "bisect" /\ Spend("prunings")
    /\ pruned' = TRUE
    /\ UNCHANGED <<engineVars, canon, steady, markVars, driverVars, pc, scan>>

\* Engine::new.
StartAfresh ==
    /\ fold' = Genesis /\ cursor' = NoPos /\ ring' = <<>> /\ slots' = <<>>
    /\ status' = "Active" /\ lastVerified' = NoBlock /\ resets' = 0
    /\ NoCall
    /\ UNCHANGED snap

\* The process dies at any point and a new driver resumes from the last snapshot,
\* or is built around a new engine; the sink knows the snapshot's cursor.
Crash ==
    /\ Spend("crashes")
    /\ Restart \/ StartAfresh
    /\ durable' = snap.cursor
    /\ seenResets' = 0
    /\ walked' = NoBlock /\ vouched' = NoBlock /\ leftAt' = NoPoint /\ caughtUp' = FALSE
    /\ lastCheckpoint' = -1 /\ lastSnapshot' = -1 /\ durabilityLost' = FALSE
    /\ span' = MaxSpan /\ scan' = NoScan /\ tick' = "none"
    /\ pc' = "around"
    /\ UNCHANGED chainVars

\* A sink ahead of the engine is reset.  A recovered engine holds no checkpoint:
\* one is kept at the recovery point.
Around ==
    /\ pc = "around" /\ ~pruned
    /\ durable' = IF After(durable, cursor) THEN NoPos ELSE durable
    /\ AutoCheckpoint
    /\ pc' = "idle"
    /\ UNCHANGED <<chainVars, lastSnapshot, seenResets, durabilityLost, driverVars, scan, budget>>

\* No driver is built over a source that no longer reaches the start block: the
\* caller may try again, with the same result.
HorizonExceedsStart ==
    /\ pc = "around" /\ pruned
    /\ UNCHANGED vars

-----------------------------------------------------------------------------
Scans == ReadHead \/ LagCheck \/ Resume \/ ReadWindow \/ ReadBoundary \/ ReadAnchor \/ Recheck

Recovers == Bisect \/ RollBackTo \/ Resync \/ Unrecoverable

TickStep ==
    \/ Step \/ Scans \/ Apply \/ FoldWorks \/ Applied \/ Forked \/ Stopped \/ Unwound
    \/ CheckpointRule \/ NoOffer \/ OfferTaken \/ Recovers \/ Around \/ HorizonExceedsStart

Disturbance ==
    \/ SourceFails \/ FoldFails \/ OfferRefused
    \/ CallerMovesEngine \/ CallerCheckpoints \/ CallerTakesSource
    \/ ChainMoves \/ SourcePrunes \/ Crash

Next == TickStep \/ Disturbance

Spec == Init /\ [][Next]_vars

\* The loop that owns the driver keeps ticking it.
FairSpec == Spec /\ WF_vars(TickStep)

-----------------------------------------------------------------------------
(***************************************************************************)
(* Properties.                                                             *)
(***************************************************************************)
Blocks == BlockRef \cup {NoBlock}

Scan == [head : Blocks, from : Nat, end : Nat, resumed : BOOLEAN, boundary : Blocks,
         spans : Seq(Span), anchor : Blocks, walked : Blocks,
         lo : 0..RingCapacity, hi : 0..RingCapacity]

\* The values each variable takes.
TypeOK ==
    /\ EngineTypeOK
    /\ canon \in Hash /\ pruned \in BOOLEAN /\ steady \in BOOLEAN
    /\ walked \in Blocks /\ vouched \in Blocks
    /\ leftAt = NoPoint \/ leftAt \in [cursor : Position \cup {NoPos}, resets : Nat]
    /\ caughtUp \in BOOLEAN /\ durabilityLost \in BOOLEAN
    /\ lastCheckpoint \in Nat \cup {-1} /\ lastSnapshot \in Nat \cup {-1}
    /\ seenResets \in Nat /\ span \in 1..MaxSpan /\ durable \in Position \cup {NoPos}
    /\ scan \in Scan

\* The events of a block, and of the chain of h from StartBlock on.
OwnEvents(a) ==
    {[block |-> Number[a], log |-> Logs[a][i], hash |-> a] : i \in DOMAIN Logs[a]}

EventsOf == [h \in Hash |->
    UNION {OwnEvents(a) : a \in {b \in Chain[h] : Number[b] >= StartBlock}}]

\* The fold f holds exactly these events, the ones that are not its own aside, each
\* once and in the order of the chain.
Holds(f, events) ==
    /\ \A i, j \in 1..Len(f.events) : i < j => After(f.events[j], f.events[i])
    /\ {f.events[i] : i \in 1..Len(f.events)} \ Foreign = events \ Foreign

\* The fold f at cursor c holds every event of the chain through block h up to c.
Complete(f, c, h) == Holds(f, {e \in EventsOf[h] : ~After(e, c)})

\* The fold holds exactly the events of one chain, the one through the newest
\* observed block, from the start block up to the cursor: no event is lost, none
\* is folded twice and none of another fork slips in, however the chain moved
\* between the calls of a tick.
FoldComplete ==
    (Idle /\ status # "Poisoned") =>
      IF ring = <<>> THEN fold = Genesis ELSE Complete(fold, cursor, Newest(ring).hash)

\* The same holds of whatever the engine can go back to: every live checkpoint,
\* and the snapshot a restart decodes.
RestorePointsComplete ==
    /\ \A i \in 1..Len(slots) : slots[i].cursor = NoPos \/ ring # <<>>
    /\ \A i \in 1..Len(slots) :
         ring # <<>> => Complete(slots[i].fold, slots[i].cursor, Newest(ring).hash)
    /\ snap.ring # <<>> => Complete(snap.fold, snap.cursor, Newest(snap.ring).hash)

\* The next tick starts where this one left the engine.
Settled == pc = "idle" /\ status = "Active" /\ leftAt = EnginePoint

\* What lets a tick skip blocks it has read: the chain through walked holds the
\* cursor block and nothing to fold above the cursor; the chain through vouched
\* holds the cursor block, all of whose events are folded.
MarksSound ==
    Settled =>
      /\ walked # NoBlock =>
           /\ cursor # NoPos => Newest(ring).hash \in Chain[walked.hash]
           /\ \A e \in EventsOf[walked.hash] : ~After(e, cursor)
      /\ vouched # NoBlock /\ cursor # NoPos =>
           /\ Newest(ring).hash \in Chain[vouched.hash]
           /\ \A e \in EventsOf[vouched.hash] : e.block = cursor.block => ~After(e, cursor)

IsCaughtUp == caughtUp /\ Settled

\* A tick that ended Idle while the chain did not move, under a head at or above
\* everything read so far, has left the fold holding the whole chain of that head.
CaughtUpMeansFolded ==
    IsCaughtUp /\ tick = "Idle" /\ steady /\ Number[canon] >= Floor
      => Holds(fold, EventsOf[canon])

\* Recovery keeps the most it can: when the chain did not move since the tick
\* read its head, the engine goes back to the newest live checkpoint on the
\* source's chain, and gives its state up only when there is none.  A checkpoint
\* from before the first event is one while the source still reaches StartBlock.
OnSourceChain(slot) ==
    \/ slot.cursor = NoPos /\ ~pruned
    \/ \E k \in 1..Len(ring) : ring[k].number = slot.cursor.block /\ ring[k].hash \in Chain[canon]

RecoveryStep ==
    LET good == {i \in 1..Len(slots) : Live(slots[i]) /\ OnSourceChain(slots[i])}
    IN IF good = {}
       THEN cursor' = NoPos \/ status' = "Unrecoverable"
       ELSE \E i \in good : /\ \A j \in good : j <= i
                            /\ cursor' = slots[i].cursor /\ fold' = slots[i].fold

RecoveryKeepsMost ==
    [][steady /\ (RollBackTo \/ Resync \/ Unrecoverable) => RecoveryStep]_vars

\* After a tick that applied a batch the retained checkpoints reach to within one
\* interval of the cursor, through rollbacks, resets, restarts and forced ones.
CheckpointKept ==
    Settled /\ cursor # NoPos /\ tick \in {"Progressed", "DurabilityLost"} /\ CheckpointSlots > 0
      => \E i \in 1..Len(slots) :
           slots[i].cursor.block > cursor.block - CheckpointInterval \/ slots[i].cursor = cursor

\* Once the disturbances stop, an engine that is still Active ends up holding the
\* whole chain of the source's head, unless that head lies below what was read or
\* the source has pruned the blocks the driver still needs.
Converges ==
    <>[](status = "Active" /\ ~pruned /\ Number[canon] >= Floor
           => Holds(fold, EventsOf[canon]))
=============================================================================
