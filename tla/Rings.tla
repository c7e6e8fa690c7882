------------------------------- MODULE Rings --------------------------------
(***************************************************************************)
(* The two bounded histories of the engine as they lie in memory: BlockRing *)
(* (crates/chainfold/src/ring.rs), a circular array searched by number, and *)
(* CheckpointRing (crates/chainfold/src/checkpoint.rs), a fixed array of    *)
(* slots with a write index.  Engine keeps both as sequences, oldest first; *)
(* the properties say that the arrays implement those sequences under the   *)
(* calls the engine makes.                                                  *)
(*                                                                          *)
(* The number lane and the hash lane are one array; a slot keeps its cursor *)
(* and a constant fold.  A definition introduced as faulty is a bug the     *)
(* code could have had; nothing uses it.                                    *)
(***************************************************************************)
EXTENDS Integers, Sequences, FiniteSets

CONSTANTS
    Hash,             \* block hashes
    RingCapacity,     \* a power of two
    CheckpointSlots,
    MaxNumber,        \* bound on block numbers
    MaxLog            \* bound on log indices

ASSUME RingsAssumption ==
    /\ RingCapacity \in Nat \ {0} /\ CheckpointSlots \in Nat
    /\ MaxNumber \in Nat /\ MaxLog \in Nat

VARIABLES
    entries,  \* the lanes of BlockRing
    head,     \* physical index of the oldest entry
    len,      \* number of entries
    cells,    \* the slots of CheckpointRing
    next,     \* its write position
    cursor    \* the engine's cursor

vars == <<entries, head, len, cells, next, cursor>>

-----------------------------------------------------------------------------
(***************************************************************************)
(* BlockRing.                                                              *)
(***************************************************************************)
Physical(logical) == (head + logical) % RingCapacity
EntryAt(logical) == entries[Physical(logical)]
NumberAt(logical) == EntryAt(logical).number

\* Logical index of the newest entry at or below number, or -1.
IndexAtOrBelow(number) ==
    LET search[range \in (0..(len - 1)) \X (0..(len - 1))] ==
            LET low  == range[1]
                high == range[2]
                mid  == low + (high - low + 1) \div 2
            IN IF low >= high THEN low
               ELSE IF NumberAt(mid) <= number THEN search[<<mid, high>>]
               ELSE search[<<low, mid - 1>>]
        found == search[<<0, len - 1>>]
    IN IF len = 0 THEN -1
       ELSE IF NumberAt(len - 1) <= number THEN len - 1
       ELSE IF NumberAt(found) <= number THEN found
       ELSE -1

\* A faulty index_of that trusts its guess.
IndexOfGuess(number) ==
    LET newest == len - 1
        behind == NumberAt(newest) - number
        guess  == IF behind <= newest THEN newest - behind ELSE 0
    IN IF len > 0 /\ behind >= 0 /\ NumberAt(guess) = number THEN guess ELSE -1

\* Logical index of an exact number, or -1: first the highest index it can sit
\* at, then the search.
IndexOf(number) ==
    LET newest == len - 1
        behind == NumberAt(newest) - number
        guess  == IF behind <= newest THEN newest - behind ELSE 0
        below  == IndexAtOrBelow(number)
    IN IF len = 0 \/ behind < 0 THEN -1
       ELSE IF NumberAt(guess) = number THEN guess
       ELSE IF below >= 0 /\ NumberAt(below) = number THEN below
       ELSE -1

PushEntry(block) ==
    IF len < RingCapacity
    THEN /\ entries' = [entries EXCEPT ![Physical(len)] = block]
         /\ len' = len + 1
         /\ UNCHANGED head
    ELSE /\ entries' = [entries EXCEPT ![head] = block]
         /\ head' = (head + 1) % RingCapacity
         /\ UNCHANGED len

\* A faulty truncation that drops the entry at number too.
TruncateFrom(number) ==
    /\ len' = IF IndexAtOrBelow(number) > 0 THEN IndexAtOrBelow(number) ELSE 0
    /\ head' = IF len' = 0 THEN 0 ELSE head
    /\ UNCHANGED entries

\* An emptied ring starts again at index zero; its lanes keep their content.
TruncateAbove(number) ==
    /\ len' = IndexAtOrBelow(number) + 1
    /\ head' = IF len' = 0 THEN 0 ELSE head
    /\ UNCHANGED entries

ClearRing == head' = 0 /\ len' = 0 /\ UNCHANGED entries

-----------------------------------------------------------------------------
(***************************************************************************)
(* CheckpointRing.                                                         *)
(***************************************************************************)
NoPos == [block |-> -1, log |-> -1]
Free == [free |-> TRUE]
Taken(cell) == cell # Free

SlotOf(c) == [fold |-> [events |-> <<>>, torn |-> FALSE], cursor |-> c]

After(p, q) == \/ p.block > q.block
               \/ p.block = q.block /\ p.log > q.log

\* The i-th cell from the next write position on, which holds the oldest slot.
Aged(i) == cells[(next + i - 1) % CheckpointSlots]

IsLive(slot) == slot.cursor = NoPos \/ IndexOf(slot.cursor.block) >= 0

StoreSlot(slot) ==
    IF CheckpointSlots = 0 THEN UNCHANGED <<cells, next>>
    ELSE /\ cells' = [cells EXCEPT ![next] = slot]
         /\ next' = (next + 1) % CheckpointSlots

\* The i-th cell holds a live slot at or below block.
Eligible(i, block) ==
    Taken(Aged(i)) /\ IsLive(Aged(i)) /\ Aged(i).cursor.block <= block

\* The i-th cell is the first such found from the newest one backwards.
BestAtOrBelow(i, block) ==
    /\ Eligible(i, block)
    /\ \A j \in (i + 1)..CheckpointSlots : ~Eligible(j, block)

\* A faulty drop that sets the write position to the number of slots it keeps, as
\* if the array had never wrapped around.
DropNewerUnwrapped(c) ==
    LET kept == {p \in DOMAIN cells : Taken(cells[p]) /\ ~After(cells[p].cursor, c)}
    IN /\ cells' = [p \in DOMAIN cells |-> IF p \in kept THEN cells[p] ELSE Free]
       /\ next' = Cardinality(kept) % CheckpointSlots

\* The write position moves back over every dropped slot.
DropNewer(c) ==
    LET newer == {p \in DOMAIN cells : Taken(cells[p]) /\ After(cells[p].cursor, c)}
    IN /\ cells' = [p \in DOMAIN cells |-> IF p \in newer THEN Free ELSE cells[p]]
       /\ next' = IF newer = {} THEN next
                  ELSE (next + Cardinality(newer) * (CheckpointSlots - 1)) % CheckpointSlots

\* clear leaves the write position where it is.
ClearSlots == cells' = [p \in DOMAIN cells |-> Free] /\ UNCHANGED next

-----------------------------------------------------------------------------
(***************************************************************************)
(* The engine's use of the two rings.                                      *)
(***************************************************************************)
Init ==
    /\ entries = [p \in 0..(RingCapacity - 1) |-> [number |-> 0, hash |-> "zero"]]
    /\ head = 0 /\ len = 0
    /\ cells = [p \in 0..(CheckpointSlots - 1) |-> Free]
    /\ next = 0
    /\ cursor = NoPos

\* The cursor enters a block above the newest one.
Observe(number, hash) ==
    /\ len = 0 \/ NumberAt(len - 1) < number
    /\ PushEntry([number |-> number, hash |-> hash])
    /\ cursor' = [block |-> number, log |-> 0]
    /\ UNCHANGED <<cells, next>>

\* The cursor moves on inside its block.
MoveOn ==
    /\ cursor # NoPos /\ cursor.log < MaxLog
    /\ cursor' = [cursor EXCEPT !.log = @ + 1]
    /\ UNCHANGED <<entries, head, len, cells, next>>

TakeCheckpoint ==
    /\ StoreSlot(SlotOf(cursor))
    /\ UNCHANGED <<entries, head, len, cursor>>

RollbackAtOrBelow(block) ==
    \E i \in 1..CheckpointSlots :
        /\ BestAtOrBelow(i, block)
        /\ cursor' = Aged(i).cursor
        /\ IF cursor' = NoPos THEN ClearRing ELSE TruncateAbove(cursor'.block)
        /\ DropNewer(cursor')

ResetAll == ClearRing /\ ClearSlots /\ cursor' = NoPos

Next ==
    \/ \E number \in 0..MaxNumber, hash \in Hash : Observe(number, hash)
    \/ MoveOn
    \/ TakeCheckpoint
    \/ \E block \in 0..MaxNumber : RollbackAtOrBelow(block)
    \/ ResetAll

Spec == Init /\ [][Next]_vars

-----------------------------------------------------------------------------
(***************************************************************************)
(* Properties: the arrays implement the sequences of Engine.               *)
(***************************************************************************)
RingSeq == [i \in 1..len |-> EntryAt(i - 1)]

\* The slots, oldest first: the cells that come last, counted from the next write
\* position on.
HeldCount == Cardinality({p \in DOMAIN cells : Taken(cells[p])})
OldestFirst == [i \in 1..HeldCount |-> Aged(CheckpointSlots - HeldCount + i)]

E == INSTANCE Engine
     WITH ring <- RingSeq, slots <- OldestFirst, fold <- SlotOf(cursor).fold,
          status <- "Active", lastVerified <- [number |-> -1], resets <- 0,
          snap <- [fold |-> SlotOf(cursor).fold, cursor |-> NoPos, ring |-> <<>>],
          ret <- "none", todo <- <<>>, done <- 0,
          Batches <- {}, Foreign <- {}, RollbackTargets <- {}, MaxResets <- 0

\* The values each variable takes.
TypeOK ==
    /\ head \in 0..(RingCapacity - 1) /\ len \in 0..RingCapacity
    /\ next \in 0..CheckpointSlots
    /\ cursor = NoPos \/ cursor \in [block : 0..MaxNumber, log : 0..MaxLog]
    /\ \A p \in DOMAIN cells : Taken(cells[p]) => cells[p] \in [fold : E!Fold, cursor : E!Position \cup {NoPos}]

\* index_of with its guess, and the binary search of index_at_or_below, find what
\* is in the ring and nothing else, on rings that wrapped around, have gaps in their
\* numbers, or were truncated.
LookupsAgree ==
    \A number \in 0..(MaxNumber + 1) :
        /\ E!AtOrBelow(RingSeq, number, IndexAtOrBelow(number) + 1)
        /\ E!Observes(RingSeq, number) <=> IndexOf(number) >= 0
        /\ IndexOf(number) >= 0 => RingSeq[IndexOf(number) + 1].number = number

\* Reading the cells from the write position on yields the free ones first and then
\* the slots in the order of their cursors, whatever rollbacks and resets moved or did
\* not move that position: so the first live one is the oldest, which is what gets
\* persisted, no store overwrites a slot while a cell is free, and a rollback finds a
\* slot exactly when one serves its block.
SlotsAgeInOrder ==
    /\ \A i, j \in 1..CheckpointSlots :
         i < j /\ Taken(Aged(i)) =>
            Taken(Aged(j)) /\ ~After(Aged(i).cursor, Aged(j).cursor)
    /\ \A block \in 0..MaxNumber :
         E!CanRollback(block) <=> \E i \in 1..CheckpointSlots : BestAtOrBelow(i, block)

\* Every call does to the arrays what Engine's operators do to the sequences: a
\* push evicts the oldest block only when the ring is full, a store overwrites the
\* oldest slot only when no slot is free, a rollback restores the same slot and
\* keeps the same ones.
ImplementsSequences ==
    [][/\ \A number \in 0..MaxNumber, hash \in Hash :
            Observe(number, hash) => RingSeq' = E!Push(RingSeq, [number |-> number, hash |-> hash])
       /\ TakeCheckpoint => E!Checkpoint
       /\ \A block \in 0..MaxNumber : RollbackAtOrBelow(block) => E!Rollback(block)]_vars
=============================================================================
