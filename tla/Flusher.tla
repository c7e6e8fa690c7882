------------------------------ MODULE Flusher -------------------------------
(***************************************************************************)
(* The background thread that commits snapshots, and the sink the apply    *)
(* thread offers them to (crates/chainfold/src: storage/flusher.rs,        *)
(* sink.rs).  The store behind it is SnapshotCell.                         *)
(*                                                                         *)
(* What is abstracted: a job's bytes and its cursor are the job's number,  *)
(* in the order of the offers.                                             *)
(*                                                                         *)
(* A definition introduced as faulty is a bug the code could have had: it  *)
(* stands before the definition it imitates and nothing uses it.           *)
(***************************************************************************)
EXTENDS SnapshotCell, Sequences

CONSTANTS
    QueueDepth,  \* jobs admitted and not yet dropped
    MaxEpoch     \* sink resets, in all

ASSUME FlusherAssumption == QueueDepth \in Nat \ {0} /\ MaxEpoch \in Nat

VARIABLES
    queue,      \* the channel
    available,  \* Admission
    epoch,      \* resets so far
    watermark,  \* the durable cursor, or NoData
    poisoned,   \* a commit failed
    settled,    \* the outcome each job's token holds
    job,        \* the job the flusher thread holds, or NoJob
    fpc,        \* the flusher thread
    apc,        \* the apply thread, inside an offer
    made,       \* the last job offered
    resetAt,    \* the last job offered before the last reset
    closed      \* the sender is dropped

threadVars == <<job, fpc>>
sinkVars == <<apc, made, resetAt, closed>>
sharedVars == <<queue, available, epoch, watermark, poisoned, settled>>
flusherVars == <<cellVars, threadVars, sinkVars, sharedVars>>

NoJob == [cursor |-> NoData, epoch |-> 0]
Job == [cursor : Data, epoch : 0..MaxEpoch]

\* Flusher::spawn over a store that recovered a snapshot, counted as job 1, or none.
FlusherInit ==
    /\ CellInit /\ stored \in {NoData, 1}
    /\ queue = <<>> /\ available = QueueDepth
    /\ epoch = 0 /\ watermark = stored
    /\ poisoned = FALSE
    /\ settled = [d \in Data |-> IF d = stored THEN "ok" ELSE "none"]
    /\ job = NoJob /\ fpc = "recv"
    /\ apc = "free" /\ made = stored /\ resetAt = 0
    /\ closed = FALSE

\* TokenState::complete keeps the first outcome.
Settle(tokens, d, outcome) ==
    [tokens EXCEPT ![d] = IF @ = "none" THEN outcome ELSE @]

-----------------------------------------------------------------------------
(***************************************************************************)
(* The apply thread: offer and reset.                                      *)
(***************************************************************************)
\* submit looks at the poison flag once, before it waits for a slot.
OfferAdmitted ==
    /\ apc = "free" /\ ~poisoned
    /\ apc' = "acquire"
    /\ UNCHANGED <<cellVars, threadVars, made, resetAt, closed, sharedVars>>

OfferPoisoned ==
    /\ apc = "free" /\ poisoned
    /\ apc' = "lost"
    /\ UNCHANGED <<cellVars, threadVars, made, resetAt, closed, sharedVars>>

Acquire ==
    /\ apc = "acquire" /\ available > 0
    /\ available' = available - 1
    /\ apc' = "send"
    /\ UNCHANGED <<cellVars, threadVars, made, resetAt, closed,
                   queue, epoch, watermark, poisoned, settled>>

Send ==
    /\ apc = "send" /\ fpc # "dead"
    /\ Len(queue) < QueueDepth
    /\ made' = made + 1
    /\ queue' = Append(queue, [cursor |-> made + 1, epoch |-> epoch])
    /\ apc' = "free"
    /\ UNCHANGED <<cellVars, threadVars, resetAt, closed,
                   available, epoch, watermark, poisoned, settled>>

\* The receiver is gone: the job comes back and is dropped.
SendFails ==
    /\ apc = "send" /\ fpc = "dead"
    /\ made' = made + 1
    /\ settled' = Settle(settled, made + 1, "closed")
    /\ available' = available + 1
    /\ apc' = "lost"
    /\ UNCHANGED <<cellVars, threadVars, resetAt, closed, queue, epoch, watermark, poisoned>>

\* reset: a new epoch without a watermark.
SinkReset ==
    /\ epoch' = epoch + 1
    /\ watermark' = NoData
    /\ resetAt' = made
    /\ UNCHANGED <<cellVars, threadVars, apc, made, closed, queue, available, poisoned, settled>>

\* join: the sender is dropped.
Join ==
    /\ apc # "acquire" /\ ~closed
    /\ closed' = TRUE
    /\ UNCHANGED <<cellVars, threadVars, apc, made, resetAt, sharedVars>>

-----------------------------------------------------------------------------
(***************************************************************************)
(* The flusher thread.                                                     *)
(***************************************************************************)
Recv ==
    /\ fpc = "recv" /\ queue # <<>>
    /\ job' = Head(queue)
    /\ queue' = Tail(queue)
    /\ fpc' = "check"
    /\ UNCHANGED <<cellVars, sinkVars, available, epoch, watermark, poisoned, settled>>

\* A faulty thread that ends as soon as the sender is dropped.
RecvClosedAtOnce ==
    /\ fpc = "recv" /\ closed
    /\ fpc' = "ended"
    /\ UNCHANGED <<cellVars, sinkVars, job, sharedVars>>

\* The channel is closed and drained.
RecvClosed ==
    /\ fpc = "recv" /\ queue = <<>> /\ closed
    /\ fpc' = "ended"
    /\ UNCHANGED <<cellVars, sinkVars, job, sharedVars>>

\* A faulty commit that counts as durable before it returns.
StartCommitMarks ==
    /\ fpc = "check" /\ ~poisoned
    /\ BeginCommit(job.cursor)
    /\ watermark' = IF epoch = job.epoch THEN job.cursor ELSE watermark
    /\ fpc' = "commit"
    /\ UNCHANGED <<job, sinkVars, queue, available, epoch, poisoned, settled>>

StartCommit ==
    /\ fpc = "check" /\ ~poisoned
    /\ BeginCommit(job.cursor)
    /\ fpc' = "commit"
    /\ UNCHANGED <<job, sinkVars, sharedVars>>

SkipJob ==
    /\ fpc = "check" /\ poisoned
    /\ fpc' = "drop"
    /\ UNCHANGED <<cellVars, job, sinkVars, sharedVars>>

CommitOk ==
    /\ fpc = "commit"
    /\ CommitReturns
    /\ fpc' = "mark"
    /\ UNCHANGED <<job, sinkVars, sharedVars>>

\* poison_and_report.
CommitErr ==
    /\ fpc = "commit"
    /\ poisoned' = TRUE
    /\ settled' = Settle(settled, job.cursor, "failed")
    /\ fpc' = "drop"
    /\ UNCHANGED <<cellVars, job, sinkVars, queue, available, epoch, watermark>>

\* A faulty mark that moves the watermark whatever the job's epoch.
MarkAnyEpoch ==
    /\ fpc = "mark"
    /\ watermark' = stored
    /\ settled' = Settle(settled, job.cursor, "ok")
    /\ fpc' = "drop"
    /\ UNCHANGED <<cellVars, job, sinkVars, queue, available, epoch, poisoned>>

\* A commit moves the watermark only in its own epoch.
Mark ==
    /\ fpc = "mark"
    /\ watermark' = IF epoch = job.epoch THEN stored ELSE watermark
    /\ settled' = Settle(settled, job.cursor, "ok")
    /\ fpc' = "drop"
    /\ UNCHANGED <<cellVars, job, sinkVars, queue, available, epoch, poisoned>>

\* A faulty drop that keeps the slot of a job that was not committed.
DropJobLeaky ==
    /\ fpc = "drop"
    /\ settled' = Settle(settled, job.cursor, "closed")
    /\ available' = IF poisoned THEN available ELSE available + 1
    /\ job' = NoJob
    /\ fpc' = "recv"
    /\ UNCHANGED <<cellVars, sinkVars, queue, epoch, watermark, poisoned>>

\* A dropped job settles its token, if nothing has, and returns its slot.
DropJob ==
    /\ fpc = "drop"
    /\ settled' = Settle(settled, job.cursor, "closed")
    /\ available' = available + 1
    /\ job' = NoJob
    /\ fpc' = "recv"
    /\ UNCHANGED <<cellVars, sinkVars, queue, epoch, watermark, poisoned>>

\* A panic inside the commit: the thread drops its job and the channel's.
ThreadDies ==
    /\ fpc = "commit"
    /\ settled' = [d \in Data |->
                     IF d = job.cursor \/ \E i \in DOMAIN queue : queue[i].cursor = d
                     THEN "closed" ELSE settled[d]]
    /\ available' = available + 1 + Len(queue)
    /\ queue' = <<>>
    /\ job' = NoJob
    /\ fpc' = "dead"
    /\ UNCHANGED <<cellVars, sinkVars, epoch, watermark, poisoned>>

ThreadSteps ==
    Recv \/ RecvClosed \/ StartCommit \/ SkipJob \/ CommitOk \/ CommitErr \/ Mark \/ DropJob

-----------------------------------------------------------------------------
(***************************************************************************)
(* Properties.                                                             *)
(***************************************************************************)
\* The values each variable takes.
FlusherTypeOK ==
    /\ stored \in Data \cup {NoData} /\ pending \in Data \cup {NoData}
    /\ queue \in Seq(Job) /\ Len(queue) <= QueueDepth
    /\ available \in 0..QueueDepth /\ epoch \in 0..MaxEpoch
    /\ watermark \in Data \cup {NoData} /\ poisoned \in BOOLEAN /\ closed \in BOOLEAN
    /\ settled \in [Data -> {"none", "ok", "failed", "closed"}]
    /\ job \in Job \cup {NoJob} /\ made \in Data \cup {NoData} /\ resetAt \in 0..made

\* Every slot is free, or held by the offer under way, a queued job or the job at
\* hand: no slot is lost when a job fails, is skipped or dies with its thread, and
\* a send never waits for room in the channel.
SlotsConserved ==
    available + Len(queue) + (IF job = NoJob THEN 0 ELSE 1) + (IF apc = "send" THEN 1 ELSE 0)
      = QueueDepth

\* The watermark is what a reopen recovers, but for the moment between a commit
\* and its mark.
WatermarkIsStored == watermark \in {NoData, stored} \/ fpc = "mark"

\* A job queued before a reset never moves the watermark after it.
WatermarkIsOfEpoch == watermark # NoData => watermark > resetAt

\* Once the thread has drained a closed channel every job has its outcome, and the
\* store holds the newest of those that were committed.
JoinDrains ==
    fpc = "ended" =>
      /\ \A d \in 1..made : settled[d] # "none" /\ (settled[d] = "ok" => d <= stored)
      /\ stored # NoData => settled[stored] = "ok"
=============================================================================
