----------------------------- MODULE RotorTree ------------------------------
(***************************************************************************)
(* The persistent tree: a write-ahead log, checkpoints into data files and *)
(* recovery (crates/rotortree/src/storage), around LeanIMT's tree.         *)
(*                                                                         *)
(* Two mutexes: the log's, held through a whole flush or checkpoint, and   *)
(* the state's, held by an insert and by some stretches of a checkpoint.   *)
(* pc says what the holder of the log's mutex does next, job what it       *)
(* carries.  Every file-system call that a crash or an error can follow is *)
(* a step.  A file has a cached content, which the process and a restart   *)
(* of it see, and a content on disk, which a power failure falls back on.  *)
(*                                                                         *)
(* What is abstracted:                                                     *)
(*  - a frame of the log is its entry, or Torn when part of it is missing; *)
(*  - the log's header and header.bin, which never change, are left out;   *)
(*  - a level has one shard file, whose directory entry lasts with it;     *)
(*  - checkpoint.meta is replaced in one step, by the rename;              *)
(*  - replay inserts the leaves of all entries at once;                    *)
(*  - every level is tiered, the default, and verify_checkpoint is on;     *)
(*  - MemoryThreshold triggers like EveryNEntries; a sync that fails keeps *)
(*    the pages, so that a later one can still write them; seek and        *)
(*    set_len on the log succeed.                                          *)
(*                                                                         *)
(* A definition introduced as faulty is a bug the code could have had: it  *)
(* stands before the definition it imitates and nothing uses it.           *)
(***************************************************************************)
EXTENDS LeanIMT, SequencesExt

CONSTANTS
    ChunkSize,   \* CHUNK_SIZE
    Policies,    \* CheckpointPolicy: "Manual", "EveryNEntries", "OnClose"
    EveryN,      \* EveryNEntries(n)
    Budgets      \* how often each mishap may happen

ASSUME RotorTreeAssumption ==
    /\ ChunkSize \in Nat \ {0} /\ EveryN \in Nat \ {0}
    /\ Policies \subseteq {"Manual", "EveryNEntries", "OnClose"}
    /\ Budgets \subseteq [opens : Nat, power : Nat, kills : Nat, flush : Nat, checkpoint : Nat, log : Nat]

VARIABLES
    policy,      \* checkpoint_policy
    up,          \* "open", "down" or "refused": an open that returned an error
    buffer,      \* entries not yet written to the log
    nextSeq,     \* next_seq
    done,        \* checkpointed_chunks
    flushed,     \* DurabilityTracker: the last durable sequence number, or -1
    bgError,     \* bg_error is set
    requested,   \* CheckpointCoord::requested
    since,       \* entries_since_checkpoint
    threadDead,  \* the checkpoint thread has ended on an error
    closed,      \* "no", "yes", or "last": close has begun its own checkpoint
    calling,     \* the calls that have passed check_closed and wait for a mutex
    pc, job,
    wal, walDisk,        \* the log's frames, cached and on disk
    meta, metaDisk,      \* checkpoint.meta
    files, filesDisk,    \* the nodes in each level's file
    values,      \* leaves ever inserted: the next one has a value of its own
    log,         \* history, kept through crashes: the leaves inserted, in their order
    promised,    \* the leaves whose tokens said durable
    budget

memVars == <<tree, buffer, nextSeq, done, flushed, bgError, requested, since, threadDead,
             closed, calling, log>>
walVars == <<wal, walDisk>>
dataVars == <<meta, metaDisk, files, filesDisk>>
fixed == <<arity, policy>>
vars == <<fixed, up, memVars, pc, job, walVars, dataVars, values, promised, budget>>

-----------------------------------------------------------------------------
Torn == [seq |-> -1, leaves |-> <<>>]
NoMeta == [seq |-> -1, size |-> 0, depth |-> 0, root |-> NoRoot]
NoJob == [by |-> "none", entries |-> <<>>, seq |-> -1, snap |-> EmptyTree, level |-> 0]
NoFiles == [l \in Levels |-> <<>>]
NoChunks == [l \in Levels |-> 0]

\* Levels a tree of this depth stores.
Active(depth) == 0..LessOf(depth, MaxDepth - 1)

\* Whole chunks of a level with so many nodes.
WholeChunks(nodes) == nodes \div ChunkSize

Spend(what) == budget[what] > 0 /\ budget' = [budget EXCEPT ![what] = @ - 1]

\* The process starts with nothing in memory; what was inserted is not undone.
ForgetMemory ==
    /\ tree' = EmptyTree /\ buffer' = <<>> /\ nextSeq' = 0 /\ done' = NoChunks
    /\ flushed' = -1 /\ bgError' = FALSE /\ requested' = FALSE /\ since' = 0
    /\ threadDead' = FALSE /\ closed' = "no" /\ calling' = {}
    /\ pc' = "free" /\ job' = NoJob /\ UNCHANGED log

Init ==
    /\ arity \in Arities /\ policy \in Policies /\ budget \in Budgets
    /\ up = "down" /\ tree = EmptyTree /\ buffer = <<>> /\ nextSeq = 0 /\ done = NoChunks
    /\ flushed = -1 /\ bgError = FALSE /\ requested = FALSE /\ since = 0
    /\ threadDead = FALSE /\ closed = "no" /\ calling = {} /\ log = <<>>
    /\ pc = "free" /\ job = NoJob
    /\ wal = <<>> /\ walDisk = <<>> /\ meta = NoMeta /\ metaDisk = NoMeta
    /\ files = NoFiles /\ filesDisk = NoFiles
    /\ values = 0 /\ promised = <<>>

-----------------------------------------------------------------------------
(***************************************************************************)
(* Insertion.                                                              *)
(***************************************************************************)
\* check_closed.
Accepts == up = "open" /\ closed = "no" /\ ~bgError

\* The stretches of a checkpoint that hold the state's mutex.
StateLocked ==
    \/ pc \in {"ckFlush", "ckFlushSync", "ckTruncSync", "ckTail", "ckTailSync"}
    \/ pc = "ckRemap" /\ job.level > 0

\* A call of insert, insert_many or checkpoint passes check_closed; an error may be
\* reported before it gets its mutex.
BeginCall ==
    /\ Accepts
    /\ \E call \in {"insert", "checkpoint"} \ calling :
         /\ call = "insert" => values < MaxLeaves
         /\ calling' = calling \cup {call}
    /\ UNCHANGED <<fixed, up, tree, buffer, nextSeq, done, flushed, bgError, requested, since,
                   threadDead, closed, log, pc, job, walVars, dataVars, values, promised, budget>>

\* insert and insert_many: the tree, the buffered entry and its number change under
\* one lock; then maybe_auto_checkpoint.
InsertEntry ==
    \E count \in 1..MaxBatch :
      LET leaves == [i \in 1..count |-> Leaf(values + i)] IN
      /\ "insert" \in calling /\ ~StateLocked /\ values + count <= MaxLeaves /\ Fits(tree, count)
      /\ tree' = IF count = 1 THEN Insert(tree, leaves[1]) ELSE InsertMany(tree, leaves)
      /\ buffer' = Append(buffer, [seq |-> nextSeq, leaves |-> leaves])
      /\ nextSeq' = nextSeq + 1
      /\ since' = since + 1
      /\ requested' = (requested \/ (policy = "EveryNEntries" /\ since' >= EveryN))
      /\ values' = values + count /\ log' = log \o leaves
      /\ calling' = calling \ {"insert"}
      /\ UNCHANGED <<fixed, up, done, flushed, bgError, threadDead, closed, pc, job, walVars,
                     dataVars, promised, budget>>

\* MaxDepthExceeded.
InsertRefused ==
    /\ "insert" \in calling /\ ~StateLocked /\ \E count \in 1..MaxBatch : ~Fits(tree, count)
    /\ calling' = calling \ {"insert"}
    /\ UNCHANGED <<fixed, up, tree, buffer, nextSeq, done, flushed, bgError, requested, since,
                   threadDead, closed, log, pc, job, walVars, dataVars, values, promised, budget>>

-----------------------------------------------------------------------------
(***************************************************************************)
(* The log.                                                                *)
(***************************************************************************)
\* mark_flushed: the tokens up to seq say durable; they cover the first count leaves.
MarkFlushed(seq, count) ==
    IF seq > flushed
    THEN flushed' = seq /\ promised' = SubSeq(log, 1, count)
    ELSE UNCHANGED <<flushed, promised>>

\* flush_inner, by flush(), by the flush thread or by close.
FlushTake ==
    /\ up = "open" /\ pc = "free" /\ buffer # <<>>
    /\ job' = [NoJob EXCEPT !.by = "flush", !.entries = buffer, !.seq = nextSeq - 1,
                            !.snap = tree]
    /\ buffer' = <<>> /\ pc' = "flWrite"
    /\ UNCHANGED <<fixed, up, tree, nextSeq, done, flushed, bgError, requested, since, threadDead,
                   closed, calling, log, walVars, dataVars, values, promised, budget>>

FlushWrite ==
    /\ pc = "flWrite"
    /\ wal' = wal \o job.entries /\ pc' = "flSync"
    /\ UNCHANGED <<fixed, up, memVars, job, walDisk, dataVars, values, promised, budget>>

\* Faulty: everything numbered so far is marked, what came in during the sync too.
FlushSyncMarksAll ==
    /\ pc = "flSync"
    /\ walDisk' = wal /\ MarkFlushed(nextSeq - 1, tree.size)
    /\ pc' = "free" /\ job' = NoJob
    /\ UNCHANGED <<fixed, up, tree, buffer, nextSeq, done, bgError, requested, since, threadDead,
                   closed, calling, log, wal, dataVars, values, budget>>

FlushSync ==
    /\ pc = "flSync"
    /\ walDisk' = wal /\ MarkFlushed(job.seq, job.snap.size)
    /\ pc' = "free" /\ job' = NoJob
    /\ UNCHANGED <<fixed, up, tree, buffer, nextSeq, done, bgError, requested, since, threadDead,
                   closed, calling, log, wal, dataVars, values, budget>>

\* The write fails: the file is cut back and the entries return to the buffer's
\* front.  The sync fails: the entries stay in the file, unmarked.
FlushFails ==
    /\ pc \in {"flWrite", "flSync"} /\ Spend("flush")
    /\ buffer' = IF pc = "flWrite" THEN job.entries \o buffer ELSE buffer
    /\ bgError' = TRUE /\ pc' = "free" /\ job' = NoJob
    /\ UNCHANGED <<fixed, up, tree, nextSeq, done, flushed, requested, since, threadDead, closed,
                   calling, log, walVars, dataVars, values, promised>>

-----------------------------------------------------------------------------
(***************************************************************************)
(* checkpoint_inner.                                                       *)
(***************************************************************************)
\* checkpoint(), the checkpoint thread, and close under OnClose.
Checkpointers ==
    {by \in {"caller", "thread", "close"} :
        CASE by = "caller" -> "checkpoint" \in calling
          [] by = "thread" -> requested /\ ~threadDead /\ closed = "no" /\ policy = "EveryNEntries"
          [] by = "close"  -> closed = "yes" /\ policy = "OnClose" /\ buffer = <<>>}

CkBegin ==
    \E by \in Checkpointers :
      /\ up = "open" /\ pc = "free"
      /\ pc' = "ckFlush" /\ job' = [NoJob EXCEPT !.by = by]
      /\ requested' = (requested /\ by # "thread")
      /\ calling' = IF by = "caller" THEN calling \ {"checkpoint"} ELSE calling
      /\ closed' = IF by = "close" THEN "last" ELSE closed
      /\ UNCHANGED <<fixed, up, tree, buffer, nextSeq, done, flushed, bgError, since, threadDead,
                     log, walVars, dataVars, values, promised, budget>>

\* flush_buffer_locked's write, at the start and again after the log is cut.
CkWrite ==
    /\ pc \in {"ckFlush", "ckTail"} /\ buffer # <<>>
    /\ wal' = wal \o buffer
    /\ pc' = IF pc = "ckFlush" THEN "ckFlushSync" ELSE "ckTailSync"
    /\ UNCHANGED <<fixed, up, memVars, job, walDisk, dataVars, values, promised, budget>>

\* What the checkpoint writes is the tree of this moment; an empty one ends it.
TakeSnap ==
    IF tree.size = 0
    THEN pc' = "free" /\ job' = NoJob
    ELSE pc' = "ckLevels" /\ job' = [job EXCEPT !.snap = tree, !.seq = nextSeq - 1]

CkFlushed ==
    /\ pc = "ckFlush" /\ buffer = <<>>
    /\ TakeSnap
    /\ UNCHANGED <<fixed, up, memVars, walVars, dataVars, values, promised, budget>>

CkFlushSync ==
    /\ pc = "ckFlushSync"
    /\ walDisk' = wal /\ MarkFlushed(nextSeq - 1, tree.size) /\ buffer' = <<>>
    /\ TakeSnap
    /\ UNCHANGED <<fixed, up, tree, nextSeq, done, bgError, requested, since, threadDead, closed,
                   calling, log, wal, dataVars, values, budget>>

\* total_chunks: only whole chunks count as done.
CountChunks(nodes) == WholeChunks(nodes)

\* A level's file after its chunks from the first that is not done are written, the
\* last one padded with zeros.
WithChunks(file, from, nodes) ==
    [k \in 1..(IF from * ChunkSize >= Len(nodes) THEN Len(file)
               ELSE CeilDiv(Len(nodes), ChunkSize) * ChunkSize) |->
        IF k <= from * ChunkSize \/ from * ChunkSize >= Len(nodes)
        THEN IF k <= Len(file) THEN file[k] ELSE Zero
        ELSE IF k <= Len(nodes) THEN nodes[k] ELSE Zero]

CkLevel ==
    /\ pc = "ckLevels" /\ job.level \in Active(job.snap.depth)
    /\ files' = [files EXCEPT ![job.level] = WithChunks(@, done[job.level], job.snap.levels[job.level])]
    /\ job' = [job EXCEPT !.level = @ + 1]
    /\ UNCHANGED <<fixed, up, memVars, pc, walVars, meta, metaDisk, filesDisk, values, promised, budget>>

\* Faulty: the metadata is published before the data files are synced.
CkSyncFilesSkipped ==
    /\ pc = "ckLevels" /\ job.level \notin Active(job.snap.depth)
    /\ pc' = "ckRename"
    /\ UNCHANGED <<fixed, up, memVars, job, walVars, meta, metaDisk, files, filesDisk, values, promised, budget>>

CkSyncFiles ==
    /\ pc = "ckLevels" /\ job.level \notin Active(job.snap.depth)
    /\ filesDisk' = files /\ pc' = "ckRename"
    /\ UNCHANGED <<fixed, up, memVars, job, walVars, meta, metaDisk, files, values, promised, budget>>

CkRename ==
    /\ pc = "ckRename"
    /\ meta' = [seq |-> job.seq, size |-> job.snap.size, depth |-> job.snap.depth,
                root |-> job.snap.root]
    /\ pc' = "ckDirSync"
    /\ UNCHANGED <<fixed, up, memVars, job, walVars, metaDisk, files, filesDisk, values, promised, budget>>

CkDirSync ==
    /\ pc = "ckDirSync"
    /\ metaDisk' = meta /\ pc' = "ckRemap" /\ job' = [job EXCEPT !.level = 0]
    /\ UNCHANGED <<fixed, up, memVars, walVars, meta, files, filesDisk, values, promised, budget>>

\* remap_chunks: the first count chunks of a level are read from its file from now on.
Remapped(nodes, file, count) ==
    [k \in DOMAIN nodes |-> IF k <= count * ChunkSize THEN file[k] ELSE nodes[k]]

\* The first level takes the state's mutex.  Whole chunks are mapped and count as done.
CkRemap ==
    LET l     == job.level
        total == CountChunks(Len(job.snap.levels[l]))
    IN /\ pc = "ckRemap" /\ l \in Active(job.snap.depth)
       /\ done' = [done EXCEPT ![l] = total]
       /\ tree' = [tree EXCEPT !.levels[l] = Remapped(@, files[l], total)]
       /\ job' = [job EXCEPT !.level = @ + 1]
       /\ UNCHANGED <<fixed, up, buffer, nextSeq, flushed, bgError, requested, since, threadDead,
                      closed, calling, log, pc, walVars, dataVars, values, promised, budget>>

\* The log is cut to its header.
CkTruncate ==
    /\ pc = "ckRemap" /\ job.level \notin Active(job.snap.depth)
    /\ wal' = <<>> /\ pc' = "ckTruncSync"
    /\ UNCHANGED <<fixed, up, memVars, job, walDisk, dataVars, values, promised, budget>>

CkTruncSync ==
    /\ pc = "ckTruncSync"
    /\ walDisk' = wal /\ since' = 0 /\ pc' = "ckTail"
    /\ UNCHANGED <<fixed, up, tree, buffer, nextSeq, done, flushed, bgError, requested, threadDead,
                   closed, calling, log, job, wal, dataVars, values, promised, budget>>

\* The entries that came in since the snapshot go to the fresh log.
CkTailSync ==
    /\ pc = "ckTailSync"
    /\ walDisk' = wal /\ MarkFlushed(nextSeq - 1, tree.size) /\ buffer' = <<>>
    /\ pc' = "free" /\ job' = NoJob
    /\ UNCHANGED <<fixed, up, tree, nextSeq, done, bgError, requested, since, threadDead, closed,
                   calling, log, wal, dataVars, values, budget>>

CkDone ==
    /\ pc = "ckTail" /\ buffer = <<>>
    /\ pc' = "free" /\ job' = NoJob
    /\ UNCHANGED <<fixed, up, memVars, walVars, dataVars, values, promised, budget>>

\* A call of the checkpoint fails.  The checkpoint thread reports the error and ends;
\* a caller gets it back and may go on.
Abandon ==
    /\ bgError' = (bgError \/ job.by = "thread")
    /\ threadDead' = (threadDead \/ job.by = "thread")
    /\ pc' = "free" /\ job' = NoJob
    /\ UNCHANGED <<fixed, up, tree, buffer, nextSeq, done, flushed, requested, since, closed, calling,
                   log, walDisk, dataVars, values, promised>>

\* A call on the data files, the metadata, a mapping or the sync of the cut log.
CkFails ==
    /\ pc \in {"ckLevels", "ckRename", "ckDirSync", "ckRemap", "ckTruncSync"}
    /\ Spend("checkpoint") /\ Abandon
    /\ UNCHANGED wal

\* flush_buffer_locked fails: a write leaves part of the entries in the file, a sync
\* leaves all of them, and either way all of them stay in the buffer.
CkLogFails ==
    /\ Spend("log") /\ Abandon
    /\ \/ pc \in {"ckFlushSync", "ckTailSync"} /\ UNCHANGED wal
       \/ /\ pc \in {"ckFlush", "ckTail"} /\ buffer # <<>>
          /\ \E k \in 0..Len(buffer) - 1 : wal' = Append(wal \o SubSeq(buffer, 1, k), Torn)

-----------------------------------------------------------------------------
(***************************************************************************)
(* Closing, crashing, opening.                                             *)
(***************************************************************************)
Close ==
    /\ up = "open" /\ closed = "no" /\ calling = {}
    /\ closed' = "yes"
    /\ UNCHANGED <<fixed, up, tree, buffer, nextSeq, done, flushed, bgError, requested, since,
                   threadDead, calling, log, pc, job, walVars, dataVars, values, promised, budget>>

\* The threads are joined, the buffer is flushed and OnClose's checkpoint made; or a
\* flush has failed and close ends early.
Closes ==
    /\ up = "open" /\ closed # "no" /\ pc = "free"
    /\ bgError \/ (buffer = <<>> /\ (policy = "OnClose" => closed = "last"))
    /\ up' = "down" /\ ForgetMemory
    /\ UNCHANGED <<fixed, walVars, dataVars, values, promised, budget>>

\* So does a tree dropped while its thread panics: nothing is flushed.
Killed ==
    /\ up = "open" /\ Spend("kills")
    /\ up' = "down" /\ ForgetMemory
    /\ UNCHANGED <<fixed, walVars, dataVars, values, promised>>

\* What a power failure leaves of the log: what was synced and any further part of
\* what was written; a cut that was not synced may or may not have happened.
WalLeft ==
    IF IsPrefix(walDisk, wal)
    THEN {SubSeq(wal, 1, k) : k \in Len(walDisk)..Len(wal)}
         \cup {Append(SubSeq(wal, 1, k), Torn) : k \in Len(walDisk)..Len(wal) - 1}
    ELSE {walDisk, wal}

NodeAt(file, k) == IF k <= Len(file) THEN file[k] ELSE Zero

\* Every node of a data file that was written and not synced is old or new.
Unsynced ==
    LET differs(l, k) == k <= Len(files[l]) /\ files[l][k] # NodeAt(filesDisk[l], k)
    IN {node \in Levels \X (1..MaxLeaves + ChunkSize) : differs(node[1], node[2])}

PowerFails ==
    /\ up = "open" /\ Spend("power")
    /\ wal' \in WalLeft /\ walDisk' = wal'
    /\ meta' \in {meta, metaDisk} /\ metaDisk' = meta'
    /\ \E kept \in SUBSET Unsynced :
         files' = [l \in Levels |-> [k \in 1..Len(files[l]) |->
                     IF <<l, k>> \in kept THEN files[l][k] ELSE NodeAt(filesDisk[l], k)]]
    /\ filesDisk' = files'
    /\ up' = "down" /\ ForgetMemory
    /\ UNCHANGED <<fixed, values, promised>>

\* The frames replay accepts: whole ones, numbered one after the other.
ValidFrames(frames) ==
    LET valid(k) == \A j \in 1..k : /\ frames[j] # Torn
                                    /\ j > 1 => frames[j].seq = frames[j - 1].seq + 1
    IN CHOOSE n \in 0..Len(frames) : valid(n) /\ (n < Len(frames) => ~valid(n + 1))

\* The tree in the data files, cut to the lengths its leaf count implies.
Loaded ==
    [levels |-> [l \in Levels |-> IF meta.size > 0 /\ l \in Active(meta.depth)
                                  THEN SubSeq(files[l], 1, LevelSize(meta.size, l)) ELSE <<>>],
     root |-> meta.root, size |-> meta.size, depth |-> meta.depth]

\* Faulty: replay does not skip what the checkpoint holds.
NewerAlways(seq) == TRUE

\* skip_until_seq.
Newer(seq) == meta = NoMeta \/ seq > meta.seq

\* replay_wal_entries: the leaves of the frames that are not skipped, in their order.
Replayed(frames) ==
    LET upTo[k \in 0..Len(frames)] ==
            IF k = 0 THEN <<>>
            ELSE upTo[k - 1] \o (IF Newer(frames[k].seq) THEN frames[k].leaves ELSE <<>>)
    IN upTo[Len(frames)]

\* An open ends in DataCorruption when the root does not match and in MaxDepthExceeded
\* when the replayed leaves do not fit; a torn frame with others behind it is CrcMismatch
\* or, depending on the lengths, taken for the end.
OpenOutcomes ==
    LET n     == ValidFrames(wal)
        sound == /\ RecomputeRoot(Loaded) = meta.root
                 /\ Fits(Loaded, Len(Replayed(SubSeq(wal, 1, n))))
    IN CASE ~sound -> {"refused"}
         [] sound /\ n + 1 < Len(wal) /\ wal[n + 1] = Torn -> {"open", "refused"}
         [] OTHER -> {"open"}

\* The checkpoint, then the entries after it; an invalid tail is cut off.  The history
\* loses as many leaves from its end as the tree has fewer.
Recover ==
    LET n      == ValidFrames(wal)
        leaves == Replayed(SubSeq(wal, 1, n))
        found  == IF leaves = <<>> THEN Loaded ELSE InsertMany(Loaded, leaves)
        next   == IF n > 0 THEN wal[n].seq + 1 ELSE meta.seq + 1
    IN /\ tree' = found /\ log' = SubSeq(log, 1, LessOf(found.size, Len(log)))
       /\ wal' = SubSeq(wal, 1, n) /\ walDisk' = IF n < Len(wal) THEN wal' ELSE walDisk
       /\ nextSeq' = next /\ flushed' = next - 1
       /\ done' = [l \in Levels |-> IF meta.size > 0 /\ l \in Active(meta.depth)
                                    THEN WholeChunks(LevelSize(meta.size, l)) ELSE 0]

\* open; an operator may try again after an error.
Open ==
    /\ up # "open" /\ Spend("opens") /\ up' \in OpenOutcomes
    /\ IF up' = "open" THEN Recover
       ELSE UNCHANGED <<tree, log, walVars, nextSeq, flushed, done>>
    /\ UNCHANGED <<fixed, buffer, bgError, requested, since, threadDead, closed, calling, pc, job,
                   dataVars, values, promised>>

\* The process is not started again.
StaysDown == up # "open" /\ budget.opens = 0 /\ UNCHANGED vars

-----------------------------------------------------------------------------
Flushes == FlushTake \/ FlushWrite \/ FlushSync \/ FlushFails

Checkpoints ==
    \/ CkBegin \/ CkWrite \/ CkFlushed \/ CkFlushSync \/ CkLevel \/ CkSyncFiles
    \/ CkRename \/ CkDirSync \/ CkRemap \/ CkTruncate \/ CkTruncSync \/ CkTailSync \/ CkDone \/ CkFails \/ CkLogFails

Next ==
    \/ BeginCall \/ InsertEntry \/ InsertRefused \/ Flushes \/ Checkpoints
    \/ Close \/ Closes \/ Killed \/ PowerFails \/ Open \/ StaysDown

Spec == Init /\ [][Next]_vars

-----------------------------------------------------------------------------
(***************************************************************************)
(* Properties.                                                             *)
(***************************************************************************)
\* The values the variables take; the buffer and the log hold consecutive entries.
TypeOK ==
    /\ up \in {"open", "down", "refused"} /\ values \in 0..MaxLeaves
    /\ nextSeq \in Nat /\ flushed \in -1..nextSeq - 1 /\ since \in Nat
    /\ \A l \in Levels : done[l] * ChunkSize <= Len(tree.levels[l])
    /\ \A k \in 1..Len(buffer) : buffer[k].seq = nextSeq - Len(buffer) + k - 1
    /\ up = "open" => tree.size = Len(log)
    /\ tree.size = Len(tree.levels[0])

\* Whatever a token has called durable is in the tree after a crash and a restart: the
\* recovered leaves start with the promised ones (DurabilityToken::wait, token.rs).  Two
\* sequences of mishaps break it and have runs of their own: a log write that fails
\* inside a checkpoint before a restart, and a power failure that takes unsynced frames
\* from behind a checkpoint, so that their numbers are given again.
DurableSurvives == up = "open" => IsPrefix(promised, tree.levels[0])

\* The leaves are the inserted ones in their order, none missing before another and none
\* twice, and the root is theirs: through checkpoints taken while inserts go on and
\* remapped chunks, and after a recovery, which may lose leaves only from the end of what
\* was inserted and must not replay from the log what the checkpoint holds.
RootIsOfLeaves ==
    up = "open" => tree.levels[0] = log /\ RecomputeRoot(tree) = tree.root

\* An open never finds data that a crash has left inconsistent.
Reopens == up # "refused"

\* Every node a proof is made of is the hash of the nodes below it.
NodesAreHashes ==
    up = "open" =>
      \A l \in Active(tree.depth) \ {0} :
        tree.levels[l] = [i \in 1..LevelSize(tree.size, l) |-> ParentOf(tree.levels[l - 1], i - 1)]
=============================================================================
