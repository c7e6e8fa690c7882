--------------------------- MODULE HarnessProofs ----------------------------
(***************************************************************************)
(* Proofs about Flusher and Harness, for every queue depth, every number   *)
(* of snapshots, resets and requests.                                      *)
(***************************************************************************)
EXTENDS Harness, TLAPS

USE FlusherAssumption, HarnessAssumption DEF NoData

\* A snapshot's number is positive.
LEMMA DataPositive == \A d \in Data : d \in Nat /\ d > 0
  BY DataAssumption

-----------------------------------------------------------------------------
(***************************************************************************)
(* The inductive invariant.                                                *)
(***************************************************************************)
\* The control of the flusher thread and of an offer, and the numbers given to
\* snapshots.
FlusherControl ==
    /\ FlusherTypeOK
    /\ 1..made \subseteq Data
    /\ fpc \in {"recv", "check", "commit", "mark", "drop", "ended", "dead"}
    /\ apc \in {"free", "acquire", "send", "lost"}
    /\ apc \in {"acquire", "send"} => made + 1 \in Data
    /\ fpc = "ended" => closed = TRUE /\ queue = <<>>
    /\ job # NoJob <=> fpc \in {"check", "commit", "mark", "drop"}
    /\ fpc = "commit" => pending = job.cursor

\* The control of the loop thread, which makes the offers, and of its callers.
LoopControl ==
    /\ lpc \in {"take", "tick", "poll", "offer", "publish", "stop", "lock", "waiting",
                "ended", "panicked"}
    /\ stop \in BOOLEAN /\ terminal \in BOOLEAN /\ resynced \in BOOLEAN
    /\ requests \in 0..MaxRequests /\ owed \in 0..(MaxRequests + 1)
    /\ stop = FALSE => owed <= MaxRequests
    /\ published \in [terminal : BOOLEAN, durable : Data \cup {NoData}]
    /\ resyncAt \in 0..made
    /\ apc # "free" => lpc = "offer"
    /\ closed = TRUE => lpc \in {"ended", "panicked"}
    /\ resynced = TRUE => epoch < MaxEpoch

\* Jobs are offered, queued and committed in the order of their numbers and of
\* their epochs; what is queued is newer than what is stored.
JobsInOrder ==
    /\ \A i \in 1..Len(queue) :
         /\ queue[i].cursor <= made /\ queue[i].epoch <= epoch
         /\ queue[i].cursor > stored
         /\ queue[i].epoch = epoch => queue[i].cursor > resetAt
    /\ \A i, k \in 1..Len(queue) :
         i < k => queue[i].cursor < queue[k].cursor /\ queue[i].epoch <= queue[k].epoch
    /\ job # NoJob =>
         /\ job.cursor <= made /\ job.epoch <= epoch
         /\ job.epoch = epoch => job.cursor > resetAt
         /\ \A i \in 1..Len(queue) : job.cursor < queue[i].cursor /\ job.epoch <= queue[i].epoch
    /\ fpc \in {"check", "commit"} => stored < job.cursor
    /\ fpc = "mark" => stored = job.cursor

\* A token without an outcome belongs to a job that is still to come.
TokensSettle ==
    /\ stored <= made
    /\ \A d \in Data : d > made => settled[d] = "none"
    /\ \A d \in 1..made :
         settled[d] = "none" => \/ job # NoJob /\ job.cursor = d
                                \/ \E i \in 1..Len(queue) : queue[i].cursor = d
    /\ \A i \in 1..Len(queue) : settled[queue[i].cursor] = "none"
    /\ fpc \in {"check", "commit", "mark"} => settled[job.cursor] = "none"
    /\ \A d \in Data : settled[d] = "ok" => d <= stored
    /\ stored # NoData /\ fpc # "mark" => settled[stored] = "ok"

\* A watermark is of the present epoch, and so is every job behind it.
WatermarkHonest ==
    /\ WatermarkIsStored
    /\ WatermarkIsOfEpoch
    /\ watermark # NoData =>
         /\ job # NoJob => job.epoch = epoch
         /\ \A i \in 1..Len(queue) : queue[i].epoch = epoch

\* The loop has published no watermark of an earlier run of the engine.
PublishedHonest ==
    /\ PublishedIsOfThisRun
    /\ resynced = FALSE => resyncAt <= resetAt

HarnessInv ==
    /\ FlusherControl /\ LoopControl /\ SlotsConserved /\ JobsInOrder /\ TokensSettle
    /\ WatermarkHonest /\ PublishedHonest

\* What holds of the queued jobs, for the steps to cite.
LEMMA QueueTyped ==
    ASSUME HarnessInv
    PROVE  /\ queue \in Seq(Job) /\ Len(queue) \in Nat
           /\ \A i \in 1..Len(queue) :
                /\ queue[i] \in Job
                /\ queue[i].cursor \in Data /\ queue[i].cursor \in Nat /\ queue[i].epoch \in Nat
           /\ job # NoJob => job.cursor \in Data /\ job.cursor \in Nat /\ job.epoch \in Nat
           /\ made \in Nat /\ stored \in Nat /\ epoch \in Nat /\ available \in Nat
           /\ watermark \in Nat /\ resetAt \in Nat
  <1>1. FlusherTypeOK
    BY DEF HarnessInv, FlusherControl
  <1>2. /\ queue \in Seq(Job) /\ job \in Job \cup {NoJob} /\ made \in Data \cup {NoData}
        /\ stored \in Data \cup {NoData} /\ epoch \in 0..MaxEpoch /\ available \in 0..QueueDepth
        /\ watermark \in Data \cup {NoData} /\ resetAt \in 0..made
    BY <1>1 DEF FlusherTypeOK
  <1>3. ASSUME NEW j \in Job
        PROVE  j.cursor \in Data /\ j.cursor \in Nat /\ j.epoch \in Nat
    <2>1. j.cursor \in Data /\ j.epoch \in 0..MaxEpoch
      BY DEF Job
    <2>2. j.cursor \in Nat
      BY <2>1, DataPositive
    <2>3. j.epoch \in Nat
      BY <2>1
    <2>4. QED
      BY <2>1, <2>2, <2>3
  <1>4. Len(queue) \in Nat /\ \A i \in 1..Len(queue) : queue[i] \in Job
    BY <1>2
  <1>5. made \in Nat /\ stored \in Nat /\ watermark \in Nat
    BY <1>2, DataPositive
  <1>6. QED
    BY <1>2, <1>3, <1>4, <1>5

-----------------------------------------------------------------------------
(***************************************************************************)
(* Steps that leave the flusher alone.                                     *)
(***************************************************************************)
\* A step that changes none of the flusher's variables keeps what is said of them.
LEMMA FlusherUntouched ==
    ASSUME HarnessInv, UNCHANGED flusherVars
    PROVE  FlusherControl' /\ SlotsConserved' /\ JobsInOrder' /\ TokensSettle' /\ WatermarkHonest'
  BY DEF HarnessInv, flusherVars, cellVars, threadVars, sinkVars, sharedVars, SlotsConserved,
         FlusherControl, FlusherTypeOK,
         JobsInOrder, TokensSettle, WatermarkHonest, WatermarkIsStored, WatermarkIsOfEpoch, NoJob

\* The steps of the loop that touch nothing of the flusher.
LEMMA LoopAloneKeepsInv ==
    ASSUME HarnessInv, UNCHANGED flusherVars,
           \/ TakeRequests \/ (BeginTick /\ resynced = FALSE) \/ TickEnds \/ Publish \/ ReadStop \/ LockAndWait
           \/ Wakes \/ TickResyncs \/ TickTerminates \/ TickPanics \/ TimesOut
    PROVE  HarnessInv'
  <1> USE DEF flusherVars, cellVars, threadVars, sinkVars, sharedVars, loopVars, stateVars,
              TakeRequests, BeginTick, SinkReset, TickEnds, Publish, ReadStop, LockAndWait, Wakes,
              TickResyncs, TickTerminates, TickPanics, TimesOut
  <1>1. /\ LoopControl /\ WatermarkHonest /\ PublishedHonest
        /\ watermark \in Data \cup {NoData} /\ epoch \in 0..MaxEpoch /\ made \in Nat /\ resetAt \in 0..made
    BY DEF HarnessInv, FlusherControl, FlusherTypeOK
  <1>2. LoopControl'
    <2>1. published' \in [terminal : BOOLEAN, durable : Data \cup {NoData}]
      BY <1>1 DEF LoopControl, Status
    <2>2. /\ stop' \in BOOLEAN /\ terminal' \in BOOLEAN /\ resynced' \in BOOLEAN
      BY <1>1 DEF LoopControl
    <2>3. /\ requests' \in 0..MaxRequests /\ owed' \in 0..(MaxRequests + 1)
          /\ stop' = FALSE => owed' <= MaxRequests
          /\ resyncAt' \in 0..made'
      BY <1>1 DEF LoopControl
    <2>4. /\ lpc' \in {"take", "tick", "poll", "offer", "publish", "stop", "lock", "waiting",
                       "ended", "panicked"}
          /\ apc' # "free" => lpc' = "offer"
          /\ closed' = TRUE => lpc' \in {"ended", "panicked"}
      BY <1>1 DEF LoopControl
    <2>5. resynced' = TRUE => epoch' < MaxEpoch
      BY <1>1 DEF LoopControl
    <2>6. QED
      BY <2>1, <2>2, <2>3, <2>4, <2>5 DEF LoopControl
  <1>3. PublishedHonest'
    <2> USE <1>1, QueueTyped
    <2>1. resyncAt \in Nat /\ (resynced = FALSE => resyncAt <= resetAt)
      BY DEF LoopControl, PublishedHonest
    <2>2. resynced' = FALSE => resyncAt' <= resetAt'
      BY <2>1 DEF LoopControl
    <2>3. CASE Publish \/ TickPanics
      <3>1. published' = [terminal |-> terminal, durable |-> IF resynced THEN NoData ELSE watermark]
        BY <2>3 DEF Status
      <3>2. published'.durable # NoData => resynced = FALSE /\ published'.durable = watermark
        BY <3>1 DEF LoopControl
      <3>3. resyncAt' = resyncAt
        BY <2>3
      <3>4. QED
        BY <2>1, <2>2, <3>2, <3>3 DEF PublishedHonest, PublishedIsOfThisRun, WatermarkHonest,
                                 WatermarkIsOfEpoch
    <2>4. CASE ~(Publish \/ TickPanics)
      <3>1. published' = published
        BY <2>4
      <3>2. \/ lpc' \notin {"stop", "lock", "waiting", "ended", "panicked"}
            \/ lpc \in {"stop", "lock", "waiting", "ended", "panicked"} /\ resyncAt' = resyncAt
        BY <2>4
      <3>3. QED
        BY <2>2, <3>1, <3>2 DEF PublishedHonest, PublishedIsOfThisRun
    <2>5. QED
      BY <2>3, <2>4
  <1>4. QED
    BY <1>2, <1>3, FlusherUntouched DEF HarnessInv

\* The calls of the handle.
LEMMA CallersKeepInv ==
    ASSUME HarnessInv, RequestCheckpoint \/ Shutdown \/ NotifyAll
    PROVE  HarnessInv'
  <1> USE DEF flusherVars, cellVars, threadVars, sinkVars, sharedVars, loopVars,
              RequestCheckpoint, Shutdown, NotifyAll
  <1>1. LoopControl'
    <2>1. LoopControl
      BY DEF HarnessInv
    <2>2. /\ requests' \in 0..MaxRequests /\ owed' \in 0..(MaxRequests + 1)
          /\ stop' \in BOOLEAN /\ (stop' = FALSE => owed' <= MaxRequests)
      <3>1. CASE RequestCheckpoint
        BY <2>1, <3>1 DEF LoopControl
      <3>2. CASE Shutdown
        BY <2>1, <3>2 DEF LoopControl
      <3>3. CASE NotifyAll
        BY <2>1, <3>3 DEF LoopControl
      <3>4. QED
        BY <3>1, <3>2, <3>3
    <2>3. QED
      BY <2>1, <2>2 DEF LoopControl
  <1>2. PublishedHonest'
    BY DEF HarnessInv, PublishedHonest, PublishedIsOfThisRun
  <1>3. UNCHANGED flusherVars
    OBVIOUS
  <1>4. QED
    BY <1>1, <1>2, <1>3, FlusherUntouched DEF HarnessInv

-----------------------------------------------------------------------------
(***************************************************************************)
(* The apply thread's half of the flusher, called by the loop.             *)
(***************************************************************************)
\* A tick offers a snapshot: submit reads the poison flag.
LEMMA OfferBeginsKeepsInv ==
    ASSUME HarnessInv, TickOffers
    PROVE  HarnessInv'
  <1> USE DEF TickOffers, OfferAdmitted, OfferPoisoned, cellVars, threadVars, sharedVars, stateVars
  <1>a. /\ apc = "free" /\ lpc = "poll" /\ lpc' = "offer" /\ made + 1 \in Data
        /\ apc' \in {"acquire", "lost"}
        /\ UNCHANGED <<cellVars, threadVars, made, resetAt, closed, sharedVars, stateVars,
                       terminal, resynced, resyncAt, published>>
    OBVIOUS
  <1> HIDE DEF TickOffers
  <1>1. FlusherControl'
    BY <1>a DEF HarnessInv, FlusherControl, FlusherTypeOK
  <1>2. LoopControl'
    <2>1. LoopControl
      BY DEF HarnessInv
    <2>2. QED
      BY <1>a, <2>1 DEF LoopControl
  <1>3. SlotsConserved' /\ JobsInOrder' /\ TokensSettle' /\ WatermarkHonest' /\ PublishedHonest'
    BY <1>a DEF HarnessInv, SlotsConserved, JobsInOrder, TokensSettle, WatermarkHonest,
           WatermarkIsStored, WatermarkIsOfEpoch, PublishedHonest, PublishedIsOfThisRun
  <1>4. QED
    BY <1>1, <1>2, <1>3 DEF HarnessInv

\* The offer returns to the tick.
LEMMA OfferReturnsKeepsInv ==
    ASSUME HarnessInv, OfferReturns
    PROVE  HarnessInv'
  <1> USE DEF OfferReturns, cellVars, threadVars, sharedVars, stateVars
  <1>1. FlusherControl'
    BY DEF HarnessInv, FlusherControl, FlusherTypeOK
  <1>2. LoopControl'
    BY DEF HarnessInv, LoopControl
  <1>3. SlotsConserved' /\ JobsInOrder' /\ TokensSettle' /\ WatermarkHonest' /\ PublishedHonest'
    BY DEF HarnessInv, SlotsConserved, JobsInOrder, TokensSettle, WatermarkHonest,
           WatermarkIsStored, WatermarkIsOfEpoch, PublishedHonest, PublishedIsOfThisRun
  <1>4. QED
    BY <1>1, <1>2, <1>3 DEF HarnessInv

\* The offer takes a slot.
LEMMA AcquireKeepsInv ==
    ASSUME HarnessInv, Acquire, lpc = "offer", UNCHANGED <<loopVars, stateVars>>
    PROVE  HarnessInv'
  <1> USE DEF Acquire, cellVars, threadVars, loopVars, stateVars
  <1>1. FlusherControl'
    BY DEF HarnessInv, FlusherControl, FlusherTypeOK
  <1>2. LoopControl' /\ PublishedHonest'
    BY DEF HarnessInv, LoopControl, PublishedHonest, PublishedIsOfThisRun
  <1>3. SlotsConserved'
    BY QueueTyped DEF HarnessInv, SlotsConserved
  <1>4. JobsInOrder' /\ TokensSettle' /\ WatermarkHonest'
    BY DEF HarnessInv, JobsInOrder, TokensSettle, WatermarkHonest, WatermarkIsStored,
           WatermarkIsOfEpoch
  <1>5. QED
    BY <1>1, <1>2, <1>3, <1>4 DEF HarnessInv

\* The caller of shutdown, or a panic, drops the sender.
LEMMA JoinKeepsInv ==
    ASSUME HarnessInv, JoinFlusher
    PROVE  HarnessInv'
  <1> USE DEF JoinFlusher, Join, cellVars, threadVars, loopVars, stateVars, sharedVars
  <1>1. FlusherControl'
    BY DEF HarnessInv, FlusherControl, FlusherTypeOK
  <1>2. LoopControl' /\ PublishedHonest'
    BY DEF HarnessInv, LoopControl, PublishedHonest, PublishedIsOfThisRun
  <1>3. SlotsConserved' /\ JobsInOrder' /\ TokensSettle' /\ WatermarkHonest'
    BY DEF HarnessInv, SlotsConserved, JobsInOrder, TokensSettle, WatermarkHonest,
           WatermarkIsStored, WatermarkIsOfEpoch
  <1>4. QED
    BY <1>1, <1>2, <1>3 DEF HarnessInv

\* The number the next offer gives its snapshot.
LEMMA NextNumber ==
    ASSUME HarnessInv, made + 1 \in Data
    PROVE  /\ 1..(made + 1) \subseteq Data
           /\ resetAt \in 0..(made + 1) /\ resyncAt \in 0..(made + 1)
           /\ stored # NoData => stored \in Data /\ stored # made + 1
  <1>1. /\ 1..made \subseteq Data /\ resetAt \in 0..made /\ resyncAt \in 0..made
        /\ stored \in Data \cup {NoData} /\ stored <= made
    BY DEF HarnessInv, FlusherControl, FlusherTypeOK, LoopControl, TokensSettle
  <1>2. made \in Nat /\ stored \in Nat
    BY QueueTyped
  <1>3. ASSUME NEW d \in 1..(made + 1)
        PROVE  d \in Data
    <2>1. d \in 1..made \/ d = made + 1
      BY <1>2
    <2>2. QED
      BY <1>1, <2>1
  <1>4. resetAt \in 0..(made + 1) /\ resyncAt \in 0..(made + 1)
    BY <1>1, <1>2
  <1>5. stored # NoData => stored \in Data /\ stored # made + 1
    BY <1>1, <1>2
  <1>6. QED
    BY <1>3, <1>4, <1>5

\* The job enters the channel: it is the newest, and of the present epoch.
LEMMA SendKeepsInv ==
    ASSUME HarnessInv, Send, lpc = "offer", UNCHANGED <<loopVars, stateVars>>
    PROVE  HarnessInv'
  <1> DEFINE new == [cursor |-> made + 1, epoch |-> epoch]
  <1> USE DEF cellVars, threadVars, loopVars, stateVars
  <1>1. /\ apc = "send" /\ fpc # "dead" /\ Len(queue) < QueueDepth /\ made' = made + 1
        /\ queue' = Append(queue, new) /\ apc' = "free"
        /\ UNCHANGED <<stored, pending, job, fpc, resetAt, closed, available, epoch, watermark,
                       poisoned, settled>>
    BY DEF Send
  <1>2. made + 1 \in Data /\ epoch \in 0..MaxEpoch /\ fpc # "ended"
    BY <1>1 DEF HarnessInv, FlusherControl, FlusherTypeOK, LoopControl
  <1>3. new \in Job
    BY <1>2 DEF Job
  <1>4. /\ Len(queue') = Len(queue) + 1 /\ queue' \in Seq(Job)
        /\ \A i \in 1..Len(queue) : queue'[i] = queue[i]
        /\ queue'[Len(queue) + 1] = new
    BY <1>1, <1>3, QueueTyped
  <1> HIDE DEF new
  <1>5. new.cursor = made + 1 /\ new.epoch = epoch
    BY DEF new
  <1>6. FlusherControl'
    <2>1. 1..made' \subseteq Data
      BY <1>1, <1>2, NextNumber
    <2>2. resetAt' \in 0..made' /\ made' \in Data
      BY <1>1, <1>2, NextNumber
    <2>3. Len(queue') <= QueueDepth
      BY <1>1, <1>4, QueueTyped
    <2>4. QED
      BY <1>1, <1>2, <1>4, <2>1, <2>2, <2>3 DEF HarnessInv, FlusherControl, FlusherTypeOK
  <1>7. LoopControl'
    <2>1. LoopControl /\ resyncAt' \in 0..made'
      BY <1>1, <1>2, NextNumber DEF HarnessInv
    <2>2. QED
      BY <1>1, <2>1 DEF LoopControl
  <1>8. PublishedHonest'
    BY <1>1 DEF HarnessInv, PublishedHonest, PublishedIsOfThisRun
  <1>9. SlotsConserved'
    BY <1>1, <1>4, QueueTyped DEF HarnessInv, SlotsConserved
  <1>10. JobsInOrder'
    <2>1. ASSUME NEW i \in 1..Len(queue')
          PROVE  \/ i \in 1..Len(queue) /\ queue'[i] = queue[i]
                 \/ i = Len(queue) + 1 /\ queue'[i] = new
      BY <1>4, QueueTyped
    <2>2. JobsInOrder /\ stored <= made /\ resetAt <= made
      BY QueueTyped DEF HarnessInv, TokensSettle, FlusherControl, FlusherTypeOK
    <2>3. \A i \in 1..Len(queue') :
             /\ queue'[i].cursor <= made' /\ queue'[i].epoch <= epoch'
             /\ queue'[i].cursor > stored'
             /\ queue'[i].epoch = epoch' => queue'[i].cursor > resetAt'
      BY <1>1, <1>5, <2>1, <2>2, QueueTyped DEF JobsInOrder
    <2>4. \A i, k \in 1..Len(queue') :
             i < k => queue'[i].cursor < queue'[k].cursor /\ queue'[i].epoch <= queue'[k].epoch
      BY <1>1, <1>5, <2>1, <2>2, QueueTyped DEF JobsInOrder
    <2>5. job' # NoJob =>
             /\ job'.cursor <= made' /\ job'.epoch <= epoch'
             /\ job'.epoch = epoch' => job'.cursor > resetAt'
             /\ \A i \in 1..Len(queue') :
                  job'.cursor < queue'[i].cursor /\ job'.epoch <= queue'[i].epoch
      BY <1>1, <1>5, <2>1, <2>2, QueueTyped DEF JobsInOrder
    <2>6. QED
      BY <1>1, <2>2, <2>3, <2>4, <2>5 DEF JobsInOrder
  <1>11. TokensSettle'
    <2>1. TokensSettle
      BY DEF HarnessInv
    <2>2. stored' <= made' /\ \A d \in Data : d > made' => settled'[d] = "none"
      BY <1>1, <2>1, DataPositive, QueueTyped DEF TokensSettle
    <2>3. ASSUME NEW d \in 1..made', settled'[d] = "none"
          PROVE  \/ job' # NoJob /\ job'.cursor = d
                 \/ \E i \in 1..Len(queue') : queue'[i].cursor = d
      <3>1. CASE d = made + 1
        BY <1>4, <1>5, <3>1, QueueTyped
      <3>2. CASE d \in 1..made
        <4>1. \/ job # NoJob /\ job.cursor = d
              \/ \E i \in 1..Len(queue) : queue[i].cursor = d
          BY <1>1, <2>1, <2>3, <3>2 DEF TokensSettle
        <4>2. QED
          BY <1>1, <1>4, <4>1, QueueTyped
      <3>3. QED
        BY <1>1, <3>1, <3>2, QueueTyped
    <2>4. ASSUME NEW i \in 1..Len(queue')
          PROVE  settled'[queue'[i].cursor] = "none"
      <3>1. CASE i \in 1..Len(queue)
        BY <1>1, <1>4, <2>1, <3>1 DEF TokensSettle
      <3>2. CASE i = Len(queue) + 1
        BY <1>1, <1>2, <1>4, <1>5, <2>1, <3>2, QueueTyped DEF TokensSettle
      <3>3. QED
        BY <1>4, <3>1, <3>2, QueueTyped
    <2>5. QED
      BY <1>1, <2>1, <2>2, <2>3, <2>4 DEF TokensSettle
  <1>12. WatermarkHonest'
    <2>1. \A i \in 1..Len(queue') : i \in 1..Len(queue) \/ i = Len(queue) + 1
      BY <1>4, QueueTyped
    <2>2. QED
      BY <1>1, <1>4, <1>5, <2>1 DEF HarnessInv, WatermarkHonest, WatermarkIsStored,
                                    WatermarkIsOfEpoch
  <1>13. QED
    BY <1>6, <1>7, <1>8, <1>9, <1>10, <1>11, <1>12 DEF HarnessInv

\* The thread is dead: the job comes back, its token settles and its slot is free.
LEMMA SendFailsKeepsInv ==
    ASSUME HarnessInv, SendFails, lpc = "offer", UNCHANGED <<loopVars, stateVars>>
    PROVE  HarnessInv'
  <1> USE DEF cellVars, threadVars, loopVars, stateVars
  <1>1. /\ apc = "send" /\ fpc = "dead" /\ made' = made + 1
        /\ settled' = [settled EXCEPT ![made + 1] = IF @ = "none" THEN "closed" ELSE @]
        /\ available' = available + 1 /\ apc' = "lost"
        /\ UNCHANGED <<stored, pending, job, fpc, resetAt, closed, queue, epoch, watermark,
                       poisoned>>
    BY DEF SendFails, Settle
  <1>2. made + 1 \in Data /\ job = NoJob /\ settled \in [Data -> {"none", "ok", "failed", "closed"}]
    BY <1>1 DEF HarnessInv, FlusherControl, FlusherTypeOK
  <1>3. settled[made + 1] = "none"
    BY <1>2, QueueTyped DEF HarnessInv, TokensSettle
  <1>4. /\ settled' \in [Data -> {"none", "ok", "failed", "closed"}]
        /\ settled'[made + 1] = "closed"
        /\ \A d \in Data : d # made + 1 => settled'[d] = settled[d]
    BY <1>1, <1>2, <1>3
  <1>5. FlusherControl'
    <2>1. 1..made' \subseteq Data
      BY <1>1, <1>2, NextNumber
    <2>2. resetAt' \in 0..made' /\ made' \in Data
      BY <1>1, <1>2, NextNumber
    <2>3. available' \in 0..QueueDepth
      BY <1>1, <1>2, QueueTyped DEF HarnessInv, SlotsConserved
    <2>4. QED
      BY <1>1, <1>2, <1>4, <2>1, <2>2, <2>3 DEF HarnessInv, FlusherControl, FlusherTypeOK
  <1>6. LoopControl'
    <2>1. LoopControl /\ resyncAt' \in 0..made'
      BY <1>1, <1>2, NextNumber DEF HarnessInv
    <2>2. QED
      BY <1>1, <2>1 DEF LoopControl
  <1>7. PublishedHonest'
    BY <1>1 DEF HarnessInv, PublishedHonest, PublishedIsOfThisRun
  <1>8. SlotsConserved'
    BY <1>1, <1>2, QueueTyped DEF HarnessInv, SlotsConserved
  <1>9. JobsInOrder'
    BY <1>1, <1>2, QueueTyped DEF HarnessInv, JobsInOrder
  <1>10. TokensSettle'
    <2>1. TokensSettle /\ \A i \in 1..Len(queue) : queue[i].cursor <= made
      BY DEF HarnessInv, JobsInOrder
    <2>2. stored' <= made' /\ \A d \in Data : d > made' => settled'[d] = "none"
      BY <1>1, <1>4, <2>1, DataPositive, QueueTyped DEF TokensSettle
    <2>3. ASSUME NEW d \in 1..made', settled'[d] = "none"
          PROVE  \/ job' # NoJob /\ job'.cursor = d
                 \/ \E i \in 1..Len(queue') : queue'[i].cursor = d
      <3>1. d # made + 1 /\ d \in 1..made
        BY <1>1, <1>4, <2>3, QueueTyped
      <3>2. d \in Data
        BY <3>1 DEF HarnessInv, FlusherControl
      <3>3. settled[d] = "none"
        BY <1>4, <2>3, <3>1, <3>2
      <3>4. QED
        BY <1>1, <2>1, <3>1, <3>3 DEF TokensSettle
    <2>4. \A i \in 1..Len(queue') : settled'[queue'[i].cursor] = "none"
      BY <1>1, <1>4, <2>1, QueueTyped DEF TokensSettle
    <2>5. \A d \in Data : settled'[d] = "ok" => d <= stored'
      BY <1>1, <1>4, <2>1 DEF TokensSettle
    <2>6. stored' # NoData => settled'[stored'] = "ok"
      <3>1. stored # NoData => stored \in Data /\ stored # made + 1
        BY <1>2, NextNumber
      <3>2. QED
        BY <1>1, <1>4, <2>1, <3>1 DEF TokensSettle
    <2>7. QED
      BY <1>1, <2>2, <2>3, <2>4, <2>5, <2>6 DEF TokensSettle
  <1>11. WatermarkHonest'
    BY <1>1 DEF HarnessInv, WatermarkHonest, WatermarkIsStored, WatermarkIsOfEpoch
  <1>12. QED
    BY <1>5, <1>6, <1>7, <1>8, <1>9, <1>10, <1>11 DEF HarnessInv

\* The tick after a resynchronisation resets the sink: every job under way is of
\* an earlier epoch.
LEMMA ResetKeepsInv ==
    ASSUME HarnessInv, BeginTick, resynced = TRUE
    PROVE  HarnessInv'
  <1> USE DEF cellVars, threadVars, stateVars
  <1>1. /\ lpc = "tick" /\ lpc' = "poll" /\ resynced' = FALSE
        /\ epoch' = epoch + 1 /\ watermark' = NoData /\ resetAt' = made
        /\ UNCHANGED <<stored, pending, job, fpc, apc, made, closed, queue, available, poisoned,
                       settled, requests, stop, owed, terminal, resyncAt, published>>
    BY DEF BeginTick, SinkReset
  <1>2. epoch' \in 0..MaxEpoch
    <2>1. epoch < MaxEpoch
      BY DEF HarnessInv, LoopControl
    <2>2. QED
      BY <1>1, <2>1, QueueTyped
  <1>3. FlusherControl'
    <2>1. resetAt' \in 0..made'
      BY <1>1, QueueTyped
    <2>2. QED
      BY <1>1, <1>2, <2>1 DEF HarnessInv, FlusherControl, FlusherTypeOK
  <1>4. LoopControl'
    BY <1>1 DEF HarnessInv, LoopControl
  <1>5. PublishedHonest'
    BY <1>1 DEF HarnessInv, LoopControl, PublishedHonest, PublishedIsOfThisRun
  <1>6. SlotsConserved'
    BY <1>1 DEF HarnessInv, SlotsConserved
  <1>7. JobsInOrder'
    BY <1>1, QueueTyped DEF HarnessInv, JobsInOrder
  <1>8. TokensSettle'
    BY <1>1 DEF HarnessInv, TokensSettle
  <1>9. WatermarkHonest'
    BY <1>1 DEF WatermarkHonest, WatermarkIsStored, WatermarkIsOfEpoch
  <1>10. QED
    BY <1>3, <1>4, <1>5, <1>6, <1>7, <1>8, <1>9 DEF HarnessInv

-----------------------------------------------------------------------------
(***************************************************************************)
(* The flusher thread.                                                     *)
(***************************************************************************)
\* A step of the flusher thread keeps what is said of the loop.
LEMMA LoopUntouched ==
    ASSUME HarnessInv, UNCHANGED <<loopVars, stateVars, sinkVars, epoch>>
    PROVE  LoopControl' /\ PublishedHonest'
  BY DEF HarnessInv, loopVars, stateVars, sinkVars, LoopControl, PublishedHonest,
         PublishedIsOfThisRun

\* The thread takes the oldest job of the channel.
LEMMA RecvKeepsInv ==
    ASSUME HarnessInv, Recv, UNCHANGED <<loopVars, stateVars>>
    PROVE  HarnessInv'
  <1>1. /\ fpc = "recv" /\ queue # <<>> /\ job' = Head(queue) /\ queue' = Tail(queue)
        /\ fpc' = "check"
        /\ UNCHANGED <<stored, pending, apc, made, resetAt, closed, available, epoch, watermark,
                       poisoned, settled>>
    BY DEF Recv, cellVars, sinkVars
  <1>2. /\ Len(queue) > 0 /\ job' = queue[1] /\ 1 \in 1..Len(queue)
        /\ queue' \in Seq(Job) /\ Len(queue') = Len(queue) - 1
        /\ \A i \in 1..Len(queue') : i + 1 \in 1..Len(queue) /\ queue'[i] = queue[i + 1]
    BY <1>1, QueueTyped
  <1>3. job = NoJob /\ job' \in Job /\ job'.cursor \in Data /\ job' # NoJob
    <2>1. job = NoJob
      BY <1>1 DEF HarnessInv, FlusherControl
    <2>2. job' \in Job /\ job'.cursor \in Data
      BY <1>2, QueueTyped
    <2>3. job'.cursor # 0 /\ NoJob.cursor = 0
      BY <2>2, DataPositive DEF NoJob
    <2>4. QED
      BY <2>1, <2>2, <2>3
  <1>4. FlusherControl'
    <2>1. Len(queue') <= QueueDepth
      BY <1>2, QueueTyped DEF HarnessInv, FlusherControl, FlusherTypeOK
    <2>2. QED
      BY <1>1, <1>2, <1>3, <2>1 DEF HarnessInv, FlusherControl, FlusherTypeOK
  <1>5. LoopControl' /\ PublishedHonest'
    BY <1>1, LoopUntouched DEF sinkVars
  <1>6. SlotsConserved'
    <2>1. SlotsConserved
      BY DEF HarnessInv
    <2>2. QED
      BY <1>1, <1>2, <1>3, <2>1, QueueTyped DEF SlotsConserved
  <1>7. JobsInOrder'
    <2>1. JobsInOrder
      BY DEF HarnessInv
    <2>2. \A i \in 1..Len(queue') :
             /\ queue'[i].cursor <= made' /\ queue'[i].epoch <= epoch'
             /\ queue'[i].cursor > stored'
             /\ queue'[i].epoch = epoch' => queue'[i].cursor > resetAt'
      BY <1>1, <1>2, <2>1 DEF JobsInOrder
    <2>3. ASSUME NEW i \in 1..Len(queue'), NEW k \in 1..Len(queue'), i < k
          PROVE  queue'[i].cursor < queue'[k].cursor /\ queue'[i].epoch <= queue'[k].epoch
      <3>1. i + 1 \in 1..Len(queue) /\ k + 1 \in 1..Len(queue) /\ i + 1 < k + 1
        BY <1>2, <2>3
      <3>2. QED
        BY <1>2, <2>1, <3>1 DEF JobsInOrder
    <2>4. /\ job'.cursor <= made' /\ job'.epoch <= epoch'
          /\ job'.epoch = epoch' => job'.cursor > resetAt'
          /\ \A i \in 1..Len(queue') :
               job'.cursor < queue'[i].cursor /\ job'.epoch <= queue'[i].epoch
          /\ stored' < job'.cursor
      BY <1>1, <1>2, <2>1, QueueTyped DEF JobsInOrder
    <2>5. QED
      BY <1>1, <2>2, <2>3, <2>4 DEF JobsInOrder
  <1>8. TokensSettle'
    <2>1. TokensSettle
      BY DEF HarnessInv
    <2>2. ASSUME NEW d \in 1..made', settled'[d] = "none"
          PROVE  \/ job' # NoJob /\ job'.cursor = d
                 \/ \E i \in 1..Len(queue') : queue'[i].cursor = d
      <3>1. PICK i \in 1..Len(queue) : queue[i].cursor = d
        BY <1>1, <1>3, <2>1, <2>2 DEF TokensSettle
      <3>2. CASE i = 1
        BY <1>2, <1>3, <3>1, <3>2
      <3>3. CASE i # 1
        <4>1. i - 1 \in 1..Len(queue') /\ i = (i - 1) + 1
          BY <1>2, <3>3, QueueTyped
        <4>2. QED
          BY <1>2, <3>1, <4>1
      <3>4. QED
        BY <3>2, <3>3
    <2>3. \A i \in 1..Len(queue') : settled'[queue'[i].cursor] = "none"
      BY <1>1, <1>2, <2>1 DEF TokensSettle
    <2>4. settled'[job'.cursor] = "none"
      BY <1>1, <1>2, <2>1 DEF TokensSettle
    <2>5. QED
      BY <1>1, <2>1, <2>2, <2>3, <2>4 DEF TokensSettle
  <1>9. WatermarkHonest'
    <2>1. WatermarkHonest
      BY DEF HarnessInv
    <2>2. WatermarkIsStored' /\ WatermarkIsOfEpoch'
      BY <1>1, <2>1 DEF WatermarkHonest, WatermarkIsStored, WatermarkIsOfEpoch
    <2>3. watermark' # NoData =>
             job'.epoch = epoch' /\ \A i \in 1..Len(queue') : queue'[i].epoch = epoch'
      BY <1>1, <1>2, <2>1 DEF WatermarkHonest
    <2>4. QED
      BY <2>2, <2>3 DEF WatermarkHonest
  <1>10. QED
    BY <1>4, <1>5, <1>6, <1>7, <1>8, <1>9 DEF HarnessInv

\* The steps that move the thread alone: the channel is drained, a commit begins,
\* a job of a poisoned sink is skipped.
LEMMA ThreadAloneKeepsInv ==
    ASSUME HarnessInv, RecvClosed \/ StartCommit \/ SkipJob, UNCHANGED <<loopVars, stateVars>>
    PROVE  HarnessInv'
  <1>1. /\ \/ fpc = "recv" /\ fpc' = "ended" /\ queue = <<>> /\ closed /\ pending' = pending
           \/ fpc = "check" /\ fpc' = "commit" /\ pending' = job.cursor
           \/ fpc = "check" /\ fpc' = "drop" /\ pending' = pending
        /\ UNCHANGED <<stored, job, apc, made, resetAt, closed, queue, available, epoch, watermark,
                       poisoned, settled>>
    BY DEF RecvClosed, StartCommit, SkipJob, BeginCommit, cellVars, sinkVars, sharedVars
  <1>2. FlusherControl'
    <2>1. FlusherControl
      BY DEF HarnessInv
    <2>2. pending' \in Data \cup {NoData}
      BY <1>1, <2>1, QueueTyped DEF FlusherControl, FlusherTypeOK
    <2>3. FlusherTypeOK'
      BY <1>1, <2>1, <2>2 DEF FlusherControl, FlusherTypeOK
    <2>4. closed \in BOOLEAN
      BY <2>1 DEF FlusherControl, FlusherTypeOK
    <2>5. QED
      BY <1>1, <2>1, <2>3, <2>4 DEF FlusherControl
  <1>3. LoopControl' /\ PublishedHonest'
    BY <1>1, LoopUntouched DEF sinkVars
  <1>4. SlotsConserved'
    BY <1>1 DEF HarnessInv, SlotsConserved
  <1>5. JobsInOrder'
    BY <1>1 DEF HarnessInv, JobsInOrder
  <1>6. TokensSettle'
    BY <1>1 DEF HarnessInv, TokensSettle
  <1>7. WatermarkHonest'
    BY <1>1 DEF HarnessInv, WatermarkHonest, WatermarkIsStored, WatermarkIsOfEpoch
  <1>8. QED
    BY <1>2, <1>3, <1>4, <1>5, <1>6, <1>7 DEF HarnessInv

\* A commit returns: its job is stored, and the thread has yet to say so.
LEMMA CommitOkKeepsInv ==
    ASSUME HarnessInv, CommitOk, UNCHANGED <<loopVars, stateVars>>
    PROVE  HarnessInv'
  <1>1. /\ fpc = "commit" /\ fpc' = "mark" /\ stored' = pending /\ pending' = NoData
        /\ UNCHANGED <<job, apc, made, resetAt, closed, queue, available, epoch, watermark,
                       poisoned, settled>>
    BY DEF CommitOk, CommitReturns, cellVars, sinkVars, sharedVars
  <1>2. job # NoJob /\ stored' = job.cursor /\ job.cursor \in Data
    BY <1>1, QueueTyped DEF HarnessInv, FlusherControl
  <1>3. FlusherControl'
    BY <1>1, <1>2 DEF HarnessInv, FlusherControl, FlusherTypeOK
  <1>4. LoopControl' /\ PublishedHonest'
    BY <1>1, LoopUntouched DEF sinkVars
  <1>5. SlotsConserved'
    BY <1>1 DEF HarnessInv, SlotsConserved
  <1>6. JobsInOrder'
    BY <1>1, <1>2 DEF HarnessInv, JobsInOrder
  <1>7. TokensSettle'
    <2>1. TokensSettle /\ stored < job.cursor /\ job.cursor <= made
      BY <1>1, <1>2 DEF HarnessInv, JobsInOrder
    <2>2. \A d \in Data : settled'[d] = "ok" => d <= stored'
      BY <1>1, <1>2, <2>1, QueueTyped, DataPositive DEF TokensSettle
    <2>3. QED
      BY <1>1, <1>2, <2>1, <2>2 DEF TokensSettle
  <1>8. WatermarkHonest'
    BY <1>1 DEF HarnessInv, WatermarkHonest, WatermarkIsStored, WatermarkIsOfEpoch
  <1>9. QED
    BY <1>3, <1>4, <1>5, <1>6, <1>7, <1>8 DEF HarnessInv

\* What settling one token changes.
LEMMA SettleOne ==
    ASSUME HarnessInv, NEW d \in Data, NEW outcome \in {"ok", "failed", "closed"}
    PROVE  /\ Settle(settled, d, outcome) \in [Data -> {"none", "ok", "failed", "closed"}]
           /\ Settle(settled, d, outcome)[d] # "none"
           /\ settled[d] = "none" => Settle(settled, d, outcome)[d] = outcome
           /\ settled[d] # "none" => Settle(settled, d, outcome)[d] = settled[d]
           /\ \A e \in Data : e # d => Settle(settled, d, outcome)[e] = settled[e]
  <1>1. settled \in [Data -> {"none", "ok", "failed", "closed"}]
    BY DEF HarnessInv, FlusherControl, FlusherTypeOK
  <1>2. QED
    BY <1>1 DEF Settle

\* A commit fails: the sink is poisoned and the job's token says so.
LEMMA CommitErrKeepsInv ==
    ASSUME HarnessInv, CommitErr, UNCHANGED <<loopVars, stateVars>>
    PROVE  HarnessInv'
  <1>1. /\ fpc = "commit" /\ fpc' = "drop" /\ poisoned' = TRUE
        /\ settled' = Settle(settled, job.cursor, "failed")
        /\ UNCHANGED <<stored, pending, job, apc, made, resetAt, closed, queue, available, epoch,
                       watermark>>
    BY DEF CommitErr, cellVars, sinkVars
  <1>2. job # NoJob /\ job.cursor \in Data /\ settled[job.cursor] = "none" /\ TokensSettle
    BY <1>1, QueueTyped DEF HarnessInv, FlusherControl, TokensSettle
  <1>3. /\ settled' \in [Data -> {"none", "ok", "failed", "closed"}]
        /\ settled'[job.cursor] = "failed"
        /\ \A e \in Data : e # job.cursor => settled'[e] = settled[e]
    BY <1>1, <1>2, SettleOne
  <1>4. FlusherControl'
    BY <1>1, <1>3 DEF HarnessInv, FlusherControl, FlusherTypeOK
  <1>5. LoopControl' /\ PublishedHonest'
    BY <1>1, LoopUntouched DEF sinkVars
  <1>6. SlotsConserved'
    BY <1>1 DEF HarnessInv, SlotsConserved
  <1>7. JobsInOrder'
    BY <1>1 DEF HarnessInv, JobsInOrder
  <1>8. TokensSettle'
    <2>1. /\ stored < job.cursor /\ job.cursor <= made /\ 1..made \subseteq Data
          /\ \A i \in 1..Len(queue) : job.cursor < queue[i].cursor
      BY <1>1, <1>2 DEF HarnessInv, FlusherControl, JobsInOrder
    <2>2. ASSUME NEW d \in Data, d > made'
          PROVE  settled'[d] = "none"
      <3>1. d # job.cursor
        BY <1>1, <1>2, <2>1, <2>2, QueueTyped
      <3>2. QED
        BY <1>1, <1>2, <1>3, <2>2, <3>1 DEF TokensSettle
    <2>3. ASSUME NEW d \in 1..made', settled'[d] = "none"
          PROVE  \E i \in 1..Len(queue') : queue'[i].cursor = d
      BY <1>1, <1>2, <1>3, <2>1, <2>3 DEF TokensSettle
    <2>4. \A i \in 1..Len(queue') : settled'[queue'[i].cursor] = "none"
      BY <1>1, <1>2, <1>3, <2>1, QueueTyped DEF TokensSettle
    <2>5. \A d \in Data : settled'[d] = "ok" => d <= stored'
      BY <1>1, <1>2, <1>3 DEF TokensSettle
    <2>6. stored' # NoData => settled'[stored'] = "ok"
      <3>1. stored # NoData => stored \in Data /\ stored # job.cursor
        BY <1>2, <2>1, QueueTyped DEF HarnessInv, FlusherControl, FlusherTypeOK
      <3>2. QED
        BY <1>1, <1>2, <1>3, <3>1 DEF TokensSettle
    <2>7. QED
      BY <1>1, <1>2, <2>2, <2>3, <2>4, <2>5, <2>6 DEF TokensSettle
  <1>9. WatermarkHonest'
    BY <1>1 DEF HarnessInv, WatermarkHonest, WatermarkIsStored, WatermarkIsOfEpoch
  <1>10. QED
    BY <1>4, <1>5, <1>6, <1>7, <1>8, <1>9 DEF HarnessInv

\* The committed job moves the watermark if its epoch is the present one; if it is
\* not, there is no watermark to move.
LEMMA MarkKeepsInv ==
    ASSUME HarnessInv, Mark, UNCHANGED <<loopVars, stateVars>>
    PROVE  HarnessInv'
  <1>1. /\ fpc = "mark" /\ fpc' = "drop"
        /\ watermark' = IF epoch = job.epoch THEN stored ELSE watermark
        /\ settled' = Settle(settled, job.cursor, "ok")
        /\ UNCHANGED <<stored, pending, job, apc, made, resetAt, closed, queue, available, epoch,
                       poisoned>>
    BY DEF Mark, cellVars, sinkVars
  <1>2. /\ job # NoJob /\ job.cursor \in Data /\ settled[job.cursor] = "none" /\ TokensSettle
        /\ stored = job.cursor
    BY <1>1, QueueTyped DEF HarnessInv, FlusherControl, TokensSettle, JobsInOrder
  <1>3. /\ settled' \in [Data -> {"none", "ok", "failed", "closed"}]
        /\ settled'[job.cursor] = "ok"
        /\ \A e \in Data : e # job.cursor => settled'[e] = settled[e]
    BY <1>1, <1>2, SettleOne
  <1>4. FlusherControl'
    <2>1. FlusherControl
      BY DEF HarnessInv
    <2>2. watermark' \in Data \cup {NoData}
      BY <1>1, <2>1 DEF FlusherControl, FlusherTypeOK
    <2>3. FlusherTypeOK'
      BY <1>1, <1>3, <2>1, <2>2 DEF FlusherControl, FlusherTypeOK
    <2>4. QED
      BY <1>1, <2>1, <2>3 DEF FlusherControl
  <1>5. LoopControl' /\ PublishedHonest'
    BY <1>1, LoopUntouched DEF sinkVars
  <1>6. SlotsConserved'
    BY <1>1 DEF HarnessInv, SlotsConserved
  <1>7. JobsInOrder'
    BY <1>1 DEF HarnessInv, JobsInOrder
  <1>8. TokensSettle'
    <2>1. /\ job.cursor <= made /\ 1..made \subseteq Data
          /\ \A i \in 1..Len(queue) : job.cursor < queue[i].cursor
      BY <1>1, <1>2 DEF HarnessInv, FlusherControl, JobsInOrder
    <2>2. ASSUME NEW d \in Data, d > made'
          PROVE  settled'[d] = "none"
      <3>1. d # job.cursor
        BY <1>1, <1>2, <2>1, <2>2, QueueTyped
      <3>2. QED
        BY <1>1, <1>2, <1>3, <2>2, <3>1 DEF TokensSettle
    <2>3. ASSUME NEW d \in 1..made', settled'[d] = "none"
          PROVE  \E i \in 1..Len(queue') : queue'[i].cursor = d
      BY <1>1, <1>2, <1>3, <2>1, <2>3 DEF TokensSettle
    <2>4. \A i \in 1..Len(queue') : settled'[queue'[i].cursor] = "none"
      BY <1>1, <1>2, <1>3, <2>1, QueueTyped DEF TokensSettle
    <2>5. ASSUME NEW d \in Data, settled'[d] = "ok"
          PROVE  d <= stored'
      <3>1. CASE d = job.cursor
        BY <1>1, <1>2, <3>1, QueueTyped
      <3>2. CASE d # job.cursor
        BY <1>1, <1>2, <1>3, <2>5, <3>2 DEF TokensSettle
      <3>3. QED
        BY <3>1, <3>2
    <2>6. QED
      BY <1>1, <1>2, <1>3, <2>2, <2>3, <2>4, <2>5 DEF TokensSettle
  <1>9. WatermarkHonest'
    <2>1. WatermarkHonest /\ JobsInOrder
      BY DEF HarnessInv
    <2>2. CASE epoch = job.epoch
      <3>1. /\ watermark' = stored /\ stored > resetAt
            /\ \A i \in 1..Len(queue) : queue[i].epoch = epoch
        BY <1>1, <1>2, <2>1, <2>2, QueueTyped DEF JobsInOrder
      <3>2. QED
        BY <1>1, <2>2, <3>1 DEF WatermarkHonest, WatermarkIsStored, WatermarkIsOfEpoch
    <2>3. CASE epoch # job.epoch
      <3>1. watermark' = NoData
        BY <1>1, <1>2, <2>1, <2>3 DEF WatermarkHonest
      <3>2. QED
        BY <3>1 DEF WatermarkHonest, WatermarkIsStored, WatermarkIsOfEpoch
    <2>4. QED
      BY <2>2, <2>3
  <1>10. QED
    BY <1>4, <1>5, <1>6, <1>7, <1>8, <1>9 DEF HarnessInv

\* The job is dropped: its token settles, if nothing has settled it, and its slot
\* is free.
LEMMA DropJobKeepsInv ==
    ASSUME HarnessInv, DropJob, UNCHANGED <<loopVars, stateVars>>
    PROVE  HarnessInv'
  <1>1. /\ fpc = "drop" /\ fpc' = "recv" /\ job' = NoJob /\ available' = available + 1
        /\ settled' = Settle(settled, job.cursor, "closed")
        /\ UNCHANGED <<stored, pending, apc, made, resetAt, closed, queue, epoch, watermark,
                       poisoned>>
    BY DEF DropJob, cellVars, sinkVars
  <1>2. job # NoJob /\ job.cursor \in Data /\ TokensSettle
    BY <1>1, QueueTyped DEF HarnessInv, FlusherControl
  <1>3. /\ settled' \in [Data -> {"none", "ok", "failed", "closed"}]
        /\ settled'[job.cursor] # "none"
        /\ settled'[job.cursor] \in {"closed", settled[job.cursor]}
        /\ settled[job.cursor] = "ok" => settled'[job.cursor] = "ok"
        /\ \A e \in Data : e # job.cursor => settled'[e] = settled[e]
    <2>1. settled[job.cursor] = "none" \/ settled[job.cursor] # "none"
      OBVIOUS
    <2>2. QED
      BY <1>1, <1>2, <2>1, SettleOne
  <1>4. SlotsConserved'
    BY <1>1, <1>2, QueueTyped DEF HarnessInv, SlotsConserved
  <1>5. FlusherControl'
    <2>1. available' \in 0..QueueDepth
      BY <1>1, <1>2, QueueTyped DEF HarnessInv, SlotsConserved
    <2>2. QED
      BY <1>1, <1>3, <2>1 DEF HarnessInv, FlusherControl, FlusherTypeOK
  <1>6. LoopControl' /\ PublishedHonest'
    BY <1>1, LoopUntouched DEF sinkVars
  <1>7. JobsInOrder'
    BY <1>1 DEF HarnessInv, JobsInOrder
  <1>8. TokensSettle'
    <2>1. /\ job.cursor <= made /\ 1..made \subseteq Data
          /\ \A i \in 1..Len(queue) : job.cursor < queue[i].cursor
      BY <1>1, <1>2 DEF HarnessInv, FlusherControl, JobsInOrder
    <2>2. ASSUME NEW d \in Data, d > made'
          PROVE  settled'[d] = "none"
      <3>1. d # job.cursor
        BY <1>1, <1>2, <2>1, <2>2, QueueTyped
      <3>2. QED
        BY <1>1, <1>2, <1>3, <2>2, <3>1 DEF TokensSettle
    <2>3. ASSUME NEW d \in 1..made', settled'[d] = "none"
          PROVE  \E i \in 1..Len(queue') : queue'[i].cursor = d
      BY <1>1, <1>2, <1>3, <2>1, <2>3 DEF TokensSettle
    <2>4. \A i \in 1..Len(queue') : settled'[queue'[i].cursor] = "none"
      BY <1>1, <1>2, <1>3, <2>1, QueueTyped DEF TokensSettle
    <2>5. \A d \in Data : settled'[d] = "ok" => d <= stored'
      BY <1>1, <1>2, <1>3 DEF TokensSettle
    <2>6. stored' # NoData => settled'[stored'] = "ok"
      <3>1. stored # NoData => stored \in Data
        BY DEF HarnessInv, FlusherControl, FlusherTypeOK
      <3>2. QED
        BY <1>1, <1>2, <1>3, <3>1 DEF TokensSettle
    <2>7. QED
      BY <1>1, <1>2, <2>2, <2>3, <2>4, <2>5, <2>6 DEF TokensSettle
  <1>9. WatermarkHonest'
    BY <1>1 DEF HarnessInv, WatermarkHonest, WatermarkIsStored, WatermarkIsOfEpoch
  <1>10. QED
    BY <1>4, <1>5, <1>6, <1>7, <1>8, <1>9 DEF HarnessInv

\* A panic in the commit drops the job at hand and those in the channel: each token
\* settles, each slot is free.
LEMMA ThreadDiesKeepsInv ==
    ASSUME HarnessInv, ThreadDies, UNCHANGED <<loopVars, stateVars>>
    PROVE  HarnessInv'
  <1> DEFINE dropped(d) == d = job.cursor \/ \E i \in 1..Len(queue) : queue[i].cursor = d
  <1>1. /\ fpc = "commit" /\ fpc' = "dead" /\ job' = NoJob /\ queue' = <<>>
        /\ available' = available + 1 + Len(queue)
        /\ UNCHANGED <<stored, pending, apc, made, resetAt, closed, epoch, watermark, poisoned>>
    BY DEF ThreadDies, cellVars, sinkVars
  <1>2. job # NoJob /\ job.cursor \in Data /\ TokensSettle
    BY <1>1, QueueTyped DEF HarnessInv, FlusherControl
  <1>3. Len(queue') = 0 /\ queue' \in Seq(Job)
    BY <1>1
  <1>4. settled' = [d \in Data |-> IF dropped(d) THEN "closed" ELSE settled[d]]
    <2>1. DOMAIN queue = 1..Len(queue)
      BY QueueTyped
    <2>2. QED
      BY <2>1 DEF ThreadDies
  <1>5. /\ settled' \in [Data -> {"none", "ok", "failed", "closed"}]
        /\ \A d \in Data : dropped(d) => settled'[d] = "closed"
        /\ \A d \in Data : ~dropped(d) => settled'[d] = settled[d]
    <2>1. settled \in [Data -> {"none", "ok", "failed", "closed"}]
      BY DEF HarnessInv, FlusherControl, FlusherTypeOK
    <2> HIDE DEF dropped
    <2>2. QED
      BY <1>4, <2>1
  <1>6. SlotsConserved'
    BY <1>1, <1>2, <1>3, QueueTyped DEF HarnessInv, SlotsConserved
  <1>7. FlusherControl'
    <2>1. available' \in 0..QueueDepth
      BY <1>1, <1>2, QueueTyped DEF HarnessInv, SlotsConserved
    <2>2. QED
      BY <1>1, <1>3, <1>5, <2>1 DEF HarnessInv, FlusherControl, FlusherTypeOK
  <1>8. LoopControl' /\ PublishedHonest'
    BY <1>1, LoopUntouched DEF sinkVars
  <1>9. JobsInOrder'
    BY <1>1, <1>3 DEF JobsInOrder
  <1>10. TokensSettle'
    <2>1. /\ stored < job.cursor /\ job.cursor <= made /\ 1..made \subseteq Data
          /\ \A i \in 1..Len(queue) : queue[i].cursor > stored /\ queue[i].cursor <= made
      BY <1>1, <1>2 DEF HarnessInv, FlusherControl, JobsInOrder
    <2>2. ASSUME NEW d \in Data, d > made'
          PROVE  settled'[d] = "none"
      <3>1. ~dropped(d)
        BY <1>1, <1>2, <2>1, <2>2, QueueTyped
      <3>2. QED
        BY <1>1, <1>2, <1>5, <2>2, <3>1 DEF TokensSettle
    <2>3. ASSUME NEW d \in 1..made', settled'[d] = "none"
          PROVE  FALSE
      <3>1. d \in 1..made /\ d \in Data
        BY <1>1, <2>1
      <3>2. ~dropped(d) /\ settled[d] = "none"
        BY <1>5, <2>3, <3>1
      <3>3. QED
        BY <1>2, <3>1, <3>2 DEF TokensSettle
    <2>4. \A d \in Data : settled'[d] = "ok" => d <= stored'
      BY <1>1, <1>2, <1>5 DEF TokensSettle
    <2>5. stored' # NoData => settled'[stored'] = "ok"
      <3>1. stored # NoData => stored \in Data
        BY DEF HarnessInv, FlusherControl, FlusherTypeOK
      <3>2. ~dropped(stored)
        BY <1>2, <2>1, QueueTyped
      <3>3. QED
        BY <1>1, <1>2, <1>5, <3>1, <3>2 DEF TokensSettle
    <2>6. QED
      BY <1>1, <1>2, <1>3, <2>2, <2>3, <2>4, <2>5 DEF TokensSettle
  <1>11. WatermarkHonest'
    BY <1>1, <1>3 DEF HarnessInv, WatermarkHonest, WatermarkIsStored, WatermarkIsOfEpoch
  <1>12. QED
    BY <1>6, <1>7, <1>8, <1>9, <1>10, <1>11 DEF HarnessInv

-----------------------------------------------------------------------------
(***************************************************************************)
(* The theorems.                                                           *)
(***************************************************************************)
\* Flusher::spawn over a recovered snapshot, or none, and a loop that has not run.
LEMMA InitEstablishesInv ==
    ASSUME Init
    PROVE  HarnessInv
  <1>1. /\ stored \in Data \cup {NoData} /\ stored \in {NoData, 1} /\ pending = NoData
        /\ queue = <<>> /\ available = QueueDepth /\ epoch = 0 /\ watermark = stored
        /\ poisoned = FALSE /\ job = NoJob /\ fpc = "recv" /\ apc = "free" /\ made = stored
        /\ resetAt = 0 /\ closed = FALSE
        /\ settled = [d \in Data |-> IF d = stored THEN "ok" ELSE "none"]
        /\ requests = 0 /\ stop = FALSE /\ owed = 0 /\ lpc = "take" /\ terminal = FALSE
        /\ resynced = FALSE /\ resyncAt = 0 /\ published = Status
    BY DEF Init, FlusherInit, CellInit
  <1>2. queue \in Seq(Job) /\ Len(queue) = 0 /\ made \in Nat
    BY <1>1
  <1>3. FlusherControl
    <2>1. 1..made \subseteq Data /\ resetAt \in 0..made
      BY <1>1
    <2>2. settled \in [Data -> {"none", "ok", "failed", "closed"}]
      BY <1>1
    <2>3. poisoned \in BOOLEAN /\ closed \in BOOLEAN
      BY <1>1
    <2>4. FlusherTypeOK
      <3>1. /\ available \in 0..QueueDepth /\ epoch \in 0..MaxEpoch /\ Len(queue) <= QueueDepth
            /\ watermark \in Data \cup {NoData} /\ made \in Data \cup {NoData}
            /\ job \in Job \cup {NoJob} /\ pending \in Data \cup {NoData}
        BY <1>1, <1>2
      <3>2. QED
        BY <1>1, <1>2, <2>1, <2>2, <2>3, <3>1 DEF FlusherTypeOK
    <2>5. QED
      BY <1>1, <1>2, <2>1, <2>4 DEF FlusherControl
  <1>4. LoopControl
    <2>1. published \in [terminal : BOOLEAN, durable : Data \cup {NoData}]
      BY <1>1 DEF Status
    <2>2. /\ stop \in BOOLEAN /\ terminal \in BOOLEAN /\ resynced \in BOOLEAN
          /\ resynced = FALSE /\ closed = FALSE
      BY <1>1
    <2>3. /\ requests \in 0..MaxRequests /\ owed \in 0..(MaxRequests + 1) /\ owed <= MaxRequests
          /\ resyncAt \in 0..made
      BY <1>1, <1>2
    <2>4. lpc = "take" /\ apc = "free"
      BY <1>1
    <2>5. QED
      BY <2>1, <2>2, <2>3, <2>4 DEF LoopControl
  <1>5. SlotsConserved
    BY <1>1, <1>2 DEF SlotsConserved
  <1>6. JobsInOrder
    BY <1>1, <1>2 DEF JobsInOrder
  <1>7. TokensSettle
    <2>1. \A d \in Data : d \in Nat
      BY DataPositive
    <2>2. \A d \in Data : settled[d] = IF d = stored THEN "ok" ELSE "none"
      BY <1>1
    <2>3. ASSUME NEW d \in Data
          PROVE  (d > made => settled[d] = "none") /\ (settled[d] = "ok" => d <= stored)
      <3>1. CASE d = stored
        BY <1>1, <1>2, <3>1
      <3>2. CASE d # stored
        BY <2>2, <3>2
      <3>3. QED
        BY <3>1, <3>2
    <2>4. stored # NoData => settled[stored] = "ok"
      <3>1. stored # NoData => stored \in Data
        BY <1>1
      <3>2. QED
        BY <2>2, <3>1
    <2>5. ASSUME NEW d \in 1..made
          PROVE  settled[d] = "ok"
      <3>1. d = stored /\ stored # NoData
        BY <1>1
      <3>2. QED
        BY <2>4, <3>1
    <2>6. stored <= made /\ fpc = "recv" /\ Len(queue) = 0
      BY <1>1, <1>2
    <2>7. QED
      BY <2>3, <2>4, <2>5, <2>6 DEF TokensSettle
  <1>8. WatermarkHonest /\ PublishedHonest
    BY <1>1, <1>2 DEF WatermarkHonest, WatermarkIsStored, WatermarkIsOfEpoch, PublishedHonest,
                      PublishedIsOfThisRun
  <1>9. QED
    BY <1>3, <1>4, <1>5, <1>6, <1>7, <1>8 DEF HarnessInv

\* Every step of the loop, of the flusher thread and of the callers keeps the
\* invariant.
LEMMA NextKeepsInv ==
    ASSUME HarnessInv, [Next]_vars
    PROVE  HarnessInv'
  <1>1. CASE UNCHANGED vars
    <2>1. UNCHANGED flusherVars /\ UNCHANGED <<loopVars, stateVars, sinkVars, epoch>>
      BY <1>1 DEF vars, flusherVars, sharedVars
    <2>2. QED
      BY <2>1, FlusherUntouched, LoopUntouched DEF HarnessInv
  <1>2. CASE LoopSteps \/ LoopChoices
    <2>1. CASE OfferRuns
      BY <2>1, AcquireKeepsInv, SendKeepsInv, SendFailsKeepsInv DEF OfferRuns
    <2>2. CASE OfferReturns
      BY <2>2, OfferReturnsKeepsInv
    <2>3. CASE TickOffers
      BY <2>3, OfferBeginsKeepsInv
    <2>4. CASE BeginTick
      <3>1. resynced \in BOOLEAN
        BY DEF HarnessInv, LoopControl
      <3>2. CASE resynced = TRUE
        BY <2>4, <3>2, ResetKeepsInv
      <3>3. CASE resynced = FALSE
        <4>1. UNCHANGED flusherVars
          BY <2>4, <3>3 DEF BeginTick
        <4>2. QED
          BY <2>4, <3>3, <4>1, LoopAloneKeepsInv
      <3>4. QED
        BY <3>1, <3>2, <3>3
    <2>5. CASE \/ TakeRequests \/ TickEnds \/ Publish \/ ReadStop \/ LockAndWait \/ Wakes
               \/ TickResyncs \/ TickTerminates \/ TickPanics \/ TimesOut
      <3>1. UNCHANGED flusherVars
        BY <2>5 DEF TakeRequests, TickEnds, Publish, ReadStop, LockAndWait, Wakes, TickResyncs,
                    TickTerminates, TickPanics, TimesOut
      <3>2. QED
        BY <2>5, <3>1, LoopAloneKeepsInv
    <2>6. QED
      BY <1>2, <2>1, <2>2, <2>3, <2>4, <2>5 DEF LoopSteps, LoopChoices
  <1>3. CASE FlusherThread
    BY <1>3, RecvKeepsInv, ThreadAloneKeepsInv, CommitOkKeepsInv, CommitErrKeepsInv, MarkKeepsInv,
       DropJobKeepsInv, ThreadDiesKeepsInv DEF FlusherThread, ThreadSteps
  <1>4. CASE Caller
    BY <1>4, CallersKeepInv, JoinKeepsInv DEF Caller
  <1>5. CASE Finished
    <2>1. UNCHANGED vars
      BY <1>5 DEF Finished
    <2>2. QED
      BY <1>1, <2>1
  <1>6. QED
    BY <1>1, <1>2, <1>3, <1>4, <1>5 DEF Next

\* Whatever the loop, the flusher thread and the callers do, the invariant holds.
THEOREM InvIsInductive == Spec => []HarnessInv
  <1>1. Init => HarnessInv
    BY InitEstablishesInv
  <1>2. HarnessInv /\ [Next]_vars => HarnessInv'
    BY NextKeepsInv
  <1>3. QED
    BY <1>1, <1>2, PTL DEF Spec

\* The values each variable takes.
THEOREM TypeCorrect == Spec => []TypeOK
  <1>1. HarnessInv => TypeOK
    BY DEF HarnessInv, FlusherControl, LoopControl, TypeOK
  <1>2. QED
    BY <1>1, InvIsInductive, PTL

\* No slot of the queue is lost, whether a commit fails, a job is skipped or the
\* thread dies, so a send never waits for room in the channel.
THEOREM SlotsAreConserved == Spec => []SlotsConserved
  <1>1. HarnessInv => SlotsConserved
    BY DEF HarnessInv
  <1>2. QED
    BY <1>1, InvIsInductive, PTL

\* The durable cursor is what a reopen recovers, but between a commit and its mark.
THEOREM WatermarkStored == Spec => []WatermarkIsStored
  <1>1. HarnessInv => WatermarkIsStored
    BY DEF HarnessInv, WatermarkHonest
  <1>2. QED
    BY <1>1, InvIsInductive, PTL

\* No job queued before a reset moves the durable cursor after it.
THEOREM WatermarkOfEpoch == Spec => []WatermarkIsOfEpoch
  <1>1. HarnessInv => WatermarkIsOfEpoch
    BY DEF HarnessInv, WatermarkHonest
  <1>2. QED
    BY <1>1, InvIsInductive, PTL

\* A thread that has ended has given every job its outcome, and the store holds the
\* newest of those it committed.
THEOREM JoinHasDrained == Spec => []JoinDrains
  <1>1. ASSUME HarnessInv PROVE JoinDrains
    <2>1. ASSUME fpc = "ended", NEW d \in 1..made
          PROVE  settled[d] # "none" /\ (settled[d] = "ok" => d <= stored)
      <3>1. Len(queue) = 0 /\ job = NoJob /\ d \in Data /\ TokensSettle
        BY <1>1, <2>1 DEF HarnessInv, FlusherControl
      <3>2. QED
        BY <2>1, <3>1 DEF TokensSettle
    <2>2. fpc = "ended" /\ stored # NoData => settled[stored] = "ok"
      BY <1>1 DEF HarnessInv, TokensSettle
    <2>3. QED
      BY <2>1, <2>2 DEF JoinDrains
  <1>2. QED
    BY <1>1, InvIsInductive, PTL

\* A published durable cursor was offered after the engine's last reset.
THEOREM PublishedOfThisRun == Spec => []PublishedIsOfThisRun
  <1>1. HarnessInv => PublishedIsOfThisRun
    BY DEF HarnessInv, PublishedHonest
  <1>2. QED
    BY <1>1, InvIsInductive, PTL
=============================================================================
