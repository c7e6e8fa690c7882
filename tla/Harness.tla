------------------------------ MODULE Harness -------------------------------
(***************************************************************************)
(* The loop thread that owns a driver, its handle and the flusher behind   *)
(* the driver's sink (crates/chainfold/src/harness.rs), composed with      *)
(* Flusher, whose apply thread the loop is.                                *)
(*                                                                         *)
(* What is abstracted: a tick folds nothing here; it offers a snapshot,    *)
(* resynchronises, ends terminal, panics or does none of it, and asks for  *)
(* a delay or for none.  The waits of the handle read published alone.     *)
(***************************************************************************)
EXTENDS Flusher

CONSTANT MaxRequests  \* checkpoint requests pending at most

ASSUME HarnessAssumption == MaxRequests \in Nat

VARIABLES
    requests,    \* HarnessState::checkpoint_requests
    stop,        \* HarnessState::stop
    owed,        \* callers that set a signal and have yet to notify
    lpc,         \* the loop thread
    asked,       \* a checkpoint was requested before this tick
    notified,    \* the waiting loop has been notified
    delay,       \* the last tick asked for a delay
    terminal,    \* the engine is no longer Active
    resynced,    \* the engine was reset and the sink has not been told
    resyncAt,    \* the last job offered before the last reset of the engine
    lost,        \* the driver's durability_lost
    published    \* the status in the watch: terminal and durable cursor

loopVars == <<lpc, asked, delay, terminal, resynced, resyncAt, lost, published>>
stateVars == <<requests, stop, owed, notified>>
vars == <<flusherVars, loopVars, stateVars>>

\* A faulty status that shows the watermark of a run the engine has left.
StatusUnmasked == [terminal |-> terminal, durable |-> watermark]

\* Driver::status.
Status == [terminal |-> terminal, durable |-> IF resynced THEN NoData ELSE watermark]

Init ==
    /\ FlusherInit
    /\ requests = 0 /\ stop = FALSE /\ owed = 0
    /\ lpc = "take" /\ asked = FALSE /\ notified = FALSE /\ delay = FALSE
    /\ terminal = FALSE /\ resynced = FALSE /\ resyncAt = 0 /\ lost = FALSE
    /\ published = Status

-----------------------------------------------------------------------------
(***************************************************************************)
(* The loop thread.                                                        *)
(***************************************************************************)
TakeRequests ==
    /\ lpc = "take"
    /\ requests' = 0
    /\ asked' = (requests > 0)
    /\ lpc' = "tick"
    /\ UNCHANGED <<flusherVars, stop, owed, notified, delay, terminal, resynced, resyncAt,
                   lost, published>>

\* The requests coalesce into one checkpoint; a tick first tells the sink of a reset.
BeginTick ==
    /\ lpc = "tick"
    /\ asked' = FALSE
    /\ IF resynced
       THEN SinkReset /\ resynced' = FALSE
       ELSE UNCHANGED <<flusherVars, resynced>>
    /\ lpc' = "poll"
    /\ UNCHANGED <<stateVars, delay, terminal, resyncAt, lost, published>>

TickEnds ==
    /\ lpc = "poll"
    /\ delay' \in BOOLEAN
    /\ lpc' = "publish"
    /\ UNCHANGED <<flusherVars, stateVars, asked, terminal, resynced, resyncAt, lost, published>>

TickOffers ==
    /\ lpc = "poll" /\ ~lost
    /\ made + 1 \in Data
    /\ OfferAdmitted \/ OfferPoisoned
    /\ delay' \in BOOLEAN
    /\ lpc' = "offer"
    /\ UNCHANGED <<stateVars, asked, terminal, resynced, resyncAt, lost, published>>

OfferRuns ==
    /\ lpc = "offer"
    /\ Acquire \/ Send \/ SendFails
    /\ UNCHANGED <<loopVars, stateVars>>

OfferReturns ==
    /\ lpc = "offer" /\ apc \in {"free", "lost"}
    /\ lost' = (apc = "lost")
    /\ apc' = "free"
    /\ lpc' = "publish"
    /\ UNCHANGED <<cellVars, threadVars, made, resetAt, closed, sharedVars, stateVars,
                   asked, delay, terminal, resynced, resyncAt, published>>

\* The engine is reset; the sink hears of it in the next tick.
TickResyncs ==
    /\ lpc = "poll"
    /\ epoch < MaxEpoch
    /\ resynced' = TRUE
    /\ resyncAt' = made
    /\ delay' = TRUE
    /\ lpc' = "publish"
    /\ UNCHANGED <<flusherVars, stateVars, asked, terminal, lost, published>>

\* The engine stops, or the fold panics and leaves it Poisoned.
TickTerminates ==
    /\ lpc = "poll"
    /\ terminal' = TRUE
    /\ lpc' = "publish"
    /\ UNCHANGED <<flusherVars, stateVars, asked, delay, resynced, resyncAt, lost, published>>

\* A panic that is not the fold's: the status is published and the panic goes on.
TickPanics ==
    /\ lpc = "poll"
    /\ published' = Status
    /\ lpc' = "panicked"
    /\ UNCHANGED <<flusherVars, stateVars, asked, delay, terminal, resynced, resyncAt, lost>>

Publish ==
    /\ lpc = "publish"
    /\ published' = Status
    /\ lpc' = "stop"
    /\ UNCHANGED <<flusherVars, stateVars, asked, delay, terminal, resynced, resyncAt, lost>>

ReadStop ==
    /\ lpc = "stop"
    /\ lpc' = IF terminal \/ stop THEN "ended" ELSE "lock"
    /\ UNCHANGED <<flusherVars, stateVars, asked, delay, terminal, resynced, resyncAt, lost,
                   published>>

\* A faulty wait that does not look at the requests before it sleeps.
SignalledByStop == stop

\* What the wait checks under the lock.
Signalled == stop \/ requests > 0

\* Under the lock: stop, go on at once, or wait.
LockAndWait ==
    /\ lpc = "lock"
    /\ lpc' = IF stop THEN "ended" ELSE IF ~delay \/ Signalled THEN "take" ELSE "waiting"
    /\ notified' = FALSE
    /\ UNCHANGED <<flusherVars, requests, stop, owed, asked, delay, terminal, resynced,
                   resyncAt, lost, published>>

\* A notified loop checks again: it goes on waiting when nothing was signalled.
Wakes ==
    /\ lpc = "waiting" /\ notified
    /\ notified' = FALSE
    /\ lpc' = IF Signalled THEN "take" ELSE "waiting"
    /\ UNCHANGED <<flusherVars, requests, stop, owed, asked, delay, terminal, resynced,
                   resyncAt, lost, published>>

TimesOut ==
    /\ lpc = "waiting"
    /\ lpc' = "take"
    /\ UNCHANGED <<flusherVars, stateVars, asked, delay, terminal, resynced, resyncAt, lost,
                   published>>

\* The caller of shutdown takes the driver apart and joins its flusher, or the
\* panic drops them.
JoinFlusher ==
    /\ lpc \in {"ended", "panicked"}
    /\ Join
    /\ UNCHANGED <<loopVars, stateVars>>

-----------------------------------------------------------------------------
(***************************************************************************)
(* The handle: a signal is set under the lock and notified after it.       *)
(***************************************************************************)
RequestCheckpoint ==
    /\ ~stop /\ requests < MaxRequests /\ owed < MaxRequests
    /\ requests' = requests + 1
    /\ owed' = owed + 1
    /\ UNCHANGED <<flusherVars, loopVars, stop, notified>>

\* A faulty shutdown that does not notify the loop.
ShutdownSilent ==
    /\ ~stop
    /\ stop' = TRUE
    /\ UNCHANGED <<flusherVars, loopVars, requests, owed, notified>>

Shutdown ==
    /\ ~stop
    /\ stop' = TRUE
    /\ owed' = owed + 1
    /\ UNCHANGED <<flusherVars, loopVars, requests, notified>>

NotifyAll ==
    /\ owed > 0
    /\ owed' = owed - 1
    /\ notified' = (notified \/ lpc = "waiting")
    /\ UNCHANGED <<flusherVars, loopVars, requests, stop>>

-----------------------------------------------------------------------------
LoopSteps ==
    \/ TakeRequests \/ BeginTick \/ TickEnds \/ OfferRuns \/ OfferReturns \/ Publish
    \/ ReadStop \/ LockAndWait \/ Wakes

LoopChoices == TickOffers \/ TickResyncs \/ TickTerminates \/ TickPanics \/ TimesOut

FlusherThread == (ThreadSteps \/ ThreadDies) /\ UNCHANGED <<loopVars, stateVars>>

Caller == RequestCheckpoint \/ Shutdown \/ NotifyAll \/ JoinFlusher

\* Both threads have ended.
Finished == lpc \in {"ended", "panicked"} /\ fpc \in {"ended", "dead"} /\ UNCHANGED vars

Next == LoopSteps \/ LoopChoices \/ FlusherThread \/ Caller \/ Finished

Spec == Init /\ [][Next]_vars

\* Each thread is scheduled, a tick and a commit return, and a caller that set a
\* signal goes on to notify.  Nothing says that a delay ends soon.
FairSpec ==
    /\ Spec
    /\ WF_vars(LoopSteps)
    /\ WF_vars(ThreadSteps /\ UNCHANGED <<loopVars, stateVars>>)
    /\ WF_vars(NotifyAll)

-----------------------------------------------------------------------------
(***************************************************************************)
(* Properties.                                                             *)
(***************************************************************************)
\* The values each variable takes.
TypeOK ==
    /\ FlusherTypeOK
    /\ requests \in 0..MaxRequests /\ owed \in 0..(MaxRequests + 1)
    /\ published.durable \in Data \cup {NoData}
    /\ resyncAt \in 0..made

\* A published durable cursor was offered after the engine's last reset, from the
\* tick that reset the engine on, though the sink hears of it a tick later.
PublishedIsOfThisRun ==
    lpc \in {"stop", "lock", "waiting", "ended", "panicked"} /\ published.durable # NoData
      => published.durable > resyncAt

\* A requested checkpoint is taken, without waiting for the delay to end, unless
\* the loop ends first: no signal is lost between the lock and the wait.
RequestTaken == requests > 0 ~> (asked \/ lpc \in {"ended", "panicked"})

\* A shutdown ends the loop, also one that waits for a slot of a full queue.
ShutdownEnds == stop ~> lpc \in {"ended", "panicked"}
=============================================================================
