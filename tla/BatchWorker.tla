----------------------------- MODULE BatchWorker -----------------------------
(***************************************************************************)
(* The batching engine of the Rust SDK (packages/sdk-rust): BatchSender,   *)
(* the handle the application holds; the bounded channel between them;     *)
(* BatchWorker, the background task that buffers, ships and retries; and   *)
(* the two tokio Notify cells that implement flush().                      *)
(*                                                                         *)
(* Submitters, flush callers and the worker interleave.  A step of the     *)
(* worker is the code between two of its awaits, or less where another     *)
(* thread can see the difference (one try_recv of drain_channel).  Time    *)
(* is abstracted: a tick or the end of a backoff may come at any moment.   *)
(* The collector is the environment: it accepts a connection or not, it    *)
(* answers a request or the request fails.                                 *)
(***************************************************************************)
EXTENDS Naturals, Sequences, SequencesExt

CONSTANTS BatchSize,      \* AiresConfig::batch_size
          QueueCapacity,  \* AiresConfig::queue_capacity
          MaxRetries,     \* AiresConfig::max_retries
          Flushers,       \* concurrent callers of Aires::flush
          Cancellers,     \* those of them that may drop the future
          MaxEvents       \* bound: events the application submits

(* What AiresConfigBuilder::build accepts. *)
ASSUME ConfigAssumption ==
    /\ BatchSize \in Nat \ {0}
    /\ QueueCapacity \in Nat
    /\ QueueCapacity >= BatchSize
    /\ MaxRetries \in Nat

ASSUME BoundsAssumption ==
    /\ MaxEvents \in Nat
    /\ Cancellers \subseteq Flushers

Events == 1..MaxEvents

VARIABLES
    next,         \* the next event the application submits
    queue,        \* the crossbeam channel
    buffer,       \* BatchWorker::run's `buffer`
    inflight,     \* the batch ship() has taken out of the buffer
    pc,           \* where the worker is
    ret,          \* where ship() returns to
    client,       \* TRUE iff run's `client` is Some
    retries,      \* ship's `retries`
    flushNotify,  \* the permit stored in flush_notify
    flushHanded,  \* the worker, parked, has been handed a notification
    flushDone,    \* the permit stored in flush_done
    waiters,      \* the flush_done waiters, oldest first
    fpc,          \* where each flush caller is
    handle,       \* the life of the Aires value
    accepted,     \* history: events try_send took, in order
    settled,      \* history: events the engine is done with, in order
    fate,         \* history: how each event was settled
    tries,        \* history: Ingest requests that carried each event
    goal          \* history: what a flush was asked to wait for

channelVars == <<next, queue, accepted>>
workerVars  == <<buffer, inflight, pc, ret, client, retries>>
flushVars   == <<flushNotify, flushHanded, flushDone, waiters, fpc>>
settleVars  == <<settled, fate, tries>>
vars == <<channelVars, workerVars, flushVars, handle, settleVars, goal>>

WorkerPcs == {"start",   \* spawned, not yet polled
              "select",  \* in tokio::select!
              "drainF",  \* in the flush arm's drain_channel
              "drain",   \* in the drain_channel after the select
              "ship",    \* in ship(), awaiting its first client()
              "send",    \* awaiting ingest_raw
              "backoff", \* awaiting the sleep and then client()
              "notify",  \* about to run flush_done.notify_one
              "dead"}    \* run() returned, or its runtime is gone

Shipping  == {"ship", "send", "backoff"}
(* Where the task can be dropped: tokio cancels it at an await only. *)
AwaitPcs  == {"start", "select"} \cup Shipping
Fates     == {"stored", "refused", "expired", "unencodable", "lost"}

(* The goal of nobody: nothing is asked. *)
NoGoal == [all |-> 0, from |-> 0]

(* Every variable keeps its type; ship's `retries` never passes max_retries. *)
TypeOK ==
    /\ next \in 1..(MaxEvents + 1)
    /\ queue \in Seq(Events)
    /\ buffer \in Seq(Events)
    /\ inflight \in Seq(Events)
    /\ pc \in WorkerPcs
    /\ ret \in {"notify", "drain", "select"}
    /\ client \in BOOLEAN
    /\ retries \in 0..MaxRetries
    /\ flushNotify \in BOOLEAN /\ flushHanded \in BOOLEAN
    /\ flushDone \in BOOLEAN
    /\ waiters \in Seq(Flushers)
    /\ fpc \in [Flushers -> {"idle", "called", "waiting"}]
    /\ handle \in {"live", "dropping", "dropped"}
    /\ accepted \in Seq(Events)
    /\ settled \in Seq(Events)
    /\ fate \in [Events -> Fates \cup {"none"}]
    /\ tries \in [Events -> Nat]
    /\ goal \in [Flushers -> [all : Nat, from : Nat]]

Init ==
    /\ next = 1
    /\ queue = <<>>
    /\ buffer = <<>>
    /\ inflight = <<>>
    /\ pc = "start"
    /\ ret = "select"
    /\ client = FALSE
    /\ retries = 0
    /\ flushNotify = FALSE /\ flushHanded = FALSE
    /\ flushDone = FALSE
    /\ waiters = <<>>
    /\ fpc = [f \in Flushers |-> "idle"]
    /\ handle = "live"
    /\ accepted = <<>>
    /\ settled = <<>>
    /\ fate = [e \in Events |-> "none"]
    /\ tries = [e \in Events |-> 0]
    /\ goal = [f \in Flushers |-> NoGoal]

-----------------------------------------------------------------------------
(* BatchSender::submit, from any thread that holds the handle. *)

SubmitAccepted ==
    /\ handle = "live"
    /\ next <= MaxEvents
    /\ pc # "dead"
    /\ Len(queue) < QueueCapacity
    /\ queue' = Append(queue, next)
    /\ accepted' = Append(accepted, next)
    /\ next' = next + 1
    /\ UNCHANGED <<workerVars, flushVars, handle, settleVars, goal>>

(* TrySendError::Full: the event is dropped with a warning. *)
SubmitFull ==
    /\ handle = "live"
    /\ next <= MaxEvents
    /\ pc # "dead"
    /\ Len(queue) = QueueCapacity
    /\ next' = next + 1
    /\ UNCHANGED <<queue, accepted, workerVars, flushVars, handle, settleVars, goal>>

(* TrySendError::Disconnected: the worker and its receiver are gone. *)
SubmitDisconnected ==
    /\ handle = "live"
    /\ next <= MaxEvents
    /\ pc = "dead"
    /\ next' = next + 1
    /\ UNCHANGED <<queue, accepted, workerVars, flushVars, handle, settleVars, goal>>

-----------------------------------------------------------------------------
(* The worker. *)

(* It is asked to flush. *)
Requested == flushNotify \/ flushHanded

(* flush_notify.notify_one.  The select polls notified() and parks; a      *)
(* parked worker is handed one notification.  If it is not parked (yet),   *)
(* or has been handed one, a permit is stored, and absorbs those to come.  *)
NotifyWorker ==
    \/ flushNotify' = TRUE /\ UNCHANGED flushHanded
    \/ /\ pc = "select" /\ ~Requested
       /\ flushHanded' = TRUE
       /\ UNCHANGED flushNotify

(* The arm of a handed notification is not run: Notified, when dropped,    *)
(* passes it on.                                                           *)
DropNotified == flushNotify' = Requested /\ flushHanded' = FALSE

(* The events of s are done with, all with the same fate. *)
Settle(s, f) ==
    /\ settled' = settled \o s
    /\ fate' = [e \in Events |-> IF e \in ToSet(s) THEN f ELSE fate[e]]

(* The task ends: its receiver and its buffers are dropped. *)
WorkerGone ==
    /\ Settle((inflight \o buffer) \o queue, "lost")
    /\ inflight' = <<>>
    /\ buffer' = <<>>
    /\ queue' = <<>>
    /\ pc' = "dead"
    /\ DropNotified
    /\ UNCHANGED <<next, accepted, ret, client, retries, flushDone, waiters, fpc, handle,
                   tries, goal>>

(* The pool is built and the timer made: the loop is entered. *)
WorkerStart ==
    /\ pc = "start"
    /\ pc' = "select"
    /\ UNCHANGED <<channelVars, buffer, inflight, ret, client, retries,
                   flushVars, handle, settleVars, goal>>

(* The pool cannot be built, or batch_timeout = 0 makes interval() panic. *)
WorkerStartFails == pc = "start" /\ WorkerGone

(* The tokio runtime stops: a task that is awaiting is dropped. *)
RuntimeShutdown == pc \in AwaitPcs /\ WorkerGone

(* ship() is entered, and will return to r. *)
EnterShip(r) == pc' = "ship" /\ ret' = r

(* Mutant: the timer ships only a full batch. *)
TickFullOnly ==
    /\ pc = "select"
    /\ IF Len(buffer) >= BatchSize THEN EnterShip("drain") ELSE pc' = "drain" /\ UNCHANGED ret
    /\ DropNotified
    /\ UNCHANGED <<channelVars, buffer, inflight, client, retries,
                   flushDone, waiters, fpc, handle, settleVars, goal>>

(* The timer arm of the select. *)
Tick ==
    /\ pc = "select"
    /\ IF buffer # <<>> THEN EnterShip("drain") ELSE pc' = "drain" /\ UNCHANGED ret
    /\ DropNotified
    /\ UNCHANGED <<channelVars, buffer, inflight, client, retries,
                   flushDone, waiters, fpc, handle, settleVars, goal>>

(* notified() is ready: with what it was handed, or with the permit.       *)
TakeNotification ==
    \/ flushHanded /\ flushHanded' = FALSE /\ UNCHANGED flushNotify
    \/ /\ flushNotify /\ ~flushHanded
       /\ flushNotify' = FALSE
       /\ UNCHANGED flushHanded

(* Mutant: the flush arm ships the buffer without draining the channel. *)
FlushArmNoDrain ==
    /\ pc = "select"
    /\ TakeNotification
    /\ IF buffer # <<>> THEN EnterShip("notify") ELSE pc' = "notify" /\ UNCHANGED ret
    /\ UNCHANGED <<channelVars, buffer, inflight, client, retries,
                   flushDone, waiters, fpc, handle, settleVars, goal>>

(* The flush arm of the select. *)
FlushArm ==
    /\ pc = "select"
    /\ TakeNotification
    /\ pc' = "drainF"
    /\ UNCHANGED <<channelVars, buffer, inflight, ret, client, retries,
                   flushDone, waiters, fpc, handle, settleVars, goal>>

(* Mutant: a flush that finds nothing to ship goes on without notifying. *)
AfterDrainSkips(b) ==
    IF pc = "drainF"
    THEN IF b # <<>> THEN EnterShip("notify") ELSE pc' = "drain" /\ UNCHANGED ret
    ELSE IF Len(b) >= BatchSize THEN EnterShip("select") ELSE pc' = "select" /\ UNCHANGED ret

(* What follows drain_channel, b being the buffer it leaves. *)
AfterDrain(b) ==
    IF pc = "drainF"
    THEN IF b # <<>> THEN EnterShip("notify") ELSE pc' = "notify" /\ UNCHANGED ret
    ELSE IF Len(b) >= BatchSize THEN EnterShip("select") ELSE pc' = "select" /\ UNCHANGED ret

(* Mutant: the length is tested after the receive and before the push. *)
DrainOnePopsWhenFull ==
    /\ pc \in {"drainF", "drain"}
    /\ queue # <<>>
    /\ queue' = Tail(queue)
    /\ IF Len(buffer) >= BatchSize
       THEN UNCHANGED buffer /\ AfterDrain(buffer)
       ELSE buffer' = Append(buffer, Head(queue)) /\ UNCHANGED <<pc, ret>>
    /\ UNCHANGED <<next, accepted, inflight, client, retries,
                   flushVars, handle, settleVars, goal>>

(* One try_recv of drain_channel.  The length is tested after the push. *)
DrainOne ==
    /\ pc \in {"drainF", "drain"}
    /\ queue # <<>>
    /\ queue' = Tail(queue)
    /\ buffer' = Append(buffer, Head(queue))
    /\ IF Len(buffer') >= BatchSize THEN AfterDrain(buffer') ELSE UNCHANGED <<pc, ret>>
    /\ UNCHANGED <<next, accepted, inflight, client, retries,
                   flushVars, handle, settleVars, goal>>

DrainEmpty ==
    /\ pc \in {"drainF", "drain"}
    /\ queue = <<>>
    /\ AfterDrain(buffer)
    /\ UNCHANGED <<channelVars, buffer, inflight, client, retries,
                   flushVars, handle, settleVars, goal>>

(* An Ingest request that carries the events of s is issued. *)
CountTry(s) ==
    tries' = [e \in Events |-> IF e \in ToSet(s) THEN tries[e] + 1 ELSE tries[e]]

(* ship(): connected, or connects; takes the whole buffer; serialises it;  *)
(* and sends it.                                                           *)
ShipBegin ==
    /\ pc = "ship"
    /\ client' = TRUE
    /\ inflight' = buffer
    /\ buffer' = <<>>
    /\ retries' = 0
    /\ pc' = "send"
    /\ CountTry(buffer)
    /\ UNCHANGED <<channelVars, ret, flushVars, handle, settled, fate, goal>>

(* Mutant: the buffer is drained before the connection is checked. *)
ShipUnreachableClears ==
    /\ pc = "ship"
    /\ ~client
    /\ pc' = ret
    /\ buffer' = <<>>
    /\ goal' = IF ret = "notify" THEN [f \in Flushers |-> NoGoal] ELSE goal
    /\ UNCHANGED <<channelVars, inflight, ret, client, retries,
                   flushVars, handle, settleVars>>

(* ship(): no connection and none to be had.  The buffer is kept.  A flush *)
(* in progress is told it is done all the same.                            *)
ShipUnreachable ==
    /\ pc = "ship"
    /\ ~client
    /\ pc' = ret
    /\ goal' = IF ret = "notify" THEN [f \in Flushers |-> NoGoal] ELSE goal
    /\ UNCHANGED <<channelVars, buffer, inflight, ret, client, retries,
                   flushVars, handle, settleVars>>

(* Mutant: the buffer is drained only once it has been serialised. *)
ShipUnencodableKeeps ==
    /\ pc = "ship"
    /\ client' = TRUE
    /\ pc' = ret
    /\ UNCHANGED <<channelVars, buffer, inflight, ret, retries, flushVars, handle, settleVars,
                   goal>>

(* ship(): serialize_batch fails after the buffer has been drained. *)
ShipUnencodable ==
    /\ pc = "ship"
    /\ client' = TRUE
    /\ Settle(buffer, "unencodable")
    /\ buffer' = <<>>
    /\ pc' = ret
    /\ UNCHANGED <<channelVars, inflight, ret, retries, flushVars, handle, tries, goal>>

(* ship() is done with the batch and returns. *)
ShipReturns(f) ==
    /\ Settle(inflight, f)
    /\ inflight' = <<>>
    /\ pc' = ret

(* ingest_raw answers.  What the collector rejected is not sent again. *)
SendOk ==
    /\ pc = "send"
    /\ \E f \in {"stored", "refused"} : ShipReturns(f)
    /\ UNCHANGED <<channelVars, buffer, ret, client, retries, flushVars, handle, tries, goal>>

(* Mutant: the budget is tested before the retry is counted. *)
RetryOrGiveUpLate ==
    /\ IF retries > MaxRetries
       THEN ShipReturns("expired") /\ UNCHANGED retries
       ELSE /\ retries' = retries + 1
            /\ pc' = "backoff"
            /\ UNCHANGED <<inflight, settled, fate>>
    /\ UNCHANGED <<channelVars, buffer, ret, flushVars, handle, tries, goal>>

(* Mutant: a batch given up goes back to the channel, behind newer events. *)
RetryOrGiveUpRequeues ==
    /\ IF retries + 1 > MaxRetries
       THEN /\ queue' = queue \o inflight
            /\ inflight' = <<>>
            /\ pc' = ret
            /\ UNCHANGED <<retries, settled, fate>>
       ELSE /\ retries' = retries + 1
            /\ pc' = "backoff"
            /\ UNCHANGED <<queue, inflight, settled, fate>>
    /\ UNCHANGED <<next, accepted, buffer, ret, flushVars, handle, tries, goal>>

(* Mutant: the retry is not counted. *)
RetryOrGiveUpUncounted ==
    /\ IF retries + 1 > MaxRetries
       THEN ShipReturns("expired") /\ UNCHANGED retries
       ELSE /\ retries' = retries
            /\ pc' = "backoff"
            /\ UNCHANGED <<inflight, settled, fate>>
    /\ UNCHANGED <<channelVars, buffer, ret, flushVars, handle, tries, goal>>

(* An attempt failed: back off and try again while the budget lasts. *)
RetryOrGiveUp ==
    /\ IF retries + 1 > MaxRetries
       THEN ShipReturns("expired") /\ UNCHANGED retries
       ELSE /\ retries' = retries + 1
            /\ pc' = "backoff"
            /\ UNCHANGED <<inflight, settled, fate>>
    /\ UNCHANGED <<channelVars, buffer, ret, flushVars, handle, tries, goal>>

(* ingest_raw fails: the connection is given up with it. *)
SendErr ==
    /\ pc = "send"
    /\ client' = FALSE
    /\ RetryOrGiveUp

(* The backoff is over and client() connects: the batch is sent again. *)
Resend ==
    /\ pc = "backoff"
    /\ client' = TRUE
    /\ pc' = "send"
    /\ CountTry(inflight)
    /\ UNCHANGED <<channelVars, buffer, inflight, ret, retries,
                   flushVars, handle, settled, fate, goal>>

(* The backoff is over and client() does not connect. *)
ReconnectFails ==
    /\ pc = "backoff"
    /\ RetryOrGiveUp
    /\ UNCHANGED client

(* Mutant: with no waiter the notification is lost, as notify_waiters would. *)
NotifyDoneNoPermit ==
    /\ pc = "notify"
    /\ pc' = "drain"
    /\ IF waiters # <<>>
       THEN /\ waiters' = Tail(waiters)
            /\ fpc' = [fpc EXCEPT ![Head(waiters)] = "idle"]
            /\ goal' = [goal EXCEPT ![Head(waiters)] = NoGoal]
            /\ UNCHANGED flushDone
       ELSE UNCHANGED <<flushDone, waiters, fpc, goal>>
    /\ UNCHANGED <<channelVars, buffer, inflight, ret, client, retries,
                   flushNotify, flushHanded, handle, settleVars>>

(* flush_done.notify_one: the oldest waiter is woken, and flush returns to *)
(* its caller; with no waiter a permit is stored, one at most.             *)
NotifyDone ==
    /\ pc = "notify"
    /\ pc' = "drain"
    /\ IF waiters # <<>>
       THEN /\ waiters' = Tail(waiters)
            /\ fpc' = [fpc EXCEPT ![Head(waiters)] = "idle"]
            /\ goal' = [goal EXCEPT ![Head(waiters)] = NoGoal]
            /\ UNCHANGED flushDone
       ELSE flushDone' = TRUE /\ UNCHANGED <<waiters, fpc, goal>>
    /\ UNCHANGED <<channelVars, buffer, inflight, ret, client, retries,
                   flushNotify, flushHanded, handle, settleVars>>

-----------------------------------------------------------------------------
(* BatchSender::flush and flush_sync. *)

(* Between the start of the flush arm and its answer. *)
InFlushArm ==
    pc \in {"drainF", "notify"} \/ (pc \in Shipping /\ ret = "notify")

(* An earlier request to flush, of this caller or another, has not been    *)
(* answered, or its answer has not been taken.                             *)
Answering == Requested \/ InFlushArm \/ flushDone

(* A caller may take what answers an earlier request, so it has a goal     *)
(* only if there is none.                                                  *)
FlushCall(f) ==
    /\ handle = "live"
    /\ fpc[f] = "idle"
    /\ fpc' = [fpc EXCEPT ![f] = "called"]
    /\ NotifyWorker
    /\ goal' = [goal EXCEPT ![f] =
          IF Answering THEN NoGoal ELSE [all |-> Len(accepted), from |-> Len(settled)]]
    /\ UNCHANGED <<channelVars, workerVars, flushDone, waiters, handle, settleVars>>

(* flush_done.notified().await: takes the permit, or queues up. *)
FlushWait(f) ==
    /\ fpc[f] = "called"
    /\ IF flushDone
       THEN /\ flushDone' = FALSE
            /\ fpc' = [fpc EXCEPT ![f] = "idle"]
            /\ goal' = [goal EXCEPT ![f] = NoGoal]
            /\ UNCHANGED waiters
       ELSE /\ waiters' = Append(waiters, f)
            /\ fpc' = [fpc EXCEPT ![f] = "waiting"]
            /\ UNCHANGED <<flushDone, goal>>
    /\ UNCHANGED <<channelVars, workerVars, flushNotify, flushHanded, handle, settleVars>>

(* The caller drops the future (a timeout around flush, say).  To drop it  *)
(* after it was notified and before it is polled passes the notification   *)
(* on, which is what NotifyDone does if it is dropped first: that order is *)
(* not told apart.                                                         *)
FlushAbandoned(f) ==
    /\ f \in Cancellers
    /\ fpc[f] = "waiting"
    /\ fpc' = [fpc EXCEPT ![f] = "idle"]
    /\ goal' = [goal EXCEPT ![f] = NoGoal]
    /\ \E i \in DOMAIN waiters : waiters[i] = f /\ waiters' = RemoveAt(waiters, i)
    /\ UNCHANGED <<channelVars, workerVars, flushNotify, flushHanded, flushDone, handle,
                   settleVars>>

(* Drop for Aires: nobody borrows the handle any more.  flush_sync leaves  *)
(* a permit for the worker and sleeps 100 ms ...                           *)
DropBegin ==
    /\ handle = "live"
    /\ \A f \in Flushers : fpc[f] = "idle"
    /\ handle' = "dropping"
    /\ NotifyWorker
    /\ UNCHANGED <<channelVars, workerVars, flushDone, waiters, fpc, settleVars, goal>>

(* ... which pass, whatever the worker has done by then. *)
DropEnd ==
    /\ handle = "dropping"
    /\ handle' = "dropped"
    /\ UNCHANGED <<channelVars, workerVars, flushVars, settleVars, goal>>

-----------------------------------------------------------------------------
Submit == SubmitAccepted \/ SubmitFull \/ SubmitDisconnected

Worker ==
    \/ WorkerStart \/ WorkerStartFails
    \/ Tick \/ FlushArm \/ DrainOne \/ DrainEmpty
    \/ ShipBegin \/ ShipUnreachable \/ ShipUnencodable
    \/ SendOk \/ SendErr \/ Resend \/ ReconnectFails
    \/ NotifyDone

Flush == \E f \in Flushers : FlushCall(f) \/ FlushWait(f) \/ FlushAbandoned(f)

Next == Submit \/ Worker \/ Flush \/ DropBegin \/ DropEnd \/ RuntimeShutdown

Spec == Init /\ [][Next]_vars

(***************************************************************************)
(* Fairness.  The runtime polls the worker and the flush callers (WF); the *)
(* select! picks among ready arms at random, so a flush permit that is     *)
(* ready again and again is taken (SF on FlushArm); a request that is      *)
(* awaited completes one way or the other and a sleep ends (WF on Worker   *)
(* at "send" and "backoff"); and a collector that is tried again and again *)
(* is reachable in the end (SF on ShipBegin).                              *)
(***************************************************************************)
Fairness ==
    /\ WF_vars(Worker)
    /\ SF_vars(FlushArm)
    /\ SF_vars(ShipBegin)
    /\ \A f \in Flushers : WF_vars(FlushWait(f))

FairSpec == Spec /\ Fairness

-----------------------------------------------------------------------------
(* Properties. *)

Pending == (inflight \o buffer) \o queue

(* Nothing is lost on the way, sent twice or overtaken: the events try_send *)
(* took are, in that order, those the engine is done with, the batch being  *)
(* sent, the buffer and the channel.  drain_channel, ship's drain(..) and   *)
(* its early returns each move events from one place to the next.           *)
Ledger == accepted = settled \o Pending

(* An event is in at most max_retries + 1 requests, all of one batch: none  *)
(* before it leaves the buffer, at least one before the engine says it was  *)
(* answered or gave up on it (the retry loop of ship).                      *)
RetryBudget ==
    \A e \in Events :
        /\ tries[e] <= MaxRetries + 1
        /\ e \in ToSet(buffer \o queue) => tries[e] = 0
        /\ fate[e] \in {"stored", "refused", "expired"} => tries[e] > 0

(* Requests go out in the order of submission: when one carries e, every    *)
(* event accepted before e is done with or in the same batch.  (ship is     *)
(* awaited by the loop, so one batch is in flight at a time.)               *)
HeadOfLine ==
    \A d, e \in ToSet(accepted) :
        d < e /\ tries[e] > 0 => fate[d] # "none" \/ d \in ToSet(inflight)

(* A batch is larger than batch_size only when the collector could not be   *)
(* reached: with a live connection the buffer never passes it, although     *)
(* drain_channel tests the length after the push and runs in two places.    *)
OversizeOnlyWhenDisconnected == client => Len(buffer) <= BatchSize

(* With one flush caller no wakeup is lost: while it waits, the request for *)
(* it is held by flush_notify or being served by the flush arm; before it   *)
(* waits, that or the answer is already there.                              *)
NoLostWakeup ==
    \A f \in Flushers :
        /\ fpc[f] = "called" => Answering \/ pc = "dead"
        /\ fpc[f] = "waiting" => (Requested \/ InFlushArm \/ pc = "dead") /\ ~flushDone

(* flush() returns only once everything accepted before the call is         *)
(* settled, up to one batch, or the collector could not be reached (goal is *)
(* then waived).  So it is for any number of callers, others dropping their *)
(* futures, if at the call no earlier request was being answered; otherwise *)
(* the caller may be given the answer to that one.                          *)
FlushCoverage ==
    [][\A f \in Flushers :
          fpc[f] # "idle" /\ fpc'[f] = "idle" /\ ~FlushAbandoned(f) =>
              \/ Len(settled') >= goal[f].all
              \/ Len(settled') >= goal[f].from + BatchSize]_vars

(* With one flush caller, a flush returns unless the worker is gone.        *)
FlushReturns ==
    \A f \in Flushers : fpc[f] = "called" ~> (fpc[f] = "idle" \/ pc = "dead")

(* Every accepted event is settled in the end, whatever the collector, the  *)
(* flush callers and the drop of the handle do meanwhile.                   *)
AcceptedSettles ==
    \A e \in Events : e \in ToSet(accepted) ~> fate[e] # "none"

(* The engine implements the channel. *)
Channel == INSTANCE EventChannel WITH pending <- Pending, open <- pc # "dead"
ChannelSpec == Channel!Spec
ChannelFairSpec == Channel!FairSpec

(* worker.rs:98-99: while the collector is unreachable what is kept is      *)
(* "capped by queue_capacity back-pressure upstream".                       *)
BacklogCapped == Len(buffer) + Len(queue) <= QueueCapacity + BatchSize
=============================================================================
