------------------------------ MODULE Delivery ------------------------------
(***************************************************************************)
(* End to end: BatchWorker::ship of one SDK, which sends a batch and       *)
(* retries it, composed with the collector of module Collector.  It says   *)
(* what the retries of the one and the timeouts of the other amount to in  *)
(* the events table.                                                       *)
(*                                                                         *)
(* Here the worker has a sequence of full batches to ship and nothing else *)
(* to do; each attempt is an Ingest call of its own.  The network may lose *)
(* a request before it arrives, or its answer, and the worker may learn of *)
(* a broken connection while the request is on its way or being handled.   *)
(***************************************************************************)
EXTENDS Naturals, Sequences, FiniteSetsExt

CONSTANTS MaxRetries,  \* AiresConfig::max_retries
          Rows,        \* events of a batch
          MaxShipped   \* bound: batches the worker ships

ASSUME DeliveryAssumption ==
    /\ MaxRetries \in Nat
    /\ Rows \in Nat \ {0}
    /\ MaxShipped \in Nat \ {0}

Shipped == 1..MaxShipped
(* An attempt: a batch and the value of ship's `retries`.  One more than   *)
(* the budget allows, which should never be made.                          *)
Attempts == Shipped \X (0..(MaxRetries + 1))

VARIABLES
    batch,    \* the batch in ship(), or the next one
    retries,  \* ship's `retries`
    wpc,      \* where ship() is
    sent,     \* history: attempts the worker has sent
    outcome,  \* history: how ship() ended for each batch
    hpc, received, accepted, rejected, mailbox, store, rows, landed, verdict

workerVars    == <<batch, retries, wpc, sent, outcome>>
collectorVars == <<hpc, received, accepted, rejected, mailbox, store, rows,
                   landed, verdict>>
vars == <<workerVars, collectorVars>>

Col == INSTANCE Collector
          WITH Rpcs <- Attempts, Streams <- {}, MaxBatches <- 1, MaxRows <- Rows

WorkerPcs == {"ready",   \* connecting, with a batch to send
              "sending", \* awaiting ingest_raw
              "backoff", \* awaiting the sleep
              "over"}    \* nothing is left to ship
Outcomes  == {"none", "accepted", "rejected", "dropped"}

(* Every variable keeps its type. *)
TypeOK ==
    /\ Col!TypeOK
    /\ batch \in 1..(MaxShipped + 1)
    /\ retries \in 0..(MaxRetries + 1)
    /\ wpc \in WorkerPcs
    /\ sent \subseteq Attempts
    /\ outcome \in [Shipped -> Outcomes]

Init ==
    /\ Col!Init
    /\ batch = 1
    /\ retries = 0
    /\ wpc = "ready"
    /\ sent = {}
    /\ outcome = [b \in Shipped |-> "none"]

(* The attempt ship() is at. *)
This == <<batch, retries>>

-----------------------------------------------------------------------------
(* ship(). *)

(* There is a connection: the batch is sent. *)
Send ==
    /\ wpc = "ready"
    /\ wpc' = "sending"
    /\ sent' = sent \cup {This}
    /\ UNCHANGED <<batch, retries, outcome, collectorVars>>

(* The loop is left with outcome o, and the worker goes on. *)
Settle(o) ==
    /\ outcome' = [outcome EXCEPT ![batch] = o]
    /\ batch' = batch + 1
    /\ retries' = 0
    /\ wpc' = IF batch = MaxShipped THEN "over" ELSE "ready"

(* Mutant: the rejected count is not looked at, nor what happened.         *)
AnsweredEarly ==
    /\ wpc = "sending"
    /\ hpc[This] \in {"calling", "done"}
    /\ Settle("accepted")
    /\ UNCHANGED <<sent, collectorVars>>

(* An IngestResponse: it settles the batch, even when it is rejected.      *)
Answered ==
    /\ wpc = "sending"
    /\ hpc[This] = "done"
    /\ Settle(IF rejected[This] > 0 THEN "rejected" ELSE "accepted")
    /\ UNCHANGED <<sent, collectorVars>>

(* Mutant: one attempt too many. *)
RetryOrDropLate ==
    /\ IF retries > MaxRetries
       THEN Settle("dropped")
       ELSE retries' = retries + 1 /\ wpc' = "backoff" /\ UNCHANGED <<batch, outcome>>
    /\ UNCHANGED <<sent, collectorVars>>

(* retries += 1, and the batch is dropped when that is too many.           *)
RetryOrDrop ==
    /\ IF retries + 1 > MaxRetries
       THEN Settle("dropped")
       ELSE retries' = retries + 1 /\ wpc' = "backoff" /\ UNCHANGED <<batch, outcome>>
    /\ UNCHANGED <<sent, collectorVars>>

(* ingest_raw returns an error: the handler died, or so it looks from here *)
(* because the connection broke.                                           *)
SendError == wpc = "sending" /\ RetryOrDrop

(* No connection can be had. *)
ConnectError == wpc = "ready" /\ retries > 0 /\ RetryOrDrop

(* The sleep is over. *)
Resume ==
    /\ wpc = "backoff"
    /\ wpc' = "ready"
    /\ UNCHANGED <<batch, retries, sent, outcome, collectorVars>>

-----------------------------------------------------------------------------
(* The collector: a handler hears of an attempt once it has been sent, now *)
(* or after the worker has stopped waiting for it.                         *)
Arrives(r) == r \in sent /\ (Col!Receive(r, Rows) \/ Col!ReceiveNoStore(r))
Breaks ==
    \/ \E r \in sent : Col!CallTimeout(r) \/ Col!ConnectionLost(r)
    \/ Col!StoreCrash

Ship == Send \/ Answered \/ Resume
Serve ==
    \/ \E r \in Attempts : Arrives(r)
    \/ Breaks
    \/ Col!InsertBegin \/ Col!InsertOk \/ Col!InsertFails \/ Col!StoreRestart

Next ==
    \/ Ship \/ SendError \/ ConnectError
    \/ UNCHANGED workerVars /\ Serve

Spec == Init /\ [][Next]_vars

(* ship() is scheduled, and it sees the answer or the death of its         *)
(* handler.  A request that has been sent arrives, if only at a collector  *)
(* that cannot serve it, and the Store works through its mailbox.          *)
FairSpec ==
    /\ Spec
    /\ WF_vars(Ship)
    /\ WF_vars(SendError /\ hpc[This] = "failed")
    /\ \A r \in Attempts : WF_vars(UNCHANGED workerVars /\ Arrives(r))
    /\ WF_vars(UNCHANGED workerVars /\ Col!Store)

-----------------------------------------------------------------------------
(* Properties. *)

(* Rows of batch b in the table, over all its attempts. *)
Copies(b) ==
    LET stored == [r \in Attempts |-> landed[<<r, 1>>]] IN
    MapThenSumSet(LAMBDA r : stored[r], {r \in Attempts : r[1] = b})

(* However attempts time out, are retried and land late, the table never   *)
(* holds a batch more often than max_retries + 1 times, and never more     *)
(* often than it was sent.                                                 *)
CopiesBounded ==
    \A b \in Shipped :
        /\ Copies(b) <= Rows * Cardinality({r \in sent : r[1] = b})
        /\ Copies(b) <= Rows * (MaxRetries + 1)

(* A batch the SDK knows to be accepted is in the table, whole: one of its *)
(* attempts put it there, however many have failed, are late or have put   *)
(* in a part.                                                              *)
AcceptedStored ==
    \A b \in Shipped :
        outcome[b] = "accepted" => \E r \in sent : r[1] = b /\ landed[<<r, 1>>] = Rows

(* The worker gets through its batches: the collector answers every        *)
(* request, or the request fails, although the SDK sets no timeout.        *)
ShipsAll == <>(wpc = "over")

(* collector/setup.md:298: when ClickHouse fails "events will be retried". *)
FailedInsertRetried ==
    \A b \in Shipped : outcome[b] = "rejected" ~> Copies(b) >= Rows
=============================================================================
