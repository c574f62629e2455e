------------------------------ MODULE Collector ------------------------------
(***************************************************************************)
(* The ingest path of the collector (packages/collector): a gRPC handler   *)
(* process per RPC (Server.ingest, Server.ingest_stream) calls the one     *)
(* Store process, which inserts a batch at a time into ClickHouse.         *)
(*                                                                         *)
(* A step is what one Erlang process does between two receives, except     *)
(* that the Store's handling of a call is two steps, since ClickHouse      *)
(* answers in between.  GenServer.call's 30 s timer may fire at any time,  *)
(* the Store (or the connection pool linked to it) may crash at any time,  *)
(* and so may a client's connection.  ClickHouse is the environment: an    *)
(* INSERT succeeds, or fails with any part of its rows in the table.       *)
(***************************************************************************)
EXTENDS Naturals, Sequences, SequencesExt, FiniteSetsExt

CONSTANTS Rpcs,       \* the RPCs, one handler process each
          Streams,    \* those that are IngestStream, the others are Ingest
          MaxBatches, \* bound: EventBatch messages of a stream
          MaxRows     \* bound: events of a message

ASSUME CollectorAssumption ==
    /\ Streams \subseteq Rpcs
    /\ MaxBatches \in Nat \ {0}
    /\ MaxRows \in Nat

(* The nth EventBatch of RPC r. *)
Batches == Rpcs \X (1..MaxBatches)

VARIABLES
    hpc,       \* where the handler of each RPC is
    received,  \* how many messages it has received
    accepted,  \* the accepted count it has so far
    rejected,  \* the rejected count it has so far
    mailbox,   \* calls the Store has not answered; it handles the first
    store,     \* the Store process
    rows,      \* history: events of each batch
    landed,    \* rows of each batch in the events table
    verdict    \* history: the answer its handler got for each batch

handlerVars == <<hpc, received, accepted, rejected>>
storeVars   == <<mailbox, store>>
batchVars   == <<rows, landed, verdict>>
vars == <<handlerVars, storeVars, batchVars>>

HandlerPcs == {"open",    \* ready to receive a message
               "calling", \* in GenServer.call
               "done",    \* has answered its client
               "failed"}  \* is dead: its client sees an error
StorePcs   == {"idle", "inserting", "down"}

(* Every variable keeps its type. *)
TypeOK ==
    /\ hpc \in [Rpcs -> HandlerPcs]
    /\ received \in [Rpcs -> 0..MaxBatches]
    /\ accepted \in [Rpcs -> Nat]
    /\ rejected \in [Rpcs -> Nat]
    /\ mailbox \in Seq(Batches)
    /\ store \in StorePcs
    /\ rows \in [Batches -> Nat]
    /\ landed \in [Batches -> Nat]
    /\ verdict \in [Batches -> {"none", "ok", "error"}]

Init ==
    /\ hpc = [r \in Rpcs |-> "open"]
    /\ received = [r \in Rpcs |-> 0]
    /\ accepted = [r \in Rpcs |-> 0]
    /\ rejected = [r \in Rpcs |-> 0]
    /\ mailbox = <<>>
    /\ store = "idle"
    /\ rows = [b \in Batches |-> 0]
    /\ landed = [b \in Batches |-> 0]
    /\ verdict = [b \in Batches |-> "none"]

-----------------------------------------------------------------------------
(* The handlers. *)

(* The batch whose insertion the handler of r awaits. *)
Current(r) == <<r, received[r]>>

(* A message of n events arrives; it is transformed and the Store called.  *)
(* Ingest takes one message, IngestStream one per turn of its reduce.      *)
Receive(r, n) ==
    /\ hpc[r] = "open"
    /\ received[r] < (IF r \in Streams THEN MaxBatches ELSE 1)
    /\ store # "down"
    /\ hpc' = [hpc EXCEPT ![r] = "calling"]
    /\ received' = [received EXCEPT ![r] = @ + 1]
    /\ mailbox' = Append(mailbox, <<r, received[r] + 1>>)
    /\ rows' = [rows EXCEPT ![<<r, received[r] + 1>>] = n]
    /\ UNCHANGED <<accepted, rejected, store, landed, verdict>>

(* There is no process of that name to call: the handler exits. *)
ReceiveNoStore(r) ==
    /\ hpc[r] = "open"
    /\ store = "down"
    /\ hpc' = [hpc EXCEPT ![r] = "failed"]
    /\ UNCHANGED <<received, accepted, rejected, storeVars, batchVars>>

(* The stream ends: the totals are the response. *)
StreamEnds(r) ==
    /\ r \in Streams
    /\ hpc[r] = "open"
    /\ hpc' = [hpc EXCEPT ![r] = "done"]
    /\ UNCHANGED <<received, accepted, rejected, storeVars, batchVars>>

(* Mutant: ingest_stream survives the timeout and goes on. *)
CallTimeoutGoesOn(r) ==
    /\ hpc[r] = "calling"
    /\ hpc' = [hpc EXCEPT ![r] = IF r \in Streams THEN "open" ELSE "failed"]
    /\ UNCHANGED <<received, accepted, rejected, storeVars, batchVars>>

(* 30 s have passed: the handler exits.  Its call stays in the mailbox. *)
CallTimeout(r) ==
    /\ hpc[r] = "calling"
    /\ hpc' = [hpc EXCEPT ![r] = "failed"]
    /\ UNCHANGED <<received, accepted, rejected, storeVars, batchVars>>

(* The client or the whole collector goes away, and the handler with it. *)
ConnectionLost(r) ==
    /\ hpc[r] \in {"open", "calling"}
    /\ hpc' = [hpc EXCEPT ![r] = "failed"]
    /\ UNCHANGED <<received, accepted, rejected, storeVars, batchVars>>

(* The handler of r has its answer: Ingest responds, IngestStream goes on. *)
Answered(r) == IF r \in Streams THEN "open" ELSE "done"

-----------------------------------------------------------------------------
(* The Store. *)

(* Mutant: the answer is counted on both sides. *)
ReplyCountsBoth(b, v) ==
    /\ mailbox' = Tail(mailbox)
    /\ store' = "idle"
    /\ IF hpc[b[1]] = "calling"
       THEN /\ hpc' = [hpc EXCEPT ![b[1]] = Answered(b[1])]
            /\ verdict' = [verdict EXCEPT ![b] = v]
            /\ accepted' = [accepted EXCEPT ![b[1]] = @ + rows[b]]
            /\ rejected' = IF v = "error"
                           THEN [rejected EXCEPT ![b[1]] = @ + rows[b]] ELSE rejected
       ELSE UNCHANGED <<hpc, verdict, accepted, rejected>>

(* {:reply, result, state}: a caller that is still there counts the batch, *)
(* one way or the other; an answer that comes too late reaches nobody.     *)
Reply(b, v) ==
    /\ mailbox' = Tail(mailbox)
    /\ store' = "idle"
    /\ IF hpc[b[1]] = "calling"
       THEN /\ hpc' = [hpc EXCEPT ![b[1]] = Answered(b[1])]
            /\ verdict' = [verdict EXCEPT ![b] = v]
            /\ accepted' = IF v = "ok"
                           THEN [accepted EXCEPT ![b[1]] = @ + rows[b]] ELSE accepted
            /\ rejected' = IF v = "error"
                           THEN [rejected EXCEPT ![b[1]] = @ + rows[b]] ELSE rejected
       ELSE UNCHANGED <<hpc, verdict, accepted, rejected>>

(* do_insert of no rows: nothing to do. *)
InsertNothing ==
    /\ store = "idle"
    /\ mailbox # <<>>
    /\ rows[Head(mailbox)] = 0
    /\ Reply(Head(mailbox), "ok")
    /\ UNCHANGED <<received, rows, landed>>

(* do_insert: the INSERT is sent to ClickHouse ... *)
InsertBegin ==
    /\ store = "idle"
    /\ mailbox # <<>>
    /\ rows[Head(mailbox)] > 0
    /\ store' = "inserting"
    /\ UNCHANGED <<handlerVars, mailbox, batchVars>>

(* ... which answers.  The rows go in whether or not the caller waits.     *)
InsertOk ==
    /\ store = "inserting"
    /\ landed' = [landed EXCEPT ![Head(mailbox)] = @ + rows[Head(mailbox)]]
    /\ Reply(Head(mailbox), "ok")
    /\ UNCHANGED <<received, rows>>

(* n rows of the batch being inserted are in the table, maybe unknown to   *)
(* the Store.                                                              *)
Lands(n) == landed' = [landed EXCEPT ![Head(mailbox)] = @ + n]

(* Mutant: a failed insert is not answered. *)
InsertFailsNoReply ==
    /\ store = "inserting"
    /\ \E n \in 0..rows[Head(mailbox)] : Lands(n)
    /\ store' = "idle"
    /\ mailbox' = Tail(mailbox)
    /\ UNCHANGED <<handlerVars, rows, verdict>>

(* Mutant: the rescue clause falls through to :ok. *)
InsertFailsOk ==
    /\ store = "inserting"
    /\ \E n \in 0..rows[Head(mailbox)] : Lands(n)
    /\ Reply(Head(mailbox), "ok")
    /\ UNCHANGED <<received, rows>>

(* Ch.query! raises (refused, timed out, cut off) and is rescued. *)
InsertFails ==
    /\ store = "inserting"
    /\ \E n \in 0..rows[Head(mailbox)] : Lands(n)
    /\ Reply(Head(mailbox), "error")
    /\ UNCHANGED <<received, rows>>

(* The Store dies: the mailbox goes with it and every caller, which        *)
(* monitors it, exits.                                                     *)
StoreCrash ==
    /\ store # "down"
    /\ IF store = "inserting"
       THEN \E n \in 0..rows[Head(mailbox)] : Lands(n)
       ELSE UNCHANGED landed
    /\ store' = "down"
    /\ mailbox' = <<>>
    /\ hpc' = [r \in Rpcs |-> IF hpc[r] = "calling" THEN "failed" ELSE hpc[r]]
    /\ UNCHANGED <<received, accepted, rejected, rows, verdict>>

(* The supervisor starts it again, unless it has given up.  Ch connects    *)
(* lazily, so init succeeds.                                               *)
StoreRestart ==
    /\ store = "down"
    /\ store' = "idle"
    /\ UNCHANGED <<handlerVars, mailbox, batchVars>>

-----------------------------------------------------------------------------
Handler(r) ==
    \/ \E n \in 0..MaxRows : Receive(r, n)
    \/ ReceiveNoStore(r) \/ StreamEnds(r) \/ CallTimeout(r) \/ ConnectionLost(r)

Store == InsertNothing \/ InsertBegin \/ InsertOk \/ InsertFails

Next == (\E r \in Rpcs : Handler(r)) \/ Store \/ StoreCrash \/ StoreRestart

Spec == Init /\ [][Next]_vars

(* The Store is scheduled and ClickHouse, or its driver's own timeout,     *)
(* answers.  Nothing is assumed of the 30 s timer or of the clients.       *)
FairSpec == Spec /\ WF_vars(Store)

-----------------------------------------------------------------------------
(* Properties. *)

(* What a client is told: the rows of a batch counted as accepted are all  *)
(* in the table, and no batch is inserted twice, whichever callers have    *)
(* given up meanwhile and however often the Store has crashed.             *)
AcceptedLanded ==
    \A b \in Batches :
        /\ landed[b] <= rows[b]
        /\ verdict[b] = "ok" => landed[b] = rows[b]

(* A handler that waits has exactly one call pending, its current one; no  *)
(* RPC has two (an RPC whose handler died may leave one behind).  Without  *)
(* it an answer could reach the wrong turn of ingest_stream's reduce.      *)
OneCall ==
    /\ \A r \in Rpcs :
          hpc[r] = "calling" => \E i \in 1..Len(mailbox) : mailbox[i] = Current(r)
    /\ \A i \in 1..Len(mailbox) : mailbox[i] = Current(mailbox[i][1])
    /\ \A i, j \in 1..Len(mailbox) : mailbox[i][1] = mailbox[j][1] => i = j

(* Batches of r whose handler got the answer v. *)
With(r, v) == {b \in Batches : b[1] = r /\ verdict[b] = v}

Total(S) == MapThenSumSet(LAMBDA b : rows[b], S)

(* The response of an RPC accounts for every event the client sent: those  *)
(* of the batches that went in, and those of the batches that did not.     *)
Totals ==
    \A r \in Rpcs :
        /\ accepted[r] = Total(With(r, "ok"))
        /\ rejected[r] = Total(With(r, "error"))
        /\ hpc[r] = "done" =>
             accepted[r] + rejected[r] = Total({b \in Batches : b[1] = r})

(* A stream is inserted in order, a batch at a time: rows of a batch are   *)
(* in the table only when all its predecessors have been answered.         *)
StreamInOrder ==
    \A b \in Batches :
        landed[b] > 0 => \A k \in 1..(b[2] - 1) : verdict[<<b[1], k>>] # "none"

(* Every call ends, even if the 30 s timer never fires: by an answer, or   *)
(* because the Store is gone.                                              *)
CallEnds == \A r \in Rpcs : hpc[r] = "calling" ~> hpc[r] # "calling"
=============================================================================
