--------------------------- MODULE DeliveryProofs ---------------------------
(***************************************************************************)
(* What is proved of the delivery end to end, for every number of batches, *)
(* size of a batch and number of retries.  The collector's own invariant   *)
(* comes from CollectorProofs, of which the requests are the RPCs.         *)
(***************************************************************************)
EXTENDS Delivery, FiniteSetTheorems, TLAPS

CP == INSTANCE CollectorProofs
         WITH Rpcs <- Attempts, Streams <- {}, MaxBatches <- 1, MaxRows <- Rows

(* The batch of an attempt, as the collector knows it. *)
Part(r) == <<r, 1>>

(* max_retries + 1 requests for a batch, and each stores it at most once.  *)
AttemptsBounded ==
    /\ sent \subseteq Shipped \X (0..MaxRetries)
    /\ \A r \in Attempts :
          /\ landed[Part(r)] <= Rows
          /\ landed[Part(r)] > 0 => r \in sent

-----------------------------------------------------------------------------
(* The strengthening of AttemptsBounded and AcceptedStored. *)

Worker ==
    /\ batch \in 1..(MaxShipped + 1)
    /\ retries \in 0..MaxRetries
    /\ wpc \in WorkerPcs
    /\ wpc # "over" => batch \in Shipped
    /\ outcome \in [Shipped -> Outcomes]
    /\ sent \subseteq Shipped \X (0..MaxRetries)
    /\ wpc = "sending" => This \in sent

(* What a handler has told its client fits the Store's answer to it, and   *)
(* what it has received was sent.                                          *)
Answers ==
    \A r \in Attempts :
        /\ received[r] > 0 => r \in sent /\ rows[Part(r)] = Rows
        /\ hpc[r] = "done" => verdict[Part(r)] # "none"
        /\ verdict[Part(r)] = "error" => rejected[r] > 0

Accepted ==
    \A b \in Shipped :
        outcome[b] = "accepted" => \E r \in sent : r[1] = b /\ verdict[Part(r)] = "ok"

DeliveryInv ==
    /\ CP!IngestInv
    /\ Worker
    /\ Answers
    /\ Accepted

LEMMA Parts ==
    /\ CP!Batches = {Part(r) : r \in Attempts}
    /\ \A r \in Attempts : Part(r) \in CP!Batches /\ Part(r)[1] = r /\ Part(r)[2] = 1
BY DEF CP!Batches, Part

-----------------------------------------------------------------------------
(* Every step is one of the collector, or none. *)
LEMMA CollectorStep == sent \subseteq Attempts /\ [Next]_vars => [CP!Next]_CP!vars
<1> SUFFICES ASSUME sent \subseteq Attempts, [Next]_vars PROVE [CP!Next]_CP!vars
  OBVIOUS
<1> USE DEF CP!handlerVars, CP!storeVars, CP!batchVars,
            Col!handlerVars, Col!storeVars, Col!batchVars
<1>1. CASE UNCHANGED collectorVars
  BY <1>1 DEF collectorVars, CP!vars
<1>2. ASSUME NEW r \in Attempts, Arrives(r) PROVE CP!Next
  <2>1. CASE Col!Receive(r, Rows)
    <3>1. CP!Receive(r, Rows) /\ Rows \in 0..Rows
      BY <2>1, DeliveryAssumption DEF Col!Receive, CP!Receive
    <3> QED
      BY <3>1 DEF CP!Next, CP!Handler
  <2>2. CASE Col!ReceiveNoStore(r)
    BY <2>2 DEF Col!ReceiveNoStore, CP!ReceiveNoStore, CP!Next, CP!Handler
  <2> QED
    BY <1>2, <2>1, <2>2 DEF Arrives
<1>3. ASSUME NEW r \in Attempts, Col!CallTimeout(r) \/ Col!ConnectionLost(r) PROVE CP!Next
  <2>1. CP!CallTimeout(r) \/ CP!ConnectionLost(r)
    BY <1>3 DEF Col!CallTimeout, CP!CallTimeout, Col!ConnectionLost, CP!ConnectionLost
  <2> QED
    BY <2>1 DEF CP!Next, CP!Handler
<1>4. CASE Col!StoreCrash
  <2>1. CP!StoreCrash
    BY <1>4 DEF Col!StoreCrash, CP!StoreCrash, Col!Lands, CP!Lands
  <2> QED
    BY <2>1 DEF CP!Next
<1>5. CASE Col!InsertBegin \/ Col!InsertOk \/ Col!InsertFails \/ Col!StoreRestart
  <2>1. CP!InsertBegin \/ CP!InsertOk \/ CP!InsertFails \/ CP!StoreRestart
    BY <1>5 DEF Col!InsertBegin, CP!InsertBegin, Col!InsertOk, CP!InsertOk, Col!InsertFails,
                CP!InsertFails, Col!StoreRestart, CP!StoreRestart, Col!Lands, CP!Lands,
                Col!Reply, CP!Reply, Col!Answered, CP!Answered
  <2> QED
    BY <2>1 DEF CP!Next, CP!Store
<1>6. CASE Ship \/ SendError \/ ConnectError \/ UNCHANGED vars
  BY <1>1, <1>6 DEF Ship, SendError, ConnectError, RetryOrDrop, Send, Answered, Resume, vars
<1>7. CASE Serve
  <2>1. CASE Breaks
    BY <1>3, <1>4, <2>1 DEF Breaks
  <2> QED
    BY <1>2, <1>5, <1>7, <2>1 DEF Serve
<1> QED
  BY <1>6, <1>7 DEF Next

-----------------------------------------------------------------------------
(* A reply settles the first of the mailbox and nothing else. *)
LEMMA ReplyAnswers ==
    ASSUME CP!IngestInv, Answers, mailbox # <<>>,
           NEW v \in {"ok", "error"}, Col!Reply(Head(mailbox), v),
           UNCHANGED <<received, rows, sent>>
    PROVE  Answers' /\ \A r \in Attempts : verdict[Part(r)] = "ok" => verdict'[Part(r)] = "ok"
<1>1. PICK q \in Attempts : Head(mailbox) = Part(q) /\ received[q] = 1 /\ verdict[Part(q)] = "none"
  <2>1. /\ Head(mailbox) \in CP!Batches
        /\ Head(mailbox)[2] = received[Head(mailbox)[1]]
        /\ verdict[Head(mailbox)] = "none"
    BY CP!First, DeliveryAssumption
  <2> QED
    BY <2>1, Parts
<1>2. /\ hpc \in [Attempts -> CP!HandlerPcs] /\ rejected \in [Attempts -> Nat]
      /\ verdict \in [CP!Batches -> {"none", "ok", "error"}]
  BY DEF CP!IngestInv, CP!TypeOK
<1>3. rows[Part(q)] = Rows /\ Part(q)[1] = q
  BY <1>1, Parts DEF Answers
<1>4. \A r \in Attempts : r # q => Part(r) # Part(q)
  BY DEF Part
<1>5. CASE hpc[q] = "calling"
  <2>1. /\ hpc' = [hpc EXCEPT ![q] = "done"]
        /\ verdict' = [verdict EXCEPT ![Part(q)] = v]
        /\ rejected' = IF v = "error" THEN [rejected EXCEPT ![q] = @ + Rows] ELSE rejected
    BY <1>1, <1>3, <1>5 DEF Col!Reply, Col!Answered
  <2>2. ASSUME NEW r \in Attempts, r # q
        PROVE  hpc'[r] = hpc[r] /\ verdict'[Part(r)] = verdict[Part(r)] /\ rejected'[r] = rejected[r]
    BY <1>2, <1>4, <2>1, <2>2
  <2>3. verdict'[Part(q)] = v /\ (v = "error" => rejected'[q] > 0)
    BY <1>2, <2>1, Parts, DeliveryAssumption
  <2> QED
    BY <1>1, <2>2, <2>3 DEF Answers
<1>6. CASE hpc[q] # "calling"
  <2>1. UNCHANGED <<hpc, verdict, rejected>>
    BY <1>1, <1>3, <1>6 DEF Col!Reply
  <2> QED
    BY <2>1 DEF Answers
<1> QED
  BY <1>5, <1>6

(* The collector works. *)
LEMMA ServeAnswers ==
    ASSUME CP!IngestInv, Answers, sent \subseteq Attempts, Serve, UNCHANGED workerVars
    PROVE  Answers' /\ \A r \in Attempts : verdict[Part(r)] = "ok" => verdict'[Part(r)] = "ok"
<1> USE DEF Col!handlerVars, Col!storeVars, Col!batchVars
<1>1. UNCHANGED sent
  BY DEF workerVars
<1>2. /\ hpc \in [Attempts -> CP!HandlerPcs] /\ received \in [Attempts -> 0..1]
      /\ rows \in [CP!Batches -> Nat]
  BY DEF CP!IngestInv, CP!TypeOK
<1>3. ASSUME NEW r \in sent, Col!Receive(r, Rows)
      PROVE  Answers' /\ UNCHANGED verdict
  <2>1. /\ hpc' = [hpc EXCEPT ![r] = "calling"]
        /\ received' = [received EXCEPT ![r] = @ + 1]
        /\ rows' = [rows EXCEPT ![Part(r)] = Rows]
        /\ UNCHANGED <<rejected, verdict>>
    <3>1. received[r] = 0
      BY <1>2, <1>3 DEF Col!Receive
    <3> QED
      BY <1>3, <3>1 DEF Col!Receive, Part
  <2>2. r \in Attempts
    OBVIOUS
  <2>3. hpc'[r] = "calling" /\ rows'[Part(r)] = Rows
    BY <1>2, <2>1, <2>2, Parts
  <2>4. ASSUME NEW q \in Attempts, q # r
        PROVE  hpc'[q] = hpc[q] /\ rows'[Part(q)] = rows[Part(q)] /\ received'[q] = received[q]
    BY <1>2, <2>1, <2>4, Parts DEF Part
  <2> QED
    BY <1>1, <2>1, <2>2, <2>3, <2>4 DEF Answers
<1>4. ASSUME NEW r \in Attempts,
             Col!ReceiveNoStore(r) \/ Col!CallTimeout(r) \/ Col!ConnectionLost(r)
      PROVE  Answers' /\ UNCHANGED verdict
  <2>1. hpc' = [hpc EXCEPT ![r] = "failed"] /\ UNCHANGED <<received, rows, verdict, rejected>>
    BY <1>4 DEF Col!ReceiveNoStore, Col!CallTimeout, Col!ConnectionLost
  <2> QED
    BY <1>1, <1>2, <2>1 DEF Answers
<1>5. ASSUME Col!StoreCrash
      PROVE  Answers' /\ UNCHANGED verdict
  <2>1. /\ \A r \in Attempts : hpc'[r] = "done" => hpc[r] = "done"
        /\ UNCHANGED <<received, rows, verdict, rejected>>
    BY <1>5 DEF Col!StoreCrash
  <2> QED
    BY <1>1, <2>1 DEF Answers
<1>6. ASSUME Col!InsertBegin \/ Col!StoreRestart
      PROVE  Answers' /\ UNCHANGED verdict
  <2>1. UNCHANGED <<hpc, received, rows, verdict, rejected>>
    BY <1>6 DEF Col!InsertBegin, Col!StoreRestart
  <2> QED
    BY <1>1, <2>1 DEF Answers
<1>7. CASE Col!InsertOk \/ Col!InsertFails
  <2>1. mailbox # <<>>
    BY <1>7 DEF Col!InsertOk, Col!InsertFails, CP!IngestInv, CP!StoreFits
  <2>2. PICK v \in {"ok", "error"} : Col!Reply(Head(mailbox), v) /\ UNCHANGED <<received, rows>>
    BY <1>7 DEF Col!InsertOk, Col!InsertFails
  <2> QED
    BY <1>1, <2>1, <2>2, ReplyAnswers
<1> QED
  BY <1>3, <1>4, <1>5, <1>6, <1>7 DEF Serve, Arrives, Breaks

-----------------------------------------------------------------------------
(* The worker. *)
LEMMA SettleWorker ==
    ASSUME Worker, wpc # "over", NEW o \in Outcomes, Settle(o), UNCHANGED sent
    PROVE  /\ Worker'
           /\ \A b \in Shipped : outcome'[b] = IF b = batch THEN o ELSE outcome[b]
<1> USE DeliveryAssumption
<1>1. batch \in Shipped /\ outcome' = [outcome EXCEPT ![batch] = o]
  BY DEF Worker, Settle
<1>2. /\ batch' \in 1..(MaxShipped + 1) /\ retries' \in 0..MaxRetries
      /\ wpc' # "over" => batch' \in Shipped
      /\ wpc' \in WorkerPcs \ {"sending"}
  BY <1>1 DEF Settle, Shipped, WorkerPcs
<1> QED
  BY <1>1, <1>2 DEF Worker

LEMMA RetryWorker ==
    ASSUME Worker, Accepted, wpc # "over", RetryOrDrop
    PROVE  Worker' /\ Accepted'
<1> USE DeliveryAssumption
<1>1. UNCHANGED <<sent, verdict>>
  BY DEF RetryOrDrop, collectorVars
<1>2. CASE Settle("dropped")
  BY <1>1, <1>2, SettleWorker DEF Accepted, Outcomes
<1>3. CASE /\ retries + 1 <= MaxRetries
           /\ retries' = retries + 1 /\ wpc' = "backoff" /\ UNCHANGED <<batch, outcome>>
  BY <1>1, <1>3 DEF Worker, Accepted, WorkerPcs
<1> QED
  BY <1>2, <1>3 DEF RetryOrDrop, Worker

LEMMA WorkerStep ==
    ASSUME DeliveryInv, Ship \/ SendError \/ ConnectError
    PROVE  Worker' /\ Answers' /\ Accepted'
<1> USE DeliveryAssumption
<1>1. UNCHANGED <<hpc, received, rows, verdict, rejected>>
  BY DEF Ship, SendError, ConnectError, RetryOrDrop, Send, Answered, Resume, collectorVars
<1>2. sent \subseteq sent'
  BY DEF Ship, SendError, ConnectError, RetryOrDrop, Send, Answered, Resume
<1>3. Answers'
  BY <1>1, <1>2 DEF DeliveryInv, Answers
<1>4. CASE Send
  <2>1. This \in Shipped \X (0..MaxRetries) /\ This' = This
    BY <1>4 DEF DeliveryInv, Worker, Send, This
  <2>2. Worker'
    BY <1>4, <2>1 DEF DeliveryInv, Worker, Send, WorkerPcs
  <2>3. Accepted'
    BY <1>1, <1>2, <1>4 DEF DeliveryInv, Accepted, Send
  <2> QED
    BY <1>3, <2>2, <2>3
<1>5. CASE Resume
  BY <1>1, <1>3, <1>5 DEF DeliveryInv, Worker, Accepted, Resume, WorkerPcs
<1>6. CASE Answered
  <2>1. PICK o \in {"rejected", "accepted"} :
            Settle(o) /\ (o = "accepted" => ~(rejected[This] > 0))
    BY <1>6 DEF Answered
  <2>2. /\ Worker' /\ UNCHANGED sent
        /\ \A b \in Shipped : outcome'[b] = IF b = batch THEN o ELSE outcome[b]
    BY <1>6, <2>1, SettleWorker DEF DeliveryInv, Answered, Outcomes
  <2>3. /\ This \in sent /\ This \in Attempts /\ This[1] = batch
        /\ hpc[This] = "done"
    BY <1>6 DEF DeliveryInv, Worker, Answered, This, Attempts
  <2>4. verdict[Part(This)] \in {"none", "ok", "error"}
    BY <2>3, Parts DEF DeliveryInv, CP!IngestInv, CP!TypeOK
  <2>5. o = "accepted" => verdict[Part(This)] = "ok"
    BY <2>1, <2>3, <2>4 DEF DeliveryInv, Answers
  <2>6. Accepted'
    BY <1>1, <2>2, <2>3, <2>5 DEF DeliveryInv, Accepted
  <2> QED
    BY <1>3, <2>2, <2>6
<1>7. CASE SendError \/ ConnectError
  BY <1>3, <1>7, RetryWorker DEF DeliveryInv, SendError, ConnectError
<1> QED
  BY <1>4, <1>5, <1>6, <1>7 DEF Ship

LEMMA DeliveryStep == DeliveryInv /\ [Next]_vars => DeliveryInv'
<1> SUFFICES ASSUME DeliveryInv, [Next]_vars PROVE DeliveryInv'
  OBVIOUS
<1>1. sent \subseteq Attempts
  BY DeliveryAssumption DEF DeliveryInv, Worker, Attempts
<1>2. CP!IngestInv'
  BY <1>1, CollectorStep, CP!IngestStep, DeliveryAssumption DEF DeliveryInv
<1>3. CASE Ship \/ SendError \/ ConnectError
  BY <1>2, <1>3, WorkerStep DEF DeliveryInv
<1>4. CASE Serve /\ UNCHANGED workerVars
  <2>1. Answers' /\ \A r \in Attempts : verdict[Part(r)] = "ok" => verdict'[Part(r)] = "ok"
    BY <1>1, <1>4, ServeAnswers DEF DeliveryInv
  <2>2. Worker' /\ Accepted'
    BY <1>1, <1>4, <2>1 DEF DeliveryInv, Worker, Accepted, workerVars, This
  <2> QED
    BY <1>2, <2>1, <2>2 DEF DeliveryInv
<1>5. CASE UNCHANGED vars
  BY <1>2, <1>5 DEF DeliveryInv, Worker, Answers, Accepted, This, vars, workerVars, collectorVars
<1> QED
  BY <1>3, <1>4, <1>5 DEF Next

LEMMA DeliveryInit == Init => DeliveryInv
<1> SUFFICES ASSUME Init PROVE DeliveryInv
  OBVIOUS
<1> USE DeliveryAssumption
<1>1. CP!IngestInv
  <2>1. CP!Init
    BY DEF Init, Col!Init, CP!Init, Col!Batches, CP!Batches
  <2> QED
    BY <2>1, CP!IngestInit
<1>2. Worker /\ Accepted
  BY DEF Init, Worker, Accepted, WorkerPcs, Outcomes, Shipped
<1>3. Answers
  BY Parts DEF Init, Col!Init, Col!Batches, CP!Batches, Answers
<1> QED
  BY <1>1, <1>2, <1>3 DEF DeliveryInv

-----------------------------------------------------------------------------
(* An attempt stores its batch at most once, and only if it was sent. *)
LEMMA AttemptStores ==
    ASSUME DeliveryInv, NEW r \in Attempts
    PROVE  /\ landed[Part(r)] \in Nat /\ landed[Part(r)] <= Rows
           /\ landed[Part(r)] > 0 => r \in sent
<1>1. /\ received[r] \in 0..1 /\ landed[Part(r)] \in Nat /\ rows[Part(r)] \in Nat
      /\ landed[Part(r)] <= rows[Part(r)]
  BY Parts DEF DeliveryInv, CP!IngestInv, CP!TypeOK, CP!AcceptedLanded
<1>2. CASE received[r] = 0
  BY <1>1, <1>2, Parts, DeliveryAssumption DEF DeliveryInv, CP!IngestInv, CP!Future
<1>3. CASE received[r] > 0
  BY <1>1, <1>3 DEF DeliveryInv, Answers
<1> QED
  BY <1>1, <1>2, <1>3

(* However attempts time out and land late, at most max_retries + 1 of     *)
(* them are made for a batch, and each stores it at most once              *)
(* (batch/worker.rs, store.ex): what bounds the copies in the table.       *)
THEOREM AttemptsBoundedHolds == Spec => []AttemptsBounded
<1>1. DeliveryInv => AttemptsBounded
  BY AttemptStores DEF DeliveryInv, Worker, AttemptsBounded
<1> QED
  BY <1>1, DeliveryInit, DeliveryStep, PTL DEF Spec

(* CollectorProofs speaks of the same finite sets. *)
LEMMA SameSets ==
    \A X : /\ CP!IsFiniteSet(X) <=> IsFiniteSet(X)
           /\ CP!Cardinality(X) = Cardinality(X)
BY DEF IsFiniteSet, CP!IsFiniteSet, Cardinality, CP!Cardinality

(* At most max_retries + 1 requests carry the same batch. *)
LEMMA FewAttempts ==
    ASSUME NEW b \in Shipped, sent \subseteq Shipped \X (0..MaxRetries)
    PROVE  /\ IsFiniteSet({r \in Attempts : r[1] = b})
           /\ IsFiniteSet({r \in sent : r[1] = b})
           /\ Cardinality({r \in sent : r[1] = b}) <= MaxRetries + 1
<1> DEFINE row(n) == {b} \X (0..n)
<1>1. ASSUME NEW n \in Nat
      PROVE  IsFiniteSet(row(n)) /\ Cardinality(row(n)) = n + 1
  <2>1. IsFiniteSet({b}) /\ Cardinality({b}) = 1
    BY FS_Singleton
  <2>2. IsFiniteSet(0..n) /\ Cardinality(0..n) = n + 1
    <3>1. 0 \in Int /\ n \in Int
      OBVIOUS
    <3> QED BY <3>1, FS_Interval
  <2>3. IsFiniteSet(row(n)) /\ Cardinality(row(n)) = Cardinality({b}) * Cardinality(0..n)
    BY <2>1, <2>2, FS_Product
  <2> QED BY <2>1, <2>2, <2>3
<1>2. MaxRetries \in Nat /\ MaxRetries + 1 \in Nat
  BY DeliveryAssumption
<1>3. {r \in Attempts : r[1] = b} \subseteq row(MaxRetries + 1)
  BY DEF Attempts
<1>4. {r \in sent : r[1] = b} \subseteq row(MaxRetries)
  OBVIOUS
<1> HIDE DEF row
<1>5. IsFiniteSet({r \in Attempts : r[1] = b})
  BY <1>1, <1>2, <1>3, FS_Subset
<1>6. /\ IsFiniteSet({r \in sent : r[1] = b})
      /\ Cardinality({r \in sent : r[1] = b}) <= MaxRetries + 1
  BY <1>1, <1>2, <1>4, FS_Subset
<1> QED
  BY <1>5, <1>6

(* The events table never holds a batch more often than it was sent, nor   *)
(* more often than max_retries + 1 times: the copies of a batch are the    *)
(* sum over its attempts (ship in batch/worker.rs, store.ex).              *)
THEOREM CopiesBoundedHolds == Spec => []CopiesBounded
<1>1. ASSUME DeliveryInv, NEW b \in Shipped
      PROVE  /\ Copies(b) <= Rows * Cardinality({r \in sent : r[1] = b})
             /\ Copies(b) <= Rows * (MaxRetries + 1)
  <2> DEFINE stored == [r \in Attempts |-> landed[Part(r)]]
             all == {r \in Attempts : r[1] = b}
             made == {r \in sent : r[1] = b}
             rest == all \ made
  <2>1. sent \subseteq Shipped \X (0..MaxRetries)
    BY <1>1 DEF DeliveryInv, Worker
  <2>2. IsFiniteSet(all) /\ IsFiniteSet(made) /\ Cardinality(made) <= MaxRetries + 1
    BY <2>1, FewAttempts
  <2>3. made \cup rest = all /\ made \cap rest = {}
    BY <2>1, DeliveryAssumption DEF Attempts
  <2>4. \A r \in all : stored[r] \in Nat /\ stored[r] <= Rows
    BY <1>1, AttemptStores
  <2>5. \A r \in rest : stored[r] = 0
    BY <1>1, AttemptStores
  <2>6. Copies(b) = CP!Sum(stored, all)
    BY DEF Copies, CP!Sum, Part, MapThenSumSet, MapThenFoldSet,
           CP!MapThenSumSet, CP!MapThenFoldSet
  <2>7. IsFiniteSet(rest)
    BY <2>2, FS_Difference
  <2>8. Cardinality(made) \in Nat
    BY <2>2, FS_CardinalityType
  <2> HIDE DEF stored, all, made, rest
  <2>9. CP!Sum(stored, all) = CP!Sum(stored, made) + CP!Sum(stored, rest)
    BY <2>2, <2>3, <2>4, <2>7, DeliveryAssumption, SameSets, CP!SumUnion
  <2>10. CP!Sum(stored, rest) = 0
    BY <2>5, <2>7, DeliveryAssumption, SameSets, CP!SumZero
  <2>11. CP!Sum(stored, made) <= Rows * Cardinality(made) /\ CP!Sum(stored, made) \in Nat
    <3>1. Rows \in Nat /\ made \in SUBSET made
      BY DeliveryAssumption
    <3>2. \A r \in made : stored[r] \in Nat /\ stored[r] <= Rows
      BY <2>3, <2>4
    <3>3. CP!Sum(stored, made) <= Rows * Cardinality(made)
      BY <2>2, <3>1, <3>2, DeliveryAssumption, SameSets, CP!SumBound
    <3>4. \A s \in SUBSET made : CP!Sum(stored, s) \in Nat
      BY <2>2, <3>2, DeliveryAssumption, SameSets, CP!SumType
    <3> QED BY <3>1, <3>3, <3>4
  <2>12. Rows * Cardinality(made) <= Rows * (MaxRetries + 1) /\ Rows * Cardinality(made) \in Nat
    <3>1. \A n, c, d \in Nat : c <= d => n * c <= n * d /\ n * c \in Nat
      OBVIOUS
    <3> QED BY <2>2, <2>8, <3>1, DeliveryAssumption
  <2>13. Rows * (MaxRetries + 1) \in Nat
    BY DeliveryAssumption
  <2> QED
    BY <2>6, <2>9, <2>10, <2>11, <2>12, <2>13 DEF made
<1>2. DeliveryInv => CopiesBounded
  BY <1>1 DEF CopiesBounded
<1> QED
  BY <1>2, DeliveryInit, DeliveryStep, PTL DEF Spec

(* A batch that the SDK has seen accepted is whole in the table, put there *)
(* by one of its attempts (ship in batch/worker.rs, server.ex, store.ex).  *)
THEOREM AcceptedStoredHolds == Spec => []AcceptedStored
<1>1. DeliveryInv => AcceptedStored
  <2> SUFFICES ASSUME DeliveryInv, NEW b \in Shipped, outcome[b] = "accepted"
               PROVE  \E r \in sent : r[1] = b /\ landed[Part(r)] = Rows
    BY DEF AcceptedStored, Part
  <2>1. PICK r \in sent : r[1] = b /\ verdict[Part(r)] = "ok"
    BY DEF DeliveryInv, Accepted
  <2>2. r \in Attempts
    BY DeliveryAssumption DEF DeliveryInv, Worker, Attempts
  <2>3. landed[Part(r)] = rows[Part(r)]
    BY <2>1, <2>2, Parts DEF DeliveryInv, CP!IngestInv, CP!AcceptedLanded
  <2>4. received[r] > 0
    <3>1. received[r] \in 0..1 /\ Part(r) \in CP!Batches /\ Part(r)[1] = r /\ Part(r)[2] = 1
      BY <2>2, Parts DEF DeliveryInv, CP!IngestInv, CP!TypeOK
    <3>2. ~(Part(r)[2] > received[Part(r)[1]])
      BY <2>1, <3>1 DEF DeliveryInv, CP!IngestInv, CP!Future
    <3> QED
      BY <3>1, <3>2
  <2> QED
    BY <2>1, <2>2, <2>3, <2>4 DEF DeliveryInv, Answers
<1> QED
  BY <1>1, DeliveryInit, DeliveryStep, PTL DEF Spec

(* The composition implements the collector, one RPC to an attempt:        *)
(* whatever the worker, the network and the Store do, the collector does   *)
(* nothing its own module does not allow.                                  *)
THEOREM ImplementsCollector == Spec => CP!Spec
<1>1. Init => CP!Init
  BY DEF Init, Col!Init, CP!Init, Col!Batches, CP!Batches
<1>2. DeliveryInv => sent \subseteq Attempts
  BY DeliveryAssumption DEF DeliveryInv, Worker, Attempts
<1>3. DeliveryInv /\ [Next]_vars => [CP!Next]_CP!vars
  BY <1>2, CollectorStep
<1> QED
  BY <1>1, <1>3, DeliveryInit, DeliveryStep, PTL DEF Spec, CP!Spec
=============================================================================
