-------------------------- MODULE BatchWorkerProofs --------------------------
(***************************************************************************)
(* What is proved of the batching engine for every batch size, capacity,   *)
(* retry budget, set of flush callers and number of events.                *)
(***************************************************************************)
EXTENDS BatchWorker, SequenceTheorems, TLAPS

(* Moving elements between sequences keeps the sequences' type. *)
LEMMA ConcatType ==
    ASSUME NEW S, NEW s \in Seq(S), NEW t \in Seq(S)
    PROVE  s \o t \in Seq(S) /\ <<>> \in Seq(S)
  BY ConcatProperties, EmptySeq

LEMMA AppendType ==
    ASSUME NEW S, NEW s \in Seq(S), NEW e \in S
    PROVE  Append(s, e) \in Seq(S)
  BY AppendProperties

LEMMA HeadTailType ==
    ASSUME NEW S, NEW s \in Seq(S), s # <<>>
    PROVE  Head(s) \in S /\ Tail(s) \in Seq(S)
  BY HeadTailProperties

LEMMA RemoveAtType ==
    ASSUME NEW S, NEW s \in Seq(S), NEW i \in DOMAIN s
    PROVE  RemoveAt(s, i) \in Seq(S)
<1>1. i \in 1..Len(s) /\ Len(s) \in Nat
  BY LenProperties
<1>2. \A j \in 1..(i - 1) : s[j] \in S
  BY <1>1, ElementOfSeq
<1>3. \A j \in (i + 1)..Len(s) : s[j] \in S
  BY <1>1, ElementOfSeq
<1>4. SubSeq(s, 1, i - 1) \in Seq(S)
  BY <1>1, <1>2, SubSeqProperties
<1>5. SubSeq(s, i + 1, Len(s)) \in Seq(S)
  BY <1>1, <1>3, SubSeqProperties
<1> QED
  BY <1>4, <1>5, ConcatProperties DEF RemoveAt

USE DEF channelVars, workerVars, flushVars, settleVars

(* Every step keeps every variable in its type: in particular the retry    *)
(* counter of ship() within its budget.                                    *)
LEMMA TypeStep == TypeOK /\ [Next]_vars => TypeOK'
<1> SUFFICES ASSUME TypeOK, [Next]_vars
             PROVE  TypeOK'
  OBVIOUS
<1> USE ConfigAssumption, BoundsAssumption
<1>1. CASE SubmitAccepted
  BY <1>1, AppendType DEF TypeOK, SubmitAccepted, Events
<1>2. CASE SubmitFull
  BY <1>2 DEF TypeOK, SubmitFull
<1>3. CASE SubmitDisconnected
  BY <1>3 DEF TypeOK, SubmitDisconnected
<1>4. ASSUME WorkerGone
      PROVE  TypeOK'
  BY <1>4, ConcatType DEF TypeOK, WorkerGone, DropNotified, Requested, Settle, WorkerPcs, Fates
<1>5. CASE WorkerStart
  BY <1>5 DEF TypeOK, WorkerStart, WorkerPcs
<1>6. CASE WorkerStartFails \/ RuntimeShutdown
  BY <1>6, <1>4 DEF WorkerStartFails, RuntimeShutdown
<1>7. CASE Tick
  BY <1>7 DEF TypeOK, Tick, DropNotified, Requested, EnterShip, WorkerPcs
<1>8. CASE FlushArm
  BY <1>8 DEF TypeOK, FlushArm, TakeNotification, WorkerPcs
<1>9. CASE DrainOne
  BY <1>9, AppendType, HeadTailType DEF TypeOK, DrainOne, AfterDrain, EnterShip, WorkerPcs
<1>10. CASE DrainEmpty
  BY <1>10 DEF TypeOK, DrainEmpty, AfterDrain, EnterShip, WorkerPcs
<1>11. CASE ShipBegin
  BY <1>11, ConcatType DEF TypeOK, ShipBegin, CountTry, WorkerPcs
<1>12. CASE ShipUnreachable
  BY <1>12 DEF TypeOK, ShipUnreachable, WorkerPcs, NoGoal
<1>13. CASE ShipUnencodable
  BY <1>13, ConcatType DEF TypeOK, ShipUnencodable, Settle, WorkerPcs, Fates
<1>14. CASE SendOk
  BY <1>14, ConcatType DEF TypeOK, SendOk, ShipReturns, Settle, WorkerPcs, Fates
<1>15. ASSUME RetryOrGiveUp, client' \in BOOLEAN, pc \in {"send", "backoff"}
       PROVE  TypeOK'
  <2>1. CASE retries + 1 > MaxRetries
    <3>1. ShipReturns("expired") /\ UNCHANGED <<channelVars, buffer, ret, retries,
                                               flushVars, handle, tries, goal>>
      BY <1>15, <2>1 DEF RetryOrGiveUp
    <3>2. settled' \in Seq(Events) /\ inflight' \in Seq(Events)
      BY <3>1, ConcatType DEF TypeOK, ShipReturns, Settle
    <3>3. fate' \in [Events -> Fates \cup {"none"}]
      BY <3>1 DEF TypeOK, ShipReturns, Settle, Fates
    <3> QED
      BY <1>15, <3>1, <3>2, <3>3 DEF TypeOK, ShipReturns, WorkerPcs
  <2>2. CASE ~(retries + 1 > MaxRetries)
    BY <1>15, <2>2 DEF TypeOK, RetryOrGiveUp, WorkerPcs
  <2> QED
    BY <2>1, <2>2
<1>16. CASE Resend
  BY <1>16 DEF TypeOK, Resend, CountTry, WorkerPcs
<1>17. CASE SendErr \/ ReconnectFails
  BY <1>15, <1>17 DEF SendErr, ReconnectFails, TypeOK
<1>18. CASE NotifyDone
  <2>1. CASE waiters # <<>>
    <3>1. /\ waiters' = Tail(waiters)
          /\ fpc' = [fpc EXCEPT ![Head(waiters)] = "idle"]
          /\ goal' = [goal EXCEPT ![Head(waiters)] = NoGoal]
          /\ flushDone' = flushDone
      BY <1>18, <2>1 DEF NotifyDone
    <3>2. waiters' \in Seq(Flushers)
      BY <2>1, <3>1, HeadTailType DEF TypeOK
    <3>3. fpc' \in [Flushers -> {"idle", "called", "waiting"}]
      BY <3>1 DEF TypeOK
    <3>4. goal' \in [Flushers -> [all : Nat, from : Nat]]
      BY <3>1 DEF TypeOK, NoGoal
    <3> QED
      BY <1>18, <3>1, <3>2, <3>3, <3>4 DEF TypeOK, NotifyDone, WorkerPcs
  <2>2. CASE waiters = <<>>
    BY <1>18, <2>2 DEF TypeOK, NotifyDone, WorkerPcs
  <2> QED
    BY <2>1, <2>2
<1>19. ASSUME NEW f \in Flushers, FlushCall(f)
       PROVE  TypeOK'
  <2>1. flushNotify' \in BOOLEAN /\ flushHanded' \in BOOLEAN
    BY <1>19 DEF TypeOK, FlushCall, NotifyWorker
  <2>2. goal' \in [Flushers -> [all : Nat, from : Nat]]
    BY <1>19, LenProperties DEF TypeOK, FlushCall, NoGoal
  <2> QED
    BY <1>19, <2>1, <2>2 DEF TypeOK, FlushCall
<1>20. ASSUME NEW f \in Flushers, FlushWait(f)
       PROVE  TypeOK'
  <2>1. CASE flushDone
    <3>1. /\ flushDone' = FALSE
          /\ fpc' = [fpc EXCEPT ![f] = "idle"]
          /\ goal' = [goal EXCEPT ![f] = NoGoal]
          /\ waiters' = waiters
      BY <1>20, <2>1 DEF FlushWait
    <3>2. fpc' \in [Flushers -> {"idle", "called", "waiting"}]
      BY <3>1 DEF TypeOK
    <3>3. goal' \in [Flushers -> [all : Nat, from : Nat]]
      BY <3>1 DEF TypeOK, NoGoal
    <3> QED
      BY <1>20, <3>1, <3>2, <3>3 DEF TypeOK, FlushWait
  <2>2. CASE ~flushDone
    <3>1. /\ waiters' = Append(waiters, f)
          /\ fpc' = [fpc EXCEPT ![f] = "waiting"]
          /\ UNCHANGED <<flushDone, goal>>
      BY <1>20, <2>2 DEF FlushWait
    <3>2. waiters' \in Seq(Flushers)
      BY <3>1, AppendType DEF TypeOK
    <3>3. fpc' \in [Flushers -> {"idle", "called", "waiting"}]
      BY <3>1 DEF TypeOK
    <3> QED
      BY <1>20, <3>1, <3>2, <3>3 DEF TypeOK, FlushWait
  <2> QED
    BY <2>1, <2>2
<1>21. ASSUME NEW f \in Flushers, FlushAbandoned(f)
       PROVE  TypeOK'
  BY <1>21, RemoveAtType DEF TypeOK, FlushAbandoned, NoGoal
<1>22. CASE DropBegin
  BY <1>22 DEF TypeOK, DropBegin, NotifyWorker
<1>23. CASE DropEnd
  BY <1>23 DEF TypeOK, DropEnd
<1>24. CASE UNCHANGED vars
  BY <1>24 DEF TypeOK, vars
<1> QED
  BY <1>1, <1>2, <1>3, <1>5, <1>6, <1>7, <1>8, <1>9, <1>10, <1>11, <1>12, <1>13,
     <1>14, <1>16, <1>17, <1>18, <1>19, <1>20, <1>21, <1>22, <1>23, <1>24
  DEF Next, Submit, Worker, Flush

LEMMA TypeInit == Init => TypeOK
<1> SUFFICES ASSUME Init PROVE TypeOK
  OBVIOUS
<1>1. <<>> \in Seq(Events) /\ <<>> \in Seq(Flushers)
  BY EmptySeq
<1>2. next \in 1..(MaxEvents + 1) /\ retries \in 0..MaxRetries
  BY ConfigAssumption, BoundsAssumption DEF Init
<1> QED
  BY <1>1, <1>2 DEF Init, TypeOK, WorkerPcs, NoGoal, Fates

(* Every variable keeps its type, and the retry counter its budget.        *)
THEOREM TypeCorrect == Spec => []TypeOK
  BY TypeInit, TypeStep, PTL DEF Spec

-----------------------------------------------------------------------------
(* Where events can be: ship() empties the buffer before it sends, and has *)
(* no batch in hand anywhere else.                                         *)
Phases ==
    /\ pc \notin {"send", "backoff"} => inflight = <<>>
    /\ pc \in {"send", "backoff"} => buffer = <<>>

LEMMA PhasesStep == TypeOK /\ Phases /\ [Next]_vars => Phases'
<1> SUFFICES ASSUME TypeOK, Phases, [Next]_vars
             PROVE  Phases'
  OBVIOUS
<1>1. CASE Submit \/ Flush \/ DropBegin \/ DropEnd \/ UNCHANGED vars
  BY <1>1 DEF Phases, Submit, SubmitAccepted, SubmitFull, SubmitDisconnected, Flush,
     FlushCall, FlushWait, FlushAbandoned, DropBegin, DropEnd, vars
<1>2. CASE WorkerStartFails \/ RuntimeShutdown
  BY <1>2 DEF Phases, WorkerStartFails, RuntimeShutdown, WorkerGone
<1>3. CASE WorkerStart \/ Tick \/ FlushArm \/ NotifyDone
  BY <1>3 DEF Phases, WorkerStart, Tick, FlushArm, NotifyDone, EnterShip
<1>4. CASE DrainOne \/ DrainEmpty
  BY <1>4 DEF Phases, DrainOne, DrainEmpty, AfterDrain, EnterShip
<1>5. CASE ShipBegin \/ ShipUnreachable \/ ShipUnencodable
  BY <1>5 DEF TypeOK, Phases, ShipBegin, ShipUnreachable, ShipUnencodable
<1>6. CASE SendOk \/ SendErr \/ Resend \/ ReconnectFails
  BY <1>6 DEF TypeOK, Phases, SendOk, SendErr, Resend, ReconnectFails, RetryOrGiveUp, ShipReturns
<1> QED
  BY <1>1, <1>2, <1>3, <1>4, <1>5, <1>6 DEF Next, Worker

(* The sizes drain_channel and ship leave behind while connected.          *)
Sizes ==
    client => /\ Len(buffer) <= BatchSize
              /\ pc \in {"start", "select", "drain", "drainF"} => Len(buffer) < BatchSize
              /\ pc = "notify" => buffer = <<>>

LEMMA SizesStep ==
    TypeOK /\ Phases /\ Sizes /\ [Next]_vars => Sizes'
<1> SUFFICES ASSUME TypeOK, Phases, Sizes, [Next]_vars
             PROVE  Sizes'
  OBVIOUS
<1> USE ConfigAssumption
<1>e. Len(<<>>) = 0
  BY EmptySeq
<1>z. buffer' = <<>> => Len(buffer') < BatchSize /\ Len(buffer') <= BatchSize
  BY <1>e
<1>l. Len(buffer) \in Nat
  BY LenProperties DEF TypeOK
<1>1. CASE Submit \/ Flush \/ DropBegin \/ DropEnd \/ UNCHANGED vars
  BY <1>1 DEF Sizes, Submit, SubmitAccepted, SubmitFull, SubmitDisconnected, Flush,
     FlushCall, FlushWait, FlushAbandoned, DropBegin, DropEnd, vars
<1>2. CASE WorkerStartFails \/ RuntimeShutdown
  <2>1. buffer' = <<>>
    BY <1>2 DEF WorkerStartFails, RuntimeShutdown, WorkerGone
  <2> QED
    BY <2>1, <1>z DEF Sizes
<1>3. CASE WorkerStart \/ Tick \/ FlushArm
  BY <1>3 DEF Sizes, WorkerStart, Tick, FlushArm, EnterShip
<1>4. CASE NotifyDone
  BY <1>4, <1>z DEF Sizes, NotifyDone
<1>5. CASE DrainOne
  <2>0. Head(queue) \in Events
    BY <1>5, HeadTailType DEF TypeOK, DrainOne
  <2>a. buffer' = Append(buffer, Head(queue)) /\ buffer \in Seq(Events)
    BY <1>5 DEF TypeOK, DrainOne
  <2>b. Len(Append(buffer, Head(queue))) = Len(buffer) + 1
    BY <2>0, <2>a, AppendProperties
  <2>c. Append(buffer, Head(queue)) # <<>>
    BY <2>0, <2>a, AppendProperties
  <2>1. Len(buffer') = Len(buffer) + 1 /\ buffer' # <<>>
    BY <2>a, <2>b, <2>c
  <2>2. CASE Len(buffer') >= BatchSize
    BY <1>5, <1>l, <2>1, <2>2 DEF Sizes, DrainOne, AfterDrain, EnterShip
  <2>3. CASE ~(Len(buffer') >= BatchSize)
    BY <1>5, <1>l, <2>1, <2>3 DEF Sizes, DrainOne
  <2> QED
    BY <2>2, <2>3
<1>6. CASE DrainEmpty
  BY <1>6, <1>l DEF Sizes, DrainEmpty, AfterDrain, EnterShip
<1>7. CASE ShipBegin \/ ShipUnreachable \/ ShipUnencodable
  <2>1. CASE ShipUnreachable
    BY <2>1 DEF TypeOK, Sizes, ShipUnreachable
  <2>2. CASE ShipBegin \/ ShipUnencodable
    BY <2>2, <1>z DEF Sizes, ShipBegin, ShipUnencodable
  <2> QED
    BY <1>7, <2>1, <2>2
<1>8. CASE SendOk \/ SendErr \/ Resend \/ ReconnectFails
  <2>1. buffer' = <<>>
    BY <1>8 DEF Phases, SendOk, SendErr, Resend, ReconnectFails, RetryOrGiveUp
  <2> QED
    BY <2>1, <1>z DEF Sizes
<1> QED
  BY <1>1, <1>2, <1>3, <1>4, <1>5, <1>6, <1>7, <1>8 DEF Next, Worker

(* Whatever the sizes configured, a batch exceeds batch_size only after    *)
(* the collector could not be reached.                                     *)
THEOREM OversizeOnlyWhenDisconnectedHolds == Spec => []OversizeOnlyWhenDisconnected
<1>1. Init => Phases /\ Sizes
  BY DEF Init, Phases, Sizes
<1>2. Spec => [](TypeOK /\ Phases /\ Sizes)
  <2>1. TypeOK /\ Phases /\ Sizes /\ [Next]_vars => (TypeOK /\ Phases /\ Sizes)'
    BY TypeStep, PhasesStep, SizesStep
  <2> QED
    BY <1>1, <2>1, TypeInit, PTL DEF Spec
<1>3. Sizes => OversizeOnlyWhenDisconnected
  BY DEF Sizes, OversizeOnlyWhenDisconnected
<1> QED
  BY <1>2, <1>3, PTL

-----------------------------------------------------------------------------
(* What the steps do to the pending events, as facts about sequences.      *)

LEMMA PendingAppend ==
    ASSUME NEW S, NEW s \in Seq(S), NEW t \in Seq(S), NEW e \in S
    PROVE  s \o Append(t, e) = Append(s \o t, e)
<1>1. /\ <<e>> \in Seq(S)
      /\ s \o t \in Seq(S)
  BY ConcatProperties
<1>2. s \o (t \o <<e>>) = (s \o t) \o <<e>>
  BY <1>1, ConcatAssociative
<1>3. Append(t, e) = t \o <<e>>
  BY AppendIsConcat
<1>4. Append(s \o t, e) = (s \o t) \o <<e>>
  BY <1>1, AppendIsConcat
<1> QED
  BY <1>2, <1>3, <1>4

LEMMA HeadTailConcat ==
    ASSUME NEW S, NEW q \in Seq(S), q # <<>>
    PROVE  <<Head(q)>> \o Tail(q) = q
<1>1. /\ Head(q) \in S
      /\ Tail(q) \in Seq(S)
      /\ Len(Tail(q)) = Len(q) - 1
      /\ \A j \in 1..Len(Tail(q)) : Tail(q)[j] = q[j + 1]
  BY HeadTailProperties
<1>2. Len(q) \in Nat /\ Len(q) # 0
  BY EmptySeq
<1>3. <<Head(q)>> \in Seq(S) /\ Len(<<Head(q)>>) = 1 /\ <<Head(q)>>[1] = Head(q)
  BY <1>1
<1>4. Head(q) = q[1]
  BY <1>2
<1> DEFINE t == <<Head(q)>> \o Tail(q)
<1>5. /\ t \in Seq(S)
      /\ Len(t) = Len(q)
  BY <1>1, <1>2, <1>3, ConcatProperties
<1>6. ASSUME NEW k \in 1..Len(t)
      PROVE  t[k] = q[k]
  <2>1. t[k] = IF k <= 1 THEN <<Head(q)>>[k] ELSE Tail(q)[k - 1]
    BY <1>1, <1>3, <1>5, ConcatProperties
  <2>2. CASE k = 1
    BY <2>1, <2>2, <1>3, <1>4
  <2>3. CASE k # 1
    <3>1. k - 1 \in 1..Len(Tail(q)) /\ (k - 1) + 1 = k
      BY <2>3, <1>1, <1>2, <1>5
    <3> QED
      BY <2>1, <2>3, <3>1, <1>1
  <2> QED
    BY <2>2, <2>3
<1> HIDE DEF t
<1>7. t = q
  BY <1>5, <1>6, SeqEqual
<1> QED
  BY <1>7 DEF t

LEMMA PendingDrain ==
    ASSUME NEW S, NEW s \in Seq(S), NEW b \in Seq(S), NEW q \in Seq(S), q # <<>>
    PROVE  (s \o Append(b, Head(q))) \o Tail(q) = (s \o b) \o q
<1>1. /\ Head(q) \in S
      /\ Tail(q) \in Seq(S)
      /\ <<Head(q)>> \in Seq(S)
      /\ s \o b \in Seq(S)
  BY HeadTailType, ConcatType
<1>2. s \o Append(b, Head(q)) = Append(s \o b, Head(q))
  BY <1>1, PendingAppend
<1>3. Append(s \o b, Head(q)) = (s \o b) \o <<Head(q)>>
  BY <1>1, AppendIsConcat
<1>4. ((s \o b) \o <<Head(q)>>) \o Tail(q) = (s \o b) \o (<<Head(q)>> \o Tail(q))
  BY <1>1, ConcatAssociative, SMTT(30)
<1>5. <<Head(q)>> \o Tail(q) = q
  BY HeadTailConcat
<1> QED
  BY <1>2, <1>3, <1>4, <1>5

LEMMA PendingShip ==
    ASSUME NEW S, NEW s \in Seq(S), NEW q \in Seq(S)
    PROVE  /\ (<<>> \o s) \o q = s \o q
           /\ (s \o <<>>) \o q = s \o q
           /\ (<<>> \o <<>>) \o q = q
  BY ConcatEmptySeq, EmptySeq

(* The four things a step can do to the pending events. *)
Admits == SubmitAccepted /\ Pending' = Append(Pending, next)

Keeps ==
    /\ Pending' = Pending
    /\ UNCHANGED <<accepted, settled, fate>>
    /\ next' = next \/ (next <= MaxEvents /\ next' = next + 1)
    /\ pc # "dead" <=> pc' # "dead"

SettlesHead(b, f) ==
    /\ Pending = b \o Pending'
    /\ Settle(b, f)
    /\ UNCHANGED <<accepted, next>>
    /\ pc # "dead" /\ pc' # "dead"

Closes ==
    /\ pc # "dead" /\ pc' = "dead"
    /\ Settle(Pending, "lost")
    /\ Pending' = <<>>
    /\ UNCHANGED <<accepted, next>>

LEMMA PendingType ==
    ASSUME TypeOK
    PROVE  /\ Pending \in Seq(Events)
           /\ inflight \o buffer \in Seq(Events)
           /\ buffer \o queue \in Seq(Events)
  BY ConcatType DEF TypeOK, Pending

LEMMA PendingStep ==
    ASSUME TypeOK, TypeOK', Phases, [Next]_vars
    PROVE  \/ Admits
           \/ Keeps
           \/ \E b \in Seq(Events), f \in Fates : SettlesHead(b, f)
           \/ Closes
<1> USE DEF Pending
<1>t. /\ queue \in Seq(Events) /\ buffer \in Seq(Events) /\ inflight \in Seq(Events)
      /\ inflight \o buffer \in Seq(Events)
  BY PendingType DEF TypeOK
<1>r. ret # "dead" /\ pc \in WorkerPcs
  BY DEF TypeOK
<1>1. CASE SubmitAccepted
  <2>1. next \in Events /\ UNCHANGED <<inflight, buffer>> /\ queue' = Append(queue, next)
    BY <1>1 DEF SubmitAccepted, TypeOK, Events
  <2>2. Pending' = Append(Pending, next)
    BY <1>t, <2>1, PendingAppend
  <2> QED
    BY <1>1, <2>2 DEF Admits
<1>2. CASE SubmitFull \/ SubmitDisconnected \/ Flush \/ DropBegin \/ DropEnd \/ UNCHANGED vars
  <2>1. Keeps
    BY <1>2 DEF Keeps, SubmitFull, SubmitDisconnected, Flush, FlushCall, FlushWait,
       FlushAbandoned, DropBegin, DropEnd, vars
  <2> QED
    BY <2>1
<1>3. CASE WorkerStartFails \/ RuntimeShutdown
  <2>1. WorkerGone /\ pc # "dead"
    BY <1>3 DEF WorkerStartFails, RuntimeShutdown, AwaitPcs, Shipping
  <2>2. Pending' = <<>>
    BY <2>1, EmptySeq, PendingShip DEF WorkerGone
  <2>3. Closes
    BY <2>1, <2>2 DEF Closes, WorkerGone
  <2> QED
    BY <2>3
<1>4. CASE WorkerStart \/ Tick \/ FlushArm \/ NotifyDone \/ DrainEmpty \/ ShipUnreachable
  <2>1. UNCHANGED <<queue, buffer, inflight, accepted, settled, fate, next>>
    BY <1>4 DEF WorkerStart, Tick, FlushArm, NotifyDone, DrainEmpty, ShipUnreachable
  <2>2. pc # "dead" /\ pc' # "dead"
    BY <1>4, <1>r DEF WorkerStart, Tick, FlushArm, NotifyDone, DrainEmpty, ShipUnreachable,
       AfterDrain, EnterShip
  <2>3. Keeps
    BY <2>1, <2>2 DEF Keeps
  <2> QED
    BY <2>3
<1>5. CASE DrainOne
  <2>1. /\ queue # <<>> /\ queue' = Tail(queue) /\ buffer' = Append(buffer, Head(queue))
        /\ UNCHANGED <<inflight, accepted, settled, fate, next>>
    BY <1>5 DEF DrainOne
  <2>d. \A s, b, q \in Seq(Events) :
           q # <<>> => (s \o Append(b, Head(q))) \o Tail(q) = (s \o b) \o q
    BY PendingDrain, SMTT(30)
  <2>2. Pending' = Pending
    BY <1>t, <2>1, <2>d
  <2>3. pc # "dead" /\ pc' # "dead"
    BY <1>5 DEF DrainOne, AfterDrain, EnterShip
  <2>4. Keeps
    BY <2>1, <2>2, <2>3 DEF Keeps
  <2> QED
    BY <2>4
<1>6. CASE ShipBegin
  <2>1. inflight = <<>> /\ inflight' = buffer /\ buffer' = <<>> /\ queue' = queue
    BY <1>6 DEF ShipBegin, Phases
  <2>2. Pending' = Pending
    BY <1>t, <2>1, PendingShip
  <2>3. Keeps
    BY <1>6, <2>2 DEF Keeps, ShipBegin
  <2> QED
    BY <2>3
<1>7. CASE ShipUnencodable
  <2>1. inflight = <<>> /\ inflight' = <<>> /\ buffer' = <<>> /\ queue' = queue
    BY <1>7 DEF ShipUnencodable, Phases
  <2>2. Pending' = queue /\ Pending = buffer \o queue
    BY <1>t, <2>1, PendingShip
  <2>3. SettlesHead(buffer, "unencodable")
    BY <1>7, <1>r, <2>2 DEF SettlesHead, ShipUnencodable
  <2> QED
    BY <1>t, <2>3 DEF Fates
<1>8. ASSUME NEW f \in Fates, ShipReturns(f), pc # "dead",
             UNCHANGED <<buffer, queue, accepted, next>>
      PROVE  SettlesHead(inflight, f)
  <2>1. Pending' = buffer \o queue
    BY <1>8, <1>t, PendingShip DEF ShipReturns
  <2>2. Pending = inflight \o (buffer \o queue)
    BY <1>t, ConcatAssociative
  <2> QED
    BY <1>8, <1>r, <2>1, <2>2 DEF SettlesHead, ShipReturns
<1>9. CASE SendOk
  <2>1. PICK f \in Fates : ShipReturns(f)
    BY <1>9 DEF SendOk, Fates
  <2>2. SettlesHead(inflight, f)
    BY <1>8, <1>9, <2>1 DEF SendOk
  <2> QED
    BY <1>t, <2>2
<1>10. CASE SendErr \/ ReconnectFails
  <2>1. pc # "dead" /\ RetryOrGiveUp /\ UNCHANGED <<buffer, queue, accepted, next>>
    BY <1>10 DEF SendErr, ReconnectFails, RetryOrGiveUp
  <2>2. CASE retries + 1 > MaxRetries
    <3>1. ShipReturns("expired") /\ "expired" \in Fates
      BY <2>1, <2>2 DEF RetryOrGiveUp, Fates
    <3>2. SettlesHead(inflight, "expired")
      BY <1>8, <2>1, <3>1
    <3> QED
      BY <1>t, <3>1, <3>2
  <2>3. CASE ~(retries + 1 > MaxRetries)
    <3>1. Keeps
      BY <2>1, <2>3 DEF Keeps, RetryOrGiveUp
    <3> QED
      BY <3>1
  <2> QED
    BY <2>2, <2>3
<1>11. CASE Resend
  <2>1. Keeps
    BY <1>11 DEF Keeps, Resend
  <2> QED
    BY <2>1
<1> QED
  BY <1>1, <1>2, <1>3, <1>4, <1>5, <1>6, <1>7, <1>9, <1>10, <1>11 DEF Next, Submit, Worker

LEMMA LedgerStep ==
    ASSUME TypeOK, TypeOK', Phases, Ledger, [Next]_vars
    PROVE  Ledger'
<1>t. /\ Pending \in Seq(Events) /\ settled \in Seq(Events)
      /\ Pending' \in Seq(Events) /\ settled' \in Seq(Events)
  BY PendingType, ConcatType DEF TypeOK, Pending
<1>1. CASE Admits
  <2>1. next \in Events /\ accepted' = Append(accepted, next) /\ settled' = settled
    BY <1>1 DEF Admits, SubmitAccepted, TypeOK, Events
  <2>2. settled \o Append(Pending, next) = Append(settled \o Pending, next)
    BY <1>t, <2>1, PendingAppend
  <2> QED
    BY <1>1, <2>1, <2>2 DEF Admits, Ledger
<1>2. CASE Keeps
  BY <1>2 DEF Keeps, Ledger
<1>3. ASSUME NEW b \in Seq(Events), NEW f \in Fates, SettlesHead(b, f)
      PROVE  Ledger'
  <2>1. ASSUME NEW r \in Seq(Events)
        PROVE  (settled \o b) \o r = settled \o (b \o r)
    BY <1>t, ConcatAssociative, SMTT(30)
  <2> QED
    BY <1>3, <1>t, <2>1 DEF SettlesHead, Settle, Ledger
<1>4. CASE Closes
  <2>1. settled' \o <<>> = settled'
    BY <1>t, ConcatEmptySeq
  <2> QED
    BY <1>4, <2>1 DEF Closes, Settle, Ledger
<1> QED
  BY <1>1, <1>2, <1>3, <1>4, PendingStep

(* For every configuration: no accepted event is lost on the way, settled  *)
(* twice or overtaken.                                                     *)
THEOREM LedgerHolds == Spec => []Ledger
<1>1. Init => Phases /\ Ledger
  BY EmptySeq, ConcatEmptySeq DEF Init, Phases, Ledger, Pending
<1>2. TypeOK /\ Phases /\ Ledger /\ [Next]_vars => (TypeOK /\ Phases /\ Ledger)'
  BY TypeStep, PhasesStep, LedgerStep
<1> QED
  BY <1>1, <1>2, TypeInit, PTL DEF Spec

-----------------------------------------------------------------------------
(* The engine implements the channel. *)

LEMMA SplitConcat ==
    ASSUME NEW S, NEW b \in Seq(S), NEW r \in Seq(S), b # <<>>
    PROVE  /\ Len(b) \in 1..Len(b \o r)
           /\ SubSeq(b \o r, 1, Len(b)) = b
           /\ SubSeq(b \o r, Len(b) + 1, Len(b \o r)) = r
<1>1. /\ Len(b) \in Nat \ {0}
      /\ Len(r) \in Nat
      /\ Len(b \o r) = Len(b) + Len(r)
  BY EmptySeq, LenProperties, ConcatProperties
<1>2. SubSeq(b \o r, 1, Len(b)) = b
  <2>1. SubSeq(b \o r, 1, Len(b)) = SubSeq(b, 1, Len(b))
    BY <1>1, SubSeqOfConcat1
  <2> QED
    BY <2>1, SubSeqFull
<1>3. SubSeq(b \o r, Len(b) + 1, Len(b \o r)) = r
  <2>1. CASE r = <<>>
    <3>1. Len(b \o r) < Len(b) + 1
      BY <1>1, <2>1, EmptySeq
    <3> QED
      BY <1>1, <2>1, <3>1, SubSeqEmpty
  <2>2. CASE r # <<>>
    <3>1. Len(r) # 0
      BY <2>2, EmptySeq
    <3> DEFINE m == Len(b) + 1
               n == Len(b) + Len(r)
    <3>2. m \in (Len(b) + 1)..(Len(b) + Len(r)) /\ n \in (Len(b) + 1)..(Len(b) + Len(r))
      BY <1>1, <3>1
    <3>3. m - Len(b) = 1 /\ n - Len(b) = Len(r)
      BY <1>1
    <3> HIDE DEF m, n
    <3>4. SubSeq(b \o r, m, n) = SubSeq(r, m - Len(b), n - Len(b))
      BY <3>2, SubSeqOfConcat2
    <3>5. SubSeq(b \o r, m, n) = r
      BY <3>3, <3>4, SubSeqFull
    <3> QED
      BY <1>1, <3>5 DEF m, n
  <2> QED
    BY <2>1, <2>2
<1> QED
  BY <1>1, <1>2, <1>3

LEMMA ImplementsStep ==
    ASSUME TypeOK, TypeOK', Phases, [Next]_vars
    PROVE  [Channel!Next]_Channel!vars
<1>t. Pending \in Seq(Events) /\ Pending' \in Seq(Events)
  BY PendingType, ConcatType DEF TypeOK, Pending
<1>1. CASE Admits
  <2>1. Channel!Admit
    BY <1>1 DEF Admits, SubmitAccepted, Channel!Admit
  <2> QED
    BY <2>1 DEF Channel!Next
<1>2. CASE Keeps
  <2>1. CASE next' = next
    BY <1>2, <2>1 DEF Keeps, Channel!vars
  <2>2. CASE next' # next
    <3>1. Channel!TurnAway
      BY <1>2, <2>2 DEF Keeps, Channel!TurnAway
    <3> QED
      BY <3>1 DEF Channel!Next
  <2> QED
    BY <2>1, <2>2
<1>3. ASSUME NEW b \in Seq(Events), NEW f \in Fates, SettlesHead(b, f)
      PROVE  [Channel!Next]_Channel!vars
  <2>1. CASE b = <<>>
    <3>1. settled' = settled /\ Pending' = Pending
      BY <1>3, <1>t, <2>1, ConcatEmptySeq DEF SettlesHead, Settle, TypeOK
    <3>2. fate' = fate
      <4>1. ToSet(b) = {}
        BY <2>1 DEF ToSet
      <4>2. fate' = [e \in Events |-> fate[e]]
        BY <1>3, <4>1 DEF SettlesHead, Settle
      <4> QED
        BY <4>2 DEF TypeOK
    <3> QED
      BY <1>3, <3>1, <3>2 DEF SettlesHead, Channel!vars
  <2>2. CASE b # <<>>
    <3> DEFINE n == Len(b)
    <3>1. \A r \in Seq(Events) :
             /\ n \in 1..Len(b \o r)
             /\ SubSeq(b \o r, 1, n) = b
             /\ SubSeq(b \o r, n + 1, Len(b \o r)) = r
      BY <2>2, SplitConcat
    <3>2. /\ n \in 1..Len(Pending)
          /\ SubSeq(Pending, 1, n) = b
          /\ SubSeq(Pending, n + 1, Len(Pending)) = Pending'
      BY <1>3, <1>t, <3>1 DEF SettlesHead
    <3> HIDE DEF n
    <3>3. f \in Channel!Fates
      BY DEF Fates, Channel!Fates
    <3>4. Channel!Settle(b, Pending', f)
      BY <1>3 DEF SettlesHead, Settle, Channel!Settle, Events, Channel!Events,
        ToSet, Channel!ToSet
    <3>5. Channel!Settle(SubSeq(Pending, 1, n), SubSeq(Pending, n + 1, Len(Pending)), f)
      BY <3>2, <3>4
    <3>6. Channel!SettleBatch
      BY <1>3, <3>2, <3>3, <3>5 DEF SettlesHead, Channel!SettleBatch
    <3> QED
      BY <3>6 DEF Channel!Next
  <2> QED
    BY <2>1, <2>2
<1>4. CASE Closes
  <2>1. Pending = Pending \o <<>>
    BY <1>t, ConcatEmptySeq
  <2>2. Channel!Close
    BY <1>4, <2>1 DEF Closes, Settle, Channel!Close, Channel!Settle, Events, Channel!Events,
        ToSet, Channel!ToSet
  <2> QED
    BY <2>2 DEF Channel!Next
<1> QED
  BY <1>1, <1>2, <1>3, <1>4, PendingStep

(* For every configuration, the engine with its buffer, its retries and    *)
(* its flush arm is a first-in first-out channel that settles what it      *)
(* admits a whole batch at a time.                                         *)
THEOREM ImplementsChannel == Spec => ChannelSpec
<1>1. Init => Channel!Init
  BY EmptySeq, ConcatEmptySeq
  DEF Init, Channel!Init, Pending, Events, Channel!Events
<1>2. Init => Phases
  BY DEF Init, Phases
<1>3. TypeOK /\ Phases /\ [Next]_vars => (TypeOK /\ Phases)'
  BY TypeStep, PhasesStep
<1>4. TypeOK /\ TypeOK' /\ Phases /\ [Next]_vars => [Channel!Next]_Channel!vars
  BY ImplementsStep
<1> QED
  BY <1>1, <1>2, <1>3, <1>4, TypeInit, PTL DEF Spec, ChannelSpec, Channel!Spec

-----------------------------------------------------------------------------
(* The requests: how often an event is sent, and in which order events     *)
(* are.  Both follow from where an event stands in `accepted`: the first   *)
(* Len(settled) are done with, the next Len(inflight) are in the batch     *)
(* being sent, and nothing after them has been in any request.             *)

S == Len(settled)
I == Len(inflight)

(* Events are accepted in the order of their numbers. *)
Order ==
    /\ \A i, j \in 1..Len(accepted) : i < j => accepted[i] < accepted[j]
    /\ \A i \in 1..Len(accepted) : accepted[i] < next

(* An event never accepted has no history. *)
Unaccepted ==
    \A e \in Events : e \notin ToSet(accepted) => tries[e] = 0 /\ fate[e] = "none"

(* The event at place k, done with. *)
Done(k) ==
    /\ fate[accepted[k]] # "none"
    /\ fate[accepted[k]] \in {"stored", "refused", "expired"} => tries[accepted[k]] > 0

(* The event at place k, in the batch being sent: each failed attempt has  *)
(* been counted in `retries`.                                              *)
BeingSent(k) ==
    /\ fate[accepted[k]] = "none"
    /\ tries[accepted[k]] > 0
    /\ pc = "send" => tries[accepted[k]] <= retries + 1
    /\ pc = "backoff" => tries[accepted[k]] <= retries

(* The event at place k, in no request yet. *)
Unsent(k) == fate[accepted[k]] = "none" /\ tries[accepted[k]] = 0

Places ==
    \A k \in 1..Len(accepted) :
        /\ k <= S => Done(k)
        /\ S < k /\ k <= S + I => BeingSent(k)
        /\ S + I < k => Unsent(k)

Tried == \A e \in Events : tries[e] <= MaxRetries + 1

OrderInv == Order /\ Unaccepted /\ Places /\ Tried

(* In a sequence without repetition, the elements of a middle part are     *)
(* those at its places.                                                    *)
LEMMA MiddlePart ==
    ASSUME NEW T, NEW a \in Seq(T), NEW b \in Seq(T), NEW c \in Seq(T),
           NEW s \in Seq(T), s = a \o (b \o c),
           \A i, j \in 1..Len(s) : i # j => s[i] # s[j]
    PROVE  /\ Len(s) = Len(a) + Len(b) + Len(c)
           /\ ToSet(b) \subseteq ToSet(s)
           /\ \A k \in 1..Len(s) : Len(a) < k /\ k <= Len(a) + Len(b) => s[k] \in ToSet(b)
           /\ \A k \in 1..Len(s) : s[k] \in ToSet(b) => Len(a) < k /\ k <= Len(a) + Len(b)
<1>1. /\ Len(a) \in Nat /\ Len(b) \in Nat /\ Len(c) \in Nat
      /\ DOMAIN b = 1..Len(b)
  BY LenProperties
<1>2. /\ b \o c \in Seq(T)
      /\ Len(b \o c) = Len(b) + Len(c)
      /\ \A i \in 1..(Len(b) + Len(c)) : (b \o c)[i] = IF i <= Len(b) THEN b[i] ELSE c[i - Len(b)]
  BY ConcatProperties
<1>3. /\ Len(s) = Len(a) + Len(b \o c)
      /\ \A i \in 1..(Len(a) + Len(b \o c)) :
            s[i] = IF i <= Len(a) THEN a[i] ELSE (b \o c)[i - Len(a)]
  BY <1>2, ConcatProperties
<1>4. Len(s) = Len(a) + Len(b) + Len(c)
  BY <1>1, <1>2, <1>3
<1>5. ASSUME NEW i \in 1..Len(b)
      PROVE  Len(a) + i \in 1..Len(s) /\ s[Len(a) + i] = b[i]
  <2>1. Len(a) + i \in 1..Len(s) /\ ~(Len(a) + i <= Len(a)) /\ (Len(a) + i) - Len(a) = i
    BY <1>1, <1>4
  <2>2. s[Len(a) + i] = (b \o c)[i]
    BY <1>2, <1>3, <2>1
  <2>3. i \in 1..(Len(b) + Len(c)) /\ i <= Len(b)
    BY <1>1
  <2> QED
    BY <1>2, <2>1, <2>2, <2>3
<1>6. ASSUME NEW k \in 1..Len(s), s[k] \in ToSet(b)
      PROVE  Len(a) < k /\ k <= Len(a) + Len(b)
  <2>1. PICK i \in 1..Len(b) : s[k] = b[i]
    BY <1>1, <1>6 DEF ToSet
  <2>2. k = Len(a) + i
    BY <1>5, <2>1, ZenonT(30)
  <2> QED
    BY <1>1, <2>2
<1>7. ASSUME NEW k \in 1..Len(s), Len(a) < k, k <= Len(a) + Len(b)
      PROVE  s[k] \in ToSet(b)
  <2>1. k - Len(a) \in 1..Len(b) /\ Len(a) + (k - Len(a)) = k
    BY <1>1, <1>7
  <2>2. s[k] = b[k - Len(a)]
    BY <1>5, <2>1
  <2> QED
    BY <1>1, <2>1, <2>2 DEF ToSet
<1>8. ToSet(b) \subseteq ToSet(s)
  <2> SUFFICES ASSUME NEW x \in ToSet(b)
               PROVE  x \in ToSet(s)
    OBVIOUS
  <2>1. PICK i \in 1..Len(b) : x = b[i]
    BY <1>1 DEF ToSet
  <2>2. DOMAIN s = 1..Len(s)
    BY LenProperties
  <2>3. Len(a) + i \in DOMAIN s /\ s[Len(a) + i] = x
    BY <1>5, <2>1, <2>2
  <2> QED
    BY <2>3 DEF ToSet
<1> QED
  BY <1>4, <1>6, <1>7, <1>8

LEMMA NoRepetition ==
    ASSUME TypeOK, Order
    PROVE  /\ Len(accepted) \in Nat
           /\ \A i \in 1..Len(accepted) : accepted[i] \in Events /\ accepted[i] \in Nat
           /\ \A i, j \in 1..Len(accepted) : i # j => accepted[i] # accepted[j]
<1>1. /\ Len(accepted) \in Nat
      /\ \A i \in 1..Len(accepted) : accepted[i] \in Events
  BY LenProperties, ElementOfSeq DEF TypeOK
<1>2. \A i \in 1..Len(accepted) : accepted[i] \in Nat
  BY <1>1 DEF Events
<1>3. ASSUME NEW i \in 1..Len(accepted), NEW j \in 1..Len(accepted), i # j
      PROVE  accepted[i] # accepted[j]
  <2>1. i < j \/ j < i
    BY <1>1, <1>3
  <2> QED
    BY <1>2, <2>1 DEF Order
<1> QED
  BY <1>1, <1>2, <1>3

(* The first pending events, when they are the sequence b, are at the      *)
(* places that follow the settled ones.                                    *)
LEMMA FirstPending ==
    ASSUME TypeOK, Ledger, Order,
           NEW b \in Seq(Events), NEW r \in Seq(Events), Pending = b \o r
    PROVE  /\ S \in Nat /\ Len(b) \in Nat /\ Len(r) \in Nat
           /\ Len(accepted) = S + Len(b) + Len(r)
           /\ ToSet(b) \subseteq ToSet(accepted)
           /\ \A k \in 1..Len(accepted) :
                 accepted[k] \in ToSet(b) <=> S < k /\ k <= S + Len(b)
<1>1. accepted \in Seq(Events) /\ settled \in Seq(Events) /\ accepted = settled \o (b \o r)
  BY DEF TypeOK, Ledger
<1>2. \A i, j \in 1..Len(accepted) : i # j => accepted[i] # accepted[j]
  BY NoRepetition
<1>3. Len(settled) \in Nat /\ Len(b) \in Nat /\ Len(r) \in Nat
  BY <1>1, LenProperties
<1>4. Len(accepted) = Len(settled) + Len(b) + Len(r)
  BY <1>1, <1>2, MiddlePart
<1>5. \A k \in 1..Len(accepted) :
         Len(settled) < k /\ k <= Len(settled) + Len(b) => accepted[k] \in ToSet(b)
  BY <1>1, <1>2, MiddlePart
<1>m. \A a, m, c, s \in Seq(Events) :
         (s = a \o (m \o c) /\ \A i, j \in 1..Len(s) : i # j => s[i] # s[j])
         => /\ ToSet(m) \subseteq ToSet(s)
            /\ \A k \in 1..Len(s) : s[k] \in ToSet(m) => Len(a) < k /\ k <= Len(a) + Len(m)
  BY MiddlePart, Zenon
<1>7. ToSet(b) \subseteq ToSet(accepted)
  BY <1>1, <1>2, <1>m, Zenon
<1>6. \A k \in 1..Len(accepted) :
         accepted[k] \in ToSet(b) => Len(settled) < k /\ k <= Len(settled) + Len(b)
  BY <1>1, <1>2, <1>m, Zenon
<1> QED
  BY <1>3, <1>4, <1>5, <1>6, <1>7 DEF S

(* The batch being sent is at the places that follow the settled ones. *)
LEMMA InflightPlaces ==
    ASSUME TypeOK, Ledger, Order
    PROVE  /\ S \in Nat /\ I \in Nat /\ S + I <= Len(accepted)
           /\ ToSet(inflight) \subseteq ToSet(accepted)
           /\ \A k \in 1..Len(accepted) :
                 accepted[k] \in ToSet(inflight) <=> S < k /\ k <= S + I
<1>0. /\ inflight \in Seq(Events) /\ buffer \in Seq(Events) /\ queue \in Seq(Events)
      /\ buffer \o queue \in Seq(Events)
  BY PendingType DEF TypeOK
<1>1. Pending = inflight \o (buffer \o queue)
  BY <1>0, ConcatAssociative DEF Pending
<1>2. Len(inflight) \in Nat /\ Len(buffer \o queue) \in Nat /\ Len(accepted) \in Nat
  BY <1>0, LenProperties DEF TypeOK
<1>3. /\ S \in Nat
      /\ Len(accepted) = S + Len(inflight) + Len(buffer \o queue)
      /\ ToSet(inflight) \subseteq ToSet(accepted)
      /\ \A k \in 1..Len(accepted) :
            accepted[k] \in ToSet(inflight) <=> S < k /\ k <= S + Len(inflight)
  BY <1>0, <1>1, FirstPending
<1> QED
  BY <1>2, <1>3 DEF I

(* The batch b, the first of what is pending, is done with. *)
LEMMA SettlePlaces ==
    ASSUME TypeOK, TypeOK', Ledger, OrderInv,
           NEW b \in Seq(Events), NEW r \in Seq(Events), Pending = b \o r,
           NEW f \in Fates, Settle(b, f),
           I <= Len(b), f \in {"stored", "refused", "expired"} => Len(b) = I,
           inflight' = <<>>, pc' \notin {"send", "backoff"},
           UNCHANGED <<accepted, next, tries>>
    PROVE  OrderInv'
<1> USE DEF OrderInv
<1>1. /\ S \in Nat /\ Len(b) \in Nat /\ Len(r) \in Nat
      /\ Len(accepted) = S + Len(b) + Len(r)
      /\ ToSet(b) \subseteq ToSet(accepted)
  BY FirstPending
<1>2. \A k \in 1..Len(accepted) : accepted[k] \in ToSet(b) <=> S < k /\ k <= S + Len(b)
  BY FirstPending
<1>3. S' = S + Len(b) /\ I' = 0 /\ I \in Nat
  <2>1. settled \in Seq(Events) /\ inflight \in Seq(Events) /\ settled' = settled \o b
    BY DEF TypeOK, Settle
  <2>2. Len(settled \o b) = Len(settled) + Len(b)
    BY <2>1, ConcatProperties
  <2> QED
    BY <2>1, <2>2, EmptySeq, LenProperties DEF S, I
<1>4. \A e \in Events : fate'[e] = IF e \in ToSet(b) THEN f ELSE fate[e]
  BY DEF Settle
<1>5. Order' /\ Tried'
  BY DEF Order, Tried
<1>6. Unaccepted'
  BY <1>1, <1>4 DEF Unaccepted
<1>7. ASSUME NEW k \in 1..Len(accepted)
      PROVE  /\ k <= S' => Done(k)'
             /\ S' < k => Unsent(k)'
  <2>1. accepted[k] \in Events
    BY NoRepetition
  <2>2. CASE k <= S
    <3>1. Done(k) /\ accepted[k] \notin ToSet(b)
      BY <1>1, <1>2, <2>2 DEF Places
    <3>2. Done(k)'
      BY <1>4, <2>1, <3>1 DEF Done
    <3> QED
      BY <1>1, <1>3, <2>2, <3>2
  <2>3. CASE S < k /\ k <= S + Len(b)
    <3>1. fate'[accepted[k]] = f /\ f # "none"
      BY <1>2, <1>4, <2>1, <2>3 DEF Fates
    <3>2. f \in {"stored", "refused", "expired"} => tries[accepted[k]] > 0
      BY <1>3, <2>3 DEF Places, BeingSent
    <3>3. Done(k)'
      BY <3>1, <3>2 DEF Done
    <3> QED
      BY <1>1, <1>3, <2>3, <3>3
  <2>4. CASE S + Len(b) < k
    <3>1. S + I < k /\ accepted[k] \notin ToSet(b)
      BY <1>1, <1>2, <1>3, <2>4
    <3>2. Unsent(k)
      BY <3>1 DEF Places
    <3>3. Unsent(k)'
      BY <1>4, <2>1, <3>1, <3>2 DEF Unsent
    <3> QED
      BY <1>1, <1>3, <2>4, <3>3
  <2> QED
    BY <1>1, <2>2, <2>3, <2>4
<1>8. Places'
  BY <1>1, <1>3, <1>7 DEF Places
<1> QED
  BY <1>5, <1>6, <1>8

(* A request is issued for the batch b, the first of what is pending. *)
LEMMA SendPlaces ==
    ASSUME TypeOK, TypeOK', Ledger, OrderInv,
           NEW b \in Seq(Events), NEW r \in Seq(Events), Pending = b \o r,
           CountTry(b), inflight' = b, pc' = "send",
           \/ inflight = b /\ pc = "backoff" /\ retries' = retries
           \/ inflight = <<>> /\ retries' = 0,
           UNCHANGED <<accepted, next, settled, fate>>
    PROVE  OrderInv'
<1> USE DEF OrderInv
<1>1. /\ S \in Nat /\ Len(b) \in Nat /\ Len(r) \in Nat
      /\ Len(accepted) = S + Len(b) + Len(r)
      /\ ToSet(b) \subseteq ToSet(accepted)
  BY FirstPending
<1>2. \A k \in 1..Len(accepted) : accepted[k] \in ToSet(b) <=> S < k /\ k <= S + Len(b)
  BY FirstPending
<1>3. /\ S' = S /\ I' = Len(b) /\ retries \in 0..MaxRetries /\ MaxRetries \in Nat
      /\ \/ I = Len(b) /\ pc = "backoff" /\ retries' = retries
         \/ I = 0 /\ retries' = 0
  <2>1. Len(<<>>) = 0
    BY EmptySeq
  <2>2. S' = S /\ I' = Len(b) /\ retries \in 0..MaxRetries /\ MaxRetries \in Nat
    BY ConfigAssumption DEF S, I, TypeOK
  <2>3. \/ I = Len(b) /\ pc = "backoff" /\ retries' = retries
        \/ I = 0 /\ retries' = 0
    BY <2>1 DEF I
  <2> QED
    BY <2>2, <2>3
<1>4. \A e \in Events : /\ tries[e] \in Nat
                       /\ tries'[e] = IF e \in ToSet(b) THEN tries[e] + 1 ELSE tries[e]
  BY DEF CountTry, TypeOK
<1>5. Order' /\ Unaccepted'
  BY <1>1, <1>4 DEF Order, Unaccepted
<1>6. ASSUME NEW k \in 1..Len(accepted), S < k, k <= S + Len(b)
      PROVE  BeingSent(k)' /\ tries'[accepted[k]] <= MaxRetries + 1
  <2>1. accepted[k] \in Events /\ accepted[k] \in ToSet(b)
    BY <1>2, <1>6, NoRepetition
  <2>2. tries'[accepted[k]] = tries[accepted[k]] + 1 /\ tries[accepted[k]] \in Nat
    BY <1>4, <2>1
  <2>3. CASE I = Len(b) /\ pc = "backoff" /\ retries' = retries
    <3>1. BeingSent(k)
      BY <1>6, <2>3 DEF Places
    <3> QED
      BY <1>3, <2>2, <2>3, <3>1 DEF BeingSent
  <2>4. CASE I = 0 /\ retries' = 0
    <3>1. Unsent(k)
      BY <1>1, <1>6, <2>4 DEF Places
    <3> QED
      BY <1>3, <2>2, <2>4, <3>1 DEF BeingSent, Unsent
  <2> QED
    BY <1>3, <2>3, <2>4
<1>7. ASSUME NEW k \in 1..Len(accepted)
      PROVE  /\ k <= S => Done(k)'
             /\ S + Len(b) < k => Unsent(k)'
  <2>1. accepted[k] \in Events
    BY NoRepetition
  <2>2. CASE k <= S
    <3>1. Done(k) /\ accepted[k] \notin ToSet(b)
      BY <1>1, <1>2, <2>2 DEF Places
    <3>2. Done(k)'
      BY <1>4, <2>1, <3>1 DEF Done
    <3> QED
      BY <1>1, <2>2, <3>2
  <2>3. CASE S + Len(b) < k
    <3>a. I \in Nat /\ I <= Len(b)
      BY <1>1, <1>3
    <3>b. ~(k <= S + Len(b)) /\ S + I < k
      BY <1>1, <2>3, <3>a
    <3>1. S + I < k /\ accepted[k] \notin ToSet(b)
      BY <1>2, <3>b
    <3>2. Unsent(k)
      BY <3>1 DEF Places
    <3>3. Unsent(k)'
      BY <1>4, <2>1, <3>1, <3>2 DEF Unsent
    <3> QED
      BY <1>1, <2>3, <3>3
  <2> QED
    BY <1>1, <2>2, <2>3
<1>8. Places'
  BY <1>1, <1>3, <1>6, <1>7 DEF Places
<1>9. Tried'
  <2> SUFFICES ASSUME NEW e \in Events
               PROVE  tries'[e] <= MaxRetries + 1
    BY DEF Tried
  <2>1. CASE e \in ToSet(b)
    <3>1. PICK k \in 1..Len(accepted) : accepted[k] = e
      <4>1. e \in ToSet(accepted) /\ DOMAIN accepted = 1..Len(accepted)
        BY <1>1, <2>1, LenProperties DEF TypeOK
      <4> QED
        BY <4>1 DEF ToSet
    <3> QED
      BY <1>2, <1>6, <2>1, <3>1
  <2>2. CASE e \notin ToSet(b)
    BY <1>4, <2>2 DEF Tried
  <2> QED
    BY <2>1, <2>2
<1> QED
  BY <1>5, <1>8, <1>9

LEMMA OrderStep ==
    ASSUME TypeOK, TypeOK', Phases, Ledger, OrderInv, [Next]_vars
    PROVE  OrderInv'
<1>t. /\ queue \in Seq(Events) /\ buffer \in Seq(Events) /\ inflight \in Seq(Events)
      /\ buffer \o queue \in Seq(Events) /\ <<>> \in Seq(Events)
      /\ Pending \in Seq(Events)
  BY PendingType, EmptySeq DEF TypeOK
<1>l. /\ Len(<<>>) = 0
      /\ Len(inflight) \in Nat /\ Len(buffer) \in Nat
  BY <1>t, EmptySeq, LenProperties
<1>p. /\ Pending = inflight \o (buffer \o queue)
      /\ inflight = <<>> => Pending = buffer \o queue
      /\ Pending = Pending \o <<>>
  <2>1. Pending = inflight \o (buffer \o queue)
    BY <1>t, ConcatAssociative, SMTT(30) DEF Pending
  <2>2. inflight = <<>> => Pending = buffer \o queue
    BY <1>t, PendingShip DEF Pending
  <2>3. Pending = Pending \o <<>>
    BY <1>t, ConcatEmptySeq
  <2> QED
    BY <2>1, <2>2, <2>3
<1>1. CASE SubmitAccepted
  <2>1. /\ accepted' = Append(accepted, next) /\ next' = next + 1 /\ next \in Events
        /\ UNCHANGED <<settled, inflight, fate, tries, pc, retries>>
    BY <1>1 DEF SubmitAccepted, TypeOK, Events
  <2>2. accepted \in Seq(Events) /\ Len(accepted) \in Nat
    BY LenProperties DEF TypeOK
  <2>3. /\ Len(Append(accepted, next)) = Len(accepted) + 1
        /\ \A k \in 1..Len(accepted) : Append(accepted, next)[k] = accepted[k]
        /\ Append(accepted, next)[Len(accepted) + 1] = next
    BY <2>1, <2>2, AppendProperties
  <2>4. /\ Len(accepted') = Len(accepted) + 1
        /\ \A k \in 1..Len(accepted) : accepted'[k] = accepted[k]
        /\ accepted'[Len(accepted) + 1] = next
        /\ S' = S /\ I' = I
    BY <2>1, <2>3 DEF S, I
  <2>5. \A i \in 1..Len(accepted) : accepted[i] < next /\ accepted[i] \in Nat /\ accepted[i] \in Events
    BY NoRepetition DEF OrderInv, Order
  <2>6. DOMAIN accepted = 1..Len(accepted) /\ next \in Nat
    BY <2>1, <2>2, LenProperties DEF Events
  <2>7. tries[next] = 0 /\ fate[next] = "none"
    <3>1. next \notin ToSet(accepted)
      BY <2>5, <2>6 DEF ToSet
    <3> QED
      BY <2>1, <3>1 DEF OrderInv, Unaccepted
  <2>8. Order'
    BY <2>1, <2>2, <2>4, <2>5, <2>6 DEF OrderInv, Order
  <2>9. Unaccepted'
    <3>1. ToSet(accepted) \subseteq ToSet(accepted')
      <4>1. DOMAIN accepted' = 1..Len(accepted')
        BY LenProperties DEF TypeOK
      <4>2. \A k \in 1..Len(accepted) : k \in DOMAIN accepted'
        BY <2>2, <2>4, <4>1
      <4> QED
        BY <2>4, <2>6, <4>2 DEF ToSet
    <3> QED
      BY <2>1, <3>1 DEF OrderInv, Unaccepted
  <2>10. Places'
    <3> SUFFICES ASSUME NEW k \in 1..Len(accepted')
                 PROVE  /\ k <= S => Done(k)'
                        /\ S < k /\ k <= S + I => BeingSent(k)'
                        /\ S + I < k => Unsent(k)'
      BY <2>4 DEF Places
    <3>1. CASE k \in 1..Len(accepted)
      <4>1. accepted'[k] = accepted[k]
        BY <2>4, <3>1
      <4> QED
        BY <2>1, <3>1, <4>1 DEF OrderInv, Places, Done, BeingSent, Unsent
    <3>2. CASE k = Len(accepted) + 1
      <4>1. S + I < k /\ S < k /\ S \in Nat /\ I \in Nat
        BY <2>2, <3>2, InflightPlaces DEF OrderInv
      <4>2. Unsent(k)'
        BY <2>1, <2>4, <2>7, <3>2 DEF Unsent
      <4> QED
        BY <2>2, <3>2, <4>1, <4>2
    <3> QED
      BY <2>2, <2>4, <3>1, <3>2
  <2>11. Tried'
    BY <2>1 DEF OrderInv, Tried
  <2> QED
    BY <2>8, <2>9, <2>10, <2>11 DEF OrderInv
<1>2. ASSUME UNCHANGED <<accepted, settled, inflight, fate, tries>>,
             next' = next \/ next' = next + 1,
             \/ pc' = pc /\ retries' = retries
             \/ pc' \notin {"send", "backoff"}
             \/ pc \in {"send", "backoff"} /\ pc' = "backoff" /\ retries' = retries + 1
      PROVE  OrderInv'
  <2>1. S' = S /\ I' = I /\ Len(accepted)' = Len(accepted)
    BY <1>2 DEF S, I
  <2>2. next \in Nat /\ retries \in Nat
    BY ConfigAssumption, BoundsAssumption DEF TypeOK
  <2>3. Order' /\ Unaccepted' /\ Tried'
    <3>1. Order'
      BY <1>2, <2>2, NoRepetition DEF OrderInv, Order
    <3> QED
      BY <1>2, <3>1 DEF OrderInv, Unaccepted, Tried
  <2>4. ASSUME NEW k \in 1..Len(accepted)
        PROVE  /\ Done(k) => Done(k)'
               /\ Unsent(k) => Unsent(k)'
               /\ BeingSent(k) => BeingSent(k)'
    <3>1. Done(k) => Done(k)'
      BY <1>2 DEF Done
    <3>2. Unsent(k) => Unsent(k)'
      BY <1>2 DEF Unsent
    <3>3. ASSUME BeingSent(k)
          PROVE  BeingSent(k)'
      <4>1. accepted[k] \in Events
        BY NoRepetition DEF OrderInv
      <4>2. tries[accepted[k]] \in Nat
        BY <4>1 DEF TypeOK
      <4> QED
        BY <1>2, <2>2, <3>3, <4>2 DEF BeingSent
    <3> QED
      BY <3>1, <3>2, <3>3
  <2>5. Places'
    BY <1>2, <2>1, <2>4 DEF OrderInv, Places
  <2> QED
    BY <2>3, <2>5 DEF OrderInv
<1>3. CASE SubmitFull \/ SubmitDisconnected \/ Flush \/ DropBegin \/ DropEnd \/ UNCHANGED vars
  BY <1>2, <1>3 DEF SubmitFull, SubmitDisconnected, Flush, FlushCall, FlushWait,
     FlushAbandoned, DropBegin, DropEnd, vars
<1>4. CASE WorkerStart \/ Tick \/ FlushArm \/ NotifyDone \/ DrainOne \/ DrainEmpty \/ ShipUnreachable
  <2>1. UNCHANGED <<accepted, settled, inflight, fate, tries, next>>
    BY <1>4 DEF WorkerStart, Tick, FlushArm, NotifyDone, DrainOne, DrainEmpty, ShipUnreachable
  <2>2. pc' \notin {"send", "backoff"}
    BY <1>4 DEF TypeOK, WorkerStart, Tick, FlushArm, NotifyDone, DrainOne, DrainEmpty,
       ShipUnreachable, AfterDrain, EnterShip
  <2> QED
    BY <1>2, <2>1, <2>2
<1>5. CASE ShipBegin
  <2>1. inflight = <<>> /\ Pending = buffer \o queue
    BY <1>5, <1>p DEF ShipBegin, Phases
  <2>2. /\ CountTry(buffer) /\ inflight' = buffer /\ pc' = "send" /\ retries' = 0
        /\ UNCHANGED <<accepted, next, settled, fate>>
    BY <1>5 DEF ShipBegin
  <2> QED
    BY <1>t, <2>1, <2>2, SendPlaces
<1>6. CASE Resend
  <2>1. /\ CountTry(inflight) /\ inflight' = inflight /\ pc = "backoff" /\ pc' = "send"
        /\ UNCHANGED <<accepted, next, settled, fate, retries>>
    BY <1>6 DEF Resend
  <2> QED
    BY <1>t, <1>p, <2>1, SendPlaces
<1>7. CASE ShipUnencodable
  <2>1. inflight = <<>> /\ Pending = buffer \o queue
    BY <1>7, <1>p DEF ShipUnencodable, Phases
  <2>2. /\ Settle(buffer, "unencodable") /\ inflight' = <<>> /\ pc' \notin {"send", "backoff"}
        /\ UNCHANGED <<accepted, next, tries>>
    BY <1>7, <2>1 DEF ShipUnencodable, TypeOK
  <2>3. I <= Len(buffer) /\ "unencodable" \in Fates
    BY <1>l, <2>1 DEF I, Fates
  <2> QED
    BY <1>t, <2>1, <2>2, <2>3, SettlePlaces
<1>8. ASSUME NEW f \in Fates, ShipReturns(f), UNCHANGED <<accepted, next, tries>>
      PROVE  OrderInv'
  <2>1. Settle(inflight, f) /\ inflight' = <<>> /\ pc' \notin {"send", "backoff"}
    BY <1>8 DEF ShipReturns, TypeOK
  <2>2. I <= Len(inflight) /\ Len(inflight) = I
    BY <1>l DEF I
  <2> QED
    BY <1>8, <1>t, <1>p, <2>1, <2>2, SettlePlaces
<1>9. CASE SendOk
  <2>1. PICK f \in Fates : ShipReturns(f)
    BY <1>9 DEF SendOk, Fates
  <2> QED
    BY <1>8, <1>9, <2>1 DEF SendOk
<1>10. CASE SendErr \/ ReconnectFails
  <2>1. pc \in {"send", "backoff"} /\ RetryOrGiveUp
    BY <1>10 DEF SendErr, ReconnectFails
  <2>2. CASE retries + 1 > MaxRetries
    <3>1. ShipReturns("expired") /\ "expired" \in Fates /\ UNCHANGED <<accepted, next, tries>>
      BY <2>1, <2>2 DEF RetryOrGiveUp, Fates
    <3> QED
      BY <1>8, <3>1
  <2>3. CASE ~(retries + 1 > MaxRetries)
    BY <1>2, <2>1, <2>3 DEF RetryOrGiveUp
  <2> QED
    BY <2>2, <2>3
<1>11. CASE WorkerStartFails \/ RuntimeShutdown
  <2>1. /\ Settle(Pending, "lost") /\ inflight' = <<>> /\ pc' = "dead"
        /\ UNCHANGED <<accepted, next, tries>>
    BY <1>11 DEF WorkerStartFails, RuntimeShutdown, WorkerGone, Pending
  <2>2. I <= Len(Pending) /\ "lost" \in Fates
    <3>1. Len(Pending) = Len(inflight) + Len(buffer \o queue) /\ Len(buffer \o queue) \in Nat
      BY <1>t, <1>p, ConcatProperties, LenProperties
    <3> QED
      BY <1>l, <3>1 DEF I, Fates
  <2> QED
    BY <1>t, <1>p, <2>1, <2>2, SettlePlaces
<1> QED
  BY <1>1, <1>3, <1>4, <1>5, <1>6, <1>7, <1>9, <1>10, <1>11 DEF Next, Submit, Worker

(* What waits in the buffer and the channel comes after the batch being sent. *)
LEMMA WaitingPlaces ==
    ASSUME TypeOK, Ledger, Order, NEW e \in ToSet(buffer \o queue)
    PROVE  \E k \in 1..Len(accepted) : accepted[k] = e /\ S + I < k
<1> DEFINE a == settled \o inflight
           w == buffer \o queue
<1>1. /\ settled \in Seq(Events) /\ inflight \in Seq(Events) /\ buffer \in Seq(Events)
      /\ queue \in Seq(Events) /\ w \in Seq(Events) /\ accepted \in Seq(Events)
      /\ <<>> \in Seq(Events)
  BY PendingType, EmptySeq DEF TypeOK
<1>2. a \in Seq(Events) /\ Len(a) = Len(settled) + Len(inflight)
  BY <1>1, ConcatProperties
<1>3. Pending = inflight \o w
  BY <1>1, ConcatAssociative, SMTT(30) DEF Pending
<1>a. a = settled \o inflight
  OBVIOUS
<1> HIDE DEF a, w
<1>b. (settled \o inflight) \o w = settled \o (inflight \o w)
  BY <1>1, ConcatAssociative, SMTT(30)
<1>4. settled \o (inflight \o w) = a \o w
  BY <1>a, <1>b
<1>5. w = w \o <<>>
  BY <1>1, ConcatEmptySeq
<1>6. accepted = a \o (w \o <<>>)
  BY <1>3, <1>4, <1>5 DEF Ledger
<1>7. \A i, j \in 1..Len(accepted) : i # j => accepted[i] # accepted[j]
  BY NoRepetition
<1>m. \A x, m, c, s \in Seq(Events) :
         (s = x \o (m \o c) /\ \A i, j \in 1..Len(s) : i # j => s[i] # s[j])
         => /\ ToSet(m) \subseteq ToSet(s)
            /\ \A k \in 1..Len(s) : s[k] \in ToSet(m) => Len(x) < k /\ k <= Len(x) + Len(m)
  BY MiddlePart, Zenon
<1>8. /\ ToSet(w) \subseteq ToSet(accepted)
      /\ \A k \in 1..Len(accepted) : accepted[k] \in ToSet(w) => Len(a) < k
  BY <1>1, <1>2, <1>6, <1>7, <1>m, Zenon
<1>9. e \in ToSet(w)
  BY DEF w
<1>10. PICK k \in 1..Len(accepted) : accepted[k] = e
  <2>1. e \in ToSet(accepted) /\ DOMAIN accepted = 1..Len(accepted)
    BY <1>1, <1>8, <1>9, LenProperties
  <2> QED
    BY <2>1 DEF ToSet
<1> QED
  BY <1>2, <1>8, <1>9, <1>10 DEF S, I

LEMMA OrderInit == Init => OrderInv
<1> SUFFICES ASSUME Init PROVE OrderInv
  OBVIOUS
<1>1. Len(accepted) = 0 /\ ToSet(accepted) = {}
  BY EmptySeq DEF Init, ToSet
<1>2. Order /\ Places
  BY <1>1 DEF Order, Places
<1>3. Unaccepted /\ Tried
  BY ConfigAssumption DEF Init, Unaccepted, Tried
<1> QED
  BY <1>2, <1>3 DEF OrderInv

LEMMA OrderInvariance == Spec => [](TypeOK /\ Phases /\ Ledger /\ OrderInv)
<1>1. Init => Phases /\ Ledger
  BY EmptySeq, ConcatEmptySeq DEF Init, Phases, Ledger, Pending
<1>2. TypeOK /\ Phases /\ Ledger /\ OrderInv /\ [Next]_vars
      => (TypeOK /\ Phases /\ Ledger /\ OrderInv)'
  BY TypeStep, PhasesStep, LedgerStep, OrderStep
<1> QED
  BY <1>1, <1>2, TypeInit, OrderInit, PTL DEF Spec

(* For every configuration: an event is in at most max_retries + 1         *)
(* requests, in none before its batch is taken from the buffer, and in one *)
(* at least before the engine treats it as answered or given up.           *)
THEOREM RetryBudgetHolds == Spec => []RetryBudget
<1>1. ASSUME TypeOK, Ledger, OrderInv
      PROVE  RetryBudget
  <2> SUFFICES ASSUME NEW e \in Events
               PROVE  /\ tries[e] <= MaxRetries + 1
                      /\ e \in ToSet(buffer \o queue) => tries[e] = 0
                      /\ fate[e] \in {"stored", "refused", "expired"} => tries[e] > 0
    BY DEF RetryBudget
  <2>1. tries[e] <= MaxRetries + 1
    BY <1>1 DEF OrderInv, Tried
  <2>2. ASSUME e \in ToSet(buffer \o queue)
        PROVE  tries[e] = 0
    <3>1. PICK k \in 1..Len(accepted) : accepted[k] = e /\ S + I < k
      BY <1>1, <2>2, WaitingPlaces DEF OrderInv
    <3> QED
      BY <1>1, <3>1 DEF OrderInv, Places, Unsent
  <2>3. ASSUME fate[e] \in {"stored", "refused", "expired"}
        PROVE  tries[e] > 0
    <3>1. e \in ToSet(accepted)
      BY <1>1, <2>3 DEF OrderInv, Unaccepted
    <3>2. PICK k \in 1..Len(accepted) : accepted[k] = e
      BY <1>1, <3>1, LenProperties DEF ToSet, TypeOK
    <3>3. S \in Nat /\ I \in Nat
      BY <1>1, InflightPlaces DEF OrderInv
    <3>4. Done(k) \/ BeingSent(k) \/ Unsent(k)
      BY <1>1, <3>3 DEF OrderInv, Places
    <3> QED
      BY <2>3, <3>2, <3>4 DEF Done, BeingSent, Unsent
  <2> QED
    BY <2>1, <2>2, <2>3
<1> QED
  BY <1>1, OrderInvariance, PTL

(* For every configuration: requests go out in the order of submission.    *)
THEOREM HeadOfLineHolds == Spec => []HeadOfLine
<1>1. ASSUME TypeOK, Ledger, OrderInv
      PROVE  HeadOfLine
  <2> SUFFICES ASSUME NEW d \in ToSet(accepted), NEW e \in ToSet(accepted),
                      d < e, tries[e] > 0
               PROVE  fate[d] # "none" \/ d \in ToSet(inflight)
    BY DEF HeadOfLine
  <2>1. DOMAIN accepted = 1..Len(accepted)
    BY <1>1, LenProperties DEF TypeOK
  <2>2. PICK i \in 1..Len(accepted) : accepted[i] = d
    BY <2>1 DEF ToSet
  <2>3. PICK j \in 1..Len(accepted) : accepted[j] = e
    BY <2>1 DEF ToSet
  <2>4. S \in Nat /\ I \in Nat
    BY <1>1, InflightPlaces DEF OrderInv
  <2>5. ~(S + I < j)
    BY <1>1, <2>3 DEF OrderInv, Places, Unsent
  <2>6. i < j
    <3>1. d \in Nat /\ e \in Nat /\ Len(accepted) \in Nat
      BY <1>1, <2>2, <2>3, NoRepetition DEF OrderInv
    <3>2. CASE i = j
      BY <2>2, <2>3, <3>1, <3>2
    <3>3. CASE j < i
      <4>1. e < d
        BY <1>1, <2>2, <2>3, <3>3 DEF OrderInv, Order
      <4> QED
        BY <3>1, <4>1
    <3> QED
      BY <3>1, <3>2, <3>3
  <2>7. CASE i <= S
    BY <1>1, <2>2, <2>7 DEF OrderInv, Places, Done
  <2>8. CASE ~(i <= S)
    <3>1. S < i /\ i <= S + I
      BY <2>4, <2>5, <2>6, <2>8
    <3> QED
      BY <1>1, <2>2, <3>1, InflightPlaces DEF OrderInv
  <2> QED
    BY <2>7, <2>8
<1> QED
  BY <1>1, OrderInvariance, PTL

-----------------------------------------------------------------------------
(* flush().  The two cells hold one permit each, so two callers can lose   *)
(* each other's (the run FlushConcurrent): what is said of wakeups is said *)
(* of one caller.                                                          *)

OneFlusher == \A f, g \in Flushers : f = g

(* The waiter, if any, is the caller. *)
Waiter ==
    /\ waiters = <<>> => \A f \in Flushers : fpc[f] # "waiting"
    /\ waiters # <<>> => \A f \in Flushers : waiters = <<f>> /\ fpc[f] = "waiting"

WakeupInv == Waiter /\ NoLostWakeup

(* A call is in one place at most: handed to the worker, the permit of     *)
(* flush_notify, the flush arm or the permit of flush_done; in none if     *)
(* nobody calls.                                                           *)
OneRequest ==
    /\ \A f \in Flushers : fpc[f] # "idle" => handle = "live"
    /\ handle = "live" =>
         /\ ~(flushNotify /\ flushHanded)
         /\ ~(Requested /\ InFlushArm)
         /\ ~(Requested /\ flushDone)
         /\ ~(InFlushArm /\ flushDone)
         /\ (\A f \in Flushers : fpc[f] = "idle") => ~Answering

(* n settled events are what f asked for. *)
Enough(f, n) == n >= goal[f].all \/ n >= goal[f].from + BatchSize

(* A goal is one that the call had, or none. *)
Goals ==
    \A f \in Flushers :
        /\ goal[f].all <= Len(accepted)
        /\ goal[f].from <= Len(settled)

(* What the flush arm has promised: with the batch it ships enough is      *)
(* settled, and when it notifies it is.                                    *)
Promise ==
    \A f \in Flushers :
        fpc[f] # "idle" =>
            /\ pc \in Shipping /\ ret = "notify" =>
                 Enough(f, Len(settled) + Len(inflight) + Len(buffer))
            /\ pc = "notify" \/ flushDone => Enough(f, Len(settled))

(* The two cells hold what they did; a notification may pass from the      *)
(* worker to the permit.                                                   *)
CellsKept ==
    /\ UNCHANGED <<fpc, waiters, flushDone>>
    /\ Requested' <=> Requested
    /\ flushNotify' /\ flushHanded' => flushNotify /\ flushHanded

(* Steps that leave the two cells alone. *)
LEMMA QuietWakeup ==
    ASSUME WakeupInv, CellsKept,
           InFlushArm => InFlushArm' \/ pc' = "dead",
           pc = "dead" => pc' = "dead"
    PROVE  WakeupInv'
BY DEF CellsKept, WakeupInv, Waiter, NoLostWakeup, Answering

(* The worker leaves the flush arm only by notifying, or for good. *)
LEMMA ArmStep ==
    ASSUME TypeOK, [Next]_vars
    PROVE  /\ pc = "dead" => pc' = "dead"
           /\ InFlushArm => NotifyDone \/ InFlushArm' \/ pc' = "dead"
           /\ InFlushArm' => FlushArm \/ InFlushArm
           /\ \/ CellsKept
              \/ FlushArm \/ NotifyDone \/ Flush \/ DropBegin
<1>1. CASE Submit \/ Flush \/ DropBegin \/ DropEnd \/ UNCHANGED vars
  BY <1>1 DEF CellsKept, Requested, InFlushArm, Submit, SubmitAccepted, SubmitFull,
     SubmitDisconnected, Flush, FlushCall, FlushWait, FlushAbandoned, DropBegin, DropEnd, vars
<1>2. CASE WorkerStartFails \/ RuntimeShutdown
  BY <1>2 DEF CellsKept, Requested, WorkerStartFails, RuntimeShutdown, WorkerGone,
     DropNotified, InFlushArm, Shipping
<1>3. CASE Tick
  <2>1. /\ UNCHANGED <<fpc, waiters, flushDone>>
        /\ flushNotify' = Requested /\ flushHanded' = FALSE
    BY <1>3 DEF Tick, DropNotified
  <2>2. CellsKept
    BY <2>1 DEF CellsKept, Requested
  <2>3. ~InFlushArm /\ ~InFlushArm' /\ pc # "dead"
    BY <1>3 DEF InFlushArm, Shipping, Tick, EnterShip
  <2> QED
    BY <2>2, <2>3
<1>4. CASE WorkerStart \/ FlushArm \/ NotifyDone
  BY <1>4 DEF CellsKept, Requested, InFlushArm, Shipping, WorkerStart, FlushArm, NotifyDone
<1>5. CASE DrainOne \/ DrainEmpty
  BY <1>5 DEF CellsKept, Requested, InFlushArm, Shipping, DrainOne, DrainEmpty, AfterDrain,
     EnterShip
<1>6. CASE ShipBegin \/ ShipUnreachable \/ ShipUnencodable
  BY <1>6 DEF CellsKept, Requested, TypeOK, InFlushArm, Shipping, ShipBegin, ShipUnreachable,
     ShipUnencodable
<1>7. CASE SendOk \/ SendErr \/ Resend \/ ReconnectFails
  BY <1>7 DEF CellsKept, Requested, TypeOK, InFlushArm, Shipping, SendOk, SendErr, Resend,
     ReconnectFails, RetryOrGiveUp, ShipReturns
<1> QED
  BY <1>1, <1>2, <1>3, <1>4, <1>5, <1>6, <1>7 DEF Next, Worker

(* The oldest waiter is the caller, and the only one. *)
LEMMA NotifyWakes ==
    ASSUME OneFlusher, TypeOK, Waiter, NotifyDone, NEW f \in Flushers
    PROVE  \/ /\ fpc[f] = "waiting" /\ fpc'[f] = "idle" /\ goal'[f] = NoGoal
              /\ waiters' = <<>> /\ UNCHANGED <<flushNotify, flushHanded, flushDone>>
           \/ /\ fpc[f] # "waiting" /\ waiters = <<>> /\ flushDone' = TRUE
              /\ UNCHANGED <<flushNotify, flushHanded, waiters, fpc, goal>>
<1>1. CASE waiters = <<>>
  BY <1>1 DEF NotifyDone, Waiter
<1>2. CASE waiters # <<>>
  <2>1. waiters = <<f>> /\ fpc[f] = "waiting"
    BY <1>2 DEF Waiter
  <2>2. Head(waiters) = f /\ Tail(waiters) = <<>>
    BY <2>1
  <2>3. /\ waiters' = <<>>
        /\ fpc' = [fpc EXCEPT ![f] = "idle"] /\ goal' = [goal EXCEPT ![f] = NoGoal]
        /\ UNCHANGED <<flushNotify, flushHanded, flushDone>>
    BY <1>2, <2>2 DEF NotifyDone
  <2> QED BY <2>1, <2>3 DEF TypeOK
<1> QED
  BY <1>1, <1>2

(* Every step keeps the wakeups. *)
LEMMA WakeupStep ==
    OneFlusher /\ TypeOK /\ WakeupInv /\ [Next]_vars => WakeupInv'
<1> SUFFICES ASSUME OneFlusher, TypeOK, WakeupInv, [Next]_vars PROVE WakeupInv'
  OBVIOUS
<1>1. CASE CellsKept /\ ~NotifyDone
  BY <1>1, ArmStep, QuietWakeup
<1>2. CASE FlushArm
  BY <1>2 DEF FlushArm, TakeNotification, WakeupInv, Waiter, NoLostWakeup, Answering, InFlushArm
<1>3. CASE NotifyDone
  <2>1. CASE Flushers = {}
    <3>1. waiters = <<>>
      BY <2>1, HeadTailType DEF TypeOK
    <3> QED BY <1>3, <2>1, <3>1 DEF NotifyDone, WakeupInv, Waiter, NoLostWakeup
  <2>2. CASE Flushers # {}
    <3>1. PICK f \in Flushers : Flushers = {f}
      BY <2>2 DEF OneFlusher
    <3>2. \/ /\ fpc'[f] = "idle" /\ waiters' = <<>>
          \/ /\ fpc[f] # "waiting" /\ waiters = <<>> /\ flushDone' = TRUE
             /\ UNCHANGED <<flushNotify, flushHanded, waiters, fpc>>
      BY <1>3, <3>1, NotifyWakes DEF WakeupInv
    <3>3. CASE fpc'[f] = "idle" /\ waiters' = <<>>
      BY <3>1, <3>3 DEF WakeupInv, Waiter, NoLostWakeup
    <3>4. CASE /\ fpc[f] # "waiting" /\ waiters = <<>> /\ flushDone' = TRUE
               /\ UNCHANGED <<flushNotify, flushHanded, waiters, fpc>>
      BY <3>1, <3>4 DEF WakeupInv, Waiter, NoLostWakeup, Answering
    <3> QED BY <3>2, <3>3, <3>4
  <2> QED BY <2>1, <2>2
<1>4. ASSUME NEW f \in Flushers, FlushCall(f) PROVE WakeupInv'
  <2>1. Flushers = {f} /\ fpc'[f] = "called" /\ fpc[f] = "idle" /\ Requested'
    BY <1>4 DEF OneFlusher, FlushCall, NotifyWorker, Requested, TypeOK
  <2>2. waiters = <<>> /\ waiters' = <<>>
    BY <1>4, <2>1 DEF FlushCall, WakeupInv, Waiter
  <2> QED BY <2>1, <2>2 DEF WakeupInv, Waiter, NoLostWakeup, Answering
<1>5. ASSUME NEW f \in Flushers, FlushWait(f) PROVE WakeupInv'
  <2>1. Flushers = {f} /\ fpc[f] = "called"
    BY <1>5 DEF OneFlusher, FlushWait
  <2>2. waiters = <<>>
    BY <2>1 DEF WakeupInv, Waiter
  <2>3. CASE flushDone
    <3>1. fpc'[f] = "idle" /\ waiters' = <<>>
      BY <1>5, <2>2, <2>3 DEF FlushWait, TypeOK
    <3> QED BY <2>1, <3>1 DEF WakeupInv, Waiter, NoLostWakeup
  <2>4. CASE ~flushDone
    <3>1. /\ fpc'[f] = "waiting" /\ waiters' = <<f>>
          /\ UNCHANGED <<pc, ret, flushNotify, flushHanded, flushDone>>
      BY <1>5, <2>2, <2>4 DEF FlushWait, TypeOK
    <3>2. waiters' # <<>>
      BY <3>1
    <3> QED BY <2>1, <2>4, <3>1, <3>2 DEF WakeupInv, Waiter, NoLostWakeup, Answering,
       Requested, InFlushArm
  <2> QED BY <2>3, <2>4
<1>6. ASSUME NEW f \in Flushers, FlushAbandoned(f) PROVE WakeupInv'
  <2>1. Flushers = {f} /\ fpc[f] = "waiting" /\ fpc'[f] = "idle"
    BY <1>6 DEF OneFlusher, FlushAbandoned, TypeOK
  <2>2. waiters = <<f>>
    BY <2>1 DEF WakeupInv, Waiter
  <2>3. waiters' = <<>>
    <3>1. PICK i \in DOMAIN waiters : waiters' = RemoveAt(waiters, i)
      BY <1>6 DEF FlushAbandoned
    <3>2. i = 1 /\ Len(waiters) = 1
      BY <2>2, <3>1
    <3> QED BY <2>2, <3>1, <3>2 DEF RemoveAt
  <2> QED BY <2>1, <2>3 DEF WakeupInv, Waiter, NoLostWakeup
<1>7. CASE DropBegin
  BY <1>7 DEF DropBegin, WakeupInv, Waiter, NoLostWakeup
<1> QED
  BY <1>1, <1>2, <1>3, <1>4, <1>5, <1>6, <1>7, ArmStep DEF Flush

(* With one flush caller, whatever else happens and even if it gives up    *)
(* waiting, no wakeup is lost: `notify_one` on either cell reaches its     *)
(* waiter or stays as a permit (BatchSender::flush, batch/worker.rs).      *)
THEOREM NoLostWakeupHolds == OneFlusher => (Spec => []NoLostWakeup)
<1> SUFFICES ASSUME OneFlusher PROVE Spec => []NoLostWakeup
  OBVIOUS
<1>1. Init => WakeupInv
  BY DEF Init, WakeupInv, Waiter, NoLostWakeup
<1>2. TypeOK /\ WakeupInv /\ [Next]_vars => (TypeOK /\ WakeupInv)'
  BY TypeStep, WakeupStep
<1>3. WakeupInv => NoLostWakeup
  BY DEF WakeupInv
<1> QED
  BY <1>1, <1>2, <1>3, TypeInit, PTL DEF Spec

(* How many events have been accepted, and where they are. *)
LEMMA Lengths ==
    ASSUME TypeOK, Ledger
    PROVE  /\ Len(settled) \in Nat /\ Len(inflight) \in Nat
           /\ Len(buffer) \in Nat /\ Len(queue) \in Nat
           /\ Len(accepted) = Len(settled) + Len(inflight) + Len(buffer) + Len(queue)
<1>1. /\ settled \in Seq(Events) /\ inflight \in Seq(Events)
      /\ buffer \in Seq(Events) /\ queue \in Seq(Events)
  BY DEF TypeOK
<1>2. inflight \o buffer \in Seq(Events) /\ Len(inflight \o buffer) = Len(inflight) + Len(buffer)
  BY <1>1, ConcatProperties
<1>3. Pending \in Seq(Events) /\ Len(Pending) = Len(inflight) + Len(buffer) + Len(queue)
  BY <1>1, <1>2, ConcatProperties DEF Pending
<1>4. Len(settled \o Pending) = Len(settled) + Len(Pending)
  BY <1>1, <1>3, ConcatProperties
<1>5. /\ Len(settled) \in Nat /\ Len(inflight) \in Nat
      /\ Len(buffer) \in Nat /\ Len(queue) \in Nat
  BY <1>1, LenProperties
<1> QED
  BY <1>3, <1>4, <1>5 DEF Ledger

(* What is settled is longer by what a step settles. *)
LEMMA SettleLength ==
    ASSUME TypeOK, NEW s \in Seq(Events), NEW f, Settle(s, f)
    PROVE  Len(settled') = Len(settled) + Len(s) /\ Len(s) \in Nat
<1>1. settled \in Seq(Events) /\ settled' = settled \o s
  BY DEF TypeOK, Settle
<1> QED
  BY <1>1, ConcatProperties, LenProperties

(* Nothing accepted or settled is taken back. *)
LEMMA Grows ==
    ASSUME TypeOK, TypeOK', Phases, [Next]_vars
    PROVE  Len(accepted) <= Len(accepted') /\ Len(settled) <= Len(settled')
<1>1. Len(accepted) \in Nat /\ Len(settled) \in Nat
  BY LenProperties DEF TypeOK
<1>2. CASE Admits
  <2>1. /\ settled' = settled /\ accepted' = Append(accepted, next)
        /\ next \in Events /\ accepted \in Seq(Events)
    BY <1>2 DEF Admits, SubmitAccepted, TypeOK, Events
  <2>2. Len(accepted') = Len(accepted) + 1
    BY <2>1, AppendProperties
  <2> QED BY <1>1, <2>1, <2>2
<1>3. CASE Keeps
  BY <1>1, <1>3 DEF Keeps
<1>4. ASSUME NEW b \in Seq(Events), NEW f \in Fates, SettlesHead(b, f)
      PROVE  Len(accepted) <= Len(accepted') /\ Len(settled) <= Len(settled')
  BY <1>1, <1>4, SettleLength DEF SettlesHead
<1>5. CASE Closes
  <2>1. Pending \in Seq(Events)
    BY PendingType
  <2> QED BY <1>1, <1>5, <2>1, SettleLength DEF Closes
<1> QED
  BY <1>2, <1>3, <1>4, <1>5, PendingStep

(* A goal changes when its caller calls flush(), or is waived.             *)
LEMMA GoalStep ==
    ASSUME TypeOK, [Next]_vars, NEW f \in Flushers
    PROVE  \/ goal'[f] = goal[f]
           \/ goal'[f] = NoGoal
           \/ /\ FlushCall(f) /\ ~Answering
              /\ goal'[f] = [all |-> Len(accepted), from |-> Len(settled)]
<1>1. CASE Submit \/ DropBegin \/ DropEnd \/ UNCHANGED vars
  BY <1>1 DEF Submit, SubmitAccepted, SubmitFull, SubmitDisconnected, DropBegin, DropEnd, vars
<1>2. CASE WorkerStartFails \/ RuntimeShutdown \/ WorkerStart \/ Tick \/ FlushArm
  BY <1>2 DEF WorkerStartFails, RuntimeShutdown, WorkerGone, WorkerStart, Tick, FlushArm
<1>3. CASE DrainOne \/ DrainEmpty \/ ShipBegin \/ ShipUnencodable
  BY <1>3 DEF DrainOne, DrainEmpty, ShipBegin, ShipUnencodable
<1>4. CASE ShipUnreachable
  BY <1>4 DEF ShipUnreachable
<1>5. CASE SendOk \/ SendErr \/ Resend \/ ReconnectFails
  BY <1>5 DEF SendOk, SendErr, Resend, ReconnectFails, RetryOrGiveUp
<1>6. CASE NotifyDone
  BY <1>6 DEF NotifyDone, TypeOK
<1>7. ASSUME NEW g \in Flushers, FlushCall(g) \/ FlushWait(g) \/ FlushAbandoned(g)
      PROVE  \/ goal'[f] = goal[f]
             \/ goal'[f] = NoGoal
             \/ /\ FlushCall(f) /\ ~Answering
                /\ goal'[f] = [all |-> Len(accepted), from |-> Len(settled)]
  <2>1. CASE g = f
    BY <1>7, <2>1 DEF FlushCall, FlushWait, FlushAbandoned, TypeOK
  <2>2. CASE g # f
    BY <1>7, <2>2 DEF FlushCall, FlushWait, FlushAbandoned, TypeOK
  <2> QED BY <2>1, <2>2
<1> QED
  BY <1>1, <1>2, <1>3, <1>4, <1>5, <1>6, <1>7 DEF Next, Worker, Flush

(* Goals stay goals, since nothing accepted or settled is taken back. *)
LEMMA GoalsStep ==
    ASSUME TypeOK, TypeOK', Phases, Goals, [Next]_vars
    PROVE  Goals'
<1> SUFFICES ASSUME NEW f \in Flushers
             PROVE  goal'[f].all <= Len(accepted') /\ goal'[f].from <= Len(settled')
  BY DEF Goals
<1>1. /\ Len(accepted) \in Nat /\ Len(settled) \in Nat
      /\ Len(accepted') \in Nat /\ Len(settled') \in Nat
      /\ goal[f].all \in Nat /\ goal[f].from \in Nat
  BY LenProperties DEF TypeOK
<1>2. Len(accepted) <= Len(accepted') /\ Len(settled) <= Len(settled')
  BY Grows
<1>3. goal[f].all <= Len(accepted) /\ goal[f].from <= Len(settled)
  BY DEF Goals
<1>4. CASE goal'[f] = goal[f]
  BY <1>1, <1>2, <1>3, <1>4
<1>5. CASE goal'[f] = NoGoal
  BY <1>1, <1>5 DEF NoGoal
<1>6. CASE goal'[f] = [all |-> Len(accepted), from |-> Len(settled)]
  BY <1>1, <1>2, <1>6
<1> QED
  BY <1>4, <1>5, <1>6, GoalStep

(* The handle is used by the callers and dropped after them. *)
LEMMA HandleStep ==
    ASSUME [Next]_vars
    PROVE  UNCHANGED handle \/ DropBegin \/ DropEnd
BY DEF Next, Submit, SubmitAccepted, SubmitFull, SubmitDisconnected, Worker, WorkerStart,
   WorkerStartFails, RuntimeShutdown, WorkerGone, Tick, FlushArm, DrainOne, DrainEmpty,
   ShipBegin, ShipUnreachable, ShipUnencodable, SendOk, SendErr, Resend, ReconnectFails,
   RetryOrGiveUp, NotifyDone, Flush, FlushCall, FlushWait, FlushAbandoned, vars

(* A call passes from one place to the next, and is nowhere twice. *)
LEMMA OneRequestStep ==
    ASSUME OneFlusher, Cancellers = {}, TypeOK, Waiter, OneRequest, [Next]_vars
    PROVE  OneRequest'
<1>1. CASE CellsKept /\ ~NotifyDone /\ ~FlushArm
  <2>1. CASE UNCHANGED handle
    BY <1>1, <2>1, ArmStep DEF OneRequest, CellsKept, Answering
  <2>2. CASE DropBegin \/ DropEnd
    BY <1>1, <2>2 DEF OneRequest, CellsKept, DropBegin, DropEnd
  <2> QED BY <2>1, <2>2, HandleStep
<1>2. CASE FlushArm
  BY <1>2 DEF FlushArm, TakeNotification, OneRequest, Requested, Answering
<1>3. CASE NotifyDone
  <2>1. ~InFlushArm' /\ InFlushArm /\ UNCHANGED <<handle, flushNotify, flushHanded>>
    BY <1>3 DEF NotifyDone, InFlushArm, Shipping
  <2>2. CASE handle # "live"
    <3>1. \A f \in Flushers : fpc'[f] = "idle"
      BY <1>3, <2>2, NotifyWakes DEF OneRequest
    <3> QED BY <2>1, <2>2, <3>1 DEF OneRequest, Requested
  <2>3. CASE handle = "live"
    <3>1. ~Requested /\ ~flushDone
      BY <2>1, <2>3 DEF OneRequest
    <3>2. PICK f \in Flushers : fpc[f] # "idle" /\ Flushers = {f}
      BY <2>1, <2>3 DEF OneRequest, OneFlusher, Answering
    <3>3. \/ fpc'[f] = "idle" /\ UNCHANGED <<flushNotify, flushHanded, flushDone>>
          \/ UNCHANGED fpc
      BY <1>3, NotifyWakes
    <3> QED BY <2>1, <2>3, <3>1, <3>2, <3>3 DEF OneRequest, Requested, Answering
  <2> QED BY <2>2, <2>3
<1>4. ASSUME NEW f \in Flushers, FlushCall(f) PROVE OneRequest'
  <2>1. Flushers = {f} /\ fpc'[f] = "called" /\ fpc[f] = "idle" /\ handle = "live"
    BY <1>4 DEF OneFlusher, FlushCall, TypeOK
  <2>2. ~Requested /\ ~InFlushArm /\ ~flushDone
    BY <2>1 DEF OneRequest, Answering
  <2>3. ~InFlushArm' /\ ~flushDone' /\ UNCHANGED handle
    BY <1>4, <2>2 DEF FlushCall, InFlushArm
  <2>4. ~(flushNotify' /\ flushHanded')
    BY <1>4, <2>2 DEF FlushCall, NotifyWorker, Requested
  <2> QED BY <2>1, <2>3, <2>4 DEF OneRequest
<1>5. ASSUME NEW f \in Flushers, FlushWait(f) PROVE OneRequest'
  <2>1. Flushers = {f} /\ fpc[f] = "called" /\ handle = "live"
    BY <1>5 DEF OneFlusher, FlushWait, OneRequest
  <2>2. UNCHANGED <<handle, flushNotify, flushHanded>> /\ (InFlushArm' <=> InFlushArm)
    BY <1>5 DEF FlushWait, InFlushArm
  <2>3. CASE flushDone
    BY <1>5, <2>1, <2>2, <2>3 DEF FlushWait, OneRequest, Requested, Answering, TypeOK
  <2>4. CASE ~flushDone
    <3>1. fpc'[f] = "waiting" /\ UNCHANGED flushDone
      BY <1>5, <2>4 DEF FlushWait, TypeOK
    <3> QED BY <2>1, <2>2, <3>1 DEF OneRequest, Requested
  <2> QED BY <2>3, <2>4
<1>6. ASSUME NEW f \in Flushers, FlushAbandoned(f) PROVE FALSE
  BY <1>6 DEF FlushAbandoned
<1>7. CASE DropBegin
  BY <1>7 DEF DropBegin, OneRequest
<1> QED
  BY <1>1, <1>2, <1>3, <1>4, <1>5, <1>6, <1>7, ArmStep DEF Flush

-----------------------------------------------------------------------------
(* A call begins with FlushCall, and a permit of flush_done with the       *)
(* notification.                                                           *)
LEMMA CallStep ==
    ASSUME TypeOK, [Next]_vars, NEW f \in Flushers
    PROVE  /\ fpc[f] = "idle" /\ fpc'[f] # "idle" => FlushCall(f)
           /\ flushDone' => flushDone \/ pc = "notify"
<1>1. CASE CellsKept \/ FlushArm \/ DropBegin
  BY <1>1 DEF CellsKept, FlushArm, DropBegin
<1>2. CASE NotifyDone
  BY <1>2 DEF NotifyDone, TypeOK
<1>3. ASSUME NEW g \in Flushers, FlushCall(g) \/ FlushWait(g) \/ FlushAbandoned(g)
      PROVE  /\ fpc[f] = "idle" /\ fpc'[f] # "idle" => FlushCall(f)
             /\ flushDone' => flushDone
  <2>1. CASE g = f
    BY <1>3, <2>1 DEF FlushCall, FlushWait, FlushAbandoned, TypeOK
  <2>2. CASE g # f
    BY <1>3, <2>2, SMTT(30) DEF FlushCall, FlushWait, FlushAbandoned, TypeOK
  <2> QED BY <2>1, <2>2
<1> QED
  BY <1>1, <1>2, <1>3, ArmStep DEF Flush

(* The events the worker has in hand or is done with. *)
Held == Len(settled) + Len(inflight) + Len(buffer)

(* What a step that leaves the goal of f alone makes of the promise to it. *)
LEMMA KeepsPromise ==
    ASSUME TypeOK, TypeOK', Phases, Phases', Ledger, Ledger', Goals, [Next]_vars,
           NEW f \in Flushers,
           pc \in Shipping /\ ret = "notify" => Enough(f, Held),
           pc = "notify" => Enough(f, Len(settled)),
           goal'[f] = goal[f]
    PROVE  /\ pc' \in Shipping /\ ret' = "notify" => Enough(f, Held')
           /\ pc' = "notify" => Enough(f, Len(settled'))
<1>0. /\ Len(settled) \in Nat /\ Len(inflight) \in Nat /\ Len(buffer) \in Nat
      /\ Len(queue) \in Nat
      /\ Len(accepted) = Len(settled) + Len(inflight) + Len(buffer) + Len(queue)
      /\ goal[f].all \in Nat /\ goal[f].from \in Nat /\ BatchSize \in Nat \ {0}
      /\ goal[f].all <= Len(accepted) /\ goal[f].from <= Len(settled)
  BY Lengths, ConfigAssumption DEF TypeOK, Goals
<1>e. Len(<<>>) = 0
  BY EmptySeq
<1>1. CASE Submit \/ Flush \/ DropBegin \/ DropEnd \/ UNCHANGED vars
  <2>1. UNCHANGED <<pc, ret, settled, inflight, buffer>>
    BY <1>1 DEF Submit, SubmitAccepted, SubmitFull, SubmitDisconnected, Flush,
       FlushCall, FlushWait, FlushAbandoned, DropBegin, DropEnd, vars
  <2> QED BY <2>1 DEF Held
<1>2. CASE WorkerStartFails \/ RuntimeShutdown
  BY <1>2 DEF WorkerStartFails, RuntimeShutdown, WorkerGone, Shipping
<1>3. CASE WorkerStart \/ Tick \/ FlushArm \/ NotifyDone
  BY <1>3 DEF Shipping, WorkerStart, Tick, FlushArm, NotifyDone, EnterShip
<1>4. CASE DrainOne
  <2>0. inflight = <<>> /\ UNCHANGED <<settled, inflight>>
    BY <1>4 DEF DrainOne, Phases
  <2>1. Len(buffer') \in Nat
    BY LenProperties DEF TypeOK
  <2>2. CASE Len(buffer') >= BatchSize
    <3>1. buffer' # <<>>
      BY <1>0, <1>e, <2>2
    <3>2. pc' # "notify"
      BY <1>4, <2>2, <3>1 DEF DrainOne, AfterDrain, EnterShip
    <3>3. Enough(f, Held')
      BY <1>0, <1>e, <2>0, <2>1, <2>2 DEF Enough, Held
    <3> QED BY <3>2, <3>3
  <2>3. CASE ~(Len(buffer') >= BatchSize)
    BY <1>4, <2>3 DEF DrainOne, Shipping
  <2> QED BY <2>2, <2>3
<1>5. CASE DrainEmpty
  <2>1. /\ inflight = <<>> /\ queue = <<>> /\ UNCHANGED <<settled, inflight, buffer>>
    BY <1>5 DEF DrainEmpty, Phases
  <2>2. Held' = Len(accepted)
    BY <1>0, <1>e, <2>1 DEF Held
  <2>3. Enough(f, Held')
    BY <1>0, <2>2 DEF Enough
  <2>4. pc' = "notify" => buffer = <<>>
    BY <1>5 DEF DrainEmpty, AfterDrain, EnterShip
  <2>5. buffer = <<>> => Len(settled') = Held'
    BY <1>0, <1>e, <2>1 DEF Held
  <2> QED BY <2>3, <2>4, <2>5
<1>6. CASE ShipBegin
  <2>1. /\ inflight = <<>> /\ inflight' = buffer /\ buffer' = <<>>
        /\ UNCHANGED <<settled, ret>> /\ pc' = "send" /\ pc = "ship"
    BY <1>6 DEF ShipBegin, Phases
  <2>2. Held' = Held
    BY <1>0, <1>e, <2>1 DEF Held
  <2> QED BY <2>1, <2>2 DEF Shipping
<1>7. CASE ShipUnreachable
  <2>1. CASE ret = "notify"
    <3>1. goal[f] = NoGoal /\ pc' = "notify" /\ UNCHANGED settled
      BY <1>7, <2>1 DEF ShipUnreachable
    <3> QED BY <1>0, <3>1 DEF Enough, NoGoal, Shipping
  <2>2. CASE ret # "notify"
    BY <1>7, <2>2 DEF ShipUnreachable, TypeOK, Shipping
  <2> QED BY <2>1, <2>2
<1>8. CASE ShipUnencodable
  <2>1. /\ inflight = <<>> /\ pc' = ret /\ pc = "ship" /\ Settle(buffer, "unencodable")
    BY <1>8 DEF ShipUnencodable, Phases
  <2>2. Len(settled') = Held
    <3>1. buffer \in Seq(Events)
      BY DEF TypeOK
    <3>2. Len(settled') = Len(settled) + Len(buffer)
      BY <2>1, <3>1, SettleLength
    <3>3. Len(inflight) = 0
      BY <1>e, <2>1
    <3> QED BY <1>0, <3>2, <3>3 DEF Held
  <2> QED BY <2>1, <2>2 DEF Shipping, TypeOK
<1>9. ASSUME NEW r, ShipReturns(r), UNCHANGED ret, pc \in Shipping, buffer = <<>>
      PROVE  /\ pc' \in Shipping /\ ret' = "notify" => Enough(f, Held')
             /\ pc' = "notify" => Enough(f, Len(settled'))
  <2>1. Len(settled') = Held
    <3>1. inflight \in Seq(Events) /\ Settle(inflight, r)
      BY <1>9 DEF TypeOK, ShipReturns
    <3>2. Len(settled') = Len(settled) + Len(inflight)
      BY <3>1, SettleLength
    <3>3. Len(buffer) = 0
      BY <1>e, <1>9
    <3> QED BY <1>0, <3>2, <3>3 DEF Held
  <2>2. pc' = ret
    BY <1>9 DEF ShipReturns
  <2> QED BY <1>9, <2>1, <2>2 DEF Shipping, TypeOK
<1>10. CASE SendOk
  BY <1>9, <1>10 DEF SendOk, Shipping, Phases
<1>11. CASE SendErr \/ ReconnectFails
  <2>1. pc \in Shipping /\ buffer = <<>> /\ UNCHANGED <<ret, buffer>>
    BY <1>11 DEF SendErr, ReconnectFails, RetryOrGiveUp, Shipping, Phases
  <2>2. CASE ShipReturns("expired")
    BY <1>9, <2>1, <2>2
  <2>3. CASE UNCHANGED <<inflight, settled>> /\ pc' = "backoff"
    BY <2>1, <2>3 DEF Held
  <2> QED BY <1>11, <2>2, <2>3 DEF SendErr, ReconnectFails, RetryOrGiveUp
<1>12. CASE Resend
  <2>1. UNCHANGED <<settled, inflight, buffer, ret>> /\ pc \in Shipping /\ pc' = "send"
    BY <1>12 DEF Resend, Shipping
  <2> QED BY <2>1 DEF Held
<1> QED
  BY <1>1, <1>2, <1>3, <1>4, <1>5, <1>6, <1>7, <1>8, <1>10, <1>11, <1>12 DEF Next, Worker

(* Every step keeps the promise. *)
LEMMA PromiseStep ==
    ASSUME TypeOK, TypeOK', Phases, Phases', Ledger, Ledger', Goals, Promise, [Next]_vars
    PROVE  Promise'
<1> SUFFICES ASSUME NEW f \in Flushers, fpc'[f] # "idle"
             PROVE  /\ pc' \in Shipping /\ ret' = "notify" => Enough(f, Held)'
                    /\ pc' = "notify" \/ flushDone' => Enough(f, Len(settled))'
  BY DEF Promise, Held
<1>1. CASE FlushCall(f) /\ ~Answering
  <2>1. ~InFlushArm' /\ ~flushDone'
    BY <1>1 DEF FlushCall, InFlushArm, Answering
  <2> QED BY <2>1 DEF InFlushArm
<1>2. CASE goal'[f] = NoGoal
  <2>1. Len(settled)' \in Nat /\ Held' \in Nat
    BY Lengths, TypeOK', Ledger' DEF Held
  <2> QED BY <1>2, <2>1 DEF Enough, NoGoal
<1>3. CASE goal'[f] = goal[f] /\ ~FlushCall(f)
  <2>1. /\ fpc[f] # "idle"
        /\ flushDone' => flushDone \/ pc = "notify"
    BY <1>3, CallStep
  <2>2. /\ pc \in Shipping /\ ret = "notify" => Enough(f, Held)
        /\ pc = "notify" \/ flushDone => Enough(f, Len(settled))
    BY <2>1 DEF Promise, Held
  <2>3. /\ pc' \in Shipping /\ ret' = "notify" => Enough(f, Held')
        /\ pc' = "notify" => Enough(f, Len(settled'))
    BY <1>3, <2>2, KeepsPromise
  <2>4. Enough(f, Len(settled)) => Enough(f, Len(settled'))
    <3>1. /\ Len(settled) \in Nat /\ Len(settled') \in Nat /\ Len(settled) <= Len(settled')
          /\ goal[f].all \in Nat /\ goal[f].from \in Nat /\ BatchSize \in Nat
      BY Grows, LenProperties, ConfigAssumption DEF TypeOK
    <3> QED BY <3>1 DEF Enough
  <2>5. /\ pc' \in Shipping /\ ret' = "notify" => Enough(f, Held')
        /\ pc' = "notify" \/ flushDone' => Enough(f, Len(settled'))
    BY <2>1, <2>2, <2>3, <2>4
  <2> QED BY <1>3, <2>5 DEF Enough
<1>4. CASE FlushCall(f) /\ Answering
  <2>1. goal'[f] = NoGoal
    BY <1>4 DEF FlushCall, TypeOK
  <2> QED BY <1>2, <2>1
<1> QED
  BY <1>1, <1>2, <1>3, <1>4, GoalStep

(* A call returns with a notification, or with its permit. *)
LEMMA CoverageStep ==
    ASSUME TypeOK, Promise, [Next]_vars,
           NEW f \in Flushers, fpc[f] # "idle", fpc'[f] = "idle", ~FlushAbandoned(f)
    PROVE  \/ Len(settled') >= goal[f].all
           \/ Len(settled') >= goal[f].from + BatchSize
<1>1. UNCHANGED settled /\ (pc = "notify" \/ flushDone)
  <2>1. CASE CellsKept \/ FlushArm \/ DropBegin
    BY <2>1 DEF CellsKept, FlushArm, DropBegin
  <2>2. CASE NotifyDone
    BY <2>2 DEF NotifyDone
  <2>3. ASSUME NEW g \in Flushers, FlushCall(g) \/ FlushWait(g) \/ FlushAbandoned(g)
        PROVE  UNCHANGED settled /\ flushDone
    <3>1. CASE g = f
      BY <2>3, <3>1 DEF FlushCall, FlushWait, TypeOK
    <3>2. CASE g # f
      BY <2>3, <3>2 DEF FlushCall, FlushWait, FlushAbandoned, TypeOK
    <3> QED BY <3>1, <3>2
  <2> QED BY <2>1, <2>2, <2>3, ArmStep DEF Flush
<1> QED
  BY <1>1 DEF Promise, Enough

(* flush() returns only when everything accepted before the call is        *)
(* settled, or a batch of it, or the collector could not be reached: for   *)
(* any number of callers that come and go and drop their futures, if at    *)
(* the call no earlier request was being answered (BatchSender::flush,     *)
(* run).                                                                   *)
THEOREM FlushCoverageHolds == Spec => FlushCoverage
<1> DEFINE Inv == TypeOK /\ Phases /\ Ledger /\ Goals /\ Promise
<1>1. Init => Inv
  <2> SUFFICES ASSUME Init PROVE Inv
    OBVIOUS
  <2>1. Phases /\ Ledger
    BY EmptySeq, ConcatEmptySeq DEF Init, Phases, Ledger, Pending
  <2>2. Promise
    BY DEF Init, Promise
  <2>3. Goals
    BY EmptySeq DEF Init, Goals, NoGoal
  <2> QED BY <2>1, <2>2, <2>3, TypeInit
<1>2. Inv /\ [Next]_vars => Inv'
  <2> SUFFICES ASSUME Inv, [Next]_vars PROVE Inv'
    OBVIOUS
  <2>1. TypeOK' /\ Phases' /\ Ledger'
    BY TypeStep, PhasesStep, LedgerStep
  <2>2. Goals' /\ Promise'
    BY <2>1, GoalsStep, PromiseStep
  <2> QED BY <2>1, <2>2
<1>3. Inv /\ [Next]_vars =>
        [\A f \in Flushers :
            fpc[f] # "idle" /\ fpc'[f] = "idle" /\ ~FlushAbandoned(f) =>
                \/ Len(settled') >= goal[f].all
                \/ Len(settled') >= goal[f].from + BatchSize]_vars
  BY CoverageStep
<1> HIDE DEF Inv
<1> QED
  BY <1>1, <1>2, <1>3, PTL DEF Spec, FlushCoverage

(* What FlushCoverage asks of a call: no earlier request is unanswered.    *)
CallsAreClean == \A f \in Flushers : fpc[f] = "idle" /\ handle = "live" => ~Answering

(* A caller that is alone and never drops the future meets it whenever it  *)
(* can call, so that FlushCoverage is about all of its calls: one request  *)
(* is in one place, from notify_one in flush() to the return of flush().   *)
THEOREM SoleCallerClean == OneFlusher /\ Cancellers = {} => (Spec => []CallsAreClean)
<1> SUFFICES ASSUME OneFlusher, Cancellers = {} PROVE Spec => []CallsAreClean
  OBVIOUS
<1> DEFINE Inv == TypeOK /\ WakeupInv /\ OneRequest
<1>1. Init => Inv
  BY TypeInit DEF Init, WakeupInv, Waiter, NoLostWakeup, OneRequest, Answering, Requested,
     InFlushArm, Shipping
<1>2. Inv /\ [Next]_vars => Inv'
  BY TypeStep, WakeupStep, OneRequestStep DEF WakeupInv
<1>3. Inv => CallsAreClean
  BY DEF OneRequest, OneFlusher, CallsAreClean
<1> HIDE DEF Inv
<1> QED
  BY <1>1, <1>2, <1>3, PTL DEF Spec
=============================================================================
