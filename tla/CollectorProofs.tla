--------------------------- MODULE CollectorProofs ---------------------------
(***************************************************************************)
(* What is proved of the collector's ingest path for every set of RPCs,    *)
(* number of batches and size of a batch.                                  *)
(***************************************************************************)
EXTENDS Collector, SequenceTheorems, FiniteSetTheorems, WellFoundedInduction, TLAPS

USE DEF handlerVars, storeVars, batchVars

-----------------------------------------------------------------------------
(* The strengthening of AcceptedLanded, StreamInOrder and OneCall. *)

(* What the Store is doing fits what is in its mailbox. *)
StoreFits ==
    /\ store = "inserting" => mailbox # <<>>
    /\ store = "down" => mailbox = <<>>

(* Nothing has been done yet for a batch whose call is pending ... *)
Untouched ==
    \A i \in 1..Len(mailbox) :
        landed[mailbox[i]] = 0 /\ verdict[mailbox[i]] = "none"

(* ... or that has not been received. *)
Future ==
    \A b \in Batches :
        b[2] > received[b[1]] => rows[b] = 0 /\ landed[b] = 0 /\ verdict[b] = "none"

(* A handler goes on to the next batch only with an answer to the last.    *)
Settled ==
    \A b \in Batches :
        \/ b[2] < received[b[1]]
        \/ b[2] = received[b[1]] /\ hpc[b[1]] = "open"
        => verdict[b] # "none"

IngestInv ==
    /\ TypeOK
    /\ OneCall
    /\ StoreFits
    /\ Untouched
    /\ Future
    /\ Settled
    /\ AcceptedLanded

-----------------------------------------------------------------------------
(* Mailboxes. *)

LEMMA AppendAt ==
    ASSUME NEW S, NEW s \in Seq(S), NEW e \in S
    PROVE  /\ Append(s, e) \in Seq(S)
           /\ Len(s) \in Nat
           /\ Len(Append(s, e)) = Len(s) + 1
           /\ \A i \in 1..Len(s) : Append(s, e)[i] = s[i]
           /\ Append(s, e)[Len(s) + 1] = e
  BY AppendProperties, LenProperties

LEMMA TailAt ==
    ASSUME NEW S, NEW s \in Seq(S), s # <<>>
    PROVE  /\ Tail(s) \in Seq(S)
           /\ Len(s) \in Nat \ {0}
           /\ Len(Tail(s)) = Len(s) - 1
           /\ Head(s) = s[1] /\ s[1] \in S
           /\ \A i \in 1..Len(Tail(s)) : i + 1 \in 1..Len(s) /\ Tail(s)[i] = s[i + 1]
  BY HeadTailProperties, LenProperties, EmptySeq

LEMMA At ==
    ASSUME NEW S, NEW s \in Seq(S), NEW i \in 1..Len(s)
    PROVE  s[i] \in S
  BY ElementOfSeq

LEMMA BatchParts ==
    ASSUME NEW b \in Batches
    PROVE  b[1] \in Rpcs /\ b[2] \in 1..MaxBatches /\ b = <<b[1], b[2]>>
  BY DEF Batches

-----------------------------------------------------------------------------
(* A message arrives. *)
LEMMA ReceiveStep ==
    ASSUME IngestInv, NEW r \in Rpcs, NEW n \in 0..MaxRows, Receive(r, n)
    PROVE  IngestInv'
<1> USE CollectorAssumption
<1> DEFINE new == <<r, received[r] + 1>>
<1>1. new \in Batches /\ new[1] = r /\ new[2] = received[r] + 1
  BY DEF IngestInv, TypeOK, Receive, Batches
<1>2. /\ mailbox' \in Seq(Batches)
      /\ Len(mailbox) \in Nat
      /\ Len(mailbox') = Len(mailbox) + 1
      /\ \A i \in 1..Len(mailbox) : mailbox'[i] = mailbox[i]
      /\ mailbox'[Len(mailbox) + 1] = new
  BY <1>1, AppendAt DEF IngestInv, TypeOK, Receive
<1>3. TypeOK'
  <2>1. received[r] + 1 \in 0..MaxBatches /\ n \in Nat
    BY DEF IngestInv, TypeOK, Receive
  <2>2. received' \in [Rpcs -> 0..MaxBatches] /\ hpc' \in [Rpcs -> HandlerPcs]
    BY <2>1 DEF IngestInv, TypeOK, Receive, HandlerPcs
  <2>3. rows' \in [Batches -> Nat]
    BY <1>1, <2>1 DEF IngestInv, TypeOK, Receive
  <2> QED
    BY <1>2, <2>2, <2>3 DEF IngestInv, TypeOK, Receive
<1>4. \A i \in 1..Len(mailbox) : mailbox[i] \in Batches /\ mailbox[i][1] \in Rpcs
  BY At, BatchParts DEF IngestInv, TypeOK
<1>5. \A i \in 1..Len(mailbox) : mailbox[i] = Current(mailbox[i][1])
  BY DEF IngestInv, OneCall
<1>6. received' = [received EXCEPT ![r] = @ + 1] /\ received \in [Rpcs -> 0..MaxBatches]
  BY DEF IngestInv, TypeOK, Receive
<1>7. \A i \in 1..Len(mailbox) : mailbox[i][1] # r
  <2> SUFFICES ASSUME NEW i \in 1..Len(mailbox), mailbox[i][1] = r
               PROVE  FALSE
    OBVIOUS
  <2>1. mailbox[i] = <<r, received[r]>>
    BY <1>5 DEF Current
  <2>2. mailbox[i][2] = received[r] /\ verdict[mailbox[i]] = "none"
    BY <2>1 DEF IngestInv, Untouched
  <2> QED
    BY <1>4, <2>2 DEF IngestInv, Settled, Receive
<1>8. OneCall'
  <2>1. ASSUME NEW q \in Rpcs, hpc'[q] = "calling"
        PROVE  \E i \in 1..Len(mailbox') : mailbox'[i] = Current(q)'
    <3>1. CASE q = r
      BY <1>2, <1>6, <3>1 DEF Current
    <3>2. CASE q # r
      <4>1. PICK i \in 1..Len(mailbox) : mailbox[i] = Current(q)
        BY <2>1, <3>2 DEF IngestInv, TypeOK, OneCall, Receive
      <4> QED
        BY <1>2, <1>6, <3>2, <4>1, SMTT(30) DEF Current
    <3> QED
      BY <3>1, <3>2
  <2>2. ASSUME NEW i \in 1..Len(mailbox')
        PROVE  mailbox'[i] = <<mailbox'[i][1], received'[mailbox'[i][1]]>>
    <3>1. CASE i = Len(mailbox) + 1
      BY <1>1, <1>2, <1>6, <3>1
    <3>2. CASE i \in 1..Len(mailbox)
      BY <1>2, <1>4, <1>5, <1>6, <1>7, <3>2 DEF Current
    <3> QED
      BY <1>2, <3>1, <3>2
  <2>3. ASSUME NEW i \in 1..Len(mailbox'), NEW j \in 1..Len(mailbox'),
               mailbox'[i][1] = mailbox'[j][1]
        PROVE  i = j
    <3>1. \A k \in 1..Len(mailbox') :
              k = Len(mailbox) + 1 \/ (k \in 1..Len(mailbox) /\ mailbox'[k] = mailbox[k])
      BY <1>2
    <3>2. CASE i = Len(mailbox) + 1
      BY <1>1, <1>2, <1>7, <2>3, <3>1, <3>2
    <3>3. CASE j = Len(mailbox) + 1
      BY <1>1, <1>2, <1>7, <2>3, <3>1, <3>3
    <3>4. CASE i \in 1..Len(mailbox) /\ j \in 1..Len(mailbox)
      BY <1>2, <2>3, <3>4 DEF IngestInv, OneCall
    <3> QED
      BY <3>1, <3>2, <3>3, <3>4
  <2> QED
    BY <2>1, <2>2, <2>3 DEF OneCall, Current
<1>9. StoreFits'
  BY <1>2, EmptySeq DEF IngestInv, StoreFits, Receive
<1>10. landed[new] = 0 /\ verdict[new] = "none" /\ rows[new] = 0
  BY <1>1, <1>6 DEF IngestInv, Future
<1>11. Untouched'
  <2> SUFFICES ASSUME NEW i \in 1..Len(mailbox')
               PROVE  landed'[mailbox'[i]] = 0 /\ verdict'[mailbox'[i]] = "none"
    BY DEF Untouched
  <2>1. i = Len(mailbox) + 1 \/ i \in 1..Len(mailbox)
    BY <1>2
  <2> QED
    BY <1>2, <1>10, <2>1 DEF IngestInv, Untouched, Receive
<1>12. ASSUME NEW b \in Batches
       PROVE  /\ received'[b[1]] = IF b[1] = r THEN received[r] + 1 ELSE received[b[1]]
              /\ rows'[b] = IF b = new THEN n ELSE rows[b]
              /\ b = new <=> b[1] = r /\ b[2] = received[r] + 1
  BY <1>1, <1>6, BatchParts DEF IngestInv, TypeOK, Receive
<1>13. Future'
  <2> SUFFICES ASSUME NEW b \in Batches, b[2] > received'[b[1]]
               PROVE  rows'[b] = 0 /\ landed'[b] = 0 /\ verdict'[b] = "none"
    BY DEF Future
  <2>1. b[2] > received[b[1]] /\ b # new
    BY <1>12, BatchParts, <1>6
  <2> QED
    BY <1>12, <2>1 DEF IngestInv, Future, Receive
<1>14. Settled'
  <2> SUFFICES ASSUME NEW b \in Batches,
                      \/ b[2] < received'[b[1]]
                      \/ b[2] = received'[b[1]] /\ hpc'[b[1]] = "open"
               PROVE  verdict'[b] # "none"
    BY DEF Settled
  <2>1. b[1] \in Rpcs /\ b[2] \in Nat
    BY BatchParts
  <2>2. CASE b[1] = r
    BY <1>6, <1>12, <2>1, <2>2 DEF IngestInv, TypeOK, Settled, Receive
  <2>3. CASE b[1] # r
    BY <1>12, <2>1, <2>3 DEF IngestInv, TypeOK, Settled, Receive
  <2> QED
    BY <2>2, <2>3
<1>15. AcceptedLanded'
  <2> SUFFICES ASSUME NEW b \in Batches
               PROVE  /\ landed'[b] <= rows'[b]
                      /\ verdict'[b] = "ok" => landed'[b] = rows'[b]
    BY DEF AcceptedLanded
  <2>1. landed'[b] = landed[b] /\ verdict'[b] = verdict[b]
    BY DEF Receive
  <2>2. CASE b = new
    BY <1>10, <1>12, <2>1, <2>2
  <2>3. CASE b # new
    BY <1>12, <2>1, <2>3 DEF IngestInv, AcceptedLanded
  <2> QED
    BY <2>2, <2>3
<1> QED
  BY <1>3, <1>8, <1>9, <1>11, <1>13, <1>14, <1>15 DEF IngestInv

(* A handler ends, by itself or by force. *)
LEMMA HandlerEnds ==
    ASSUME IngestInv, NEW r \in Rpcs, NEW s \in {"done", "failed"},
           hpc' = [hpc EXCEPT ![r] = s],
           UNCHANGED <<received, accepted, rejected, storeVars, batchVars>>
    PROVE  IngestInv'
<1>1. TypeOK'
  BY DEF IngestInv, TypeOK, HandlerPcs
<1>2. \A q \in Rpcs : hpc'[q] \in {"open", "calling"} => hpc[q] = hpc'[q]
  BY DEF IngestInv, TypeOK
<1>3. OneCall'
  BY <1>2 DEF IngestInv, OneCall, Current
<1>4. StoreFits' /\ Untouched' /\ Future' /\ AcceptedLanded'
  BY DEF IngestInv, StoreFits, Untouched, Future, AcceptedLanded
<1>5. Settled'
  BY <1>2, BatchParts DEF IngestInv, Settled
<1> QED
  BY <1>1, <1>3, <1>4, <1>5 DEF IngestInv

(* What is known of the call the Store handles. *)
LEMMA First ==
    ASSUME IngestInv, mailbox # <<>>
    PROVE  /\ Head(mailbox) \in Batches
           /\ Head(mailbox)[1] \in Rpcs
           /\ Head(mailbox)[2] = received[Head(mailbox)[1]]
           /\ landed[Head(mailbox)] = 0
           /\ verdict[Head(mailbox)] = "none"
           /\ \A i \in 1..Len(Tail(mailbox)) : Tail(mailbox)[i][1] # Head(mailbox)[1]
<1>1. mailbox \in Seq(Batches)
  BY DEF IngestInv, TypeOK
<1>2. /\ Len(mailbox) \in Nat \ {0}
      /\ Len(Tail(mailbox)) = Len(mailbox) - 1
      /\ Head(mailbox) = mailbox[1] /\ mailbox[1] \in Batches
      /\ \A i \in 1..Len(Tail(mailbox)) :
             i + 1 \in 1..Len(mailbox) /\ Tail(mailbox)[i] = mailbox[i + 1]
  BY <1>1, TailAt
<1>3. 1 \in 1..Len(mailbox)
  BY <1>2
<1>4. mailbox[1] = Current(mailbox[1][1])
  BY <1>3 DEF IngestInv, OneCall
<1>5. mailbox[1][2] = received[mailbox[1][1]]
  BY <1>4 DEF Current
<1>6. landed[mailbox[1]] = 0 /\ verdict[mailbox[1]] = "none"
  BY <1>3 DEF IngestInv, Untouched
<1>7. ASSUME NEW i \in 1..Len(Tail(mailbox))
      PROVE  Tail(mailbox)[i][1] # mailbox[1][1]
  BY <1>2, <1>3, <1>7 DEF IngestInv, OneCall
<1> QED
  BY <1>2, <1>5, <1>6, <1>7, BatchParts

(* The Store answers the first call, k rows of which have landed. *)
LEMMA ReplyStep ==
    ASSUME IngestInv, mailbox # <<>>, store # "down",
           NEW v \in {"ok", "error"}, Reply(Head(mailbox), v),
           NEW k \in 0..rows[Head(mailbox)],
           v = "ok" => k = rows[Head(mailbox)],
           landed' = [landed EXCEPT ![Head(mailbox)] = @ + k],
           UNCHANGED <<received, rows>>
    PROVE  IngestInv'
<1> DEFINE b == Head(mailbox)
<1>1. /\ b \in Batches /\ b[1] \in Rpcs /\ b[2] = received[b[1]]
      /\ landed[b] = 0 /\ verdict[b] = "none"
      /\ \A i \in 1..Len(Tail(mailbox)) : Tail(mailbox)[i][1] # b[1]
  BY First
<1>2. /\ mailbox' \in Seq(Batches)
      /\ Len(mailbox) \in Nat /\ Len(mailbox') = Len(mailbox) - 1
      /\ mailbox[1] = b
      /\ \A i \in 1..Len(mailbox') :
             i + 1 \in 1..Len(mailbox) /\ mailbox'[i] = mailbox[i + 1]
  BY TailAt DEF IngestInv, TypeOK, Reply
<1>3. \A i \in 1..Len(mailbox') :
          mailbox'[i] \in Batches /\ mailbox'[i][1] # b[1] /\ mailbox'[i] # b
  BY <1>1, <1>2, At DEF Reply
<1>4. \A q \in Rpcs : q # b[1] => hpc'[q] = hpc[q]
  BY <1>1 DEF IngestInv, TypeOK, Reply
<1>5. hpc'[b[1]] # "calling"
  BY <1>1 DEF IngestInv, TypeOK, Reply, Answered
<1>6. \A c \in Batches : c # b => landed'[c] = landed[c] /\ verdict'[c] = verdict[c]
  BY <1>1 DEF IngestInv, TypeOK, Reply
<1>7. landed'[b] = k /\ rows[b] \in Nat /\ k \in Nat
  BY <1>1 DEF IngestInv, TypeOK
<1>8. \/ hpc[b[1]] = "calling" /\ verdict'[b] = v
      \/ hpc'[b[1]] = hpc[b[1]] /\ verdict'[b] = "none" /\ hpc[b[1]] # "calling"
  BY <1>1 DEF IngestInv, TypeOK, Reply
<1>9. TypeOK'
  <2>1. hpc' \in [Rpcs -> HandlerPcs]
    BY <1>1 DEF IngestInv, TypeOK, Reply, Answered, HandlerPcs
  <2>2. accepted' \in [Rpcs -> Nat] /\ rejected' \in [Rpcs -> Nat]
    <3>1. accepted[b[1]] + rows[b] \in Nat /\ rejected[b[1]] + rows[b] \in Nat
      BY <1>1, <1>7, SMTT(30) DEF IngestInv, TypeOK
    <3>2. \/ accepted' = accepted
          \/ accepted' = [accepted EXCEPT ![b[1]] = accepted[b[1]] + rows[b]]
      BY DEF Reply
    <3>3. \/ rejected' = rejected
          \/ rejected' = [rejected EXCEPT ![b[1]] = rejected[b[1]] + rows[b]]
      BY DEF Reply
    <3> QED
      BY <3>1, <3>2, <3>3, ZenonT(30) DEF IngestInv, TypeOK
  <2>3. landed' \in [Batches -> Nat]
    BY <1>1, <1>7 DEF IngestInv, TypeOK
  <2>4. verdict' \in [Batches -> {"none", "ok", "error"}]
    BY <1>1 DEF IngestInv, TypeOK, Reply
  <2>5. store' \in StorePcs
    BY DEF Reply, StorePcs
  <2> QED
    BY <1>2, <2>1, <2>2, <2>3, <2>4, <2>5 DEF IngestInv, TypeOK
<1>10. OneCall'
  <2>1. ASSUME NEW q \in Rpcs, hpc'[q] = "calling"
        PROVE  \E i \in 1..Len(mailbox') : mailbox'[i] = Current(q)'
    <3>1. q # b[1] /\ hpc[q] = "calling"
      BY <1>4, <1>5, <2>1
    <3>2. PICK i \in 1..Len(mailbox) : mailbox[i] = <<q, received[q]>>
      BY <3>1 DEF IngestInv, OneCall, Current
    <3>3. i # 1
      BY <1>2, <3>1, <3>2
    <3>4. i - 1 \in 1..Len(mailbox') /\ (i - 1) + 1 = i
      BY <1>2, <3>3
    <3>5. mailbox'[i - 1] = <<q, received'[q]>>
      BY <1>2, <3>2, <3>4
    <3> QED
      BY <3>4, <3>5 DEF Current
  <2>2. ASSUME NEW i \in 1..Len(mailbox')
        PROVE  mailbox'[i] = <<mailbox'[i][1], received'[mailbox'[i][1]]>>
    BY <1>2, <2>2 DEF IngestInv, OneCall, Current
  <2>3. ASSUME NEW i \in 1..Len(mailbox'), NEW j \in 1..Len(mailbox'),
               mailbox'[i][1] = mailbox'[j][1]
        PROVE  i = j
    <3>1. i + 1 = j + 1
      BY <1>2, <2>3 DEF IngestInv, OneCall
    <3> QED
      BY <1>2, <3>1
  <2> QED
    BY <2>1, <2>2, <2>3 DEF OneCall, Current
<1>11. StoreFits'
  BY DEF StoreFits, Reply
<1>12. Untouched'
  <2> SUFFICES ASSUME NEW i \in 1..Len(mailbox')
               PROVE  landed'[mailbox'[i]] = 0 /\ verdict'[mailbox'[i]] = "none"
    BY DEF Untouched
  <2>1. landed'[mailbox'[i]] = landed[mailbox[i + 1]] /\ verdict'[mailbox'[i]] = verdict[mailbox[i + 1]]
    BY <1>2, <1>3, <1>6
  <2> QED
    BY <1>2, <2>1 DEF IngestInv, Untouched
<1>13. Future'
  <2> SUFFICES ASSUME NEW c \in Batches, c[2] > received[c[1]]
               PROVE  rows[c] = 0 /\ landed'[c] = 0 /\ verdict'[c] = "none"
    BY DEF Future
  <2>1. c[2] \in Nat
    BY BatchParts
  <2>2. c # b
    BY <1>1, <2>1
  <2> QED
    BY <1>6, <2>2 DEF IngestInv, Future
<1>14. Settled'
  <2> SUFFICES ASSUME NEW c \in Batches,
                      \/ c[2] < received[c[1]]
                      \/ c[2] = received[c[1]] /\ hpc'[c[1]] = "open"
               PROVE  verdict'[c] # "none"
    BY DEF Settled
  <2>1. CASE c = b
    <3>1. hpc'[b[1]] = "open"
      BY <1>1, <2>1, BatchParts DEF IngestInv, TypeOK
    <3> QED
      BY <1>1, <1>8, <2>1, <3>1 DEF IngestInv, Settled
  <2>2. CASE c # b
    <3>1. CASE c[1] = b[1]
      <4>1. c[2] # b[2]
        BY <1>1, <2>2, <3>1, BatchParts
      <4> QED
        BY <1>1, <1>6, <2>2, <3>1, <4>1 DEF IngestInv, Settled
    <3>2. CASE c[1] # b[1]
      BY <1>4, <1>6, <2>2, <3>2, BatchParts DEF IngestInv, Settled
    <3> QED
      BY <3>1, <3>2
  <2> QED
    BY <2>1, <2>2
<1>15. AcceptedLanded'
  <2> SUFFICES ASSUME NEW c \in Batches
               PROVE  /\ landed'[c] <= rows[c]
                      /\ verdict'[c] = "ok" => landed'[c] = rows[c]
    BY DEF AcceptedLanded
  <2>1. CASE c = b
    BY <1>7, <1>8, <2>1
  <2>2. CASE c # b
    BY <1>6, <2>2 DEF IngestInv, AcceptedLanded
  <2> QED
    BY <2>1, <2>2
<1> QED
  BY <1>9, <1>10, <1>11, <1>12, <1>13, <1>14, <1>15 DEF IngestInv

(* The Store dies with its mailbox. *)
LEMMA CrashStep ==
    ASSUME IngestInv, StoreCrash
    PROVE  IngestInv'
<1>1. mailbox' = <<>> /\ mailbox' \in Seq(Batches) /\ Len(mailbox') = 0 /\ store' = "down"
  BY EmptySeq DEF StoreCrash
<1>2. \A r \in Rpcs : hpc'[r] # "calling" /\ (hpc'[r] = "open" => hpc[r] = "open")
  BY DEF StoreCrash
<1>3. hpc' \in [Rpcs -> HandlerPcs]
  BY DEF StoreCrash, IngestInv, TypeOK, HandlerPcs
<1>4. UNCHANGED <<received, accepted, rejected, rows, verdict>>
  BY DEF StoreCrash
<1>5. \/ landed' = landed
      \/ /\ mailbox # <<>>
         /\ \E k \in 0..rows[Head(mailbox)] :
                landed' = [landed EXCEPT ![Head(mailbox)] = @ + k]
  BY DEF IngestInv, StoreFits, StoreCrash, Lands
<1>6. ASSUME NEW c \in Batches
      PROVE  /\ landed'[c] \in Nat
             /\ \/ landed'[c] = landed[c]
                \/ verdict[c] = "none" /\ c[2] = received[c[1]] /\ landed'[c] <= rows[c]
  <2>1. CASE landed' = landed
    BY <2>1 DEF IngestInv, TypeOK
  <2>2. CASE mailbox # <<>> /\ landed' # landed
    <3>1. /\ Head(mailbox) \in Batches
          /\ Head(mailbox)[2] = received[Head(mailbox)[1]]
          /\ landed[Head(mailbox)] = 0
          /\ verdict[Head(mailbox)] = "none"
      BY <2>2, First
    <3>2. PICK k \in 0..rows[Head(mailbox)] :
              landed' = [landed EXCEPT ![Head(mailbox)] = @ + k]
      BY <1>5, <2>2
    <3>3. rows[Head(mailbox)] \in Nat /\ k \in Nat /\ k <= rows[Head(mailbox)]
      BY <3>1 DEF IngestInv, TypeOK
    <3> QED
      BY <3>1, <3>2, <3>3 DEF IngestInv, TypeOK
  <2> QED
    BY <1>5, <2>1, <2>2
<1>7. landed' \in [Batches -> Nat]
  <2>1. landed' = [c \in Batches |-> landed'[c]]
    BY <1>5 DEF IngestInv, TypeOK
  <2> QED
    BY <1>6, <2>1
<1>8. TypeOK'
  BY <1>1, <1>3, <1>4, <1>7 DEF IngestInv, TypeOK, StorePcs
<1>9. OneCall' /\ StoreFits' /\ Untouched'
  BY <1>1, <1>2 DEF OneCall, StoreFits, Untouched
<1>10. Future'
  <2> SUFFICES ASSUME NEW c \in Batches, c[2] > received[c[1]]
               PROVE  rows[c] = 0 /\ landed'[c] = 0 /\ verdict[c] = "none"
    BY <1>4 DEF Future
  <2>1. c[2] \in Nat
    BY BatchParts
  <2> QED
    BY <1>6, <2>1 DEF IngestInv, Future
<1>11. Settled'
  BY <1>2, <1>4, BatchParts DEF IngestInv, Settled
<1>12. AcceptedLanded'
  BY <1>4, <1>6 DEF IngestInv, AcceptedLanded
<1> QED
  BY <1>8, <1>9, <1>10, <1>11, <1>12 DEF IngestInv

LEMMA IngestInit == Init => IngestInv
<1> SUFFICES ASSUME Init
             PROVE  IngestInv
  OBVIOUS
<1> USE CollectorAssumption
<1>1. TypeOK
  BY EmptySeq DEF Init, TypeOK, HandlerPcs, StorePcs
<1>2. OneCall /\ StoreFits /\ Untouched
  BY DEF Init, OneCall, StoreFits, Untouched
<1>3. Future /\ AcceptedLanded
  BY DEF Init, Future, AcceptedLanded
<1>4. Settled
  BY BatchParts DEF Init, Settled
<1> QED
  BY <1>1, <1>2, <1>3, <1>4 DEF IngestInv

LEMMA IngestStep == IngestInv /\ [Next]_vars => IngestInv'
<1> SUFFICES ASSUME IngestInv, [Next]_vars
             PROVE  IngestInv'
  OBVIOUS
<1>1. ASSUME NEW r \in Rpcs, Handler(r)
      PROVE  IngestInv'
  <2>1. ASSUME NEW n \in 0..MaxRows, Receive(r, n)
        PROVE  IngestInv'
    BY <2>1, ReceiveStep
  <2>2. CASE ReceiveNoStore(r)
    BY <2>2, HandlerEnds DEF ReceiveNoStore
  <2>3. CASE StreamEnds(r)
    BY <2>3, HandlerEnds DEF StreamEnds
  <2>4. CASE CallTimeout(r)
    BY <2>4, HandlerEnds DEF CallTimeout
  <2>5. CASE ConnectionLost(r)
    BY <2>5, HandlerEnds DEF ConnectionLost
  <2> QED
    BY <1>1, <2>1, <2>2, <2>3, <2>4, <2>5 DEF Handler
<1>2. ASSUME mailbox # <<>>
      PROVE  /\ Head(mailbox) \in Batches
             /\ rows[Head(mailbox)] \in Nat
             /\ 0 \in 0..rows[Head(mailbox)]
             /\ rows[Head(mailbox)] \in 0..rows[Head(mailbox)]
             /\ landed = [landed EXCEPT ![Head(mailbox)] = @ + 0]
  BY <1>2, First DEF IngestInv, TypeOK
<1>3. CASE InsertNothing
  <2>1. mailbox # <<>> /\ store # "down" /\ Reply(Head(mailbox), "ok")
    BY <1>3 DEF InsertNothing
  <2>2. landed' = [landed EXCEPT ![Head(mailbox)] = @ + 0] /\ UNCHANGED <<received, rows>>
    BY <1>2, <1>3, <2>1 DEF InsertNothing
  <2>3. 0 = rows[Head(mailbox)]
    BY <1>3 DEF InsertNothing
  <2> QED
    BY <1>2, <2>1, <2>2, <2>3, ReplyStep
<1>4. CASE InsertBegin
  <2>1. TypeOK' /\ StoreFits'
    BY <1>4 DEF InsertBegin, IngestInv, TypeOK, StoreFits, StorePcs
  <2>2. OneCall' /\ Untouched' /\ Future' /\ Settled' /\ AcceptedLanded'
    BY <1>4 DEF InsertBegin, IngestInv, OneCall, Current, Untouched, Future, Settled, AcceptedLanded
  <2> QED
    BY <2>1, <2>2 DEF IngestInv
<1>5. CASE InsertOk
  <2>1. mailbox # <<>> /\ store # "down" /\ Reply(Head(mailbox), "ok")
    BY <1>5 DEF InsertOk, IngestInv, StoreFits
  <2>2. /\ landed' = [landed EXCEPT ![Head(mailbox)] = @ + rows[Head(mailbox)]]
        /\ UNCHANGED <<received, rows>>
    BY <1>5 DEF InsertOk
  <2> QED
    BY <1>2, <2>1, <2>2, ReplyStep
<1>6. CASE InsertFails
  <2>1. mailbox # <<>> /\ store # "down" /\ Reply(Head(mailbox), "error")
    BY <1>6 DEF InsertFails, IngestInv, StoreFits
  <2>2. PICK k \in 0..rows[Head(mailbox)] :
            landed' = [landed EXCEPT ![Head(mailbox)] = @ + k]
    BY <1>6 DEF InsertFails, Lands
  <2>3. UNCHANGED <<received, rows>>
    BY <1>6 DEF InsertFails
  <2> QED
    BY <2>1, <2>2, <2>3, ReplyStep
<1>7. CASE StoreCrash
  BY <1>7, CrashStep
<1>8. CASE StoreRestart
  <2>1. TypeOK' /\ StoreFits'
    BY <1>8 DEF StoreRestart, IngestInv, TypeOK, StoreFits, StorePcs
  <2>2. OneCall' /\ Untouched' /\ Future' /\ Settled' /\ AcceptedLanded'
    BY <1>8 DEF StoreRestart, IngestInv, OneCall, Current, Untouched, Future, Settled, AcceptedLanded
  <2> QED
    BY <2>1, <2>2 DEF IngestInv
<1>9. CASE UNCHANGED vars
  <2>1. TypeOK' /\ StoreFits'
    BY <1>9 DEF vars, IngestInv, TypeOK, StoreFits
  <2>2. OneCall' /\ Untouched' /\ Future' /\ Settled' /\ AcceptedLanded'
    BY <1>9 DEF vars, IngestInv, OneCall, Current, Untouched, Future, Settled, AcceptedLanded
  <2> QED
    BY <2>1, <2>2 DEF IngestInv
<1> QED
  BY <1>1, <1>3, <1>4, <1>5, <1>6, <1>7, <1>8, <1>9 DEF Next, Store

-----------------------------------------------------------------------------
LEMMA IngestInvariant == Spec => []IngestInv
<1> QED
  BY IngestInit, IngestStep, PTL DEF Spec

(* What the collector reports as accepted is in the events table, and no   *)
(* batch is inserted twice, for every number of clients, whichever of them *)
(* time out and however often the Store crashes.                           *)
THEOREM AcceptedLandedHolds == Spec => []AcceptedLanded
<1>1. IngestInv => AcceptedLanded
  BY DEF IngestInv
<1> QED
  BY <1>1, IngestInvariant, PTL

(* A waiting handler has one call pending, and an abandoned call is never  *)
(* mistaken for another.                                                   *)
THEOREM OneCallHolds == Spec => []OneCall
<1>1. IngestInv => OneCall
  BY DEF IngestInv
<1> QED
  BY <1>1, IngestInvariant, PTL

(* The batches of a stream go in one at a time, in order. *)
THEOREM StreamInOrderHolds == Spec => []StreamInOrder
<1>1. IngestInv => StreamInOrder
  <2> SUFFICES ASSUME IngestInv, NEW b \in Batches, landed[b] > 0,
                      NEW k \in 1..(b[2] - 1)
               PROVE  verdict[<<b[1], k>>] # "none"
    BY DEF StreamInOrder
  <2>1. b[1] \in Rpcs /\ b[2] \in 1..MaxBatches /\ received[b[1]] \in Nat
    BY BatchParts DEF IngestInv, TypeOK
  <2>2. b[2] <= received[b[1]]
    BY <2>1 DEF IngestInv, Future
  <2>3. <<b[1], k>> \in Batches /\ <<b[1], k>>[2] < received[<<b[1], k>>[1]]
    BY <2>1, <2>2, CollectorAssumption DEF Batches
  <2> QED
    BY <2>3 DEF IngestInv, Settled
<1> QED
  BY <1>1, IngestInvariant, PTL

-----------------------------------------------------------------------------
(* Sums over finite sets: what MapThenSumSet computes, by induction over   *)
(* the subsets of a finite set.                                            *)

Sum(w, S) == MapThenSumSet(LAMBDA x : w[x], S)
Pick(s) == CHOOSE x \in s : TRUE

(* The function MapThenSumSet defines by recursion over the subsets of S.  *)
IsSum(g, w, S) == g = [s \in SUBSET S |-> IF s = {} THEN 0 ELSE w[Pick(s)] + g[s \ {Pick(s)}]]

(* CHOOSE does choose. *)
LEMMA PickIn == \A s : s # {} => Pick(s) \in s
BY DEF Pick

(* Induction over the subsets of a finite set, stated as the minimal       *)
(* counterexample: a non-empty collection of them has a least member.      *)
LEMMA Minimal ==
  ASSUME NEW S, IsFiniteSet(S), NEW T \in SUBSET SUBSET S, T # {}
  PROVE  \E s \in T : \A t \in T : t \subseteq s => t = s
<1>1. FiniteSubsetsOf(S) = SUBSET S
  BY FS_FiniteSubsetsOfFinite
<1>2. IsWellFoundedOn(StrictSubsetOrdering(S), SUBSET S)
  BY <1>1, FS_StrictSubsetOrderingWellFounded
<1>3. PICK s \in T : \A t \in T : <<t, s>> \notin StrictSubsetOrdering(S)
  BY <1>2, WFMin
<1> QED
  BY <1>3 DEF StrictSubsetOrdering

(* MapThenSumSet is the value at S of a function that is IsSum. *)
LEMMA SumIs ==
  ASSUME NEW w, NEW S, NEW g, IsSum(g, w, S)
  PROVE  \E h : IsSum(h, w, S) /\ Sum(w, S) = h[S]
<1> DEFINE h == CHOOSE f : IsSum(f, w, S)
<1>1. IsSum(h, w, S)
  OBVIOUS
<1>2. Sum(w, S) = h[S]
  BY DEF Sum, MapThenSumSet, MapThenFoldSet, IsSum, Pick
<1> QED BY <1>1, <1>2

(* Two such functions agree where both are defined ... *)
LEMMA SumAgree ==
  ASSUME NEW w, NEW A, IsFiniteSet(A), NEW B, B \subseteq A,
         NEW g, IsSum(g, w, A), NEW h, IsSum(h, w, B)
  PROVE  \A s \in SUBSET B : g[s] = h[s]
<1> DEFINE T == {s \in SUBSET B : g[s] # h[s]}
<1> SUFFICES ASSUME T # {} PROVE FALSE
  OBVIOUS
<1>1. PICK s \in T : \A t \in T : t \subseteq s => t = s
  <2>1. T \in SUBSET SUBSET A
    OBVIOUS
  <2> HIDE DEF T
  <2> QED BY <2>1, Minimal
<1> DEFINE u == s \ {Pick(s)}
<1>2. CASE s = {}
  BY <1>2 DEF IsSum
<1>3. CASE s # {}
  <2>1. u \subseteq s /\ u # s /\ u \in SUBSET B
    BY <1>3, PickIn
  <2>2. g[u] = h[u]
    BY <1>1, <2>1
  <2>3. g[s] = w[Pick(s)] + g[u] /\ h[s] = w[Pick(s)] + h[u]
    BY <1>3 DEF IsSum
  <2> QED BY <2>2, <2>3
<1> QED BY <1>2, <1>3

(* ... and there is one for every finite set. *)
LEMMA SumExists ==
  ASSUME NEW w, NEW S, IsFiniteSet(S)
  PROVE  \A s \in SUBSET S : \E g : IsSum(g, w, s)
<1> DEFINE T == {s \in SUBSET S : ~ \E g : IsSum(g, w, s)}
<1> SUFFICES ASSUME T # {} PROVE FALSE
  OBVIOUS
<1>1. PICK s \in T : \A t \in T : t \subseteq s => t = s
  <2>1. T \in SUBSET SUBSET S
    OBVIOUS
  <2> HIDE DEF T
  <2> QED BY <2>1, Minimal
<1>2. ASSUME NEW t \in SUBSET s, t # s
      PROVE  \E g : IsSum(g, w, t) /\ Sum(w, t) = g[t]
  <2>1. \E g : IsSum(g, w, t)
    BY <1>1, <1>2
  <2> QED BY <2>1, SumIs
<1> DEFINE g == [t \in SUBSET s |-> IF t = {} THEN 0 ELSE w[Pick(t)] + Sum(w, t \ {Pick(t)})]
<1>3. ASSUME NEW u \in SUBSET s, u # s
      PROVE  g[u] = Sum(w, u)
  <2>1. PICK h : IsSum(h, w, u) /\ Sum(w, u) = h[u]
    BY <1>2, <1>3
  <2>2. CASE u = {}
    BY <2>1, <2>2 DEF IsSum
  <2>3. CASE u # {}
    <3> DEFINE v == u \ {Pick(u)}
    <3>1. v \in SUBSET s /\ v # s /\ v \in SUBSET u
      BY <1>3, <2>3, PickIn
    <3>2. PICK k : IsSum(k, w, v) /\ Sum(w, v) = k[v]
      BY <3>1, <1>2
    <3>3. h[v] = k[v]
      <4>1. IsFiniteSet(u)
        BY FS_Subset
      <4> HIDE DEF v
      <4> QED BY <2>1, <3>1, <3>2, <4>1, SumAgree
    <3>4. h[u] = w[Pick(u)] + h[v]
      BY <2>1, <2>3 DEF IsSum
    <3>5. g[u] = w[Pick(u)] + Sum(w, v)
      BY <2>3
    <3> QED BY <2>1, <3>2, <3>3, <3>4, <3>5
  <2> QED BY <2>2, <2>3
<1>4. IsSum(g, w, s)
  <2>1. ASSUME NEW t \in SUBSET s, t # {}
        PROVE  g[t \ {Pick(t)}] = Sum(w, t \ {Pick(t)})
    <3>1. t \ {Pick(t)} \in SUBSET s /\ t \ {Pick(t)} # s
      BY <2>1, PickIn
    <3> QED BY <3>1, <1>3
  <2>2. g = [t \in SUBSET s |-> IF t = {} THEN 0 ELSE w[Pick(t)] + g[t \ {Pick(t)}]]
    BY <2>1
  <2> HIDE DEF g
  <2> QED BY <2>2 DEF IsSum
<1> QED BY <1>4

(* The equation a sum obeys. *)
LEMMA SumDef ==
  ASSUME NEW w, NEW S, IsFiniteSet(S)
  PROVE  Sum(w, S) = IF S = {} THEN 0 ELSE w[Pick(S)] + Sum(w, S \ {Pick(S)})
<1>1. PICK g : IsSum(g, w, S) /\ Sum(w, S) = g[S]
  BY SumExists, SumIs
<1>2. CASE S = {}
  BY <1>1, <1>2 DEF IsSum
<1>3. CASE S # {}
  <2> DEFINE u == S \ {Pick(S)}
  <2>1. PICK h : IsSum(h, w, u) /\ Sum(w, u) = h[u]
    BY SumExists, SumIs
  <2>2. g[u] = h[u]
    <3>1. u \subseteq S
      OBVIOUS
    <3> HIDE DEF u
    <3> QED BY <1>1, <2>1, <3>1, SumAgree
  <2>3. g[S] = w[Pick(S)] + g[u]
    BY <1>1, <1>3 DEF IsSum
  <2> QED BY <1>1, <1>3, <2>1, <2>2, <2>3
<1> QED BY <1>2, <1>3

(* A sum of naturals is one. *)
LEMMA SumType ==
  ASSUME NEW w, NEW S, IsFiniteSet(S), \A x \in S : w[x] \in Nat
  PROVE  \A s \in SUBSET S : Sum(w, s) \in Nat
<1> DEFINE T == {s \in SUBSET S : Sum(w, s) \notin Nat}
<1> SUFFICES ASSUME T # {} PROVE FALSE
  OBVIOUS
<1>1. PICK s \in T : \A t \in T : t \subseteq s => t = s
  <2>1. T \in SUBSET SUBSET S
    OBVIOUS
  <2> HIDE DEF T
  <2> QED BY <2>1, Minimal
<1>2. Sum(w, s) = IF s = {} THEN 0 ELSE w[Pick(s)] + Sum(w, s \ {Pick(s)})
  BY SumDef, FS_Subset
<1>3. s # {} => Pick(s) \in s /\ s \ {Pick(s)} \notin T
  BY <1>1, PickIn
<1> QED BY <1>2, <1>3

(* Any element may be taken out first. *)
LEMMA SumSplit ==
  ASSUME NEW w, NEW S, IsFiniteSet(S), \A x \in S : w[x] \in Nat
  PROVE  \A s \in SUBSET S : \A x \in s : Sum(w, s) = w[x] + Sum(w, s \ {x})
<1> DEFINE T == {s \in SUBSET S : \E x \in s : Sum(w, s) # w[x] + Sum(w, s \ {x})}
<1> SUFFICES ASSUME T # {} PROVE FALSE
  OBVIOUS
<1>1. PICK s \in T : \A t \in T : t \subseteq s => t = s
  <2>1. T \in SUBSET SUBSET S
    OBVIOUS
  <2> HIDE DEF T
  <2> QED BY <2>1, Minimal
<1>2. PICK x \in s : Sum(w, s) # w[x] + Sum(w, s \ {x})
  OBVIOUS
<1> DEFINE p == Pick(s)
           r == (s \ {p}) \ {x}
<1>3. p \in s /\ Sum(w, s) = w[p] + Sum(w, s \ {p}) /\ p # x
  <2>1. Sum(w, s) = w[p] + Sum(w, s \ {p})
    BY SumDef, FS_Subset
  <2> QED BY <2>1, <1>2, PickIn
<1>4. Sum(w, s \ {p}) = w[x] + Sum(w, r)
  <2>1. s \ {p} \notin T /\ x \in s \ {p} /\ s \ {p} \in SUBSET S
    BY <1>1, <1>3
  <2> QED BY <2>1
<1>5. Sum(w, s \ {x}) = w[p] + Sum(w, r)
  <2>1. s \ {x} \notin T /\ p \in s \ {x} /\ s \ {x} \in SUBSET S
    BY <1>1, <1>3
  <2>2. (s \ {x}) \ {p} = r
    OBVIOUS
  <2> QED BY <2>1, <2>2
<1>6. Sum(w, r) \in Nat /\ w[p] \in Nat /\ w[x] \in Nat
  BY <1>3, SumType
<1> HIDE DEF T, r, p
<1> QED BY <1>2, <1>3, <1>4, <1>5, <1>6

(* A sum depends on the summands only. *)
LEMMA SumCong ==
  ASSUME NEW v, NEW w, NEW S, IsFiniteSet(S), \A x \in S : w[x] = v[x]
  PROVE  Sum(w, S) = Sum(v, S)
<1> DEFINE T == {s \in SUBSET S : Sum(w, s) # Sum(v, s)}
<1> SUFFICES ASSUME T # {} PROVE FALSE
  OBVIOUS
<1>1. PICK s \in T : \A t \in T : t \subseteq s => t = s
  <2>1. T \in SUBSET SUBSET S
    OBVIOUS
  <2> HIDE DEF T
  <2> QED BY <2>1, Minimal
<1>2. /\ Sum(w, s) = IF s = {} THEN 0 ELSE w[Pick(s)] + Sum(w, s \ {Pick(s)})
      /\ Sum(v, s) = IF s = {} THEN 0 ELSE v[Pick(s)] + Sum(v, s \ {Pick(s)})
  BY SumDef, FS_Subset
<1>3. s # {} => Pick(s) \in s /\ s \ {Pick(s)} \notin T
  BY <1>1, PickIn
<1> QED BY <1>2, <1>3

(* Where w is 0 the sum is. *)
LEMMA SumZero ==
  ASSUME NEW w, NEW S, IsFiniteSet(S), \A x \in S : w[x] = 0
  PROVE  Sum(w, S) = 0
<1> DEFINE T == {s \in SUBSET S : Sum(w, s) # 0}
<1> SUFFICES ASSUME T # {} PROVE FALSE
  OBVIOUS
<1>1. PICK s \in T : \A t \in T : t \subseteq s => t = s
  <2>1. T \in SUBSET SUBSET S
    OBVIOUS
  <2> HIDE DEF T
  <2> QED BY <2>1, Minimal
<1>2. Sum(w, s) = IF s = {} THEN 0 ELSE w[Pick(s)] + Sum(w, s \ {Pick(s)})
  BY SumDef, FS_Subset
<1>3. s # {} => Pick(s) \in s /\ s \ {Pick(s)} \notin T
  BY <1>1, PickIn
<1> QED BY <1>2, <1>3

(* A sum is split in two. *)
LEMMA SumUnion ==
  ASSUME NEW w, NEW A, IsFiniteSet(A), NEW B, IsFiniteSet(B), A \cap B = {},
         \A x \in A \cup B : w[x] \in Nat
  PROVE  Sum(w, A \cup B) = Sum(w, A) + Sum(w, B)
<1> DEFINE T == {s \in SUBSET A : Sum(w, s \cup B) # Sum(w, s) + Sum(w, B)}
<1>0. IsFiniteSet(A \cup B)
  BY FS_Union
<1> SUFFICES ASSUME T # {} PROVE FALSE
  OBVIOUS
<1>1. PICK s \in T : \A t \in T : t \subseteq s => t = s
  <2>1. T \in SUBSET SUBSET A
    OBVIOUS
  <2> HIDE DEF T
  <2> QED BY <2>1, Minimal
<1>2. Sum(w, B) \in Nat
  BY SumType
<1>3. s # {}
  <2> SUFFICES ASSUME s = {} PROVE FALSE
    OBVIOUS
  <2>1. Sum(w, s) = 0
    BY SumDef, FS_EmptySet
  <2>2. s \cup B = B
    OBVIOUS
  <2> QED BY <1>2, <2>1, <2>2
<1> DEFINE x == Pick(s)
           r == s \ {x}
<1>4. x \in s /\ r \in SUBSET A /\ r # s /\ r \subseteq s
  BY <1>3, PickIn
<1>5. Sum(w, r \cup B) = Sum(w, r) + Sum(w, B)
  BY <1>1, <1>4
<1>6. Sum(w, s) = w[x] + Sum(w, r)
  BY <1>4, SumSplit
<1>7. Sum(w, s \cup B) = w[x] + Sum(w, r \cup B)
  <2>1. (s \cup B) \ {x} = r \cup B /\ s \cup B \in SUBSET (A \cup B) /\ x \in s \cup B
    BY <1>4
  <2>2. \A t \in SUBSET (A \cup B) : \A y \in t : Sum(w, t) = w[y] + Sum(w, t \ {y})
    BY <1>0, SumSplit, ZenonT(30)
  <2> QED BY <2>1, <2>2
<1>8. w[x] \in Nat /\ Sum(w, r) \in Nat
  BY <1>4, SumType
<1> HIDE DEF x, r
<1> QED BY <1>1, <1>2, <1>5, <1>6, <1>7, <1>8

(* A sum of parts of at most n each. *)
LEMMA SumBound ==
  ASSUME NEW w, NEW S, IsFiniteSet(S), NEW n \in Nat,
         \A x \in S : w[x] \in Nat /\ w[x] <= n
  PROVE  Sum(w, S) <= n * Cardinality(S)
<1> DEFINE T == {s \in SUBSET S : ~ (Sum(w, s) <= n * Cardinality(s))}
<1> SUFFICES ASSUME T # {} PROVE FALSE
  <2>1. S \in SUBSET S
    OBVIOUS
  <2> QED BY <2>1
<1>1. PICK s \in T : \A t \in T : t \subseteq s => t = s
  <2>1. T \in SUBSET SUBSET S
    OBVIOUS
  <2> HIDE DEF T
  <2> QED BY <2>1, Minimal
<1>2. s # {}
  <2> SUFFICES ASSUME s = {} PROVE FALSE
    OBVIOUS
  <2>1. Sum(w, s) = 0 /\ Cardinality(s) = 0
    BY SumDef, FS_EmptySet
  <2> QED BY <2>1
<1> DEFINE x == Pick(s)
           r == s \ {x}
<1>3. x \in s /\ r \in SUBSET S /\ r # s /\ r \subseteq s /\ IsFiniteSet(s)
  BY <1>2, PickIn, FS_Subset
<1>4. Sum(w, r) <= n * Cardinality(r)
  BY <1>1, <1>3
<1>5. Sum(w, s) = w[x] + Sum(w, r)
  BY <1>3, SumSplit
<1>6. Cardinality(r) = Cardinality(s) - 1 /\ Cardinality(r) \in Nat /\ Cardinality(s) \in Nat
  BY <1>3, FS_RemoveElement, FS_CardinalityType, FS_Subset
<1>7. Sum(w, r) \in Nat /\ w[x] \in Nat /\ w[x] <= n
  BY <1>3, SumType
<1>8. n * Cardinality(s) = n * Cardinality(r) + n
  <2>1. \A c, d \in Nat : c = d - 1 => n * d = n * c + n
    OBVIOUS
  <2> HIDE DEF r
  <2> QED BY <1>6, <2>1
<1>9. n * Cardinality(r) \in Nat
  <2>1. \A c \in Nat : n * c \in Nat
    OBVIOUS
  <2> HIDE DEF r
  <2> QED BY <1>6, <2>1
<1> HIDE DEF x, r
<1> QED BY <1>1, <1>4, <1>5, <1>7, <1>8, <1>9

-----------------------------------------------------------------------------
(* The totals a handler answers with. *)

(* The accepted and rejected counts are the sums of what was answered so.  *)
Counted ==
    \A r \in Rpcs :
        /\ accepted[r] = Sum(rows, With(r, "ok"))
        /\ rejected[r] = Sum(rows, With(r, "error"))

(* A handler answers its client only with an answer to its last batch.     *)
Concluded ==
    \A b \in Batches :
        hpc[b[1]] = "done" /\ b[2] = received[b[1]] => verdict[b] # "none"

TotalsInv == IngestInv /\ Counted /\ Concluded

(* The sets summed over are finite. *)
LEMMA WithFinite ==
    /\ \A r \in Rpcs : IsFiniteSet({b \in Batches : b[1] = r})
    /\ \A r \in Rpcs : \A v : IsFiniteSet(With(r, v))
<1>1. ASSUME NEW r \in Rpcs
      PROVE  IsFiniteSet({b \in Batches : b[1] = r})
  <2>1. IsFiniteSet({r})
    BY FS_Singleton
  <2>0. IsFiniteSet(1..MaxBatches)
    <3>1. 1 \in Int /\ MaxBatches \in Int
      BY CollectorAssumption
    <3> QED BY <3>1, FS_Interval
  <2>2. IsFiniteSet({r} \X (1..MaxBatches))
    BY <2>0, <2>1, FS_Product
  <2>3. {b \in Batches : b[1] = r} \subseteq {r} \X (1..MaxBatches)
    BY DEF Batches
  <2> QED BY <2>2, <2>3, FS_Subset
<1>2. ASSUME NEW r \in Rpcs, NEW v
      PROVE  With(r, v) \subseteq {b \in Batches : b[1] = r}
  BY DEF With
<1> QED
  BY <1>1, <1>2, FS_Subset

(* Steps that answer nothing: rows change at most for batches without an   *)
(* answer.                                                                 *)
LEMMA CountedKept ==
    ASSUME Counted, UNCHANGED <<accepted, rejected, verdict>>,
           \A b \in Batches : verdict[b] # "none" => rows'[b] = rows[b]
    PROVE  Counted'
<1> SUFFICES ASSUME NEW r \in Rpcs
             PROVE  /\ accepted'[r] = Sum(rows', With(r, "ok")')
                    /\ rejected'[r] = Sum(rows', With(r, "error")')
  BY DEF Counted
<1>1. ASSUME NEW v \in {"ok", "error"}
      PROVE  With(r, v)' = With(r, v) /\ Sum(rows', With(r, v)) = Sum(rows, With(r, v))
  <2>1. \A b \in With(r, v) : rows'[b] = rows[b]
    BY DEF With
  <2>2. Sum(rows', With(r, v)) = Sum(rows, With(r, v))
    BY <2>1, WithFinite, SumCong
  <2> QED BY <2>2 DEF With
<1> QED
  BY <1>1 DEF Counted

(* The Store's answer adds the batch to the sum it belongs to.             *)
LEMMA CountedReply ==
    ASSUME TotalsInv, mailbox # <<>>, NEW v \in {"ok", "error"},
           Reply(Head(mailbox), v), UNCHANGED <<received, rows>>
    PROVE  Counted' /\ Concluded'
<1> DEFINE b == Head(mailbox)
<1>1. /\ b \in Batches /\ b[1] \in Rpcs /\ b[2] = received[b[1]]
      /\ verdict[b] = "none"
  BY First DEF TotalsInv
<1>2. /\ hpc \in [Rpcs -> HandlerPcs] /\ verdict \in [Batches -> {"none", "ok", "error"}]
      /\ accepted \in [Rpcs -> Nat] /\ rejected \in [Rpcs -> Nat]
      /\ rows \in [Batches -> Nat]
  BY DEF TotalsInv, IngestInv, TypeOK
<1> HIDE DEF b
<1>3. CASE hpc[b[1]] # "calling"
  <2>1. UNCHANGED <<hpc, accepted, rejected, verdict>>
    BY <1>3 DEF Reply, b
  <2>2. Counted'
    BY <2>1, CountedKept DEF TotalsInv
  <2> QED BY <2>1, <2>2 DEF TotalsInv, Concluded
<1>4. CASE hpc[b[1]] = "calling"
  <2>1. /\ hpc' = [hpc EXCEPT ![b[1]] = Answered(b[1])]
        /\ verdict' = [verdict EXCEPT ![b] = v]
        /\ accepted' = IF v = "ok" THEN [accepted EXCEPT ![b[1]] = @ + rows[b]] ELSE accepted
        /\ rejected' = IF v = "error" THEN [rejected EXCEPT ![b[1]] = @ + rows[b]] ELSE rejected
    BY <1>4 DEF Reply, b
  <2>2. ASSUME NEW q \in Rpcs, NEW u \in {"ok", "error"}
        PROVE  With(q, u)' = IF q = b[1] /\ u = v THEN With(q, u) \cup {b} ELSE With(q, u)
    BY <1>1, <1>2, <2>1 DEF With
  <2>3. b \notin With(b[1], v)
    BY <1>1 DEF With
  <2>4. Sum(rows, With(b[1], v) \cup {b}) = rows[b] + Sum(rows, With(b[1], v))
    <3> DEFINE W == With(b[1], v) \cup {b}
    <3>1. IsFiniteSet(W)
      BY <1>1, WithFinite, FS_AddElement
    <3>2. W \ {b} = With(b[1], v) /\ b \in W /\ W \in SUBSET W
      BY <2>3
    <3>3. \A x \in W : rows[x] \in Nat
      BY <1>1, <1>2 DEF With
    <3> HIDE DEF W
    <3>4. \A s \in SUBSET W : \A x \in s : Sum(rows, s) = rows[x] + Sum(rows, s \ {x})
      BY <3>1, <3>3, SumSplit, ZenonT(30)
    <3> QED BY <3>2, <3>4 DEF W
  <2>5. /\ rows[b] \in Nat /\ accepted[b[1]] \in Nat /\ rejected[b[1]] \in Nat
        /\ accepted[b[1]] = Sum(rows, With(b[1], "ok"))
        /\ rejected[b[1]] = Sum(rows, With(b[1], "error"))
    BY <1>1, <1>2 DEF TotalsInv, Counted
  <2>6. Counted'
    <3> SUFFICES ASSUME NEW q \in Rpcs
                 PROVE  /\ accepted'[q] = Sum(rows, With(q, "ok")')
                        /\ rejected'[q] = Sum(rows, With(q, "error")')
      BY DEF Counted
    <3>1. CASE q = b[1] /\ v = "ok"
      <4>1. accepted'[q] = accepted[q] + rows[b] /\ rejected'[q] = rejected[q]
        BY <1>2, <2>1, <3>1
      <4>2. With(q, "ok")' = With(q, "ok") \cup {b} /\ With(q, "error")' = With(q, "error")
        BY <2>2, <3>1
      <4>3. Sum(rows, With(q, "ok") \cup {b}) = accepted[q] + rows[b]
        BY <2>4, <2>5, <3>1
      <4>4. rejected[q] = Sum(rows, With(q, "error"))
        BY <2>5, <3>1
      <4> QED BY <4>1, <4>2, <4>3, <4>4
    <3>2. CASE q = b[1] /\ v = "error"
      <4>1. rejected'[q] = rejected[q] + rows[b] /\ accepted'[q] = accepted[q]
        BY <1>2, <2>1, <3>2
      <4>2. With(q, "error")' = With(q, "error") \cup {b} /\ With(q, "ok")' = With(q, "ok")
        BY <2>2, <3>2
      <4>3. Sum(rows, With(q, "error") \cup {b}) = rejected[q] + rows[b]
        BY <2>4, <2>5, <3>2
      <4>4. accepted[q] = Sum(rows, With(q, "ok"))
        BY <2>5, <3>2
      <4> QED BY <4>1, <4>2, <4>3, <4>4
    <3>3. CASE q # b[1]
      <4>1. accepted'[q] = accepted[q] /\ rejected'[q] = rejected[q]
        BY <1>2, <2>1, <3>3
      <4> QED BY <2>2, <3>3, <4>1 DEF TotalsInv, Counted
    <3> QED BY <3>1, <3>2, <3>3
  <2>7. Concluded'
    <3> SUFFICES ASSUME NEW c \in Batches, hpc'[c[1]] = "done", c[2] = received[c[1]]
                 PROVE  verdict'[c] # "none"
      BY DEF Concluded
    <3>1. CASE c[1] = b[1]
      <4>1. c = b
        BY <1>1, <3>1, BatchParts
      <4> QED BY <1>1, <1>2, <2>1, <4>1
    <3>2. CASE c[1] # b[1]
      <4>1. hpc[c[1]] = "done" /\ verdict'[c] = verdict[c]
        BY <1>1, <1>2, <2>1, <3>2, BatchParts
      <4> QED BY <4>1 DEF TotalsInv, Concluded
    <3> QED BY <3>1, <3>2
  <2> QED BY <2>6, <2>7
<1> QED
  BY <1>3, <1>4

(* The totals start at nothing. *)
LEMMA TotalsInit == Init => TotalsInv
<1> SUFFICES ASSUME Init PROVE TotalsInv
  OBVIOUS
<1>1. Concluded
  BY BatchParts DEF Init, Concluded
<1>2. Counted
  <2>1. \A r \in Rpcs : With(r, "ok") = {} /\ With(r, "error") = {}
    BY DEF Init, With
  <2>2. Sum(rows, {}) = 0
    BY SumDef, FS_EmptySet
  <2> QED BY <2>1, <2>2 DEF Init, Counted
<1> QED
  BY <1>1, <1>2, IngestInit DEF TotalsInv

(* Every step keeps the totals. *)
LEMMA TotalsStep == TotalsInv /\ [Next]_vars => TotalsInv'
<1> SUFFICES ASSUME TotalsInv, [Next]_vars
             PROVE  Counted' /\ Concluded'
  BY IngestStep DEF TotalsInv
<1> USE DEF TotalsInv
<1>1. ASSUME UNCHANGED <<accepted, rejected, rows, verdict>>
      PROVE  Counted'
  BY <1>1, CountedKept
<1>2. ASSUME NEW r \in Rpcs, Handler(r)
      PROVE  Counted' /\ Concluded'
  <2>1. ASSUME NEW n \in 0..MaxRows, Receive(r, n)
        PROVE  Counted' /\ Concluded'
    <3> DEFINE b == <<r, received[r] + 1>>
    <3>1. \A c \in Batches : c # b => rows'[c] = rows[c]
      BY <2>1 DEF Receive, IngestInv, TypeOK
    <3>2. b \in Batches => verdict[b] = "none"
      <4>1. received[r] \in Nat
        BY DEF IngestInv, TypeOK
      <4> QED BY <4>1 DEF IngestInv, Future
    <3>3. Counted'
      BY <2>1, <3>1, <3>2, CountedKept DEF Receive
    <3>4. \A q \in Rpcs : hpc'[q] = "done" => hpc[q] = "done" /\ received'[q] = received[q]
      BY <2>1 DEF Receive, IngestInv, TypeOK
    <3>5. Concluded'
      BY <2>1, <3>4, BatchParts DEF Receive, Concluded
    <3> QED BY <3>3, <3>5
  <2>2. CASE ReceiveNoStore(r) \/ CallTimeout(r) \/ ConnectionLost(r)
    <3>1. \A q \in Rpcs : hpc'[q] = "done" => hpc[q] = "done"
      BY <2>2 DEF ReceiveNoStore, CallTimeout, ConnectionLost, IngestInv, TypeOK
    <3>2. UNCHANGED <<received, accepted, rejected, rows, verdict>>
      BY <2>2 DEF ReceiveNoStore, CallTimeout, ConnectionLost
    <3> QED BY <1>1, <3>1, <3>2, BatchParts DEF Concluded
  <2>3. CASE StreamEnds(r)
    <3>1. \A q \in Rpcs : hpc'[q] = "done" => hpc[q] \in {"open", "done"}
      BY <2>3 DEF StreamEnds, IngestInv, TypeOK
    <3>2. UNCHANGED <<received, accepted, rejected, rows, verdict>>
      BY <2>3 DEF StreamEnds
    <3> QED BY <1>1, <3>1, <3>2, BatchParts DEF Concluded, IngestInv, Settled
  <2> QED BY <1>2, <2>1, <2>2, <2>3 DEF Handler
<1>3. CASE InsertNothing
  BY <1>3, CountedReply DEF InsertNothing
<1>4. CASE InsertOk
  BY <1>4, CountedReply DEF InsertOk, IngestInv, StoreFits
<1>5. CASE InsertFails
  BY <1>5, CountedReply DEF InsertFails, IngestInv, StoreFits
<1>6. CASE StoreCrash
  <2>1. \A q \in Rpcs : hpc'[q] = "done" => hpc[q] = "done"
    BY <1>6 DEF StoreCrash
  <2>2. UNCHANGED <<received, accepted, rejected, rows, verdict>>
    BY <1>6 DEF StoreCrash
  <2> QED BY <1>1, <2>1, <2>2, BatchParts DEF Concluded
<1>7. CASE InsertBegin \/ StoreRestart \/ UNCHANGED vars
  <2>1. UNCHANGED <<hpc, received, accepted, rejected, rows, verdict>>
    BY <1>7 DEF InsertBegin, StoreRestart, vars
  <2> QED BY <1>1, <2>1 DEF Concluded
<1> QED
  BY <1>2, <1>3, <1>4, <1>5, <1>6, <1>7 DEF Next, Store

(* The strengthened invariant always holds. *)
LEMMA TotalsInvariant == Spec => []TotalsInv
<1> QED
  BY TotalsInit, TotalsStep, PTL DEF Spec

(* The counts of a response are the events of the batches that went in and *)
(* of those that did not, and together all the client sent: no timeout,    *)
(* crash or late answer makes an RPC that ends well miscount.              *)
THEOREM TotalsHolds == Spec => []Totals
<1>1. \A S : Total(S) = Sum(rows, S)
  BY DEF Total, Sum
<1>2. TotalsInv => Totals
  <2> SUFFICES ASSUME TotalsInv, NEW r \in Rpcs
               PROVE  /\ accepted[r] = Total(With(r, "ok"))
                      /\ rejected[r] = Total(With(r, "error"))
                      /\ hpc[r] = "done" =>
                           accepted[r] + rejected[r] = Total({b \in Batches : b[1] = r})
    BY DEF Totals
  <2> DEFINE all  == {b \in Batches : b[1] = r}
             ok   == With(r, "ok")
             err  == With(r, "error")
             none == With(r, "none")
  <2>1. accepted[r] = Sum(rows, ok) /\ rejected[r] = Sum(rows, err)
    BY DEF TotalsInv, Counted
  <2>2. ASSUME hpc[r] = "done"
        PROVE  Sum(rows, all) = Sum(rows, ok) + Sum(rows, err)
    <3>1. /\ rows \in [Batches -> Nat] /\ received \in [Rpcs -> Nat]
          /\ verdict \in [Batches -> {"none", "ok", "error"}]
      BY CollectorAssumption DEF TotalsInv, IngestInv, TypeOK
    <3>2. ASSUME NEW b \in none
          PROVE  rows[b] = 0
      <4>1. b \in Batches /\ b[1] = r /\ verdict[b] = "none"
        BY DEF With
      <4>2. b[2] \in Nat /\ received[r] \in Nat
        BY <3>1, <4>1, BatchParts
      <4>3. ~ (b[2] < received[r]) /\ b[2] # received[r]
        BY <2>2, <4>1 DEF TotalsInv, Concluded, IngestInv, Settled
      <4>4. b[2] > received[r]
        BY <4>2, <4>3
      <4> QED BY <4>1, <4>4 DEF TotalsInv, IngestInv, Future
    <3>3. all = (ok \cup err) \cup none /\ (ok \cup err) \cap none = {} /\ ok \cap err = {}
      BY <3>1 DEF With
    <3>4. \A b \in all : rows[b] \in Nat
      BY <3>1
    <3>5. IsFiniteSet(ok) /\ IsFiniteSet(err) /\ IsFiniteSet(none) /\ IsFiniteSet(ok \cup err)
      BY WithFinite, FS_Union
    <3> HIDE DEF all, ok, err, none
    <3>6. Sum(rows, none) = 0
      BY <3>2, <3>5, SumZero
    <3>7. Sum(rows, ok \cup err) = Sum(rows, ok) + Sum(rows, err)
      BY <3>3, <3>4, <3>5, SumUnion
    <3>8. Sum(rows, all) = Sum(rows, ok \cup err) + Sum(rows, none)
      BY <3>3, <3>4, <3>5, SumUnion
    <3>9. Sum(rows, ok) \in Nat /\ Sum(rows, err) \in Nat
      BY <3>3, <3>4, <3>5, SumType
    <3> QED BY <3>6, <3>7, <3>8, <3>9
  <2> QED BY <1>1, <2>1, <2>2
<1> QED
  BY <1>2, TotalsInvariant, PTL
=============================================================================
