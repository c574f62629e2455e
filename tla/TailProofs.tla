----------------------------- MODULE TailProofs -----------------------------
(***************************************************************************)
(* Proofs about the live tail, for every value of the constants: no row is *)
(* sent twice; if timestamps increase in the order of arrival none is      *)
(* skipped; and what is written is what the consumer gets.                 *)
(***************************************************************************)
EXTENDS Tail, FiniteSetTheorems, SequenceTheorems, WellFoundedInduction, TLAPS

USE DEF serverVars, clientVars, Items

-----------------------------------------------------------------------------
(* The strengthening of NoRepeat and Complete. *)

Typed ==
    /\ time \in [Rows -> Nat]
    /\ cursor \in Nat
    /\ sent \in Seq(Items)

(* There is no loop before the client asks for it. *)
Started == client = "new" => server = "none"

(* An error is the last thing that is sent. *)
RowsOnly ==
    /\ server # "ended" => \A i \in DOMAIN sent : sent[i] \in Rows
    /\ \A i, j \in DOMAIN sent : i < j => sent[i] \in Rows

(* What was sent is at the cursor or before it ... *)
Behind ==
    \A i \in DOMAIN sent :
        sent[i] \in Rows => time[sent[i]] # 0 /\ time[sent[i]] <= cursor

(* ... and the cursor is the client's, or the timestamp of a row. *)
Reached ==
    /\ Since <= cursor
    /\ cursor = Since \/ \E d \in Rows : time[d] # 0 /\ time[d] = cursor

(* Rows arrive in the order of their numbers. *)
Filled == \A d, e \in Rows : d < e /\ time[e] # 0 => time[d] # 0

(* NothingMissed, before the loop has started as well. *)
Covered ==
    InOrder => \A e \in Rows : Since < time[e] /\ time[e] <= cursor
                                => \E i \in DOMAIN sent : sent[i] = e

CursorInv ==
    /\ Typed
    /\ Started
    /\ RowsOnly
    /\ Behind
    /\ NoRepeat
    /\ Reached
    /\ Filled
    /\ Covered

-----------------------------------------------------------------------------
(* A page: what ORDER BY and LIMIT promise. *)
LEMMA PageFacts ==
    ASSUME NEW c \in Nat, NEW p \in Pages(Fresh(c)), p # <<>>, Typed
    PROVE  \E n \in Nat \ {0} :
              /\ p \in [1..n -> Fresh(c)]
              /\ Len(p) = n
              /\ NextCursor(p) = time[p[n]]
              /\ \A i, j \in 1..n : i < j => p[i] # p[j] /\ time[p[i]] <= time[p[j]]
              /\ \A e \in Fresh(c) : (\A i \in 1..n : p[i] # e) => time[e] >= time[p[n]]
<1>1. IsFiniteSet(Rows) /\ Fresh(c) \subseteq Rows
  BY FS_Interval, TailAssumption DEF Rows, Fresh
<1>2. Cardinality(Fresh(c)) \in Nat
  BY <1>1, FS_Subset, FS_CardinalityType
<1> DEFINE n == IF Cardinality(Fresh(c)) < Limit THEN Cardinality(Fresh(c)) ELSE Limit
<1>3. /\ p \in [1..n -> Fresh(c)]
      /\ \A i, j \in 1..n : i < j => p[i] # p[j] /\ time[p[i]] <= time[p[j]]
      /\ \A e \in Fresh(c) : (\A i \in 1..n : p[i] # e) => time[e] >= time[p[n]]
  BY DEF Pages
<1>4. n \in Nat
  BY <1>2, TailAssumption
<1> HIDE DEF n
<1>5. Len(p) = n
  BY <1>3, <1>4
<1>6. n # 0
  BY <1>3, <1>4, <1>5
<1>7. NextCursor(p) = time[p[n]]
  BY <1>5 DEF NextCursor, Last
<1> QED
  BY <1>3, <1>4, <1>5, <1>6, <1>7

LEMMA CursorInit == Init => CursorInv
BY TailAssumption DEF Init, CursorInv, Typed, Started, RowsOnly, Behind, NoRepeat,
                      Reached, Filled, Covered, Rows

(* A step that sends nothing and adds no row. *)
LEMMA QuietStep ==
    ASSUME CursorInv, UNCHANGED <<time, cursor, sent>>,
           Started', server' # "ended" => server # "ended"
    PROVE  CursorInv'
BY DEF CursorInv, Typed, RowsOnly, Behind, NoRepeat, Reached, Filled, Covered, InOrder,
       Rows

(* A new row has a number above those of all others, and if timestamps     *)
(* still increase, a timestamp above the cursor.                           *)
LEMMA ArriveStep ==
    ASSUME CursorInv, NEW t \in 1..MaxTime, Arrive(t)
    PROVE  CursorInv'
<1>1. PICK e \in Rows :
          /\ time[e] = 0
          /\ \A d \in 1..(e - 1) : time[d] # 0
          /\ time' = [time EXCEPT ![e] = t]
  BY DEF Arrive
<1>2. t \in Nat \ {0} /\ UNCHANGED <<server, cursor, sent, client>>
  BY TailAssumption DEF Arrive
<1>3. \A d \in Rows : /\ d # e => time'[d] = time[d]
                      /\ d = e => time'[d] = t
                      /\ time[d] # 0 => d # e
  BY <1>1 DEF CursorInv, Typed
<1>4. Typed' /\ Started' /\ RowsOnly'
  BY <1>1, <1>2 DEF CursorInv, Typed, Started, RowsOnly
<1>5. Behind'
  BY <1>2, <1>3 DEF CursorInv, Behind
<1>6. NoRepeat'
  <2> SUFFICES ASSUME NEW i \in DOMAIN sent, NEW j \in DOMAIN sent, i < j,
                      sent[j] # ErrorBody
               PROVE  sent[i] # sent[j] /\ time'[sent[i]] <= time'[sent[j]]
    BY <1>2 DEF NoRepeat
  <2> QED
    BY <1>2, <1>3 DEF CursorInv, Typed, Behind, NoRepeat, RowsOnly
<1>7. Reached' /\ Filled'
  BY <1>1, <1>2, <1>3 DEF CursorInv, Reached, Filled, Rows, Typed
<1>8. Covered'
  <2> SUFFICES ASSUME InOrder', NEW d \in Rows,
                      Since < time'[d], time'[d] <= cursor
               PROVE  \E i \in DOMAIN sent : sent[i] = d
    BY <1>2 DEF Covered
  <2>1. InOrder
    BY <1>2, <1>3 DEF InOrder, CursorInv, Filled
  <2>2. d # e
    <3> SUFFICES ASSUME d = e PROVE FALSE
      OBVIOUS
    <3>1. PICK b \in Rows : time[b] # 0 /\ time[b] = cursor
      BY <1>2, <1>3, TailAssumption DEF CursorInv, Reached, Typed
    <3>2. b < e
      BY <1>1, <3>1 DEF CursorInv, Filled, Rows, Typed
    <3>3. time'[b] < time'[e]
      BY <1>2, <1>3, <3>2 DEF InOrder
    <3> QED
      BY <1>2, <1>3, <3>1, <3>3 DEF CursorInv, Typed
  <2> QED
    BY <1>3, <2>1, <2>2 DEF CursorInv, Covered
<1> QED
  BY <1>4, <1>5, <1>6, <1>7, <1>8 DEF CursorInv

(* A page of new rows is sent. *)
LEMMA PageStep ==
    ASSUME CursorInv, PollRows
    PROVE  CursorInv'
<1>1. PICK p \in Pages(Fresh(cursor)) :
          /\ p # <<>>
          /\ IF closed
             THEN server' = "ended" /\ UNCHANGED <<wire, cursor, sent>>
             ELSE /\ wire' = wire \o Frames(p)
                  /\ sent' = sent \o p
                  /\ cursor' = NextCursor(p)
                  /\ UNCHANGED server
  BY DEF PollRows
<1>2. server = "poll" /\ UNCHANGED <<time, client>>
  BY DEF PollRows, CanWrite
<1>3. CASE closed
  BY <1>1, <1>2, <1>3, QuietStep DEF Started, CursorInv
<1>4. CASE ~closed
  <2>1. PICK n \in Nat \ {0} :
              /\ p \in [1..n -> Fresh(cursor)]
              /\ Len(p) = n
              /\ NextCursor(p) = time[p[n]]
              /\ \A i, j \in 1..n : i < j => p[i] # p[j] /\ time[p[i]] <= time[p[j]]
              /\ \A e \in Fresh(cursor) :
                    (\A i \in 1..n : p[i] # e) => time[e] >= time[p[n]]
    BY <1>1, PageFacts DEF CursorInv, Typed
  <2> DEFINE m == Len(sent)
  <2>2. m \in Nat /\ sent \in [1..m -> Items] /\ \A i \in 1..m : sent[i] \in Rows
    BY <1>2 DEF CursorInv, Typed, RowsOnly
  <2>3. \A i \in 1..n : /\ p[i] \in Rows
                        /\ time[p[i]] \in Nat
                        /\ cursor < time[p[i]]
                        /\ time[p[i]] <= time[p[n]]
    BY <2>1 DEF Fresh, CursorInv, Typed
  <2>4. p \in Seq(Rows)
    BY <2>1, <2>3
  <2>5. /\ sent' = sent \o p
        /\ cursor' = time[p[n]]
        /\ server' = server
    BY <1>1, <1>4, <2>1
  <2>6. /\ sent' \in Seq(Items)
        /\ DOMAIN sent' = 1..(m + n)
        /\ \A i \in 1..m : sent'[i] = sent[i]
        /\ \A i \in (m + 1)..(m + n) : sent'[i] = p[i - m] /\ i - m \in 1..n
    <3>1. sent \in Seq(Items) /\ p \in Seq(Items) /\ Len(p) = n
      BY <2>1, <2>4 DEF CursorInv, Typed
    <3>2. /\ sent \o p \in Seq(Items)
          /\ Len(sent \o p) = m + n
          /\ \A i \in 1..m : (sent \o p)[i] = sent[i]
      BY <3>1, <2>2
    <3>3. \A i \in (m + 1)..(m + n) : (sent \o p)[i] = p[i - m] /\ i - m \in 1..n
      BY <3>1, <2>1, <2>2
    <3> QED
      BY <2>5, <3>2, <3>3
  <2>7. Typed' /\ Started'
    BY <1>2, <2>1, <2>3, <2>5, <2>6 DEF CursorInv, Typed, Started
  <2> HIDE DEF m
  <2>8. \A i \in 1..(m + n) : i \in 1..m \/ i \in (m + 1)..(m + n)
    BY <2>1, <2>2
  <2>9. RowsOnly'
    <3>1. \A i \in 1..(m + n) : sent'[i] \in Rows
      BY <2>2, <2>3, <2>6, <2>8
    <3> QED
      BY <2>6, <3>1 DEF RowsOnly
  <2>10. \A i \in 1..m : time[sent[i]] # 0 /\ time[sent[i]] \in Nat /\ time[sent[i]] <= cursor
    BY <2>2 DEF CursorInv, Behind, Typed
  <2>11. cursor \in Nat /\ cursor < cursor' /\ cursor' \in Nat
    BY <2>1, <2>3, <2>5 DEF CursorInv, Typed
  <2>12. Behind'
    <3> SUFFICES ASSUME NEW i \in 1..(m + n)
                 PROVE  time[sent'[i]] # 0 /\ time[sent'[i]] <= cursor'
      BY <1>2, <2>6 DEF Behind
    <3>1. CASE i \in 1..m
      BY <2>6, <2>10, <2>11, <3>1
    <3>2. CASE i \in (m + 1)..(m + n)
      <4>1. sent'[i] = p[i - m] /\ i - m \in 1..n
        BY <2>6, <3>2
      <4> QED
        BY <2>3, <2>5, <2>11, <4>1
    <3> QED
      BY <2>8, <3>1, <3>2
  <2>13. NoRepeat'
    <3> SUFFICES ASSUME NEW i \in 1..(m + n), NEW j \in 1..(m + n), i < j
                 PROVE  sent'[i] # sent'[j] /\ time[sent'[i]] <= time[sent'[j]]
      BY <1>2, <2>6 DEF NoRepeat
    <3>1. CASE j \in 1..m
      <4>1. i \in 1..m
        BY <2>2, <3>1
      <4>2. sent[j] # ErrorBody
        BY <2>2, <3>1 DEF Rows, ErrorBody
      <4>3. i \in DOMAIN sent /\ j \in DOMAIN sent
        BY <2>2, <3>1, <4>1
      <4> QED
        BY <2>6, <3>1, <4>1, <4>2, <4>3 DEF CursorInv, NoRepeat
    <3>2. CASE i \in 1..m /\ j \in (m + 1)..(m + n)
      <4>1. time[sent[i]] <= cursor /\ time[sent[i]] \in Nat
        BY <2>10, <3>2
      <4>2. cursor < time[p[j - m]] /\ time[p[j - m]] \in Nat
        BY <2>3, <2>6, <3>2
      <4>3. sent'[i] = sent[i] /\ sent'[j] = p[j - m]
        BY <2>6, <3>2
      <4> QED
        BY <2>11, <4>1, <4>2, <4>3
    <3>3. CASE i \in (m + 1)..(m + n) /\ j \in (m + 1)..(m + n)
      <4>1. i - m \in 1..n /\ j - m \in 1..n /\ i - m < j - m
        BY <2>2, <2>6, <3>3
      <4>2. sent'[i] = p[i - m] /\ sent'[j] = p[j - m]
        BY <2>6, <3>3
      <4> QED
        BY <2>1, <4>1, <4>2
    <3> QED
      BY <2>2, <2>8, <3>1, <3>2, <3>3
  <2>14. Reached' /\ Filled'
    <3>1. p[n] \in Rows /\ time[p[n]] # 0 /\ time[p[n]] = cursor'
      BY <2>1, <2>3, <2>5, <2>11
    <3> QED
      BY <1>2, <2>11, <3>1, TailAssumption DEF CursorInv, Reached, Filled
  <2>15. Covered'
    <3> SUFFICES ASSUME InOrder, NEW e \in Rows, Since < time[e], time[e] <= cursor'
                 PROVE  \E i \in 1..(m + n) : sent'[i] = e
      BY <1>2, <2>6 DEF Covered, InOrder
    <3>1. CASE time[e] <= cursor
      <4>1. PICK i \in DOMAIN sent : sent[i] = e
        BY <3>1 DEF CursorInv, Covered
      <4>2. i \in 1..m
        BY <2>2, <4>1
      <4> QED
        BY <2>1, <2>2, <2>6, <4>1, <4>2
    <3>2. CASE cursor < time[e]
      <4>1. e \in Fresh(cursor)
        BY <2>11, <3>2 DEF Fresh, CursorInv, Typed
      <4>2. PICK i \in 1..n : p[i] = e
        <5> SUFFICES ASSUME \A i \in 1..n : p[i] # e PROVE FALSE
          OBVIOUS
        <5>1. p[n] \in Rows /\ p[n] # e /\ time[p[n]] \in Nat /\ time[p[n]] # 0
          BY <2>1, <2>3, <2>11
        <5>2. time[e] = time[p[n]] /\ time[e] # 0
          BY <2>1, <2>5, <4>1, <5>1 DEF CursorInv, Typed
        <5>3. p[n] < e \/ e < p[n]
          BY <5>1 DEF Rows
        <5> QED
          BY <5>1, <5>2, <5>3 DEF InOrder, CursorInv, Typed
      <4>3. /\ m + i \in (m + 1)..(m + n) /\ m + i \in 1..(m + n)
            /\ (m + i) - m = i
        BY <2>1, <2>2
      <4>4. sent'[m + i] = e
        BY <2>6, <4>2, <4>3
      <4> QED
        BY <4>3, <4>4
    <3> QED
      BY <2>11, <3>1, <3>2 DEF CursorInv, Typed
  <2> QED
    BY <2>7, <2>9, <2>12, <2>13, <2>14, <2>15 DEF CursorInv
<1> QED
  BY <1>3, <1>4

(* The error frame is sent after all rows. *)
LEMMA ErrorStep ==
    ASSUME CursorInv, PollFails, ~closed
    PROVE  CursorInv'
<1>1. /\ server = "poll" /\ server' = "ended"
      /\ sent' = Append(sent, ErrorBody)
      /\ UNCHANGED <<time, cursor, client>>
  BY DEF PollFails, CanWrite
<1> DEFINE m == Len(sent)
<1>2. m \in Nat /\ DOMAIN sent = 1..m
  BY DEF CursorInv, Typed
<1>3. /\ sent' \in Seq(Items)
      /\ DOMAIN sent' = 1..(m + 1)
      /\ \A i \in 1..m : sent'[i] = sent[i]
      /\ sent'[m + 1] = ErrorBody
  BY <1>1, <1>2 DEF CursorInv, Typed
<1> HIDE DEF m
<1>4. Typed' /\ Started' /\ Reached' /\ Filled'
  BY <1>1, <1>3 DEF CursorInv, Typed, Started, Reached, Filled
<1>5. RowsOnly'
  <2>1. \A i \in 1..m : sent'[i] \in Rows
    BY <1>1, <1>2, <1>3 DEF CursorInv, RowsOnly
  <2>2. \A i, j \in 1..(m + 1) : i < j => i \in 1..m
    BY <1>2
  <2> QED
    BY <1>1, <1>3, <2>1, <2>2 DEF RowsOnly
<1>6. ErrorBody \notin Rows
  BY DEF ErrorBody, Rows
<1>7. Behind' /\ NoRepeat'
  <2>1. \A i \in 1..(m + 1) : i \in 1..m \/ i = m + 1
    BY <1>2
  <2>2. \A i \in 1..(m + 1), j \in 1..m : i < j => i \in 1..m
    BY <1>2
  <2> QED
    BY <1>1, <1>2, <1>3, <1>6, <2>1, <2>2 DEF CursorInv, Behind, NoRepeat
<1>8. Covered'
  BY <1>1, <1>2, <1>3 DEF CursorInv, Covered, InOrder
<1> QED
  BY <1>4, <1>5, <1>7, <1>8 DEF CursorInv

LEMMA CursorNext == CursorInv /\ [Next]_vars => CursorInv'
<1> SUFFICES ASSUME CursorInv, [Next]_vars PROVE CursorInv'
  OBVIOUS
<1>1. CASE \E t \in 1..MaxTime : Arrive(t)
  BY <1>1, ArriveStep
<1>2. CASE PollRows
  BY <1>2, PageStep
<1>3. CASE PollFails
  <2>1. CASE closed
    BY <1>3, <2>1, QuietStep DEF PollFails, CanWrite, CursorInv, Started
  <2>2. CASE ~closed
    BY <1>3, <2>2, ErrorStep
  <2> QED BY <2>1, <2>2
<1>4. CASE PollEmpty \/ PollCrashes
  BY <1>4, QuietStep DEF PollEmpty, PollCrashes, CanWrite, CursorInv, Started
<1>5. CASE Serve \/ Open \/ OpenOk \/ OpenFails
  BY <1>5, QuietStep DEF Serve, Open, OpenOk, OpenFails, ClientFails, CursorInv, Started
<1>6. CASE Next_ \/ Return \/ Abort
  BY <1>6, QuietStep DEF Next_, Return, Abort, ClientFails, CursorInv, Started
<1>7. CASE Client
  BY <1>7, QuietStep DEF Client, Read, ReadFinished, ReadAborted, ReadBroken, Yield,
                         Finish, CursorInv, Started
<1>8. CASE UNCHANGED vars
  BY <1>8, QuietStep DEF vars, CursorInv, Started
<1> QED
  BY <1>1, <1>2, <1>3, <1>4, <1>5, <1>6, <1>7, <1>8 DEF Next, Server, Opening

-----------------------------------------------------------------------------
(* Theorems. *)

LEMMA CursorInvHolds == Spec => []CursorInv
BY CursorInit, CursorNext, PTL DEF Spec

(* No row is sent twice and rows are sent by increasing timestamp, however *)
(* many rows share a timestamp and wherever LIMIT cuts them (query.ex).    *)
THEOREM NoRepeatHolds == Spec => []NoRepeat
<1>1. CursorInv => NoRepeat
  BY DEF CursorInv
<1> QED
  BY <1>1, CursorInvHolds, PTL

(* If timestamps increase in the order of arrival, every row the cursor    *)
(* has passed has been sent, for any page size and any initial cursor.     *)
THEOREM CompleteHolds == Spec => []Complete
<1>1. CursorInv => Complete
  BY DEF CursorInv, Covered, Complete, NothingMissed, ToSet
<1> QED
  BY <1>1, CursorInvHolds, PTL

-----------------------------------------------------------------------------
(* The parser of the iterator: Data(s) names the ends of frames in order,  *)
(* which needs no recursion and so can be reasoned about.                  *)

HIDE DEF Items

(* What travels on the connection. *)
Pieces == [item : Items \cup {KeepAlive}, last : BOOLEAN]

(* f counts the elements of E, smallest first. *)
Counts(f, n, E) ==
    /\ f \in [1..n -> E]
    /\ \A j, k \in 1..n : j < k => f[j] < f[k]
    /\ \A e \in E : \E k \in 1..n : f[k] = e

(* A set of naturals has a least one. *)
LEMMA LeastNatural ==
    ASSUME NEW T, T \subseteq Nat, T # {}
    PROVE  \E m \in T : \A n \in T : m <= n
<1>1. PICK m \in T : \A n \in T : <<n, m>> \notin OpToRel(<, Nat)
  BY NatLessThanWellFounded, WFMin
<1>2. OpToRel(<, Nat) = {ss \in Nat \X Nat : ss[1] < ss[2]}
  BY DEF OpToRel
<1>3. ASSUME NEW n \in T PROVE m <= n
  <2>1. <<n, m>> \notin {ss \in Nat \X Nat : ss[1] < ss[2]} /\ n \in Nat /\ m \in Nat
    BY <1>1, <1>2
  <2> QED BY <2>1
<1> QED
  BY <1>3

(* Every bounded set of naturals can be counted: a smallest bound of one   *)
(* that cannot would be above all of it, or be its last element.           *)
LEMMA Countable ==
    ASSUME NEW m \in Nat, NEW E, E \subseteq 1..m
    PROVE  \E n \in Nat : \E f : Counts(f, n, E)
<1> DEFINE Ok(k) == \A D \in SUBSET (1..k) : \E n \in Nat : \E f : Counts(f, n, D)
           bad == {k \in Nat : ~Ok(k)}
<1> SUFFICES ASSUME bad # {} PROVE FALSE
  <2>1. m \notin bad => Ok(m)
    OBVIOUS
  <2>2. bad = {} => Ok(m)
    <3> HIDE DEF bad
    <3> QED BY <2>1
  <2> QED BY <2>2
<1>1. PICK k \in bad : \A j \in bad : k <= j
  <2>1. bad \subseteq Nat
    OBVIOUS
  <2> HIDE DEF bad
  <2> QED BY <2>1, LeastNatural
<1>2. k \in Nat /\ ~Ok(k)
  BY <1>1
<1>3. PICK D \in SUBSET (1..k) : ~(\E n \in Nat : \E f : Counts(f, n, D))
  BY <1>2
<1>4. k # 0
  <2> SUFFICES ASSUME k = 0 PROVE FALSE
    OBVIOUS
  <2>1. D = {}
    BY <1>3
  <2>2. Counts([i \in 1..0 |-> 0], 0, D)
    BY <2>1 DEF Counts
  <2> QED BY <1>3, <2>2
<1>5. k - 1 \in Nat /\ k - 1 \notin bad
  <2>1. k - 1 \in Nat /\ ~(k <= k - 1)
    BY <1>2, <1>4
  <2> HIDE DEF bad
  <2> QED BY <1>1, <2>1
<1>6. Ok(k - 1)
  BY <1>5
<1>7a. PICK n \in Nat : \E f : Counts(f, n, D \ {k})
  <2>1. D \ {k} \in SUBSET (1..(k - 1))
    BY <1>2, <1>3
  <2> QED BY <1>6, <2>1
<1>7. PICK f : Counts(f, n, D \ {k})
  BY <1>7a
<1>8. k \in D
  <2> SUFFICES ASSUME k \notin D PROVE FALSE
    OBVIOUS
  <2>1. D \ {k} = D
    OBVIOUS
  <2> QED BY <1>3, <1>7, <2>1
<1> DEFINE g == [i \in 1..(n + 1) |-> IF i = n + 1 THEN k ELSE f[i]]
<1>9. \A i \in 1..n : f[i] \in D /\ f[i] < k
  <2>1. \A i \in 1..n : f[i] \in D /\ f[i] # k
    BY <1>7 DEF Counts
  <2>2. \A e \in D : e # k => e < k
    BY <1>2, <1>3
  <2> QED BY <2>1, <2>2
<1>10. g \in [1..(n + 1) -> D]
  BY <1>7, <1>8, <1>9
<1>11. \A i, j \in 1..(n + 1) : i < j => g[i] < g[j]
  <2> SUFFICES ASSUME NEW i \in 1..(n + 1), NEW j \in 1..(n + 1), i < j PROVE g[i] < g[j]
    OBVIOUS
  <2>1. i \in 1..n
    OBVIOUS
  <2>2. CASE j = n + 1
    BY <1>9, <2>1, <2>2
  <2>3. CASE j # n + 1
    BY <1>7, <2>1, <2>3 DEF Counts
  <2> QED BY <2>2, <2>3
<1>12. ASSUME NEW e \in D PROVE \E i \in 1..(n + 1) : g[i] = e
  <2>1. CASE e = k
    <3>1. n + 1 \in 1..(n + 1) /\ g[n + 1] = k
      OBVIOUS
    <3> QED BY <2>1, <3>1
  <2>2. CASE e # k
    <3>1. PICK i \in 1..n : f[i] = e
      BY <1>7, <2>2 DEF Counts
    <3>2. i \in 1..(n + 1) /\ g[i] = f[i]
      OBVIOUS
    <3> QED BY <3>1, <3>2
  <2> QED BY <2>1, <2>2
<1>13. Counts(g, n + 1, D)
  <2> HIDE DEF g
  <2> QED BY <1>10, <1>11, <1>12 DEF Counts
<1> QED
  BY <1>3, <1>13

(* ... in one way only. *)
LEMMA CountedOnce ==
    ASSUME NEW E, E \subseteq Nat, NEW n \in Nat, NEW f, Counts(f, n, E),
           NEW g, Counts(g, n, E)
    PROVE  f = g
<1> DEFINE off == {k \in 1..n : f[k] # g[k]}
<1> SUFFICES ASSUME off # {} PROVE FALSE
  <2>1. \A k \in 1..n : f[k] = g[k]
    OBVIOUS
  <2> QED BY <2>1 DEF Counts
<1>1. PICK k \in off : \A j \in off : k <= j
  <2>1. off \subseteq Nat
    OBVIOUS
  <2> HIDE DEF off
  <2> QED BY <2>1, LeastNatural
<1>2. k \in 1..n /\ f[k] # g[k] /\ \A j \in 1..n : j < k => f[j] = g[j]
  <2>1. \A j \in 1..n : j < k => j \notin off
    BY <1>1
  <2> QED BY <1>1, <2>1
<1>3. \A j \in 1..n : f[j] \in Nat /\ g[j] \in Nat
  BY DEF Counts
<1>4. ASSUME NEW p, Counts(p, n, E), NEW q, Counts(q, n, E), p[k] < q[k],
             \A j \in 1..n : j < k => p[j] = q[j],
             \A j \in 1..n : p[j] \in Nat /\ q[j] \in Nat
      PROVE  FALSE
  <2>1. PICK j \in 1..n : q[j] = p[k]
    BY <1>2, <1>4 DEF Counts
  <2>2. CASE j < k
    <3>1. p[j] = p[k] /\ p[j] < p[k]
      BY <1>2, <1>4, <2>1, <2>2 DEF Counts
    <3> QED BY <3>1, <1>4
  <2>3. CASE j = k
    BY <1>4, <2>1, <2>3
  <2>4. CASE k < j
    <3>1. q[k] < q[j]
      BY <1>2, <1>4, <2>4 DEF Counts
    <3> QED BY <1>2, <1>4, <2>1, <3>1
  <2> QED BY <1>2, <2>2, <2>3, <2>4
<1>5. f[k] < g[k] \/ g[k] < f[k]
  BY <1>2, <1>3
<1> QED
  BY <1>2, <1>3, <1>4, <1>5

(* What Data(s) is, however its ends are counted. *)
LEMMA DataIs ==
    ASSUME NEW s, Len(s) \in Nat, NEW n \in Nat, NEW f, Counts(f, n, Ends(s))
    PROVE  Data(s) = [k \in 1..n |-> s[f[k]].item]
<1> DEFINE E == Ends(s)
<1>1. E \subseteq 2..Len(s) /\ E \subseteq Nat
  BY DEF Ends
<1>2. \A j, k \in 1..n : f[j] = f[k] => j = k
  <2> SUFFICES ASSUME NEW j \in 1..n, NEW k \in 1..n, j # k PROVE f[j] # f[k]
    OBVIOUS
  <2>1. f[j] \in Nat /\ f[k] \in Nat /\ (j < k \/ k < j)
    BY <1>1 DEF Counts
  <2> QED BY <2>1 DEF Counts
<1>3. ExistsBijection(1..n, E)
  <2>1. f \in Bijection(1..n, E)
    BY <1>2 DEF Counts, Bijection, Injection, IsInjective, Surjection
  <2> QED BY <2>1 DEF ExistsBijection
<1>4. Cardinality(E) = n
  BY <1>3, FS_CountingElements
<1> DEFINE Up(h) == \A j, k \in 1..n : j < k => h[j] < h[k]
           end == CHOOSE h \in [1..n -> E] : Up(h)
<1>5. end \in [1..n -> E] /\ Up(end)
  <2>1. f \in [1..n -> E] /\ Up(f)
    BY DEF Counts
  <2> HIDE DEF Up, E
  <2> QED BY <2>1
<1>6. Counts(end, n, E)
  <2> DEFINE e == end
  <2>1. e \in [1..n -> E] /\ Up(e)
    BY <1>5
  <2> HIDE DEF e
  <2>2. \A j, k \in 1..n : e[j] = e[k] => j = k
    <3> SUFFICES ASSUME NEW j \in 1..n, NEW k \in 1..n, j # k PROVE e[j] # e[k]
      OBVIOUS
    <3>1. e[j] \in Nat /\ e[k] \in Nat /\ (j < k \/ k < j)
      BY <1>1, <2>1
    <3> QED BY <2>1, <3>1
  <2>3. e \in Injection(1..n, E)
    BY <2>1, <2>2 DEF Injection, IsInjective
  <2>4. IsFiniteSet(1..n) /\ Cardinality(1..n) = n /\ IsFiniteSet(E)
    <3>1. IsFiniteSet(E)
      <4>1. IsFiniteSet(2..Len(s))
        BY FS_Interval
      <4> HIDE DEF E
      <4> QED BY <1>1, <4>1, FS_Subset
    <3> HIDE DEF E
    <3> QED BY <3>1, FS_Interval
  <2>5. e \in Surjection(1..n, E)
    <3> HIDE DEF E
    <3> QED BY <1>4, <2>3, <2>4, FS_Injection
  <2>6. Counts(e, n, E)
    <3> HIDE DEF E
    <3> QED BY <2>1, <2>5 DEF Counts, Surjection
  <2> QED BY <2>6 DEF e
<1>7. end = f
  <2> HIDE DEF end, E
  <2>1. Counts(f, n, E)
    BY DEF E
  <2> QED BY <1>1, <1>6, <2>1, CountedOnce
<1>8. Data(s) = [k \in 1..n |-> s[end[k]].item]
  BY <1>4 DEF Data
<1> QED
  BY <1>7, <1>8

-----------------------------------------------------------------------------
(* What is written is parsed. *)

LEMMA FramesAre ==
    ASSUME NEW p \in Seq(Items \cup {KeepAlive})
    PROVE  /\ Frames(p) \in Seq(Pieces)
           /\ Len(Frames(p)) = 2 * Len(p)
           /\ \A j \in 1..Len(p) :
                 /\ ~Frames(p)[2 * j - 1].last
                 /\ Frames(p)[2 * j].last /\ Frames(p)[2 * j].item = p[j]
           /\ \A i \in 1..(2 * Len(p)) : \E j \in 1..Len(p) : i = 2 * j - 1 \/ i = 2 * j
<1> DEFINE n == Len(p)
<1>1. n \in Nat /\ \A j \in 1..n : p[j] \in Items \cup {KeepAlive}
  OBVIOUS
<1>2. \A i \in 1..(2 * n) : (i + 1) \div 2 \in 1..n /\ i % 2 \in 0..1
  BY <1>1
<1>3. \A i \in 1..(2 * n) :
          [item |-> p[(i + 1) \div 2], last |-> i % 2 = 0] \in Pieces
  BY <1>1, <1>2 DEF Pieces
<1>4. Frames(p) \in Seq(Pieces) /\ Len(Frames(p)) = 2 * n
  BY <1>1, <1>3 DEF Frames
<1>5. ASSUME NEW j \in 1..n
      PROVE  /\ ~Frames(p)[2 * j - 1].last
             /\ Frames(p)[2 * j].last /\ Frames(p)[2 * j].item = p[j]
  <2>1. /\ 2 * j - 1 \in 1..(2 * n) /\ (2 * j - 1 + 1) \div 2 = j /\ (2 * j - 1) % 2 = 1
        /\ 2 * j \in 1..(2 * n) /\ (2 * j + 1) \div 2 = j /\ (2 * j) % 2 = 0
    BY <1>1
  <2> DEFINE even(i) == i % 2 = 0
  <2>2. even(2 * j - 1) = FALSE /\ even(2 * j) = TRUE
    BY <2>1
  <2>3. \A i \in 1..(2 * n) : Frames(p)[i] = [item |-> p[(i + 1) \div 2], last |-> even(i)]
    BY DEF Frames
  <2> HIDE DEF even
  <2>4. /\ Frames(p)[2 * j - 1] = [item |-> p[j], last |-> even(2 * j - 1)]
        /\ Frames(p)[2 * j] = [item |-> p[j], last |-> even(2 * j)]
    BY <2>1, <2>3
  <2>5. /\ Frames(p)[2 * j - 1] = [item |-> p[j], last |-> FALSE]
        /\ Frames(p)[2 * j] = [item |-> p[j], last |-> TRUE]
    BY <2>2, <2>4, Zenon
  <2>6. Frames(p)[2 * j - 1].last = FALSE
    BY <2>5
  <2>7. Frames(p)[2 * j].last = TRUE /\ Frames(p)[2 * j].item = p[j]
    BY <2>5
  <2> QED BY <2>6, <2>7, Zenon
<1>6. ASSUME NEW i \in 1..(2 * n)
      PROVE  \E j \in 1..n : i = 2 * j - 1 \/ i = 2 * j
  <2>1. i = 2 * ((i + 1) \div 2) - 1 \/ i = 2 * ((i + 1) \div 2)
    BY <1>1
  <2> QED BY <1>2, <2>1
<1> QED
  BY <1>4, <1>5, <1>6

LEMMA EndsOfFrames ==
    ASSUME NEW s \in Seq(Pieces), NEW p \in Seq(Items \cup {KeepAlive})
    PROVE  /\ Ends(s \o Frames(p)) =
                 Ends(s) \cup {Len(s) + 2 * j : j \in {k \in 1..Len(p) : p[k] # KeepAlive}}
           /\ \A i \in Ends(s) : (s \o Frames(p))[i] = s[i]
           /\ \A j \in 1..Len(p) : (s \o Frames(p))[Len(s) + 2 * j].item = p[j]
<1> DEFINE L == Len(s)
           n == Len(p)
           F == Frames(p)
           z == s \o F
<1>1. L \in Nat /\ n \in Nat
  OBVIOUS
<1>2. /\ F \in Seq(Pieces) /\ Len(F) = 2 * n
      /\ \A j \in 1..n : ~F[2 * j - 1].last /\ F[2 * j].last /\ F[2 * j].item = p[j]
      /\ \A i \in 1..(2 * n) : \E j \in 1..n : i = 2 * j - 1 \/ i = 2 * j
  BY FramesAre
<1> HIDE DEF F
<1>3. /\ Len(z) = L + 2 * n
      /\ \A i \in 1..L : z[i] = s[i]
      /\ \A i \in 1..(2 * n) : z[L + i] = F[i]
  <2>1. /\ Len(z) = L + 2 * n
        /\ \A i \in 1..(L + 2 * n) : z[i] = IF i <= L THEN s[i] ELSE F[i - L]
    <3>1. /\ Len(z) = Len(s) + Len(F)
          /\ \A i \in 1..(Len(s) + Len(F)) : z[i] = IF i <= Len(s) THEN s[i] ELSE F[i - Len(s)]
      <4>1. s \in Seq(Pieces) /\ F \in Seq(Pieces)
        BY <1>2
      <4> QED BY <4>1, ConcatProperties
    <3>2. Len(F) = 2 * n
      BY <1>2
    <3> HIDE DEF z
    <3> QED BY <3>1, <3>2
  <2>2. ASSUME NEW i \in 1..(2 * n) PROVE z[L + i] = F[i]
    <3>1. L + i \in 1..(L + 2 * n) /\ ~(L + i <= L) /\ (L + i) - L = i
      BY <1>1
    <3> QED BY <2>1, <3>1
  <2>3. \A i \in 1..L : i \in 1..(L + 2 * n) /\ i <= L
    BY <1>1
  <2> QED BY <2>1, <2>2, <2>3
<1> HIDE DEF z
<1>4. ASSUME NEW j \in 1..n
      PROVE  /\ ~z[L + (2 * j - 1)].last
             /\ z[L + 2 * j].last /\ z[L + 2 * j].item = p[j]
  <2>1. 2 * j - 1 \in 1..(2 * n) /\ 2 * j \in 1..(2 * n)
    BY <1>1
  <2>2. z[L + (2 * j - 1)] = F[2 * j - 1] /\ z[L + 2 * j] = F[2 * j]
    BY <1>3, <2>1
  <2>3. ~F[2 * j - 1].last /\ F[2 * j].last /\ F[2 * j].item = p[j]
    BY <1>2
  <2> QED BY <2>2, <2>3, Zenon
<1>5. \A i \in 2..L : Whole(z, i) <=> Whole(s, i)
  <2>1. \A i \in 2..L : z[i] = s[i] /\ z[i - 1] = s[i - 1]
    BY <1>1, <1>3
  <2> QED BY <2>1 DEF Whole
<1>6. ASSUME NEW j \in 1..n
      PROVE  ~Whole(z, L + (2 * j - 1)) /\ (Whole(z, L + 2 * j) <=> p[j] # KeepAlive)
  <2>1. (L + 2 * j) - 1 = L + (2 * j - 1)
    BY <1>1
  <2>2. /\ ~z[L + (2 * j - 1)].last
        /\ z[L + 2 * j].last /\ z[L + 2 * j].item = p[j]
    BY <1>4, Zenon
  <2>3. ~Whole(z, L + (2 * j - 1))
    BY <2>2, Zenon DEF Whole
  <2>4. Whole(z, L + 2 * j) <=> p[j] # KeepAlive
    BY <2>1, <2>2, Zenon DEF Whole
  <2> QED BY <2>3, <2>4
<1>7. \A i \in 2..(L + 2 * n) : \/ i \in 2..L
                                \/ \E j \in 1..n : i = L + (2 * j - 1) \/ i = L + 2 * j
  <2> SUFFICES ASSUME NEW i \in 2..(L + 2 * n), i \notin 2..L
               PROVE  \E j \in 1..n : i = L + (2 * j - 1) \/ i = L + 2 * j
    OBVIOUS
  <2>1. i - L \in 1..(2 * n)
    BY <1>1
  <2>2. PICK j \in 1..n : i - L = 2 * j - 1 \/ i - L = 2 * j
    BY <1>2, <2>1
  <2>3. i = L + (2 * j - 1) \/ i = L + 2 * j
    BY <1>1, <2>2
  <2> QED BY <2>3
<1>8. \A j \in 1..n : L + 2 * j \in 2..(L + 2 * n)
  BY <1>1
<1>9. \A i \in 2..L : i \in 2..(L + 2 * n)
  BY <1>1
<1>10. Ends(z) = Ends(s) \cup {L + 2 * j : j \in {k \in 1..n : p[k] # KeepAlive}}
  <2>1. Ends(z) = {i \in 2..(L + 2 * n) : Whole(z, i)} /\ Ends(s) = {i \in 2..L : Whole(s, i)}
    BY <1>3 DEF Ends
  <2>2. ASSUME NEW i \in Ends(z)
        PROVE  i \in Ends(s) \cup {L + 2 * j : j \in {k \in 1..n : p[k] # KeepAlive}}
    <3>1. CASE i \in 2..L
      BY <1>5, <2>1, <2>2, <3>1
    <3>2. CASE i \notin 2..L
      <4>1. PICK j \in 1..n : i = L + (2 * j - 1) \/ i = L + 2 * j
        BY <1>7, <2>1, <2>2, <3>2
      <4>2. i = L + 2 * j /\ p[j] # KeepAlive
        BY <1>6, <2>1, <2>2, <4>1
      <4> QED BY <4>2
    <3> QED BY <3>1, <3>2
  <2>3. ASSUME NEW i \in Ends(s) PROVE i \in Ends(z)
    BY <1>5, <1>9, <2>1, <2>3
  <2>4. ASSUME NEW j \in 1..n, p[j] # KeepAlive PROVE L + 2 * j \in Ends(z)
    BY <1>6, <1>8, <2>1, <2>4
  <2> HIDE DEF L
  <2> QED BY <2>2, <2>3, <2>4
<1>11. \A i \in Ends(s) : i \in 1..L
  BY <1>1 DEF Ends
<1>12. \A j \in 1..n : z[L + 2 * j].item = p[j]
  BY <1>4, Zenon
<1> QED
  BY <1>3, <1>10, <1>11, <1>12, Zenon DEF z, F

(* The ends of s can be counted, and are places of data.                   *)
LEMMA EndsCounted ==
    ASSUME NEW s \in Seq(Pieces)
    PROVE  /\ Len(s) \in Nat /\ Ends(s) \subseteq 2..Len(s)
           /\ \A i \in Ends(s) : s[i].item \in Items
           /\ \E n \in Nat : \E f : Counts(f, n, Ends(s))
<1>1. Len(s) \in Nat /\ Ends(s) \subseteq 2..Len(s) /\ Ends(s) \subseteq 1..Len(s)
  BY DEF Ends
<1>2. ASSUME NEW i \in Ends(s) PROVE s[i].item \in Items
  <2>1. i \in 1..Len(s) /\ s[i].item # KeepAlive
    BY <1>1 DEF Ends, Whole
  <2>2. s[i] \in Pieces
    BY <2>1, ElementOfSeq
  <2>3. s[i].item \in Items \cup {KeepAlive}
    BY <2>2 DEF Pieces
  <2> QED BY <2>1, <2>3
<1> QED
  BY <1>1, <1>2, Countable

LEMMA DataSeq ==
    ASSUME NEW s \in Seq(Pieces)
    PROVE  Data(s) \in Seq(Items)
<1>1a. PICK n \in Nat : \E f : Counts(f, n, Ends(s))
  BY EndsCounted
<1>1. PICK f : Counts(f, n, Ends(s))
  BY <1>1a
<1>2. Data(s) = [k \in 1..n |-> s[f[k]].item]
  BY <1>1, DataIs
<1>3. \A k \in 1..n : s[f[k]].item \in Items
  BY <1>1, EndsCounted DEF Counts
<1> QED
  BY <1>2, <1>3

(* A frame is not complete before its second piece. *)
LEMMA DataShort ==
    ASSUME NEW s \in Seq(Pieces), Len(s) <= 1
    PROVE  Data(s) = <<>>
<1>1. Ends(s) = {}
  BY DEF Ends
<1>2. Counts([i \in 1..0 |-> 0], 0, Ends(s))
  BY <1>1 DEF Counts
<1>3. Data(s) = [k \in 1..0 |-> s[[i \in 1..0 |-> 0][k]].item]
  <2>1. Len(s) \in Nat
    OBVIOUS
  <2> QED BY <1>2, <2>1, DataIs
<1> QED
  BY <1>3

(* A comment says nothing ... *)
LEMMA DataComment ==
    ASSUME NEW s \in Seq(Pieces)
    PROVE  Data(s \o Frames(<<KeepAlive>>)) = Data(s)
<1> DEFINE z == s \o Frames(<<KeepAlive>>)
<1>1. <<KeepAlive>> \in Seq(Items \cup {KeepAlive})
  OBVIOUS
<1>2. z \in Seq(Pieces)
  BY <1>1, FramesAre, ConcatProperties
<1>3. \A k \in 1..Len(<<KeepAlive>>) : <<KeepAlive>>[k] = KeepAlive
  OBVIOUS
<1>4. Ends(z) = Ends(s) /\ \A i \in Ends(s) : z[i] = s[i]
  <2> DEFINE c == <<KeepAlive>>
  <2> HIDE DEF c
  <2>1. {k \in 1..Len(c) : c[k] # KeepAlive} = {}
    BY <1>3 DEF c
  <2>2. /\ Ends(z) = Ends(s) \cup {Len(s) + 2 * j : j \in {k \in 1..Len(c) : c[k] # KeepAlive}}
        /\ \A i \in Ends(s) : z[i] = s[i]
    BY <1>1, EndsOfFrames DEF c
  <2> HIDE DEF z
  <2> QED BY <2>1, <2>2
<1> HIDE DEF z
<1>5a. PICK n \in Nat : \E f : Counts(f, n, Ends(s))
  BY EndsCounted
<1>5. PICK f : Counts(f, n, Ends(s))
  BY <1>5a
<1>6. Data(s) = [k \in 1..n |-> s[f[k]].item] /\ Data(z) = [k \in 1..n |-> z[f[k]].item]
  BY <1>2, <1>4, <1>5, DataIs
<1>7. \A k \in 1..n : z[f[k]] = s[f[k]]
  BY <1>4, <1>5 DEF Counts
<1>8. Data(z) = Data(s)
  BY <1>6, <1>7
<1> QED
  BY <1>8 DEF z

(* ... and whatever else is written is data, after what was there before.  *)
LEMMA DataFrames ==
    ASSUME NEW s \in Seq(Pieces), NEW p \in Seq(Items)
    PROVE  Data(s \o Frames(p)) = Data(s) \o p
<1> DEFINE z == s \o Frames(p)
           L == Len(s)
           m == Len(p)
<1>1. p \in Seq(Items \cup {KeepAlive}) /\ L \in Nat /\ m \in Nat
  OBVIOUS
<1>2. z \in Seq(Pieces) /\ Len(z) \in Nat
  BY <1>1, FramesAre, ConcatProperties
<1>3. \A k \in 1..m : p[k] # KeepAlive
  <2>1. KeepAlive \notin Items
    BY TailAssumption DEF KeepAlive, Items, Rows, ErrorBody
  <2>2. \A k \in 1..m : p[k] \in Items
    OBVIOUS
  <2> QED BY <2>1, <2>2
<1>4. /\ Ends(z) = Ends(s) \cup {L + 2 * j : j \in {k \in 1..m : p[k] # KeepAlive}}
      /\ \A i \in Ends(s) : z[i] = s[i]
      /\ \A j \in 1..m : z[L + 2 * j].item = p[j]
  BY <1>1, EndsOfFrames
<1> HIDE DEF z
<1>5. Ends(z) = Ends(s) \cup {L + 2 * j : j \in 1..m}
  BY <1>3, <1>4
<1>6a. PICK n \in Nat : \E f : Counts(f, n, Ends(s))
  BY EndsCounted
<1>6. PICK f : Counts(f, n, Ends(s))
  BY <1>6a
<1>7. Ends(s) \subseteq 2..L
  BY EndsCounted
<1> DEFINE g == [k \in 1..(n + m) |-> IF k <= n THEN f[k] ELSE L + 2 * (k - n)]
<1>8. \A k \in 1..n : g[k] = f[k] /\ f[k] \in Ends(s) /\ f[k] \in 2..L
  BY <1>1, <1>6, <1>7 DEF Counts
<1>9. \A k \in 1..(n + m) : ~(k <= n) => k - n \in 1..m /\ g[k] = L + 2 * (k - n)
  BY <1>1
<1>10. g \in [1..(n + m) -> Ends(z)]
  <2>1. ASSUME NEW k \in 1..(n + m)
        PROVE  (IF k <= n THEN f[k] ELSE L + 2 * (k - n)) \in Ends(z)
    <3>1. CASE k <= n
      <4>1. k \in 1..n
        BY <3>1
      <4> QED BY <1>5, <1>8, <3>1, <4>1
    <3>2. CASE ~(k <= n)
      BY <1>5, <1>9, <3>2
    <3> QED BY <3>1, <3>2
  <2> QED BY <2>1
<1> HIDE DEF g
<1>11. ASSUME NEW j \in 1..(n + m), NEW k \in 1..(n + m), j < k
       PROVE  g[j] < g[k]
  <2>1. CASE k <= n
    <3>1. j \in 1..n /\ k \in 1..n
      BY <1>11, <2>1
    <3> QED BY <1>6, <1>8, <1>11, <3>1 DEF Counts
  <2>2. CASE j <= n /\ ~(k <= n)
    <3>1. j \in 1..n
      BY <2>2
    <3>2. g[j] \in 2..L /\ g[k] = L + 2 * (k - n) /\ k - n \in 1..m
      BY <1>8, <1>9, <2>2, <3>1
    <3> QED BY <1>1, <3>2
  <2>3. CASE ~(j <= n)
    <3>1. ~(k <= n)
      BY <1>11, <2>3
    <3>2. g[j] = L + 2 * (j - n) /\ g[k] = L + 2 * (k - n)
      BY <1>9, <2>3, <3>1
    <3> QED BY <1>1, <1>11, <3>2
  <2> QED BY <2>1, <2>2, <2>3
<1>12. ASSUME NEW e \in Ends(z) PROVE \E k \in 1..(n + m) : g[k] = e
  <2>1. CASE e \in Ends(s)
    <3>1. PICK k \in 1..n : f[k] = e
      BY <1>6, <2>1 DEF Counts
    <3>2. k \in 1..(n + m)
      BY <1>1
    <3> QED BY <1>8, <3>1, <3>2
  <2>2. CASE e \notin Ends(s)
    <3>1. PICK j \in 1..m : e = L + 2 * j
      BY <1>5, <1>12, <2>2
    <3>2. n + j \in 1..(n + m) /\ ~(n + j <= n) /\ (n + j) - n = j
      BY <1>1
    <3> QED BY <1>9, <3>1, <3>2
  <2> QED BY <2>1, <2>2
<1>13. Counts(g, n + m, Ends(z))
  BY <1>10, <1>11, <1>12 DEF Counts
<1>14. n + m \in Nat
  BY <1>1
<1>15. /\ Data(s) = [k \in 1..n |-> s[f[k]].item]
       /\ Data(z) = [k \in 1..(n + m) |-> z[g[k]].item]
  <2>1. Data(s) = [k \in 1..n |-> s[f[k]].item]
    BY <1>1, <1>6, DataIs
  <2>2. Data(z) = [k \in 1..(n + m) |-> z[g[k]].item]
    <3> DEFINE l == n + m
    <3> HIDE DEF l
    <3>1. l \in Nat /\ Counts(g, l, Ends(z))
      BY <1>13, <1>14 DEF l
    <3>2. Data(z) = [k \in 1..l |-> z[g[k]].item]
      BY <1>2, <3>1, DataIs
    <3> QED BY <3>2 DEF l
  <2> QED BY <2>1, <2>2
<1>16. Data(s) \in Seq(Items) /\ Data(z) \in Seq(Items)
  BY <1>2, DataSeq
<1>17. Len(Data(s)) = n /\ Len(Data(z)) = n + m
  BY <1>14, <1>15
<1>18. ASSUME NEW k \in 1..(n + m)
       PROVE  Data(z)[k] = IF k <= n THEN Data(s)[k] ELSE p[k - n]
  <2>1. Data(z)[k] = z[g[k]].item
    BY <1>15
  <2>2. CASE k <= n
    <3>1. k \in 1..n
      BY <2>2
    <3>2. Data(s)[k] = s[f[k]].item
      BY <1>15, <3>1
    <3>3. g[k] = f[k] /\ z[f[k]] = s[f[k]]
      BY <1>4, <1>8, <3>1
    <3> QED BY <2>1, <2>2, <3>2, <3>3
  <2>3. CASE ~(k <= n)
    BY <1>4, <1>9, <2>1, <2>3
  <2> QED BY <2>2, <2>3
<1>19. /\ Data(s) \o p \in Seq(Items) /\ Len(Data(s) \o p) = n + m
       /\ \A k \in 1..(n + m) :
             (Data(s) \o p)[k] = IF k <= n THEN Data(s)[k] ELSE p[k - n]
  BY <1>16, <1>17, ConcatProperties
<1>20. Data(z) = Data(s) \o p
  <2> HIDE DEF m
  <2> QED BY <1>16, <1>17, <1>18, <1>19, SeqEqual
<1> QED
  BY <1>20 DEF z

-----------------------------------------------------------------------------
(* Reading in two goes. *)

(* Those of a count that are at most b come first. *)
LEMMA CountCut ==
    ASSUME NEW E, E \subseteq Nat, NEW n \in Nat, NEW f, Counts(f, n, E), NEW b \in Nat
    PROVE  \E m \in 0..n : /\ \A k \in 1..m : f[k] <= b
                          /\ \A k \in (m + 1)..n : b < f[k]
<1>1. \A k \in 1..n : f[k] \in Nat
  BY DEF Counts
<1> DEFINE T == {m \in 0..n : m = n \/ b < f[m + 1]}
<1>2. n \in T /\ T \subseteq Nat
  OBVIOUS
<1>3. PICK m \in T : \A k \in T : m <= k
  <2> HIDE DEF T
  <2> QED BY <1>2, LeastNatural
<1>4. m \in 0..n /\ (m = n \/ b < f[m + 1])
  BY <1>3
<1>5. ASSUME NEW k \in 1..m PROVE f[k] <= b
  <2>1. k - 1 \in 0..n /\ ~(m <= k - 1) /\ k - 1 # n /\ (k - 1) + 1 = k
    BY <1>4
  <2>2. k - 1 \notin T
    BY <1>3, <2>1
  <2>3. ~(b < f[k])
    BY <2>1, <2>2
  <2>4. k \in 1..n
    BY <1>4
  <2> QED BY <1>1, <2>3, <2>4
<1>6. ASSUME NEW k \in (m + 1)..n PROVE b < f[k]
  <2>1. m + 1 \in 1..n /\ k \in 1..n /\ m # n
    BY <1>4
  <2>2. b < f[m + 1]
    BY <1>4, <2>1
  <2>3. k = m + 1 \/ f[m + 1] < f[k]
    BY <2>1 DEF Counts
  <2> QED BY <1>1, <2>1, <2>2, <2>3
<1> QED
  BY <1>4, <1>5, <1>6

(* s is read up to n, into a; b is what is left of it and of an incomplete *)
(* frame.                                                                  *)
LEMMA DataCut ==
    ASSUME NEW s \in Seq(Pieces), NEW n \in 1..Len(s), NEW c \in Nat,
           c = IF s[n].last THEN n ELSE n - 1,
           NEW a \in Seq(Pieces), Len(a) = n, \A i \in 1..n : a[i] = s[i],
           NEW b \in Seq(Pieces), Len(b) = Len(s) - c, \A i \in 1..Len(b) : b[i] = s[c + i]
    PROVE  Data(s) = Data(a) \o Data(b)
<1> DEFINE L == Len(s)
<1>1. L \in Nat /\ n \in Nat /\ 1 <= n /\ n <= L /\ c <= n /\ n <= c + 1
  OBVIOUS
<1>2. Ends(s) = {i \in 2..L : Whole(s, i)} /\ Ends(s) \subseteq 2..L
  BY DEF Ends
<1>3a. PICK N \in Nat : \E f : Counts(f, N, Ends(s))
  BY EndsCounted
<1>3. PICK f : Counts(f, N, Ends(s))
  BY <1>3a
<1>4. PICK m \in 0..N : (\A k \in 1..m : f[k] <= n) /\ (\A k \in (m + 1)..N : n < f[k])
  <2>1. Ends(s) \subseteq Nat
    BY <1>1, <1>2
  <2> QED BY <1>1, <1>3, <2>1, CountCut
<1>5. /\ \A k \in 1..N : f[k] \in Ends(s) /\ f[k] \in 2..L
      /\ \A j, k \in 1..N : j < k => f[j] < f[k]
      /\ \A e \in Ends(s) : \E k \in 1..N : f[k] = e
  BY <1>2, <1>3 DEF Counts
<1>6. \A e : e \in Ends(a) <=> e \in Ends(s) /\ e <= n
  <2>1. Ends(a) = {i \in 2..n : Whole(a, i)}
    BY DEF Ends
  <2>2. \A i \in 2..n : a[i] = s[i] /\ a[i - 1] = s[i - 1]
    BY <1>1
  <2>3. \A i \in 2..n : (Whole(a, i) <=> Whole(s, i)) /\ i \in 2..L
    BY <1>1, <2>2, SMTT(30) DEF Whole
  <2>4. \A i \in 2..L : i <= n => i \in 2..n
    BY <1>1
  <2> QED BY <1>1, <1>2, <2>1, <2>3, <2>4
<1>7. \A i \in 2..(L - c) : i \in Ends(b) <=> c + i \in Ends(s)
  <2> SUFFICES ASSUME NEW i \in 2..(L - c) PROVE i \in Ends(b) <=> c + i \in Ends(s)
    OBVIOUS
  <2>1. i \in 1..(L - c) /\ i - 1 \in 1..(L - c) /\ c + i \in 2..L /\ c + (i - 1) = (c + i) - 1
    BY <1>1
  <2>2. b[i] = s[c + i] /\ b[i - 1] = s[(c + i) - 1]
    BY <2>1
  <2>3. Whole(b, i) <=> Whole(s, c + i)
    BY <2>2 DEF Whole
  <2>4. i \in Ends(b) <=> Whole(b, i)
    BY DEF Ends
  <2> QED BY <1>2, <2>1, <2>3, <2>4
<1>8. Ends(b) \subseteq 2..(L - c)
  BY DEF Ends
<1>9. \A e \in Ends(s) : n < e => e - c \in 2..(L - c) /\ c + (e - c) = e
  <2> SUFFICES ASSUME NEW e \in Ends(s), n < e PROVE e - c \in 2..(L - c) /\ c + (e - c) = e
    OBVIOUS
  <2>1. e \in 2..L /\ ~s[e - 1].last
    BY <1>2 DEF Whole
  <2>2. s[n].last => e # n + 1
    <3>1. e = n + 1 => e - 1 = n
      BY <1>1
    <3> QED BY <2>1, <3>1
  <2>3. s[n].last => c = n
    OBVIOUS
  <2>4. ~s[n].last => c = n - 1
    OBVIOUS
  <2> QED BY <1>1, <2>1, <2>2, <2>3, <2>4
<1> DEFINE f1 == [k \in 1..m |-> f[k]]
           f2 == [k \in 1..(N - m) |-> f[m + k] - c]
<1>10. Counts(f1, m, Ends(a))
  <2>1. ASSUME NEW k \in 1..m PROVE k \in 1..N /\ f1[k] = f[k] /\ f[k] \in Ends(a)
    BY <1>4, <1>5, <1>6
  <2>2. f1 \in [1..m -> Ends(a)]
    BY <2>1
  <2>3. ASSUME NEW e \in Ends(a) PROVE \E k \in 1..m : f1[k] = e
    <3>1. e \in Ends(s) /\ e <= n /\ e \in Nat
      BY <1>1, <1>2, <1>6
    <3>2. PICK k \in 1..N : f[k] = e
      BY <1>5, <3>1
    <3>3. k \in 1..m
      <4> SUFFICES ASSUME k \notin 1..m PROVE FALSE
        OBVIOUS
      <4>1. k \in (m + 1)..N
        BY <1>4
      <4> QED BY <1>1, <1>4, <3>1, <3>2, <4>1
    <3> QED BY <3>2, <3>3
  <2> HIDE DEF f1
  <2>4. \A j, k \in 1..m : j < k => f1[j] < f1[k]
    BY <1>5, <2>1
  <2> QED BY <2>2, <2>3, <2>4 DEF Counts
<1>11. Counts(f2, N - m, Ends(b))
  <2>1. ASSUME NEW k \in 1..(N - m)
        PROVE  /\ m + k \in (m + 1)..N /\ m + k \in 1..N
               /\ f2[k] = f[m + k] - c
               /\ f2[k] \in 2..(L - c) /\ c + f2[k] = f[m + k] /\ f2[k] \in Ends(b)
    <3>1. m + k \in (m + 1)..N /\ m + k \in 1..N
      BY <1>4
    <3>2. n < f[m + k] /\ f[m + k] \in Ends(s)
      BY <1>4, <1>5, <3>1
    <3>3. f2[k] = f[m + k] - c
      OBVIOUS
    <3> HIDE DEF f2
    <3>4. f2[k] \in 2..(L - c) /\ c + f2[k] = f[m + k]
      BY <1>9, <3>2, <3>3
    <3>5. f2[k] \in Ends(b)
      BY <1>7, <3>2, <3>4
    <3> QED BY <3>1, <3>3, <3>4, <3>5
  <2>2. f2 \in [1..(N - m) -> Ends(b)]
    <3>1. \A k \in 1..(N - m) : f[m + k] - c \in Ends(b)
      BY <2>1
    <3> QED BY <3>1
  <2> HIDE DEF f2
  <2>3. ASSUME NEW e \in Ends(b) PROVE \E k \in 1..(N - m) : f2[k] = e
    <3>1. e \in 2..(L - c) /\ c + e \in Ends(s) /\ n < c + e
      BY <1>1, <1>7, <1>8
    <3>2. PICK k \in 1..N : f[k] = c + e
      BY <1>5, <3>1
    <3>3. ~(k \in 1..m)
      BY <1>1, <1>4, <3>1, <3>2
    <3>4. k - m \in 1..(N - m) /\ m + (k - m) = k
      BY <1>4, <3>3
    <3>5. f2[k - m] = e
      BY <1>1, <2>1, <3>1, <3>2, <3>4, SMTT(30)
    <3> QED BY <3>4, <3>5
  <2>4. ASSUME NEW j \in 1..(N - m), NEW k \in 1..(N - m), j < k PROVE f2[j] < f2[k]
    <3>1. m + j < m + k /\ m + j \in 1..N /\ m + k \in 1..N
      BY <1>4, <2>1, <2>4
    <3>2. f[m + j] < f[m + k]
      BY <1>5, <3>1
    <3>3. f[m + j] \in Nat /\ f[m + k] \in Nat
      BY <1>5, <3>1
    <3>4. f2[j] = f[m + j] - c /\ f2[k] = f[m + k] - c
      BY <2>1
    <3> QED BY <3>2, <3>3, <3>4, SMTT(30)
  <2> QED BY <2>2, <2>3, <2>4 DEF Counts
<1>12. m \in Nat /\ N - m \in Nat
  BY <1>4
<1>13. /\ Data(s) = [k \in 1..N |-> s[f[k]].item]
       /\ Data(a) = [k \in 1..m |-> a[f1[k]].item]
       /\ Data(b) = [k \in 1..(N - m) |-> b[f2[k]].item]
  <2> DEFINE l == N - m
  <2> HIDE DEF l, f1, f2
  <2>1. Counts(f2, l, Ends(b)) /\ l \in Nat
    BY <1>11, <1>12 DEF l
  <2>2. Len(s) \in Nat /\ Len(a) \in Nat /\ Len(b) \in Nat
    OBVIOUS
  <2>3. Data(b) = [k \in 1..l |-> b[f2[k]].item]
    BY <2>1, <2>2, DataIs
  <2>4. Data(a) = [k \in 1..m |-> a[f1[k]].item]
    <3>1. Counts(f1, m, Ends(a))
      BY <1>10
    <3>2. m \in Nat
      BY <1>12
    <3>3. Len(a) \in Nat
      BY <2>2
    <3> QED BY <3>1, <3>2, <3>3, DataIs
  <2>5. Data(s) = [k \in 1..N |-> s[f[k]].item]
    BY <1>3, <2>2, DataIs
  <2> QED BY <2>3, <2>4, <2>5 DEF l
<1>14. Data(s) \in Seq(Items) /\ Data(a) \in Seq(Items) /\ Data(b) \in Seq(Items)
  BY DataSeq
<1>15. Len(Data(s)) = N /\ Len(Data(a)) = m /\ Len(Data(b)) = N - m
  BY <1>12, <1>13
<1>16. ASSUME NEW k \in 1..N
       PROVE  Data(s)[k] = IF k <= m THEN Data(a)[k] ELSE Data(b)[k - m]
  <2>1. Data(s)[k] = s[f[k]].item
    BY <1>13
  <2>2. CASE k <= m
    <3>1. k \in 1..m
      BY <2>2
    <3>2. Data(a)[k] = a[f1[k]].item /\ f1[k] = f[k]
      BY <1>13, <3>1
    <3>3. f[k] \in 1..n
      BY <1>4, <1>5, <3>1
    <3> QED BY <2>1, <2>2, <3>2, <3>3
  <2>3. CASE ~(k <= m)
    <3>1. k - m \in 1..(N - m) /\ m + (k - m) = k /\ k \in (m + 1)..N
      BY <1>4, <2>3
    <3>2. Data(b)[k - m] = b[f2[k - m]].item /\ f2[k - m] = f[k] - c
      BY <1>13, <3>1
    <3>3. n < f[k] /\ f[k] \in Ends(s)
      BY <1>4, <1>5, <3>1
    <3>4. f[k] - c \in 1..(L - c) /\ c + (f[k] - c) = f[k]
      BY <1>1, <1>9, <3>3
    <3>5. b[f[k] - c] = s[f[k]]
      <4> DEFINE i == f[k] - c
      <4> HIDE DEF i
      <4>1. i \in 1..Len(b) /\ c + i = f[k]
        BY <3>4 DEF i
      <4>2. b[i] = s[c + i]
        BY <4>1
      <4> QED BY <4>1, <4>2 DEF i
    <3> QED BY <2>1, <2>3, <3>2, <3>5
  <2> QED BY <2>2, <2>3
<1>17. /\ Data(a) \o Data(b) \in Seq(Items) /\ Len(Data(a) \o Data(b)) = N
       /\ \A k \in 1..N :
             (Data(a) \o Data(b))[k] = IF k <= m THEN Data(a)[k] ELSE Data(b)[k - m]
  <2> DEFINE p == Data(a)
             q == Data(b)
  <2> HIDE DEF p, q
  <2>1. p \in Seq(Items) /\ q \in Seq(Items) /\ Len(p) = m /\ Len(q) = N - m
    BY <1>14, <1>15 DEF p, q
  <2>2. p \o q \in Seq(Items) /\ Len(p \o q) = Len(p) + Len(q)
    BY <2>1, ConcatProperties
  <2>3. \A k \in 1..(Len(p) + Len(q)) :
              (p \o q)[k] = IF k <= Len(p) THEN p[k] ELSE q[k - Len(p)]
    BY <2>1, ConcatProperties, SMTT(30)
  <2>4. Len(p) + Len(q) = N
    BY <1>4, <2>1
  <2> QED BY <2>1, <2>2, <2>3, <2>4 DEF p, q
<1> DEFINE u == Data(s)
           v == Data(a) \o Data(b)
<1>18. /\ u \in Seq(Items) /\ v \in Seq(Items) /\ Len(u) = N /\ Len(v) = N
       /\ \A k \in 1..N : u[k] = v[k]
  BY <1>14, <1>15, <1>16, <1>17
<1>19. u = v
  <2> HIDE DEF u, v
  <2> QED BY <1>18, SeqEqual
<1> QED
  BY <1>19

-----------------------------------------------------------------------------
(* The stream. *)

(* The strengthening of StreamLedger: the iterator keeps less than a frame *)
(* between two reads, and the server writes to a response that goes on.    *)
Streams ==
    /\ wire \in Seq(Pieces)
    /\ leftover \in Seq(Pieces) /\ Len(leftover) <= 1
    /\ buffered \in Seq(Items)
    /\ yielded \in Seq(Items)

Polling == server # "ended" => eof = "no"

StreamInv == Streams /\ Polling /\ StreamLedger

LEMMA StreamInit == Init => StreamInv
<1> SUFFICES ASSUME Init PROVE StreamInv
  OBVIOUS
<1>1. Streams /\ Polling
  BY DEF Init, Streams, Polling
<1>2. leftover \o wire = <<>> /\ <<>> \in Seq(Pieces) /\ Len(<<>>) <= 1
  BY DEF Init
<1>3. Data(leftover \o wire) = <<>>
  <2>1. Data(<<>>) = <<>>
    BY <1>2, DataShort, Zenon
  <2> QED BY <1>2, <2>1
<1>4. yielded \o buffered \o Data(leftover \o wire) = sent
  BY <1>3 DEF Init
<1> QED
  BY <1>1, <1>4 DEF Init, StreamInv, StreamLedger

(* What follows a sequence leaves it a prefix. *)
LEMMA PrefixOf ==
    ASSUME NEW S, NEW s \in Seq(S), NEW t \in Seq(S)
    PROVE  IsPrefix(s, s \o t)
<1>1. Len(s) <= Len(s \o t) /\ SubSeq(s \o t, 1, Len(s)) = SubSeq(s, 1, Len(s))
  OBVIOUS
<1> QED
  BY <1>1 DEF IsPrefix

LEMMA PrefixCut ==
    ASSUME NEW S, NEW s \in Seq(S), NEW t \in Seq(S), NEW u \in Seq(S), IsPrefix(s \o t, u)
    PROVE  IsPrefix(s, u)
<1> DEFINE z == s \o t
<1>1. z \in Seq(S) /\ Len(s) <= Len(z) /\ \A i \in 1..Len(s) : z[i] = s[i]
  OBVIOUS
<1> HIDE DEF z
<1>2. Len(z) <= Len(u) /\ SubSeq(z, 1, Len(z)) = SubSeq(u, 1, Len(z))
  BY DEF IsPrefix, z
<1>3. \A i \in 1..Len(z) : z[i] = u[i]
  <2>1. \A i \in 1..Len(z) : SubSeq(z, 1, Len(z))[i] = z[i] /\ SubSeq(u, 1, Len(z))[i] = u[i]
    BY <1>1, <1>2
  <2> QED BY <1>2, <2>1
<1>4. SubSeq(s, 1, Len(s)) = SubSeq(u, 1, Len(s))
  BY <1>1, <1>2, <1>3
<1> QED
  BY <1>1, <1>2, <1>4 DEF IsPrefix

(* What the consumer has, and what is on its way. *)
LEMMA StreamTypes ==
    ASSUME Streams
    PROVE  /\ leftover \o wire \in Seq(Pieces)
           /\ Data(leftover \o wire) \in Seq(Items)
           /\ yielded \o buffered \in Seq(Items)
           /\ yielded \o buffered \o Data(leftover \o wire) \in Seq(Items)
<1>1. leftover \o wire \in Seq(Pieces) /\ yielded \o buffered \in Seq(Items)
  BY DEF Streams
<1>2. Data(leftover \o wire) \in Seq(Items)
  BY <1>1, DataSeq
<1> QED
  BY <1>1, <1>2

(* A step that writes, reads and returns nothing. *)
LEMMA StreamQuiet ==
    ASSUME StreamInv, Typed, UNCHANGED <<wire, leftover, buffered, yielded, sent>>,
           Polling', closed => closed', eof = "broken" => eof' = "broken"
    PROVE  StreamInv'
<1>1. Streams'
  BY DEF StreamInv, Streams
<1> DEFINE held == yielded \o buffered \o Data(leftover \o wire)
<1>2. held = sent => IsPrefix(held, sent)
  <2>1. sent \in Seq(Items) /\ <<>> \in Seq(Items) /\ sent \o <<>> = sent
    BY DEF Typed
  <2>2. IsPrefix(sent, sent)
    BY <2>1, PrefixOf
  <2> QED BY <2>2
<1>3. held' = held
  BY DEF Data, Ends, Whole
<1> HIDE DEF held
<1>4. IF closed' \/ eof' = "broken" THEN IsPrefix(held, sent) ELSE held = sent
  BY <1>2 DEF StreamInv, StreamLedger, held
<1>5. StreamLedger'
  BY <1>3, <1>4 DEF StreamLedger, held
<1> QED
  BY <1>1, <1>5 DEF StreamInv

(* The connection is lost, with what was on it. *)
LEMMA StreamLost ==
    ASSUME StreamInv, Typed, wire' = <<>>, UNCHANGED <<leftover, buffered, yielded, sent>>,
           Polling', closed' \/ eof' = "broken"
    PROVE  StreamInv'
<1>1. Streams'
  BY DEF StreamInv, Streams
<1>2. /\ leftover' \o wire' = leftover /\ leftover \in Seq(Pieces) /\ Len(leftover) <= 1
      /\ yielded \o buffered \in Seq(Items) /\ sent \in Seq(Items)
  BY StreamTypes DEF StreamInv, Streams, Typed
<1>3. Data(leftover) = <<>>
  BY <1>2, DataShort
<1>4. yielded' \o buffered' \o Data(leftover' \o wire') = yielded \o buffered
  BY <1>2, <1>3
<1> DEFINE got == yielded \o buffered
           way == Data(leftover \o wire)
<1>5. got \in Seq(Items) /\ way \in Seq(Items)
  BY StreamTypes DEF StreamInv
<1>6. IsPrefix(got \o way, sent) \/ got \o way = sent
  BY DEF StreamInv, StreamLedger
<1> HIDE DEF got, way
<1>7. IsPrefix(got, sent)
  <2>1. CASE IsPrefix(got \o way, sent)
    <3>1. sent \in Seq(Items)
      BY <1>2
    <3> QED BY <1>5, <2>1, <3>1, PrefixCut, Zenon
  <2>2. CASE got \o way = sent
    <3>1. IsPrefix(got, got \o way)
      BY <1>5, PrefixOf, Zenon
    <3> QED BY <2>2, <3>1
  <2> QED BY <1>6, <2>1, <2>2
<1>8. StreamLedger'
  BY <1>4, <1>7 DEF StreamLedger, got
<1> QED
  BY <1>1, <1>8 DEF StreamInv

(* p is written, or a comment. *)
LEMMA StreamWrite ==
    ASSUME StreamInv, Typed, ~closed, eof = "no", NEW q \in Seq(Items \cup {KeepAlive}),
           NEW p \in Seq(Items), q = p \/ (q = <<KeepAlive>> /\ p = <<>>),
           wire' = wire \o Frames(q), sent' = sent \o p,
           UNCHANGED <<closed, leftover, buffered, yielded>>, Polling', eof' # "broken"
    PROVE  StreamInv'
<1> DEFINE s == leftover \o wire
<1>1. /\ wire \in Seq(Pieces) /\ leftover \in Seq(Pieces) /\ Frames(q) \in Seq(Pieces)
      /\ s \in Seq(Pieces) /\ Data(s) \in Seq(Items) /\ yielded \o buffered \in Seq(Items)
  BY FramesAre, StreamTypes DEF StreamInv, Streams
<1>2. leftover \o (wire \o Frames(q)) = s \o Frames(q)
  <2>1. \A x, y, z \in Seq(Pieces) : (x \o y) \o z = x \o (y \o z)
    BY ConcatAssociative, SMTT(30)
  <2> QED BY <1>1, <2>1, ZenonT(30)
<1>3. Streams'
  BY <1>1 DEF StreamInv, Streams
<1>4. Data(s \o Frames(q)) = Data(s) \o p
  <2>1. CASE q = p
    BY <1>1, <2>1, DataFrames
  <2>2. CASE q = <<KeepAlive>> /\ p = <<>>
    <3>1. Data(s \o Frames(<<KeepAlive>>)) = Data(s)
      BY <1>1, DataComment
    <3>2. Data(s) \o <<>> = Data(s)
      BY <1>1
    <3> QED BY <2>2, <3>1, <3>2
  <2> QED BY <2>1, <2>2
<1>5. yielded \o buffered \o Data(s) = sent
  BY DEF StreamInv, StreamLedger
<1> DEFINE got == yielded \o buffered
           way == Data(s)
<1>6. got \in Seq(Items) /\ way \in Seq(Items) /\ got \o way = sent
  BY <1>1, <1>5
<1>7. Data(leftover' \o wire') = way \o p
  BY <1>2, <1>4
<1>8. yielded' \o buffered' = got
  OBVIOUS
<1> HIDE DEF got, way
<1>9. got \o (way \o p) = sent \o p
  <2>1. \A x, y, z \in Seq(Items) : (x \o y) \o z = x \o (y \o z)
    BY ConcatAssociative, SMTT(30)
  <2> QED BY <1>6, <2>1
<1>10. StreamLedger'
  BY <1>7, <1>8, <1>9 DEF StreamLedger
<1> QED
  BY <1>3, <1>10 DEF StreamInv

(* n pieces are read: wherever that cuts a frame, what was on its way is   *)
(* now buffered, or still on its way.                                      *)
LEMMA StreamRead ==
    ASSUME StreamInv, NEW n \in 1..Len(wire), Read(n)
    PROVE  StreamInv'
<1> DEFINE s == leftover \o wire
           a == leftover \o SubSeq(wire, 1, n)
           w == SubSeq(wire, n + 1, Len(wire))
           b == Rest(a) \o w
           l == Len(leftover)
           k == l + n
           c == IF s[k].last THEN k ELSE k - 1
<1>1. /\ wire \in Seq(Pieces) /\ leftover \in Seq(Pieces) /\ yielded \in Seq(Items)
      /\ Len(wire) \in Nat /\ l \in Nat
  BY DEF StreamInv, Streams
<1>2. /\ buffered = <<>> /\ wire' = w
      /\ buffered' = Data(a) /\ leftover' = Rest(a)
      /\ UNCHANGED <<server, eof, sent, closed, yielded>>
  BY DEF Read, Reading
<1>3. /\ s \in Seq(Pieces) /\ Len(s) = l + Len(wire)
      /\ \A i \in 1..(l + Len(wire)) : s[i] = IF i <= l THEN leftover[i] ELSE wire[i - l]
  BY <1>1, ConcatProperties
<1>4. /\ SubSeq(wire, 1, n) \in Seq(Pieces) /\ Len(SubSeq(wire, 1, n)) = n
      /\ \A i \in 1..n : SubSeq(wire, 1, n)[i] = wire[i]
  BY <1>1
<1>5. /\ w \in Seq(Pieces) /\ Len(w) = Len(wire) - n
      /\ \A i \in 1..(Len(wire) - n) : w[i] = wire[n + i]
  BY <1>1
<1>6. a \in Seq(Pieces) /\ Len(a) = k /\ \A i \in 1..k : a[i] = s[i]
  <2> DEFINE v == SubSeq(wire, 1, n)
  <2>1. v \in Seq(Pieces) /\ Len(v) = n /\ \A i \in 1..n : v[i] = wire[i]
    BY <1>4
  <2> HIDE DEF v
  <2>2. /\ leftover \o v \in Seq(Pieces) /\ Len(leftover \o v) = l + n
        /\ \A i \in 1..(l + n) : (leftover \o v)[i] = IF i <= l THEN leftover[i] ELSE v[i - l]
    BY <1>1, <2>1, ConcatProperties
  <2> HIDE DEF s
  <2>3. ASSUME NEW i \in 1..(l + n) PROVE (leftover \o v)[i] = s[i]
    <3>1. i \in 1..(l + Len(wire)) /\ (~(i <= l) => i - l \in 1..n)
      BY <1>1
    <3> QED BY <1>3, <2>1, <2>2, <3>1
  <2> QED BY <2>2, <2>3 DEF v
<1>7. k \in 1..Len(s) /\ c \in Nat
  <2> HIDE DEF s
  <2> QED BY <1>1, <1>3
<1>8. /\ Rest(a) \in Seq(Pieces) /\ Len(Rest(a)) = k - c
      /\ \A i \in 1..(k - c) : Rest(a)[i] = s[c + i]
  <2> HIDE DEF s, a
  <2>1. a # <<>> /\ Last(a) = s[k] /\ k \in Nat /\ s[k] \in Pieces
    BY <1>1, <1>3, <1>6, <1>7, ElementOfSeq DEF Last
  <2>2. CASE s[k].last
    <3>1. Rest(a) = <<>> /\ c = k
      BY <2>1, <2>2 DEF Rest
    <3> HIDE DEF c
    <3> QED BY <2>1, <3>1
  <2>3. CASE ~s[k].last
    <3>1. Rest(a) = <<s[k]>> /\ c = k - 1
      BY <2>1, <2>3 DEF Rest
    <3>2. \A i \in 1..1 : c + i = k
      BY <2>1, <3>1
    <3> HIDE DEF c, k
    <3> QED BY <2>1, <3>1, <3>2
  <2> QED BY <2>2, <2>3
<1>9. /\ b \in Seq(Pieces) /\ Len(b) = Len(s) - c
      /\ \A i \in 1..Len(b) : b[i] = s[c + i]
  <2> DEFINE r == Rest(a)
  <2>1. r \in Seq(Pieces) /\ Len(r) = k - c /\ \A i \in 1..(k - c) : r[i] = s[c + i]
    BY <1>8
  <2>2. c <= k
    BY <1>1
  <2> HIDE DEF r, a, s, c, w
  <2>3. /\ r \o w \in Seq(Pieces) /\ Len(r \o w) = (k - c) + (Len(wire) - n)
        /\ \A i \in 1..((k - c) + (Len(wire) - n)) :
              (r \o w)[i] = IF i <= k - c THEN r[i] ELSE w[i - (k - c)]
    <3>1. /\ r \o w \in Seq(Pieces) /\ Len(r \o w) = Len(r) + Len(w)
          /\ \A i \in 1..(Len(r) + Len(w)) :
                (r \o w)[i] = IF i <= Len(r) THEN r[i] ELSE w[i - Len(r)]
      <4>1. r \in Seq(Pieces) /\ w \in Seq(Pieces)
        BY <1>5, <2>1
      <4> QED BY <4>1, ConcatProperties
    <3>2. Len(r) = k - c /\ Len(w) = Len(wire) - n
      BY <1>5, <2>1
    <3> QED BY <3>1, <3>2
  <2>4. (k - c) + (Len(wire) - n) = Len(s) - c
    BY <1>1, <1>3, <1>7
  <2>5. ASSUME NEW i \in 1..(Len(s) - c) PROVE (r \o w)[i] = s[c + i]
    <3>1. CASE i <= k - c
      BY <1>7, <2>1, <2>3, <2>4, <3>1
    <3>2. CASE ~(i <= k - c)
      <4>1. /\ i - (k - c) \in 1..(Len(wire) - n)
            /\ c + i \in 1..(l + Len(wire)) /\ ~(c + i <= l)
            /\ n + (i - (k - c)) = (c + i) - l
        BY <1>1, <1>3, <1>7, <2>2, <3>2
      <4>2. (r \o w)[i] = wire[n + (i - (k - c))]
        BY <1>5, <2>3, <2>4, <3>2, <4>1
      <4>3. s[c + i] = wire[(c + i) - l]
        BY <1>3, <4>1
      <4> QED BY <4>1, <4>2, <4>3
    <3> QED BY <3>1, <3>2
  <2> QED BY <2>3, <2>4, <2>5 DEF r
<1>10. Data(s) = Data(a) \o Data(b)
  <2> HIDE DEF s, a, b, k
  <2> QED BY <1>3, <1>6, <1>7, <1>9, DataCut, ZenonT(30)
<1>11. Data(a) \in Seq(Items) /\ Data(b) \in Seq(Items)
  BY <1>6, <1>9, DataSeq
<1>12. Streams'
  <2>1. Len(Rest(a)) <= 1
    <3>1. k \in Int /\ k - c <= 1
      BY <1>1
    <3> HIDE DEF a, c, k
    <3> QED BY <1>8, <3>1
  <2> HIDE DEF s, a, b, w
  <2> QED BY <1>1, <1>2, <1>5, <1>8, <1>11, <2>1 DEF Streams
<1>13. yielded' \o buffered' \o Data(leftover' \o wire') = yielded \o buffered \o Data(s)
  <2>1. yielded' = yielded /\ buffered' = Data(a) /\ leftover' \o wire' = b
    BY <1>2
  <2>2. yielded \o buffered = yielded
    BY <1>1, <1>2
  <2> HIDE DEF s, a, b
  <2>3. (yielded \o Data(a)) \o Data(b) = yielded \o (Data(a) \o Data(b))
    BY <1>1, <1>11, ConcatAssociative, SMTT(30)
  <2> QED BY <1>10, <2>1, <2>2, <2>3
<1>14. StreamLedger'
  <2> HIDE DEF a, b, w
  <2> QED BY <1>2, <1>13 DEF StreamInv, StreamLedger
<1> QED
  BY <1>2, <1>12, <1>14 DEF StreamInv, Polling

(* next() returns the oldest item. *)
LEMMA StreamYield ==
    ASSUME StreamInv, Yield
    PROVE  StreamInv'
<1>1. /\ buffered \in Seq(Items) /\ buffered # <<>> /\ yielded \in Seq(Items)
      /\ yielded' = Append(yielded, Head(buffered)) /\ buffered' = Tail(buffered)
      /\ UNCHANGED <<server, eof, sent, wire, closed, leftover>>
  BY DEF StreamInv, Streams, Yield
<1>2. yielded' \o buffered' = yielded \o buffered
  BY <1>1
<1>3. Streams'
  BY <1>1 DEF StreamInv, Streams
<1>4. Data(leftover' \o wire') = Data(leftover \o wire)
  BY <1>1
<1>5. StreamLedger'
  BY <1>1, <1>2, <1>4 DEF StreamInv, StreamLedger
<1> QED
  BY <1>1, <1>3, <1>5 DEF StreamInv, Polling

LEMMA StreamNext == CursorInv /\ StreamInv /\ [Next]_vars => StreamInv'
<1> SUFFICES ASSUME CursorInv, StreamInv, [Next]_vars PROVE StreamInv'
  OBVIOUS
<1>t. Typed
  BY DEF CursorInv
<1>1. CASE PollRows
  <2>1. PICK p \in Pages(Fresh(cursor)) :
            /\ p # <<>>
            /\ IF closed
               THEN server' = "ended" /\ UNCHANGED <<wire, cursor, sent>>
               ELSE /\ wire' = wire \o Frames(p)
                    /\ sent' = sent \o p
                    /\ cursor' = NextCursor(p)
                    /\ UNCHANGED server
    BY <1>1 DEF PollRows
  <2>2. server = "poll" /\ UNCHANGED <<eof, closed, leftover, buffered, yielded>>
    BY <1>1 DEF PollRows, CanWrite
  <2>3. p \in Seq(Items)
    <3>1. PICK n \in Nat \ {0} : p \in [1..n -> Fresh(cursor)]
      BY <1>t, <2>1, PageFacts DEF Typed
    <3>2. \A i \in 1..n : p[i] \in Items
      BY <3>1 DEF Fresh, Items
    <3> QED BY <3>1, <3>2
  <2>4. CASE closed
    BY <1>t, <2>1, <2>2, <2>4, StreamQuiet DEF Polling
  <2>5. CASE ~closed
    <3>1. p \in Seq(Items \cup {KeepAlive}) /\ eof = "no" /\ Polling'
      BY <2>1, <2>2, <2>3, <2>5 DEF StreamInv, Polling
    <3> QED BY <1>t, <2>1, <2>2, <2>3, <2>5, <3>1, StreamWrite
  <2> QED BY <2>4, <2>5
<1>2. CASE PollEmpty
  <2>1. server = "poll" /\ UNCHANGED <<eof, closed, leftover, buffered, yielded, sent>>
    BY <1>2 DEF PollEmpty, CanWrite
  <2>2. CASE closed
    BY <1>2, <1>t, <2>1, <2>2, StreamQuiet DEF PollEmpty, Polling
  <2>3. CASE ~closed
    <3>1. wire' = wire \o Frames(<<KeepAlive>>) /\ UNCHANGED server
      BY <1>2, <2>3 DEF PollEmpty
    <3>2. /\ <<KeepAlive>> \in Seq(Items \cup {KeepAlive}) /\ <<>> \in Seq(Items)
          /\ sent' = sent \o <<>> /\ eof = "no" /\ Polling'
      BY <1>t, <2>1, <3>1 DEF Typed, StreamInv, Polling
    <3> QED BY <1>t, <2>1, <2>3, <3>1, <3>2, StreamWrite
  <2> QED BY <2>2, <2>3
<1>3. CASE PollFails
  <2>1. /\ server = "poll" /\ server' = "ended"
        /\ UNCHANGED <<closed, leftover, buffered, yielded>>
    BY <1>3 DEF PollFails, CanWrite
  <2>2. CASE closed
    BY <1>3, <1>t, <2>1, <2>2, StreamQuiet DEF PollFails, Polling
  <2>3. CASE ~closed
    <3>1. /\ eof' = "clean" /\ sent' = Append(sent, ErrorBody)
          /\ wire' = wire \o Frames(<<ErrorBody>>)
      BY <1>3, <2>3 DEF PollFails
    <3>2. /\ <<ErrorBody>> \in Seq(Items) /\ <<ErrorBody>> \in Seq(Items \cup {KeepAlive})
          /\ sent' = sent \o <<ErrorBody>> /\ eof = "no" /\ Polling' /\ eof' # "broken"
      BY <1>t, <2>1, <3>1 DEF Typed, StreamInv, Polling, Items
    <3> QED BY <1>t, <2>1, <2>3, <3>1, <3>2, StreamWrite
  <2> QED BY <2>2, <2>3
<1>4. CASE PollCrashes
  BY <1>4, <1>t, StreamQuiet DEF PollCrashes, Polling
<1>5. CASE (\E t \in 1..MaxTime : Arrive(t)) \/ Serve \/ Open \/ OpenOk \/ Next_
           \/ ReadFinished \/ ReadAborted \/ Finish \/ UNCHANGED vars
  BY <1>5, <1>t, StreamQuiet
  DEF Arrive, Serve, Open, OpenOk, Next_, ReadFinished, ReadAborted, Finish, vars,
      StreamInv, Polling
<1>6. CASE \E n \in 1..Len(wire) : Read(n)
  BY <1>6, StreamRead
<1>7. CASE Yield
  BY <1>7, StreamYield
<1>8. CASE ReadBroken
  BY <1>8, <1>t, StreamLost DEF ReadBroken, StreamInv, Polling
<1>9. CASE Return
  <2>1. UNCHANGED <<server, eof, leftover, buffered, yielded, sent>>
    BY <1>9 DEF Return
  <2>2. CASE client = "open"
    BY <1>9, <1>t, <2>1, <2>2, StreamLost DEF Return, StreamInv, Polling
  <2>3. CASE client # "open"
    BY <1>9, <1>t, <2>1, <2>3, StreamQuiet DEF Return, StreamInv, Polling
  <2> QED BY <2>2, <2>3
<1>10. CASE Abort
  <2>1. UNCHANGED <<server, eof, leftover, buffered, yielded, sent>>
    BY <1>10 DEF Abort
  <2>2. CASE client = "opening"
    BY <1>10, <1>t, <2>1, <2>2, StreamLost DEF Abort, ClientFails, StreamInv, Polling
  <2>3. CASE client # "opening"
    BY <1>10, <1>t, <2>1, <2>3, StreamLost DEF Abort, StreamInv, Polling
  <2> QED BY <2>2, <2>3
<1>11. CASE OpenFails
  BY <1>11, <1>t, StreamLost DEF OpenFails, ClientFails, StreamInv, Polling
<1> QED
  BY <1>1, <1>2, <1>3, <1>4, <1>5, <1>6, <1>7, <1>8, <1>9, <1>10, <1>11
  DEF Next, Server, Opening, Client

(* Wherever the reads of the iterator cut the stream, whatever is lost     *)
(* with the connection and however the tail ends, the consumer gets what   *)
(* was written, in order and once (tailIterator in query.ts, tail_loop).   *)
THEOREM StreamLedgerHolds == Spec => []StreamLedger
<1>1. StreamInv => StreamLedger
  BY DEF StreamInv
<1> QED
  BY <1>1, CursorInit, CursorNext, StreamInit, StreamNext, PTL DEF Spec
=============================================================================
