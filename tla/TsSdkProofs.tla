---------------------------- MODULE TsSdkProofs ----------------------------
(***************************************************************************)
(* What is proved of the TypeScript SDK's life cycle, for every set of     *)
(* events and every number of calls of init(): an event is delivered or    *)
(* buffered, once and in order, and the addon stays in use.                *)
(***************************************************************************)
EXTENDS TsSdk, SequenceTheorems, WellFoundedInduction, TLAPS

(* The emitter's record of what it took. *)
Taken == [event : Events, as : {"log", "printed", "muted", "metric"}]

(* The events taken, and those delivered, in order. *)
EventsOf(s) == [i \in DOMAIN s |-> s[i].event]
Out == EventsOf(delivered)

Typed ==
    /\ delivered \in Seq(Taken)
    /\ buffer \in Seq(Events)
    /\ logged \in Seq(Events)

(* The strengthening of Ledger: once there is an emitter nothing waits in  *)
(* the buffer, but for what a replay that threw has left there.  Without   *)
(* it an event could be handed to the emitter past one that waits.         *)
Settled ==
    /\ native => emitter
    /\ emitter /\ ~stranded => buffer = <<>>

LedgerInv == Typed /\ Settled /\ Ledger

-----------------------------------------------------------------------------
(* A set of naturals has a least one. *)
LEMMA LeastNatural ==
    ASSUME NEW T, T \subseteq Nat, T # {}
    PROVE  \E m \in T : \A n \in T : m <= n
<1>1. PICK m \in T : \A n \in T : <<n, m>> \notin OpToRel(<, Nat)
  BY NatLessThanWellFounded, WFMin
<1>2. OpToRel(<, Nat) = {ss \in Nat \X Nat : ss[1] < ss[2]}
  BY DEF OpToRel
<1>3. ASSUME NEW n \in T PROVE m <= n
  <2>1. <<n, m>> \notin {ss \in Nat \X Nat : ss[1] < ss[2]} /\ n \in Nat /\ m \in Nat
    BY <1>1, <1>2
  <2> QED BY <2>1
<1> QED
  BY <1>3

(* What a replay delivers is a prefix of the buffer, in order; all of it   *)
(* if nothing in it throws.                                                *)
LEMMA ReplayedPrefix ==
    ASSUME buffer \in Seq(Events), NEW tn \in BOOLEAN
    PROVE  \E n \in 0..Len(buffer) :
              Replayed(tn) = [i \in 1..n |-> Delivery(buffer[i], tn)]
<1> DEFINE bad == {i \in 1..Len(buffer) : Throws(buffer[i], tn)}
           least == CHOOSE i \in bad : \A j \in bad : i <= j
           n == IF bad = {} THEN Len(buffer) ELSE least - 1
<1>1. Len(buffer) \in Nat
  OBVIOUS
<1>2. bad # {} => least \in 1..Len(buffer)
  <2>1. bad \subseteq Nat
    BY <1>1
  <2>2. ASSUME bad # {} PROVE \E m \in bad : \A j \in bad : m <= j
    <3> HIDE DEF bad
    <3> QED BY <2>1, <2>2, LeastNatural
  <2> QED BY <2>2
<1>3. n \in 0..Len(buffer)
  <2> HIDE DEF bad, least
  <2> QED BY <1>1, <1>2
<1>4. Replayed(tn) = [i \in 1..n |-> Delivery(buffer[i], tn)]
  BY DEF Replayed
<1> HIDE DEF n
<1> QED
  BY <1>3, <1>4

(* ... so a replay that does not throw delivers the buffer.                *)
LEMMA ReplayedAll ==
    ASSUME buffer \in Seq(Events), NEW tn \in BOOLEAN
    PROVE  /\ Replayed(tn) \in Seq(Taken)
           /\ Len(Replayed(tn)) = Len(buffer) =>
                EventsOf(Replayed(tn)) = buffer
<1>1. PICK n \in 0..Len(buffer) : Replayed(tn) = [i \in 1..n |-> Delivery(buffer[i], tn)]
  BY ReplayedPrefix
<1>2. \A i \in 1..n : buffer[i] \in Events
  OBVIOUS
<1>3. \A e \in Events : Delivery(e, tn) \in Taken /\ Delivery(e, tn).event = e
  BY DEF Delivery, Taken
<1>4. Replayed(tn) \in Seq(Taken)
  BY <1>1, <1>2, <1>3
<1>5. DOMAIN Replayed(tn) = 1..n /\ Len(Replayed(tn)) = n
  BY <1>1, <1>4
<1>6. ASSUME n = Len(buffer)
      PROVE  EventsOf(Replayed(tn)) = buffer
  <2>1. \A i \in 1..n : Replayed(tn)[i].event = buffer[i]
    BY <1>1, <1>2, <1>3
  <2>2. DOMAIN buffer = 1..n /\ buffer = [i \in 1..n |-> buffer[i]]
    BY <1>6
  <2> QED BY <1>5, <2>1, <2>2 DEF EventsOf
<1> QED
  BY <1>4, <1>5, <1>6

-----------------------------------------------------------------------------
(* The events of a sequence, of one more and of a concatenation. *)
LEMMA EventsSeq ==
    ASSUME NEW s \in Seq(Taken)
    PROVE  /\ EventsOf(s) \in Seq(Events) /\ Len(EventsOf(s)) = Len(s)
           /\ \A i \in 1..Len(s) : EventsOf(s)[i] = s[i].event
<1>1. Len(s) \in Nat /\ DOMAIN s = 1..Len(s)
  OBVIOUS
<1>2. \A i \in 1..Len(s) : s[i].event \in Events
  <2>1. \A i \in 1..Len(s) : s[i] \in Taken
    BY ElementOfSeq
  <2>2. \A d \in Taken : d.event \in Events
    BY DEF Taken
  <2> QED BY <2>1, <2>2
<1>3. EventsOf(s) = [i \in 1..Len(s) |-> s[i].event]
  BY <1>1 DEF EventsOf
<1> QED
  BY <1>1, <1>2, <1>3

LEMMA EventsConcat ==
    ASSUME NEW s \in Seq(Taken), NEW r \in Seq(Taken)
    PROVE  EventsOf(s \o r) = EventsOf(s) \o EventsOf(r)
<1> DEFINE p == EventsOf(s)
           q == EventsOf(r)
<1>1. /\ p \in Seq(Events) /\ Len(p) = Len(s) /\ \A i \in 1..Len(s) : p[i] = s[i].event
      /\ q \in Seq(Events) /\ Len(q) = Len(r) /\ \A i \in 1..Len(r) : q[i] = r[i].event
  BY EventsSeq
<1>2. /\ EventsOf(s \o r) \in Seq(Events) /\ Len(EventsOf(s \o r)) = Len(s) + Len(r)
      /\ \A i \in 1..(Len(s) + Len(r)) : EventsOf(s \o r)[i] = (s \o r)[i].event
  <2>1. s \o r \in Seq(Taken) /\ Len(s \o r) = Len(s) + Len(r)
    OBVIOUS
  <2> QED BY <2>1, EventsSeq
<1> HIDE DEF p, q
<1>3. /\ p \o q \in Seq(Events) /\ Len(p \o q) = Len(s) + Len(r)
      /\ \A i \in 1..(Len(s) + Len(r)) :
            (p \o q)[i] = IF i <= Len(s) THEN p[i] ELSE q[i - Len(s)]
  <2>1. /\ p \o q \in Seq(Events) /\ Len(p \o q) = Len(p) + Len(q)
        /\ \A i \in 1..(Len(p) + Len(q)) :
              (p \o q)[i] = IF i <= Len(p) THEN p[i] ELSE q[i - Len(p)]
    <3>1. p \in Seq(Events) /\ q \in Seq(Events)
      BY <1>1
    <3> QED BY <3>1, ConcatProperties
  <2>2. Len(p) = Len(s) /\ Len(q) = Len(r)
    BY <1>1
  <2> QED BY <2>1, <2>2
<1>4. ASSUME NEW i \in 1..(Len(s) + Len(r))
      PROVE  (s \o r)[i].event = (p \o q)[i]
  <2>1. Len(s) \in Nat /\ Len(r) \in Nat
    OBVIOUS
  <2>2. (s \o r)[i] = IF i <= Len(s) THEN s[i] ELSE r[i - Len(s)]
    BY ConcatProperties
  <2>3. (p \o q)[i] = IF i <= Len(s) THEN p[i] ELSE q[i - Len(s)]
    BY <1>1, <1>3
  <2>4. CASE i <= Len(s)
    BY <1>1, <2>1, <2>2, <2>3, <2>4
  <2>5. CASE ~ (i <= Len(s))
    <3>1. i - Len(s) \in 1..Len(r)
      BY <2>1, <2>5
    <3> QED BY <1>1, <2>2, <2>3, <2>5, <3>1
  <2> QED BY <2>4, <2>5
<1>5. EventsOf(s \o r) = p \o q
  BY <1>2, <1>3, <1>4, SeqEqual
<1> QED
  BY <1>5 DEF p, q

LEMMA EventsAppend ==
    ASSUME NEW s \in Seq(Taken), NEW d \in Taken
    PROVE  EventsOf(Append(s, d)) = Append(EventsOf(s), d.event)
<1>1. Append(s, d) = s \o <<d>> /\ <<d>> \in Seq(Taken)
  OBVIOUS
<1>2. EventsOf(<<d>>) = <<d.event>>
  <2>1. DOMAIN <<d>> = {1} /\ <<d>>[1] = d
    OBVIOUS
  <2>2. EventsOf(<<d>>) = [i \in {1} |-> d.event]
    BY <2>1 DEF EventsOf
  <2>3. <<d.event>> = [i \in {1} |-> d.event]
    OBVIOUS
  <2> QED BY <2>2, <2>3
<1>3. EventsOf(s) \in Seq(Events) /\ d.event \in Events
  BY EventsSeq DEF Taken
<1>4. EventsOf(s \o <<d>>) = EventsOf(s) \o <<d.event>>
  BY <1>1, <1>2, EventsConcat
<1>5. EventsOf(s) \o <<d.event>> = Append(EventsOf(s), d.event)
  BY <1>3, AppendIsConcat
<1> QED
  BY <1>1, <1>4, <1>5

(* The ledger, by that name. *)
LEMMA LedgerOut == Ledger <=> (~stranded => Out \o buffer = logged)
BY DEF Ledger, Out, EventsOf

-----------------------------------------------------------------------------
(* A call that the emitter or the addon answers. *)
LEMMA HandKeeps ==
    ASSUME LedgerInv, emitter, NEW d \in Taken, NEW throws,
           Hand(d.event, d, throws), UNCHANGED <<emitter, native, stranded>>
    PROVE  LedgerInv'
<1>1. CASE throws
  BY <1>1 DEF Hand, LedgerInv, Typed, Settled, Ledger
<1>2. CASE ~throws
  <2>1. /\ delivered' = Append(delivered, d) /\ logged' = Append(logged, d.event)
        /\ UNCHANGED buffer
    BY <1>2 DEF Hand
  <2>2. d.event \in Events
    BY DEF Taken
  <2>3. Typed' /\ Settled'
    BY <2>1, <2>2 DEF LedgerInv, Typed, Settled
  <2>4. ASSUME ~stranded PROVE Out' \o buffer' = logged'
    <3>1. buffer = <<>> /\ Out \o buffer = logged
      BY <2>4, LedgerOut DEF LedgerInv, Settled
    <3>2. Out \in Seq(Events)
      BY EventsSeq DEF LedgerInv, Typed, Out
    <3>3. Out = logged
      BY <3>1, <3>2
    <3>4. Out' = Append(Out, d.event)
      BY <2>1, EventsAppend DEF LedgerInv, Typed, Out
    <3>5. Out' \in Seq(Events) /\ buffer' = <<>>
      BY <2>1, <2>2, <3>1, <3>2, <3>4
    <3> QED BY <2>1, <3>3, <3>4, <3>5
  <2>5. Ledger'
    BY <2>4 DEF Ledger, Out, EventsOf
  <2> QED BY <2>3, <2>5 DEF LedgerInv
<1> QED
  BY <1>1, <1>2

(* A call before there is an emitter, or one that the emitter answers.     *)
LEMMA EmitKeeps ==
    ASSUME LedgerInv, NEW e \in Events, Emit(e), UNCHANGED <<emitter, native, stranded>>
    PROVE  LedgerInv'
<1>1. CASE emitter
  <2>1. Delivery(e, native) \in Taken /\ Delivery(e, native).event = e
    BY DEF Delivery, Taken
  <2>2. Hand(e, Delivery(e, native), Throws(e, native))
    BY <1>1 DEF Emit
  <2> HIDE DEF Delivery
  <2> QED BY <1>1, <2>1, <2>2, HandKeeps
<1>2. CASE ~emitter
  <2>1. /\ buffer' = Append(buffer, e) /\ logged' = Append(logged, e)
        /\ UNCHANGED delivered
    BY <1>2 DEF Emit
  <2>2. Typed' /\ Settled'
    BY <1>2, <2>1 DEF LedgerInv, Typed, Settled
  <2>3. ASSUME ~stranded PROVE Out' \o buffer' = logged'
    <3>1. Out \o buffer = logged /\ Out' = Out
      BY <2>1, <2>3, LedgerOut DEF LedgerInv, Out
    <3>2. Out \in Seq(Events) /\ buffer \in Seq(Events)
      BY EventsSeq DEF LedgerInv, Typed, Out
    <3>3. Out \o Append(buffer, e) = Append(Out \o buffer, e)
      BY <3>2
    <3> QED BY <2>1, <3>1, <3>3
  <2>4. Ledger'
    BY <2>3 DEF Ledger, Out, EventsOf
  <2> QED BY <2>2, <2>4 DEF LedgerInv
<1> QED
  BY <1>1, <1>2

(* init(), which replays the buffer. *)
LEMMA InitKeeps ==
    ASSUME LedgerInv, NEW valid \in BOOLEAN, DoInit(valid), UNCHANGED logged
    PROVE  LedgerInv'
<1> DEFINE tn == valid /\ ~instance
           r == Replayed(tn)
<1>1. /\ emitter' = TRUE /\ native' = tn /\ delivered' = delivered \o r
      /\ buffer' = IF Len(r) = Len(buffer) THEN <<>> ELSE buffer
      /\ stranded' = (stranded \/ Len(r) # Len(buffer))
  BY DEF DoInit, NativeInit
<1>2. /\ r \in Seq(Taken)
      /\ Len(r) = Len(buffer) => EventsOf(r) = buffer
  <2>1. tn \in BOOLEAN /\ buffer \in Seq(Events)
    BY DEF LedgerInv, Typed
  <2> HIDE DEF tn
  <2> QED BY <2>1, ReplayedAll
<1> HIDE DEF r, tn
<1>3. Typed' /\ Settled'
  <2>1. delivered' \in Seq(Taken)
    BY <1>1, <1>2 DEF LedgerInv, Typed
  <2>2. buffer' \in Seq(Events) /\ logged' \in Seq(Events)
    BY <1>1 DEF LedgerInv, Typed
  <2>3. emitter' /\ (~stranded' => buffer' = <<>>)
    BY <1>1
  <2> QED BY <2>1, <2>2, <2>3 DEF Typed, Settled
<1>4. ASSUME ~stranded' PROVE Out' \o buffer' = logged'
  <2>1. ~stranded /\ Len(r) = Len(buffer) /\ buffer' = <<>>
    BY <1>1, <1>4
  <2>2. Out \o buffer = logged
    BY <2>1, LedgerOut DEF LedgerInv
  <2>3. Out' = Out \o buffer
    BY <1>1, <1>2, <2>1, EventsConcat DEF LedgerInv, Typed, Out
  <2>4. Out \in Seq(Events) /\ buffer \in Seq(Events)
    BY EventsSeq DEF LedgerInv, Typed, Out
  <2>5. Out' \in Seq(Events)
    BY <2>3, <2>4
  <2> QED BY <2>1, <2>2, <2>3, <2>5
<1>5. Ledger'
  BY <1>4 DEF Ledger, Out, EventsOf
<1> QED
  BY <1>3, <1>5 DEF LedgerInv

LEMMA LedgerInit == Init => LedgerInv
<1> SUFFICES ASSUME Init PROVE LedgerInv
  OBVIOUS
<1>1. Typed /\ Settled
  BY DEF Init, Typed, Settled
<1>2. Out = <<>>
  BY EventsSeq, EmptySeq DEF Init, Out
<1>3. Ledger
  BY <1>2, LedgerOut DEF Init
<1> QED
  BY <1>1, <1>3 DEF LedgerInv

LEMMA LedgerStep == LedgerInv /\ [Next]_vars => LedgerInv'
<1> SUFFICES ASSUME LedgerInv, [Next]_vars PROVE LedgerInv'
  OBVIOUS
<1>1. ASSUME NEW e \in Events, Log(e) PROVE LedgerInv'
  BY <1>1, EmitKeeps DEF Log
<1>2. ASSUME NEW e \in Events, Metric(e) PROVE LedgerInv'
  <2>1. CASE native
    <3> DEFINE d == [event |-> e, as |-> "metric"]
    <3>1. d \in Taken /\ d.event = e
      BY DEF Taken
    <3>2. Hand(e, d, e \in Poison) /\ UNCHANGED <<emitter, native, stranded>>
      BY <1>2, <2>1 DEF Metric
    <3>3. emitter
      BY <2>1 DEF LedgerInv, Settled
    <3> HIDE DEF d
    <3> QED BY <3>1, <3>2, <3>3, HandKeeps
  <2>2. CASE ~native
    BY <1>2, <2>2, EmitKeeps DEF Metric
  <2> QED BY <2>1, <2>2
<1>3. ASSUME NEW valid \in BOOLEAN, AppInit(valid) PROVE LedgerInv'
  BY <1>3, InitKeeps DEF AppInit
<1>4. CASE TimerFires
  BY <1>4, InitKeeps DEF TimerFires
<1>5. CASE UNCHANGED vars
  BY <1>5 DEF vars, LedgerInv, Typed, Settled, Ledger
<1> QED
  BY <1>1, <1>2, <1>3, <1>4, <1>5 DEF Next

-----------------------------------------------------------------------------
(* Every event is delivered or still buffered, once and in the order of    *)
(* the calls, whatever init() and the timer do (sdk-ts/src/index.ts).      *)
THEOREM LedgerHolds == Spec => []Ledger
<1>1. LedgerInv => Ledger
  BY DEF LedgerInv
<1> QED
  BY <1>1, LedgerInit, LedgerStep, PTL DEF Spec

(* Once the addon has an instance, events go to it until init() is called  *)
(* again (sdk-ts/src/index.ts, sdk-ts/native/src/lib.rs).                  *)
THEOREM NativeKeptHolds == Spec => []NativeKept
<1>1. Init => NativeKept
  BY DEF Init, NativeKept
<1>2. NativeKept /\ [Next]_vars => NativeKept'
  <2> SUFFICES ASSUME NativeKept, [Next]_vars PROVE NativeKept'
    OBVIOUS
  <2>1. ASSUME NEW valid \in BOOLEAN, NativeInit(valid) PROVE NativeKept'
    BY <2>1 DEF NativeInit, NativeKept
  <2>2. CASE UNCHANGED <<native, instance, again>>
    BY <2>2 DEF NativeKept
  <2> QED
    BY <2>1, <2>2 DEF Next, Log, Metric, AppInit, TimerFires, DoInit, vars
<1> QED
  BY <1>1, <1>2, PTL DEF Spec

(* The exception that Ledger makes is for events that cannot be serialised *)
(* and for nothing else: without them no replay throws, and the ledger     *)
(* always holds.                                                           *)
THEOREM NeverStranded == Poison = {} => (Spec => [](~stranded))
<1> SUFFICES ASSUME Poison = {} PROVE Spec => [](~stranded)
  OBVIOUS
<1>1. Init => LedgerInv /\ ~stranded
  BY LedgerInit DEF Init
<1>2. LedgerInv /\ ~stranded /\ [Next]_vars => LedgerInv' /\ ~stranded'
  <2> SUFFICES ASSUME LedgerInv, ~stranded, [Next]_vars PROVE ~stranded'
    BY LedgerStep
  <2>1. ASSUME NEW tn \in BOOLEAN PROVE Len(Replayed(tn)) = Len(buffer)
    <3>1. Replayed(tn) = [i \in 1..Len(buffer) |-> Delivery(buffer[i], tn)]
      BY DEF Replayed, Throws
    <3>2. buffer \in Seq(Events) /\ Replayed(tn) \in Seq(Taken)
      BY ReplayedAll DEF LedgerInv, Typed
    <3> QED BY <3>1, <3>2
  <2>2. ASSUME NEW valid \in BOOLEAN, DoInit(valid) PROVE ~stranded'
    <3>1. (valid /\ ~instance) \in BOOLEAN
      OBVIOUS
    <3> QED BY <2>1, <2>2, <3>1 DEF DoInit, NativeInit
  <2> QED
    BY <2>2 DEF Next, Log, Metric, AppInit, TimerFires, vars
<1> QED
  BY <1>1, <1>2, PTL DEF Spec
=============================================================================
