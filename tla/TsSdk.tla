-------------------------------- MODULE TsSdk --------------------------------
(***************************************************************************)
(* The logger of the TypeScript SDK (sdk-ts/src/index.ts) and the native   *)
(* addon's instance (sdk-ts/native/src/lib.rs).                            *)
(*                                                                         *)
(* Before init() the logger keeps events in `_buffer` and starts a timer   *)
(* that calls init() for an application that does not.  init() loads the   *)
(* addon, or falls back to the terminal, and replays the buffer.           *)
(* JavaScript runs one function at a time: an action is a call from        *)
(* outside, run to its end.                                                *)
(*                                                                         *)
(* An event is known by its identity.  Poison events have an attribute     *)
(* JSON.stringify rejects (a BigInt, a cycle).                             *)
(***************************************************************************)
EXTENDS Naturals, Sequences, SequencesExt, FiniteSets

CONSTANTS Logs, Spans, Metrics, \* what is logged: log.<level>, log.span, log.metric
          Poison,               \* those that cannot be serialised
          MaxInits              \* bound: calls of init() by the application

Events == Logs \cup Spans \cup Metrics

ASSUME TsSdkAssumption ==
    /\ Poison \subseteq Events
    /\ MaxInits \in Nat
    /\ IsFiniteSet(Events)

VARIABLES
    initCalled, \* _initCalled
    emitter,    \* _emitter is set
    timer,      \* _autoInitTimer is set
    native,     \* _native is set
    instance,   \* the addon's INSTANCE is set
    buffer,     \* _buffer
    logged,     \* history: the events, in the order of the calls ...
    thrown,     \* history: ... but for those whose call threw
    delivered,  \* history: where the emitter took each event, in order
    stranded,   \* history: a replay threw
    inits,      \* history: calls of init() by the application
    again       \* history: init() was called when the addon had an instance

vars == <<initCalled, emitter, timer, native, instance, buffer, logged, thrown,
          delivered, stranded, inits, again>>

Init ==
    /\ initCalled = FALSE
    /\ emitter = FALSE
    /\ timer = FALSE
    /\ native = FALSE
    /\ instance = FALSE
    /\ buffer = <<>>
    /\ logged = <<>>
    /\ thrown = {}
    /\ delivered = <<>>
    /\ stranded = FALSE
    /\ inits = 0
    /\ again = FALSE

-----------------------------------------------------------------------------
(* The emitter. *)

(* Serialising e throws.  The terminal skips metrics and spans unread.     *)
Throws(e, toNative) == e \in Poison /\ (toNative \/ e \in Logs)

(* Where the emitter takes e: to the engine as a log event, to the         *)
(* terminal, or nowhere.                                                   *)
Delivery(e, toNative) ==
    [event |-> e,
     as |-> IF toNative THEN "log" ELSE IF e \in Logs THEN "printed" ELSE "muted"]

(* The prefix of _buffer that the replay of init() delivers. *)
Replayed(toNative) ==
    LET bad == {i \in 1..Len(buffer) : Throws(buffer[i], toNative)}
        n   == IF bad = {} THEN Len(buffer)
                           ELSE (CHOOSE i \in bad : \A j \in bad : i <= j) - 1
    IN  [i \in 1..n |-> Delivery(buffer[i], toNative)]

(* The emitter or the addon is called with e: it takes it, as d, or throws *)
(* and so does the call.                                                   *)
Hand(e, d, throws) ==
    /\ IF throws
       THEN thrown' = thrown \cup {e} /\ UNCHANGED <<delivered, logged>>
       ELSE /\ delivered' = Append(delivered, d)
            /\ logged' = Append(logged, e)
            /\ UNCHANGED thrown
    /\ UNCHANGED <<buffer, timer>>

(* emit(): to the emitter, or into the buffer, which starts the timer.     *)
Emit(e) ==
    IF emitter
    THEN Hand(e, Delivery(e, native), Throws(e, native))
    ELSE /\ buffer' = Append(buffer, e)
         /\ timer' = (timer \/ ~initCalled)
         /\ logged' = Append(logged, e)
         /\ UNCHANGED <<delivered, thrown>>

(* An event is logged once. *)
Fresh(e) == e \notin ToSet(logged) \cup thrown

(* log.trace() ... log.fatal(), and the two ends of log.span(). *)
Log(e) ==
    /\ e \in Logs \cup Spans
    /\ Fresh(e)
    /\ Emit(e)
    /\ UNCHANGED <<initCalled, emitter, native, instance, stranded, inits, again>>

(* log.metric(): straight to the addon if it is there, else as a log event *)
(* with special attributes.                                                *)
Metric(e) ==
    /\ e \in Metrics
    /\ Fresh(e)
    /\ IF native THEN Hand(e, [event |-> e, as |-> "metric"], e \in Poison) ELSE Emit(e)
    /\ UNCHANGED <<initCalled, emitter, native, instance, stranded, inits, again>>

-----------------------------------------------------------------------------
(* init(). *)

(* Mutant: what the first init() chose is kept, the addon or the terminal. *)
NativeInitKeepsFirst(valid) ==
    /\ instance' = (instance \/ valid)
    /\ native' = IF initCalled THEN native ELSE valid /\ ~instance
    /\ again' = (again \/ instance)

(* The addon's init: OnceLock::set fails the second time. *)
NativeInit(valid) ==
    /\ instance' = (instance \/ valid)
    /\ native' = (valid /\ ~instance)
    /\ again' = (again \/ instance)

(* Mutant: the missing endpoint is refused before the emitter is set. *)
DoInitRefuses(valid) ==
    /\ initCalled' = TRUE
    /\ timer' = FALSE
    /\ NativeInit(valid)
    /\ emitter' = (emitter \/ valid)
    /\ LET r == IF valid THEN Replayed(native') ELSE <<>>
       IN  /\ delivered' = delivered \o r
           /\ buffer' = IF valid /\ Len(r) = Len(buffer) THEN <<>> ELSE buffer
           /\ stranded' = (stranded \/ (valid /\ Len(r) # Len(buffer)))

(* Mutant: the buffer is not emptied. *)
DoInitKeepsBuffer(valid) ==
    /\ initCalled' = TRUE
    /\ timer' = FALSE
    /\ NativeInit(valid)
    /\ emitter' = TRUE
    /\ LET r == Replayed(native')
       IN  /\ delivered' = delivered \o r
           /\ UNCHANGED buffer
           /\ stranded' = (stranded \/ Len(r) # Len(buffer))

(* valid: there is an endpoint, the addon loads and accepts the options.   *)
(* An event that throws ends the replay, and init(), before _buffer = [].  *)
DoInit(valid) ==
    /\ initCalled' = TRUE
    /\ timer' = FALSE
    /\ NativeInit(valid)
    /\ emitter' = TRUE
    /\ LET r == Replayed(native')
       IN  /\ delivered' = delivered \o r
           /\ buffer' = IF Len(r) = Len(buffer) THEN <<>> ELSE buffer
           /\ stranded' = (stranded \/ Len(r) # Len(buffer))

(* The application calls aires.init(). *)
AppInit(valid) ==
    /\ inits < MaxInits
    /\ inits' = inits + 1
    /\ DoInit(valid)
    /\ UNCHANGED <<logged, thrown>>

(* Two seconds have passed: init() with an empty endpoint. *)
TimerFires ==
    /\ timer
    /\ ~initCalled
    /\ ~emitter
    /\ DoInit(FALSE)
    /\ UNCHANGED <<logged, thrown, inits>>

Next ==
    \/ \E e \in Events : Log(e) \/ Metric(e)
    \/ \E valid \in BOOLEAN : AppInit(valid)
    \/ TimerFires

Spec == Init /\ [][Next]_vars

(* A timer that is set fires; nothing is assumed of the application. *)
FairSpec == Spec /\ WF_vars(TimerFires)

-----------------------------------------------------------------------------
(* Properties. *)

(* Unless a replay threw: whatever the calls of init() and the timer do,   *)
(* every event is delivered or still buffered, once, in the order of the   *)
(* calls, those whose own call threw excepted.                             *)
Ledger ==
    ~stranded => [i \in DOMAIN delivered |-> delivered[i].event] \o buffer = logged

(* A buffered event leaves the buffer even if the application never calls  *)
(* init(), unless a replay throws.                                         *)
Drains ==
    \A e \in Events : e \in ToSet(buffer) ~> e \notin ToSet(buffer) \/ stranded

(* Once the addon has an instance events go to it, whatever the timer or   *)
(* an init() that failed did before, until init() is called again; and     *)
(* they go to the addon only if it has one.                                *)
NativeKept ==
    /\ native => instance
    /\ instance /\ ~native => again
=============================================================================
