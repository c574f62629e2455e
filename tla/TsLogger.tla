------------------------------ MODULE TsLogger ------------------------------
(***************************************************************************)
(* What an event of the TypeScript SDK says about where it was logged:     *)
(* scopes (AsyncLocalStorage), loggers with bound attributes, spans, the   *)
(* patched console and the Elysia plugin (sdk-ts/src/index.ts), and the    *)
(* way from attributes to a row (index.ts, native/src/lib.rs).             *)
(*                                                                         *)
(* JavaScript runs a function to its end, so an action is a call; between  *)
(* two calls any asynchronous context may run.  The requests of an Elysia  *)
(* application share its `store` object, and the hooks of one may run      *)
(* between two hooks of another.  TsSdk has the life cycle of the SDK;     *)
(* here init() is called once and loads the addon.  A trace identifier     *)
(* stands for the session identifier too, which travels with it.           *)
(***************************************************************************)
EXTENDS EventRecord

CONSTANTS Keys, Values, \* attributes that are used, and their values
          LogLevels,    \* bound: levels used with attributes
          SpanIds,      \* the identities a span may get, one for each span
          Requests,     \* requests; each is the name of its own trace
          MaxObjects,   \* bound: contexts, loggers and started requests
          MaxBuffered   \* bound: events logged before init()

ASSUME TsLoggerAssumption ==
    /\ MaxObjects \in Nat /\ MaxBuffered \in Nat
    /\ LogLevels \subseteq {Levels[n] : n \in DOMAIN Levels}

VARIABLES
    native,   \* init() has loaded the addon and set _emitter
    buffer,   \* _buffer
    contexts, \* asynchronous contexts, by the store they have; 1 has none
    loggers,  \* Logger functions, by their base; 1 is `log`
    spans,    \* SpanHandles
    patched,  \* patchConsole() has been called
    shared,   \* store._aires of the application: the trace in it
    requests, \* the requests of the application
    last      \* history: the last event the addon got, and where it is from

ownVars == <<contexts, loggers, spans, patched>>
appVars == <<shared, requests>>
vars == <<native, buffer, ownVars, appVars, last>>

(* Attributes, and a history: what was bound, innermost last.  A logger    *)
(* also has the span whose handle it belongs to, 0 if none.                *)
Empty == [attrs |-> <<>>, path |-> <<>>, span |-> 0]

(* A request's `log` has a trace; overlapped, a history: another request   *)
(* has arrived since this one did, or had when `log` was made.             *)
NewRequest == [stage |-> "new", overlapped |-> FALSE,
               log |-> [trace |-> "", overlapped |-> FALSE]]

Init ==
    /\ native = FALSE
    /\ buffer = <<>>
    /\ contexts = <<Empty>>
    /\ loggers = <<Empty>>
    /\ spans = <<>>
    /\ patched = FALSE
    /\ shared = ""
    /\ requests = [r \in Requests |-> NewRequest]
    /\ last = [op |-> "none"]

Started == {r \in Requests : requests[r].stage # "new"}
Room == Len(contexts) + Len(loggers) + Cardinality(Started) < MaxObjects

Attrs == {<<>>} \cup {k :> v : k \in Keys, v \in Values}

-----------------------------------------------------------------------------
(* From a raw event to a row. *)

PROMOTED == {"traceId", "spanId", "parentSpanId", "subtraceId", "sessionId", "userId"}

Config == [service |-> "app", environment |-> "production"]

(* The entries of attrs that have a column, under its name. *)
InColumns(attrs, column) ==
    LET keys == DOMAIN attrs \cap DOMAIN column
    IN  [f \in {column[k] : k \in keys} |-> attrs[CHOOSE k \in keys : column[k] = f]]

(* nativeOpts of any event, and what the emitter adds for log events.      *)
OptsColumns == [traceId |-> "trace_id", spanId |-> "span_id",
                sessionId |-> "session_id", userId |-> "user_id"]
LogColumns  == [_category |-> "category", kind |-> "kind", agentId |-> "agent_id"]

(* The emitter and the addon's trace() ... fatal(); the attributes keep    *)
(* the agentId.                                                            *)
EmitNative(ev) ==
    LET e == SetFields(LogEvent(Config, ev.op, ev.level),
                       InColumns(ev.attrs, LogColumns @@ OptsColumns))
    IN  Row(SetAttrs(e, Except(ev.attrs, PROMOTED \cup {"_category", "kind"})))

(* logger.metric and the addon's metric(). *)
MetricNative(ev) ==
    LET e == SetFields(MetricEvent(Config, "m"), InColumns(ev.attrs, OptsColumns))
    IN  Row(SetAttrs(e, Except(ev.attrs, PROMOTED \cup {"_metric", "_metricValue"})))

Shipped(ev, row) == [row |-> row] @@ ev

(* emit(): to the addon, or into the buffer until init(). *)
Emit(ev) ==
    IF native
    THEN last' = Shipped(ev, EmitNative(ev)) /\ UNCHANGED buffer
    ELSE /\ Len(buffer) < MaxBuffered
         /\ buffer' = Append(buffer, ev)
         /\ UNCHANGED last

(* init(): the buffer is replayed in order. *)
InitReplays ==
    /\ ~native
    /\ native' = TRUE
    /\ buffer' = <<>>
    /\ last' = IF buffer = <<>> THEN last
               ELSE LET ev == buffer[Len(buffer)] IN Shipped(ev, EmitNative(ev))
    /\ UNCHANGED <<ownVars, appVars>>

-----------------------------------------------------------------------------
(* Loggers. *)

(* Mutant: the scope wins over the logger. *)
ResolveScopeFirst(c, base, extra) == extra @@ contexts[c].attrs @@ base.attrs

(* resolve(): the current scope, under the logger, under the call. *)
Resolve(c, base, extra) == extra @@ base.attrs @@ contexts[c].attrs

(* The raw event.  request is the one that logs it, with the overlapped of *)
(* its trace.                                                              *)
RawFor(request, overlapped, op, level, c, base, extra) ==
    [op |-> op, level |-> level, attrs |-> Resolve(c, base, extra),
     path |-> contexts[c].path \o Append(base.path, extra), extra |-> extra,
     span |-> base.span, request |-> request, overlapped |-> overlapped]
Raw(op, level, c, base, extra) == RawFor("", FALSE, op, level, c, base, extra)

(* log.trace() ... log.fatal(), and log() itself. *)
Log(c, l, level, extra) ==
    /\ Emit(Raw("log", level, c, loggers[l], extra))
    /\ UNCHANGED <<native, ownVars, appVars>>

(* log.metric(): without the addon a log event with special attributes.    *)
Metric(c, l, extra) ==
    /\ IF native
       THEN LET ev == Raw("metric", "info", c, loggers[l], extra)
            IN  last' = Shipped(ev, MetricNative(ev)) /\ UNCHANGED buffer
       ELSE Emit(Raw("log", "info", c, loggers[l],
                     [_metric |-> "m", _metricValue |-> "1"] @@ extra))
    /\ UNCHANGED <<native, ownVars, appVars>>

(* log.with(). *)
With(l, attrs) ==
    /\ Room
    /\ loggers' = Append(loggers, [attrs |-> attrs @@ loggers[l].attrs, span |-> 0,
                                   path |-> Append(loggers[l].path, attrs)])
    /\ UNCHANGED <<native, buffer, contexts, spans, patched, appVars, last>>

(* log.scope(): fn, and all it starts, runs in a new context. *)
Scope(c, l, attrs) ==
    /\ Room
    /\ contexts' = Append(contexts,
           [attrs |-> Resolve(c, loggers[l], attrs), span |-> 0,
            path |-> contexts[c].path \o Append(loggers[l].path, attrs)])
    /\ UNCHANGED <<native, buffer, loggers, spans, patched, appVars, last>>

-----------------------------------------------------------------------------
(* Spans. *)

(* Mutant: the spanId of the logger or of the caller is kept. *)
MergedKeepsId(base, attrs, id) == attrs @@ base @@ ("spanId" :> id)

(* `merged`: the fresh spanId lies over everything. *)
Merged(base, attrs, id) == ("spanId" :> id) @@ attrs @@ base

(* log.span(): the first event, and the handle with its logger. *)
Span(c, l, attrs) ==
    /\ Room
    /\ \E id \in SpanIds :
          /\ \A s \in DOMAIN spans : spans[s].id # id
          /\ LET handle == [attrs |-> Merged(loggers[l].attrs, attrs, id),
                            path |-> loggers[l].path \o <<attrs, "spanId" :> id>>,
                            span |-> Len(spans) + 1]
             IN  /\ spans' = Append(spans, [id |-> id, log |-> Len(loggers) + 1])
                 /\ loggers' = Append(loggers, handle)
                 /\ Emit(Raw("log", "info", c, handle, [_span |-> "start", _spanName |-> "s"]))
    /\ UNCHANGED <<native, contexts, patched, appVars>>

(* handle.end(), from whatever context calls it, as often as it is called. *)
SpanEnd(c, s) ==
    /\ Emit(Raw("log", "info", c, loggers[spans[s].log],
                [_span |-> "end", _spanName |-> "s", durationMs |-> "1"]))
    /\ UNCHANGED <<native, ownVars, appVars>>

-----------------------------------------------------------------------------
(* The console. *)

PatchConsole ==
    /\ patched' = TRUE
    /\ UNCHANGED <<native, buffer, contexts, loggers, spans, appVars, last>>

Console(c, method) ==
    /\ patched
    /\ Emit(Raw("log", IF method = "log" THEN "info" ELSE method, c, loggers[1],
                [_source |-> method]))
    /\ UNCHANGED <<native, ownVars, appVars>>

-----------------------------------------------------------------------------
(* The Elysia plugin. *)

(* Mutant: store._aires is written only if it is not there. *)
ArriveOnce(r) ==
    /\ requests[r].stage = "new" /\ Room
    /\ shared' = IF shared = "" THEN r ELSE shared
    /\ requests' = [q \in Requests |->
          IF q = r THEN [NewRequest EXCEPT !.stage = "arrived"]
                   ELSE [requests[q] EXCEPT !.overlapped = TRUE]]
    /\ UNCHANGED <<native, buffer, ownVars, last>>

(* onRequest: the trace of the request's header, or a fresh one. *)
Arrive(r) ==
    /\ requests[r].stage = "new" /\ Room
    /\ shared' = r
    /\ requests' = [q \in Requests |->
          IF q = r THEN [NewRequest EXCEPT !.stage = "arrived"]
                   ELSE [requests[q] EXCEPT !.overlapped = TRUE]]
    /\ UNCHANGED <<native, buffer, ownVars, last>>

(* derive and onBeforeHandle: the logger is made from the store as it is   *)
(* now.  The scope that onBeforeHandle enters is left when its callback    *)
(* returns, so the handler runs in a context without.                      *)
Derive(r) ==
    /\ requests[r].stage = "arrived"
    /\ requests' = [requests EXCEPT ![r].stage = "derived",
           ![r].log = [trace |-> shared, overlapped |-> requests[r].overlapped]]
    /\ UNCHANGED <<native, buffer, ownVars, shared, last>>

(* The handler uses its `log`; what it does with the module's is Log.      *)
HandlerLog(r, level, extra) ==
    /\ requests[r].stage = "derived"
    /\ LET base == [Empty EXCEPT !.attrs = "traceId" :> requests[r].log.trace,
                                 !.path = <<"traceId" :> requests[r].log.trace>>]
       IN  Emit(RawFor(r, requests[r].log.overlapped, "log", level, 1, base, extra))
    /\ UNCHANGED <<native, ownVars, appVars>>

(* onAfterHandle, or onError: they read the store again. *)
Finish(r, level) ==
    /\ requests[r].stage \in (IF level = "error" THEN {"arrived", "derived"} ELSE {"derived"})
    /\ requests' = [requests EXCEPT ![r].stage = "done"]
    /\ Emit(RawFor(r, requests[r].overlapped, "log", level, 1, loggers[1],
                   [traceId |-> shared, _category |-> "http"]))
    /\ UNCHANGED <<native, ownVars, shared>>

-----------------------------------------------------------------------------
Next ==
    \/ InitReplays \/ PatchConsole
    \/ \E c \in DOMAIN contexts, l \in DOMAIN loggers, attrs \in Attrs :
          \/ \E level \in LogLevels : Log(c, l, level, attrs)
          \/ Metric(c, l, attrs) \/ Scope(c, l, attrs) \/ Span(c, l, attrs)
    \/ \E l \in DOMAIN loggers, attrs \in Attrs : With(l, attrs)
    \/ \E c \in DOMAIN contexts, s \in DOMAIN spans : SpanEnd(c, s)
    \/ \E c \in DOMAIN contexts, method \in {"log", "debug", "info", "warn", "error"} :
          Console(c, method)
    \/ \E r \in Requests : Arrive(r) \/ Derive(r)
    \/ \E r \in Requests, level \in LogLevels, attrs \in Attrs : HandlerLog(r, level, attrs)
    \/ \E r \in Requests, level \in {"info", "error"} : Finish(r, level)

Spec == Init /\ [][Next]_vars

-----------------------------------------------------------------------------
(* Properties. *)

Shown == last.op # "none"

(* The promoted keys go to fields of the event of these names, says the    *)
(* comment on PROMOTED; nativeOpts passes only those of OptsColumns on.    *)
ProtoField == [parentSpanId |-> "parent_span_id", subtraceId |-> "subtrace_id"] @@ OptsColumns

NotPassed == PROMOTED \ DOMAIN OptsColumns

(* Every row holds the innermost value bound to each key where the event   *)
(* was logged, by scope, logger, span or call, however the contexts        *)
(* interleave and whether it was shipped at once or replayed later; it     *)
(* holds nothing else.  Of the promoted keys that are not passed on it     *)
(* asks only that they come from a binding (see PromotedInColumns).  A     *)
(* metric keeps the keys of its fallback to itself.                        *)
Carried ==
    Shown =>
        LET row    == last.row
            bound  == Bound(last.path)
            metric == row.op = "metric"
            column == IF metric THEN OptsColumns ELSE LogColumns @@ OptsColumns
            hidden == PROMOTED \cup (IF metric THEN {"_metric", "_metricValue"} ELSE {})
            inCol  == bound \cap DOMAIN column
            inAttr == (bound \ (inCol \cup hidden)) \cup (inCol \cap {"agentId"})
        IN  /\ row.severity = last.level
            /\ \A k \in inCol : row[column[k]] = Innermost(last.path, k)
            /\ \A k \in DOMAIN column \ (bound \cup {"kind"}) : row[column[k]] = ""
            /\ DOMAIN row.attributes \ (bound \cap NotPassed) = inAttr
            /\ \A k \in inAttr : row.attributes[k] = Innermost(last.path, k)
            /\ \A k \in NotPassed :
                  \/ row[ProtoField[k]] = ""
                  \/ k \in bound /\ row[ProtoField[k]] = Innermost(last.path, k)

(* What the comment on PROMOTED says: a promoted key that is bound where   *)
(* an event is logged is in its field of the row.                          *)
PromotedInColumns ==
    Shown =>
        \A k \in PROMOTED \cap Bound(last.path) :
            last.row[ProtoField[k]] = Innermost(last.path, k)

(* The start, the end and the log events of a span carry its spanId, from  *)
(* whatever scope they are logged, unless the call itself gives another.   *)
(* Spans started from a span's logger have their own.                      *)
SpanIdCarried ==
    Shown /\ last.span # 0 /\ "spanId" \notin DOMAIN last.extra
        => last.row.span_id = spans[last.span].id

(* The events of the Elysia plugin carry the trace of their own request,   *)
(* unless another request arrived before the trace was read, or the call   *)
(* itself gives another.                                                   *)
TraceUnlessOverlapped ==
    Shown /\ last.request # "" =>
        \/ last.row.trace_id = last.request
        \/ last.overlapped
        \/ "traceId" \in DOMAIN last.extra /\ last.extra.traceId \in Values
=============================================================================
