-------------------------------- MODULE PySdk --------------------------------
(***************************************************************************)
(* The Python SDK (sdk-python/src/lib.rs): init(), the Logger objects and  *)
(* their bound attributes, spans, metrics and the bridge from the logging  *)
(* package.                                                                *)
(*                                                                         *)
(* The interpreter's lock is held for the whole of a call, so an action is *)
(* a call.  A call that fails raises and changes nothing else, except for  *)
(* init().  `last` is the last event that reached the engine.              *)
(***************************************************************************)
EXTENDS SdkConfig, EventRecord

CONSTANTS Endpoints, Sizes, Capacities, Tls, \* what init() is called with
          Keys,       \* keyword arguments that are used
          Strings,    \* their values that are str objects
          LogLevels,  \* bound: levels used with keyword arguments
          SpanIds,    \* the identities a span may get, one for each span
          MaxInits,   \* bound: calls of init() that get as far as the engine
          MaxObjects, \* bound: Logger and Span objects
          MaxHandlers \* bound: calls of patch_logging()

ASSUME PySdkAssumption ==
    /\ Sizes \subseteq Nat \cup {None} /\ Capacities \subseteq Nat \cup {None}
    /\ None \notin Nat /\ None \notin Endpoints /\ None \notin BOOLEAN
    /\ Tls \subseteq BOOLEAN \cup {None}
    /\ LogLevels \subseteq {Levels[n] : n \in DOMAIN Levels}
    /\ Strings \cap {"True", "broken"} = {}
    /\ MaxInits \in Nat /\ MaxObjects \in Nat /\ MaxHandlers \in Nat

VARIABLES
    runtime,  \* the calling thread is inside a tokio runtime
    instance, \* INSTANCE: the config of the Aires in it, or None
    workers,  \* the config of each worker task that was spawned
    loggers,  \* the Logger objects; the first is the module's `log`
    spans,    \* the Span objects
    handlers, \* AiresHandlers on the root logger
    last      \* history: the last event, and how it was asked for

vars == <<runtime, instance, workers, loggers, spans, handlers, last>>

(* A logger has its attributes; path, a history, is what was bound to it,  *)
(* innermost last.                                                         *)
Logger(base, path) == [base |-> base, path |-> path]

Init ==
    /\ runtime \in BOOLEAN
    /\ instance = None
    /\ workers = <<>>
    /\ loggers = <<Logger(<<>>, <<>>)>>
    /\ spans = <<>>
    /\ handlers = 0
    /\ last = None

-----------------------------------------------------------------------------
(* Keyword arguments.  An object is a str, the bool True, or one whose     *)
(* __str__ raises; the first two go by what str() makes of them.           *)
Objects == Strings \cup {"True", "broken"}
Kwargs  == {<<>>} \cup {k :> v : k \in Keys, v \in Objects}

Raises(kw) == \E k \in DOMAIN kw : kw[k] = "broken"

(* extract::<i64> comes before extract::<bool>, and a bool is an int.      *)
Extract(kw) == [k \in DOMAIN kw |-> IF kw[k] = "True" THEN "1" ELSE kw[k]]

(* with_, span and metric take a str as it is, and str() of the rest.      *)
Str(kw) == kw

(* The arms of the match on PROMOTED; the other promoted key goes to the   *)
(* attributes.                                                             *)
Matched == {"trace_id", "span_id", "session_id", "user_id", "subtrace_id"}

Bind(e, attrs) == SetAttrs(SetFields(e, Only(attrs, Matched)), Except(attrs, Matched))

(* emit_event; get_instance() has succeeded. *)
EmitEvent(op, level, base, extra) ==
    Row(Bind(Bind(LogEvent(instance, op, level), base), extra))

-----------------------------------------------------------------------------
(* init(). *)

InitOptions ==
    [service : {"app"}, endpoint : Endpoints, environment : {None},
     batch_size : Sizes, queue_capacity : Capacities, tls : Tls, api_key : {None}]

(* Option::None is no configuration. *)
ASSUME NoneAssumption == \A opts \in InitOptions : Config(Builder(opts)) # None

(* build() refuses (ValueError), or tokio::spawn finds no runtime and      *)
(* panics: init() may be called again.                                     *)
InitFails ==
    /\ \E opts \in InitOptions : ~Builds(Builder(opts)) \/ ~runtime
    /\ UNCHANGED vars

(* Mutant: the last init() wins. *)
InitReplaces ==
    /\ runtime
    /\ Len(workers) < MaxInits
    /\ \E opts \in InitOptions :
          /\ Builds(Builder(opts))
          /\ workers' = Append(workers, Config(Builder(opts)))
          /\ instance' = Config(Builder(opts))
    /\ UNCHANGED <<runtime, loggers, spans, handlers, last>>

(* from_config spawns a worker before INSTANCE.set is tried.  If it is set *)
(* already the new Aires is dropped and init() raises, but the task of its *)
(* worker goes on.                                                         *)
InitBuilds ==
    /\ runtime
    /\ Len(workers) < MaxInits
    /\ \E opts \in InitOptions :
          /\ Builds(Builder(opts))
          /\ workers' = Append(workers, Config(Builder(opts)))
          /\ instance' = IF instance = None THEN Config(Builder(opts)) ELSE instance
    /\ UNCHANGED <<runtime, loggers, spans, handlers, last>>

-----------------------------------------------------------------------------
(* Logger. *)

(* Mutant: what is bound already is kept. *)
WithKeeps(l, kw) ==
    /\ Len(loggers) + Len(spans) < MaxObjects
    /\ ~Raises(kw)
    /\ loggers' = Append(loggers, Logger(loggers[l].base @@ Str(kw),
                                         Append(loggers[l].path, Str(kw))))
    /\ UNCHANGED <<runtime, instance, workers, spans, handlers, last>>

With(l, kw) ==
    /\ Len(loggers) + Len(spans) < MaxObjects
    /\ ~Raises(kw)
    /\ loggers' = Append(loggers, Logger(Str(kw) @@ loggers[l].base,
                                         Append(loggers[l].path, Str(kw))))
    /\ UNCHANGED <<runtime, instance, workers, spans, handlers, last>>

(* trace() ... fatal(), and the logger itself, which is info().  Without   *)
(* an instance the call raises.                                            *)
Log(l, level, kw) ==
    /\ instance # None
    /\ ~Raises(kw)
    /\ last' = [span |-> 0, level |-> level, extra |-> Extract(kw),
                path |-> Append(loggers[l].path, Extract(kw)),
                row |-> EmitEvent("log", level, loggers[l].base, Extract(kw))]
    /\ UNCHANGED <<runtime, instance, workers, loggers, spans, handlers>>

(* metric(): every binding is an attribute. *)
Metric(l, kw) ==
    /\ instance # None
    /\ ~Raises(kw)
    /\ LET e == MetricEvent(instance, "m")
       IN  last' = [span |-> 0, level |-> "info", extra |-> Str(kw),
                    path |-> Append(loggers[l].path, Str(kw)),
                    row |-> Row(SetAttrs(SetAttrs(e, loggers[l].base), Str(kw)))]
    /\ UNCHANGED <<runtime, instance, workers, loggers, spans, handlers>>

(* span(): the caller's span_id wins over the fresh one, which wins over   *)
(* the logger's.  There is no Span if its first event cannot be sent.      *)
Span(l, kw) ==
    /\ instance # None
    /\ Len(loggers) + Len(spans) < MaxObjects
    /\ ~Raises(kw)
    /\ \E id \in SpanIds :
          /\ \A s \in DOMAIN spans : spans[s].id # id
          /\ LET attrs == Str(kw) @@ ("span_id" :> id) @@ loggers[l].base
                 path  == loggers[l].path \o <<"span_id" :> id, Str(kw)>>
                 row   == EmitEvent("span:start", "info", attrs, <<>>)
             IN  /\ spans' = Append(spans, [id |-> id, attrs |-> attrs, path |-> path,
                                            start |-> row])
                 /\ last' = [span |-> Len(spans) + 1, level |-> "info", extra |-> <<>>,
                             path |-> path, row |-> row]
    /\ UNCHANGED <<runtime, instance, workers, loggers, handlers>>

-----------------------------------------------------------------------------
(* Span. *)

SpanLog(s, kw) ==
    /\ ~Raises(kw)
    /\ last' = [span |-> s, level |-> "info", extra |-> Extract(kw),
                path |-> Append(spans[s].path, Extract(kw)),
                row |-> EmitEvent("log", "info", spans[s].attrs, Extract(kw))]
    /\ UNCHANGED <<runtime, instance, workers, loggers, spans, handlers>>

(* What end() adds to the attributes; the duration is "ms". *)
EndAttrs == [_span |-> "end", _span_name |-> "name", duration_ms |-> "ms"]

(* Mutant: the last event has the new attributes only. *)
SpanEndBare(s) ==
    /\ last' = [span |-> s, level |-> "info", extra |-> EndAttrs,
                path |-> Append(spans[s].path, EndAttrs),
                row |-> EmitEvent("span:end", "info", EndAttrs, <<>>)]
    /\ UNCHANGED <<runtime, instance, workers, loggers, spans, handlers>>

(* end(), which __exit__ calls too; nothing keeps it from being repeated.  *)
SpanEnd(s) ==
    /\ last' = [span |-> s, level |-> "info", extra |-> EndAttrs,
                path |-> Append(spans[s].path, EndAttrs),
                row |-> EmitEvent("span:end", "info", EndAttrs @@ spans[s].attrs, <<>>)]
    /\ UNCHANGED <<runtime, instance, workers, loggers, spans, handlers>>

-----------------------------------------------------------------------------
(* The logging package. *)

PatchLogging ==
    /\ handlers < MaxHandlers
    /\ handlers' = handlers + 1
    /\ UNCHANGED <<runtime, instance, workers, loggers, spans, last>>

(* AiresHandler.emit: thresholds at 50, 40, ... 10. *)
HandlerLevel(levelno) ==
    IF levelno >= 50 THEN "fatal" ELSE IF levelno >= 10 THEN Levels[levelno \div 10 + 1]
                                  ELSE "trace"

(* logging.log(levelno, ..): an event for each handler, through the        *)
(* module's logger.  Without an instance handleError() takes the           *)
(* exception.                                                              *)
LoggingCall(levelno) ==
    /\ handlers > 0
    /\ instance # None
    /\ last' = [span |-> 0, level |-> HandlerLevel(levelno), extra |-> <<>>, path |-> <<>>,
                row |-> EmitEvent("log", HandlerLevel(levelno), loggers[1].base, <<>>)]
    /\ UNCHANGED <<runtime, instance, workers, loggers, spans, handlers>>

-----------------------------------------------------------------------------
Next ==
    \/ InitFails \/ InitBuilds \/ PatchLogging
    \/ \E l \in DOMAIN loggers, kw \in Kwargs :
          With(l, kw) \/ Metric(l, kw) \/ Span(l, kw)
    \/ \E l \in DOMAIN loggers, kw \in Kwargs, level \in LogLevels : Log(l, level, kw)
    \/ \E s \in DOMAIN spans : SpanEnd(s) \/ \E kw \in Kwargs : SpanLog(s, kw)
    \/ \E levelno \in {0, 9, 10, 25, 30, 45, 50, 60} : LoggingCall(levelno)

Spec == Init /\ [][Next]_vars

-----------------------------------------------------------------------------
(* Properties. *)

(* Keys that are to have a field of their own: PROMOTED, and the known     *)
(* keys of usage.md.                                                       *)
Promised == Matched \cup {"parent_span_id", "agent_id", "category"}

(* Every event shows, for each key, the innermost value bound to it, by    *)
(* with_, by the span or by the call, in the column of that key or among   *)
(* the attributes, and nothing else; and the level it was logged at.  What *)
(* a log or span event has a column for is in no attribute.  Where a       *)
(* Promised key goes that the match leaves out, or that a metric has, is   *)
(* left open (see PromotedInColumns).                                      *)
Inherited ==
    last # None =>
        LET row     == last.row
            bound   == Bound(last.path)
            columns == IF row.op = "metric" THEN {} ELSE Matched
        IN  /\ row.severity = last.level
            /\ \A k \in DOMAIN row.attributes :
                  k \in bound \ columns /\ row.attributes[k] = Innermost(last.path, k)
            /\ \A k \in Promised :
                  \/ row[k] = ""
                  \/ k \in bound /\ row[k] = Innermost(last.path, k)
            /\ \A k \in bound :
                  \/ k \in DOMAIN row.attributes
                  \/ k \in Promised /\ row[k] = Innermost(last.path, k)

(* What the comment on PROMOTED says, and usage.md of the known keys: in   *)
(* a log or span event the value bound to such a key is in its field.      *)
PromotedInColumns ==
    last # None /\ last.row.op # "metric" =>
        \A k \in Promised \cap Bound(last.path) : last.row[k] = Innermost(last.path, k)

(* The events of a span agree with its first on every column and attribute *)
(* they do not set themselves.                                             *)
SpanFamily ==
    last # None /\ last.span # 0 =>
        LET start == spans[last.span].start
        IN  /\ \A f \in Fields \ DOMAIN last.extra : last.row[f] = start[f]
            /\ \A k \in DOMAIN start.attributes \ DOMAIN last.extra :
                  k \in DOMAIN last.row.attributes /\ last.row.attributes[k] = start.attributes[k]

(* Whatever init() is called with, and however often: each engine that     *)
(* starts has a configuration it can work with (what BatchWorker assumes), *)
(* and the events go to the first.                                         *)
EngineConfigured ==
    /\ \A i \in DOMAIN workers :
          /\ workers[i].batch_size \in Nat \ {0}
          /\ workers[i].queue_capacity \in Nat
          /\ workers[i].queue_capacity >= workers[i].batch_size
          /\ workers[i].tls \in BOOLEAN
    /\ instance = IF workers = <<>> THEN None ELSE workers[1]
=============================================================================
