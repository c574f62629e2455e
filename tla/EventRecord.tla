----------------------------- MODULE EventRecord -----------------------------
(***************************************************************************)
(* What an event is: the record an EventBuilder of the Rust SDK makes      *)
(* (sdk-rust/src/event.rs) and the row the collector inserts for it        *)
(* (transform.ex, store.ex).                                               *)
(*                                                                         *)
(* Strings; "" is the protobuf default of an unset field.  A map is a      *)
(* function, and f @@ g is f laid over g.  The identity, the timestamps    *)
(* and the text of the message are left out; `op` says which call made     *)
(* the event.  Only the fields the bindings can set are columns here.      *)
(***************************************************************************)
EXTENDS Naturals, Sequences, FiniteSetsExt

(* The operators of module TLC, of which the provers know no definition.   *)
k :> v == [x \in {k} |-> v]
f @@ g == [x \in DOMAIN f \cup DOMAIN g |-> IF x \in DOMAIN f THEN f[x] ELSE g[x]]

Levels == <<"trace", "debug", "info", "warn", "error", "fatal">>

(* Severity::to_proto: the number of the enum of aires.proto. *)
to_proto(level) == CHOOSE n \in DOMAIN Levels : Levels[n] = level

(* Transform.severity_to_string; 0 is SEVERITY_UNSPECIFIED.                *)
severity_to_string(n) == IF n \in DOMAIN Levels THEN Levels[n] ELSE "unspecified"

(* The setters that store a string. *)
Fields == {"trace_id", "span_id", "parent_span_id", "subtrace_id", "session_id",
           "user_id", "agent_id", "category", "kind"}

Blank == [f \in Fields |-> ""]

(* EventBuilder::new and EventBuilder::metric, for an SDK with this config. *)
LogEvent(config, op, level) ==
    [op |-> op, service |-> config.service, environment |-> config.environment,
     severity |-> to_proto(level), metric |-> "", attributes |-> <<>>]
    @@ [Blank EXCEPT !.kind = "log"]
MetricEvent(config, name) ==
    [op |-> "metric", service |-> config.service, environment |-> config.environment,
     severity |-> to_proto("info"), metric |-> name, attributes |-> <<>>]
    @@ [Blank EXCEPT !.kind = "metric"]

(* .trace_id(..) and the like, one for each entry; .attr(..) likewise. *)
SetFields(e, m) == m @@ e
SetAttrs(e, m)  == [e EXCEPT !.attributes = m @@ @]

Only(m, keys)   == [k \in DOMAIN m \cap keys |-> m[k]]
Except(m, keys) == [k \in DOMAIN m \ keys |-> m[k]]

(* Transform.event_to_row, and the columns of Store.do_insert: the enum    *)
(* becomes a name, and the language of the SDK is not asked for.           *)
Row(e) == [e EXCEPT !.severity = severity_to_string(@)] @@ [sdk_language |-> "rust"]

-----------------------------------------------------------------------------
(* A reference for layered maps: path is a sequence of maps, innermost     *)
(* last.                                                                   *)
Bound(path)        == UNION {DOMAIN path[i] : i \in DOMAIN path}
Innermost(path, k) == path[Max({i \in DOMAIN path : k \in DOMAIN path[i]})][k]
=============================================================================
