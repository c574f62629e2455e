------------------------------ MODULE Promotion ------------------------------
(***************************************************************************)
(* Two services on the path of one request, the first with the TypeScript  *)
(* SDK and the second with the Python SDK.  Each logs it with the trace    *)
(* context that came along, under the keys its SDK is to give a field of   *)
(* the event.  Both SDKs are those of TsLogger and PySdk.                  *)
(***************************************************************************)
CONSTANTS None, \* Option::None, of PySdk
          Ids   \* identifiers, and the names of agents and categories

VARIABLES
    native, buffer, contexts, loggers, spans, patched, shared, requests, last,
    runtime, instance, workers, pyLoggers, pySpans, handlers, pyLast

Ts == INSTANCE TsLogger
      WITH Keys <- {}, Values <- Ids, LogLevels <- {"info"}, SpanIds <- {},
           Requests <- {}, MaxObjects <- 0, MaxBuffered <- 0

Py == INSTANCE PySdk
      WITH Https <- {"https"}, Endpoints <- {"https"}, Sizes <- {None},
           Capacities <- {None}, Tls <- {None}, Keys <- {}, Strings <- Ids,
           LogLevels <- {"info"}, SpanIds <- {}, MaxInits <- 1, MaxObjects <- 0,
           MaxHandlers <- 0,
           loggers <- pyLoggers, spans <- pySpans, last <- pyLast

tsVars == <<native, buffer, contexts, loggers, spans, patched, shared, requests, last>>
pyVars == <<runtime, instance, workers, pyLoggers, pySpans, handlers, pyLast>>
vars   == <<tsVars, pyVars>>

Init == Ts!Init /\ Py!Init

(* Either service starts. *)
Start ==
    \/ Ts!InitReplays /\ UNCHANGED pyVars
    \/ Py!InitBuilds /\ UNCHANGED tsVars

(* A request comes by: log.info() of the module's logger, in each.         *)
Request(id) ==
    /\ native
    /\ Ts!Log(1, 1, "info", [traceId |-> id, parentSpanId |-> id, subtraceId |-> id])
    /\ Py!Log(1, "info", [trace_id |-> id, parent_span_id |-> id, agent_id |-> id,
                          category |-> id])

Next == Start \/ \E id \in Ids : Request(id)

Spec == Init /\ [][Next]_vars

(* The comments on PROMOTED and the documentation of either SDK promise    *)
(* that what is bound to a promoted key is in its field.  Only one of the  *)
(* SDKs is asked to keep it, so that a counterexample refutes both.        *)
PromotedInColumns == Ts!PromotedInColumns \/ Py!PromotedInColumns
=============================================================================
