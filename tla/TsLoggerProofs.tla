--------------------------- MODULE TsLoggerProofs ---------------------------
(***************************************************************************)
(* What is proved of the loggers of the TypeScript SDK, for all attributes *)
(* and any number of contexts, loggers, spans and buffered events.         *)
(***************************************************************************)
EXTENDS TsLogger, EventRecordProofs

(* A logger of a span has its id bound. *)
Fits(base, spns) ==
    base.span # 0 =>
        /\ base.span \in DOMAIN spns
        /\ "spanId" \in DOMAIN base.attrs /\ base.attrs["spanId"] = spns[base.span].id

(* So has an event, unless the call binds another. *)
Carries(ev, spns) ==
    /\ {"span", "extra"} \subseteq DOMAIN ev
    /\ ev.span # 0 /\ "spanId" \notin DOMAIN ev.extra =>
          /\ ev.span \in DOMAIN spns
          /\ "spanId" \in DOMAIN ev.attrs /\ ev.attrs["spanId"] = spns[ev.span].id

SpansFit ==
    /\ IsSeq(spans)
    /\ \A s \in DOMAIN spans :
          /\ spans[s].log \in DOMAIN loggers /\ loggers[spans[s].log].span = s

LoggersFit ==
    /\ IsSeq(loggers)
    /\ 1 \in DOMAIN loggers
    /\ \A l \in DOMAIN loggers : Fits(loggers[l], spans)

BufferFits ==
    /\ IsSeq(buffer)
    /\ \A i \in DOMAIN buffer : Carries(buffer[i], spans)

LastFits ==
    Shown /\ last.span # 0 /\ "spanId" \notin DOMAIN last.extra =>
        last.span \in DOMAIN spans /\ last.row.span_id = spans[last.span].id

SpanInv == SpansFit /\ LoggersFit /\ BufferFits /\ LastFits

(* Spans are only added. *)
Grows(spns, more) ==
    DOMAIN spns \subseteq DOMAIN more /\ \A s \in DOMAIN spns : more[s] = spns[s]

LEMMA GrowsFits ==
    ASSUME NEW spns, NEW more, Grows(spns, more)
    PROVE  /\ \A base : Fits(base, spns) => Fits(base, more)
           /\ \A ev : Carries(ev, spns) => Carries(ev, more)
BY DEF Grows, Fits, Carries

-----------------------------------------------------------------------------
(* From the attributes to the row. *)

(* The columns are different ones, and the setters know them; parentSpanId *)
(* and subtraceId have none.                                               *)
LEMMA ColumnsKnown ==
    ASSUME NEW column \in {OptsColumns, LogColumns @@ OptsColumns}
    PROVE  /\ \A k, l \in DOMAIN column : column[k] = column[l] => k = l
           /\ \A k \in DOMAIN column :
                 /\ column[k] \in Fields \ {"parent_span_id", "subtrace_id"}
                 /\ column[k] = "kind" => k = "kind"
           /\ {"spanId", "traceId"} \subseteq DOMAIN column
           /\ column["spanId"] = "span_id" /\ column["traceId"] = "trace_id"
<1>1. /\ DOMAIN OptsColumns = {"traceId", "spanId", "sessionId", "userId"}
      /\ OptsColumns["spanId"] = "span_id" /\ OptsColumns["traceId"] = "trace_id"
      /\ OptsColumns["sessionId"] = "session_id" /\ OptsColumns["userId"] = "user_id"
  BY DEF OptsColumns
<1>2. /\ DOMAIN LogColumns = {"_category", "kind", "agentId"}
      /\ LogColumns["_category"] = "category" /\ LogColumns["kind"] = "kind"
      /\ LogColumns["agentId"] = "agent_id"
  BY DEF LogColumns
<1>3. CASE column = OptsColumns
  BY <1>1, <1>3 DEF Fields
<1>4. CASE column = LogColumns @@ OptsColumns
  <2>1. /\ DOMAIN column = DOMAIN LogColumns \cup DOMAIN OptsColumns
        /\ \A k \in DOMAIN column :
              column[k] = IF k \in DOMAIN LogColumns THEN LogColumns[k] ELSE OptsColumns[k]
    BY <1>4 DEF @@
  <2>2. /\ DOMAIN column = {"_category", "kind", "agentId",
                            "traceId", "spanId", "sessionId", "userId"}
        /\ column["_category"] = "category" /\ column["kind"] = "kind"
        /\ column["agentId"] = "agent_id"
        /\ column["spanId"] = "span_id" /\ column["traceId"] = "trace_id"
        /\ column["sessionId"] = "session_id" /\ column["userId"] = "user_id"
    BY <1>1, <1>2, <2>1
  <2> QED
    BY <2>2 DEF Fields
<1> QED
  BY <1>3, <1>4

(* A row with these attributes, of which some have a column and some are   *)
(* hidden.                                                                 *)
Shows(row, attrs, column, hidden) ==
    /\ \A k \in DOMAIN attrs \cap DOMAIN column : row[column[k]] = attrs[k]
    /\ \A k \in DOMAIN column \ (DOMAIN attrs \cup {"kind"}) : row[column[k]] = ""
    /\ row.parent_span_id = "" /\ row.subtrace_id = ""
    /\ DOMAIN row.attributes = DOMAIN attrs \ hidden
    /\ \A k \in DOMAIN row.attributes : row.attributes[k] = attrs[k]

LEMMA InColumnsShow ==
    ASSUME NEW attrs, NEW column, \A k, l \in DOMAIN column : column[k] = column[l] => k = l
    PROVE  LET m == InColumns(attrs, column)
           IN  /\ DOMAIN m = {column[k] : k \in DOMAIN attrs \cap DOMAIN column}
               /\ \A k \in DOMAIN attrs \cap DOMAIN column : m[column[k]] = attrs[k]
<1> DEFINE keys == DOMAIN attrs \cap DOMAIN column
           m    == InColumns(attrs, column)
<1>1. m = [f \in {column[k] : k \in keys} |-> attrs[CHOOSE k \in keys : column[k] = f]]
  BY DEF InColumns
<1>2. ASSUME NEW k \in keys PROVE m[column[k]] = attrs[k]
  <2>1. (CHOOSE l \in keys : column[l] = column[k]) = k
    OBVIOUS
  <2> QED
    BY <1>1, <2>1
<1> QED
  BY <1>1, <1>2

LEMMA BuilderShows ==
    ASSUME NEW e, NEW op, NEW level, NEW kind, Blanks(e, op, level, kind),
           NEW column \in {OptsColumns, LogColumns @@ OptsColumns}, NEW attrs, NEW hidden, NEW row,
           row = Row(SetAttrs(SetFields(e, InColumns(attrs, column)), Except(attrs, hidden)))
    PROVE  /\ Shows(row, attrs, column, hidden)
           /\ row.op = op /\ row.severity = severity_to_string(to_proto(level))
<1> DEFINE m == InColumns(attrs, column)
           s == SetFields(e, m)
           x == SetAttrs(s, Except(attrs, hidden))
<1>1. /\ DOMAIN m = {column[k] : k \in DOMAIN attrs \cap DOMAIN column}
      /\ \A k \in DOMAIN attrs \cap DOMAIN column : m[column[k]] = attrs[k]
  <2>1. \A k, l \in DOMAIN column : column[k] = column[l] => k = l
    BY ColumnsKnown
  <2> QED
    BY <2>1, InColumnsShow
<1> HIDE DEF m
<1>2. DOMAIN m \subseteq Fields \ {"parent_span_id", "subtrace_id"}
  BY <1>1, ColumnsKnown
<1>3. /\ IsEvent(e) /\ e.op = op /\ e.severity = to_proto(level) /\ e.attributes = <<>>
      /\ \A f \in Fields : e[f] = IF f = "kind" THEN kind ELSE ""
  BY DEF Blanks
<1>4. /\ IsEvent(s) /\ \A k \in Fixed \cup {"attributes"} : s[k] = e[k]
      /\ \A f \in Fields : s[f] = IF f \in DOMAIN m THEN m[f] ELSE e[f]
  BY <1>2, <1>3, SetFieldsKeeps
<1> HIDE DEF s
<1>5. /\ IsEvent(x) /\ \A k \in Fixed \cup Fields : x[k] = s[k]
      /\ x.attributes = Except(attrs, hidden) @@ s.attributes
  BY <1>4, SetAttrsKeeps
<1>6. row = Row(x)
  BY DEF x, s, m
<1> HIDE DEF x
<1>7. /\ \A k \in Fields \cup {"op", "attributes"} : row[k] = x[k]
      /\ row.severity = severity_to_string(x.severity)
  BY <1>5, <1>6, RowKeeps
<1>8. \A f \in Fields : row[f] = IF f \in DOMAIN m THEN m[f]
                                 ELSE IF f = "kind" THEN kind ELSE ""
  BY <1>3, <1>4, <1>5, <1>7, ZenonT(30)
<1>9. \A k \in DOMAIN attrs \cap DOMAIN column : row[column[k]] = attrs[k]
  BY <1>1, <1>8, ColumnsKnown, ZenonT(30)
<1>10. ASSUME NEW k \in DOMAIN column \ (DOMAIN attrs \cup {"kind"}) PROVE row[column[k]] = ""
  <2>1. column[k] \in Fields /\ column[k] # "kind"
    BY <1>10, ColumnsKnown
  <2>2. column[k] \notin DOMAIN m
    BY <1>1, <1>10, ColumnsKnown
  <2> QED
    BY <1>8, <2>1, <2>2
<1>11. row.parent_span_id = "" /\ row.subtrace_id = ""
  BY <1>2, <1>8 DEF Fields
<1> DEFINE none == e.attributes
           kept == Except(attrs, hidden)
<1>12. DOMAIN none = {}
  <2>1. DOMAIN <<>> = {}
    OBVIOUS
  <2> QED
    BY <1>3, <2>1, Zenon
<1>13. DOMAIN kept = DOMAIN attrs \ hidden /\ \A k \in DOMAIN kept : kept[k] = attrs[k]
  BY DEF Except
<1>14. row.attributes = kept @@ none
  BY <1>4, <1>5, <1>7
<1> HIDE DEF none, kept
<1>15. DOMAIN row.attributes = DOMAIN kept /\ \A k \in DOMAIN kept : row.attributes[k] = kept[k]
  BY <1>12, <1>14 DEF @@
<1>16. row.op = op /\ row.severity = severity_to_string(to_proto(level))
  BY <1>3, <1>4, <1>5, <1>7 DEF Fixed
<1> QED
  BY <1>9, <1>10, <1>11, <1>13, <1>15, <1>16 DEF Shows

LogHidden    == PROMOTED \cup {"_category", "kind"}
MetricHidden == PROMOTED \cup {"_metric", "_metricValue"}

LEMMA NativeShows ==
    ASSUME NEW ev
    PROVE  /\ Shows(EmitNative(ev), ev.attrs, LogColumns @@ OptsColumns, LogHidden)
           /\ EmitNative(ev).op = ev.op
           /\ EmitNative(ev).severity = severity_to_string(to_proto(ev.level))
           /\ Shows(MetricNative(ev), ev.attrs, OptsColumns, MetricHidden)
           /\ MetricNative(ev).op = "metric"
           /\ MetricNative(ev).severity = severity_to_string(to_proto("info"))
<1> DEFINE long == LogColumns @@ OptsColumns
           log == LogEvent(Config, ev.op, ev.level)
           metric == MetricEvent(Config, "m")
<1>1. Blanks(log, ev.op, ev.level, "log") /\ Blanks(metric, "metric", "info", "metric")
  BY NewEvents
<1>2. EmitNative(ev) = Row(SetAttrs(SetFields(log, InColumns(ev.attrs, long)),
                                    Except(ev.attrs, LogHidden)))
  BY DEF EmitNative, LogHidden
<1>3. MetricNative(ev) = Row(SetAttrs(SetFields(metric, InColumns(ev.attrs, OptsColumns)),
                                      Except(ev.attrs, MetricHidden)))
  BY DEF MetricNative, MetricHidden
<1>4. long \in {OptsColumns, LogColumns @@ OptsColumns}
  OBVIOUS
<1> HIDE DEF long, log, metric
<1>5. /\ Shows(EmitNative(ev), ev.attrs, long, LogHidden)
      /\ EmitNative(ev).op = ev.op
      /\ EmitNative(ev).severity = severity_to_string(to_proto(ev.level))
  BY <1>1, <1>2, <1>4, BuilderShows
<1>6. /\ Shows(MetricNative(ev), ev.attrs, OptsColumns, MetricHidden)
      /\ MetricNative(ev).op = "metric"
      /\ MetricNative(ev).severity = severity_to_string(to_proto("info"))
  BY <1>1, <1>3, BuilderShows
<1> QED
  BY <1>5, <1>6 DEF long

(* The columns of the span and of the trace are filled by either way. *)
LEMMA NativeRow ==
    ASSUME NEW ev, NEW row \in {EmitNative(ev), MetricNative(ev)}
    PROVE  /\ "spanId" \in DOMAIN ev.attrs => row.span_id = ev.attrs["spanId"]
           /\ "traceId" \in DOMAIN ev.attrs => row.trace_id = ev.attrs["traceId"]
<1>1. PICK column, hidden : column \in {OptsColumns, LogColumns @@ OptsColumns} /\
          Shows(row, ev.attrs, column, hidden)
  BY NativeShows
<1> QED
  BY <1>1, ColumnsKnown DEF Shows

LEMMA ShippedFits ==
    ASSUME NEW ev, Carries(ev, spans)', NEW row \in {EmitNative(ev), MetricNative(ev)},
           last' = Shipped(ev, row)
    PROVE  LastFits'
<1>1. last'.span = ev.span /\ last'.extra = ev.extra /\ last'.row = row
  BY DEF Shipped, Carries, @@
<1>2. "spanId" \in DOMAIN ev.attrs => row.span_id = ev.attrs["spanId"]
  BY NativeRow
<1> QED
  BY <1>1, <1>2 DEF LastFits, Carries

(* An event goes out, or waits. *)
LEMMA EmitFits ==
    ASSUME BufferFits, LastFits, Grows(spans, spans'), NEW ev, Carries(ev, spans'), Emit(ev)
    PROVE  BufferFits' /\ LastFits'
<1>1. CASE native
  <2>1. LastFits'
    BY <1>1, ShippedFits DEF Emit
  <2> QED
    BY <1>1, <2>1, GrowsFits DEF Emit, BufferFits
<1>2. CASE ~native
  <2>1. buffer' = Append(buffer, ev) /\ UNCHANGED last
    BY <1>2 DEF Emit
  <2>2. LastFits'
    BY <2>1 DEF LastFits, Grows, Shown
  <2>3. OneMore(buffer, buffer', ev)
    BY <2>1, AppendAny DEF BufferFits
  <2>4. \A i \in DOMAIN buffer : Carries(buffer[i], spans')
    BY GrowsFits DEF BufferFits
  <2> QED
    BY <2>2, <2>3, <2>4 DEF BufferFits, OneMore
<1> QED
  BY <1>1, <1>2

LEMMA RawCarries ==
    ASSUME NEW request, NEW overlapped, NEW op, NEW level, NEW c, NEW base, NEW extra,
           NEW spns, Fits(base, spns)
    PROVE  Carries(RawFor(request, overlapped, op, level, c, base, extra), spns)
<1> DEFINE ev == RawFor(request, overlapped, op, level, c, base, extra)
           attrs == (extra @@ base.attrs) @@ contexts[c].attrs
<1>1. /\ {"span", "extra"} \subseteq DOMAIN ev
      /\ ev.span = base.span /\ ev.extra = extra /\ ev.attrs = attrs
  BY DEF RawFor, Resolve
<1>2. "spanId" \in DOMAIN base.attrs /\ "spanId" \notin DOMAIN extra
          => "spanId" \in DOMAIN attrs /\ attrs["spanId"] = base.attrs["spanId"]
  BY DEF @@
<1> HIDE DEF ev, attrs
<1> QED
  BY <1>1, <1>2 DEF Fits, Carries, ev

-----------------------------------------------------------------------------
(* The steps. *)
LEMMA LogSteps ==
    ASSUME SpanInv, UNCHANGED <<loggers, spans>>,
           NEW request, NEW overlapped, NEW op, NEW level, NEW c, NEW base, NEW extra,
           Fits(base, spans), Emit(RawFor(request, overlapped, op, level, c, base, extra))
    PROVE  SpanInv'
<1>1. Grows(spans, spans')
  BY DEF Grows
<1>2. Carries(RawFor(request, overlapped, op, level, c, base, extra), spans')
  BY RawCarries
<1>3. BufferFits' /\ LastFits'
  BY <1>1, <1>2, EmitFits DEF SpanInv
<1> QED
  BY <1>3 DEF SpanInv, SpansFit, LoggersFit

LEMMA SpanStep ==
    ASSUME SpanInv, NEW c, NEW l, NEW attrs, Span(c, l, attrs)
    PROVE  SpanInv'
<1>1. PICK id, path :
          LET handle == [attrs |-> Merged(loggers[l].attrs, attrs, id), path |-> path,
                         span |-> Len(spans) + 1]
          IN  /\ spans' = Append(spans, [id |-> id, log |-> Len(loggers) + 1])
              /\ loggers' = Append(loggers, handle)
              /\ Emit(Raw("log", "info", c, handle, [_span |-> "start", _spanName |-> "s"]))
  BY DEF Span
<1> DEFINE merged == Merged(loggers[l].attrs, attrs, id)
           handle == [attrs |-> merged, path |-> path, span |-> Len(spans) + 1]
           new    == [id |-> id, log |-> Len(loggers) + 1]
<1>2. "spanId" \in DOMAIN merged /\ merged["spanId"] = id
  BY DEF Merged, @@, :>
<1>3. /\ handle.attrs = merged /\ handle.span = Len(spans) + 1
      /\ new.id = id /\ new.log = Len(loggers) + 1
  OBVIOUS
<1>4. spans' = Append(spans, new) /\ loggers' = Append(loggers, handle)
  BY <1>1
<1>5. Emit(RawFor("", FALSE, "log", "info", c, handle, [_span |-> "start", _spanName |-> "s"]))
  BY <1>1 DEF Raw
<1> HIDE DEF merged, handle, new
<1>6. OneMore(spans, spans', new)
  BY <1>4, AppendAny DEF SpanInv, SpansFit
<1>7. OneMore(loggers, loggers', handle)
  BY <1>4, AppendAny DEF SpanInv, LoggersFit
<1>8. Fits(handle, spans')
  BY <1>2, <1>3, <1>6 DEF Fits, OneMore
<1>9. Grows(spans, spans')
  BY <1>6 DEF Grows, OneMore
<1>10. LoggersFit'
  BY <1>7, <1>8, <1>9, GrowsFits DEF SpanInv, LoggersFit, OneMore
<1>11. SpansFit'
  BY <1>3, <1>6, <1>7 DEF SpanInv, SpansFit, OneMore
<1>12. BufferFits' /\ LastFits'
  BY <1>5, <1>8, <1>9, RawCarries, EmitFits DEF SpanInv
<1> QED
  BY <1>10, <1>11, <1>12 DEF SpanInv

LEMMA WithStep ==
    ASSUME SpanInv, NEW l, NEW attrs, With(l, attrs)
    PROVE  SpanInv'
<1>1. PICK new : loggers' = Append(loggers, new) /\ new.span = 0
  BY DEF With
<1>2. UNCHANGED <<spans, buffer, last>>
  BY DEF With
<1>3. OneMore(loggers, loggers', new)
  BY <1>1, AppendAny DEF SpanInv, LoggersFit
<1>4. LoggersFit'
  BY <1>1, <1>2, <1>3 DEF SpanInv, LoggersFit, Fits, OneMore
<1>5. SpansFit'
  BY <1>2, <1>3 DEF SpanInv, SpansFit, OneMore
<1> QED
  BY <1>2, <1>4, <1>5 DEF SpanInv, BufferFits, LastFits, Shown

LEMMA ReplayStep ==
    ASSUME SpanInv, InitReplays
    PROVE  SpanInv'
<1>1. UNCHANGED <<loggers, spans>> /\ buffer' = <<>>
  BY DEF InitReplays, ownVars
<1>2. BufferFits'
  <2>1. buffer' \in Seq({}) /\ DOMAIN buffer' = {}
    BY <1>1
  <2> QED
    BY <2>1 DEF BufferFits, IsSeq
<1>3. LastFits'
  <2>1. CASE buffer = <<>>
    BY <1>1, <2>1 DEF InitReplays, SpanInv, LastFits, Shown
  <2>2. CASE buffer # <<>>
    <3>1. PICK S : buffer \in Seq(S)
      BY DEF SpanInv, BufferFits, IsSeq
    <3>2. Len(buffer) \in DOMAIN buffer
      BY <2>2, <3>1
    <3>3. Carries(buffer[Len(buffer)], spans')
      BY <1>1, <3>2 DEF SpanInv, BufferFits
    <3>4. last' = Shipped(buffer[Len(buffer)], EmitNative(buffer[Len(buffer)]))
      BY <2>2 DEF InitReplays
    <3> QED
      BY <3>3, <3>4, ShippedFits
  <2> QED
    BY <2>1, <2>2
<1> QED
  BY <1>1, <1>2, <1>3 DEF SpanInv, SpansFit, LoggersFit

LEMMA SpanInvStep == SpanInv /\ [Next]_vars => SpanInv'
<1> SUFFICES ASSUME SpanInv, [Next]_vars PROVE SpanInv'
  OBVIOUS
<1> USE DEF ownVars, appVars
<1>1. CASE UNCHANGED <<buffer, loggers, spans, last>>
  BY <1>1 DEF SpanInv, SpansFit, LoggersFit, BufferFits, LastFits, Shown
<1>2. \A l \in DOMAIN loggers : Fits(loggers[l], spans)
  BY DEF SpanInv, LoggersFit
<1>3. ASSUME NEW c, NEW l \in DOMAIN loggers, NEW level, NEW attrs, Log(c, l, level, attrs)
      PROVE  SpanInv'
  BY <1>2, <1>3, LogSteps DEF Log, Raw
<1>4. ASSUME NEW c, NEW l \in DOMAIN loggers, NEW attrs, Metric(c, l, attrs)
      PROVE  SpanInv'
  <2>1. UNCHANGED <<loggers, spans>>
    BY <1>4 DEF Metric
  <2>2. CASE native
    <3> DEFINE ev == RawFor("", FALSE, "metric", "info", c, loggers[l], attrs)
    <3>1. last' = Shipped(ev, MetricNative(ev)) /\ UNCHANGED buffer
      BY <1>4, <2>2 DEF Metric, Raw
    <3>2. Carries(ev, spans')
      BY <1>2, <2>1, RawCarries
    <3>3. LastFits'
      BY <3>1, <3>2, ShippedFits
    <3> QED
      BY <2>1, <3>1, <3>3 DEF SpanInv, SpansFit, LoggersFit, BufferFits
  <2>3. CASE ~native
    <3>1. PICK extra : Emit(RawFor("", FALSE, "log", "info", c, loggers[l], extra))
      BY <1>4, <2>3 DEF Metric, Raw
    <3> QED
      BY <1>2, <2>1, <3>1, LogSteps
  <2> QED
    BY <2>2, <2>3
<1>5. ASSUME NEW c, NEW s \in DOMAIN spans, SpanEnd(c, s)
      PROVE  SpanInv'
  <2>1. Fits(loggers[spans[s].log], spans)
    BY <1>2 DEF SpanInv, SpansFit
  <2> QED
    BY <1>5, <2>1, LogSteps DEF SpanEnd, Raw
<1>6. Fits(loggers[1], spans)
  BY <1>2 DEF SpanInv, LoggersFit
<1>7. ASSUME NEW c, NEW method, Console(c, method) PROVE SpanInv'
  BY <1>6, <1>7, LogSteps DEF Console, Raw
<1>8. ASSUME NEW r, NEW level, NEW attrs, HandlerLog(r, level, attrs) PROVE SpanInv'
  <2>1. PICK base : /\ base.span = 0
                    /\ Emit(RawFor(r, requests[r].log.overlapped, "log", level, 1, base, attrs))
    BY <1>8 DEF HandlerLog, Empty
  <2>2. Fits(base, spans)
    BY <2>1 DEF Fits
  <2> QED
    BY <1>8, <2>1, <2>2, LogSteps DEF HandlerLog
<1>9. ASSUME NEW r, NEW level, Finish(r, level) PROVE SpanInv'
  BY <1>6, <1>9, LogSteps DEF Finish
<1>10. CASE \/ PatchConsole \/ UNCHANGED vars
            \/ \E r \in Requests : Arrive(r) \/ Derive(r)
            \/ \E c \in DOMAIN contexts, l \in DOMAIN loggers, attrs \in Attrs : Scope(c, l, attrs)
  BY <1>1, <1>10 DEF PatchConsole, Arrive, Derive, Scope, vars
<1> QED
  BY <1>3, <1>4, <1>5, <1>7, <1>8, <1>9, <1>10, SpanStep, WithStep, ReplayStep DEF Next

LEMMA SpanInit == Init => SpanInv
<1> SUFFICES ASSUME Init PROVE SpanInv
  OBVIOUS
<1> DEFINE none == <<>>
           one(x) == <<x>>
<1>0. spans = none /\ buffer = none /\ loggers = one(Empty)
  BY DEF Init
<1>1. none \in Seq({}) /\ DOMAIN none = {}
  OBVIOUS
<1>2. \A x : one(x) \in Seq({x}) /\ DOMAIN one(x) = {1} /\ one(x)[1] = x
  OBVIOUS
<1> HIDE DEF none, one
<1>3. ~Shown
  BY DEF Init, Shown
<1>4. Empty.span = 0
  BY DEF Empty
<1>5. IsSeq(none) /\ IsSeq(one(Empty)) /\ DOMAIN one(Empty) = {1} /\ one(Empty)[1] = Empty
  BY <1>1, <1>2 DEF IsSeq
<1>6. SpansFit /\ BufferFits /\ LastFits
  BY <1>0, <1>1, <1>3, <1>5 DEF SpansFit, BufferFits, LastFits
<1>7. LoggersFit
  BY <1>0, <1>4, <1>5 DEF LoggersFit, Fits
<1> QED
  BY <1>6, <1>7 DEF SpanInv

(* Start, end and log events of a span carry its spanId from whatever      *)
(* scope they are logged, and whether they are shipped at once or replayed *)
(* by init() (sdk-ts/src/index.ts, createLogger's span).                   *)
THEOREM SpanIdCarriedHolds == Spec => []SpanIdCarried
<1>1. Init => SpanInv
  BY SpanInit
<1>2. SpanInv => SpanIdCarried
  BY DEF SpanInv, LastFits, SpanIdCarried
<1> QED
  BY <1>1, <1>2, SpanInvStep, PTL DEF Spec

-----------------------------------------------------------------------------
(* What the rows hold. *)

(* Carried, of one row. *)
CarriedBy(row, level, path) ==
    LET bound  == Bound(path)
        metric == row.op = "metric"
        column == IF metric THEN OptsColumns ELSE LogColumns @@ OptsColumns
        hidden == PROMOTED \cup (IF metric THEN {"_metric", "_metricValue"} ELSE {})
        inCol  == bound \cap DOMAIN column
        inAttr == (bound \ (inCol \cup hidden)) \cup (inCol \cap {"agentId"})
    IN  /\ row.severity = level
        /\ \A k \in inCol : row[column[k]] = Innermost(path, k)
        /\ \A k \in DOMAIN column \ (bound \cup {"kind"}) : row[column[k]] = ""
        /\ DOMAIN row.attributes \ (bound \cap NotPassed) = inAttr
        /\ \A k \in inAttr : row.attributes[k] = Innermost(path, k)
        /\ \A k \in NotPassed :
              \/ row[ProtoField[k]] = ""
              \/ k \in bound /\ row[ProtoField[k]] = Innermost(path, k)

LEMMA ColumnNames ==
    /\ DOMAIN OptsColumns = {"traceId", "spanId", "sessionId", "userId"}
    /\ DOMAIN (LogColumns @@ OptsColumns) = {"_category", "kind", "agentId"} \cup DOMAIN OptsColumns
    /\ DOMAIN OptsColumns \subseteq PROMOTED
    /\ PROMOTED \cap {"_category", "kind", "agentId"} = {}
    /\ NotPassed = {"parentSpanId", "subtraceId"}
    /\ ProtoField["parentSpanId"] = "parent_span_id" /\ ProtoField["subtraceId"] = "subtrace_id"
<1>1. DOMAIN OptsColumns = {"traceId", "spanId", "sessionId", "userId"}
  BY DEF OptsColumns
<1>2. DOMAIN LogColumns = {"_category", "kind", "agentId"}
  BY DEF LogColumns
<1>3. DOMAIN (LogColumns @@ OptsColumns) = DOMAIN LogColumns \cup DOMAIN OptsColumns
  BY DEF @@
<1>4. /\ ProtoField["parentSpanId"] = "parent_span_id"
      /\ ProtoField["subtraceId"] = "subtrace_id"
  BY DEF ProtoField, @@
<1> QED
  BY <1>1, <1>2, <1>3, <1>4 DEF PROMOTED, NotPassed

LEMMA ShowsCarried ==
    ASSUME NEW row, NEW attrs, NEW path, Layered(attrs, path), NEW level, row.severity = level,
           \/ row.op # "metric" /\ Shows(row, attrs, LogColumns @@ OptsColumns, LogHidden)
           \/ row.op = "metric" /\ Shows(row, attrs, OptsColumns, MetricHidden)
    PROVE  CarriedBy(row, level, path)
<1> DEFINE long == LogColumns @@ OptsColumns
<1>1. DOMAIN attrs = Bound(path) /\ \A k \in Bound(path) : attrs[k] = Innermost(path, k)
  BY LayeredInnermost DEF Layered
<1>2. /\ DOMAIN OptsColumns \subseteq PROMOTED
      /\ DOMAIN long = {"_category", "kind", "agentId"} \cup DOMAIN OptsColumns
      /\ PROMOTED \cap {"_category", "kind", "agentId"} = {}
  BY ColumnNames
<1>5. row.parent_span_id = "" /\ row.subtrace_id = ""
  BY DEF Shows
<1>6. \A k \in NotPassed : row[ProtoField[k]] = ""
  BY <1>5, ColumnNames
<1> HIDE DEF long
<1>3. CASE row.op # "metric" /\ Shows(row, attrs, long, LogHidden)
  <2> DEFINE inCol  == Bound(path) \cap DOMAIN long
             inAttr == (Bound(path) \ (inCol \cup PROMOTED)) \cup (inCol \cap {"agentId"})
  <2>1. inAttr = Bound(path) \ LogHidden
    BY <1>2 DEF LogHidden
  <2>2. /\ \A k \in inCol : row[long[k]] = Innermost(path, k)
        /\ \A k \in DOMAIN long \ (Bound(path) \cup {"kind"}) : row[long[k]] = ""
    BY <1>1, <1>3 DEF Shows
  <2>3. DOMAIN row.attributes = inAttr
    BY <1>1, <1>3, <2>1 DEF Shows
  <2>6. DOMAIN row.attributes \ (Bound(path) \cap NotPassed) = inAttr
    BY <2>1, <2>3, ColumnNames DEF LogHidden, PROMOTED
  <2>4. \A k \in inAttr : row.attributes[k] = Innermost(path, k)
    BY <1>1, <1>3, <2>1, <2>3 DEF Shows
  <2> HIDE DEF inCol, inAttr
  <2>5. PROMOTED \cup {} = PROMOTED
    OBVIOUS
  <2> QED
    BY <1>3, <1>6, <2>2, <2>4, <2>5, <2>6 DEF CarriedBy, long, inCol, inAttr
<1>4. CASE row.op = "metric" /\ Shows(row, attrs, OptsColumns, MetricHidden)
  <2> DEFINE inCol  == Bound(path) \cap DOMAIN OptsColumns
             inAttr == (Bound(path) \ (inCol \cup MetricHidden)) \cup (inCol \cap {"agentId"})
  <2>1. inAttr = Bound(path) \ MetricHidden
    BY <1>2 DEF MetricHidden
  <2>2. /\ \A k \in inCol : row[OptsColumns[k]] = Innermost(path, k)
        /\ \A k \in DOMAIN OptsColumns \ (Bound(path) \cup {"kind"}) : row[OptsColumns[k]] = ""
    BY <1>1, <1>4 DEF Shows
  <2>3. DOMAIN row.attributes = inAttr
    BY <1>1, <1>4, <2>1 DEF Shows
  <2>6. DOMAIN row.attributes \ (Bound(path) \cap NotPassed) = inAttr
    BY <2>1, <2>3, ColumnNames DEF MetricHidden, PROMOTED
  <2>4. \A k \in inAttr : row.attributes[k] = Innermost(path, k)
    BY <1>1, <1>4, <2>1, <2>3 DEF Shows
  <2> QED
    BY <1>4, <1>6, <2>2, <2>4, <2>6 DEF CarriedBy, MetricHidden
<1> QED
  BY <1>3, <1>4 DEF long

(* A raw event has the attributes of its path. *)
Sound(ev) ==
    /\ {"op", "level", "path"} \subseteq DOMAIN ev
    /\ Layered(ev.attrs, ev.path)
    /\ ev.level \in KnownLevels

LEMMA LevelsKnown ==
    /\ LogLevels \subseteq KnownLevels
    /\ {"debug", "info", "warn", "error"} \subseteq KnownLevels
<1>1. /\ DOMAIN Levels = 1..6 /\ Levels[2] = "debug" /\ Levels[3] = "info"
      /\ Levels[4] = "warn" /\ Levels[5] = "error"
  BY DEF Levels
<1>2. \A n \in 1..6 : Levels[n] \in KnownLevels
  BY <1>1 DEF KnownLevels
<1> QED
  BY <1>1, <1>2, TsLoggerAssumption DEF KnownLevels

LEMMA ShippedCarried ==
    ASSUME NEW ev, Sound(ev), NEW row, last' = Shipped(ev, row),
           \/ row = EmitNative(ev) /\ ev.op = "log"
           \/ row = MetricNative(ev) /\ ev.level = "info"
    PROVE  Carried'
<1>1. last'.row = row /\ last'.level = ev.level /\ last'.path = ev.path
  BY DEF Shipped, Sound, @@
<1>2. row.severity = ev.level
  BY NativeShows, SeverityNamed DEF Sound
<1>3. \/ row.op # "metric" /\ Shows(row, ev.attrs, LogColumns @@ OptsColumns, LogHidden)
      \/ row.op = "metric" /\ Shows(row, ev.attrs, OptsColumns, MetricHidden)
  BY NativeShows
<1>4. CarriedBy(row, ev.level, ev.path)
  BY <1>2, <1>3, ShowsCarried DEF Sound
<1>5. CarriedBy(last'.row, last'.level, last'.path)
  BY <1>1, <1>4
<1> QED
  BY <1>5 DEF Carried, CarriedBy

ContextsBind ==
    /\ IsSeq(contexts) /\ 1 \in DOMAIN contexts
    /\ \A c \in DOMAIN contexts : Layered(contexts[c].attrs, contexts[c].path)
LoggersBind == \A l \in DOMAIN loggers : Layered(loggers[l].attrs, loggers[l].path)
BufferSound == \A i \in DOMAIN buffer : Sound(buffer[i]) /\ buffer[i].op = "log"

(* Every context, logger and waiting event has the attributes of its path. *)
BindingInv == ContextsBind /\ LoggersBind /\ BufferSound /\ Carried

LEMMA EmitCarried ==
    ASSUME IsSeq(buffer), BufferSound, Carried, NEW ev, Sound(ev), ev.op = "log", Emit(ev)
    PROVE  BufferSound' /\ Carried'
<1>1. CASE native
  <2>1. last' = Shipped(ev, EmitNative(ev)) /\ UNCHANGED buffer
    BY <1>1 DEF Emit
  <2> QED
    BY <2>1, ShippedCarried DEF BufferSound
<1>2. CASE ~native
  <2>1. buffer' = Append(buffer, ev) /\ UNCHANGED last
    BY <1>2 DEF Emit
  <2>2. OneMore(buffer, buffer', ev)
    BY <2>1, AppendAny
  <2>3. Carried'
    BY <2>1 DEF Carried, Shown
  <2> QED
    BY <2>2, <2>3 DEF BufferSound, OneMore
<1> QED
  BY <1>1, <1>2

LEMMA RawSound ==
    ASSUME ContextsBind, NEW request, NEW overlapped, NEW op, NEW level \in KnownLevels,
           NEW c \in DOMAIN contexts, NEW base, Layered(base.attrs, base.path), NEW extra
    PROVE  /\ Sound(RawFor(request, overlapped, op, level, c, base, extra))
           /\ RawFor(request, overlapped, op, level, c, base, extra).op = op
           /\ RawFor(request, overlapped, op, level, c, base, extra).level = level
<1> DEFINE attrs == (extra @@ base.attrs) @@ contexts[c].attrs
           path  == contexts[c].path \o Append(base.path, extra)
           ev    == RawFor(request, overlapped, op, level, c, base, extra)
<1>1. Layered(extra @@ base.attrs, Append(base.path, extra))
  BY LayeredAppend
<1>2. Layered(attrs, path)
  BY <1>1, LayeredConcat DEF ContextsBind
<1>3. /\ {"op", "level", "path"} \subseteq DOMAIN ev
      /\ ev.attrs = attrs /\ ev.path = path /\ ev.op = op /\ ev.level = level
  BY DEF RawFor, Resolve
<1> HIDE DEF attrs, path, ev
<1>4. Sound(ev) /\ ev.op = op /\ ev.level = level
  BY <1>2, <1>3 DEF Sound
<1> QED
  BY <1>4 DEF ev

(* Whatever logs an event where it is. *)
LEMMA LogBinds ==
    ASSUME SpanInv, BindingInv, UNCHANGED <<contexts, loggers>>,
           NEW request, NEW overlapped, NEW level \in KnownLevels,
           NEW c \in DOMAIN contexts, NEW base, Layered(base.attrs, base.path), NEW extra,
           Emit(RawFor(request, overlapped, "log", level, c, base, extra))
    PROVE  BindingInv'
<1> DEFINE ev == RawFor(request, overlapped, "log", level, c, base, extra)
<1>1. Sound(ev) /\ ev.op = "log"
  BY RawSound DEF BindingInv
<1> HIDE DEF ev
<1>2. BufferSound' /\ Carried'
  BY <1>1, EmitCarried DEF SpanInv, BufferFits, BindingInv, ev
<1> QED
  BY <1>2 DEF BindingInv, ContextsBind, LoggersBind

LEMMA MetricBinds ==
    ASSUME SpanInv, BindingInv, NEW c \in DOMAIN contexts, NEW l \in DOMAIN loggers, NEW extra,
           Metric(c, l, extra)
    PROVE  BindingInv'
<1>1. Layered(loggers[l].attrs, loggers[l].path)
  BY DEF BindingInv, LoggersBind
<1>2. UNCHANGED <<contexts, loggers>>
  BY DEF Metric, ownVars
<1>3. CASE native
  <2> DEFINE ev == RawFor("", FALSE, "metric", "info", c, loggers[l], extra)
  <2>0. ContextsBind /\ "info" \in KnownLevels
    BY LevelsKnown DEF BindingInv
  <2>1. Sound(ev) /\ ev.level = "info"
    <3>1. Sound(RawFor("", FALSE, "metric", "info", c, loggers[l], extra))
      BY <1>1, <2>0, RawSound
    <3>2. RawFor("", FALSE, "metric", "info", c, loggers[l], extra).level = "info"
      BY DEF RawFor
    <3> QED
      BY <3>1, <3>2
  <2>2. last' = Shipped(ev, MetricNative(ev)) /\ UNCHANGED buffer
    BY <1>3 DEF Metric, Raw
  <2> HIDE DEF ev
  <2>3. Carried'
    BY <2>1, <2>2, ShippedCarried
  <2> QED
    BY <1>2, <2>2, <2>3 DEF BindingInv, ContextsBind, LoggersBind, BufferSound
<1>4. CASE ~native
  BY <1>1, <1>2, <1>4, LogBinds, LevelsKnown DEF Metric, Raw
<1> QED
  BY <1>3, <1>4

LEMMA WithBinds ==
    ASSUME SpanInv, BindingInv, NEW l \in DOMAIN loggers, NEW attrs, With(l, attrs)
    PROVE  BindingInv'
<1> DEFINE new == [attrs |-> attrs @@ loggers[l].attrs, span |-> 0,
                   path |-> Append(loggers[l].path, attrs)]
<1>1. Layered(new.attrs, new.path)
  BY LayeredAppend DEF BindingInv, LoggersBind
<1>2. loggers' = Append(loggers, new) /\ UNCHANGED <<contexts, buffer, last>>
  BY DEF With
<1> HIDE DEF new
<1>3. OneMore(loggers, loggers', new)
  BY <1>2, AppendAny DEF SpanInv, LoggersFit
<1>4. LoggersBind'
  BY <1>1, <1>3 DEF BindingInv, LoggersBind, OneMore
<1> QED
  BY <1>2, <1>4 DEF BindingInv, ContextsBind, BufferSound, Carried, Shown

LEMMA ScopeBinds ==
    ASSUME SpanInv, BindingInv, NEW c \in DOMAIN contexts, NEW l \in DOMAIN loggers, NEW attrs,
           Scope(c, l, attrs)
    PROVE  BindingInv'
<1> DEFINE over == attrs @@ loggers[l].attrs
           way  == Append(loggers[l].path, attrs)
           new == [attrs |-> over @@ contexts[c].attrs, span |-> 0,
                   path |-> contexts[c].path \o way]
<1>1. Layered(over, way)
  BY LayeredAppend DEF BindingInv, LoggersBind
<1>2. Layered(new.attrs, new.path)
  BY <1>1, LayeredConcat DEF BindingInv, ContextsBind
<1>3. contexts' = Append(contexts, new) /\ UNCHANGED <<loggers, buffer, last>>
  BY DEF Scope, Resolve
<1> HIDE DEF new
<1>4. OneMore(contexts, contexts', new)
  BY <1>3, AppendAny DEF BindingInv, ContextsBind
<1>5. ContextsBind'
  BY <1>2, <1>4 DEF BindingInv, ContextsBind, OneMore
<1> QED
  BY <1>3, <1>5 DEF BindingInv, LoggersBind, BufferSound, Carried, Shown

LEMMA SpanBinds ==
    ASSUME SpanInv, BindingInv, NEW c \in DOMAIN contexts, NEW l \in DOMAIN loggers, NEW attrs,
           Span(c, l, attrs)
    PROVE  BindingInv'
<1>1. PICK id :
          LET handle == [attrs |-> Merged(loggers[l].attrs, attrs, id),
                         path |-> loggers[l].path \o <<attrs, "spanId" :> id>>,
                         span |-> Len(spans) + 1]
          IN  /\ loggers' = Append(loggers, handle)
              /\ Emit(Raw("log", "info", c, handle, [_span |-> "start", _spanName |-> "s"]))
  BY DEF Span
<1> DEFINE fresh  == "spanId" :> id
           two    == <<attrs, fresh>>
           handle == [attrs |-> (fresh @@ attrs) @@ loggers[l].attrs,
                      path |-> loggers[l].path \o two, span |-> Len(spans) + 1]
           extra  == [_span |-> "start", _spanName |-> "s"]
           ev     == RawFor("", FALSE, "log", "info", c, handle, extra)
<1>2. /\ loggers' = Append(loggers, handle) /\ UNCHANGED contexts
      /\ Emit(ev)
  BY <1>1 DEF Span, Merged, Raw
<1>3. Layered(handle.attrs, handle.path)
  <2> HIDE DEF fresh
  <2>1. two = Append(<<attrs>>, fresh)
    OBVIOUS
  <2>2. Layered(fresh @@ attrs, two)
    BY <2>1, LayeredOne, LayeredAppend
  <2>3. Layered((fresh @@ attrs) @@ loggers[l].attrs, loggers[l].path \o two)
    BY <2>2, LayeredConcat DEF BindingInv, LoggersBind
  <2> QED
    BY <2>3
<1> HIDE DEF handle, extra
<1>4. Sound(ev) /\ ev.op = "log"
  <2>1. ContextsBind /\ "info" \in KnownLevels
    BY LevelsKnown DEF BindingInv
  <2>2. Sound(RawFor("", FALSE, "log", "info", c, handle, extra))
    BY <1>3, <2>1, RawSound
  <2>3. RawFor("", FALSE, "log", "info", c, handle, extra).op = "log"
    BY DEF RawFor
  <2> QED
    BY <2>2, <2>3
<1> HIDE DEF ev
<1>5. BufferSound' /\ Carried'
  BY <1>2, <1>4, EmitCarried DEF SpanInv, BufferFits, BindingInv
<1>6. OneMore(loggers, loggers', handle)
  BY <1>2, AppendAny DEF SpanInv, LoggersFit
<1>7. LoggersBind'
  BY <1>3, <1>6 DEF BindingInv, LoggersBind, OneMore
<1> QED
  BY <1>2, <1>5, <1>7 DEF BindingInv, ContextsBind

LEMMA ReplayBinds ==
    ASSUME SpanInv, BindingInv, InitReplays
    PROVE  BindingInv'
<1>1. UNCHANGED <<contexts, loggers>> /\ buffer' = <<>>
  BY DEF InitReplays, ownVars
<1>2. BufferSound'
  BY <1>1 DEF BufferSound
<1>3. Carried'
  <2>1. CASE buffer = <<>>
    BY <2>1 DEF InitReplays, BindingInv, Carried, Shown
  <2>2. CASE buffer # <<>>
    <3>1. PICK S : buffer \in Seq(S)
      BY DEF SpanInv, BufferFits, IsSeq
    <3>2. Len(buffer) \in DOMAIN buffer
      BY <2>2, <3>1
    <3>3. Sound(buffer[Len(buffer)]) /\ buffer[Len(buffer)].op = "log"
      BY <3>2 DEF BindingInv, BufferSound
    <3>4. last' = Shipped(buffer[Len(buffer)], EmitNative(buffer[Len(buffer)]))
      BY <2>2 DEF InitReplays
    <3> QED
      BY <3>3, <3>4, ShippedCarried
  <2> QED
    BY <2>1, <2>2
<1> QED
  BY <1>1, <1>2, <1>3 DEF BindingInv, ContextsBind, LoggersBind

LEMMA BindingStep == SpanInv /\ BindingInv /\ [Next]_vars => BindingInv'
<1> SUFFICES ASSUME SpanInv, BindingInv, [Next]_vars PROVE BindingInv'
  OBVIOUS
<1>1. /\ 1 \in DOMAIN contexts /\ 1 \in DOMAIN loggers
      /\ \A l \in DOMAIN loggers : Layered(loggers[l].attrs, loggers[l].path)
  BY DEF BindingInv, ContextsBind, LoggersBind, SpanInv, LoggersFit
<1>2. ASSUME NEW c \in DOMAIN contexts, NEW l \in DOMAIN loggers, NEW level \in LogLevels,
             NEW extra, Log(c, l, level, extra)
      PROVE  BindingInv'
  BY <1>1, <1>2, LogBinds, LevelsKnown DEF Log, Raw, ownVars
<1>3. ASSUME NEW c \in DOMAIN contexts, NEW s \in DOMAIN spans, SpanEnd(c, s)
      PROVE  BindingInv'
  <2>1. spans[s].log \in DOMAIN loggers
    BY DEF SpanInv, SpansFit
  <2> QED
    BY <1>1, <1>3, <2>1, LogBinds, LevelsKnown DEF SpanEnd, Raw, ownVars
<1>4. ASSUME NEW c \in DOMAIN contexts,
             NEW method \in {"log", "debug", "info", "warn", "error"}, Console(c, method)
      PROVE  BindingInv'
  <2> DEFINE level == IF method = "log" THEN "info" ELSE method
  <2>1. level \in KnownLevels
    BY LevelsKnown
  <2>2. Emit(RawFor("", FALSE, "log", level, c, loggers[1], [_source |-> method]))
    BY <1>4 DEF Console, Raw
  <2> HIDE DEF level
  <2> QED
    BY <1>1, <1>4, <2>1, <2>2, LogBinds DEF Console, ownVars
<1>5. ASSUME NEW r \in Requests, NEW level \in LogLevels, NEW extra, HandlerLog(r, level, extra)
      PROVE  BindingInv'
  <2> DEFINE trace == "traceId" :> requests[r].log.trace
  <2>1. PICK base : /\ base.attrs = trace /\ base.path = <<trace>>
                    /\ Emit(RawFor(r, requests[r].log.overlapped, "log", level, 1, base, extra))
    BY <1>5 DEF HandlerLog, Empty
  <2>2. Layered(base.attrs, base.path)
    BY <2>1, LayeredOne
  <2> QED
    BY <1>1, <1>5, <2>1, <2>2, LogBinds, LevelsKnown DEF HandlerLog, ownVars
<1>6. ASSUME NEW r \in Requests, NEW level \in {"info", "error"}, Finish(r, level)
      PROVE  BindingInv'
  BY <1>1, <1>6, LogBinds, LevelsKnown DEF Finish, ownVars
<1>7. CASE PatchConsole \/ UNCHANGED vars \/ \E r \in Requests : Arrive(r) \/ Derive(r)
  <2>1. UNCHANGED <<contexts, loggers, buffer, last>>
    BY <1>7 DEF PatchConsole, Arrive, Derive, vars, ownVars
  <2> QED
    BY <2>1 DEF BindingInv, ContextsBind, LoggersBind, BufferSound, Carried, Shown
<1> QED
  BY <1>2, <1>3, <1>4, <1>5, <1>6, <1>7, MetricBinds, WithBinds, ScopeBinds, SpanBinds,
     ReplayBinds DEF Next

LEMMA BindingInit == Init => BindingInv
<1> SUFFICES ASSUME Init PROVE BindingInv
  OBVIOUS
<1> DEFINE none == <<>>
           one(x) == <<x>>
<1>1. /\ buffer = none /\ loggers = one(Empty) /\ contexts = one(Empty) /\ ~Shown
  BY DEF Init, Shown
<1>2. DOMAIN none = {} /\ \A x : one(x) \in Seq({x}) /\ DOMAIN one(x) = {1} /\ one(x)[1] = x
  OBVIOUS
<1>3. Empty.attrs = none /\ Empty.path = none
  BY DEF Empty
<1>4. Layered(Empty.attrs, Empty.path)
  BY <1>3, LayeredNone
<1> HIDE DEF none, one
<1>5. IsSeq(contexts) /\ DOMAIN contexts = {1} /\ contexts[1] = Empty
  BY <1>1, <1>2 DEF IsSeq
<1>6. DOMAIN loggers = {1} /\ loggers[1] = Empty /\ DOMAIN buffer = {}
  BY <1>1, <1>2
<1> QED
  BY <1>1, <1>4, <1>5, <1>6 DEF BindingInv, ContextsBind, LoggersBind, BufferSound, Carried

(* Every row holds the innermost value bound to each key where the event   *)
(* was logged, and nothing else, however contexts, loggers and spans are   *)
(* derived from each other and interleave, and whether it was shipped at   *)
(* once or replayed by init() (sdk-ts/src/index.ts, resolve and _emitter). *)
THEOREM CarriedHolds == Spec => []Carried
<1>1. Init => SpanInv /\ BindingInv
  BY SpanInit, BindingInit
<1>2. SpanInv /\ BindingInv /\ [Next]_vars => SpanInv' /\ BindingInv'
  BY SpanInvStep, BindingStep
<1>3. BindingInv => Carried
  BY DEF BindingInv
<1> QED
  BY <1>1, <1>2, <1>3, PTL DEF Spec

-----------------------------------------------------------------------------
(* The trace of a request. *)

Traced(ev) ==
    /\ {"request", "overlapped", "extra"} \subseteq DOMAIN ev
    /\ ev.request # "" =>
          \/ "traceId" \in DOMAIN ev.attrs /\ ev.attrs["traceId"] = ev.request
          \/ ev.overlapped
          \/ /\ "traceId" \in DOMAIN ev.extra /\ ev.extra["traceId"] \in Values
             /\ "traceId" \in DOMAIN ev.attrs

RequestRecords ==
    [stage : {"new", "arrived", "derived", "done"}, overlapped : BOOLEAN,
     log : [trace : Requests \cup {""}, overlapped : BOOLEAN]]

(* Until another request arrives the store has this one's trace, and its   *)
(* logger has what the store had.                                          *)
Own(r) ==
    /\ requests[r].stage \in {"arrived", "derived"} => shared = r \/ requests[r].overlapped
    /\ requests[r].stage = "derived" =>
          requests[r].log.trace = r \/ requests[r].log.overlapped

RequestsOwn ==
    /\ requests \in [Requests -> RequestRecords] /\ shared \in Requests \cup {""}
    /\ \A r \in Requests : Own(r)

BufferTraced == IsSeq(buffer) /\ \A i \in DOMAIN buffer : Traced(buffer[i])

TraceInv == RequestsOwn /\ BufferTraced /\ TraceUnlessOverlapped

LEMMA ShippedTraced ==
    ASSUME NEW ev, Traced(ev), NEW row \in {EmitNative(ev), MetricNative(ev)},
           last' = Shipped(ev, row)
    PROVE  TraceUnlessOverlapped'
<1>1. /\ last'.request = ev.request /\ last'.overlapped = ev.overlapped
      /\ last'.extra = ev.extra /\ last'.row = row
  BY DEF Shipped, Traced, @@
<1>2. "traceId" \in DOMAIN ev.attrs => row.trace_id = ev.attrs["traceId"]
  BY NativeRow
<1> QED
  BY <1>1, <1>2 DEF Traced, TraceUnlessOverlapped

LEMMA EmitTraced ==
    ASSUME BufferTraced, TraceUnlessOverlapped, NEW ev, Traced(ev), Emit(ev)
    PROVE  BufferTraced' /\ TraceUnlessOverlapped'
<1>1. CASE native
  <2>1. last' = Shipped(ev, EmitNative(ev)) /\ UNCHANGED buffer
    BY <1>1 DEF Emit
  <2> QED
    BY <2>1, ShippedTraced DEF BufferTraced
<1>2. CASE ~native
  <2>1. buffer' = Append(buffer, ev) /\ UNCHANGED last
    BY <1>2 DEF Emit
  <2>2. OneMore(buffer, buffer', ev)
    BY <2>1, AppendAny DEF BufferTraced
  <2>3. TraceUnlessOverlapped'
    BY <2>1 DEF TraceUnlessOverlapped, Shown
  <2> QED
    BY <2>2, <2>3 DEF BufferTraced, OneMore
<1> QED
  BY <1>1, <1>2

LEMMA RawTraced ==
    ASSUME NEW op, NEW level, NEW c, NEW base, NEW extra
    PROVE  /\ Traced(Raw(op, level, c, base, extra))
           /\ \A request, overlapped :
                 LET raw == RawFor(request, overlapped, op, level, c, base, extra)
                 IN  /\ {"request", "overlapped", "extra"} \subseteq DOMAIN raw
                     /\ raw.request = request /\ raw.overlapped = overlapped
                     /\ raw.extra = extra
                     /\ raw.attrs = (extra @@ base.attrs) @@ contexts[c].attrs
BY DEF Raw, RawFor, Resolve, Traced

(* Requests are as they were, and so is the store. *)
LEMMA LogTraced ==
    ASSUME TraceInv, UNCHANGED appVars, NEW ev, Traced(ev), Emit(ev)
    PROVE  TraceInv'
<1>1. BufferTraced' /\ TraceUnlessOverlapped'
  BY EmitTraced DEF TraceInv
<1> QED
  BY <1>1 DEF TraceInv, RequestsOwn, Own, appVars

LEMMA MetricTraced ==
    ASSUME TraceInv, NEW c, NEW l, NEW extra, Metric(c, l, extra)
    PROVE  TraceInv'
<1>1. CASE native
  <2> DEFINE ev == Raw("metric", "info", c, loggers[l], extra)
  <2>1. last' = Shipped(ev, MetricNative(ev)) /\ UNCHANGED <<buffer, shared, requests>>
    BY <1>1 DEF Metric, appVars
  <2>2. Traced(ev)
    BY RawTraced
  <2> HIDE DEF ev
  <2>3. TraceUnlessOverlapped'
    BY <2>1, <2>2, ShippedTraced
  <2> QED
    BY <2>1, <2>3 DEF TraceInv, RequestsOwn, Own, BufferTraced
<1>2. CASE ~native
  BY <1>2, RawTraced, LogTraced DEF Metric
<1> QED
  BY <1>1, <1>2

LEMMA ArriveTraced ==
    ASSUME TraceInv, NEW r \in Requests, Arrive(r)
    PROVE  TraceInv'
<1>1. /\ requests \in [Requests -> RequestRecords] /\ shared' = r
      /\ UNCHANGED <<buffer, last>>
      /\ requests' = [q \in Requests |-> IF q = r THEN [NewRequest EXCEPT !.stage = "arrived"]
                                         ELSE [requests[q] EXCEPT !.overlapped = TRUE]]
  BY DEF TraceInv, RequestsOwn, Arrive
<1>2. [NewRequest EXCEPT !.stage = "arrived"] \in RequestRecords
  BY DEF NewRequest, RequestRecords
<1>3. \A q \in Requests : /\ [requests[q] EXCEPT !.overlapped = TRUE] \in RequestRecords
                          /\ [requests[q] EXCEPT !.overlapped = TRUE].overlapped
                          /\ [requests[q] EXCEPT !.overlapped = TRUE].stage = requests[q].stage
                          /\ [requests[q] EXCEPT !.overlapped = TRUE].log = requests[q].log
  BY <1>1 DEF RequestRecords
<1>4. requests' \in [Requests -> RequestRecords]
  BY <1>1, <1>2, <1>3
<1>5. ASSUME NEW q \in Requests PROVE Own(q)'
  <2>1. CASE q = r
    <3>1. requests'[q].stage = "arrived"
      BY <1>1, <2>1 DEF NewRequest
    <3> QED
      BY <1>1, <2>1, <3>1 DEF Own
  <2>2. CASE q # r
    <3>1. requests'[q] = [requests[q] EXCEPT !.overlapped = TRUE]
      BY <1>1, <2>2
    <3>2. /\ requests'[q].overlapped /\ requests'[q].stage = requests[q].stage
          /\ requests'[q].log = requests[q].log
      BY <1>3, <3>1
    <3> QED
      BY <3>2 DEF Own, TraceInv, RequestsOwn
  <2> QED
    BY <2>1, <2>2
<1> QED
  BY <1>1, <1>4, <1>5 DEF TraceInv, RequestsOwn, BufferTraced, TraceUnlessOverlapped, Shown

(* Only request r goes on, and the store stays. *)
LEMMA OneRequestTraced ==
    ASSUME RequestsOwn, NEW r \in Requests, UNCHANGED shared, NEW rec \in RequestRecords,
           requests' = [requests EXCEPT ![r] = rec],
           rec.stage \in {"arrived", "derived"} => shared = r \/ rec.overlapped,
           rec.stage = "derived" => rec.log.trace = r \/ rec.log.overlapped
    PROVE  RequestsOwn'
<1>1. /\ requests' \in [Requests -> RequestRecords] /\ requests'[r] = rec
      /\ \A q \in Requests \ {r} : requests'[q] = requests[q]
  BY DEF RequestsOwn
<1>2. ASSUME NEW q \in Requests PROVE Own(q)'
  <2>1. CASE q = r
    BY <1>1, <2>1 DEF Own
  <2>2. CASE q # r
    BY <1>1, <2>2 DEF Own, RequestsOwn
  <2> QED
    BY <2>1, <2>2
<1> QED
  BY <1>1, <1>2 DEF RequestsOwn

LEMMA DeriveTraced ==
    ASSUME TraceInv, NEW r \in Requests, Derive(r)
    PROVE  TraceInv'
<1> DEFINE logger == [trace |-> shared, overlapped |-> requests[r].overlapped]
           rec    == [stage |-> "derived", overlapped |-> requests[r].overlapped, log |-> logger]
<1>1. requests[r] \in RequestRecords /\ shared \in Requests \cup {""}
  BY DEF TraceInv, RequestsOwn
<1>2. requests' = [requests EXCEPT ![r] = rec]
  <2>1. [requests[r] EXCEPT !.stage = "derived", !.log = logger] = rec
    <3>1. ASSUME NEW q \in RequestRecords, NEW l
          PROVE  [q EXCEPT !.stage = "derived", !.log = l] =
                     [stage |-> "derived", overlapped |-> q.overlapped, log |-> l]
      <4> DEFINE p == [q EXCEPT !["stage"] = "derived", !["log"] = l]
                 s == [stage |-> "derived", overlapped |-> q.overlapped, log |-> l]
      <4>1. DOMAIN q = {"stage", "overlapped", "log"}
        BY DEF RequestRecords
      <4>2. /\ p = [k \in DOMAIN q |-> p[k]] /\ p["stage"] = "derived"
            /\ p["log"] = l /\ p["overlapped"] = q["overlapped"]
        BY <4>1
      <4>3. /\ s = [k \in DOMAIN q |-> s[k]] /\ s["stage"] = "derived"
            /\ s["log"] = l /\ s["overlapped"] = q["overlapped"]
        BY <4>1
      <4> HIDE DEF p, s
      <4>4. \A k \in DOMAIN q : p[k] = s[k]
        BY <4>1, <4>2, <4>3
      <4>5. p = s
        BY <4>2, <4>3, <4>4
      <4> QED
        BY <4>5 DEF p, s
    <3> HIDE DEF logger
    <3> QED
      BY <1>1, <3>1
  <2>2. requests' = [requests EXCEPT ![r] = [requests[r] EXCEPT !.stage = "derived", !.log = logger]]
    BY <1>1 DEF Derive, TraceInv, RequestsOwn
  <2> QED
    BY <2>1, <2>2
<1>3. requests[r].stage = "arrived" /\ UNCHANGED <<buffer, shared, last>>
  BY DEF Derive
<1>4. shared = r \/ requests[r].overlapped
  BY <1>3 DEF TraceInv, RequestsOwn, Own
<1>5. rec \in RequestRecords /\ requests[r].overlapped \in BOOLEAN
  BY <1>1 DEF RequestRecords
<1>6. RequestsOwn'
  BY <1>2, <1>3, <1>4, <1>5, OneRequestTraced DEF TraceInv
<1> QED
  BY <1>3, <1>6 DEF TraceInv, BufferTraced, TraceUnlessOverlapped, Shown

LEMMA HandlerTraced ==
    ASSUME TraceInv, NEW r \in Requests, NEW level, NEW extra \in Attrs,
           HandlerLog(r, level, extra)
    PROVE  TraceInv'
<1> DEFINE id    == requests[r].log.trace
           trace == "traceId" :> id
           over  == requests[r].log.overlapped
<1>1. PICK base : /\ base.attrs = trace
                  /\ Emit(RawFor(r, over, "log", level, 1, base, extra))
  BY DEF HandlerLog, Empty
<1> DEFINE ev    == RawFor(r, over, "log", level, 1, base, extra)
           mine  == extra @@ trace
           attrs == mine @@ contexts[1].attrs
<1>2. /\ {"request", "overlapped", "extra"} \subseteq DOMAIN ev
      /\ ev.request = r /\ ev.overlapped = over /\ ev.extra = extra /\ ev.attrs = attrs
  BY <1>1 DEF RawFor, Resolve
<1>3. DOMAIN trace = {"traceId"} /\ trace["traceId"] = id
  BY DEF :>
<1> HIDE DEF trace
<1>4. /\ "traceId" \in DOMAIN mine
      /\ mine["traceId"] = IF "traceId" \in DOMAIN extra THEN extra["traceId"] ELSE id
  BY <1>3 DEF @@
<1> HIDE DEF mine
<1>5. "traceId" \in DOMAIN attrs /\ attrs["traceId"] = mine["traceId"]
  BY <1>4 DEF @@
<1>6. "traceId" \in DOMAIN extra => extra["traceId"] \in Values
  <2>1. CASE extra = <<>>
    <3>1. DOMAIN <<>> = {}
      OBVIOUS
    <3> QED
      BY <2>1, <3>1, Zenon
  <2>2. CASE \E k \in Keys, v \in Values : extra = k :> v
    <3>1. PICK k \in Keys, v \in Values : extra = [x \in {k} |-> v]
      BY <2>2 DEF :>
    <3> QED
      BY <3>1
  <2> QED
    BY <2>1, <2>2 DEF Attrs
<1>7. id = r \/ over
  BY DEF HandlerLog, TraceInv, RequestsOwn, Own
<1> HIDE DEF ev, attrs, id, over
<1>8. Traced(ev)
  BY <1>2, <1>4, <1>5, <1>6, <1>7 DEF Traced
<1>9. Emit(ev)
  BY <1>1 DEF ev, over
<1> QED
  BY <1>8, <1>9, LogTraced DEF HandlerLog

LEMMA FinishTraced ==
    ASSUME TraceInv, NEW r \in Requests, NEW level \in {"info", "error"}, Finish(r, level)
    PROVE  TraceInv'
<1> DEFINE over  == requests[r].overlapped
           extra == [traceId |-> shared, _category |-> "http"]
           ev    == RawFor(r, over, "log", level, 1, loggers[1], extra)
           rec   == [requests[r] EXCEPT !.stage = "done"]
           mine  == extra @@ loggers[1].attrs
           attrs == mine @@ contexts[1].attrs
<1>1. /\ Emit(ev) /\ UNCHANGED shared /\ requests' = [requests EXCEPT ![r] = rec]
      /\ requests[r].stage \in {"arrived", "derived"}
  BY DEF Finish
<1>2. /\ {"request", "overlapped", "extra"} \subseteq DOMAIN ev
      /\ ev.request = r /\ ev.overlapped = over /\ ev.attrs = attrs
  BY DEF RawFor, Resolve
<1>3. "traceId" \in DOMAIN extra /\ extra["traceId"] = shared
  OBVIOUS
<1> HIDE DEF extra
<1>4. "traceId" \in DOMAIN mine /\ mine["traceId"] = shared
  BY <1>3 DEF @@
<1> HIDE DEF mine
<1>5. "traceId" \in DOMAIN attrs /\ attrs["traceId"] = shared
  BY <1>4 DEF @@
<1>6. shared = r \/ over
  BY <1>1 DEF TraceInv, RequestsOwn, Own
<1> HIDE DEF ev, attrs, over
<1>7. Traced(ev)
  BY <1>2, <1>5, <1>6 DEF Traced
<1>8. BufferTraced' /\ TraceUnlessOverlapped'
  BY <1>1, <1>7, EmitTraced DEF TraceInv
<1>9. rec \in RequestRecords /\ rec.stage = "done"
  BY DEF TraceInv, RequestsOwn, RequestRecords
<1> HIDE DEF rec
<1>10. RequestsOwn'
  BY <1>1, <1>9, OneRequestTraced DEF TraceInv
<1> QED
  BY <1>8, <1>10 DEF TraceInv

LEMMA ReplayTraced ==
    ASSUME TraceInv, InitReplays
    PROVE  TraceInv'
<1>1. buffer' = <<>> /\ UNCHANGED <<shared, requests>>
  BY DEF InitReplays, appVars
<1>2. BufferTraced'
  <2>1. buffer' \in Seq({}) /\ DOMAIN buffer' = {}
    BY <1>1
  <2> QED
    BY <2>1 DEF BufferTraced, IsSeq
<1>3. TraceUnlessOverlapped'
  <2>1. CASE buffer = <<>>
    BY <2>1 DEF InitReplays, TraceInv, TraceUnlessOverlapped, Shown
  <2>2. CASE buffer # <<>>
    <3>1. PICK S : buffer \in Seq(S)
      BY DEF TraceInv, BufferTraced, IsSeq
    <3>2. Len(buffer) \in DOMAIN buffer
      BY <2>2, <3>1
    <3>3. Traced(buffer[Len(buffer)])
      BY <3>2 DEF TraceInv, BufferTraced
    <3>4. last' = Shipped(buffer[Len(buffer)], EmitNative(buffer[Len(buffer)]))
      BY <2>2 DEF InitReplays
    <3> QED
      BY <3>3, <3>4, ShippedTraced
  <2> QED
    BY <2>1, <2>2
<1> QED
  BY <1>1, <1>2, <1>3 DEF TraceInv, RequestsOwn, Own

LEMMA TraceStep == TraceInv /\ [Next]_vars => TraceInv'
<1> SUFFICES ASSUME TraceInv, [Next]_vars PROVE TraceInv'
  OBVIOUS
<1>1. ASSUME NEW c, NEW l, NEW level, NEW extra, Log(c, l, level, extra) PROVE TraceInv'
  BY <1>1, RawTraced, LogTraced DEF Log
<1>2. ASSUME NEW c, NEW s, SpanEnd(c, s) PROVE TraceInv'
  BY <1>2, RawTraced, LogTraced DEF SpanEnd
<1>3. ASSUME NEW c, NEW method, Console(c, method) PROVE TraceInv'
  BY <1>3, RawTraced, LogTraced DEF Console
<1>4. ASSUME NEW c, NEW l, NEW attrs, Span(c, l, attrs) PROVE TraceInv'
  <2>1. PICK handle :
            Emit(Raw("log", "info", c, handle, [_span |-> "start", _spanName |-> "s"]))
    BY <1>4 DEF Span
  <2> QED
    BY <1>4, <2>1, RawTraced, LogTraced DEF Span
<1>5. CASE \/ PatchConsole \/ UNCHANGED vars
           \/ \E c \in DOMAIN contexts, l \in DOMAIN loggers, attrs \in Attrs : Scope(c, l, attrs)
           \/ \E l \in DOMAIN loggers, attrs \in Attrs : With(l, attrs)
  <2>1. UNCHANGED <<buffer, last, shared, requests>>
    BY <1>5 DEF PatchConsole, Scope, With, vars, appVars
  <2> QED
    BY <2>1 DEF TraceInv, RequestsOwn, Own, BufferTraced, TraceUnlessOverlapped, Shown
<1> QED
  BY <1>1, <1>2, <1>3, <1>4, <1>5, MetricTraced, ArriveTraced, DeriveTraced, HandlerTraced,
     FinishTraced, ReplayTraced DEF Next

(* The events of the Elysia plugin carry the trace of their own request,   *)
(* unless another arrived before it was read from the store the requests   *)
(* share, or the call gives another (sdk-ts/src/index.ts, aires plugin).   *)
THEOREM TraceUnlessOverlappedHolds == Spec => []TraceUnlessOverlapped
<1>1. Init => TraceInv
  <2> SUFFICES ASSUME Init PROVE TraceInv
    OBVIOUS
  <2>1. /\ buffer = <<>> /\ shared = "" /\ ~Shown
        /\ requests = [r \in Requests |-> NewRequest]
    BY DEF Init, Shown
  <2>2. NewRequest \in RequestRecords /\ NewRequest.stage = "new"
    BY DEF NewRequest, RequestRecords
  <2>3. RequestsOwn
    BY <2>1, <2>2 DEF RequestsOwn, Own
  <2> DEFINE none == <<>>
  <2>4. none \in Seq({}) /\ DOMAIN none = {}
    OBVIOUS
  <2>5. buffer = none
    BY <2>1
  <2> HIDE DEF none
  <2> QED
    BY <2>1, <2>3, <2>4, <2>5 DEF TraceInv, BufferTraced, IsSeq, TraceUnlessOverlapped
<1>2. TraceInv => TraceUnlessOverlapped
  BY DEF TraceInv
<1> QED
  BY <1>1, <1>2, TraceStep, PTL DEF Spec
=============================================================================
