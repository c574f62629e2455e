----------------------------- MODULE PySdkProofs -----------------------------
(***************************************************************************)
(* Proofs about the Python SDK: init(), for every set of arguments and any *)
(* number of calls, and the events of a span, for all attributes.          *)
(***************************************************************************)
EXTENDS PySdk, EventRecordProofs

(* What from_config may be called with. *)
Configs == {Config(Builder(opts)) : opts \in {o \in InitOptions : Builds(Builder(o))}}

EngineInv ==
    /\ workers \in Seq(Configs)
    /\ instance = IF workers = <<>> THEN None ELSE workers[1]

(* An option that is None leaves the default; build() checks the result,   *)
(* and decides about TLS if nobody has.                                    *)
LEMMA ConfigSound ==
    ASSUME NEW config \in Configs
    PROVE  /\ config # None
           /\ config.batch_size \in Nat \ {0}
           /\ config.queue_capacity \in Nat
           /\ config.queue_capacity >= config.batch_size
           /\ config.tls \in BOOLEAN
<1>1. PICK opts \in InitOptions :
          Builds(Builder(opts)) /\ config = Config(Builder(opts))
  BY DEF Configs
<1> DEFINE b == Builder(opts)
<1>2. /\ opts.batch_size \in Sizes /\ opts.queue_capacity \in Capacities /\ opts.tls \in Tls
      /\ {"batch_size", "queue_capacity", "tls"} \subseteq DOMAIN opts
  BY DEF InitOptions
<1>3. /\ b.batch_size = IF opts.batch_size # None THEN opts.batch_size ELSE 256
      /\ b.queue_capacity = IF opts.queue_capacity # None THEN opts.queue_capacity ELSE 8192
      /\ b.tls = IF opts.tls # None THEN opts.tls ELSE None
      /\ b = [f \in DOMAIN b |-> b[f]]
      /\ {"batch_size", "queue_capacity", "tls", "environment"} \subseteq DOMAIN b
  BY <1>2 DEF Builder, NewBuilder
<1>4. b.batch_size \in Nat \ {0} /\ b.queue_capacity \in Nat /\ b.tls \in BOOLEAN \cup {None}
  BY <1>1, <1>2, <1>3, PySdkAssumption DEF Builds
<1> HIDE DEF b
<1>5. /\ config.batch_size = b.batch_size
      /\ config.queue_capacity = b.queue_capacity
      /\ config.tls = IF b.tls = None THEN tls_from_endpoint(b.endpoint) ELSE b.tls
  <2> DEFINE c == [b EXCEPT !.environment = IF @ = None THEN "production" ELSE @]
  <2>1. config = [c EXCEPT !.tls = IF @ = None THEN tls_from_endpoint(b.endpoint) ELSE @]
    BY <1>1 DEF Config, b
  <2>2. /\ DOMAIN c = DOMAIN b
        /\ \A f \in DOMAIN b : f # "environment" => c[f] = b[f]
        /\ c = [f \in DOMAIN c |-> c[f]]
    BY <1>3
  <2> HIDE DEF c
  <2>3. config.tls = IF c.tls = None THEN tls_from_endpoint(b.endpoint) ELSE c.tls
    BY <1>3, <2>1, <2>2
  <2>4. \A f \in DOMAIN b : f # "tls" => config[f] = c[f]
    BY <2>1, <2>2
  <2> QED
    BY <1>3, <2>2, <2>3, <2>4
<1>6. config # None
  BY <1>1, NoneAssumption
<1>7. b.queue_capacity >= b.batch_size
  BY <1>1 DEF Builds, b
<1>8. config.tls \in BOOLEAN
  <2>1. tls_from_endpoint(b.endpoint) \in BOOLEAN
    BY DEF tls_from_endpoint
  <2>2. config.tls = tls_from_endpoint(b.endpoint) \/ (config.tls = b.tls /\ b.tls # None)
    BY <1>5, Zenon
  <2> QED
    BY <1>4, <2>1, <2>2, Zenon
<1> QED
  BY <1>4, <1>5, <1>6, <1>7, <1>8

LEMMA EngineStep == EngineInv /\ [Next]_vars => EngineInv'
<1> SUFFICES ASSUME EngineInv, [Next]_vars PROVE EngineInv'
  OBVIOUS
<1>1. CASE InitBuilds
  <2>1. PICK config \in Configs :
            /\ workers' = Append(workers, config)
            /\ instance' = IF instance = None THEN config ELSE instance
    BY <1>1 DEF InitBuilds, Configs
  <2>2. workers' \in Seq(Configs) /\ workers' # <<>>
    BY <2>1 DEF EngineInv
  <2>3. CASE workers = <<>>
    BY <2>1, <2>2, <2>3 DEF EngineInv
  <2>4. CASE workers # <<>>
    <3>1. workers[1] \in Configs /\ workers'[1] = workers[1]
      BY <2>1, <2>4 DEF EngineInv
    <3> QED
      BY <2>1, <2>2, <2>4, <3>1, ConfigSound DEF EngineInv
  <2> QED
    BY <2>3, <2>4
<1>2. CASE UNCHANGED <<instance, workers>>
  BY <1>2 DEF EngineInv
<1>3. [Next]_vars => InitBuilds \/ UNCHANGED <<instance, workers>>
  BY DEF Next, vars, InitFails, PatchLogging, With, Metric, Span, Log, SpanEnd, SpanLog,
         LoggingCall
<1> QED
  BY <1>1, <1>2, <1>3

(* Whatever init() is called with, from whatever thread and however often: *)
(* each engine that starts satisfies what BatchWorker assumes of its       *)
(* configuration, and INSTANCE is the first (sdk-python/src/lib.rs:265).   *)
THEOREM EngineConfiguredHolds == Spec => []EngineConfigured
<1>1. Init => EngineInv
  BY DEF Init, EngineInv
<1>2. EngineInv => EngineConfigured
  <2> SUFFICES ASSUME EngineInv PROVE EngineConfigured
    OBVIOUS
  <2>1. \A i \in DOMAIN workers : workers[i] \in Configs
    BY DEF EngineInv
  <2> QED
    BY <2>1, ConfigSound DEF EngineInv, EngineConfigured
<1> QED
  BY <1>1, <1>2, EngineStep, PTL DEF Spec

-----------------------------------------------------------------------------
(* The rows of a span. *)

(* One of the two loops of emit_event. *)
LEMMA BindKeeps ==
    ASSUME NEW e, IsEvent(e), NEW m
    PROVE  /\ IsEvent(Bind(e, m))
           /\ \A k \in Fixed : Bind(e, m)[k] = e[k]
           /\ \A f \in Fields :
                 Bind(e, m)[f] = IF f \in Matched /\ f \in DOMAIN m THEN m[f] ELSE e[f]
           /\ Bind(e, m).attributes = Except(m, Matched) @@ e.attributes
<1> DEFINE o == Only(m, Matched)
           c == SetFields(e, o)
<1>1. DOMAIN o = DOMAIN m \cap Matched /\ \A k \in DOMAIN o : o[k] = m[k]
  BY DEF Only
<1>2. DOMAIN o \subseteq Fields
  BY <1>1 DEF Matched, Fields
<1> HIDE DEF o
<1>3. /\ IsEvent(c) /\ \A k \in Fixed \cup {"attributes"} : c[k] = e[k]
      /\ \A f \in Fields : c[f] = IF f \in DOMAIN o THEN o[f] ELSE e[f]
  BY <1>2, SetFieldsKeeps
<1> HIDE DEF c
<1>4. Bind(e, m) = SetAttrs(c, Except(m, Matched))
  BY DEF Bind, o, c
<1>5. /\ IsEvent(Bind(e, m)) /\ \A k \in Fixed \cup Fields : Bind(e, m)[k] = c[k]
      /\ Bind(e, m).attributes = Except(m, Matched) @@ c.attributes
  BY <1>3, <1>4, SetAttrsKeeps
<1> QED
  BY <1>1, <1>3, <1>5

(* A row with these attributes: the matched ones are columns, the others   *)
(* keep their default.                                                     *)
Shows(row, attrs) ==
    /\ \A f \in Fields :
          row[f] = IF f \in Matched /\ f \in DOMAIN attrs THEN attrs[f]
                   ELSE IF f = "kind" THEN "log" ELSE ""
    /\ DOMAIN row.attributes = DOMAIN attrs \ Matched
    /\ \A k \in DOMAIN row.attributes : row.attributes[k] = attrs[k]

(* The two loops of emit_event are one, over both maps laid over each      *)
(* other.                                                                  *)
LEMMA RowShows ==
    ASSUME NEW op, NEW level, NEW base, NEW extra
    PROVE  LET row == EmitEvent(op, level, base, extra)
           IN  /\ Shows(row, extra @@ base)
               /\ row.op = op /\ row.severity = severity_to_string(to_proto(level))
<1> DEFINE e == LogEvent(instance, op, level)
           b == Bind(e, base)
           x == Bind(b, extra)
           row == EmitEvent(op, level, base, extra)
           attrs == extra @@ base
<1>1. /\ IsEvent(e) /\ e.op = op /\ e.severity = to_proto(level) /\ e.attributes = <<>>
      /\ \A f \in Fields : e[f] = IF f = "kind" THEN "log" ELSE ""
  <2>1. Blanks(e, op, level, "log")
    BY NewEvents
  <2> QED
    BY <2>1 DEF Blanks
<1> HIDE DEF e
<1>2. /\ IsEvent(b) /\ b.op = op /\ b.severity = to_proto(level)
      /\ \A f \in Fields : b[f] = IF f \in Matched /\ f \in DOMAIN base THEN base[f] ELSE e[f]
      /\ b.attributes = Except(base, Matched) @@ e.attributes
  BY <1>1, BindKeeps DEF Fixed
<1> HIDE DEF b
<1>3. /\ IsEvent(x) /\ x.op = op /\ x.severity = to_proto(level)
      /\ \A f \in Fields : x[f] = IF f \in Matched /\ f \in DOMAIN extra THEN extra[f] ELSE b[f]
      /\ x.attributes = Except(extra, Matched) @@ b.attributes
  BY <1>2, BindKeeps DEF Fixed
<1>4. row = Row(x)
  BY DEF EmitEvent, e, b
<1> HIDE DEF x, row
<1>5. /\ \A k \in Fields \cup {"op", "attributes"} : row[k] = x[k]
      /\ row.severity = severity_to_string(to_proto(level))
  BY <1>3, <1>4, RowKeeps
<1>6. /\ DOMAIN attrs = DOMAIN extra \cup DOMAIN base
      /\ \A k \in DOMAIN attrs : attrs[k] = IF k \in DOMAIN extra THEN extra[k] ELSE base[k]
  BY DEF @@
<1> DEFINE under == b.attributes
           own   == Except(base, Matched)
           added == Except(extra, Matched)
           none  == e.attributes
<1>7. /\ DOMAIN own = DOMAIN base \ Matched /\ \A k \in DOMAIN own : own[k] = base[k]
      /\ DOMAIN added = DOMAIN extra \ Matched /\ \A k \in DOMAIN added : added[k] = extra[k]
  BY DEF Except
<1>8. DOMAIN none = {}
  <2>1. DOMAIN <<>> = {}
    OBVIOUS
  <2> QED
    BY <1>1, <2>1, Zenon
<1>9. under = own @@ none /\ row.attributes = added @@ under
  BY <1>2, <1>3, <1>5
<1> HIDE DEF own, added, none, under
<1>10. DOMAIN under = DOMAIN own /\ \A k \in DOMAIN own : under[k] = own[k]
  BY <1>8, <1>9 DEF @@
<1>11. /\ DOMAIN row.attributes = DOMAIN added \cup DOMAIN own
       /\ \A k \in DOMAIN row.attributes :
             row.attributes[k] = IF k \in DOMAIN added THEN added[k] ELSE own[k]
  BY <1>9, <1>10 DEF @@
<1> HIDE DEF attrs
<1>12. /\ DOMAIN row.attributes = DOMAIN attrs \ Matched
       /\ \A k \in DOMAIN row.attributes : row.attributes[k] = attrs[k]
  BY <1>6, <1>7, <1>11
<1>13. ASSUME NEW f \in Fields
       PROVE  row[f] = IF f \in Matched /\ f \in DOMAIN attrs THEN attrs[f]
                       ELSE IF f = "kind" THEN "log" ELSE ""
  <2>1. /\ row[f] = x[f] /\ e[f] = IF f = "kind" THEN "log" ELSE ""
        /\ x[f] = IF f \in Matched /\ f \in DOMAIN extra THEN extra[f] ELSE b[f]
        /\ b[f] = IF f \in Matched /\ f \in DOMAIN base THEN base[f] ELSE e[f]
    BY <1>1, <1>2, <1>3, <1>5
  <2> QED
    BY <1>6, <2>1
<1>14. Shows(row, attrs) /\ row.op = op
  BY <1>3, <1>5, <1>12, <1>13 DEF Shows
<1> QED
  BY <1>5, <1>14 DEF row, attrs

(* A row agrees with the first of its span on whatever extra does not set. *)
Agrees(row, start, extra) ==
    /\ \A f \in Fields \ DOMAIN extra : row[f] = start[f]
    /\ \A k \in DOMAIN start.attributes \ DOMAIN extra :
          k \in DOMAIN row.attributes /\ row.attributes[k] = start.attributes[k]

(* The row of more attributes, laid over those of the span, agrees.        *)
LEMMA OverAgrees ==
    ASSUME NEW start, NEW row, NEW attrs, NEW extra,
           Shows(start, attrs), Shows(row, extra @@ attrs)
    PROVE  Agrees(row, start, extra)
<1> DEFINE over == extra @@ attrs
<1>1. /\ DOMAIN over = DOMAIN extra \cup DOMAIN attrs
      /\ \A k \in DOMAIN attrs \ DOMAIN extra : over[k] = attrs[k]
  BY DEF @@
<1>2. Shows(row, over)
  OBVIOUS
<1> HIDE DEF over
<1>3. ASSUME NEW f \in Fields \ DOMAIN extra PROVE row[f] = start[f]
  <2> DEFINE value(m) == IF f \in Matched /\ f \in DOMAIN m THEN m[f]
                         ELSE IF f = "kind" THEN "log" ELSE ""
  <2>1. row[f] = value(over) /\ start[f] = value(attrs)
    BY <1>2 DEF Shows
  <2>2. value(over) = value(attrs)
    BY <1>1
  <2> HIDE DEF value
  <2> QED
    BY <2>1, <2>2
<1>4. ASSUME NEW k \in DOMAIN start.attributes \ DOMAIN extra
      PROVE  k \in DOMAIN row.attributes /\ row.attributes[k] = start.attributes[k]
  <2>1. k \in DOMAIN attrs \ Matched /\ start.attributes[k] = attrs[k]
    BY <1>4 DEF Shows
  <2>2. k \in DOMAIN over \ Matched /\ over[k] = attrs[k]
    BY <1>1, <1>4, <2>1
  <2> QED
    BY <1>2, <2>1, <2>2 DEF Shows
<1> QED
  BY <1>3, <1>4 DEF Agrees

(* Where nothing is laid over the attributes, they are the row's. *)
LEMMA ShowsBase ==
    ASSUME NEW op, NEW level, NEW base
    PROVE  Shows(EmitEvent(op, level, base, <<>>), base)
<1> DEFINE none == <<>>
           over == none @@ base
           row  == EmitEvent(op, level, base, none)
<1>1. Shows(row, over)
  BY RowShows
<1>2. DOMAIN over = DOMAIN base /\ \A k \in DOMAIN base : over[k] = base[k]
  <2>1. DOMAIN none = {}
    OBVIOUS
  <2> HIDE DEF none
  <2> QED
    BY <2>1 DEF @@
<1> HIDE DEF row, over
<1>3. Shows(row, base)
  BY <1>1, <1>2 DEF Shows
<1> QED
  BY <1>3 DEF row, none

-----------------------------------------------------------------------------
(* Every span has its first row, and the last event agrees with it. *)
FamilyInv ==
    /\ \E S : spans \in Seq(S)
    /\ \A s \in DOMAIN spans : Shows(spans[s].start, spans[s].attrs)
    /\ last # None /\ last.span # 0 =>
          /\ last.span \in DOMAIN spans
          /\ Agrees(last.row, spans[last.span].start, last.extra)

LEMMA FamilyStep == FamilyInv /\ [Next]_vars => FamilyInv'
<1> SUFFICES ASSUME FamilyInv, [Next]_vars PROVE FamilyInv'
  OBVIOUS
<1>1. CASE \E l \in DOMAIN loggers, kw \in Kwargs : Span(l, kw)
  <2>1. PICK l \in DOMAIN loggers, kw \in Kwargs : Span(l, kw)
    BY <1>1
  <2>2. PICK id, attrs, path, row :
            /\ row = EmitEvent("span:start", "info", attrs, <<>>)
            /\ spans' = Append(spans, [id |-> id, attrs |-> attrs, path |-> path,
                                       start |-> row])
            /\ last' = [span |-> Len(spans) + 1, level |-> "info", extra |-> <<>>,
                        path |-> path, row |-> row]
    BY <2>1 DEF Span
  <2> DEFINE new == [id |-> id, attrs |-> attrs, path |-> path, start |-> row]
  <2>3. Shows(new.start, new.attrs)
    BY <2>2, ShowsBase
  <2>4. new.start = row /\ spans' = Append(spans, new)
    BY <2>2
  <2> HIDE DEF new
  <2>5. PICK S : spans \in Seq(S)
    BY DEF FamilyInv
  <2>6. spans \in Seq(S \cup {new})
    BY <2>5
  <2>7. /\ spans' \in Seq(S \cup {new})
        /\ DOMAIN spans' = DOMAIN spans \cup {Len(spans) + 1}
        /\ spans'[Len(spans) + 1] = new
        /\ \A s \in DOMAIN spans : spans'[s] = spans[s]
    BY <2>4, <2>6
  <2>8. Agrees(row, new.start, <<>>)
    BY <2>4 DEF Agrees
  <2>9. \A s \in DOMAIN spans' : Shows(spans'[s].start, spans'[s].attrs)
    BY <2>3, <2>7 DEF FamilyInv
  <2>10. /\ last'.span \in DOMAIN spans'
         /\ Agrees(last'.row, spans'[last'.span].start, last'.extra)
    BY <2>2, <2>7, <2>8
  <2> QED
    BY <2>7, <2>9, <2>10 DEF FamilyInv
<1>2. CASE \E s \in DOMAIN spans : SpanEnd(s) \/ \E kw \in Kwargs : SpanLog(s, kw)
  <2>1. PICK s \in DOMAIN spans : SpanEnd(s) \/ \E kw \in Kwargs : SpanLog(s, kw)
    BY <1>2
  <2>2. spans' = spans /\ last'.span = s
    BY <2>1 DEF SpanEnd, SpanLog
  <2>3. Shows(last'.row, last'.extra @@ spans[s].attrs)
    BY <2>1, RowShows, ShowsBase DEF SpanEnd, SpanLog
  <2>4. Agrees(last'.row, spans[s].start, last'.extra)
    BY <2>3, OverAgrees DEF FamilyInv
  <2> QED
    BY <2>2, <2>4 DEF FamilyInv
<1>3. CASE \/ \E l \in DOMAIN loggers, kw \in Kwargs : Metric(l, kw)
           \/ \E l \in DOMAIN loggers, kw \in Kwargs, level \in LogLevels : Log(l, level, kw)
           \/ \E levelno \in {0, 9, 10, 25, 30, 45, 50, 60} : LoggingCall(levelno)
  <2>1. spans' = spans /\ last'.span = 0
    BY <1>3 DEF Metric, Log, LoggingCall
  <2> QED
    BY <2>1 DEF FamilyInv
<1>4. CASE UNCHANGED <<spans, last>>
  BY <1>4 DEF FamilyInv
<1>5. CASE \/ InitFails \/ InitBuilds \/ PatchLogging \/ UNCHANGED vars
           \/ \E l \in DOMAIN loggers, kw \in Kwargs : With(l, kw)
  BY <1>4, <1>5 DEF InitFails, InitBuilds, PatchLogging, With, vars
<1> QED
  BY <1>1, <1>2, <1>3, <1>5 DEF Next

(* The events of a span agree with its first on every column and attribute *)
(* they do not set themselves, for any nesting of with_, keyword span_ids  *)
(* and repeated end() (sdk-python/src/lib.rs:154-253).                  *)
THEOREM SpanFamilyHolds == Spec => []SpanFamily
<1>1. Init => FamilyInv
  <2> SUFFICES ASSUME Init PROVE FamilyInv
    OBVIOUS
  <2>1. spans \in Seq({}) /\ DOMAIN spans = {} /\ last = None
    BY DEF Init
  <2> QED
    BY <2>1 DEF FamilyInv
<1>2. FamilyInv => SpanFamily
  BY DEF FamilyInv, SpanFamily, Agrees
<1> QED
  BY <1>1, <1>2, FamilyStep, PTL DEF Spec

-----------------------------------------------------------------------------
(* What the rows show. *)

(* Inherited, of one row. *)
Inherits(row, path, level) ==
    LET columns == IF row.op = "metric" THEN {} ELSE Matched
    IN  /\ row.severity = level
        /\ \A k \in DOMAIN row.attributes :
              k \in Bound(path) \ columns /\ row.attributes[k] = Innermost(path, k)
        /\ \A k \in Promised :
              \/ row[k] = ""
              \/ k \in Bound(path) /\ row[k] = Innermost(path, k)
        /\ \A k \in Bound(path) :
              \/ k \in DOMAIN row.attributes
              \/ k \in Promised /\ row[k] = Innermost(path, k)

LEMMA LevelsKnown ==
    /\ "info" \in KnownLevels /\ LogLevels \subseteq KnownLevels
    /\ \A levelno \in {0, 9, 10, 25, 30, 45, 50, 60} : HandlerLevel(levelno) \in KnownLevels
<1>1. /\ DOMAIN Levels = 1..6 /\ Levels[4 - 1] = "info" /\ Levels[6] = "fatal"
      /\ Levels[1] = "trace"
  BY DEF Levels
<1>2. \A n \in 1..6 : Levels[n] \in KnownLevels
  BY <1>1 DEF KnownLevels
<1>3. ASSUME NEW levelno \in {0, 9, 10, 25, 30, 45, 50, 60}
      PROVE  HandlerLevel(levelno) \in KnownLevels
  <2>1. CASE levelno >= 50
    BY <1>1, <1>2, <2>1 DEF HandlerLevel
  <2>2. CASE levelno \in {10, 25, 30, 45}
    <3>1. levelno \div 10 + 1 \in 1..6
      BY <2>2
    <3> QED
      BY <1>2, <2>2, <3>1 DEF HandlerLevel
  <2>3. CASE levelno \in {0, 9}
    BY <1>1, <1>2, <2>3 DEF HandlerLevel
  <2> QED
    BY <2>1, <2>2, <2>3
<1> QED
  BY <1>1, <1>2, <1>3, PySdkAssumption DEF KnownLevels

LEMMA EventInherits ==
    ASSUME NEW op, op # "metric", NEW level \in KnownLevels, NEW base, NEW extra, NEW path,
           Layered(extra @@ base, path)
    PROVE  Inherits(EmitEvent(op, level, base, extra), path, level)
<1> DEFINE row   == EmitEvent(op, level, base, extra)
           attrs == extra @@ base
<1>1. Shows(row, attrs) /\ row.op = op /\ row.severity = level
  BY RowShows, SeverityNamed
<1>2. DOMAIN attrs = Bound(path) /\ \A k \in Bound(path) : attrs[k] = Innermost(path, k)
  BY LayeredInnermost DEF Layered
<1>3. Promised \subseteq Fields \ {"kind"} /\ Matched \subseteq Promised
  BY DEF Promised, Matched, Fields
<1> HIDE DEF row, attrs
<1>4. DOMAIN row.attributes = Bound(path) \ Matched
  BY <1>1, <1>2 DEF Shows
<1>5. ASSUME NEW k \in DOMAIN row.attributes
      PROVE  k \in Bound(path) \ Matched /\ row.attributes[k] = Innermost(path, k)
  <2>1. row.attributes[k] = attrs[k]
    BY <1>1, <1>4 DEF Shows
  <2> QED
    BY <1>2, <1>4, <2>1
<1>6. ASSUME NEW k \in Matched, k \in Bound(path) PROVE row[k] = Innermost(path, k)
  <2>1. row[k] = attrs[k]
    BY <1>1, <1>2, <1>3, <1>6 DEF Shows
  <2> QED
    BY <1>2, <1>6, <2>1
<1>8. ASSUME NEW k \in Promised, k \notin Matched \cap Bound(path) PROVE row[k] = ""
  BY <1>1, <1>2, <1>3, <1>8 DEF Shows
<1>7. Inherits(row, path, level)
  BY <1>1, <1>3, <1>4, <1>5, <1>6, <1>8 DEF Inherits
<1> QED
  BY <1>7 DEF row

(* Likewise where all of the attributes come from the logger or the span. *)
LEMMA BaseInherits ==
    ASSUME NEW op, op # "metric", NEW level \in KnownLevels, NEW base, NEW path,
           Layered(base, path)
    PROVE  Inherits(EmitEvent(op, level, base, <<>>), path, level)
<1> DEFINE none == <<>>
           over == none @@ base
<1>1. DOMAIN none = {}
  OBVIOUS
<1> HIDE DEF none
<1>2. DOMAIN over = DOMAIN base /\ \A k \in DOMAIN base : over[k] = base[k]
  BY <1>1 DEF @@
<1> HIDE DEF over
<1>3. Layered(over, path)
  BY <1>2 DEF Layered
<1> QED
  BY <1>3, EventInherits DEF over, none

(* metric() binds the attributes of the logger and then those of the call. *)
LEMMA MetricInherits ==
    ASSUME NEW base, NEW extra, NEW path, NEW row, Layered(extra @@ base, path),
           row = Row(SetAttrs(SetAttrs(MetricEvent(instance, "m"), base), extra))
    PROVE  Inherits(row, path, "info")
<1> DEFINE e == MetricEvent(instance, "m")
           b == SetAttrs(e, base)
           x == SetAttrs(b, extra)
           attrs == extra @@ base
<1>1. /\ IsEvent(e) /\ e.op = "metric" /\ e.severity = to_proto("info")
      /\ e.attributes = <<>>
      /\ \A f \in Fields : e[f] = IF f = "kind" THEN "metric" ELSE ""
  <2>1. Blanks(e, "metric", "info", "metric")
    BY NewEvents
  <2> QED
    BY <2>1 DEF Blanks
<1> HIDE DEF e
<1>2. /\ IsEvent(b) /\ \A k \in Fixed \cup Fields : b[k] = e[k]
      /\ b.attributes = base @@ e.attributes
  BY <1>1, SetAttrsKeeps
<1> HIDE DEF b
<1>3. /\ IsEvent(x) /\ \A k \in Fixed \cup Fields : x[k] = b[k]
      /\ x.attributes = extra @@ b.attributes
  BY <1>2, SetAttrsKeeps
<1>4. row = Row(x)
  BY DEF x, b, e
<1> HIDE DEF x
<1>5. /\ \A k \in Fields \cup {"op", "attributes"} : row[k] = x[k]
      /\ row.severity = severity_to_string(x.severity)
  BY <1>3, <1>4, RowKeeps
<1>6. row.op = "metric" /\ row.severity = "info"
  <2>1. x.op = "metric" /\ x.severity = to_proto("info")
    BY <1>1, <1>2, <1>3 DEF Fixed
  <2> QED
    BY <1>5, <2>1, LevelsKnown, SeverityNamed
<1> DEFINE under == b.attributes
           none  == e.attributes
<1>7. DOMAIN none = {}
  <2>1. DOMAIN <<>> = {}
    OBVIOUS
  <2> QED
    BY <1>1, <2>1, Zenon
<1>8. under = base @@ none /\ row.attributes = extra @@ under
  BY <1>2, <1>3, <1>5
<1> HIDE DEF under, none
<1>9. DOMAIN under = DOMAIN base /\ \A k \in DOMAIN base : under[k] = base[k]
  BY <1>7, <1>8 DEF @@
<1>10. /\ DOMAIN attrs = DOMAIN extra \cup DOMAIN base
       /\ \A k \in DOMAIN attrs : attrs[k] = IF k \in DOMAIN extra THEN extra[k] ELSE base[k]
  BY DEF @@
<1>11. DOMAIN attrs = Bound(path) /\ \A k \in Bound(path) : attrs[k] = Innermost(path, k)
  BY LayeredInnermost DEF Layered
<1> HIDE DEF attrs
<1>12. /\ DOMAIN row.attributes = DOMAIN extra \cup DOMAIN base
       /\ \A k \in DOMAIN row.attributes :
             row.attributes[k] = IF k \in DOMAIN extra THEN extra[k] ELSE base[k]
  BY <1>8, <1>9 DEF @@
<1>13. /\ DOMAIN row.attributes = Bound(path)
       /\ \A k \in Bound(path) : row.attributes[k] = Innermost(path, k)
  BY <1>10, <1>11, <1>12
<1>14. ASSUME NEW k \in Promised PROVE row[k] = ""
  <2>1. k \in Fields \ {"kind"}
    BY DEF Promised, Matched, Fields
  <2> QED
    BY <1>1, <1>2, <1>3, <1>5, <2>1, ZenonT(30)
<1> QED
  BY <1>6, <1>13, <1>14 DEF Inherits

(* The attributes of every logger and span are those of its path. *)
BindingInv ==
    /\ IsSeq(loggers) /\ 1 \in DOMAIN loggers /\ loggers[1].path = <<>>
    /\ IsSeq(spans)
    /\ \A l \in DOMAIN loggers : Layered(loggers[l].base, loggers[l].path)
    /\ \A s \in DOMAIN spans : Layered(spans[s].attrs, spans[s].path)
    /\ Inherited

LEMMA InheritedByNext ==
    ASSUME last'.row.severity = last'.level, Inherits(last'.row, last'.path, last'.level)
    PROVE  Inherited'
BY DEF Inherits, Inherited

LEMMA BindingStep == BindingInv /\ [Next]_vars => BindingInv'
<1> SUFFICES ASSUME BindingInv, [Next]_vars PROVE BindingInv'
  OBVIOUS
<1>1. ASSUME NEW l \in DOMAIN loggers, NEW kw \in Kwargs, With(l, kw)
      PROVE  BindingInv'
  <2> DEFINE new == Logger(Str(kw) @@ loggers[l].base, Append(loggers[l].path, Str(kw)))
  <2>1. Layered(new.base, new.path)
    BY LayeredAppend DEF BindingInv, Logger
  <2>2. loggers' = Append(loggers, new) /\ UNCHANGED <<spans, last>>
    BY <1>1 DEF With
  <2> HIDE DEF new
  <2>3. /\ IsSeq(loggers') /\ DOMAIN loggers' = DOMAIN loggers \cup {Len(loggers) + 1}
        /\ Len(loggers) + 1 \notin DOMAIN loggers /\ loggers'[Len(loggers) + 1] = new
        /\ \A i \in DOMAIN loggers : loggers'[i] = loggers[i]
    BY <2>2, AppendAny DEF BindingInv, OneMore
  <2>4. \A i \in DOMAIN loggers' : Layered(loggers'[i].base, loggers'[i].path)
    BY <2>1, <2>3 DEF BindingInv
  <2>5. Inherited'
    BY <2>2 DEF BindingInv, Inherited
  <2> QED
    BY <2>2, <2>3, <2>4, <2>5 DEF BindingInv
<1>2. ASSUME NEW l \in DOMAIN loggers, NEW kw \in Kwargs, Span(l, kw)
      PROVE  BindingInv'
  <2>1. PICK id :
            LET attrs == Str(kw) @@ ("span_id" :> id) @@ loggers[l].base
                path  == loggers[l].path \o <<"span_id" :> id, Str(kw)>>
                row   == EmitEvent("span:start", "info", attrs, <<>>)
            IN  /\ spans' = Append(spans, [id |-> id, attrs |-> attrs, path |-> path,
                                           start |-> row])
                /\ last' = [span |-> Len(spans) + 1, level |-> "info", extra |-> <<>>,
                            path |-> path, row |-> row]
    BY <1>2 DEF Span
  <2> DEFINE fresh == "span_id" :> id
             two   == <<fresh, Str(kw)>>
             attrs == (Str(kw) @@ fresh) @@ loggers[l].base
             path  == loggers[l].path \o two
             row   == EmitEvent("span:start", "info", attrs, <<>>)
             new   == [id |-> id, attrs |-> attrs, path |-> path, start |-> row]
  <2>2. /\ spans' = Append(spans, new) /\ UNCHANGED loggers
        /\ last'.row = row /\ last'.path = path /\ last'.level = "info"
    BY <1>2, <2>1 DEF Span
  <2>3. new.attrs = attrs /\ new.path = path
    OBVIOUS
  <2>4. Layered(attrs, path)
    <3> HIDE DEF fresh
    <3>1. two = Append(<<fresh>>, Str(kw))
      OBVIOUS
    <3>2. Layered(Str(kw) @@ fresh, two)
      BY <3>1, LayeredOne, LayeredAppend
    <3> QED
      BY <3>2, LayeredConcat DEF BindingInv
  <2> HIDE DEF attrs, path, new
  <2>5. Inherits(row, path, "info")
    BY <2>4, BaseInherits, LevelsKnown
  <2>6. Inherited'
    BY <2>2, <2>5, InheritedByNext DEF Inherits
  <2>7. /\ IsSeq(spans') /\ DOMAIN spans' = DOMAIN spans \cup {Len(spans) + 1}
        /\ Len(spans) + 1 \notin DOMAIN spans /\ spans'[Len(spans) + 1] = new
        /\ \A i \in DOMAIN spans : spans'[i] = spans[i]
    BY <2>2, AppendAny DEF BindingInv, OneMore
  <2>8. \A s \in DOMAIN spans' : Layered(spans'[s].attrs, spans'[s].path)
    BY <2>3, <2>4, <2>7 DEF BindingInv
  <2> QED
    BY <2>2, <2>6, <2>7, <2>8 DEF BindingInv
<1>3. ASSUME NEW l \in DOMAIN loggers, NEW kw \in Kwargs, Metric(l, kw)
      PROVE  Inherited' /\ UNCHANGED <<loggers, spans>>
  <2> DEFINE path == Append(loggers[l].path, Str(kw))
  <2>1. Layered(Str(kw) @@ loggers[l].base, path)
    BY LayeredAppend DEF BindingInv
  <2>2. /\ last'.path = path /\ last'.level = "info"
        /\ last'.row = Row(SetAttrs(SetAttrs(MetricEvent(instance, "m"), loggers[l].base), Str(kw)))
    BY <1>3 DEF Metric
  <2> HIDE DEF path
  <2>3. Inherits(last'.row, path, "info")
    BY <2>1, <2>2, MetricInherits
  <2> QED
    BY <1>3, <2>2, <2>3, InheritedByNext DEF Metric, Inherits
<1>4. ASSUME NEW l \in DOMAIN loggers, NEW kw \in Kwargs, NEW level \in LogLevels,
             Log(l, level, kw)
      PROVE  Inherited' /\ UNCHANGED <<loggers, spans>>
  <2> DEFINE path == Append(loggers[l].path, Extract(kw))
  <2>1. Layered(Extract(kw) @@ loggers[l].base, path)
    BY LayeredAppend DEF BindingInv
  <2>2. /\ last'.path = path /\ last'.level = level
        /\ last'.row = EmitEvent("log", level, loggers[l].base, Extract(kw))
    BY <1>4 DEF Log
  <2> HIDE DEF path
  <2>3. Inherits(last'.row, path, level)
    BY <2>1, <2>2, EventInherits, LevelsKnown
  <2> QED
    BY <1>4, <2>2, <2>3, InheritedByNext DEF Log, Inherits
<1>5. ASSUME NEW s \in DOMAIN spans, NEW kw \in Kwargs, SpanLog(s, kw)
      PROVE  Inherited' /\ UNCHANGED <<loggers, spans>>
  <2> DEFINE path == Append(spans[s].path, Extract(kw))
  <2>1. Layered(Extract(kw) @@ spans[s].attrs, path)
    BY LayeredAppend DEF BindingInv
  <2>2. /\ last'.path = path /\ last'.level = "info"
        /\ last'.row = EmitEvent("log", "info", spans[s].attrs, Extract(kw))
    BY <1>5 DEF SpanLog
  <2> HIDE DEF path
  <2>3. Inherits(last'.row, path, "info")
    BY <2>1, <2>2, EventInherits, LevelsKnown
  <2> QED
    BY <1>5, <2>2, <2>3, InheritedByNext DEF SpanLog, Inherits
<1>6. ASSUME NEW s \in DOMAIN spans, SpanEnd(s)
      PROVE  Inherited' /\ UNCHANGED <<loggers, spans>>
  <2> DEFINE path == Append(spans[s].path, EndAttrs)
             over == EndAttrs @@ spans[s].attrs
  <2>1. Layered(over, path)
    BY LayeredAppend DEF BindingInv
  <2>2. /\ last'.path = path /\ last'.level = "info"
        /\ last'.row = EmitEvent("span:end", "info", over, <<>>)
    BY <1>6 DEF SpanEnd
  <2> HIDE DEF path, over
  <2>3. Inherits(last'.row, path, "info")
    BY <2>1, <2>2, BaseInherits, LevelsKnown
  <2> QED
    BY <1>6, <2>2, <2>3, InheritedByNext DEF SpanEnd, Inherits
<1>7. ASSUME NEW levelno \in {0, 9, 10, 25, 30, 45, 50, 60}, LoggingCall(levelno)
      PROVE  Inherited' /\ UNCHANGED <<loggers, spans>>
  <2>1. Layered(loggers[1].base, <<>>)
    BY DEF BindingInv
  <2>2. /\ last'.path = <<>> /\ last'.level = HandlerLevel(levelno)
        /\ last'.row = EmitEvent("log", HandlerLevel(levelno), loggers[1].base, <<>>)
    BY <1>7 DEF LoggingCall
  <2>3. Inherits(last'.row, <<>>, HandlerLevel(levelno))
    BY <2>1, <2>2, BaseInherits, LevelsKnown
  <2> QED
    BY <1>7, <2>2, <2>3, InheritedByNext DEF LoggingCall, Inherits
<1>8. ASSUME Inherited', UNCHANGED <<loggers, spans>> PROVE BindingInv'
  BY <1>8 DEF BindingInv
<1>9. CASE InitFails \/ InitBuilds \/ PatchLogging \/ UNCHANGED vars
  <2>1. UNCHANGED <<loggers, spans, last>>
    BY <1>9 DEF InitFails, InitBuilds, PatchLogging, vars
  <2>2. Inherited'
    BY <2>1 DEF BindingInv, Inherited
  <2> QED
    BY <1>8, <2>1, <2>2
<1> QED
  BY <1>1, <1>2, <1>3, <1>4, <1>5, <1>6, <1>7, <1>8, <1>9 DEF Next

(* Every row shows, for each key, the innermost value bound to it, however *)
(* loggers and spans are derived from one another, and nothing else; and   *)
(* the level it was logged at (sdk-python/src/lib.rs, emit_event).         *)
THEOREM InheritedHolds == Spec => []Inherited
<1>1. Init => BindingInv
  <2> SUFFICES ASSUME Init PROVE BindingInv
    OBVIOUS
  <2> DEFINE none   == <<>>
             root   == Logger(none, none)
             one(x) == <<x>>
  <2>1. spans = none /\ loggers = one(root) /\ last = None
    BY DEF Init
  <2>2. none \in Seq({}) /\ DOMAIN none = {}
    OBVIOUS
  <2>3. \A x : one(x) \in Seq({x}) /\ DOMAIN one(x) = {1} /\ one(x)[1] = x
    OBVIOUS
  <2>4. root.base = none /\ root.path = none
    BY DEF Logger
  <2>5. Layered(root.base, root.path)
    BY <2>4, LayeredNone
  <2> HIDE DEF root, one
  <2>6. IsSeq(spans) /\ IsSeq(loggers) /\ DOMAIN loggers = {1} /\ loggers[1] = root
    BY <2>1, <2>2, <2>3 DEF IsSeq
  <2>7. Inherited
    BY <2>1 DEF Inherited
  <2> QED
    BY <2>1, <2>2, <2>4, <2>5, <2>6, <2>7 DEF BindingInv
<1>2. BindingInv => Inherited
  BY DEF BindingInv
<1> QED
  BY <1>1, <1>2, BindingStep, PTL DEF Spec
=============================================================================
