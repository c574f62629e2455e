-------------------------- MODULE EventRecordProofs --------------------------
(***************************************************************************)
(* Lemmas about events, rows and layered maps that the proofs of both      *)
(* bindings rest on.                                                       *)
(***************************************************************************)
EXTENDS EventRecord, TLAPS

(* A sequence, of whatever. *)
IsSeq(s) == \E S : s \in Seq(S)

(* t is s and one more. *)
OneMore(s, t, x) ==
    /\ IsSeq(t)
    /\ Len(s) + 1 \notin DOMAIN s
    /\ DOMAIN t = DOMAIN s \cup {Len(s) + 1}
    /\ t[Len(s) + 1] = x
    /\ \A i \in DOMAIN s : t[i] = s[i]

LEMMA AppendAny ==
    ASSUME NEW s, IsSeq(s), NEW x
    PROVE  OneMore(s, Append(s, x), x)
<1>1. PICK S : s \in Seq(S)
  BY DEF IsSeq
<1>2. s \in Seq(S \cup {x})
  BY <1>1
<1>3. Append(s, x) \in Seq(S \cup {x})
  BY <1>2
<1> QED
  BY <1>2, <1>3 DEF IsSeq, OneMore

(* attrs is the maps of path laid over each other: each key has the value  *)
(* of the last of them that binds it.                                      *)
Layered(attrs, path) ==
    /\ IsSeq(path)
    /\ DOMAIN attrs = Bound(path)
    /\ \A k \in DOMAIN attrs : \E i \in DOMAIN path :
          /\ k \in DOMAIN path[i] /\ attrs[k] = path[i][k]
          /\ \A j \in DOMAIN path : k \in DOMAIN path[j] => j <= i

LEMMA LayeredInnermost ==
    ASSUME NEW attrs, NEW path, Layered(attrs, path)
    PROVE  \A k \in Bound(path) : attrs[k] = Innermost(path, k)
<1> SUFFICES ASSUME NEW k \in Bound(path) PROVE attrs[k] = Innermost(path, k)
  OBVIOUS
<1> DEFINE binding == {i \in DOMAIN path : k \in DOMAIN path[i]}
<1>1. PICK i \in binding : attrs[k] = path[i][k] /\ \A j \in binding : j <= i
  BY DEF Layered
<1>2. DOMAIN path \subseteq Nat
  BY DEF Layered, IsSeq
<1>3. binding \subseteq Nat
  BY <1>2
<1> HIDE DEF binding
<1>4. Max(binding) = i
  <2>1. \E x \in binding : \A y \in binding : x >= y
    BY <1>1, <1>3
  <2>2. PICK x \in binding : x = Max(binding) /\ \A y \in binding : x >= y
    BY <2>1 DEF Max
  <2>3. x >= i /\ x <= i /\ x \in Nat /\ i \in Nat
    BY <1>1, <1>3, <2>2
  <2>4. x = i
    BY <2>3
  <2> QED
    BY <2>2, <2>4
<1> QED
  BY <1>1, <1>4 DEF Innermost, binding

LEMMA LayeredNone ==
    ASSUME NEW attrs, NEW path, attrs = <<>>, path = <<>>
    PROVE  Layered(attrs, path)
<1>1. DOMAIN attrs = {} /\ DOMAIN path = {} /\ path \in Seq({})
  OBVIOUS
<1> QED
  BY <1>1 DEF Layered, Bound, IsSeq

LEMMA LayeredOne == ASSUME NEW m PROVE Layered(m, <<m>>)
<1> DEFINE path == <<m>>
<1>1. path \in Seq({m}) /\ DOMAIN path = {1} /\ path[1] = m
  OBVIOUS
<1> HIDE DEF path
<1>2. Bound(path) = DOMAIN m
  BY <1>1 DEF Bound
<1>3. \A k \in DOMAIN m : k \in DOMAIN path[1] /\ m[k] = path[1][k]
  BY <1>1
<1>4. IsSeq(path)
  BY <1>1 DEF IsSeq
<1>5. Layered(m, path)
  BY <1>1, <1>2, <1>3, <1>4 DEF Layered
<1> QED
  BY <1>5 DEF path

(* Maps over maps. *)
LEMMA LayeredConcat ==
    ASSUME NEW under, NEW p, Layered(under, p), NEW over, NEW q, Layered(over, q)
    PROVE  Layered(over @@ under, p \o q)
<1> DEFINE attrs == over @@ under
           path  == p \o q
<1>1. PICK P, Q : p \in Seq(P) /\ q \in Seq(Q)
  BY DEF Layered, IsSeq
<1>2. p \in Seq(P \cup Q) /\ q \in Seq(P \cup Q)
  BY <1>1
<1>3. /\ Len(p) \in Nat /\ DOMAIN p = 1..Len(p)
      /\ Len(q) \in Nat /\ DOMAIN q = 1..Len(q)
  BY <1>1
<1>4. /\ path \in Seq(P \cup Q)
      /\ DOMAIN path = 1..(Len(p) + Len(q))
      /\ \A i \in DOMAIN p : path[i] = p[i]
      /\ \A i \in DOMAIN q : path[Len(p) + i] = q[i]
  BY <1>2, <1>3
<1>5. /\ DOMAIN attrs = DOMAIN over \cup DOMAIN under
      /\ \A k \in DOMAIN attrs : attrs[k] = IF k \in DOMAIN over THEN over[k] ELSE under[k]
  BY DEF @@
<1> HIDE DEF attrs, path
<1>6. \A i \in DOMAIN path :
          \/ i \in DOMAIN p
          \/ i - Len(p) \in DOMAIN q /\ i = Len(p) + (i - Len(p))
  BY <1>3, <1>4
<1>7. Bound(path) = Bound(p) \cup Bound(q)
  <2>1. ASSUME NEW k \in Bound(path) PROVE k \in Bound(p) \cup Bound(q)
    <3>1. PICK i \in DOMAIN path : k \in DOMAIN path[i]
      BY DEF Bound
    <3>2. CASE i \in DOMAIN p
      BY <1>4, <3>1, <3>2 DEF Bound
    <3>3. CASE i - Len(p) \in DOMAIN q /\ i = Len(p) + (i - Len(p))
      <4>1. path[i] = q[i - Len(p)]
        BY <1>4, <3>3
      <4> QED
        BY <3>1, <3>3, <4>1 DEF Bound
    <3> QED
      BY <1>6, <3>2, <3>3
  <2>2. ASSUME NEW k \in Bound(p) PROVE k \in Bound(path)
    <3>1. PICK i \in DOMAIN p : k \in DOMAIN p[i]
      BY DEF Bound
    <3>2. i \in DOMAIN path
      BY <1>3, <1>4
    <3> QED
      BY <1>4, <3>1, <3>2 DEF Bound
  <2>3. ASSUME NEW k \in Bound(q) PROVE k \in Bound(path)
    <3>1. PICK i \in DOMAIN q : k \in DOMAIN q[i]
      BY DEF Bound
    <3>2. Len(p) + i \in DOMAIN path
      BY <1>3, <1>4
    <3> QED
      BY <1>4, <3>1, <3>2 DEF Bound
  <2> QED
    BY <2>1, <2>2, <2>3
<1>8. ASSUME NEW k \in DOMAIN attrs
      PROVE  \E i \in DOMAIN path :
                /\ k \in DOMAIN path[i] /\ attrs[k] = path[i][k]
                /\ \A j \in DOMAIN path : k \in DOMAIN path[j] => j <= i
  <2>1. CASE k \in DOMAIN over
    <3>1. PICK i \in DOMAIN q : /\ k \in DOMAIN q[i] /\ over[k] = q[i][k]
                                /\ \A j \in DOMAIN q : k \in DOMAIN q[j] => j <= i
      BY <2>1 DEF Layered
    <3>2. Len(p) + i \in DOMAIN path
      BY <1>3, <1>4
    <3>3. ASSUME NEW j \in DOMAIN path, k \in DOMAIN path[j] PROVE j <= Len(p) + i
      <4>1. CASE j \in DOMAIN p
        BY <1>3, <4>1
      <4>2. CASE j - Len(p) \in DOMAIN q /\ j = Len(p) + (j - Len(p))
        <5>1. path[j] = q[j - Len(p)]
          BY <1>4, <4>2
        <5>2. j - Len(p) <= i
          BY <3>1, <3>3, <4>2, <5>1
        <5> QED
          BY <1>3, <1>4, <5>2
      <4> QED
        BY <1>6, <4>1, <4>2
    <3> QED
      BY <1>4, <1>5, <2>1, <3>1, <3>2, <3>3
  <2>2. CASE k \notin DOMAIN over
    <3>0. k \in DOMAIN under /\ k \notin Bound(q)
      BY <1>5, <2>2 DEF Layered
    <3>1. PICK i \in DOMAIN p : /\ k \in DOMAIN p[i] /\ under[k] = p[i][k]
                                /\ \A j \in DOMAIN p : k \in DOMAIN p[j] => j <= i
      BY <3>0 DEF Layered
    <3>2. i \in DOMAIN path
      BY <1>3, <1>4
    <3>3. ASSUME NEW j \in DOMAIN path, k \in DOMAIN path[j] PROVE j <= i
      <4>1. CASE j \in DOMAIN p
        BY <1>4, <3>1, <3>3, <4>1
      <4>2. CASE j - Len(p) \in DOMAIN q /\ j = Len(p) + (j - Len(p))
        <5>1. path[j] = q[j - Len(p)]
          BY <1>4, <4>2
        <5> QED
          BY <3>0, <3>3, <4>2, <5>1 DEF Bound
      <4> QED
        BY <1>6, <4>1, <4>2
    <3> QED
      BY <1>4, <1>5, <2>2, <3>1, <3>2, <3>3
  <2> QED
    BY <2>1, <2>2
<1> QED
  BY <1>4, <1>5, <1>7, <1>8 DEF Layered, IsSeq, attrs, path

LEMMA LayeredAppend ==
    ASSUME NEW under, NEW p, Layered(under, p), NEW m
    PROVE  Layered(m @@ under, Append(p, m))
<1>1. PICK P : p \in Seq(P)
  BY DEF Layered, IsSeq
<1>2. p \in Seq(P \cup {m})
  BY <1>1
<1>3. Append(p, m) = p \o <<m>>
  BY <1>2
<1> QED
  BY <1>3, LayeredOne, LayeredConcat

-----------------------------------------------------------------------------
(* Events.  `Fixed` is what the setters leave alone. *)
Fixed == {"op", "severity"}

IsEvent(e) ==
    /\ e = [k \in DOMAIN e |-> e[k]]
    /\ Fields \cup Fixed \cup {"attributes"} \subseteq DOMAIN e

LEMMA KeysDiffer ==
    /\ "attributes" \notin Fields \cup Fixed
    /\ Fields \cap Fixed = {}
    /\ "sdk_language" \notin Fields \cup Fixed \cup {"attributes"}
BY DEF Fields, Fixed

(* An event with these contents and no others among those we look at. *)
Blanks(e, op, level, kind) ==
    /\ IsEvent(e)
    /\ e.op = op /\ e.severity = to_proto(level) /\ e.attributes = <<>>
    /\ \A f \in Fields : e[f] = IF f = "kind" THEN kind ELSE ""

LEMMA Built ==
    ASSUME NEW op, NEW service, NEW environment, NEW level, NEW metric, NEW kind
    PROVE  Blanks([op |-> op, service |-> service, environment |-> environment,
                   severity |-> to_proto(level), metric |-> metric, attributes |-> <<>>]
                  @@ [Blank EXCEPT !.kind = kind], op, level, kind)
<1> DEFINE r == [op |-> op, service |-> service, environment |-> environment,
                 severity |-> to_proto(level), metric |-> metric, attributes |-> <<>>]
           blank == [Blank EXCEPT !["kind"] = kind]
           e == r @@ blank
<1>1. /\ r = [k \in DOMAIN r |-> r[k]] /\ DOMAIN r \cap Fields = {}
      /\ Fixed \cup {"attributes"} \subseteq DOMAIN r
      /\ r.op = op /\ r.severity = to_proto(level) /\ r.attributes = <<>>
  BY DEF Fields, Fixed
<1>2. DOMAIN blank = Fields /\ \A f \in Fields : blank[f] = IF f = "kind" THEN kind ELSE ""
  BY DEF Blank, Fields
<1> HIDE DEF r, blank
<1>3. /\ DOMAIN e = DOMAIN r \cup Fields /\ e = [k \in DOMAIN e |-> e[k]]
      /\ \A k \in DOMAIN e : e[k] = IF k \in DOMAIN r THEN r[k] ELSE blank[k]
  BY <1>2 DEF @@
<1> HIDE DEF e
<1>4. /\ IsEvent(e) /\ \A k \in DOMAIN r : e[k] = r[k]
      /\ \A f \in Fields : e[f] = IF f = "kind" THEN kind ELSE ""
  BY <1>1, <1>2, <1>3 DEF IsEvent
<1>5. e.op = r.op /\ e.severity = r.severity /\ e.attributes = r.attributes
  BY <1>1, <1>4 DEF Fixed
<1>6. Blanks(e, op, level, kind)
  BY <1>1, <1>4, <1>5 DEF Blanks
<1> QED
  BY <1>6 DEF e, r, blank

LEMMA NewEvents ==
    ASSUME NEW config, NEW op, NEW level, NEW name
    PROVE  /\ Blanks(LogEvent(config, op, level), op, level, "log")
           /\ Blanks(MetricEvent(config, name), "metric", "info", "metric")
<1>1. Blanks(LogEvent(config, op, level), op, level, "log")
  BY Built DEF LogEvent
<1>2. Blanks(MetricEvent(config, name), "metric", "info", "metric")
  BY Built DEF MetricEvent
<1> QED
  BY <1>1, <1>2

LEMMA SetFieldsKeeps ==
    ASSUME NEW e, IsEvent(e), NEW m, DOMAIN m \subseteq Fields
    PROVE  LET s == SetFields(e, m)
           IN  /\ IsEvent(s)
               /\ \A k \in Fixed \cup {"attributes"} : s[k] = e[k]
               /\ \A f \in Fields : s[f] = IF f \in DOMAIN m THEN m[f] ELSE e[f]
<1> DEFINE s == m @@ e
<1>1. /\ DOMAIN s = DOMAIN m \cup DOMAIN e /\ s = [k \in DOMAIN s |-> s[k]]
      /\ \A k \in DOMAIN s : s[k] = IF k \in DOMAIN m THEN m[k] ELSE e[k]
  BY DEF @@
<1> HIDE DEF s
<1>2. /\ IsEvent(s)
      /\ \A k \in Fixed \cup {"attributes"} : s[k] = e[k]
      /\ \A f \in Fields : s[f] = IF f \in DOMAIN m THEN m[f] ELSE e[f]
  BY <1>1, KeysDiffer DEF IsEvent
<1> QED
  BY <1>2 DEF SetFields, s

LEMMA SetAttrsKeeps ==
    ASSUME NEW e, IsEvent(e), NEW m
    PROVE  LET s == SetAttrs(e, m)
           IN  /\ IsEvent(s)
               /\ \A k \in Fixed \cup Fields : s[k] = e[k]
               /\ s.attributes = m @@ e.attributes
<1> DEFINE a == m @@ e.attributes
           s == [e EXCEPT !["attributes"] = a]
<1>1. SetAttrs(e, m) = s
  BY DEF SetAttrs
<1> HIDE DEF a
<1>2. /\ IsEvent(s) /\ s.attributes = a
      /\ \A k \in Fixed \cup Fields : s[k] = e[k]
  BY KeysDiffer DEF IsEvent
<1> HIDE DEF s
<1> QED
  BY <1>1, <1>2 DEF a

(* Only the severity gets another form on the way to the row. *)
LEMMA RowKeeps ==
    ASSUME NEW e, IsEvent(e)
    PROVE  /\ \A k \in Fields \cup {"op", "attributes"} : Row(e)[k] = e[k]
           /\ Row(e).severity = severity_to_string(e.severity)
<1> DEFINE name == severity_to_string(e.severity)
           y    == [e EXCEPT !["severity"] = name]
           s    == [sdk_language |-> "rust"]
<1>1. Row(e) = y @@ s
  BY DEF Row
<1> HIDE DEF name
<1>2. /\ DOMAIN y = DOMAIN e /\ y.severity = name
      /\ \A k \in Fields \cup {"op", "attributes"} : y[k] = e[k]
  BY KeysDiffer DEF IsEvent, Fixed
<1>3. {"op", "severity"} \cup Fields \cup {"attributes"} \subseteq DOMAIN y
  BY <1>2 DEF IsEvent, Fixed
<1> HIDE DEF y, s
<1> QED
  BY <1>1, <1>2, <1>3 DEF @@, name

(* The enum of aires.proto and the names of the column fit together. *)
KnownLevels == {Levels[n] : n \in DOMAIN Levels}

LEMMA SeverityNamed ==
    ASSUME NEW level \in KnownLevels
    PROVE  severity_to_string(to_proto(level)) = level
<1>1. \E n \in DOMAIN Levels : Levels[n] = level
  BY DEF KnownLevels
<1>2. to_proto(level) \in DOMAIN Levels /\ Levels[to_proto(level)] = level
  BY <1>1 DEF to_proto
<1> QED
  BY <1>2 DEF severity_to_string
=============================================================================
