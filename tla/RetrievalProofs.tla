--------------------------- MODULE RetrievalProofs ---------------------------
(***************************************************************************)
(* Theorems of Retrieval, for any scenarios, services, queries, replies and *)
(* limits: what the fixtures are on disk, and what the prompt, the join and *)
(* the citations are of them.                                               *)
(***************************************************************************)
EXTENDS Retrieval, ListsProofs

-----------------------------------------------------------------------------
(* What the script writes. *)

Prefixes == {"log", "t", "err", "s"}
Id(prefix) == {prefix} \X Nat

SpansOf(sc) ==
  [span_id : Id("s"), service : sc.services, duration_ms : sc.durations,
   status : sc.statuses]
  \union
  [span_id : Id("s"), parent : Id("s"), service : sc.services,
   duration_ms : sc.durations, status : sc.statuses]

\* Identifiers come from a counter, so they grow along a list.
Growing(rows, field) == \A i, j \in DOMAIN rows :
  i < j => rows[i][field][2] < rows[j][field][2]
UpToCount(rows, field, n) == \A i \in DOMAIN rows : rows[i][field][2] <= n
Unique(rows, field) == \A i, j \in DOMAIN rows :
  rows[i][field] = rows[j][field] => i = j
InTime(rows) == \A i, j \in DOMAIN rows :
  i < j => rows[i].timestamp <= rows[j].timestamp

\* The root of a trace is its first span, and its only one without a parent.
Rooted(list) == \A i \in DOMAIN list : "parent" \in DOMAIN list[i] <=> i > 1
\* The parent of another is made before it.
Nested(list) == \A i \in DOMAIN list :
  i > 1 => \E j \in 1..(i - 1) : list[i].parent = list[j].span_id
SpanLists(sc) == {list \in Seq(SpansOf(sc)) :
  Rooted(list) /\ Nested(list) /\ Growing(list, "span_id")}

TracesOf(sc) ==
  [trace_id : Id("t"), correlation_id : sc.correlations, service : sc.services,
   duration_ms : sc.durations, status : sc.statuses, timestamp : sc.times,
   spans : SpanLists(sc) \ {<< >>}]
LogsOf(sc) ==
  [id : Id("log"), timestamp : sc.times, service : sc.services, level : sc.levels,
   message : sc.messages, trace_id : {None} \union Id("t"),
   correlation_id : sc.correlations]
ErrorsOf(sc) ==
  [error_id : Id("err"), timestamp : sc.times, service : sc.services,
   message : sc.messages, trace_id : {None} \union Id("t"),
   correlation_id : sc.correlations]
MetricsOf(sc) ==
  [timestamp : sc.times, service : sc.services, metric : sc.metrics, value : sc.values]

FilesOf(sc) ==
  [logs : Seq(LogsOf(sc)), traces : Seq(TracesOf(sc)), metrics : Seq(MetricsOf(sc)),
   errors : Seq(ErrorsOf(sc))]

Counted(rows, field, n) == Growing(rows, field) /\ UpToCount(rows, field, n)

Made ==
  /\ scenario \in Scenarios
  /\ counters \in [Prefixes -> Nat]
  /\ tid \in {None} \union Id("t")
  /\ spans \in SpanLists(scenario) /\ UpToCount(spans, "span_id", counters["s"])
  /\ data \in FilesOf(scenario)
  /\ Counted(data.logs, "id", counters["log"])
  /\ Counted(data.traces, "trace_id", counters["t"])
  /\ Counted(data.errors, "error_id", counters["err"])

\* What a reader of the fixtures may rely on.
Readable ==
  /\ files \in FilesOf(scenario)
  /\ \A kind \in DOMAIN files : InTime(files[kind])
  /\ Unique(files.logs, "id") /\ Unique(files.traces, "trace_id")
  /\ Unique(files.errors, "error_id")

FixtureInv == Made /\ Readable

Times(rows) == [i \in DOMAIN rows |-> rows[i].timestamp]

LEMMA SortedByTime ==
  ASSUME NEW rows
  PROVE  Sorted(rows, Earlier) = Ordered(rows, KeyOrder(DOMAIN rows, Times(rows)))
<1> DEFINE D == DOMAIN rows
<1>1. \A i \in D : Times(rows)[i] = rows[i].timestamp
  BY DEF Times
<1>2. KeyOrder(D, Times(rows)) =
        {pair \in D \X D : \/ Earlier(rows[pair[1]], rows[pair[2]])
                           \/ ~Earlier(rows[pair[2]], rows[pair[1]]) /\ pair[1] < pair[2]}
  BY <1>1 DEF KeyOrder, Earlier
<1>3. Sorted(rows, Earlier) = Ordered(rows,
        {pair \in D \X D : \/ Earlier(rows[pair[1]], rows[pair[2]])
                           \/ ~Earlier(rows[pair[2]], rows[pair[1]]) /\ pair[1] < pair[2]})
  BY DEF Sorted
<1> QED BY <1>2, <1>3

LEMMA WrittenInTime ==
  ASSUME NEW T, NEW rows \in Seq(T), \A r \in T : r.timestamp \in Int
  PROVE  /\ Sorted(rows, Earlier) \in Seq(T)
         /\ InTime(Sorted(rows, Earlier))
         /\ \A field : Unique(rows, field) => Unique(Sorted(rows, Earlier), field)
<1> DEFINE S == Sorted(rows, Earlier)
<1> DEFINE D == DOMAIN rows
<1> DEFINE key == Times(rows)
<1>1. key \in [D -> Int] /\ D = 1..Len(rows) /\ Len(rows) \in Nat
  BY DomainIsFinite DEF Times
<1>2. S = Ordered(rows, KeyOrder(D, key))
  BY SortedByTime
<1> HIDE DEF S, key
<1>3. /\ S \in Seq(T) /\ DOMAIN S = D
      /\ \E p : Arranges(S, p, rows, key)
  BY <1>1, <1>2, SortedByKey
<1>4. PICK p : Arranges(S, p, rows, key)
  BY <1>3
<1>5. \A k \in D : S[k] = rows[p[k]] /\ p[k] \in D /\ key[p[k]] = S[k].timestamp /\ key[p[k]] \in Int
  BY <1>1, <1>4 DEF Arranges, key, Times
<1>6. InTime(S)
  <2> SUFFICES ASSUME NEW k \in D, NEW l \in D, k < l
               PROVE  S[k].timestamp <= S[l].timestamp
    BY <1>3 DEF InTime
  <2>1. key[p[k]] < key[p[l]] \/ key[p[k]] = key[p[l]]
    BY <1>4 DEF Arranges
  <2>2. /\ key[p[k]] = S[k].timestamp /\ key[p[k]] \in Int
        /\ key[p[l]] = S[l].timestamp /\ key[p[l]] \in Int
    BY <1>5
  <2> QED BY <2>1, <2>2
<1>7. ASSUME NEW field, Unique(rows, field) PROVE Unique(S, field)
  <2> SUFFICES ASSUME NEW k \in D, NEW l \in D, S[k][field] = S[l][field] PROVE k = l
    BY <1>3 DEF Unique
  <2>1. p[k] = p[l]
    BY <1>5, <1>7 DEF Unique
  <2>2. p[k] \in Int /\ key[p[k]] \in Int
    BY <1>1, <1>5
  <2>3. k < l => p[k] < p[l] \/ key[p[k]] < key[p[l]]
    BY <1>4 DEF Arranges
  <2>4. l < k => p[l] < p[k] \/ key[p[l]] < key[p[k]]
    BY <1>4 DEF Arranges
  <2> QED BY <1>1, <2>1, <2>2, <2>3, <2>4
<1> QED BY <1>3, <1>6, <1>7 DEF S

LEMMA AppendCounted ==
  ASSUME NEW T, NEW rows \in Seq(T), NEW field, NEW n \in Nat, Counted(rows, field, n),
         \A r \in T : r[field][2] \in Nat,
         NEW row \in T, row[field][2] = n + 1
  PROVE  Append(rows, row) \in Seq(T) /\ Counted(Append(rows, row), field, n + 1)
<1> DEFINE longer == Append(rows, row)
<1> DEFINE m == Len(rows)
<1>1. /\ m \in Nat /\ DOMAIN rows = 1..m
      /\ longer \in Seq(T) /\ DOMAIN longer = 1..(m + 1)
      /\ \A i \in 1..m : longer[i] = rows[i] /\ rows[i] \in T
      /\ longer[m + 1] = row
  OBVIOUS
<1> HIDE DEF longer, m
<1>2. ASSUME NEW i \in 1..m
      PROVE  longer[i][field][2] \in Nat /\ longer[i][field][2] <= n
  BY <1>1 DEF Counted, UpToCount
<1>3. UpToCount(longer, field, n + 1)
  BY <1>1, <1>2 DEF UpToCount
<1>4. ASSUME NEW i \in 1..(m + 1), NEW j \in 1..(m + 1), i < j
      PROVE  longer[i][field][2] < longer[j][field][2]
  <2>1. CASE j = m + 1
    BY <1>1, <1>2, <1>4, <2>1
  <2>2. CASE j # m + 1
    <3>1. i \in 1..m /\ j \in 1..m
      BY <1>1, <1>4, <2>2
    <3> QED BY <1>1, <1>4, <3>1 DEF Counted, Growing
  <2> QED BY <2>1, <2>2
<1>5. Growing(longer, field)
  BY <1>1, <1>4 DEF Growing
<1> QED BY <1>1, <1>3, <1>5 DEF Counted, longer

LEMMA CountedIsUnique ==
  ASSUME NEW T, NEW rows \in Seq(T), NEW field, Growing(rows, field),
         \A r \in T : r[field][2] \in Nat
  PROVE  Unique(rows, field)
<1> SUFFICES ASSUME NEW i \in DOMAIN rows, NEW j \in DOMAIN rows, rows[i][field] = rows[j][field]
             PROVE  i = j
  BY DEF Unique
<1>1. rows[i] \in T /\ i \in Int /\ j \in Int
  OBVIOUS
<1>2. rows[i][field][2] \in Nat
  BY <1>1
<1>3. ~(i < j) /\ ~(j < i)
  BY <1>2 DEF Growing
<1> QED BY <1>1, <1>3

LEMMA IdsAreNumbered ==
  ASSUME NEW sc \in Scenarios
  PROVE  /\ \A s \in SpansOf(sc) : s.span_id[2] \in Nat
         /\ \A l \in LogsOf(sc) : l.id[2] \in Nat /\ l.timestamp \in Int
         /\ \A t \in TracesOf(sc) : t.trace_id[2] \in Nat /\ t.timestamp \in Int
         /\ \A e \in ErrorsOf(sc) : e.error_id[2] \in Nat /\ e.timestamp \in Int
         /\ \A m \in MetricsOf(sc) : m.timestamp \in Int
<1>1. sc.times \subseteq Int
  BY ScenarioAssumption
<1>2. \A prefix : \A id \in Id(prefix) : id[2] \in Nat
  BY DEF Id
<1>3. \A s \in SpansOf(sc) : s.span_id \in Id("s")
  BY DEF SpansOf
<1>4. \A l \in LogsOf(sc) : l.id \in Id("log") /\ l.timestamp \in sc.times
  BY DEF LogsOf
<1>5. \A t \in TracesOf(sc) : t.trace_id \in Id("t") /\ t.timestamp \in sc.times
  BY DEF TracesOf
<1>6. \A e \in ErrorsOf(sc) : e.error_id \in Id("err") /\ e.timestamp \in sc.times
  BY DEF ErrorsOf
<1>7. \A m \in MetricsOf(sc) : m.timestamp \in sc.times
  BY DEF MetricsOf
<1> QED BY <1>1, <1>2, <1>3, <1>4, <1>5, <1>6, <1>7

LEMMA FixturesInvInit == FixturesInit => FixtureInv
<1> SUFFICES ASSUME FixturesInit PROVE FixtureInv
  OBVIOUS
<1>1. DOMAIN files = {"logs", "traces", "metrics", "errors"}
  BY DEF FixturesInit, NoFiles
<1>2. /\ files.logs = << >> /\ files.traces = << >> /\ files.errors = << >>
      /\ files.metrics = << >> /\ data = files
  BY DEF FixturesInit, NoFiles
<1>3. files \in FilesOf(scenario)
  BY DEF FixturesInit, NoFiles, FilesOf
<1>4. \A kind \in DOMAIN files : files[kind] = << >>
  BY <1>1, <1>2
<1>5. Made
  BY <1>2, <1>3 DEF Made, FixturesInit, Prefixes, Counted, Growing, UpToCount, SpanLists, Rooted,
            Nested
<1>6. Readable
  BY <1>2, <1>3, <1>4 DEF Readable, InTime, Unique
<1> QED BY <1>5, <1>6 DEF FixtureInv

\* A counter that moves on still bounds what it has numbered.
LEMMA CounterMovesOn ==
  ASSUME NEW T, NEW rows \in Seq(T), NEW field, NEW n \in Nat, UpToCount(rows, field, n),
         \A r \in T : r[field][2] \in Nat
  PROVE  UpToCount(rows, field, n + 1)
<1> SUFFICES ASSUME NEW i \in DOMAIN rows PROVE rows[i][field][2] <= n + 1
  BY DEF UpToCount
<1>1. rows[i] \in T
  OBVIOUS
<1> QED BY <1>1 DEF UpToCount

LEMMA FilesUntouched ==
  ASSUME Readable, UNCHANGED <<files, scenario>>
  PROVE  Readable'
  BY DEF Readable, FilesOf, LogsOf, TracesOf, ErrorsOf, MetricsOf, SpanLists, SpansOf,
         InTime, Unique, Rooted, Nested, Growing, Id

\* The parts of Made that speak of what a helper leaves alone.
LEMMA PartsUntouched ==
  ASSUME scenario' = scenario
  PROVE  /\ SpanLists(scenario)' = SpanLists(scenario)
         /\ LogsOf(scenario)' = LogsOf(scenario)
         /\ TracesOf(scenario)' = TracesOf(scenario)
         /\ ErrorsOf(scenario)' = ErrorsOf(scenario)
         /\ MetricsOf(scenario)' = MetricsOf(scenario)
         /\ FilesOf(scenario)' = FilesOf(scenario)
  BY DEF FilesOf, LogsOf, TracesOf, ErrorsOf, MetricsOf, SpanLists, SpansOf, Rooted,
         Nested, Growing, Id

\* What Made says of data, field by field.
LEMMA DataIsTyped ==
  ASSUME Made
  PROVE  /\ data = [logs |-> data.logs, traces |-> data.traces, metrics |-> data.metrics,
                    errors |-> data.errors]
         /\ data.logs \in Seq(LogsOf(scenario)) /\ data.traces \in Seq(TracesOf(scenario))
         /\ data.metrics \in Seq(MetricsOf(scenario))
         /\ data.errors \in Seq(ErrorsOf(scenario))
         /\ \A n \in Nat : \A prefix : <<prefix, n>> \in Id(prefix)
         /\ \A prefix \in Prefixes : counters[prefix] \in Nat /\ counters[prefix] + 1 \in Nat
<1>1. data \in FilesOf(scenario) /\ counters \in [Prefixes -> Nat]
  BY DEF Made
<1> QED BY <1>1 DEF FilesOf, Id

LEMMA ReserveKeeps ==
  ASSUME Made, Reserve
  PROVE  Made'
<1>1. /\ scenario' = scenario /\ spans' = spans /\ data' = data /\ tid' = NextId("t")
      /\ counters' = [counters EXCEPT !["t"] = counters["t"] + 1]
  BY DEF Reserve, Call, Count
<1>2. /\ scenario \in Scenarios /\ counters \in [Prefixes -> Nat]
      /\ spans \in SpanLists(scenario) /\ UpToCount(spans, "span_id", counters["s"])
      /\ data \in FilesOf(scenario)
      /\ Counted(data.logs, "id", counters["log"])
      /\ Counted(data.traces, "trace_id", counters["t"])
      /\ Counted(data.errors, "error_id", counters["err"])
  BY DEF Made
<1>3. tid' \in {None} \union Id("t")
  BY <1>1, DataIsTyped DEF NextId, Prefixes
<1>4. counters' \in [Prefixes -> Nat] /\ counters'["t"] = counters["t"] + 1
      /\ \A prefix \in Prefixes \ {"t"} : counters'[prefix] = counters[prefix]
  BY <1>1, <1>2, DataIsTyped DEF Prefixes
<1>5. UpToCount(data.traces, "trace_id", counters["t"] + 1)
  <2>1. counters["t"] \in Nat /\ data.traces \in Seq(TracesOf(scenario))
    BY DataIsTyped DEF Prefixes
  <2>2. \A t \in TracesOf(scenario) : t.trace_id[2] \in Nat
    BY <1>2, IdsAreNumbered
  <2> QED BY <1>2, <2>1, <2>2, CounterMovesOn DEF Counted
<1> QED BY <1>1, <1>2, <1>3, <1>4, <1>5, PartsUntouched DEF Made, Counted, Prefixes

LEMMA SpanKeeps ==
  ASSUME Made, Span
  PROVE  Made'
<1>1. /\ scenario' = scenario /\ data' = data /\ tid' = tid
      /\ counters' = [counters EXCEPT !["s"] = counters["s"] + 1]
  BY DEF Span, Call, Count
<1>2. /\ scenario \in Scenarios /\ counters \in [Prefixes -> Nat]
      /\ spans \in SpanLists(scenario) /\ UpToCount(spans, "span_id", counters["s"])
  BY DEF Made
<1> DEFINE n == counters["s"]
<1>3. n \in Nat /\ NextId("s") = <<"s", n + 1>> /\ NextId("s") \in Id("s")
  BY DataIsTyped DEF NextId, Prefixes
<1>4. /\ counters' \in [Prefixes -> Nat] /\ counters'["s"] = n + 1
      /\ \A prefix \in Prefixes \ {"s"} : counters'[prefix] = counters[prefix]
  BY <1>1, <1>2, DataIsTyped DEF Prefixes
<1>5. /\ spans \in Seq(SpansOf(scenario)) /\ Rooted(spans) /\ Nested(spans)
      /\ Counted(spans, "span_id", n)
  BY <1>2 DEF SpanLists, Counted
<1>6. \A s \in SpansOf(scenario) : s.span_id[2] \in Nat
  BY <1>2, IdsAreNumbered
<1>7. PICK s \in scenario.services, d \in scenario.durations, st \in scenario.statuses :
        IF spans = << >>
        THEN spans' = <<[span_id |-> NextId("s"), service |-> s, duration_ms |-> d, status |-> st]>>
        ELSE \E i \in DOMAIN spans :
               spans' = Append(spans, [span_id |-> NextId("s"), parent |-> spans[i].span_id,
                                       service |-> s, duration_ms |-> d, status |-> st])
  BY DEF Span
<1>8. ASSUME spans = << >>
      PROVE  spans' \in SpanLists(scenario) /\ UpToCount(spans', "span_id", n + 1)
  <2> DEFINE root == [span_id |-> NextId("s"), service |-> s, duration_ms |-> d, status |-> st]
  <2>1. spans' = <<root>>
    BY <1>7, <1>8
  <2>2. root \in SpansOf(scenario) /\ "parent" \notin DOMAIN root /\ root.span_id[2] = n + 1
    BY <1>3 DEF SpansOf
  <2> HIDE DEF root
  <2>3. spans' \in Seq(SpansOf(scenario)) /\ DOMAIN spans' = {1} /\ spans'[1] = root
    BY <2>1, <2>2
  <2> QED BY <1>3, <2>2, <2>3 DEF SpanLists, Rooted, Nested, Growing, UpToCount
<1>9. ASSUME spans # << >>
      PROVE  spans' \in SpanLists(scenario) /\ UpToCount(spans', "span_id", n + 1)
  <2>1. PICK i \in DOMAIN spans :
          spans' = Append(spans, [span_id |-> NextId("s"), parent |-> spans[i].span_id,
                                  service |-> s, duration_ms |-> d, status |-> st])
    BY <1>7, <1>9
  <2> DEFINE child == [span_id |-> NextId("s"), parent |-> spans[i].span_id,
                       service |-> s, duration_ms |-> d, status |-> st]
  <2>2. spans[i].span_id \in Id("s")
    <3>1. spans[i] \in SpansOf(scenario)
      BY <1>5
    <3> QED BY <3>1 DEF SpansOf
  <2>3. child \in SpansOf(scenario) /\ "parent" \in DOMAIN child /\ child.span_id[2] = n + 1
    BY <1>3, <2>2 DEF SpansOf
  <2>4. spans' = Append(spans, child)
    BY <2>1
  <2> HIDE DEF child
  <2>5. spans' \in Seq(SpansOf(scenario)) /\ Counted(spans', "span_id", n + 1)
    BY <1>3, <1>5, <1>6, <2>3, <2>4, AppendCounted
  <2>6. /\ Len(spans) \in Nat \ {0} /\ DOMAIN spans = 1..Len(spans)
        /\ DOMAIN spans' = 1..(Len(spans) + 1) /\ spans'[Len(spans) + 1] = child
        /\ \A j \in DOMAIN spans : spans'[j] = spans[j]
    BY <1>5, <1>9, <2>4
  <2>7. Rooted(spans')
    BY <1>5, <2>3, <2>6 DEF Rooted
  <2>8. Nested(spans')
    <3> SUFFICES ASSUME NEW j \in DOMAIN spans', j > 1
                 PROVE  \E l \in 1..(j - 1) : spans'[j].parent = spans'[l].span_id
      BY DEF Nested
    <3>1. CASE j = Len(spans) + 1
      <4>1. i \in 1..(j - 1) /\ spans'[j].parent = spans[i].span_id /\ spans'[i] = spans[i]
        BY <2>6, <3>1 DEF child
      <4> QED BY <4>1
    <3>2. CASE j # Len(spans) + 1
      <4>1. j \in DOMAIN spans /\ spans'[j] = spans[j]
        BY <2>6, <3>2
      <4>2. PICK l \in 1..(j - 1) : spans[j].parent = spans[l].span_id
        BY <1>5, <4>1 DEF Nested
      <4>3. spans'[l] = spans[l]
        BY <2>6, <4>1
      <4> QED BY <4>1, <4>2, <4>3
    <3> QED BY <3>1, <3>2
  <2> QED BY <2>5, <2>7, <2>8 DEF SpanLists, Counted
<1>10. spans' \in SpanLists(scenario) /\ UpToCount(spans', "span_id", n + 1)
  BY <1>8, <1>9, <1>3 DEF Counted
<1> QED BY <1>1, <1>4, <1>10, PartsUntouched DEF Made, Counted, Prefixes

LEMMA TraceKeeps ==
  ASSUME Made, Trace
  PROVE  Made'
<1> DEFINE n == counters["t"]
<1>1. /\ scenario' = scenario /\ spans' = << >> /\ spans # << >>
      /\ counters' = [counters EXCEPT !["t"] = n + 1]
      /\ tid' \in {tid, NextId("t")}
  BY DEF Trace, Call, Count
<1>2. /\ scenario \in Scenarios /\ counters \in [Prefixes -> Nat]
      /\ tid \in {None} \union Id("t")
      /\ spans \in SpanLists(scenario)
      /\ Counted(data.traces, "trace_id", n)
  BY DEF Made
<1>3. n \in Nat /\ NextId("t") = <<"t", n + 1>> /\ NextId("t") \in Id("t")
  BY DataIsTyped DEF NextId, Prefixes
<1>4. /\ counters' \in [Prefixes -> Nat] /\ counters'["t"] = n + 1
      /\ \A prefix \in Prefixes \ {"t"} : counters'[prefix] = counters[prefix]
  BY <1>1, <1>2, DataIsTyped DEF Prefixes
<1>5. PICK t \in scenario.times, c \in scenario.correlations :
        Emit("traces", [trace_id |-> NextId("t"), correlation_id |-> c,
                        service |-> spans[1].service, duration_ms |-> spans[1].duration_ms,
                        status |-> spans[1].status, timestamp |-> t, spans |-> spans])
  BY DEF Trace
<1> DEFINE row == [trace_id |-> NextId("t"), correlation_id |-> c,
                   service |-> spans[1].service, duration_ms |-> spans[1].duration_ms,
                   status |-> spans[1].status, timestamp |-> t, spans |-> spans]
<1>6. row \in TracesOf(scenario) /\ row.trace_id[2] = n + 1
  <2>1. spans \in Seq(SpansOf(scenario)) /\ spans # << >>
    BY <1>1, <1>2 DEF SpanLists
  <2>2. spans[1] \in SpansOf(scenario)
    BY <2>1
  <2>3. /\ spans[1].service \in scenario.services
        /\ spans[1].duration_ms \in scenario.durations
        /\ spans[1].status \in scenario.statuses
    BY <2>2 DEF SpansOf
  <2> QED BY <1>1, <1>2, <1>3, <2>3 DEF TracesOf
<1>7. data' = [data EXCEPT !["traces"] = Append(data.traces, row)]
  BY <1>5 DEF Emit
<1> HIDE DEF row
<1>8. /\ Append(data.traces, row) \in Seq(TracesOf(scenario))
      /\ Counted(Append(data.traces, row), "trace_id", n + 1)
  BY <1>2, <1>3, <1>6, DataIsTyped, IdsAreNumbered, AppendCounted
<1>9. /\ data' \in FilesOf(scenario)
      /\ data'.traces = Append(data.traces, row)
      /\ data'.logs = data.logs /\ data'.errors = data.errors
  BY <1>7, <1>8, DataIsTyped DEF FilesOf
<1>10. << >> \in SpanLists(scenario) /\ UpToCount(<< >>, "span_id", counters'["s"])
  BY DEF SpanLists, UpToCount, Rooted, Nested, Growing
<1> QED BY <1>1, <1>2, <1>3, <1>4, <1>8, <1>9, <1>10, PartsUntouched
        DEF Made, Counted, Prefixes

LEMMA LogKeeps ==
  ASSUME Made, Log
  PROVE  Made'
<1> DEFINE n == counters["log"]
<1>1. /\ scenario' = scenario /\ spans' = spans /\ tid' = tid
      /\ counters' = [counters EXCEPT !["log"] = n + 1]
  BY DEF Log, Call, Count
<1>2. /\ scenario \in Scenarios /\ counters \in [Prefixes -> Nat]
      /\ tid \in {None} \union Id("t")
      /\ Counted(data.logs, "id", n)
  BY DEF Made
<1>3. n \in Nat /\ NextId("log") = <<"log", n + 1>> /\ NextId("log") \in Id("log")
  BY DataIsTyped DEF NextId, Prefixes
<1>4. /\ counters' \in [Prefixes -> Nat] /\ counters'["log"] = n + 1
      /\ \A prefix \in Prefixes \ {"log"} : counters'[prefix] = counters[prefix]
  BY <1>1, <1>2, DataIsTyped DEF Prefixes
<1>5. PICK t \in scenario.times, s \in scenario.services, l \in scenario.levels,
          m \in scenario.messages, id \in {None, tid}, c \in scenario.correlations :
        Emit("logs", [id |-> NextId("log"), timestamp |-> t, service |-> s, level |-> l,
                 message |-> m, trace_id |-> id, correlation_id |-> c])
  BY DEF Log
<1> DEFINE row == [id |-> NextId("log"), timestamp |-> t, service |-> s, level |-> l,
                  message |-> m, trace_id |-> id, correlation_id |-> c]
<1>6. row \in LogsOf(scenario) /\ row.id[2] = n + 1
  BY <1>2, <1>3 DEF LogsOf
<1>7. data' = [data EXCEPT !["logs"] = Append(data.logs, row)]
  BY <1>5 DEF Emit
<1> HIDE DEF row
<1>8. /\ Append(data.logs, row) \in Seq(LogsOf(scenario))
      /\ Counted(Append(data.logs, row), "id", n + 1)
  BY <1>2, <1>3, <1>6, DataIsTyped, IdsAreNumbered, AppendCounted
<1>9. /\ data' \in FilesOf(scenario)
      /\ data'.logs = Append(data.logs, row)
      /\ data'.traces = data.traces /\ data'.errors = data.errors
  BY <1>7, <1>8, DataIsTyped DEF FilesOf
<1> QED BY <1>1, <1>2, <1>3, <1>4, <1>8, <1>9, PartsUntouched DEF Made, Counted, Prefixes

LEMMA ErrorKeeps ==
  ASSUME Made, Error
  PROVE  Made'
<1> DEFINE n == counters["err"]
<1>1. /\ scenario' = scenario /\ spans' = spans /\ tid' = tid
      /\ counters' = [counters EXCEPT !["err"] = n + 1]
  BY DEF Error, Call, Count
<1>2. /\ scenario \in Scenarios /\ counters \in [Prefixes -> Nat]
      /\ tid \in {None} \union Id("t")
      /\ Counted(data.errors, "error_id", n)
  BY DEF Made
<1>3. n \in Nat /\ NextId("err") = <<"err", n + 1>> /\ NextId("err") \in Id("err")
  BY DataIsTyped DEF NextId, Prefixes
<1>4. /\ counters' \in [Prefixes -> Nat] /\ counters'["err"] = n + 1
      /\ \A prefix \in Prefixes \ {"err"} : counters'[prefix] = counters[prefix]
  BY <1>1, <1>2, DataIsTyped DEF Prefixes
<1>5. PICK t \in scenario.times, s \in scenario.services, m \in scenario.messages,
          id \in {None, tid}, c \in scenario.correlations :
        Emit("errors", [error_id |-> NextId("err"), timestamp |-> t, service |-> s,
                   message |-> m, trace_id |-> id, correlation_id |-> c])
  BY DEF Error
<1> DEFINE row == [error_id |-> NextId("err"), timestamp |-> t, service |-> s,
                  message |-> m, trace_id |-> id, correlation_id |-> c]
<1>6. row \in ErrorsOf(scenario) /\ row.error_id[2] = n + 1
  BY <1>2, <1>3 DEF ErrorsOf
<1>7. data' = [data EXCEPT !["errors"] = Append(data.errors, row)]
  BY <1>5 DEF Emit
<1> HIDE DEF row
<1>8. /\ Append(data.errors, row) \in Seq(ErrorsOf(scenario))
      /\ Counted(Append(data.errors, row), "error_id", n + 1)
  BY <1>2, <1>3, <1>6, DataIsTyped, IdsAreNumbered, AppendCounted
<1>9. /\ data' \in FilesOf(scenario)
      /\ data'.errors = Append(data.errors, row)
      /\ data'.traces = data.traces /\ data'.logs = data.logs
  BY <1>7, <1>8, DataIsTyped DEF FilesOf
<1> QED BY <1>1, <1>2, <1>3, <1>4, <1>8, <1>9, PartsUntouched DEF Made, Counted, Prefixes

LEMMA MetricKeeps ==
  ASSUME Made, Metric
  PROVE  Made'
<1>1. scenario' = scenario /\ spans' = spans /\ tid' = tid /\ counters' = counters
  BY DEF Metric, Call
<1>2. PICK t \in scenario.times, s \in scenario.services, m \in scenario.metrics,
          v \in scenario.values :
        Emit("metrics", [timestamp |-> t, service |-> s, metric |-> m, value |-> v])
  BY DEF Metric
<1> DEFINE row == [timestamp |-> t, service |-> s, metric |-> m, value |-> v]
<1>3. row \in MetricsOf(scenario)
  BY DEF MetricsOf
<1>4. data' = [data EXCEPT !["metrics"] = Append(data.metrics, row)]
  BY <1>2 DEF Emit
<1> HIDE DEF row
<1>5. Append(data.metrics, row) \in Seq(MetricsOf(scenario))
  BY <1>3, DataIsTyped
<1>6. /\ data' \in FilesOf(scenario) /\ data'.logs = data.logs
      /\ data'.traces = data.traces /\ data'.errors = data.errors
  BY <1>4, <1>5, DataIsTyped DEF FilesOf
<1> QED BY <1>1, <1>6, PartsUntouched DEF Made

\* What is written is sorted by time and keeps its identifiers apart.
LEMMA WriteMakesReadable ==
  ASSUME Made, Write
  PROVE  Readable'
<1>1. /\ scenario' = scenario
      /\ files' = [kind \in DOMAIN data |-> Sorted(data[kind], Earlier)]
  BY DEF Write
<1>2. DOMAIN data = {"logs", "traces", "metrics", "errors"}
  BY DataIsTyped
<1>3. scenario \in Scenarios
  BY DEF Made
<1>4. /\ files'.logs = Sorted(data.logs, Earlier)
      /\ files'.traces = Sorted(data.traces, Earlier)
      /\ files'.metrics = Sorted(data.metrics, Earlier)
      /\ files'.errors = Sorted(data.errors, Earlier)
      /\ files' = [logs |-> files'.logs, traces |-> files'.traces,
                   metrics |-> files'.metrics, errors |-> files'.errors]
  BY <1>1, <1>2
<1>5. /\ files'.logs \in Seq(LogsOf(scenario)) /\ InTime(files'.logs)
      /\ Unique(files'.logs, "id")
  <2>1. Unique(data.logs, "id")
    BY <1>3, DataIsTyped, IdsAreNumbered, CountedIsUnique DEF Made, Counted
  <2> QED BY <1>3, <1>4, <2>1, DataIsTyped, IdsAreNumbered, WrittenInTime
<1>6. /\ files'.traces \in Seq(TracesOf(scenario)) /\ InTime(files'.traces)
      /\ Unique(files'.traces, "trace_id")
  <2>1. Unique(data.traces, "trace_id")
    BY <1>3, DataIsTyped, IdsAreNumbered, CountedIsUnique DEF Made, Counted
  <2> QED BY <1>3, <1>4, <2>1, DataIsTyped, IdsAreNumbered, WrittenInTime
<1>7. /\ files'.errors \in Seq(ErrorsOf(scenario)) /\ InTime(files'.errors)
      /\ Unique(files'.errors, "error_id")
  <2>1. Unique(data.errors, "error_id")
    BY <1>3, DataIsTyped, IdsAreNumbered, CountedIsUnique DEF Made, Counted
  <2> QED BY <1>3, <1>4, <2>1, DataIsTyped, IdsAreNumbered, WrittenInTime
<1>8. files'.metrics \in Seq(MetricsOf(scenario)) /\ InTime(files'.metrics)
  BY <1>3, <1>4, DataIsTyped, IdsAreNumbered, WrittenInTime
<1>9. files' \in FilesOf(scenario)
  BY <1>4, <1>5, <1>6, <1>7, <1>8 DEF FilesOf
<1>10. \A kind \in DOMAIN files' : InTime(files'[kind])
  BY <1>4, <1>5, <1>6, <1>7, <1>8
<1> QED BY <1>1, <1>5, <1>6, <1>7, <1>9, <1>10, PartsUntouched DEF Readable

\* Whatever the script has called and in whatever order, its lists are typed and
\* numbered, and what is on disk is in time order with no identifier used twice
\* (scripts/generate_mock_data.py:27-36, 489-501).
THEOREM FixturesAreSound == Spec => []FixtureInv
<1>1. Init => FixtureInv
  BY FixturesInvInit DEF Init
<1>2. FixtureInv /\ [Next]_vars => FixtureInv'
  <2> SUFFICES ASSUME FixtureInv, [Next]_vars PROVE FixtureInv'
    OBVIOUS
  <2>1. Made /\ Readable
    BY DEF FixtureInv
  <2>2. CASE Reserve \/ Span \/ Trace \/ Log \/ Error \/ Metric
    <3>1. Made'
      BY <2>1, <2>2, ReserveKeeps, SpanKeeps, TraceKeeps, LogKeeps, ErrorKeeps, MetricKeeps
    <3>2. UNCHANGED <<files, scenario>>
      BY <2>2 DEF Reserve, Span, Trace, Log, Error, Metric, Call
    <3> QED BY <2>1, <3>1, <3>2, FilesUntouched DEF FixtureInv
  <2>3. CASE Write
    <3>1. Made'
      BY <2>1, <2>3, PartsUntouched DEF Write, Made
    <3> QED BY <2>1, <2>3, <3>1, WriteMakesReadable DEF FixtureInv
  <2>4. CASE UNCHANGED fixtureVars
    <3>1. UNCHANGED <<scenario, room, counters, spans, tid, data, files>>
      BY <2>4 DEF fixtureVars
    <3>2. Made'
      BY <2>1, <3>1, PartsUntouched DEF Made
    <3> QED BY <2>1, <3>1, <3>2, FilesUntouched DEF FixtureInv
  <2> QED BY <2>2, <2>3, <2>4 DEF Next, FixturesNext, Handle, vars
<1> QED BY <1>1, <1>2, PTL DEF Spec

-----------------------------------------------------------------------------
(* Plans, and the prompt made under one. *)

\* What a filter by a field keeps.
LEMMA WithGives ==
  ASSUME NEW T, NEW rows \in Seq(T), NEW field, NEW value
  PROVE  /\ With(rows, field, value) \in Seq(T)
         /\ Elements(With(rows, field, value)) =
              {rows[i] : i \in {j \in DOMAIN rows : Get(rows[j], field, None) = value}}
         /\ With(rows, field, value) = << >> <=>
              {j \in DOMAIN rows : Get(rows[j], field, None) = value} = {}
<1> DEFINE S == {j \in DOMAIN rows : Get(rows[j], field, None) = value}
<1>1. S \in SUBSET DOMAIN rows /\ With(rows, field, value) = ItemsAt(rows, S)
  BY DEF With
<1> HIDE DEF S
<1>2. /\ ItemsAt(rows, S) \in Seq(T)
      /\ Elements(ItemsAt(rows, S)) = {rows[i] : i \in S}
      /\ ItemsAt(rows, S) = << >> <=> S = {}
  BY <1>1, ItemsAtPositions, ItemsAtElements
<1> QED BY <1>1, <1>2 DEF S

LEMMA PlanIsWithinSchema ==
  ASSUME NEW query \in Queries, NEW reply, NEW byLLM \in BOOLEAN
  PROVE  /\ Plan(query, reply, byLLM).log_limit \in 0..500
         /\ Plan(query, reply, byLLM).error_limit \in 0..200
<1>1. ASSUME NEW p, p = PlanQuery(query)
      PROVE  p.log_limit \in 0..500 /\ p.error_limit \in 0..200
  <2>1. CASE query.keywords = {}
    BY <1>1, <2>1 DEF PlanQuery, DefaultPlan
  <2>2. CASE query.keywords # {}
    <3>1. query.keywords \subseteq 1..4
      <4>1. DOMAIN Intents = 1..4
        BY DEF Intents
      <4>2. query.keywords \subseteq DOMAIN Intents
        BY QueryAssumption
      <4> QED BY <4>1, <4>2
    <3>2. IsFiniteSet(query.keywords) /\ query.keywords \subseteq Int
      <4>1. IsFiniteSet(1..4)
        <5>1. 1 \in Int /\ 4 \in Int
          OBVIOUS
        <5> QED BY <5>1, FS_Interval, Zenon
      <4> QED BY <3>1, <4>1, FS_Subset
    <3>3. Least(query.keywords) \in 1..4
      BY <2>2, <3>1, <3>2, LeastAndMost
    <3>4. \A i \in 1..4 : /\ Intents[i].log_limit \in Nat /\ Intents[i].log_limit <= 500
                          /\ Intents[i].error_limit \in Nat /\ Intents[i].error_limit <= 200
      BY DEF Intents
    <3>5. PICK i \in 1..4 : p = Intents[i]
      BY <1>1, <2>2, <3>3 DEF PlanQuery
    <3>6. /\ p.log_limit \in Nat /\ p.log_limit <= 500
          /\ p.error_limit \in Nat /\ p.error_limit <= 200
      BY <3>4, <3>5
    <3> QED BY <3>6
  <2> QED BY <2>1, <2>2
<1>2. ASSUME NEW p, WithinSchema(p)
      PROVE  p.log_limit \in 0..500 /\ p.error_limit \in 0..200
  BY <1>2 DEF WithinSchema, Highest
<1> QED BY <1>1, <1>2 DEF Plan, PlanQueryLLM

\* A summary tells how many rows it was made of, and that many fit the limit.
LEMMA ShownWithinLimit ==
  ASSUME NEW T, NEW rows \in Seq(T), NEW limit \in Nat, NEW topK
  PROVE  Shown(SummarizeLogs(Upto(rows, limit), topK)).total <= limit
<1> DEFINE first == Upto(rows, limit)
<1>1. first \in Seq(T) /\ Len(first) <= limit
  BY UptoPrefix
<1>2. Shown(SummarizeLogs(first, topK)).total = SummarizeLogs(first, topK).total_logs
  BY DEF Shown
<1>3. SummarizeLogs(first, topK).total_logs = Len([i \in DOMAIN first |-> LogEntry(first[i])])
  BY DEF SummarizeLogs
<1> HIDE DEF first
<1>4. Len([i \in DOMAIN first |-> LogEntry(first[i])]) = Len(first)
  <2>1. DOMAIN first = 1..Len(first) /\ Len(first) \in Nat
    BY <1>1
  <2> QED BY <2>1
<1> QED BY <1>1, <1>2, <1>3, <1>4 DEF first

\* Whatever the planner's LLM replies, what is fetched for the prompt is within
\* the plan and the plan within the schema (retrieval/planner.py:37-48, agents/logs.py:43-63).
THEOREM BudgetsAreHonoured == Spec => []BudgetsHonoured
<1>1. Init => BudgetsHonoured
  BY DEF Init, BudgetsHonoured, DefaultPlan, NoPrompt
<1>2. FixtureInv /\ BudgetsHonoured /\ [Next]_vars => BudgetsHonoured'
  <2> SUFFICES ASSUME FixtureInv, BudgetsHonoured, [Next]_vars PROVE BudgetsHonoured'
    OBVIOUS
  <2>1. CASE Handle
    <3>1. PICK query \in Queries, reply \in Replies, llm_planner_enabled \in BOOLEAN :
       LET chosen == Plan(query, reply, llm_planner_enabled)
           service == DetectService(query, ServiceList)
       IN /\ plan' = chosen
          /\ prompt' =
               IF chosen.intent = "default" THEN [kind |-> "react"]
               ELSE [kind |-> "synthesis",
                     logs |-> Shown(SummarizeLogs(
                       SearchLogs(files, service, "", chosen.log_limit), 5)),
                     errors |-> Shown(SummarizeLogs(
                       GetErrors(files, service, chosen.error_limit), 5))]
      BY <2>1 DEF Handle
    <3> DEFINE service == DetectService(query, ServiceList)
    <3>2. plan'.log_limit \in 0..500 /\ plan'.error_limit \in 0..200
      <4>1. plan' = Plan(query, reply, llm_planner_enabled)
        BY <3>1
      <4> QED BY <4>1, PlanIsWithinSchema
    <3>3. files.logs \in Seq(LogsOf(scenario)) /\ files.errors \in Seq(ErrorsOf(scenario))
      BY DEF FixtureInv, Readable, FilesOf
    <3>4. CASE plan'.intent = "default"
      BY <3>1, <3>2, <3>4 DEF BudgetsHonoured, NoPrompt
    <3>5. CASE plan'.intent # "default"
      <4> DEFINE logs == With(files.logs, "service", service)
      <4> DEFINE errors == With(files.errors, "service", service)
      <4>1. /\ SearchLogs(files, service, "", plan'.log_limit) = Upto(logs, plan'.log_limit)
            /\ GetErrors(files, service, plan'.error_limit) = Upto(errors, plan'.error_limit)
        BY DEF SearchLogs, GetErrors
      <4>2. logs \in Seq(LogsOf(scenario)) /\ errors \in Seq(ErrorsOf(scenario))
        BY <3>3, WithGives
      <4>3. prompt' = [kind |-> "synthesis",
                       logs |-> Shown(SummarizeLogs(Upto(logs, plan'.log_limit), 5)),
                       errors |-> Shown(SummarizeLogs(Upto(errors, plan'.error_limit), 5))]
        BY <3>1, <3>5, <4>1
      <4> HIDE DEF logs, errors
      <4>4. /\ Shown(SummarizeLogs(Upto(logs, plan'.log_limit), 5)).total <= plan'.log_limit
            /\ Shown(SummarizeLogs(Upto(errors, plan'.error_limit), 5)).total <= plan'.error_limit
        <5>1. plan'.log_limit \in Nat /\ plan'.error_limit \in Nat
          BY <3>2
        <5> QED BY <4>2, <5>1, ShownWithinLimit
      <4> QED BY <3>2, <3>5, <4>3, <4>4 DEF BudgetsHonoured, NoPrompt
    <3> QED BY <3>4, <3>5
  <2>2. CASE UNCHANGED <<plan, prompt>>
    BY <2>2 DEF BudgetsHonoured, NoPrompt
  <2> QED BY <2>1, <2>2 DEF Next, vars
<1> QED BY <1>1, <1>2, FixturesAreSound, PTL DEF Spec

-----------------------------------------------------------------------------
(* The join. *)

LEMMA RequestFields ==
  ASSUME NEW req \in Requests
  PROVE  /\ req.service \in Names
         /\ req.log_limit \in Nat /\ req.trace_limit = req.log_limit
         /\ req.error_limit = req.log_limit /\ req.metric_limit = req.log_limit
<1>1. PICK s \in Names,
           t \in {None} \union FieldOf(files.traces, "trace_id") \union FieldOf(files.logs, "trace_id"),
           c \in {None} \union scenario.correlations, k \in Limits : req = Request(s, t, c, k)
  BY DEF Requests
<1>2. k \in Nat
  BY LimitAssumption
<1> QED BY <1>1, <1>2 DEF Request

\* What the rows on disk are, for a reader.
LEMMA RowsOnDisk ==
  ASSUME FixtureInv
  PROVE  /\ scenario \in Scenarios
         /\ files.logs \in Seq(LogsOf(scenario)) /\ files.traces \in Seq(TracesOf(scenario))
         /\ files.errors \in Seq(ErrorsOf(scenario))
         /\ files.metrics \in Seq(MetricsOf(scenario))
         /\ InTime(files.logs) /\ InTime(files.traces) /\ InTime(files.errors)
         /\ Unique(files.logs, "id") /\ Unique(files.traces, "trace_id")
         /\ Unique(files.errors, "error_id")
<1>1. files \in FilesOf(scenario) /\ scenario \in Scenarios
  BY DEF FixtureInv, Made, Readable
<1>2. DOMAIN files = {"logs", "traces", "metrics", "errors"}
  BY <1>1 DEF FilesOf
<1>3. InTime(files.logs) /\ InTime(files.traces) /\ InTime(files.errors)
  BY <1>2 DEF FixtureInv, Readable
<1> QED BY <1>1, <1>3 DEF FixtureInv, Readable, FilesOf

\* The first k of the rows at some places, none of them like another, are the
\* oldest of them.
Dated(T) == \A r \in T : r.timestamp \in Int
OldestOf(first, All, k) ==
  /\ Elements(first) \subseteq All
  /\ Len(first) = Fewer(k, Cardinality(All))
  /\ \A r \in Elements(first), q \in All \ Elements(first) : r.timestamp <= q.timestamp
  /\ \A r \in All \ Elements(first) : Len(first) = k

LEMMA OldestFirst ==
  ASSUME NEW T, NEW rows \in Seq(T), InTime(rows), Dated(T),
         NEW S \in SUBSET DOMAIN rows, Apart(rows, S), NEW k \in Nat
  PROVE  OldestOf(Upto(ItemsAt(rows, S), k), At(rows, S), k)
<1> DEFINE first == Upto(ItemsAt(rows, S), k)
<1> DEFINE All == At(rows, S)
<1>0. All = {rows[i] : i \in S}
  BY DEF At
<1> HIDE DEF All
<1>1. /\ first \in Seq(T)
      /\ Len(first) = IF k < Cardinality(S) THEN k ELSE Cardinality(S)
      /\ \E q : Leads(first, q, rows, S, k)
  BY FirstItemsAt
<1> HIDE DEF first
<1>2. PICK q : Leads(first, q, rows, S, k)
  BY <1>1
<1>3. Cardinality(All) = Cardinality(S)
  <2>1. IsFiniteSet(S)
    BY DomainIsFinite, FS_Subset
  <2> QED BY <2>1, ApartAreAsMany DEF All
<1>4. ASSUME NEW m \in DOMAIN first PROVE q[m] \in S /\ first[m] = rows[q[m]] /\ first[m] \in All
  BY <1>0, <1>2 DEF Leads
<1>5. Elements(first) \subseteq All
  BY <1>4 DEF Elements
<1>6. ASSUME NEW r \in Elements(first), NEW x \in All \ Elements(first)
      PROVE  r.timestamp <= x.timestamp /\ Len(first) = k
  <2>1. PICK m \in DOMAIN first : r = first[m]
    BY DEF Elements
  <2>2. PICK i \in S : x = rows[i]
    BY <1>0
  <2>3. \A n \in DOMAIN first : q[n] # i
    BY <1>4, <2>2 DEF Elements
  <2>4. Len(first) = k /\ q[m] < i
    BY <1>2, <2>3 DEF Leads
  <2>5. rows[q[m]].timestamp <= rows[i].timestamp
    <3>1. q[m] \in DOMAIN rows /\ i \in DOMAIN rows
      BY <1>4
    <3> QED BY <2>4, <3>1 DEF InTime
  <2> QED BY <1>4, <2>1, <2>2, <2>4, <2>5
<1>7. ASSUME NEW x \in All \ Elements(first) PROVE Len(first) = k
  <2>1. PICK i \in S : x = rows[i]
    BY <1>0
  <2>2. \A n \in DOMAIN first : q[n] # i
    BY <1>4, <2>1 DEF Elements
  <2> QED BY <1>2, <2>2 DEF Leads
<1>8. OldestOf(first, All, k)
  BY <1>1, <1>3, <1>5, <1>6, <1>7 DEF OldestOf, Fewer
<1> QED BY <1>8 DEF first, All

\* The rows at some places, as far as a limit takes them.
LEMMA FirstOf ==
  ASSUME NEW T, NEW rows \in Seq(T), NEW S \in SUBSET DOMAIN rows, NEW k \in Nat,
         NEW first, first = Upto(ItemsAt(rows, S), k)
  PROVE  /\ first \in Seq(T)
         /\ Elements(first) \subseteq At(rows, S)
         /\ \A x \in At(rows, S) \ Elements(first) : Len(first) = k
         /\ At(rows, S) # {} /\ k > 0 => first # << >>
<1> DEFINE All == At(rows, S)
<1>0. All = {rows[i] : i \in S}
  BY DEF At
<1> HIDE DEF All
<1>1. /\ first \in Seq(T)
      /\ Len(first) = IF k < Cardinality(S) THEN k ELSE Cardinality(S)
      /\ \E q : Leads(first, q, rows, S, k)
  BY FirstItemsAt
<1>2. PICK q : Leads(first, q, rows, S, k)
  BY <1>1
<1>3. ASSUME NEW m \in DOMAIN first PROVE q[m] \in S /\ first[m] = rows[q[m]] /\ first[m] \in All
  BY <1>0, <1>2 DEF Leads
<1>4. Elements(first) \subseteq All
  BY <1>3 DEF Elements
<1>5. ASSUME NEW x \in All \ Elements(first) PROVE Len(first) = k
  <2>1. PICK i \in S : x = rows[i]
    BY <1>0
  <2>2. \A n \in DOMAIN first : q[n] # i
    BY <1>3, <2>1 DEF Elements
  <2> QED BY <1>2, <2>2 DEF Leads
<1>6. ASSUME All # {}, k > 0 PROVE first # << >>
  <2>1. PICK x \in All : TRUE
    BY <1>6
  <2>2. CASE x \in Elements(first)
    BY <2>2 DEF Elements
  <2>3. CASE x \notin Elements(first)
    BY <1>1, <1>5, <1>6, <2>3
  <2> QED BY <2>2, <2>3
<1> QED BY <1>1, <1>4, <1>5, <1>6 DEF All

\* Every row has the fields that filters look at.
LEMMA FieldsRead ==
  ASSUME NEW sc \in Scenarios
  PROVE  /\ \A l \in LogsOf(sc) : /\ Get(l, "service", None) = l.service
                                  /\ Get(l, "correlation_id", None) = l.correlation_id
         /\ \A e \in ErrorsOf(sc) : /\ Get(e, "service", None) = e.service
                                    /\ Get(e, "correlation_id", None) = e.correlation_id
         /\ \A t \in TracesOf(sc) : /\ Get(t, "correlation_id", None) = t.correlation_id
                                    /\ Get(t, "status", None) = t.status
                                    /\ Get(t, "trace_id", None) = t.trace_id
                                    /\ t.trace_id # None /\ t.service # None
         /\ \A m \in MetricsOf(sc) : Get(m, "service", None) = m.service
         /\ \A s \in SpansOf(sc) : s.service \in sc.services /\ s.service # None
<1>1. None \notin sc.services
  BY ScenarioAssumption
<1>2. \A l \in LogsOf(sc) : /\ Get(l, "service", None) = l.service
                            /\ Get(l, "correlation_id", None) = l.correlation_id
  BY DEF LogsOf, Get
<1>3. \A e \in ErrorsOf(sc) : /\ Get(e, "service", None) = e.service
                              /\ Get(e, "correlation_id", None) = e.correlation_id
  BY DEF ErrorsOf, Get
<1>4. \A t \in TracesOf(sc) : /\ Get(t, "correlation_id", None) = t.correlation_id
                              /\ Get(t, "status", None) = t.status
                              /\ Get(t, "trace_id", None) = t.trace_id
                              /\ t.service \in sc.services /\ t.trace_id \in Id("t")
  BY DEF TracesOf, Get
<1>5. \A m \in MetricsOf(sc) : Get(m, "service", None) = m.service
  BY DEF MetricsOf, Get
<1>6. \A s \in SpansOf(sc) : s.service \in sc.services
  BY DEF SpansOf
<1>7. \A id \in Id("t") : id # None
  BY DEF Id, None
<1> QED BY <1>1, <1>2, <1>3, <1>4, <1>5, <1>6, <1>7

\* The services of a trace are those of its spans.
LEMMA TraceParts ==
  ASSUME NEW sc \in Scenarios, NEW t \in TracesOf(sc)
  PROVE  /\ t.spans \in Seq(SpansOf(sc)) /\ t.spans # << >> /\ Rooted(t.spans)
         /\ Services(t) = {s.service : s \in Elements(t.spans)}
<1>1. t.spans \in SpanLists(sc) \ {<< >>}
  BY DEF TracesOf
<1>2. t.spans \in Seq(SpansOf(sc)) /\ t.spans # << >> /\ Rooted(t.spans)
  BY <1>1 DEF SpanLists
<1>3. \A i \in DOMAIN t.spans : t.spans[i].service # None
  BY <1>2, FieldsRead
<1> QED BY <1>2, <1>3 DEF Services, Elements

Kinds == {"logs", "traces", "errors"}
PlacesOf(kind, ctx, req) == {i \in DOMAIN files[kind] : Belongs(kind, files[kind][i], ctx, req)}

\* The rows of a kind in a context are those that belong, up to the limit.
LEMMA ContextRows ==
  ASSUME FixtureInv, NEW req \in Requests, NEW ctx, ctx = GetIncidentContext(files, req),
         NEW kind \in Kinds
  PROVE  ctx[kind] = Upto(ItemsAt(files[kind], PlacesOf(kind, ctx, req)), req.log_limit)
<1> DEFINE corr == ctx.correlation_id
<1>1. /\ ctx.traces = Related(files.traces, Touching(files.traces, req.service), corr,
                              req.trace_limit)
      /\ ctx.logs = Related(files.logs, With(files.logs, "service", req.service), corr,
                            req.log_limit)
      /\ ctx.errors = Related(files.errors, With(files.errors, "service", req.service), corr,
                              req.error_limit)
  BY DEF GetIncidentContext
<1>2. req.trace_limit = req.log_limit /\ req.error_limit = req.log_limit
  BY RequestFields
<1>3. /\ scenario \in Scenarios
      /\ files.logs \in Seq(LogsOf(scenario)) /\ files.traces \in Seq(TracesOf(scenario))
      /\ files.errors \in Seq(ErrorsOf(scenario))
  BY RowsOnDisk
<1> HIDE DEF corr
<1>4. CASE corr # None
  <2>1. /\ ctx.traces = Upto(With(files.traces, "correlation_id", corr), req.log_limit)
        /\ ctx.logs = Upto(With(files.logs, "correlation_id", corr), req.log_limit)
        /\ ctx.errors = Upto(With(files.errors, "correlation_id", corr), req.log_limit)
    BY <1>1, <1>2, <1>4 DEF Related, ByCorrelation
  <2>2. \A k \in Kinds : \A row : Belongs(k, row, ctx, req) <=> row.correlation_id = corr
    BY <1>4 DEF Belongs, corr
  <2>3. /\ \A i \in DOMAIN files.logs :
             Get(files.logs[i], "correlation_id", None) = files.logs[i].correlation_id
        /\ \A i \in DOMAIN files.traces :
             Get(files.traces[i], "correlation_id", None) = files.traces[i].correlation_id
        /\ \A i \in DOMAIN files.errors :
             Get(files.errors[i], "correlation_id", None) = files.errors[i].correlation_id
    BY <1>3, FieldsRead
  <2>4. \A k \in Kinds : PlacesOf(k, ctx, req) =
          {i \in DOMAIN files[k] : Get(files[k][i], "correlation_id", None) = corr}
    BY <2>2, <2>3 DEF PlacesOf, Kinds
  <2>5. \A k \in Kinds : With(files[k], "correlation_id", corr) = ItemsAt(files[k], PlacesOf(k, ctx, req))
    BY <2>4 DEF With
  <2> QED BY <2>1, <2>5 DEF Kinds
<1>5. CASE corr = None
  <2>1. /\ ctx.traces = Upto(Touching(files.traces, req.service), req.log_limit)
        /\ ctx.logs = Upto(With(files.logs, "service", req.service), req.log_limit)
        /\ ctx.errors = Upto(With(files.errors, "service", req.service), req.log_limit)
    BY <1>1, <1>2, <1>5 DEF Related
  <2>2. \A k \in {"logs", "errors"} : \A row : Belongs(k, row, ctx, req) <=> row.service = req.service
    BY <1>5 DEF Belongs, corr
  <2>3. \A row : Belongs("traces", row, ctx, req) <=>
          \E s \in Elements(row.spans) : s.service = req.service
    BY <1>5 DEF Belongs, corr
  <2>4. /\ \A i \in DOMAIN files.logs :
             Get(files.logs[i], "service", None) = files.logs[i].service
        /\ \A i \in DOMAIN files.errors :
             Get(files.errors[i], "service", None) = files.errors[i].service
    BY <1>3, FieldsRead
  <2>5. ASSUME NEW i \in DOMAIN files.traces
        PROVE  req.service \in Services(files.traces[i]) <=>
                 Belongs("traces", files.traces[i], ctx, req)
    <3>1. files.traces[i] \in TracesOf(scenario)
      BY <1>3
    <3>2. Services(files.traces[i]) = {s.service : s \in Elements(files.traces[i].spans)}
      BY <1>3, <3>1, TraceParts
    <3> QED BY <2>3, <3>2
  <2>6. PlacesOf("traces", ctx, req) =
          {i \in DOMAIN files.traces : req.service \in Services(files.traces[i])}
    BY <2>5 DEF PlacesOf
  <2>7. \A k \in {"logs", "errors"} : PlacesOf(k, ctx, req) =
          {i \in DOMAIN files[k] : Get(files[k][i], "service", None) = req.service}
    BY <2>2, <2>4 DEF PlacesOf
  <2>8. Touching(files.traces, req.service) = ItemsAt(files.traces, PlacesOf("traces", ctx, req))
    BY <2>6 DEF Touching
  <2>9. \A k \in {"logs", "errors"} :
          With(files[k], "service", req.service) = ItemsAt(files[k], PlacesOf(k, ctx, req))
    BY <2>7 DEF With
  <2> QED BY <2>1, <2>8, <2>9 DEF Kinds
<1> QED BY <1>4, <1>5

\* The rows of the context, and all that belong in it.
AllOf(kind, ctx, req) == {r \in Elements(files[kind]) : Belongs(kind, r, ctx, req)}

LEMMA ContextIsTheOldest ==
  ASSUME FixtureInv, NEW req \in Requests, NEW ctx, ctx = GetIncidentContext(files, req),
         NEW kind \in Kinds
  PROVE  OldestOf(ctx[kind], AllOf(kind, ctx, req), req.log_limit)
<1> DEFINE S == PlacesOf(kind, ctx, req)
<1> DEFINE rows == files[kind]
<1>1. ctx[kind] = Upto(ItemsAt(rows, S), req.log_limit)
  BY ContextRows
<1>2. S \in SUBSET DOMAIN rows /\ AllOf(kind, ctx, req) = At(rows, S)
  BY DEF AllOf, PlacesOf, Elements, At
<1>3. req.log_limit \in Nat
  BY RequestFields
<1>4. /\ scenario \in Scenarios
      /\ files.logs \in Seq(LogsOf(scenario)) /\ files.traces \in Seq(TracesOf(scenario))
      /\ files.errors \in Seq(ErrorsOf(scenario))
      /\ InTime(files.logs) /\ InTime(files.traces) /\ InTime(files.errors)
      /\ Unique(files.logs, "id") /\ Unique(files.traces, "trace_id")
      /\ Unique(files.errors, "error_id")
  BY RowsOnDisk
<1>5. PICK T : rows \in Seq(T) /\ InTime(rows) /\ Dated(T) /\ Apart(rows, DOMAIN rows)
  <2>1. CASE kind = "logs"
    BY <1>4, <2>1, IdsAreNumbered DEF Unique, Dated, Apart
  <2>2. CASE kind = "traces"
    BY <1>4, <2>2, IdsAreNumbered DEF Unique, Dated, Apart
  <2>3. CASE kind = "errors"
    BY <1>4, <2>3, IdsAreNumbered DEF Unique, Dated, Apart
  <2> QED BY <2>1, <2>2, <2>3 DEF Kinds
<1>6. Apart(rows, S)
  BY <1>2, <1>5 DEF Apart
<1> HIDE DEF S, rows
<1>7. OldestOf(Upto(ItemsAt(rows, S), req.log_limit), At(rows, S), req.log_limit)
  BY <1>2, <1>3, <1>5, <1>6, OldestFirst
<1> QED BY <1>1, <1>2, <1>7

\* A trace is found under its identifier.
LEMMA TraceFound ==
  ASSUME FixtureInv, NEW t \in Elements(files.traces)
  PROVE  GetTrace(files, t.trace_id) = t
<1>1. /\ scenario \in Scenarios /\ files.traces \in Seq(TracesOf(scenario))
      /\ Unique(files.traces, "trace_id")
  BY RowsOnDisk
<1>2. PICK i \in DOMAIN files.traces : t = files.traces[i]
  BY DEF Elements
<1>3. \A j \in DOMAIN files.traces :
        Get(files.traces[j], "trace_id", None) = files.traces[j].trace_id
  BY <1>1, FieldsRead
<1> DEFINE S == {j \in DOMAIN files.traces : Get(files.traces[j], "trace_id", None) = t.trace_id}
<1>4. S = {i} /\ S \in SUBSET DOMAIN files.traces /\ S # {}
  BY <1>1, <1>2, <1>3 DEF Unique
<1>5. With(files.traces, "trace_id", t.trace_id) = ItemsAt(files.traces, S)
  BY DEF With
<1> HIDE DEF S
<1>6. \E j \in S : ItemsAt(files.traces, S)[1] = files.traces[j] /\ \A l \in S : j <= l
  BY <1>1, <1>4, FirstItem, SMTT(30)
<1>7. ItemsAt(files.traces, S)[1] = t
  BY <1>2, <1>4, <1>6
<1>8. ItemsAt(files.traces, S) # << >>
  <2>1. /\ Elements(ItemsAt(files.traces, S)) = {files.traces[j] : j \in S}
        /\ ItemsAt(files.traces, S) = << >> <=> S = {}
    BY <1>1, <1>4, ItemsAtElements
  <2> QED BY <1>4, <2>1
<1> QED BY <1>5, <1>7, <1>8 DEF GetTrace

\* The trace a join starts from on its own is a failing one of the service.
LEMMA AnchorFails ==
  ASSUME FixtureInv, NEW service, NEW failing, failing = FindErrorTraces(files.traces, service),
         failing # << >>
  PROVE  /\ failing[1] \in Elements(files.traces)
         /\ failing[1].status = "error"
         /\ \E s \in Elements(failing[1].spans) : s.service = service
<1> DEFINE touching == Touching(files.traces, service)
<1> DEFINE P == {i \in DOMAIN files.traces : service \in Services(files.traces[i])}
<1> DEFINE F == {j \in DOMAIN touching : Get(touching[j], "status", None) = "error"}
<1>1. scenario \in Scenarios /\ files.traces \in Seq(TracesOf(scenario))
  BY RowsOnDisk
<1>2. touching = ItemsAt(files.traces, P) /\ P \in SUBSET DOMAIN files.traces
  BY DEF Touching
<1>3. failing = ItemsAt(touching, F) /\ F \in SUBSET DOMAIN touching
  BY DEF FindErrorTraces, With
<1> HIDE DEF touching, P
<1>4. touching \in Seq(TracesOf(scenario)) /\ Elements(touching) = {files.traces[i] : i \in P}
  <2>1. ItemsAt(files.traces, P) \in Seq(TracesOf(scenario))
    BY <1>1, <1>2, ItemsAtPositions
  <2>2. Elements(ItemsAt(files.traces, P)) = {files.traces[i] : i \in P}
    BY <1>1, <1>2, ItemsAtElements
  <2> QED BY <1>2, <2>1, <2>2
<1> HIDE DEF F
<1>5. F # {}
  BY <1>3, <1>4, ItemsAtElements
<1>6. \E j \in F : ItemsAt(touching, F)[1] = touching[j] /\ \A l \in F : j <= l
  BY <1>3, <1>4, <1>5, FirstItem
<1>7. PICK j \in F : failing[1] = touching[j]
  BY <1>3, <1>6
<1>8. touching[j] \in Elements(touching) /\ Get(touching[j], "status", None) = "error"
  BY <1>3 DEF Elements, F
<1>9. PICK i \in P : touching[j] = files.traces[i]
  BY <1>4, <1>8
<1>10. files.traces[i] \in Elements(files.traces) /\ files.traces[i] \in TracesOf(scenario)
       /\ service \in Services(files.traces[i])
  BY <1>1, <1>2 DEF Elements, P
<1>11. files.traces[i].status = "error"
  BY <1>1, <1>8, <1>9, <1>10, FieldsRead
<1>12. \E s \in Elements(files.traces[i].spans) : s.service = service
  <2>1. Services(files.traces[i]) = {s.service : s \in Elements(files.traces[i].spans)}
    BY <1>1, <1>10, TraceParts
  <2> QED BY <1>10, <2>1
<1> QED BY <1>7, <1>9, <1>10, <1>11, <1>12

\* A trace that is not on disk is not found.
LEMMA TraceNotFound ==
  ASSUME FixtureInv, NEW id, \A t \in Elements(files.traces) : t.trace_id # id
  PROVE  GetTrace(files, id) = NotFound
<1>1. scenario \in Scenarios /\ files.traces \in Seq(TracesOf(scenario))
  BY RowsOnDisk
<1> DEFINE S == {j \in DOMAIN files.traces : Get(files.traces[j], "trace_id", None) = id}
<1>2. \A j \in DOMAIN files.traces : Get(files.traces[j], "trace_id", None) # id
  <2>1. \A j \in DOMAIN files.traces :
          Get(files.traces[j], "trace_id", None) = files.traces[j].trace_id
    BY <1>1, FieldsRead
  <2> QED BY <2>1 DEF Elements
<1>3. S = {} /\ S \in SUBSET DOMAIN files.traces
  BY <1>2
<1>4. With(files.traces, "trace_id", id) = ItemsAt(files.traces, S)
  BY DEF With
<1> HIDE DEF S
<1>5. ItemsAt(files.traces, S) = << >>
  BY <1>1, <1>3, ItemsAtElements
<1> QED BY <1>4, <1>5 DEF GetTrace

\* A failing trace of the service is one the join may start from.
LEMMA FailingIsFound ==
  ASSUME FixtureInv, NEW service, NEW t \in Elements(files.traces),
         t.status = "error", \E s \in Elements(t.spans) : s.service = service
  PROVE  FindErrorTraces(files.traces, service) # << >>
<1> DEFINE touching == Touching(files.traces, service)
<1> DEFINE P == {i \in DOMAIN files.traces : service \in Services(files.traces[i])}
<1> DEFINE F == {j \in DOMAIN touching : Get(touching[j], "status", None) = "error"}
<1>1. scenario \in Scenarios /\ files.traces \in Seq(TracesOf(scenario))
  BY RowsOnDisk
<1>2. touching = ItemsAt(files.traces, P) /\ P \in SUBSET DOMAIN files.traces
  BY DEF Touching
<1>3. FindErrorTraces(files.traces, service) = ItemsAt(touching, F) /\ F \in SUBSET DOMAIN touching
  BY DEF FindErrorTraces, With
<1>4. PICK i \in DOMAIN files.traces : t = files.traces[i]
  BY DEF Elements
<1>5. i \in P /\ Get(t, "status", None) = "error"
  <2>1. t \in TracesOf(scenario)
    BY <1>1, <1>4
  <2>2. Services(t) = {s.service : s \in Elements(t.spans)}
    BY <1>1, <2>1, TraceParts
  <2> QED BY <1>1, <1>4, <2>1, <2>2, FieldsRead
<1> HIDE DEF touching, P
<1>6. touching \in Seq(TracesOf(scenario)) /\ Elements(touching) = {files.traces[j] : j \in P}
  <2>1. ItemsAt(files.traces, P) \in Seq(TracesOf(scenario))
    BY <1>1, <1>2, ItemsAtPositions
  <2>2. Elements(ItemsAt(files.traces, P)) = {files.traces[j] : j \in P}
    BY <1>1, <1>2, ItemsAtElements
  <2> QED BY <1>2, <2>1, <2>2
<1>7. PICK j \in DOMAIN touching : touching[j] = t
  BY <1>4, <1>5, <1>6 DEF Elements
<1>8. j \in F
  BY <1>5, <1>7
<1> HIDE DEF F
<1>9. ItemsAt(touching, F) # << >>
  BY <1>3, <1>6, <1>8, ItemsAtElements
<1> QED BY <1>3, <1>9

\* The trace a context is named after.
NamedTrace(ctx, req) ==
  /\ req.trace_id # None => ctx.trace_id = req.trace_id
  /\ req.trace_id = None => \A t \in Elements(files.traces) :
       /\ t.status = "error" /\ (\E s \in Elements(t.spans) : s.service = req.service)
            => ctx.trace_id # None
       /\ t.trace_id = ctx.trace_id =>
            t.status = "error" /\ \E s \in Elements(t.spans) : s.service = req.service

LEMMA AnchorIsNamed ==
  ASSUME FixtureInv, NEW req \in Requests, NEW ctx, ctx = GetIncidentContext(files, req)
  PROVE  NamedTrace(ctx, req)
<1> DEFINE failing == FindErrorTraces(files.traces, req.service)
<1>1. ctx.trace_id = AnchorTrace(files, req)
  BY DEF GetIncidentContext
<1>2. ctx.trace_id = IF req.trace_id # None THEN req.trace_id
                     ELSE IF failing # << >> THEN failing[1].trace_id ELSE None
  BY <1>1 DEF AnchorTrace
<1>3. failing # << >> => /\ failing[1] \in Elements(files.traces)
                         /\ failing[1].status = "error"
                         /\ \E s \in Elements(failing[1].spans) : s.service = req.service
  BY AnchorFails
<1>4. \A t \in Elements(files.traces) :
        t.status = "error" /\ (\E s \in Elements(t.spans) : s.service = req.service)
          => failing # << >>
  BY FailingIsFound
<1>5. \A t \in Elements(files.traces) : t.trace_id # None
  <2>1. scenario \in Scenarios /\ files.traces \in Seq(TracesOf(scenario))
    BY RowsOnDisk
  <2> QED BY <2>1, FieldsRead DEF Elements
<1>6. \A t, u \in Elements(files.traces) : t.trace_id = u.trace_id => t = u
  BY TraceFound
<1> HIDE DEF failing
<1>7. ASSUME req.trace_id = None, NEW t \in Elements(files.traces), t.trace_id = ctx.trace_id
      PROVE  t.status = "error" /\ \E s \in Elements(t.spans) : s.service = req.service
  <2>1. failing # << >> /\ t.trace_id = failing[1].trace_id
    BY <1>2, <1>5, <1>7
  <2>2. t = failing[1]
    BY <1>3, <1>6, <2>1
  <2> QED BY <1>3, <2>1, <2>2
<1>8. ASSUME req.trace_id = None, NEW t \in Elements(files.traces),
             t.status = "error", \E s \in Elements(t.spans) : s.service = req.service
      PROVE  ctx.trace_id # None
  <2>1. failing # << >>
    BY <1>4, <1>8
  <2> QED BY <1>2, <1>3, <1>5, <1>8, <2>1
<1> QED BY <1>2, <1>7, <1>8 DEF NamedTrace

\* The correlation it has, and what becomes of the trace.
NamedCorrelation(ctx, req) ==
  /\ req.correlation_id # None => ctx.correlation_id = req.correlation_id
  /\ req.correlation_id = None =>
       /\ ctx.correlation_id # None =>
            \E t \in Elements(files.traces) : t.trace_id = ctx.trace_id
       /\ \A t \in Elements(files.traces) : t.trace_id = ctx.trace_id =>
            /\ ctx.correlation_id = t.correlation_id
            /\ \/ t \in Elements(ctx.traces) \/ Len(ctx.traces) = req.trace_limit
               \/ t.correlation_id = None
                    /\ ~\E s \in Elements(t.spans) : s.service = req.service

LEMMA AnchorIsJoined ==
  ASSUME FixtureInv, NEW req \in Requests, NEW ctx, ctx = GetIncidentContext(files, req)
  PROVE  NamedCorrelation(ctx, req)
<1>1. ctx.correlation_id =
        IF req.correlation_id # None THEN req.correlation_id
        ELSE IF ctx.trace_id = None THEN None
        ELSE Get(GetTrace(files, ctx.trace_id), "correlation_id", None)
  <2>1. ctx.trace_id = AnchorTrace(files, req) /\ ctx.correlation_id = AnchorCorrelation(files, req)
    BY DEF GetIncidentContext
  <2> QED BY <2>1 DEF AnchorCorrelation
<1>2. scenario \in Scenarios /\ files.traces \in Seq(TracesOf(scenario))
  BY RowsOnDisk
<1>3. ASSUME req.correlation_id = None, ctx.correlation_id # None,
             \A t \in Elements(files.traces) : t.trace_id # ctx.trace_id
      PROVE  FALSE
  <2>1. GetTrace(files, ctx.trace_id) = NotFound
    BY <1>3, TraceNotFound
  <2>2. Get(NotFound, "correlation_id", None) = None
    BY DEF Get, NotFound
  <2> QED BY <1>1, <1>3, <2>1, <2>2
<1>4. ASSUME req.correlation_id = None, NEW t \in Elements(files.traces),
             t.trace_id = ctx.trace_id
      PROVE  /\ ctx.correlation_id = t.correlation_id
             /\ \/ t \in Elements(ctx.traces) \/ Len(ctx.traces) = req.trace_limit
                \/ t.correlation_id = None
                     /\ ~\E s \in Elements(t.spans) : s.service = req.service
  <2>1. t \in TracesOf(scenario)
    BY <1>2 DEF Elements
  <2>2. ctx.trace_id # None /\ GetTrace(files, ctx.trace_id) = t
        /\ Get(t, "correlation_id", None) = t.correlation_id
    <3>1. GetTrace(files, t.trace_id) = t
      BY TraceFound
    <3> QED BY <1>2, <1>4, <2>1, <3>1, FieldsRead
  <2>3. ctx.correlation_id = t.correlation_id
    BY <1>1, <1>4, <2>2
  <2>4. \/ Belongs("traces", t, ctx, req)
        \/ t.correlation_id = None /\ ~\E s \in Elements(t.spans) : s.service = req.service
    BY <2>3 DEF Belongs
  <2>5. ASSUME Belongs("traces", t, ctx, req)
        PROVE  t \in Elements(ctx.traces) \/ Len(ctx.traces) = req.trace_limit
    <3>1. t \in AllOf("traces", ctx, req)
      BY <2>5 DEF AllOf
    <3>2. OldestOf(ctx["traces"], AllOf("traces", ctx, req), req.log_limit)
      BY ContextIsTheOldest DEF Kinds
    <3>3. req.trace_limit = req.log_limit
      BY RequestFields
    <3> QED BY <3>1, <3>2, <3>3 DEF OldestOf
  <2> QED BY <2>3, <2>4, <2>5
<1> QED BY <1>1, <1>3, <1>4 DEF NamedCorrelation

\* A context that has a trace has a root, among its services.
LEMMA RootIsTouched ==
  ASSUME NEW sc \in Scenarios, NEW traces \in Seq(TracesOf(sc)), traces # << >>
  PROVE  FindRootService(traces) \in ExtractServices(traces)
<1> DEFINE P == {i \in DOMAIN traces : With(traces[i].spans, "parent", None) # << >>}
<1> DEFINE rooted == ItemsAt(traces, P)
<1>1. ASSUME NEW i \in DOMAIN traces
      PROVE  /\ With(traces[i].spans, "parent", None) # << >>
             /\ With(traces[i].spans, "parent", None)[1].service \in Services(traces[i])
  <2> DEFINE list == traces[i].spans
  <2>1. traces[i] \in TracesOf(sc)
    OBVIOUS
  <2>2. /\ list \in Seq(SpansOf(sc)) /\ list # << >> /\ Rooted(list)
        /\ Services(traces[i]) = {s.service : s \in Elements(list)}
    BY <2>1, TraceParts
  <2> DEFINE R == {j \in DOMAIN list : Get(list[j], "parent", None) = None}
  <2> HIDE DEF list
  <2>3. 1 \in DOMAIN list
    BY <2>2
  <2>4. 1 \in R /\ R \in SUBSET DOMAIN list
    BY <2>2, <2>3 DEF Rooted, Get
  <2>5. With(list, "parent", None) = ItemsAt(list, R)
    BY DEF With
  <2> HIDE DEF R
  <2>6. R # {} /\ ItemsAt(list, R) # << >>
    BY <2>2, <2>4, ItemsAtElements
  <2>7. \E j \in R : ItemsAt(list, R)[1] = list[j] /\ \A l \in R : j <= l
    BY <2>2, <2>4, <2>6, FirstItem
  <2>8. ItemsAt(list, R)[1] \in Elements(list)
    BY <2>4, <2>7 DEF Elements
  <2> QED BY <2>2, <2>5, <2>6, <2>8 DEF list
<1>2. P = DOMAIN traces
  BY <1>1
<1>3. 1 \in DOMAIN traces
  OBVIOUS
<1> HIDE DEF P
<1>4. P \in SUBSET DOMAIN traces /\ P # {}
  BY <1>2, <1>3
<1>5. ItemsAt(traces, P) # << >>
  BY <1>4, ItemsAtElements
<1>6. \E i \in P : ItemsAt(traces, P)[1] = traces[i] /\ \A l \in P : i <= l
  BY <1>4, FirstItem
<1>7. PICK i \in DOMAIN traces : rooted[1] = traces[i]
  BY <1>2, <1>6
<1>8. FindRootService(traces) = With(rooted[1].spans, "parent", None)[1].service
  BY <1>5 DEF FindRootService, P
<1> QED BY <1>1, <1>7, <1>8 DEF ExtractServices

\* The measurements of a service, as far as the limit takes them.
LEMMA MetricsRead ==
  ASSUME FixtureInv, NEW service, NEW k \in Nat,
         NEW got, got = GetMetrics(files, service, k)
  PROVE  /\ got \in Seq(MetricsOf(scenario))
         /\ \A m \in Elements(got) : m \in Elements(files.metrics) /\ m.service = service
         /\ \A m \in Elements(files.metrics) : m.service = service =>
              /\ m \in Elements(got) \/ Len(got) = k
              /\ k > 0 => got # << >>
<1> DEFINE S == {i \in DOMAIN files.metrics : Get(files.metrics[i], "service", None) = service}
<1> DEFINE All == At(files.metrics, S)
<1>1. scenario \in Scenarios /\ files.metrics \in Seq(MetricsOf(scenario))
  BY RowsOnDisk
<1>2. \A i \in DOMAIN files.metrics :
        Get(files.metrics[i], "service", None) = files.metrics[i].service
  BY <1>1, FieldsRead
<1>3. All = {m \in Elements(files.metrics) : m.service = service}
  BY <1>2 DEF Elements, At
<1>4. got = Upto(ItemsAt(files.metrics, S), k) /\ S \in SUBSET DOMAIN files.metrics
  BY DEF GetMetrics, With
<1> HIDE DEF S
<1>5. /\ got \in Seq(MetricsOf(scenario))
      /\ Elements(got) \subseteq All
      /\ \A x \in All \ Elements(got) : Len(got) = k
      /\ All # {} /\ k > 0 => got # << >>
  BY <1>1, <1>4, FirstOf
<1> HIDE DEF All
<1> QED BY <1>3, <1>5

\* Every service of the context that has measurements is in its metrics, no other is.
Measured(ctx, req) ==
  /\ \A m \in Elements(files.metrics) :
       m.service \in ctx.services /\ req.metric_limit > 0 =>
         /\ m.service \in DOMAIN ctx.metrics
         /\ m \in Elements(ctx.metrics[m.service])
              \/ Len(ctx.metrics[m.service]) = req.metric_limit
  /\ \A s \in DOMAIN ctx.metrics : \A m \in Elements(ctx.metrics[s]) :
       m.service = s /\ s \in ctx.services

LEMMA ContextMetrics ==
  ASSUME FixtureInv, NEW req \in Requests, NEW ctx, ctx = GetIncidentContext(files, req)
  PROVE  Measured(ctx, req)
<1> DEFINE k == req.metric_limit
<1> DEFINE Got(s) == GetMetrics(files, s, k)
<1>1. ctx.metrics = [s \in {s \in ctx.services : Got(s) # << >>} |-> Got(s)]
  BY DEF GetIncidentContext
<1>2. k \in Nat
  BY RequestFields
<1>3. DOMAIN ctx.metrics = {s \in ctx.services : Got(s) # << >>}
      /\ \A s \in DOMAIN ctx.metrics : ctx.metrics[s] = Got(s)
  BY <1>1
<1> HIDE DEF k
<1>4. ASSUME NEW s
      PROVE  /\ \A m \in Elements(Got(s)) : m \in Elements(files.metrics) /\ m.service = s
             /\ \A m \in Elements(files.metrics) : m.service = s =>
                  /\ m \in Elements(Got(s)) \/ Len(Got(s)) = k
                  /\ k > 0 => Got(s) # << >>
  BY <1>2, MetricsRead
<1> HIDE DEF Got
<1>5. ASSUME NEW m \in Elements(files.metrics), m.service \in ctx.services, k > 0
      PROVE  /\ m.service \in DOMAIN ctx.metrics
             /\ m \in Elements(ctx.metrics[m.service]) \/ Len(ctx.metrics[m.service]) = k
  BY <1>3, <1>4, <1>5
<1>6. ASSUME NEW s \in DOMAIN ctx.metrics, NEW m \in Elements(ctx.metrics[s])
      PROVE  m.service = s /\ s \in ctx.services
  BY <1>3, <1>4
<1> QED BY <1>5, <1>6 DEF k, Measured

LEMMA JoinIsExact == FixtureInv => JoinExact
<1> SUFFICES ASSUME FixtureInv, NEW req \in Requests, NEW ctx, ctx = GetIncidentContext(files, req)
    PROVE
     /\ \A kind \in {"logs", "traces", "errors"} :
          /\ Elements(ctx[kind]) \subseteq AllOf(kind, ctx, req)
          /\ Len(ctx[kind]) = Fewer(req.log_limit, Cardinality(AllOf(kind, ctx, req)))
          /\ \A r \in Elements(ctx[kind]), q \in AllOf(kind, ctx, req) \ Elements(ctx[kind]) :
               r.timestamp <= q.timestamp
     /\ req.trace_id # None => ctx.trace_id = req.trace_id
     /\ req.trace_id = None => \A t \in Elements(files.traces) :
          /\ t.status = "error" /\ (\E s \in Elements(t.spans) : s.service = req.service)
               => ctx.trace_id # None
          /\ t.trace_id = ctx.trace_id =>
               t.status = "error" /\ \E s \in Elements(t.spans) : s.service = req.service
     /\ req.correlation_id # None => ctx.correlation_id = req.correlation_id
     /\ req.correlation_id = None =>
          /\ ctx.correlation_id # None =>
               \E t \in Elements(files.traces) : t.trace_id = ctx.trace_id
          /\ \A t \in Elements(files.traces) : t.trace_id = ctx.trace_id =>
               /\ ctx.correlation_id = t.correlation_id
               /\ \/ t \in Elements(ctx.traces) \/ Len(ctx.traces) = req.trace_limit
                  \/ t.correlation_id = None
                       /\ ~\E s \in Elements(t.spans) : s.service = req.service
     /\ ctx.traces # << >> => ctx.root_service \in ctx.services
     /\ \A m \in Elements(files.metrics) :
          m.service \in ctx.services /\ req.metric_limit > 0 =>
            /\ m.service \in DOMAIN ctx.metrics
            /\ m \in Elements(ctx.metrics[m.service])
                 \/ Len(ctx.metrics[m.service]) = req.metric_limit
     /\ \A s \in DOMAIN ctx.metrics : \A m \in Elements(ctx.metrics[s]) :
          m.service = s /\ s \in ctx.services
  BY Zenon DEF JoinExact, AllOf
<1>1. ASSUME NEW kind \in Kinds PROVE OldestOf(ctx[kind], AllOf(kind, ctx, req), req.log_limit)
  BY ContextIsTheOldest
<1>2. ASSUME ctx.traces # << >> PROVE ctx.root_service \in ctx.services
  <2>1. /\ ctx.services = ExtractServices(ctx.traces)
        /\ ctx.root_service = FindRootService(ctx.traces)
    BY DEF GetIncidentContext
  <2>2. scenario \in Scenarios /\ files.traces \in Seq(TracesOf(scenario)) /\ req.log_limit \in Nat
    BY RowsOnDisk, RequestFields
  <2>3. ctx["traces"] = Upto(ItemsAt(files["traces"], PlacesOf("traces", ctx, req)), req.log_limit)
    BY ContextRows DEF Kinds
  <2>4. PlacesOf("traces", ctx, req) \in SUBSET DOMAIN files.traces
    BY DEF PlacesOf
  <2>5. ItemsAt(files.traces, PlacesOf("traces", ctx, req)) \in Seq(TracesOf(scenario))
    BY <2>2, <2>4, ItemsAtPositions
  <2>6. ctx.traces \in Seq(TracesOf(scenario))
    BY <2>2, <2>3, <2>5, UptoPrefix
  <2> QED BY <1>2, <2>1, <2>2, <2>6, RootIsTouched
<1>3. \A kind \in {"logs", "traces", "errors"} :
        /\ Elements(ctx[kind]) \subseteq AllOf(kind, ctx, req)
        /\ Len(ctx[kind]) = Fewer(req.log_limit, Cardinality(AllOf(kind, ctx, req)))
        /\ \A r \in Elements(ctx[kind]), q \in AllOf(kind, ctx, req) \ Elements(ctx[kind]) :
             r.timestamp <= q.timestamp
  BY <1>1 DEF OldestOf, Kinds
<1>4. NamedTrace(ctx, req) /\ NamedCorrelation(ctx, req)
  BY AnchorIsNamed, AnchorIsJoined
<1>5. Measured(ctx, req)
  BY ContextMetrics
<1> QED BY <1>2, <1>3, <1>4, <1>5, Zenon DEF Measured, NamedTrace, NamedCorrelation

\* Whatever the fixtures hold and whatever is asked of them, the join brings the rows
\* of its correlation, or of the service when it has none, all of them or the oldest;
\* it is named after what it was asked for, or after a failing trace of the service
\* and its correlation, and measures every service its traces touch
\* (mcp/tools/_backends/mock.py:177-206).
THEOREM ContextIsJoined == Spec => []JoinExact
  BY JoinIsExact, FixturesAreSound, PTL

-----------------------------------------------------------------------------
(* Citations. *)

\* An answer's only citation is left to it exactly when the context backs it.
LEMMA LeftIsCited ==
  ASSUME NEW item, NEW ctx
  PROVE  StripHallucinations(<<item>>, ctx) # << >> <=> Cited(item, ExtractRefs(ctx))
<1> DEFINE S == {i \in DOMAIN <<item>> : Cited(<<item>>[i], ExtractRefs(ctx))}
<1>1. <<item>> \in Seq({item}) /\ DOMAIN <<item>> = {1} /\ <<item>>[1] = item
  OBVIOUS
<1>2. S \in SUBSET DOMAIN <<item>> /\ (S = {} <=> ~Cited(item, ExtractRefs(ctx)))
  BY <1>1
<1>3. StripHallucinations(<<item>>, ctx) = ItemsAt(<<item>>, S)
  BY DEF StripHallucinations
<1> HIDE DEF S
<1>4. ItemsAt(<<item>>, S) = << >> <=> S = {}
  BY <1>1, <1>2, ItemsAtElements
<1> QED BY <1>2, <1>3, <1>4

\* A measurement has a metric, and those of a context are on disk.
LEMMA MetricsAreNamed ==
  ASSUME FixtureInv, NEW m \in Elements(files.metrics)
  PROVE  m.metric # None
<1>1. scenario \in Scenarios /\ files.metrics \in Seq(MetricsOf(scenario))
  BY RowsOnDisk
<1>2. m \in MetricsOf(scenario) /\ None \notin scenario.metrics
  BY <1>1, ScenarioAssumption DEF Elements
<1> QED BY <1>2 DEF MetricsOf

LEMMA ContextMeasurements ==
  ASSUME FixtureInv, NEW req \in Requests, NEW ctx, ctx = GetIncidentContext(files, req),
         NEW s \in DOMAIN ctx.metrics
  PROVE  Elements(ctx.metrics[s]) \subseteq Elements(files.metrics)
<1> DEFINE k == req.metric_limit
<1> DEFINE Got(x) == GetMetrics(files, x, k)
<1>1. ctx.metrics = [x \in {x \in ctx.services : Got(x) # << >>} |-> Got(x)]
  BY DEF GetIncidentContext
<1>2. k \in Nat
  BY RequestFields
<1>3. ctx.metrics[s] = Got(s)
  BY <1>1
<1> HIDE DEF k
<1>4. \A m \in Elements(Got(s)) : m \in Elements(files.metrics)
  BY <1>2, MetricsRead
<1> QED BY <1>3, <1>4

\* What a context may be cited for.
LEMMA RefsOfContext ==
  ASSUME FixtureInv, NEW req \in Requests, NEW ctx, ctx = GetIncidentContext(files, req)
  PROVE  /\ DOMAIN ExtractRefs(ctx) = {"trace_id", "log_id", "error_id", "service", "metric"}
         /\ ExtractRefs(ctx).log_id = {l.id : l \in Elements(ctx.logs)}
         /\ ExtractRefs(ctx).error_id = {e.error_id : e \in Elements(ctx.errors)}
         /\ ExtractRefs(ctx).trace_id =
              UNION {{t.trace_id : t \in Elements(ctx.traces)},
                     FieldOf(ctx.logs, "trace_id"), FieldOf(ctx.errors, "trace_id")}
         /\ ExtractRefs(ctx).service =
              UNION {ctx.services, {l.service : l \in Elements(ctx.logs)},
                     {e.service : e \in Elements(ctx.errors)}}
         /\ ExtractRefs(ctx).metric =
              UNION {{m.metric : m \in Elements(ctx.metrics[s])} : s \in DOMAIN ctx.metrics}
         /\ Elements(ctx.logs) \subseteq Elements(files.logs)
         /\ Elements(ctx.traces) \subseteq Elements(files.traces)
         /\ Elements(ctx.errors) \subseteq Elements(files.errors)
<1>1. /\ scenario \in Scenarios
      /\ files.logs \in Seq(LogsOf(scenario)) /\ files.traces \in Seq(TracesOf(scenario))
      /\ files.errors \in Seq(ErrorsOf(scenario))
  BY RowsOnDisk
<1>2. \A kind \in Kinds : Elements(ctx[kind]) \subseteq Elements(files[kind])
  <2> SUFFICES ASSUME NEW kind \in Kinds PROVE Elements(ctx[kind]) \subseteq Elements(files[kind])
    OBVIOUS
  <2>1. OldestOf(ctx[kind], AllOf(kind, ctx, req), req.log_limit)
    BY ContextIsTheOldest
  <2> QED BY <2>1 DEF OldestOf, AllOf
<1>3. /\ Elements(ctx.logs) \subseteq Elements(files.logs)
      /\ Elements(ctx.traces) \subseteq Elements(files.traces)
      /\ Elements(ctx.errors) \subseteq Elements(files.errors)
  BY <1>2 DEF Kinds
<1>4. /\ \A l \in Elements(ctx.logs) : l.id # None /\ l.service # None
      /\ \A e \in Elements(ctx.errors) : e.error_id # None /\ e.service # None
      /\ \A t \in Elements(ctx.traces) : t.trace_id # None
  <2>1. None \notin scenario.services
    BY <1>1, ScenarioAssumption
  <2>2. /\ \A l \in Elements(ctx.logs) : l \in LogsOf(scenario)
        /\ \A e \in Elements(ctx.errors) : e \in ErrorsOf(scenario)
        /\ \A t \in Elements(ctx.traces) : t \in TracesOf(scenario)
    <3>1. /\ \A l \in Elements(files.logs) : l \in LogsOf(scenario)
          /\ \A e \in Elements(files.errors) : e \in ErrorsOf(scenario)
          /\ \A t \in Elements(files.traces) : t \in TracesOf(scenario)
      BY <1>1 DEF Elements
    <3> QED BY <1>3, <3>1
  <2>3. \A prefix : \A id \in Id(prefix) : id # None
    BY DEF Id, None
  <2> QED BY <2>1, <2>2, <2>3 DEF LogsOf, ErrorsOf, TracesOf
<1>5. \A rows, field : FieldOf(rows, field) = {r[field] : r \in Elements(rows)} \ {None}
  BY DEF FieldOf, Elements
<1>6. /\ FieldOf(ctx.logs, "id") = {l.id : l \in Elements(ctx.logs)}
      /\ FieldOf(ctx.errors, "error_id") = {e.error_id : e \in Elements(ctx.errors)}
      /\ FieldOf(ctx.traces, "trace_id") = {t.trace_id : t \in Elements(ctx.traces)}
      /\ FieldOf(ctx.logs, "service") = {l.service : l \in Elements(ctx.logs)}
      /\ FieldOf(ctx.errors, "service") = {e.service : e \in Elements(ctx.errors)}
  BY <1>4, <1>5
<1>7. ctx.services = ExtractServices(ctx.traces) /\ DOMAIN ctx.metrics \subseteq ctx.services
  BY DEF GetIncidentContext
<1>8. /\ DOMAIN ExtractRefs(ctx) = {"trace_id", "log_id", "error_id", "service", "metric"}
      /\ ExtractRefs(ctx).log_id = FieldOf(ctx.logs, "id")
      /\ ExtractRefs(ctx).error_id = FieldOf(ctx.errors, "error_id")
      /\ ExtractRefs(ctx).trace_id =
           UNION {FieldOf(rows, "trace_id") : rows \in {ctx.traces, ctx.logs, ctx.errors}}
      /\ ExtractRefs(ctx).service =
           UNION {ctx.services, ExtractServices(ctx.traces), FieldOf(ctx.logs, "service"),
                  FieldOf(ctx.errors, "service"), DOMAIN ctx.metrics}
  BY DEF ExtractRefs
<1>9. UNION {FieldOf(rows, "trace_id") : rows \in {ctx.traces, ctx.logs, ctx.errors}} =
        UNION {FieldOf(ctx.traces, "trace_id"), FieldOf(ctx.logs, "trace_id"),
               FieldOf(ctx.errors, "trace_id")}
  OBVIOUS
<1>10. UNION {ctx.services, ExtractServices(ctx.traces), FieldOf(ctx.logs, "service"),
              FieldOf(ctx.errors, "service"), DOMAIN ctx.metrics} =
         UNION {ctx.services, FieldOf(ctx.logs, "service"), FieldOf(ctx.errors, "service")}
  BY <1>7
<1>11. ExtractRefs(ctx).metric =
         UNION {{m.metric : m \in Elements(ctx.metrics[s])} : s \in DOMAIN ctx.metrics}
  <2>1. ExtractRefs(ctx).metric = UNION {FieldOf(ctx.metrics[s], "metric") : s \in DOMAIN ctx.metrics}
    BY DEF ExtractRefs
  <2>2. ASSUME NEW s \in DOMAIN ctx.metrics
        PROVE  FieldOf(ctx.metrics[s], "metric") = {m.metric : m \in Elements(ctx.metrics[s])}
    <3>1. \A m \in Elements(ctx.metrics[s]) : m \in Elements(files.metrics)
      BY ContextMeasurements
    <3>2. \A m \in Elements(files.metrics) : m.metric # None
      BY MetricsAreNamed
    <3> QED BY <1>5, <3>1, <3>2
  <2> QED BY <2>1, <2>2
<1> QED BY <1>3, <1>6, <1>8, <1>9, <1>10, <1>11

\* A log is found under its identifier, alone in a window of nothing.
LEMMA LogFound ==
  ASSUME FixtureInv, NEW l \in Elements(files.logs)
  PROVE  GetLogContext(files, l.id, 0) = <<l>>
<1>1. files.logs \in Seq(LogsOf(scenario)) /\ Unique(files.logs, "id")
  BY RowsOnDisk
<1>2. PICK i \in DOMAIN files.logs : l = files.logs[i]
  BY DEF Elements
<1> DEFINE found == {j \in DOMAIN files.logs : files.logs[j].id = l.id}
<1>3. found = {i} /\ i \in Nat /\ i >= 1 /\ i <= Len(files.logs)
  BY <1>1, <1>2 DEF Unique
<1> HIDE DEF found
<1>4. Least(found) = i
  BY <1>3 DEF Least
<1> DEFINE upto == Upto(files.logs, i)
<1>5. /\ upto \in Seq(LogsOf(scenario))
      /\ Len(upto) = IF i < Len(files.logs) THEN i ELSE Len(files.logs)
      /\ \A j \in DOMAIN upto : j \in DOMAIN files.logs /\ upto[j] = files.logs[j]
  BY <1>1, <1>3, UptoPrefix
<1>6. Len(upto) = i /\ upto[i] = l
  BY <1>1, <1>2, <1>3, <1>5
<1>7. GetLogContext(files, l.id, 0) = SubSeq(upto, i, Len(upto))
  <2>1. /\ found # {} /\ i - 0 = i /\ i + 0 = i /\ ~(i < 1)
    BY <1>3
  <2>2. GetLogContext(files, l.id, 0) =
          IF found = {} THEN <<NotFound>>
          ELSE SubSeq(Upto(files.logs, i + 0), IF i - 0 < 1 THEN 1 ELSE i - 0,
                      Len(Upto(files.logs, i + 0)))
    BY <1>4 DEF GetLogContext, found
  <2> QED BY <2>1, <2>2
<1> HIDE DEF upto
<1>8. SubSeq(upto, i, i) = <<upto[i]>>
  <2>1. upto \in Seq(LogsOf(scenario)) /\ i \in 1..Len(upto)
    BY <1>3, <1>5, <1>6
  <2>2. /\ SubSeq(upto, i, i) \in Seq(LogsOf(scenario)) /\ Len(SubSeq(upto, i, i)) = 1
        /\ SubSeq(upto, i, i)[1] = upto[i]
    BY <2>1
  <2> DEFINE one == SubSeq(upto, i, i)
  <2> DEFINE log == upto[i]
  <2>3. /\ DOMAIN one = {1} /\ DOMAIN <<log>> = {1} /\ one[1] = <<log>>[1]
        /\ one = [k \in DOMAIN one |-> one[k]] /\ <<log>> = [k \in DOMAIN <<log>> |-> <<log>>[k]]
    BY <2>2
  <2> HIDE DEF one, log
  <2>4. one = <<log>>
    BY <2>3
  <2> QED BY <2>4 DEF one, log
<1> QED BY <1>6, <1>7, <1>8

LEMMA CitationsAreGrounded == FixtureInv => CitationsGrounded
<1> DEFINE ids == UNION {FieldOf(files.logs, "id"), FieldOf(files.errors, "error_id"),
                         FieldOf(files.traces, "trace_id"), FieldOf(files.logs, "trace_id"),
                         FieldOf(files.errors, "trace_id"), Names, scenario.services,
                         FieldOf(files.metrics, "metric")}
<1> DEFINE Left(ctx, type) ==
      {id \in ids : StripHallucinations(<<[type |-> type, ref |-> id]>>, ctx) # << >>}
<1> SUFFICES ASSUME FixtureInv, NEW req \in Requests, NEW ctx, ctx = GetIncidentContext(files, req)
    PROVE
     /\ Left(ctx, "log_id") = {l.id : l \in Elements(ctx.logs)}
     /\ Left(ctx, "error_id") = {e.error_id : e \in Elements(ctx.errors)}
     /\ Left(ctx, "trace_id") = UNION {{t.trace_id : t \in Elements(ctx.traces)},
          FieldOf(ctx.logs, "trace_id"), FieldOf(ctx.errors, "trace_id")}
     /\ Left(ctx, "service") = UNION {ctx.services, {l.service : l \in Elements(ctx.logs)},
                                 {e.service : e \in Elements(ctx.errors)}}
     /\ Left(ctx, "metric") = UNION {{m.metric : m \in Elements(ctx.metrics[s])} :
                                s \in DOMAIN ctx.metrics}
     /\ \A l \in Elements(ctx.logs) : GetLogContext(files, l.id, 0) = <<l>>
     /\ \A t \in Elements(ctx.traces) : GetTrace(files, t.trace_id) = t
  BY Zenon DEF CitationsGrounded
<1> DEFINE refs == ExtractRefs(ctx)
<1>1. /\ DOMAIN refs = {"trace_id", "log_id", "error_id", "service", "metric"}
      /\ refs.log_id = {l.id : l \in Elements(ctx.logs)}
      /\ refs.error_id = {e.error_id : e \in Elements(ctx.errors)}
      /\ refs.trace_id =
           UNION {{t.trace_id : t \in Elements(ctx.traces)},
                  FieldOf(ctx.logs, "trace_id"), FieldOf(ctx.errors, "trace_id")}
      /\ refs.service =
           UNION {ctx.services, {l.service : l \in Elements(ctx.logs)},
                  {e.service : e \in Elements(ctx.errors)}}
      /\ refs.metric =
           UNION {{m.metric : m \in Elements(ctx.metrics[s])} : s \in DOMAIN ctx.metrics}
      /\ Elements(ctx.logs) \subseteq Elements(files.logs)
      /\ Elements(ctx.traces) \subseteq Elements(files.traces)
      /\ Elements(ctx.errors) \subseteq Elements(files.errors)
  BY RefsOfContext
<1> HIDE DEF refs
<1>2. ASSUME NEW type \in {"log_id", "error_id", "trace_id", "service", "metric"}
      PROVE  Left(ctx, type) = {id \in ids : id \in refs[type]}
  <2>1. ASSUME NEW id
        PROVE  StripHallucinations(<<[type |-> type, ref |-> id]>>, ctx) # << >>
                 <=> id \in refs[type]
    <3>1. Cited([type |-> type, ref |-> id], refs) <=> id \in refs[type]
      BY <1>1 DEF Cited
    <3> QED BY <3>1, LeftIsCited DEF refs
  <2> QED BY <2>1
<1>3. /\ \A l \in Elements(files.logs) : l.id \in ids /\ l.service \in ids
      /\ \A e \in Elements(files.errors) : e.error_id \in ids /\ e.service \in ids
      /\ \A t \in Elements(files.traces) : t.trace_id \in ids /\ Services(t) \subseteq ids
  <2>1. /\ scenario \in Scenarios
        /\ files.logs \in Seq(LogsOf(scenario)) /\ files.traces \in Seq(TracesOf(scenario))
        /\ files.errors \in Seq(ErrorsOf(scenario))
    BY RowsOnDisk
  <2>2. /\ \A l \in Elements(files.logs) : l \in LogsOf(scenario)
        /\ \A e \in Elements(files.errors) : e \in ErrorsOf(scenario)
        /\ \A t \in Elements(files.traces) : t \in TracesOf(scenario)
    BY <2>1 DEF Elements
  <2>3. \A rows, field : FieldOf(rows, field) = {r[field] : r \in Elements(rows)} \ {None}
    BY DEF FieldOf, Elements
  <2>4. \A prefix : \A id \in Id(prefix) : id # None
    BY DEF Id, None
  <2>5. \A l \in Elements(files.logs) : l.id \in FieldOf(files.logs, "id") /\ l.service \in scenario.services
    BY <2>2, <2>3, <2>4 DEF LogsOf
  <2>6. \A e \in Elements(files.errors) :
          e.error_id \in FieldOf(files.errors, "error_id") /\ e.service \in scenario.services
    BY <2>2, <2>3, <2>4 DEF ErrorsOf
  <2>7. \A t \in Elements(files.traces) : t.trace_id \in FieldOf(files.traces, "trace_id")
    BY <2>2, <2>3, <2>4 DEF TracesOf
  <2>8. ASSUME NEW t \in Elements(files.traces) PROVE Services(t) \subseteq scenario.services
    <3>1. t.spans \in Seq(SpansOf(scenario)) /\ Services(t) = {s.service : s \in Elements(t.spans)}
      BY <2>1, <2>2, TraceParts
    <3>2. \A s \in Elements(t.spans) : s \in SpansOf(scenario)
      BY <3>1 DEF Elements
    <3> QED BY <3>1, <3>2 DEF SpansOf
  <2>9. /\ FieldOf(files.logs, "id") \subseteq ids /\ FieldOf(files.errors, "error_id") \subseteq ids
        /\ FieldOf(files.traces, "trace_id") \subseteq ids /\ scenario.services \subseteq ids
    OBVIOUS
  <2> QED BY <2>5, <2>6, <2>7, <2>8, <2>9
<1>4. FieldOf(ctx.logs, "trace_id") \subseteq ids /\ FieldOf(ctx.errors, "trace_id") \subseteq ids
  <2>1. \A rows, field : FieldOf(rows, field) = {r[field] : r \in Elements(rows)} \ {None}
    BY DEF FieldOf, Elements
  <2>2. /\ FieldOf(ctx.logs, "trace_id") \subseteq FieldOf(files.logs, "trace_id")
        /\ FieldOf(ctx.errors, "trace_id") \subseteq FieldOf(files.errors, "trace_id")
    BY <1>1, <2>1
  <2> QED BY <2>2
<1>5. \A m \in Elements(files.metrics) : m.metric \in ids
  <2>1. FieldOf(files.metrics, "metric") = {m["metric"] : m \in Elements(files.metrics)} \ {None}
    BY DEF FieldOf, Elements
  <2> QED BY <2>1, MetricsAreNamed
<1> HIDE DEF ids, Left
<1>6. Left(ctx, "log_id") = {l.id : l \in Elements(ctx.logs)}
  BY <1>1, <1>2, <1>3
<1>7. Left(ctx, "error_id") = {e.error_id : e \in Elements(ctx.errors)}
  BY <1>1, <1>2, <1>3
<1>8. Left(ctx, "trace_id") = UNION {{t.trace_id : t \in Elements(ctx.traces)},
        FieldOf(ctx.logs, "trace_id"), FieldOf(ctx.errors, "trace_id")}
  <2>1. /\ {t.trace_id : t \in Elements(ctx.traces)} \subseteq ids
        /\ FieldOf(ctx.logs, "trace_id") \subseteq ids
        /\ FieldOf(ctx.errors, "trace_id") \subseteq ids
    BY <1>1, <1>3, <1>4
  <2> QED BY <1>1, <1>2, <2>1
<1>9. Left(ctx, "metric") = UNION {{m.metric : m \in Elements(ctx.metrics[s])} :
                              s \in DOMAIN ctx.metrics}
  <2>1. \A s \in DOMAIN ctx.metrics : \A m \in Elements(ctx.metrics[s]) : m.metric \in ids
    BY <1>5, ContextMeasurements
  <2>2. refs.metric \subseteq ids
    BY <1>1, <2>1
  <2> QED BY <1>1, <1>2, <2>2
<1>10. \A t \in Elements(ctx.traces) : GetTrace(files, t.trace_id) = t
  BY <1>1, TraceFound
<1>11. ctx.services \subseteq ids
  <2>1. ctx.services = ExtractServices(ctx.traces)
    BY DEF GetIncidentContext
  <2>2. \A i \in DOMAIN ctx.traces : Services(ctx.traces[i]) \subseteq ids
    BY <1>1, <1>3 DEF Elements
  <2> QED BY <2>1, <2>2 DEF ExtractServices
<1>12. Left(ctx, "service") = UNION {ctx.services, {l.service : l \in Elements(ctx.logs)},
                                {e.service : e \in Elements(ctx.errors)}}
  <2>1. refs.service \subseteq ids
    BY <1>1, <1>3, <1>11
  <2> QED BY <1>1, <1>2, <2>1
<1>13. \A l \in Elements(ctx.logs) : GetLogContext(files, l.id, 0) = <<l>>
  BY <1>1, LogFound
<1> QED BY <1>6, <1>7, <1>8, <1>9, <1>10, <1>12, <1>13

\* Whatever the fixtures hold and whatever was asked of them, a citation of a type
\* that can be checked is left exactly when its context names the thing cited
\* (llm/validation.py:76-108).
THEOREM CitationsAreOfContext == Spec => []CitationsGrounded
  BY CitationsAreGrounded, FixturesAreSound, PTL
=============================================================================
