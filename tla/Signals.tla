------------------------------ MODULE Signals -------------------------------
(***************************************************************************)
(* retrieval/signals.py: what is kept of the rows a tool returned, before  *)
(* the LLM sees them.  Pure functions; cut-offs that are default arguments *)
(* in the code are parameters.  Names of levels are taken in upper case.   *)
(***************************************************************************)
EXTENDS Rows

-----------------------------------------------------------------------------
(* Logs. *)

\* LogEntry.model_validate: no field is required, and what is absent is made up.
LogEntry(row) ==
  [id |-> Get(row, "id", None), timestamp |-> Get(row, "timestamp", 0),
   service |-> Get(row, "service", None), level |-> Get(row, "level", "INFO"),
   message |-> Get(row, "message", None)]

Severity == [CRITICAL |-> 4, ERROR |-> 3, WARN |-> 2, INFO |-> 1, DEBUG |-> 0]
LevelAliases == [FATAL |-> "CRITICAL", WARNING |-> "WARN", ERR |-> "ERROR"]
Normalize(raw) == LET up == IF raw = "" THEN "INFO" ELSE raw IN Get(LevelAliases, up, up)

\* Mutant of Outranks: by frequency, then severity.
OutranksByCount(a, b) ==
  LET s == Get(Severity, a.level, 0)
      t == Get(Severity, b.level, 0)
  IN a.count > b.count \/ (a.count = b.count /\ s > t)

\* The sort key: severity of a cluster's level, then its size, both descending.
Outranks(a, b) ==
  LET s == Get(Severity, a.level, 0)
      t == Get(Severity, b.level, 0)
  IN s > t \/ (s = t /\ a.count > b.count)

\* A cluster takes level, service and sample from its first entry.
Cluster(group) ==
  LET times == {group[i].timestamp : i \in DOMAIN group}
  IN [message |-> group[1].message, count |-> Len(group),
      level |-> Normalize(group[1].level), service |-> group[1].service,
      sample_id |-> group[1].id, first_seen |-> Least(times), last_seen |-> Most(times)]

SummarizeLogs(rows, topK) ==
  LET entries == [i \in DOMAIN rows |-> LogEntry(rows[i])]
      messages == Distinct(entries, "message")
      clusters == [k \in DOMAIN messages |->
        Cluster(With(entries, "message", messages[k]))]
      levels == {Normalize(entries[i].level) : i \in DOMAIN entries}
  IN [total_logs |-> Len(entries), unique_messages |-> Len(messages),
      top_clusters |-> Upto(Sorted(clusters, Outranks), topK),
      level_distribution |-> [l \in levels |->
        Cardinality({i \in DOMAIN entries : Normalize(entries[i].level) = l})]]

-----------------------------------------------------------------------------
(* Metrics.  Values are natural numbers; a ratio is held in hundredths, as   *)
(* round(last / first, 2) leaves it, and percentages are whole.              *)

\* MetricPoint needs a name and a value; rows without are dropped.
Points(rows) ==
  ItemsAt(rows, {i \in DOMAIN rows : {"metric", "value"} \subseteq DOMAIN rows[i]})

\* Mutant of Pct: the index is not reduced by one.
PctNext(values, p) ==
  LET n == Len(values)
      i == (p * n) \div 100 + 1
  IN values[IF i > n THEN n ELSE i]

\* _pct, on a sorted list; indexes here start at 1.
Pct(values, p) == LET i == (p * Len(values)) \div 100 IN values[IF i < 1 THEN 1 ELSE i]

Hundredths(last, first) == (200 * last + first) \div (2 * first)

\* The threshold test: over it, or under its inverse but not zero.
Anomalous(ratio, threshold) ==
  ratio > 100 * threshold \/ (0 < ratio /\ ratio * threshold < 100)

Smaller(v, w) == v < w

MetricStats(series) ==
  LET inTime == Sorted(series, Earlier)
      values == Sorted([i \in DOMAIN series |-> inTime[i].value], Smaller)
      first == inTime[1].value
      last == inTime[Len(inTime)].value
  IN [count |-> Len(values), p50 |-> Pct(values, 50), p95 |-> Pct(values, 95),
      p99 |-> Pct(values, 99), min |-> values[1], max |-> values[Len(values)],
      first_value |-> first, last_value |-> last,
      change_ratio |-> IF first = 0 THEN <<>> ELSE <<Hundredths(last, first)>>]

SummarizeMetrics(rows, threshold) ==
  LET points == Points(rows)
      names == {points[i].metric : i \in DOMAIN points}
      summary == [n \in names |-> MetricStats(With(points, "metric", n))]
      odd == {n \in names :
        /\ summary[n].change_ratio # <<>> /\ summary[n].count >= 2
        /\ Anomalous(summary[n].change_ratio[1], threshold)}
  IN [summary |-> summary,
      anomalies |-> [n \in odd |->
        IF summary[n].change_ratio[1] > 100 THEN "spike" ELSE "drop"]]

-----------------------------------------------------------------------------
(* Traces. *)

Failing(rows) == With(rows, "status", "error")
Slower(a, b) == a.duration_ms > b.duration_ms

\* Mutant of KeptSpans: the slowest of the failing spans only.
KeptIfFailing(spans, slowestK) ==
  LET kept == Upto(Sorted(Failing(spans), Slower), slowestK)
  IN {kept[i].span_id : i \in DOMAIN kept}

RootSpan(spans) ==
  LET roots == With(spans, "parent", None) IN IF roots = <<>> THEN spans[1] ELSE roots[1]

\* The identifiers of the root, the failing and the slowest spans.
KeptSpans(spans, slowestK) ==
  LET kept == <<RootSpan(spans)>> \o Failing(spans) \o Upto(Sorted(spans, Slower), slowestK)
  IN {kept[i].span_id : i \in DOMAIN kept}

BuildTraceSkeleton(trace, slowestK) ==
  LET keep == KeptSpans(trace.spans, slowestK)
      head == [trace_id |-> trace.trace_id, duration_ms |-> trace.duration_ms,
               status |-> trace.status]
  IN [head |-> head,
      error_count |-> Len(Failing(trace.spans)), total_spans |-> Len(trace.spans),
      spans |-> IF trace.spans = <<>> THEN <<>>
                ELSE ItemsAt(trace.spans,
                       {i \in DOMAIN trace.spans : trace.spans[i].span_id \in keep})]

SummarizeTraces(traces, topK, slowestK) ==
  LET top == Upto(Sorted(traces, Slower), topK)
  IN [total_traces |-> Len(traces), error_traces |-> Len(Failing(traces)),
      skeletons |-> [i \in DOMAIN top |-> BuildTraceSkeleton(top[i], slowestK)]]

\* Mutant of CallsOf: the child is taken for the caller.
CallsUpward(trace) ==
  LET spans == Elements(trace.spans)
      made == {pair \in spans \X spans : /\ pair[1].span_id = Get(pair[2], "parent", None)
                                        /\ pair[1].service # pair[2].service}
  IN {<<pair[2].service, pair[1].service>> : pair \in made}

\* The calls of one trace: the parent's service, looked up in this trace's
\* spans only, and the child's.
CallsOf(trace) ==
  LET spans == Elements(trace.spans)
      made == {pair \in spans \X spans : /\ pair[1].span_id = Get(pair[2], "parent", None)
                                        /\ pair[1].service # pair[2].service}
  IN {<<pair[1].service, pair[2].service>> : pair \in made}

BuildDependencyGraph(traces) ==
  LET calls == UNION {CallsOf(traces[i]) : i \in DOMAIN traces}
  IN [s \in {c[1] : c \in calls} |-> {c[2] : c \in {d \in calls : d[1] = s}}]
=============================================================================
