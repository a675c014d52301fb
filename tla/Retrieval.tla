----------------------------- MODULE Retrieval ------------------------------
(***************************************************************************)
(* What the LLM is shown of the fixtures: the script writes them, the      *)
(* tools and the join read them, the signals compress them, and an agent's *)
(* prompt is made of that.  The properties speak of every request that     *)
(* could be made of the files on disk; the logs agent makes one of them.   *)
(***************************************************************************)
EXTENDS Fixtures, Signals, Planner

CONSTANTS
  ServiceList,  \* incident.services
  Queries,      \* what the planner sees in a query
  Replies,      \* what its LLM may answer
  Limits        \* limits a caller may ask for

ASSUME QueryAssumption == \A query \in Queries :
  query.keywords \subseteq DOMAIN Intents
ASSUME LimitAssumption == Limits \subseteq Nat

VARIABLES plan, prompt
vars == <<fixtureVars, plan, prompt>>

NoPrompt == [kind |-> "none"]

Init == FixturesInit /\ plan = DefaultPlan /\ prompt = NoPrompt

\* templates/logs_synthesis.j2 on a summary: what an undefined field prints is
\* the empty string.
Shown(summary) ==
  LET top == Upto(summary.top_clusters, 5)
  IN [total |-> summary.total_logs,
      clusters |-> [i \in DOMAIN top |->
        [level |-> top[i].level, count |-> top[i].count, message |-> top[i].message,
         example_log_id |-> Get(top[i], "example_id", None)]]]

\* LogsAgent.handle: a plan, the ReAct escape or the two fetches and the prompt.
\* Its awaits are AgentsOnHub's; a query is asked once, with the planner that is set.
Handle ==
  /\ scenario.asked
  /\ files # NoFiles
  /\ prompt = NoPrompt
  /\ \E query \in Queries, reply \in Replies, llm_planner_enabled \in BOOLEAN :
       LET chosen == Plan(query, reply, llm_planner_enabled)
           service == DetectService(query, ServiceList)
       IN /\ plan' = chosen
          /\ prompt' =
               IF chosen.intent = "default" THEN [kind |-> "react"]
               ELSE [kind |-> "synthesis",
                     logs |-> Shown(SummarizeLogs(
                       SearchLogs(files, service, "", chosen.log_limit), 5)),
                     errors |-> Shown(SummarizeLogs(
                       GetErrors(files, service, chosen.error_limit), 5))]
  /\ UNCHANGED fixtureVars

Next == (FixturesNext /\ UNCHANGED <<plan, prompt>>) \/ Handle

Spec == Init /\ [][Next]_vars

-----------------------------------------------------------------------------
(* Properties. *)

Names == {ServiceList[i] : i \in DOMAIN ServiceList}
Fewer(m, n) == IF m < n THEN m ELSE n

\* The clusters shown split the rows of their messages and nothing else, their
\* sample is one of them, and no message is left out for one that is less severe,
\* or as severe and rarer, at any cut-off.  How severe a message is says its first
\* row: a later row of a worse level does not count (signals.py:52-63).
ClustersRank == \A service \in Names, k \in Limits :
  LET rows == SearchLogs(files, service, "", 100)
      summary == SummarizeLogs(rows, k)
      Told(m) == {i \in DOMAIN rows : rows[i].message = m}
      Weight(m) == 100 * Get(Severity, Normalize(rows[Least(Told(m))].level), 0)
                     + Cardinality(Told(m))
      top == summary.top_clusters
  IN /\ Len(top) = Fewer(k, Cardinality(FieldOf(rows, "message")))
     /\ \A i \in DOMAIN top :
          /\ top[i].count = Cardinality(Told(top[i].message))
          /\ \E j \in Told(top[i].message) : rows[j].id = top[i].sample_id
          /\ \A j \in Told(top[i].message) :
               rows[j].timestamp \in top[i].first_seen..top[i].last_seen
          /\ \A m \in FieldOf(rows, "message") \ {top[j].message : j \in 1..i} :
               Weight(m) <= Weight(top[i].message)
     /\ \A l \in DOMAIN summary.level_distribution : \E i \in DOMAIN rows :
          /\ Normalize(rows[i].level) = l
          /\ summary.level_distribution[l] = Cardinality({j \in DOMAIN rows :
               Normalize(rows[j].level) = Normalize(rows[i].level)})

\* A percentile never overstates: fewer than p of a hundred points lie below it;
\* nor does it fall more than a rank short (signals.py:77).  A metric is flagged, and
\* with the way it went, if its latest point is over the threshold times its
\* earliest or under the inverse, but for three changes: a rise from zero, which has
\* no ratio, a fall to zero, and a fall of more than two hundred times, whose ratio
\* rounds to zero.  Those three are never flagged, although signals.py:83 promises
\* either direction.  Where the rounded ratio is at the threshold, both may happen
\* (signals.py:95-118).
MetricsTold == \A service \in Names :
  LET rows == GetMetrics(files, service, 100)
      told == SummarizeMetrics(rows, 3)
      Of(n) == {i \in DOMAIN rows : rows[i].metric = n}
      Below(n, v) == Cardinality({i \in Of(n) : rows[i].value < v})
      UpTo(n, v) == Cardinality({i \in Of(n) : rows[i].value <= v})
      Told(n, p, v) == /\ 100 * Below(n, v) < p * Cardinality(Of(n))
                       /\ p * Cardinality(Of(n)) < 100 * (UpTo(n, v) + 1)
      First(n) == rows[Least({i \in Of(n) : \A j \in Of(n) :
                               rows[i].timestamp <= rows[j].timestamp})].value
      Last(n) == rows[Most({i \in Of(n) : \A j \in Of(n) :
                              rows[i].timestamp >= rows[j].timestamp})].value
      Flagged(n, way) == n \in DOMAIN told.anomalies /\ told.anomalies[n] = way
  IN /\ DOMAIN told.summary = FieldOf(rows, "metric")
     /\ DOMAIN told.anomalies \subseteq DOMAIN told.summary
     /\ \A n \in DOMAIN told.summary :
          /\ Told(n, 50, told.summary[n].p50)
          /\ Told(n, 95, told.summary[n].p95)
          /\ Told(n, 99, told.summary[n].p99)
          /\ Flagged(n, "spike") => First(n) > 0 /\ Last(n) > 3 * First(n)
          /\ First(n) > 0 /\ 100 * Last(n) >= 301 * First(n) => Flagged(n, "spike")
          /\ Flagged(n, "drop") => 200 * Last(n) <= 67 * First(n)
          /\ First(n) < 200 * Last(n) /\ 3 * Last(n) <= First(n) => Flagged(n, "drop")
          /\ First(n) = 0 \/ 200 * Last(n) < First(n) => n \notin DOMAIN told.anomalies

\* Of the slowest traces, a skeleton keeps every failing span and the root, and of
\* the others exactly those that fewer than slowest_k outrun, in the trace's order;
\* a span it leaves out is outrun by slowest_k (signals.py:139-151, 159-164).
TracesKeepSignal == \A k \in Limits, slowest \in Limits :
  LET told == SummarizeTraces(files.traces, k, slowest).skeletons
      Whole(i) == GetTrace(files, told[i].head.trace_id)
      Faster(i, s) == {r \in Elements(Whole(i).spans) : r.duration_ms > s.duration_ms}
      NoSlower(i, s) == {r \in Elements(Whole(i).spans) : r.duration_ms >= s.duration_ms}
  IN /\ Len(told) = Fewer(k, Len(files.traces))
     /\ \A i \in DOMAIN told :
          /\ \A t \in Elements(files.traces) : t.trace_id \in
                 {told[j].head.trace_id : j \in 1..(i - 1)}
               \/ t.duration_ms <= told[i].head.duration_ms
          /\ Elements(told[i].spans) \subseteq Elements(Whole(i).spans)
          /\ \A j \in DOMAIN told[i].spans : \A l \in 1..(j - 1) :
               told[i].spans[l].span_id[2] < told[i].spans[j].span_id[2]
          /\ told[i].error_count =
               Cardinality({s \in Elements(told[i].spans) : s.status = "error"})
          /\ \A s \in Elements(Whole(i).spans) :
               IF s \in Elements(told[i].spans)
               THEN \/ s.status = "error" \/ "parent" \notin DOMAIN s
                    \/ Cardinality(Faster(i, s)) < slowest
               ELSE /\ s.status # "error" /\ "parent" \in DOMAIN s
                    /\ Cardinality(NoSlower(i, s)) > slowest

\* The call graph leads from the root services to every service of the traces it
\* was built from, only along calls made, and no service calls itself
\* (signals.py:182-195, mock.py:140).
CallsReachAll ==
  LET graph == BuildDependencyGraph(files.traces)
      roots == {FindRootService(<<t>>) : t \in Elements(files.traces)}
      services == ExtractServices(files.traces)
      Closed(S) == roots \subseteq S /\ \A s \in S \cap DOMAIN graph : graph[s] \subseteq S
  IN /\ Closed(services)
     /\ \A S \in SUBSET services : Closed(S) => S = services
     /\ \A s \in DOMAIN graph : \A t \in graph[s] :
          /\ s # t
          /\ \E trace \in Elements(files.traces) : \E c \in Elements(trace.spans) :
               /\ c.service = t
               /\ \E p \in Elements(trace.spans) :
                    p.service = s /\ Get(c, "parent", None) = p.span_id

Request(service, trace, correlation, k) ==
  [service |-> service, trace_id |-> trace, correlation_id |-> correlation,
   log_limit |-> k, trace_limit |-> k, error_limit |-> k, metric_limit |-> k]
Requests == {Request(s, t, c, k) :
  s \in Names,
  t \in {None} \union FieldOf(files.traces, "trace_id") \union FieldOf(files.logs, "trace_id"),
  c \in {None} \union scenario.correlations, k \in Limits}

\* What a context takes its rows from: the correlation it has, or else the service.
Belongs(kind, row, ctx, req) ==
  IF ctx.correlation_id # None THEN row.correlation_id = ctx.correlation_id
  ELSE IF kind = "traces" THEN \E s \in Elements(row.spans) : s.service = req.service
  ELSE row.service = req.service

\* With a correlation, a context holds the rows of that correlation and no other;
\* without one, the rows of the service, of whatever incidents they are.  It holds
\* all of them or the oldest that the limit takes.  The trace and the correlation it
\* is named after are those asked for, or else a failing trace of the service, when
\* there is one, and that trace's own correlation: so an unrelated correlation that
\* is asked for leaves the trace that is asked for out, although correlation.py:26
\* calls the trace the primary key, and otherwise the trace is in its context unless
\* cut, or it has no correlation and does not touch the service.  Each service the
\* traces touch is measured, no other is (mock.py:177-206).
JoinExact == \A req \in Requests :
  LET ctx == GetIncidentContext(files, req)
      Kept(kind) == Elements(ctx[kind])
      All(kind) == {r \in Elements(files[kind]) : Belongs(kind, r, ctx, req)}
      Touches(t) == \E s \in Elements(t.spans) : s.service = req.service
      Named(t) == t.trace_id = ctx.trace_id
  IN /\ \A kind \in {"logs", "traces", "errors"} :
          /\ Kept(kind) \subseteq All(kind)
          /\ Len(ctx[kind]) = Fewer(req.log_limit, Cardinality(All(kind)))
          /\ \A r \in Kept(kind), q \in All(kind) \ Kept(kind) :
               r.timestamp <= q.timestamp
     /\ req.trace_id # None => ctx.trace_id = req.trace_id
     /\ req.trace_id = None => \A t \in Elements(files.traces) :
          /\ t.status = "error" /\ Touches(t) => ctx.trace_id # None
          /\ Named(t) => t.status = "error" /\ Touches(t)
     /\ req.correlation_id # None => ctx.correlation_id = req.correlation_id
     /\ req.correlation_id = None =>
          /\ ctx.correlation_id # None => \E t \in Elements(files.traces) : Named(t)
          /\ \A t \in Elements(files.traces) : Named(t) =>
               /\ ctx.correlation_id = t.correlation_id
               /\ \/ t \in Kept("traces") \/ Len(ctx.traces) = req.trace_limit
                  \/ t.correlation_id = None /\ ~Touches(t)
     /\ ctx.traces # << >> => ctx.root_service \in ctx.services
     /\ \A m \in Elements(files.metrics) :
          m.service \in ctx.services /\ req.metric_limit > 0 =>
            /\ m.service \in DOMAIN ctx.metrics
            /\ m \in Elements(ctx.metrics[m.service])
                 \/ Len(ctx.metrics[m.service]) = req.metric_limit
     /\ \A s \in DOMAIN ctx.metrics : \A m \in Elements(ctx.metrics[s]) :
          m.service = s /\ s \in ctx.services

\* Of a citation of any of the five types that can be checked, what is left names
\* something of the context, and whatever the context names by such a type may be
\* cited; a log or a trace of the context is what the drill-down tools find under
\* that identifier.  A trace may also be one that a log or an error of the context
\* belongs to, in the context or not (validation.py:76-108).
CitationsGrounded == \A req \in Requests :
  LET ctx == GetIncidentContext(files, req)
      ids == UNION {FieldOf(files.logs, "id"), FieldOf(files.errors, "error_id"),
                    FieldOf(files.traces, "trace_id"), FieldOf(files.logs, "trace_id"),
                    FieldOf(files.errors, "trace_id"), Names, scenario.services,
                    FieldOf(files.metrics, "metric")}
      Left(type) == {id \in ids :
        StripHallucinations(<<[type |-> type, ref |-> id]>>, ctx) # << >>}
  IN /\ Left("log_id") = {l.id : l \in Elements(ctx.logs)}
     /\ Left("error_id") = {e.error_id : e \in Elements(ctx.errors)}
     /\ Left("trace_id") = UNION {{t.trace_id : t \in Elements(ctx.traces)},
          FieldOf(ctx.logs, "trace_id"), FieldOf(ctx.errors, "trace_id")}
     /\ Left("service") = UNION {ctx.services, {l.service : l \in Elements(ctx.logs)},
                                 {e.service : e \in Elements(ctx.errors)}}
     /\ Left("metric") = UNION {{m.metric : m \in Elements(ctx.metrics[s])} :
                                s \in DOMAIN ctx.metrics}
     /\ \A l \in Elements(ctx.logs) : GetLogContext(files, l.id, 0) = <<l>>
     /\ \A t \in Elements(ctx.traces) : GetTrace(files, t.trace_id) = t

\* Whatever the planner's LLM replies, the prompt is written from no more rows than
\* the plan allows, the plan allows no more than the schema, and a query is left to
\* ReAct exactly when its plan is of the default intent, which a query without known
\* words gives and the LLM may (planner.py:37-48, logs.py:43-63).
BudgetsHonoured ==
  /\ plan.log_limit <= 500 /\ plan.error_limit <= 200
  /\ prompt.kind = "react" <=> prompt # NoPrompt /\ plan.intent = "default"
  /\ prompt.kind = "synthesis" =>
       /\ prompt.logs.total <= plan.log_limit
       /\ prompt.errors.total <= plan.error_limit

\* "clusters + level histogram + example IDs the LLM can cite" (logs.py:65-66): the
\* example the prompt gives for a cluster of logs is the identifier of a log.
ExamplesCitable == prompt.kind = "synthesis" =>
  \A i \in DOMAIN prompt.logs.clusters :
    prompt.logs.clusters[i].example_log_id \in FieldOf(files.logs, "id")
=============================================================================
