---------------------------- MODULE Correlation -----------------------------
(***************************************************************************)
(* The tools of the mock backend over its fixtures, the join they are      *)
(* pre-correlated by, and the check of an answer's citations against it    *)
(* (mcp/tools/_backends/mock.py, llm/validation.py).  files is a record of *)
(* the four fixtures.  time_range, which the backend ignores, is left out. *)
(***************************************************************************)
EXTENDS Rows

NoFiles == [logs |-> << >>, traces |-> << >>, metrics |-> << >>, errors |-> << >>]

\* What a tool answers for an identifier it does not find.
NotFound == [error |-> "not found"]

-----------------------------------------------------------------------------
(* The tools. *)

SearchLogs(files, service, level, limit) ==
  LET logs == With(files.logs, "service", service)
  IN Upto(IF level = "" THEN logs ELSE With(logs, "level", level), limit)

GetLogContext(files, id, window) ==
  LET found == {i \in DOMAIN files.logs : files.logs[i].id = id}
      i == Least(found)
      from == IF i - window < 1 THEN 1 ELSE i - window
  IN IF found = {} THEN <<NotFound>>
     ELSE SubSeq(Upto(files.logs, i + window), from, Len(Upto(files.logs, i + window)))

GetMetrics(files, service, limit) == Upto(With(files.metrics, "service", service), limit)

GetTrace(files, id) ==
  LET found == With(files.traces, "trace_id", id)
  IN IF found = << >> THEN NotFound ELSE found[1]

GetErrors(files, service, limit) == Upto(With(files.errors, "service", service), limit)

\* get_logs_by_correlation, get_traces_by_correlation, get_error_by_correlation.
ByCorrelation(rows, correlation, limit) == Upto(With(rows, "correlation_id", correlation), limit)

-----------------------------------------------------------------------------
(* The join. *)

Services(trace) == {trace.spans[i].service : i \in DOMAIN trace.spans} \ {None}
ExtractServices(traces) == UNION {Services(traces[i]) : i \in DOMAIN traces}

\* The first span without a parent, of the first trace that has one.
FindRootService(traces) ==
  LET rooted == ItemsAt(traces,
        {i \in DOMAIN traces : With(traces[i].spans, "parent", None) # << >>})
  IN IF rooted = << >> THEN None ELSE With(rooted[1].spans, "parent", None)[1].service

Touching(traces, service) ==
  ItemsAt(traces, {i \in DOMAIN traces : service \in Services(traces[i])})

FindErrorTraces(traces, service) == With(Touching(traces, service), "status", "error")

\* The trace the join starts from, and the correlation it joins by: both given,
\* or the first failing trace of the service and its correlation, or the given
\* trace's.
AnchorTrace(files, req) ==
  LET failing == FindErrorTraces(files.traces, req.service)
  IN IF req.trace_id # None THEN req.trace_id
     ELSE IF failing # << >> THEN failing[1].trace_id ELSE None

AnchorCorrelation(files, req) ==
  LET anchor == AnchorTrace(files, req)
  IN IF req.correlation_id # None THEN req.correlation_id
     ELSE IF anchor = None THEN None
     ELSE Get(GetTrace(files, anchor), "correlation_id", None)

\* Mutant of Related: the limit is taken of the fixture, then the filter.
RelatedOfFirst(rows, ofService, correlation, limit) ==
  IF correlation # None THEN With(Upto(rows, limit), "correlation_id", correlation)
  ELSE Upto(ofService, limit)

\* One kind of rows of the context: those of the correlation, or, without one,
\* those of the service.
Related(rows, ofService, correlation, limit) ==
  IF correlation # None THEN ByCorrelation(rows, correlation, limit)
  ELSE Upto(ofService, limit)

GetIncidentContext(files, req) ==
  LET corr == AnchorCorrelation(files, req)
      traces == Related(files.traces, Touching(files.traces, req.service), corr,
                        req.trace_limit)
      involved == ExtractServices(traces)
      measured == {s \in involved : GetMetrics(files, s, req.metric_limit) # << >>}
  IN [trace_id |-> AnchorTrace(files, req), correlation_id |-> corr,
      services |-> involved, root_service |-> FindRootService(traces), traces |-> traces,
      logs |-> Related(files.logs, With(files.logs, "service", req.service), corr,
                       req.log_limit),
      errors |-> Related(files.errors, With(files.errors, "service", req.service), corr,
                         req.error_limit),
      metrics |-> [s \in measured |-> GetMetrics(files, s, req.metric_limit)]]

-----------------------------------------------------------------------------
(* Citations.  An item of evidence is a type and a reference. *)

FieldOf(rows, field) == {rows[i][field] : i \in DOMAIN rows} \ {None}

ExtractRefs(ctx) ==
  [trace_id |-> UNION {FieldOf(rows, "trace_id") : rows \in {ctx.traces, ctx.logs, ctx.errors}},
   log_id |-> FieldOf(ctx.logs, "id"),
   error_id |-> FieldOf(ctx.errors, "error_id"),
   service |-> UNION {ctx.services, ExtractServices(ctx.traces), FieldOf(ctx.logs, "service"),
                      FieldOf(ctx.errors, "service"), DOMAIN ctx.metrics},
   metric |-> UNION {FieldOf(ctx.metrics[s], "metric") : s \in DOMAIN ctx.metrics}]

\* Mutant of Cited: the type of the reference is not looked at.
CitedAsAnyType(item, refs) == \E type \in DOMAIN refs : item.ref \in refs[type]

Cited(item, refs) == item.type \in DOMAIN refs /\ item.ref \in refs[item.type]

\* validate_citations and strip_hallucinations: the evidence that is left.
StripHallucinations(evidence, ctx) ==
  ItemsAt(evidence, {i \in DOMAIN evidence : Cited(evidence[i], ExtractRefs(ctx))})
=============================================================================
