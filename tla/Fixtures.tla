------------------------------ MODULE Fixtures ------------------------------
(***************************************************************************)
(* scripts/generate_mock_data.py: the fixtures the mock backend serves.    *)
(* The five scenarios of the script are straight-line programs over its    *)
(* helpers; here any order of calls is one, within a scenario's            *)
(* vocabulary and room.  Fields no reader looks at are left out.           *)
(***************************************************************************)
EXTENDS Correlation

CONSTANT Scenarios  \* vocabularies, and room: how many calls of each helper

Helpers == {"reserve", "spans", "traces", "logs", "errors", "metrics"}

\* The helpers are called with numbers for times, durations and values, and
\* with a name for every service, message and metric.
ASSUME ScenarioAssumption == \A s \in Scenarios :
  /\ s.room \in [Helpers -> Nat]
  /\ s.times \subseteq Int /\ s.durations \subseteq Int /\ s.values \subseteq Nat
  /\ None \notin s.services /\ None \notin s.messages /\ None \notin s.metrics

VARIABLES
  scenario,   \* the scenario that runs
  room,       \* the calls it may still make
  counters,   \* _id_counters
  spans,      \* the spans made for the next trace
  tid,        \* the trace_id it tells its logs and errors
  data,       \* all_logs, all_traces, all_metrics, all_errors
  files       \* what is on disk

fixtureVars == <<scenario, room, counters, spans, tid, data, files>>

FixturesInit ==
  /\ scenario \in Scenarios
  /\ room = scenario.room
  /\ counters = [prefix \in {"log", "t", "err", "s"} |-> 0]
  /\ spans = << >>
  /\ tid = None
  /\ data = NoFiles
  /\ files = NoFiles

\* _next_id.
NextId(prefix) == <<prefix, counters[prefix] + 1>>
Count(prefix) == counters' = [counters EXCEPT ![prefix] = @ + 1]

Call(helper) ==
  /\ room[helper] > 0
  /\ room' = [room EXCEPT ![helper] = @ - 1]
  /\ UNCHANGED <<scenario, files>>

Emit(kind, row) == data' = [data EXCEPT ![kind] = Append(@, row)]

\* A scenario that takes an identifier for its trace before it makes it.
Reserve ==
  /\ Call("reserve")
  /\ tid' = NextId("t")
  /\ Count("t")
  /\ UNCHANGED <<spans, data>>

\* The first span of a trace is its root; a parent is a span made before.
Span ==
  /\ Call("spans")
  /\ \E s \in scenario.services, d \in scenario.durations, st \in scenario.statuses :
       IF spans = << >>
       THEN spans' = <<[span_id |-> NextId("s"), service |-> s, duration_ms |-> d, status |-> st]>>
       ELSE \E i \in DOMAIN spans :
              spans' = Append(spans, [span_id |-> NextId("s"), parent |-> spans[i].span_id,
                                      service |-> s, duration_ms |-> d, status |-> st])
  /\ Count("s")
  /\ UNCHANGED <<tid, data>>

\* A trace repeats its root's service, duration and status.  Its logs and errors
\* carry its identifier, unless the scenario has reserved one for them: then they
\* carry that, and the trace has the next.
Trace ==
  /\ spans # << >>
  /\ Call("traces")
  /\ \E t \in scenario.times, c \in scenario.correlations :
       Emit("traces", [trace_id |-> NextId("t"), correlation_id |-> c,
                       service |-> spans[1].service, duration_ms |-> spans[1].duration_ms,
                       status |-> spans[1].status, timestamp |-> t, spans |-> spans])
  /\ tid' = IF scenario.room["reserve"] > 0 THEN tid ELSE NextId("t")
  /\ Count("t")
  /\ spans' = << >>

Log ==
  /\ Call("logs")
  /\ \E t \in scenario.times, s \in scenario.services, l \in scenario.levels,
        m \in scenario.messages, id \in {None, tid}, c \in scenario.correlations :
       Emit("logs", [id |-> NextId("log"), timestamp |-> t, service |-> s, level |-> l,
                     message |-> m, trace_id |-> id, correlation_id |-> c])
  /\ Count("log")
  /\ UNCHANGED <<spans, tid>>

Error ==
  /\ Call("errors")
  /\ \E t \in scenario.times, s \in scenario.services, m \in scenario.messages,
        id \in {None, tid}, c \in scenario.correlations :
       Emit("errors", [error_id |-> NextId("err"), timestamp |-> t, service |-> s,
                       message |-> m, trace_id |-> id, correlation_id |-> c])
  /\ Count("err")
  /\ UNCHANGED <<spans, tid>>

Metric ==
  /\ Call("metrics")
  /\ \E t \in scenario.times, s \in scenario.services, n \in scenario.metrics,
        v \in scenario.values :
       Emit("metrics", [timestamp |-> t, service |-> s, metric |-> n, value |-> v])
  /\ UNCHANGED <<counters, spans, tid>>

\* main: everything is sorted and written, when the scenario has come to its end.
Write ==
  /\ files = NoFiles
  /\ data # NoFiles
  /\ spans = << >>
  /\ files' = [kind \in DOMAIN data |-> Sorted(data[kind], Earlier)]
  /\ room' = [helper \in DOMAIN room |-> 0]
  /\ UNCHANGED <<scenario, counters, spans, tid, data>>

FixturesNext ==
  Reserve \/ Span \/ Trace \/ Log \/ Error \/ Metric \/ Write
=============================================================================
