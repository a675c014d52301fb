---------------------------- MODULE MCRetrieval -----------------------------
(***************************************************************************)
(* Instances of Retrieval: one scenario for each part of what is retrieved *)
(* and two for the join.                                                   *)
(***************************************************************************)
EXTENDS Retrieval

Checkout == <<"service", 1>>
Payment == <<"service", 2>>
Incident == <<"inc", 1>>

NoRoom == [reserve |-> 0, spans |-> 0, traces |-> 0, logs |-> 0, errors |-> 0, metrics |-> 0]
Vocabulary ==
  [room |-> NoRoom, asked |-> FALSE, services |-> {Checkout}, durations |-> {5},
   statuses |-> {"ok"}, times |-> {0}, correlations |-> {None}, levels |-> {"ERROR"},
   messages |-> {<<"msg", 1>>}, metrics |-> {<<"metric", 1>>}, values |-> {1}]

Clustering == [Vocabulary EXCEPT !.room.logs = 4, !.levels = {"ERR", "FATAL"},
  !.messages = {<<"msg", 1>>, <<"msg", 2>>, <<"msg", 3>>}]
Measuring == [Vocabulary EXCEPT !.room.metrics = 3,
  !.times = {0, 1}, !.values = {0, 1, 3, 10, 1000}]
Tracing == [Vocabulary EXCEPT !.room.spans = 3, !.room.traces = 2,
  !.services = {Checkout, Payment}, !.durations = {5, 9}, !.statuses = {"ok", "error"}]
JoiningTraces == [Vocabulary EXCEPT !.room.spans = 3, !.room.traces = 2,
  !.services = {Checkout, Payment}, !.statuses = {"ok", "error"},
  !.correlations = {None, Incident}, !.times = {0, 1}]
JoiningRows == [Vocabulary EXCEPT !.room.reserve = 1, !.room.spans = 2, !.room.traces = 1,
  !.room.logs = 1, !.room.errors = 1, !.room.metrics = 1, !.services = {Checkout, Payment},
  !.statuses = {"error"}, !.correlations = {None, Incident}]
Asking == [Vocabulary EXCEPT !.asked = TRUE, !.room.logs = 2, !.room.errors = 1,
  !.services = {Checkout, Payment}, !.levels = {"INFO", "ERROR"},
  !.correlations = {None, Incident}]

ScenariosDef == {Clustering, Measuring, Tracing, JoiningTraces, JoiningRows, Asking}
AskingDef == {Asking}
ServiceListDef == <<Checkout, Payment>>
QueriesDef == {[keywords |-> {}, names |-> {}], [keywords |-> {1, 2}, names |-> {2}],
               [keywords |-> {4}, names |-> {1, 2}]}
RepliesDef == {NoReply, [intent |-> "error-focused", log_limit |-> 1],
               [intent |-> "latency-focused", log_limit |-> -1],
               [intent |-> "health-focused", error_limit |-> 201],
               [intent |-> "incident-investigation", log_limit |-> 0, error_limit |-> 200],
               [intent |-> "default"], [intent |-> "unheard of"]}
LimitsDef == {0, 1, 2}
=============================================================================
