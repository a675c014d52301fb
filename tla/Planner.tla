------------------------------ MODULE Planner -------------------------------
(***************************************************************************)
(* retrieval/planner.py: how much of each kind of data a query is worth.   *)
(* A query is what the planner sees in it: the intents with a keyword in   *)
(* it, and the configured services it names, as positions in the list.     *)
(***************************************************************************)
EXTENDS Rows

\* _INTENTS, in their order.
Intents == <<
  [intent |-> "error-focused",
   log_limit |-> 100, metric_limit |-> 30, trace_limit |-> 5, error_limit |-> 50],
  [intent |-> "latency-focused",
   log_limit |-> 30, metric_limit |-> 100, trace_limit |-> 10, error_limit |-> 10],
  [intent |-> "health-focused",
   log_limit |-> 20, metric_limit |-> 150, trace_limit |-> 2, error_limit |-> 10],
  [intent |-> "incident-investigation",
   log_limit |-> 100, metric_limit |-> 100, trace_limit |-> 10, error_limit |-> 50]>>

DefaultPlan ==
  [intent |-> "default",
   log_limit |-> 50, metric_limit |-> 50, trace_limit |-> 5, error_limit |-> 20]

Highest == [log_limit |-> 500, metric_limit |-> 500, trace_limit |-> 50, error_limit |-> 200]

\* Mutant of WithinSchema: ge=0 is dropped.
WithinHighest(plan) ==
  /\ \E i \in DOMAIN Intents : plan.intent \in {Intents[i].intent, "default"}
  /\ \A limit \in DOMAIN Highest : plan[limit] <= Highest[limit]

WithinSchema(plan) ==
  /\ \E i \in DOMAIN Intents : plan.intent \in {Intents[i].intent, "default"}
  /\ \A limit \in DOMAIN Highest : plan[limit] \in 0..Highest[limit]

\* The first rule with a keyword in the query wins.
PlanQuery(query) ==
  IF query.keywords = {} THEN DefaultPlan ELSE Intents[Least(query.keywords)]

\* A reply is the fields it sets; what it leaves out has its default, what it
\* adds is ignored.  One that is no JSON object, or no reply at all, is NoReply.
NoReply == [intent |-> "no reply"]
Filled(reply) == [field \in DOMAIN DefaultPlan |-> Get(reply, field, DefaultPlan[field])]

PlanQueryLLM(query, reply) ==
  IF WithinSchema(Filled(reply)) THEN Filled(reply) ELSE PlanQuery(query)

Plan(query, reply, byLLM) == IF byLLM THEN PlanQueryLLM(query, reply) ELSE PlanQuery(query)

\* The first of the services, in the order of the list, that the query names.
DetectService(query, services) ==
  IF query.names # {} THEN services[Least(query.names)]
  ELSE IF services = << >> THEN None ELSE services[1]
=============================================================================
