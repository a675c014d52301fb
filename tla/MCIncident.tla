----------------------------- MODULE MCIncident -----------------------------
(* Instances of IncidentGraph for TLC. *)
EXTENDS IncidentGraph

CONSTANTS t1, t2, s1, s2

TwoTraces == {t1, t2}
TwoServices == {s1, s2}
\* The smallest and the largest budgets of planner._INTENTS.
PlannerBudgets == {[logs |-> 20, traces |-> 2], [logs |-> 100, traces |-> 10]}
=============================================================================
