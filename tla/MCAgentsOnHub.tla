--------------------------- MODULE MCAgentsOnHub ----------------------------
(* An instance of AgentsOnHub for TLC: a LogsAgent with a budget and a ReAct *)
(* agent without one, on one hub.                                            *)
EXTENDS AgentsOnHub

CONSTANTS logs, errors, rogue, fetch1, fetch2, escape, select, logsAgent, traceAgent

FourTasks == {fetch1, fetch2, escape, select}
TwoAgents == {logsAgent, traceAgent}
Owners == [t \in FourTasks |-> IF t = select THEN traceAgent ELSE logsAgent]
OneLogsAgent == {logsAgent}
ThreeNames == {logs, errors, rogue}
PinnedNames == {logs, errors}
\* Complete, and deployed with a tool too many.
TwoCatalogs == {<<errors, logs>>, <<errors, logs, rogue>>}
Jobs == [t \in FourTasks |->
  IF t = fetch1 THEN [op |-> "call", name |-> logs]
  ELSE IF t = fetch2 THEN [op |-> "call", name |-> errors]
  ELSE [op |-> "topk", k |-> 1, alwaysOn |-> <<errors>>]]
=============================================================================
