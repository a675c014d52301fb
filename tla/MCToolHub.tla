------------------------------ MODULE MCToolHub -----------------------------
(* An instance of ToolHub for TLC: a direct call of a tool that is sometimes *)
(* missing, a ReAct agent that pins one tool, twice, and asks for fewer than *)
(* there are, and one that pins more than it asks for.                       *)
EXTENDS ToolHub

CONSTANTS logs, errors, metrics, rogue, caller, react1, react2

ThreeTasks == {caller, react1, react2}
FourNames == {logs, errors, metrics, rogue}
PinnedNames == {logs, errors, metrics}
\* Complete, deployed with a tool missing and another twice, with one too many,
\* and empty.
FourCatalogs == {<<metrics, logs, errors>>, <<logs, metrics, logs>>,
                 <<errors, logs, metrics, rogue>>, << >>}
Jobs == [t \in ThreeTasks |->
  IF t = caller THEN [op |-> "call", name |-> errors]
  ELSE IF t = react1 THEN [op |-> "topk", k |-> 2, alwaysOn |-> <<errors, rogue, errors>>]
  ELSE [op |-> "topk", k |-> 1, alwaysOn |-> <<errors, logs>>]]
=============================================================================
