--------------------------- MODULE IncidentGraph ----------------------------
(***************************************************************************)
(* One investigation of agents/incident.py: the StateGraph of              *)
(* _build_graph, its conditional edges, the parallel Send branches, the    *)
(* refine loop and the critique loop.  A node and the conditional edge     *)
(* behind it are one task of one superstep, hence one action; the branches *)
(* of the fan-out are separate tasks that end in any order and are joined  *)
(* before synthesis.  Evidence is abstracted to what is decided from it:   *)
(* which traces failed, which services are related, whether there are      *)
(* logs.  The prompt's other parts, and the citations of an answer, are    *)
(* Retrieval's; here an answer is what it was told of the branches.        *)
(***************************************************************************)
EXTENDS Lists

CONSTANTS
  Traces,        \* trace ids that can come back with status "error"
  Services,      \* services other than the investigated one
  Budgets,       \* the (log_limit, trace_limit) pairs of planner._INTENTS
  FanOutCap,     \* error traces inspected at most, 5 in the code
  DrillCap,      \* findings a prompt shows at most, max_items of _truncate, 10
  MaxIterations, \* incident.max_iterations
  CritiqueOn,    \* settings.enable_self_critique
  MaxCritique,   \* incident.max_critique_passes
  Validating,    \* does this langgraph build validate the state it hands an edge
  RecursionLimit \* langgraph's bound on supersteps, 25 by default

LogLimit == 500  \* the upper bounds of Plan.log_limit and Plan.trace_limit
TraceLimit == 50

ASSUME BudgetAssumption ==
  Budgets \subseteq [logs : 0 .. 100, traces : 0 .. 10]
ASSUME BoundAssumption ==
  /\ MaxIterations \in Nat /\ MaxCritique \in Nat
  /\ FanOutCap \in Nat /\ DrillCap \in Nat /\ RecursionLimit \in Nat
ASSUME EvidenceAssumption ==
  IsFiniteSet(Traces) /\ IsFiniteSet(Services) /\ Traces \cap Services = {}
ASSUME SwitchAssumption == CritiqueOn \in BOOLEAN /\ Validating \in BOOLEAN
\* The loops' caps leave room under the bounds they rely on.
ASSUME RoomAssumption ==
  /\ 4 + 2 * MaxIterations + 2 * MaxCritique <= RecursionLimit
  /\ MaxIterations <= 8

VARIABLES
  at,         \* the node of the next superstep, or how the run ended
  steps,      \* supersteps done
  iteration,  \* iteration_count
  plan,       \* the budgets of plan
  context,    \* context, as gathered last
  branch,     \* the state of each Send branch
  drill,      \* drill_down: the targets its findings are of
  synthesis,  \* synthesis: its confidence, and the call that made it
  critiques,  \* critique_iteration
  output,     \* output, with the findings its synthesis was shown
  audited     \* history variable: has a critique returned a verdict

vars == <<at, steps, iteration, plan, context, branch, drill, synthesis,
          critiques, output, audited>>

Targets == Traces \union Services
Contexts == [kind : {"data"}, traces : SUBSET Traces, services : SUBSET Services,
             logs : BOOLEAN]
            \union
            [kind : {"none", "failed", "text"}, traces : {{}}, services : {{}},
             logs : {FALSE}]
NoContext == [kind |-> "none", traces |-> {}, services |-> {}, logs |-> FALSE]
Ended == {"end", "raised", "cancelled"}
Nodes == {"plan", "gather", "refine", "fanout", "synthesize", "critique"}

Init ==
  /\ at = "plan"
  /\ steps = 0
  /\ iteration = 0
  /\ plan \in Budgets
  /\ context = NoContext
  /\ branch = [b \in Targets |-> "unsent"]
  /\ drill = << >>
  /\ synthesis = [confidence |-> "none", call |-> 0]
  /\ critiques = 0
  /\ output = [kind |-> "none", drill |-> << >>, audited |-> FALSE]
  /\ audited = FALSE

\* One superstep, at node n.  GraphRecursionError has no action: that it is
\* never due is the property WithinRecursionLimit.
Superstep(n) ==
  /\ at = n
  /\ steps' = steps + 1

-----------------------------------------------------------------------------
(* Planning and gathering. *)

PlanNode ==
  /\ Superstep("plan")
  /\ at' = "gather"
  /\ UNCHANGED <<iteration, plan, context, branch, drill, synthesis, critiques,
                 output, audited>>

Fewer(m, n) == IF m < n THEN m ELSE n

\* The branches _route_after_gather sends: the first FanOutCap error traces
\* and every related service.
FanOut(c) ==
  \E chosen \in SUBSET c.traces :
    /\ Cardinality(chosen) = Fewer(Cardinality(c.traces), FanOutCap)
    /\ branch' = [b \in Targets |->
         IF b \in chosen \union c.services THEN "running" ELSE "unsent"]
    /\ at' = IF chosen \union c.services = {} THEN "synthesize" ELSE "fanout"

\* summarize_logs returns a dict of fields even for no logs, so for any
\* context that is a dict, {"error": ...} included, signals["logs"] is truthy.
LogSignal(c) == c.kind \in {"data", "failed"}

\* A row that the signals or the edge cannot read (t["trace_id"]) raises.
GatherContext ==
  /\ Superstep("gather")
  /\ \E c \in Contexts \ {NoContext} :
       /\ context' = c
       /\ \/ LogSignal(c) /\ FanOut(c)
          \/ c.kind = "data" /\ at' = "raised" /\ UNCHANGED branch
          \/ /\ ~LogSignal(c)
             /\ at' = IF ~Validating /\ iteration < MaxIterations
                      THEN "refine" ELSE "raised"
             /\ UNCHANGED branch
  /\ UNCHANGED <<iteration, plan, drill, synthesis, critiques, output, audited>>

\* Mutant of RefinePlan: the counter is not advanced.
RefineUncounted ==
  /\ Superstep("refine")
  /\ plan' = [logs |-> plan.logs + 20, traces |-> plan.traces + 5]
  /\ at' = "gather"
  /\ UNCHANGED <<iteration, context, branch, drill, synthesis, critiques,
                 output, audited>>

\* Mutant of RefinePlan: the budgets are doubled.
RefineDoubling ==
  /\ Superstep("refine")
  /\ plan' = [logs |-> plan.logs * 2, traces |-> plan.traces * 2]
  /\ iteration' = iteration + 1
  /\ at' = "gather"
  /\ UNCHANGED <<context, branch, drill, synthesis, critiques, output, audited>>

\* model_copy(update=...) does not validate the new budgets.
RefinePlan ==
  /\ Superstep("refine")
  /\ plan' = [logs |-> plan.logs + 20, traces |-> plan.traces + 5]
  /\ iteration' = iteration + 1
  /\ at' = "gather"
  /\ UNCHANGED <<context, branch, drill, synthesis, critiques, output, audited>>

-----------------------------------------------------------------------------
(* The fan-out. *)

\* Mutant of CallEnds: the get_trace call has no timeout and may hang.
CallMayHang(b) == b \in Services /\ at = "fanout" /\ branch[b] = "running"

\* _safe_call: a branch's tool call answers, fails or times out.
CallEnds(b) == at = "fanout" /\ branch[b] = "running"

\* The branch has found something in the answer; or it has nothing to report, as
\* when there is no answer.
BranchEnds(b) ==
  /\ CallEnds(b)
  /\ \E found \in BOOLEAN :
       branch' = [branch EXCEPT ![b] = IF found THEN "found" ELSE "nothing"]
  /\ UNCHANGED <<at, steps, iteration, plan, context, drill, synthesis,
                 critiques, output, audited>>

\* A branch reads fields of rows it did not check: a trace's spans and their
\* durations, a metric's timestamp and value.
BranchRaises(b) ==
  /\ CallEnds(b)
  /\ at' = "raised"
  /\ UNCHANGED <<steps, iteration, plan, context, branch, drill, synthesis,
                 critiques, output, audited>>

\* Mutant of Merged: the last branch's write replaces the others'.
Clobbered(found) == IF found = {} THEN {drill} ELSE {<<b>> : b \in found}

\* The `add` reducer of drill_down over the branches' partial writes, whatever
\* order langgraph applies them in.
Merged(found) ==
  {drill \o order : order \in {f \in [1..Cardinality(found) -> found] : IsSet(f)}}

Join ==
  /\ Superstep("fanout")
  /\ \A b \in Targets : branch[b] # "running"
  /\ drill' \in Merged({b \in Targets : branch[b] = "found"})
  /\ at' = "synthesize"
  /\ UNCHANGED <<iteration, plan, context, branch, synthesis, critiques, output,
                 audited>>

-----------------------------------------------------------------------------
(* Synthesis and critique. *)

\* Mutant of ShouldCritique: the cap is off by one.
ShouldCritiqueOnceMore(s) == CritiqueOn /\ critiques <= MaxCritique /\ s.confidence = "low"

ShouldCritique(s) == CritiqueOn /\ critiques < MaxCritique /\ s.confidence = "low"

AfterSynthesis(s) == at' = IF ShouldCritique(s) THEN "critique" ELSE "end"

\* What the synthesis prompt shows of drill_down: _truncate.
Shown(findings) == Upto(findings, DrillCap)

\* Mutant of SynthesizeReport: the first synthesis is kept.
SynthesizeReportOnce ==
  /\ Superstep("synthesize")
  /\ output' = [kind |-> "report", drill |-> Shown(drill), audited |-> FALSE]
  /\ \E confidence \in {"low", "high"} :
       synthesis' = IF synthesis.call > 0 THEN synthesis
                    ELSE [confidence |-> confidence, call |-> critiques + 1]
  /\ AfterSynthesis(synthesis')
  /\ UNCHANGED <<iteration, plan, context, branch, drill, critiques, audited>>

\* A reply that parses: its citations checked, and kept for the critique.
SynthesizeReport ==
  /\ Superstep("synthesize")
  /\ output' = [kind |-> "report", drill |-> Shown(drill), audited |-> FALSE]
  /\ \E confidence \in {"low", "high"} :
       synthesis' = [confidence |-> confidence, call |-> critiques + 1]
  /\ AfterSynthesis(synthesis')
  /\ UNCHANGED <<iteration, plan, context, branch, drill, critiques, audited>>

\* One that does not becomes the output as it is, its citations unchecked;
\* synthesis is left alone, and it is the old one the edge looks at.
SynthesizeRaw ==
  /\ Superstep("synthesize")
  /\ output' = [kind |-> "raw", drill |-> Shown(drill), audited |-> FALSE]
  /\ AfterSynthesis(synthesis)
  /\ UNCHANGED <<iteration, plan, context, branch, drill, synthesis, critiques,
                 audited>>

\* BudgetExceeded, or the provider's error.
SynthesizeRaises ==
  /\ Superstep("synthesize")
  /\ at' = "raised"
  /\ UNCHANGED <<iteration, plan, context, branch, drill, synthesis, critiques,
                 output, audited>>

\* Mutant of SelfCritique: the edge behind it goes to END.
SelfCritiqueEnds ==
  /\ Superstep("critique")
  /\ \/ output' = [output EXCEPT !.audited = TRUE] /\ audited' = TRUE
     \/ UNCHANGED <<output, audited>>
  /\ critiques' = critiques + 1
  /\ at' = "end"
  /\ UNCHANGED <<iteration, plan, context, branch, drill, synthesis>>

\* A verdict is appended to the output; any failure only counts the pass; the
\* edge back to synthesize is unconditional.
SelfCritique ==
  /\ Superstep("critique")
  /\ \/ output' = [output EXCEPT !.audited = TRUE] /\ audited' = TRUE
     \/ UNCHANGED <<output, audited>>
  /\ critiques' = critiques + 1
  /\ at' = "synthesize"
  /\ UNCHANGED <<iteration, plan, context, branch, drill, synthesis>>

-----------------------------------------------------------------------------
(* The end imposed from outside. *)

\* The node budget of graph/builder.py, or the client's disconnection.
Cancel ==
  /\ at \in Nodes
  /\ at' = "cancelled"
  /\ UNCHANGED <<steps, iteration, plan, context, branch, drill, synthesis,
                 critiques, output, audited>>

Progress ==
  \/ PlanNode \/ GatherContext \/ RefinePlan
  \/ \E b \in Targets : BranchEnds(b) \/ BranchRaises(b)
  \/ Join
  \/ SynthesizeReport \/ SynthesizeRaw \/ SynthesizeRaises \/ SelfCritique

Next == Progress \/ Cancel

Spec == Init /\ [][Next]_vars

\* Tool calls end within tool_timeout and LLM calls end, so the graph goes on.
FairSpec == Spec /\ WF_vars(Progress)

-----------------------------------------------------------------------------
(* Properties. *)

TypeOK ==
  /\ at \in Nodes \union Ended
  /\ steps \in Nat
  /\ iteration \in 0 .. MaxIterations
  /\ plan \in [logs : Nat, traces : Nat]
  /\ context \in Contexts
  /\ branch \in [Targets -> {"unsent", "running", "found", "nothing"}]
  /\ drill \in Seq(Targets)
  /\ synthesis \in [confidence : {"none", "low", "high"}, call : 0 .. MaxCritique + 1]
  /\ critiques \in 0 .. MaxCritique
  /\ output \in [kind : {"none", "report", "raw"}, drill : Seq(Targets),
                 audited : BOOLEAN]
  /\ audited \in BOOLEAN

\* The refine loop and the critique loop together never meet langgraph's
\* recursion limit, which would turn a finished analysis into an error frame.
WithinRecursionLimit == at \in Nodes => steps < RecursionLimit

\* Refined budgets stay within the bounds the Plan schema declares, although
\* nothing validates them (incident.py:293-296, planner.py:44-48).
BudgetsWithinSchema == plan.logs <= LogLimit /\ plan.traces <= TraceLimit

\* The branches sent are those the gathered context calls for: all services and
\* as many traces as the cap allows.
Sent ==
  /\ \A b \in context.services : branch[b] # "unsent"
  /\ \A b \in Targets \ (context.traces \union context.services) :
       branch[b] = "unsent"
  /\ Cardinality({b \in context.traces : branch[b] # "unsent"})
       = Fewer(Cardinality(context.traces), FanOutCap)

\* Parallel branches do not clobber each other (incident.py:85-87): every answer,
\* a revision after a critique too, was written with the findings of the branches
\* that found something, none twice, all of them or as many as the prompt shows
\* (incident.py:376); and no branch was still running or had not been sent.
DrillDownComplete ==
  LET found == {b \in Targets : branch[b] = "found"}
      shown == output.drill
  IN output.kind # "none" =>
       /\ Sent
       /\ \A b \in Targets : branch[b] # "running"
       /\ IsSet(shown) /\ Elements(shown) \subseteq found
       /\ Len(shown) = Fewer(Cardinality(found), DrillCap)

\* A critique audits the report the user would be given.  After a reply that did
\* not parse it audits an earlier one, which takes two passes (incident.py:401).
CritiqueAuditsLatest ==
  at = "critique" =>
    \/ output.kind = "report" /\ synthesis.call = critiques + 1
    \/ output.kind = "raw" /\ synthesis.call \in 1..critiques

\* The investigation is the agent that Ask assumes.
Phase == CASE at = "plan" -> "plan"
           [] at \in {"gather", "refine", "fanout", "synthesize"} -> "gather"
           [] at = "critique" -> "synthesised"
           [] at = "end" -> "answered"
           [] OTHER -> "stopped"
Contract == INSTANCE AgentPhases WITH
  phase <- Phase, passes <- critiques, MayReact <- FALSE
KeepsContract == Contract!Spec

\* Every investigation comes to an end.
InvestigationEnds == <>(at \in Ended)

-----------------------------------------------------------------------------
(* What the repository's own words say of the code. *)

\* "run a second LLM call to audit the analysis and append findings"
\* (settings.py:59-60): an answer that was audited shows the verdict.
VerdictReachesAnswer == at = "end" /\ audited => output.audited

\* "No logs + retries left -> refine_plan" (incident.py:200).
NoLogsRefines ==
  context.kind # "none" /\ ~context.logs /\ iteration < MaxIterations
    => at \notin {"fanout", "synthesize"}
=============================================================================
