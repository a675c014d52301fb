---------------------------- MODULE AgentsOnHub -----------------------------
(***************************************************************************)
(* The agents that use the hub, on the hub: agents/logs.py with its        *)
(* parallel fetch, agents/base.py with its tool selection, each under the  *)
(* latency budget of graph/builder.py and the client's cancellation.       *)
(* One task of ToolHub is one use of the hub by one agent: the two calls   *)
(* of _gather_resilient run side by side as tasks of their own, and topk   *)
(* runs in the agent's.  An agent that is stopped has its tasks cancelled  *)
(* and returns only when the last of them is over.                         *)
(***************************************************************************)
EXTENDS ToolHub

CONSTANTS
  Agents,     \* the agents at work, one for each request
  Owner,      \* the agent a task works for
  Pipelined,  \* those that are LogsAgents; the others only run ReAct
  Budgeted    \* those with node_timeout_ms > 0

Fetches(a) == {t \in Tasks : Owner[t] = a /\ Job[t].op = "call"}
Binding(a) == {t \in Tasks : Owner[t] = a /\ Job[t].op = "topk"}

ASSUME OwnerAssumption == Owner \in [Tasks -> Agents]
ASSUME AgentAssumption ==
  /\ Pipelined \subseteq Agents /\ Budgeted \subseteq Agents
  /\ \A a \in Agents : \E t \in Tasks : Binding(a) = {t}

VARIABLES
  phase,    \* where each agent is
  stop,     \* what has cancelled it, if anything has
  evidence  \* the fetches its prompt is written from, and the prompt's degraded flag

agentVars == <<phase, stop, evidence>>
allVars == <<vars, agentVars>>

Working == {"planning", "fetching", "synthesising", "binding", "reacting"}
Ended == {"answered", "degraded", "raised", "cancelled"}

AgentInit ==
  /\ Init
  /\ phase = [a \in Agents |-> "idle"]
  /\ stop = [a \in Agents |-> "none"]
  /\ evidence = [a \in Agents |-> [from |-> {}, partial |-> FALSE]]

Go(a, from, to) == phase[a] = from /\ phase' = [phase EXCEPT ![a] = to]

\* An exception of the agent; a TimeoutError of its own is taken for the budget's.
RaisedOrDegraded == {"raised", "degraded"}

-----------------------------------------------------------------------------
(* The agent's own steps. *)

Handle(a) ==
  /\ Go(a, "idle", IF a \in Pipelined THEN "planning" ELSE "binding")
  /\ UNCHANGED <<vars, stop, evidence>>

\* plan, which catches whatever its LLM call raises, and the ReAct escape.
Plan(a) ==
  /\ stop[a] = "none"
  /\ Go(a, "planning", "fetching") \/ Go(a, "planning", "binding")
  /\ UNCHANGED <<vars, stop, evidence>>

FetchesOver(a) == \A t \in Fetches(a) : pc[t] \in Over
Answered(a) == {t \in Fetches(a) : pc[t] = "answered"}

\* Mutant of Gathered: gather without return_exceptions.
GatheredOrFirstError(a) ==
  /\ stop[a] = "none"
  /\ \/ /\ Answered(a) = Fetches(a)
        /\ Go(a, "fetching", "synthesising")
        /\ evidence' = [evidence EXCEPT ![a] = [from |-> Fetches(a), partial |-> FALSE]]
     \/ /\ \E t \in Fetches(a) : pc[t] \in Over \ {"answered"}
        /\ Go(a, "fetching", "raised")
        /\ UNCHANGED evidence
  /\ UNCHANGED <<vars, stop>>

\* Mutant of Gathered: degraded only when every fetch failed.
GatheredAnyway(a) ==
  /\ stop[a] = "none"
  /\ FetchesOver(a)
  /\ Go(a, "fetching", "synthesising")
  /\ evidence' = [evidence EXCEPT ![a] =
       [from |-> Answered(a), partial |-> Answered(a) = {}]]
  /\ UNCHANGED <<vars, stop>>

\* _gather_resilient waits for both and drops the ones that raised.
Gathered(a) ==
  /\ stop[a] = "none"
  /\ FetchesOver(a)
  /\ Go(a, "fetching", "synthesising")
  /\ evidence' = [evidence EXCEPT ![a] =
       [from |-> Answered(a), partial |-> Answered(a) # Fetches(a)]]
  /\ UNCHANGED <<vars, stop>>

\* Mutant of Bound: without tools the agent falls back on the pipeline.
BoundOrFetch(a) ==
  /\ stop[a] = "none"
  /\ \E t \in Binding(a) :
       /\ pc[t] \in Over
       /\ Go(a, "binding", IF pc[t] = "bound" THEN "reacting" ELSE "synthesising")
  /\ UNCHANGED <<vars, stop, evidence>>

\* topk returns into run_react, or raises out of it.
Bound(a) ==
  /\ stop[a] = "none"
  /\ \E t \in Binding(a) :
       \/ pc[t] = "bound" /\ Go(a, "binding", "reacting")
       \/ /\ pc[t] \in Over \ {"bound"}
          /\ \E end \in RaisedOrDegraded : Go(a, "binding", end)
  /\ UNCHANGED <<vars, stop, evidence>>

\* The synthesis call or the ReAct loop ends.
Answers(a) ==
  /\ stop[a] = "none"
  /\ Go(a, "synthesising", "answered") \/ Go(a, "reacting", "answered")
  /\ UNCHANGED <<vars, stop, evidence>>

Raises(a) ==
  /\ stop[a] = "none"
  /\ \E from \in {"synthesising", "reacting"}, end \in RaisedOrDegraded : Go(a, from, end)
  /\ UNCHANGED <<vars, stop, evidence>>

-----------------------------------------------------------------------------
(* Being stopped. *)

\* wait_for's timer cancels the agent.
Expire(a) ==
  /\ a \in Budgeted
  /\ phase[a] \in Working
  /\ stop[a] = "none"
  /\ stop' = [stop EXCEPT ![a] = "budget"]
  /\ UNCHANGED <<vars, phase, evidence>>

\* The stream is closed, and langgraph cancels the node; this outranks the budget.
Leave(a) ==
  /\ phase[a] \in Working
  /\ stop[a] # "client"
  /\ stop' = [stop EXCEPT ![a] = "client"]
  /\ UNCHANGED <<vars, phase, evidence>>

\* The agent is suspended on this use of the hub.
Called(t) == phase[Owner[t]] = IF Job[t].op = "call" THEN "fetching" ELSE "binding"

\* Mutant of CancelChild: setup is shielded from its caller's cancellation.
CancelCall(t) ==
  /\ stop[Owner[t]] # "none"
  /\ Called(t)
  /\ pc[t] \in {"idle", "invoking"}
  /\ Cancel(t)
  /\ UNCHANGED agentVars

\* The cancellation reaches a task the agent waits for, wherever it is.
CancelChild(t) ==
  /\ stop[Owner[t]] # "none"
  /\ Called(t)
  /\ Cancel(t)
  /\ UNCHANGED agentVars

\* A cancelled gather raises when its last child is over, and the degraded
\* answer or the cancellation leaves the node.
Unwind(a) ==
  /\ stop[a] # "none"
  /\ \A t \in Tasks : Owner[t] = a /\ Called(t) => pc[t] \in Over
  /\ phase[a] \in Working
  /\ phase' = [phase EXCEPT ![a] = IF stop[a] = "budget" THEN "degraded" ELSE "cancelled"]
  /\ UNCHANGED <<vars, stop, evidence>>

-----------------------------------------------------------------------------
(* The hub's steps for the agents' tasks. *)

\* A task is started by its agent; a cancelled one only unwinds.
Alive(t) == stop[Owner[t]] = "none" /\ (pc[t] = "idle" => Called(t))
ChildStep(t) == Alive(t) /\ TaskStep(t) /\ UNCHANGED agentVars
ChildServed(t) == Alive(t) /\ ServerStep(t) /\ UNCHANGED agentVars

LoopStep(a) == Gathered(a) \/ Bound(a) \/ Unwind(a)
AgentStep(a) ==
  Handle(a) \/ Plan(a) \/ Answers(a) \/ Raises(a) \/ Leave(a) \/ Expire(a) \/ LoopStep(a)

AgentNext ==
  \/ \E a \in Agents : AgentStep(a)
  \/ \E t \in Tasks : ChildStep(t) \/ ChildServed(t) \/ CancelChild(t)
  \/ (CloseHub \/ Redeploy) /\ UNCHANGED agentVars

AgentSpec == AgentInit /\ [][AgentNext]_allVars

\* The loop runs ready tasks, delivers cancellations and fires timers.  Nothing
\* is assumed of the server or of the LLM: either may hang.
FairAgentSpec ==
  /\ AgentSpec
  /\ \A a \in Agents : WF_allVars(LoopStep(a)) /\ WF_allVars(Expire(a))
  /\ \A t \in Tasks : WF_allVars(ChildStep(t)) /\ WF_allVars(CancelChild(t))

-----------------------------------------------------------------------------
(* Properties. *)

\* When an agent has returned, nothing it started is still in the hub, whether it
\* answered from one of two fetches, raised, ran out of budget or lost its client
\* (logs.py:100, builder.py:79).
NoOrphans == \A t \in Tasks : phase[Owner[t]] \in Ended => pc[t] \notin Running

\* An answer of the pipeline is written from exactly the fetches the request's
\* telemetry has recorded, all of allowed tools, and its prompt says so when one
\* is missing (logs.py:96-107, hub.py:177).
EvidenceIsRecorded == \A a \in Agents :
  phase[a] \in {"synthesising", "answered"} /\ (\E t \in Fetches(a) : pc[t] # "idle") =>
    /\ \A t \in Fetches(a) : t \in evidence[a].from <=> records[t] = <<Job[t].name>>
    /\ evidence[a].partial <=> \E t \in Fetches(a) : records[t] = << >>
    /\ Pinned => \A t \in evidence[a].from : Job[t].name \in Allowed

\* Every agent behaves as Ask takes agents to: one plan, then one gathering and
\* one synthesis or one ReAct loop, and no answer after it stopped: Contract(a)!Spec
\* for every a, the quantifier moved inside the box.
Phase(a) ==
  IF phase[a] \in {"idle", "planning"} THEN "plan"
  ELSE IF phase[a] \in {"fetching", "synthesising"} THEN "gather"
  ELSE IF phase[a] \in {"binding", "reacting"} THEN "react"
  ELSE IF phase[a] = "answered" THEN "answered" ELSE "stopped"
Contract(a) == INSTANCE AgentPhases WITH
  phase <- Phase(a), passes <- 0, MaxCritique <- 0, MayReact <- TRUE
KeepsPhases ==
  /\ \A a \in Agents : Contract(a)!Init
  /\ [][\A a \in Agents : [Contract(a)!Next]_(Contract(a)!vars)]_allVars

\* However the server and the LLM hang, an agent with a budget ends; one without
\* may wait for ever, but only for one of them (builder.py:78-82).
WaitsOutside(a) ==
  \/ phase[a] \in {"planning", "synthesising", "reacting"}
  \/ \E t \in Tasks : Owner[t] = a /\ pc[t] \in {"listing", "invoking"}
AgentEnds == \A a \in Agents :
  phase[a] \in Working ~> phase[a] \in Ended \/ (a \notin Budgeted /\ []WaitsOutside(a))
=============================================================================
