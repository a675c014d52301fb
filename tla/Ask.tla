-------------------------------- MODULE Ask ---------------------------------
(***************************************************************************)
(* The life of POST /ask: the SSE generator of api/routes.py, the graph    *)
(* run it drives (router node, one agent node under a latency budget), the *)
(* telemetry scope of src/obs, the cost cap, and the checkpointed message  *)
(* history of the session.                                                 *)
(*                                                                         *)
(* Each request is two activities of one event loop: the generator, which  *)
(* is suspended either at a yield (the transport has the frame) or at the  *)
(* await for the next graph event, and the graph's task, which runs        *)
(* whenever the loop lets it.  The graph starts its next superstep, and    *)
(* saves the checkpoint of the last one, only when the generator pulls.    *)
(* Inside the agent only what the request can observe is kept: its costed  *)
(* calls, where BudgetExceeded is caught and where it is not, and how it   *)
(* ends.  IncidentGraph has the incident agent's own steps.                *)
(***************************************************************************)
EXTENDS Integers, Sequences, FiniteSets

CONSTANTS
  Requests,      \* the POST /ask calls
  Sessions,      \* the session ids (thread ids of the checkpointer)
  SessionOf,     \* the session each request names
  Enabled,       \* the agents config/app.yaml enables
  FallbackRoute, \* router.fallback_route
  MaxRetries,    \* router.max_retries
  Cap,           \* settings.max_cost_usd, 0 for none
  MaxCost,       \* the dearest single LLM call
  MaxCritique,   \* incident.max_critique_passes
  PlannerLLM,    \* settings.llm_planner_enabled
  HasBudget,     \* node_timeout_ms > 0
  MaxTokens,     \* bound: token events a graph run emits
  MaxMessages    \* MAX_MESSAGES, 20 in the code

Agents == {"traces", "logs", "metrics", "incident"}
VALID_ROUTES == Agents \union {"out_of_scope"}

ASSUME SessionAssumption == SessionOf \in [Requests -> Sessions]
ASSUME RouteAssumption == Enabled \subseteq Agents /\ FallbackRoute \in VALID_ROUTES
ASSUME BoundAssumption ==
  /\ MaxRetries \in Nat /\ Cap \in Nat /\ MaxCost \in Nat
  /\ MaxCritique \in Nat /\ MaxTokens \in Nat /\ MaxMessages \in Nat \ {0}
ASSUME SwitchAssumption == PlannerLLM \in BOOLEAN /\ HasBudget \in BOOLEAN

VARIABLES
  \* the generator _stream_response
  gen,           \* where it is suspended
  finalAnswer,   \* its local final_answer
  sent,          \* the frames it has yielded
  \* src/obs
  cur,           \* the ContextVar in the generator's context
  ctx,           \* the RequestCtx
  events,        \* the rows of events.jsonl for the request
  replays,       \* its file under replays/
  \* the graph run
  node,          \* what the graph's task is doing
  attempt,       \* the router's retry counter
  decision,      \* state["route"]
  work,          \* the agent's progress
  passes,        \* critique passes made
  output,        \* state["agent_output"]
  out,           \* events emitted and not yet pulled
  tokens,        \* token events emitted
  mem,           \* state["messages"] as this run holds it
  hist,          \* the messages of the session's newest checkpoint
  \* history variables
  over,          \* calls that raised BudgetExceeded
  gone,          \* where the client left: "no", "await" or "yield"
  committed,     \* the session's completed turns, in order
  overlap        \* have two turns of the session ever been in flight at once

streamVars == <<gen, finalAnswer, sent>>
obsVars == <<cur, events, replays>>
agentVars == <<work, passes, output>>
runVars == <<node, attempt, decision, agentVars, out, tokens>>
histVars == <<mem, hist, committed, overlap>>
vars == <<streamVars, obsVars, ctx, runVars, histVars, over, gone>>

-----------------------------------------------------------------------------
(* Values. *)

Outputs == {"", "answer", "degraded", "scope"}
GenStates == {"idle", "session", "pulling", "yielding", "done", "error",
              "dropped_session", "dropped", "closed"}
NodeStates == {"none", "router", "routed", "agent", "ended", "failed", "cancelled"}
WorkStates == {"none", "scope", "react", "plan", "gather", "synthesised"}
FrameTypes == {"session", "route", "token", "response", "done", "error"}
NoRoute == "none"
Routes == VALID_ROUTES \union {NoRoute}

Frame(type, body) == [type |-> type, body |-> body]
Frames == [type : FrameTypes, body : Outputs \union Routes]

NewCtx == [route |-> NoRoute, calls |-> 0, cost |-> 0,
           degraded |-> FALSE, timeouts |-> << >>]
Ctxs == [route : Routes, calls : Nat, cost : Nat,
         degraded : BOOLEAN, timeouts : Seq(Routes)]
Row(r) == [ctx |-> ctx[r], answer |-> finalAnswer[r]]
Rows == [ctx : Ctxs, answer : Outputs]

\* Mutant of Keep: the cap keeps the oldest messages.
KeepOldest(s) == IF Len(s) > MaxMessages THEN SubSeq(s, 1, MaxMessages) ELSE s

\* add_messages: append, then keep the newest MaxMessages.
Keep(s) == IF Len(s) > MaxMessages
           THEN SubSeq(s, Len(s) - MaxMessages + 1, Len(s)) ELSE s
AddMessages(left, right) == Keep(left \o right)

Init ==
  /\ gen = [r \in Requests |-> "idle"]
  /\ finalAnswer = [r \in Requests |-> ""]
  /\ sent = [r \in Requests |-> << >>]
  /\ cur = [r \in Requests |-> "unset"]
  /\ ctx = [r \in Requests |-> NewCtx]
  /\ events = [r \in Requests |-> << >>]
  /\ replays = [r \in Requests |-> << >>]
  /\ node = [r \in Requests |-> "none"]
  /\ attempt = [r \in Requests |-> 0]
  /\ decision = [r \in Requests |-> NoRoute]
  /\ work = [r \in Requests |-> "none"]
  /\ passes = [r \in Requests |-> 0]
  /\ output = [r \in Requests |-> ""]
  /\ out = [r \in Requests |-> << >>]
  /\ tokens = [r \in Requests |-> 0]
  /\ mem = [r \in Requests |-> << >>]
  /\ hist = [s \in Sessions |-> << >>]
  /\ over = [r \in Requests |-> 0]
  /\ gone = [r \in Requests |-> "no"]
  /\ committed = [s \in Sessions |-> << >>]
  /\ overlap = [s \in Sessions |-> FALSE]

-----------------------------------------------------------------------------
(* Cost accounting: record_llm appends the call, adds its price, and only  *)
(* then compares the total with the cap.                                   *)

OverCap(c) == Cap # 0 /\ c.cost > Cap
Charge(c, usd) == [[c EXCEPT !.calls = @ + 1] EXCEPT !.cost = @ + usd]

\* Mutant of Accepted: the cap is compared with the total before the call.
AcceptedOnOldTotal(r) == \E usd \in 0 .. MaxCost :
  /\ ctx' = [ctx EXCEPT ![r] = Charge(@, usd)]
  /\ ~OverCap(ctx[r])
  /\ UNCHANGED over

\* A call whose reply is used, one that raises BudgetExceeded, and one whose
\* BudgetExceeded the caller catches.
Accepted(r) == \E usd \in 0 .. MaxCost :
  /\ ctx' = [ctx EXCEPT ![r] = Charge(@, usd)]
  /\ ~OverCap(Charge(ctx[r], usd))
  /\ UNCHANGED over
Refused(r) == \E usd \in 0 .. MaxCost :
  /\ ctx' = [ctx EXCEPT ![r] = Charge(@, usd)]
  /\ OverCap(Charge(ctx[r], usd))
  /\ over' = [over EXCEPT ![r] = @ + 1]
NotMade == UNCHANGED <<ctx, over>>

-----------------------------------------------------------------------------
(* The generator: start, and the suspension at the session frame, which    *)
(* stands before the try.                                                  *)

Start(r) ==
  /\ gen[r] = "idle"
  /\ gen' = [gen EXCEPT ![r] = "session"]
  /\ cur' = [cur EXCEPT ![r] = "set"]
  /\ ctx' = [ctx EXCEPT ![r] = NewCtx]
  /\ finalAnswer' = [finalAnswer EXCEPT ![r] = ""]
  /\ sent' = [sent EXCEPT ![r] = <<Frame("session", "")>>]
  /\ UNCHANGED <<events, replays, runVars, histVars, over, gone>>

InFlight(r) == node[r] # "none" /\ gen[r] # "closed"

\* astream loads the session's newest checkpoint and starts the router.
EnterGraph(r) ==
  LET s == SessionOf[r] IN
  /\ gen[r] = "session"
  /\ gen' = [gen EXCEPT ![r] = "pulling"]
  /\ node' = [node EXCEPT ![r] = "router"]
  /\ mem' = [mem EXCEPT ![r] = hist[s]]
  /\ overlap' = [overlap EXCEPT ![s] =
       @ \/ \E q \in Requests \ {r} : SessionOf[q] = s /\ InFlight(q)]
  /\ UNCHANGED <<finalAnswer, sent, obsVars, ctx, attempt, decision, agentVars,
                 out, tokens, hist, committed, over, gone>>

-----------------------------------------------------------------------------
(* The router node. *)

\* The conditional edge runs in the router's task: a route with no node of
\* its own raises KeyError there, before the update is emitted.
Decide(r, route) ==
  LET known == route \in Enabled \union {"out_of_scope"} IN
  /\ decision' = [decision EXCEPT ![r] = route]
  /\ node' = [node EXCEPT ![r] = IF known THEN "routed" ELSE "failed"]
  /\ out' = [out EXCEPT ![r] = IF known THEN <<"route">> ELSE << >>]
  /\ UNCHANGED attempt

\* Mutant of AttemptFails: the loop is one attempt longer.
AttemptRetriedOnceMore(r) ==
  \/ /\ attempt[r] <= MaxRetries
     /\ attempt' = [attempt EXCEPT ![r] = @ + 1]
     /\ UNCHANGED <<decision, node, out>>
  \/ /\ attempt[r] = MaxRetries + 1
     /\ Decide(r, FallbackRoute)

\* Every exception of an attempt is caught; the last one decides the fallback.
AttemptFails(r) ==
  \/ /\ attempt[r] < MaxRetries
     /\ attempt' = [attempt EXCEPT ![r] = @ + 1]
     /\ UNCHANGED <<decision, node, out>>
  \/ /\ attempt[r] = MaxRetries
     /\ Decide(r, FallbackRoute)

RouterAttempt(r) ==
  /\ node[r] = "router"
  /\ UNCHANGED <<streamVars, obsVars, agentVars, tokens, histVars, gone>>

RouterProviderError(r) == RouterAttempt(r) /\ NotMade /\ AttemptFails(r)
RouterOverBudget(r) == RouterAttempt(r) /\ Refused(r) /\ AttemptFails(r)
RouterBadReply(r) == RouterAttempt(r) /\ Accepted(r) /\ AttemptFails(r)
RouterReply(r) ==
  /\ RouterAttempt(r)
  /\ Accepted(r)
  /\ \E route \in VALID_ROUTES, confident \in BOOLEAN :
       Decide(r, IF confident THEN route ELSE FallbackRoute)

RouterStep(r) == \/ RouterProviderError(r)
                 \/ RouterOverBudget(r)
                 \/ RouterBadReply(r)
                 \/ RouterReply(r)

-----------------------------------------------------------------------------
(* The agent node. *)

FirstWork(route) == CASE route = "out_of_scope" -> "scope"
                      [] route \in {"traces", "metrics"} -> "react"
                      [] OTHER -> "plan"

\* The second superstep: the checkpoint of the router's step is saved first.
StartAgent(r) ==
  /\ gen[r] = "pulling"
  /\ out[r] = << >>
  /\ node[r] = "routed"
  /\ node' = [node EXCEPT ![r] = "agent"]
  /\ work' = [work EXCEPT ![r] = FirstWork(decision[r])]
  /\ hist' = [hist EXCEPT ![SessionOf[r]] = mem[r]]
  /\ UNCHANGED <<streamVars, obsVars, ctx, attempt, decision, passes, output,
                 out, tokens, mem, committed, overlap, over, gone>>

Working(r, w) ==
  /\ node[r] = "agent"
  /\ work[r] = w
  /\ UNCHANGED <<streamVars, obsVars, attempt, decision, tokens, histVars, gone>>

\* logs leaves the deterministic pipeline when the plan's intent is "default".
Planned(r) ==
  \/ work' = [work EXCEPT ![r] = "gather"]
  \/ decision[r] = "logs" /\ work' = [work EXCEPT ![r] = "react"]

\* The keyword plan: incident's only one, and the answer to any failure of
\* the planner's LLM call.
PlanByKeywords(r) ==
  /\ Working(r, "plan")
  /\ NotMade
  /\ Planned(r)
  /\ UNCHANGED <<node, passes, output, out>>

\* plan_query_llm: BudgetExceeded is caught with every other exception.
PlanByLLM(r) ==
  /\ PlannerLLM
  /\ decision[r] = "logs"
  /\ Working(r, "plan")
  /\ Accepted(r) \/ Refused(r)
  /\ Planned(r)
  /\ UNCHANGED <<node, passes, output, out>>

Synthesise(r) ==
  /\ Working(r, "gather")
  /\ Accepted(r)
  /\ work' = [work EXCEPT ![r] = "synthesised"]
  /\ UNCHANGED <<node, passes, output, out>>

\* Nothing between this call and the stream catches BudgetExceeded.
SynthesiseOverBudget(r) ==
  /\ Working(r, "gather")
  /\ Refused(r)
  /\ node' = [node EXCEPT ![r] = "failed"]
  /\ UNCHANGED <<work, passes, output, out>>

\* Mutant of Critique: the investigation ends at the critique.
CritiqueThenEnd(r) ==
  /\ decision[r] = "incident"
  /\ passes[r] < MaxCritique
  /\ Working(r, "synthesised")
  /\ NotMade \/ Accepted(r) \/ Refused(r)
  /\ passes' = [passes EXCEPT ![r] = @ + 1]
  /\ UNCHANGED <<work, node, output, out>>

\* _self_critique catches everything, and synthesis always runs again.
Critique(r) ==
  /\ decision[r] = "incident"
  /\ passes[r] < MaxCritique
  /\ Working(r, "synthesised")
  /\ NotMade \/ Accepted(r) \/ Refused(r)
  /\ passes' = [passes EXCEPT ![r] = @ + 1]
  /\ work' = [work EXCEPT ![r] = "gather"]
  /\ UNCHANGED <<node, output, out>>

\* The node returns {"agent_output": o, ...}; the graph emits the update.
Return(r, o) ==
  /\ output' = [output EXCEPT ![r] = o]
  /\ node' = [node EXCEPT ![r] = "ended"]
  /\ out' = [out EXCEPT ![r] = Append(@, "output")]
  /\ UNCHANGED <<work, passes, over>>

OutOfScope(r) == Working(r, "scope") /\ Return(r, "scope") /\ UNCHANGED ctx

\* A reply with no content is an empty output, except incident's, which
\* falls back on "{}".
AgentReturns(r) ==
  /\ Working(r, "synthesised") \/ Working(r, "react")
  /\ \E o \in {"answer", ""} :
       /\ o = "" => decision[r] # "incident"
       /\ Return(r, o)
  /\ UNCHANGED ctx

Handling(r) == work[r] # "scope" /\ Working(r, work[r])

\* record_timeout and the degraded template.
Degrade(r) ==
  /\ Handling(r)
  /\ ctx' = [ctx EXCEPT ![r].degraded = TRUE,
                        ![r].timeouts = Append(@, decision[r])]
  /\ Return(r, "degraded")

\* Mutant of BudgetExpires: the budget covers the gathering only.
BudgetExpiresGathering(r) == HasBudget /\ work[r] = "gather" /\ Degrade(r)

BudgetExpires(r) == HasBudget /\ Degrade(r)
\* except asyncio.TimeoutError also catches one the agent itself raises.
AgentRaisesTimeout(r) == Degrade(r)

AgentRaises(r) ==
  /\ Handling(r)
  /\ node' = [node EXCEPT ![r] = "failed"]
  /\ NotMade
  /\ UNCHANGED <<agentVars, out>>

\* A "messages" event of a node other than the router.
EmitToken(r) ==
  /\ node[r] = "agent"
  /\ tokens[r] < MaxTokens
  /\ tokens' = [tokens EXCEPT ![r] = @ + 1]
  /\ out' = [out EXCEPT ![r] = Append(@, "token")]
  /\ UNCHANGED <<streamVars, obsVars, ctx, node, attempt, decision, agentVars,
                 histVars, over, gone>>

AgentStep(r) ==
  \/ PlanByKeywords(r) \/ PlanByLLM(r)
  \/ Synthesise(r) \/ SynthesiseOverBudget(r) \/ Critique(r)
  \/ AgentReturns(r) \/ AgentRaisesTimeout(r) \/ AgentRaises(r) \/ EmitToken(r)

-----------------------------------------------------------------------------
(* The generator's loop over the graph's events. *)

Pull(r, event) ==
  /\ gen[r] = "pulling"
  /\ out[r] # << >>
  /\ Head(out[r]) = event
  /\ out' = [out EXCEPT ![r] = Tail(@)]
  /\ UNCHANGED <<obsVars, node, attempt, decision, agentVars, tokens, histVars,
                 over, gone>>

Yield(r, frame, at) ==
  /\ gen' = [gen EXCEPT ![r] = at]
  /\ sent' = [sent EXCEPT ![r] = Append(@, frame)]

\* set_route, then the route frame.
SendRoute(r) ==
  /\ Pull(r, "route")
  /\ ctx' = [ctx EXCEPT ![r].route = decision[r]]
  /\ Yield(r, Frame("route", decision[r]), "yielding")
  /\ UNCHANGED finalAnswer

SendToken(r) ==
  /\ Pull(r, "token")
  /\ Yield(r, Frame("token", ""), "yielding")
  /\ UNCHANGED <<ctx, finalAnswer>>

\* Mutant of SendResponse: final_answer is not assigned.
SendResponseUnrecorded(r) ==
  /\ Pull(r, "output")
  /\ output[r] # ""
  /\ Yield(r, Frame("response", output[r]), "yielding")
  /\ UNCHANGED <<ctx, finalAnswer>>

SendResponse(r) ==
  /\ Pull(r, "output")
  /\ output[r] # ""
  /\ finalAnswer' = [finalAnswer EXCEPT ![r] = output[r]]
  /\ Yield(r, Frame("response", output[r]), "yielding")
  /\ UNCHANGED ctx

\* An empty output sends nothing and leaves final_answer alone.
SkipEmpty(r) ==
  /\ Pull(r, "output")
  /\ output[r] = ""
  /\ UNCHANGED <<ctx, streamVars>>

Resume(r) ==
  /\ gen[r] = "yielding"
  /\ gen' = [gen EXCEPT ![r] = "pulling"]
  /\ UNCHANGED <<finalAnswer, sent, obsVars, ctx, runVars, histVars, over, gone>>

\* Mutant of GraphRaises: the exception is reported inside the loop.
GraphRaisesInLoop(r) ==
  /\ gen[r] = "pulling"
  /\ node[r] = "failed"
  /\ node' = [node EXCEPT ![r] = "ended"]
  /\ out' = [out EXCEPT ![r] = << >>]
  /\ Yield(r, Frame("error", ""), "yielding")
  /\ UNCHANGED <<finalAnswer, obsVars, ctx, attempt, decision, agentVars,
                 tokens, histVars, over, gone>>

\* astream raises the node's exception; events still queued may be dropped.
GraphRaises(r) ==
  /\ gen[r] = "pulling"
  /\ node[r] = "failed"
  /\ out' = [out EXCEPT ![r] = << >>]
  /\ Yield(r, Frame("error", ""), "error")
  /\ UNCHANGED <<finalAnswer, obsVars, ctx, node, attempt, decision, agentVars,
                 tokens, histVars, over, gone>>

\* Mutant of GraphEnds: the checkpoint does not wait for the last events.
GraphEndsUnpulled(r) ==
  LET s == SessionOf[r] IN
  /\ gen[r] = "pulling"
  /\ node[r] = "ended"
  /\ mem' = [mem EXCEPT ![r] = AddMessages(@, <<r>>)]
  /\ hist' = [hist EXCEPT ![s] = AddMessages(mem[r], <<r>>)]
  /\ committed' = [committed EXCEPT ![s] = Append(@, r)]
  /\ Yield(r, Frame("done", ""), "done")
  /\ UNCHANGED <<finalAnswer, obsVars, ctx, runVars, overlap, over, gone>>

\* The last superstep's checkpoint is saved and astream is exhausted.
GraphEnds(r) ==
  LET s == SessionOf[r] IN
  /\ gen[r] = "pulling"
  /\ node[r] = "ended"
  /\ out[r] = << >>
  /\ mem' = [mem EXCEPT ![r] = AddMessages(@, <<r>>)]
  /\ hist' = [hist EXCEPT ![s] = AddMessages(mem[r], <<r>>)]
  /\ committed' = [committed EXCEPT ![s] = Append(@, r)]
  /\ Yield(r, Frame("done", ""), "done")
  /\ UNCHANGED <<finalAnswer, obsVars, ctx, runVars, overlap, over, gone>>

-----------------------------------------------------------------------------
(* The end of the generator. *)

\* Mutant of Flush: the ContextVar is not cleared.
FlushUncleared(r) ==
  /\ cur[r] = "set"
  /\ events' = [events EXCEPT ![r] = Append(@, Row(r))]
  /\ UNCHANGED <<cur, replays>>

\* obs.finish: each sink may fail on its own, and the ContextVar is cleared.
Flush(r) ==
  /\ cur[r] = "set"
  /\ cur' = [cur EXCEPT ![r] = "cleared"]
  /\ \/ events' = [events EXCEPT ![r] = Append(@, Row(r))]
     \/ UNCHANGED events
  /\ \/ replays' = [replays EXCEPT ![r] = <<Row(r)>>]
     \/ UNCHANGED replays

Close(r) ==
  /\ gen' = [gen EXCEPT ![r] = "closed"]
  /\ UNCHANGED <<finalAnswer, sent, ctx, attempt, decision, agentVars, out,
                 tokens, histVars, over>>

Finish(r) ==
  /\ gen[r] \in {"done", "error"}
  /\ Flush(r)
  /\ Close(r)
  /\ UNCHANGED <<node, gone>>

\* Mutant of Stopped: cancelling the stream leaves the graph's task alone.
LeftRunning(n) == n

Stopped(n) == IF n \in {"router", "agent"} THEN "cancelled" ELSE n

\* Mutant of Disconnect: the flush is no longer in a finally.
DisconnectUnflushed(r) ==
  /\ gen[r] = "pulling"
  /\ Close(r)
  /\ node' = [node EXCEPT ![r] = Stopped(@)]
  /\ gone' = [gone EXCEPT ![r] = "await"]
  /\ UNCHANGED obsVars

\* The client leaves while the generator awaits the graph: CancelledError
\* skips `except Exception`, runs the finally, and stops the graph's task.
Disconnect(r) ==
  /\ gen[r] = "pulling"
  /\ Flush(r)
  /\ Close(r)
  /\ node' = [node EXCEPT ![r] = Stopped(@)]
  /\ gone' = [gone EXCEPT ![r] = "await"]

\* The client leaves while the transport holds a frame: nothing is raised in
\* the generator until its last reference goes.
Abandon(r) ==
  /\ gen[r] \in {"session", "yielding", "done", "error"}
  /\ gen' = [gen EXCEPT ![r] = IF @ = "session" THEN "dropped_session" ELSE "dropped"]
  /\ gone' = [gone EXCEPT ![r] = "yield"]
  /\ UNCHANGED <<finalAnswer, sent, obsVars, ctx, runVars, histVars, over>>

\* GeneratorExit at the session frame: no finally encloses it.
CollectAtSession(r) ==
  /\ gen[r] = "dropped_session"
  /\ Close(r)
  /\ UNCHANGED <<obsVars, node, gone>>

\* GeneratorExit inside the try.  The finally runs in the context of whatever
\* task closes the generator; in another than its own finish finds no ctx.
Collect(r) ==
  /\ gen[r] = "dropped"
  /\ Flush(r) \/ UNCHANGED obsVars
  /\ Close(r)
  /\ UNCHANGED <<node, gone>>

\* astream's own generator goes after the one that iterated it: until then
\* an abandoned agent works on, under a copy of the context.
Reap(r) ==
  /\ gen[r] = "closed"
  /\ node[r] = "agent"
  /\ node' = [node EXCEPT ![r] = Stopped(@)]
  /\ UNCHANGED <<streamVars, obsVars, ctx, attempt, decision, agentVars, out,
                 tokens, histVars, over, gone>>

GeneratorStep(r) ==
  \/ EnterGraph(r) \/ StartAgent(r)
  \/ SendRoute(r) \/ SendToken(r) \/ SendResponse(r) \/ SkipEmpty(r)
  \/ Resume(r) \/ GraphRaises(r) \/ GraphEnds(r) \/ Finish(r)
  \/ CollectAtSession(r) \/ Collect(r) \/ Reap(r)

Next == \E r \in Requests :
  \/ Start(r) \/ GeneratorStep(r) \/ RouterStep(r) \/ OutOfScope(r)
  \/ AgentStep(r) \/ BudgetExpires(r) \/ Disconnect(r) \/ Abandon(r)

Spec == Init /\ [][Next]_vars

\* The loop keeps driving the generator, the provider answers or fails each
\* router call, the out-of-scope node is plain code, and the budget's timer
\* fires.  Nothing is assumed of the agents, nor of the client.
Fairness == \A r \in Requests :
  /\ WF_vars(GeneratorStep(r))
  /\ WF_vars(RouterStep(r))
  /\ WF_vars(OutOfScope(r))
  /\ WF_vars(BudgetExpires(r))

FairSpec == Spec /\ Fairness

-----------------------------------------------------------------------------
(* Properties. *)

TypeOK ==
  /\ gen \in [Requests -> GenStates]
  /\ finalAnswer \in [Requests -> Outputs]
  /\ sent \in [Requests -> Seq(Frames)]
  /\ cur \in [Requests -> {"unset", "set", "cleared"}]
  /\ ctx \in [Requests -> Ctxs]
  /\ events \in [Requests -> Seq(Rows)]
  /\ replays \in [Requests -> Seq(Rows)]
  /\ node \in [Requests -> NodeStates]
  /\ attempt \in [Requests -> 0 .. MaxRetries]
  /\ decision \in [Requests -> Routes]
  /\ work \in [Requests -> WorkStates]
  /\ passes \in [Requests -> 0 .. MaxCritique]
  /\ output \in [Requests -> Outputs]
  /\ out \in [Requests -> Seq({"route", "token", "output"})]
  /\ tokens \in [Requests -> 0 .. MaxTokens]
  /\ mem \in [Requests -> Seq(Requests)]
  /\ hist \in [Sessions -> Seq(Requests)]
  /\ over \in [Requests -> Nat]
  /\ gone \in [Requests -> {"no", "await", "yield"}]
  /\ committed \in [Sessions -> Seq(Requests)]
  /\ overlap \in [Sessions -> BOOLEAN]

Sent(r, type) == {i \in DOMAIN sent[r] : sent[r][i].type = type}
LastBody(r, type, default) ==
  IF Sent(r, type) = {} THEN default
  ELSE sent[r][CHOOSE i \in Sent(r, type) : \A j \in Sent(r, type) : j <= i].body

\* The SSE contract (routes.py:20-25, 52-80): session, route, tokens,
\* response, then exactly one of done and error with nothing after it; only
\* tokens repeat, and nothing an agent says precedes the route that chose it.
Rank == [session |-> 0, route |-> 1, token |-> 2, response |-> 3,
         done |-> 4, error |-> 4]
FramesInOrder == \A r \in Requests : \A i, j \in DOMAIN sent[r] : i < j =>
  LET a == sent[r][i].type
      b == sent[r][j].type
  IN /\ Rank[a] < Rank[b] \/ {a, b} = {"token"}
     /\ b \in {"token", "response"} => Sent(r, "route") # {}

\* Both sinks tell what the client was shown: the answer is the last response
\* frame's, the route is the route frame's, and a row is marked degraded
\* exactly when a timeout is listed in it (obs/base.py:37-43, 73-103).
RowsTellTheStream == \A r \in Requests :
  \A log \in {events[r], replays[r]} : \A i \in DOMAIN log :
    /\ log[i].answer = LastBody(r, "response", "")
    /\ log[i].ctx.route = LastBody(r, "route", NoRoute)
    /\ log[i].ctx.degraded <=> log[i].ctx.timeouts # << >>
    /\ log[i].answer = "degraded" => log[i].ctx.degraded

\* How far a request outruns its cap: in calls, and by one call's price for each
\* in money.  The breaches of the router's attempts,
\* of the LLM planner and of a critique are caught; the one of a synthesis is
\* not, and once over the cap no synthesis succeeds, hence no critique follows
\* (cost.py:57-62, router.py:61-65, incident.py:450-452).
MaxOverruns == MaxRetries + 2 + (IF PlannerLLM THEN 1 ELSE 0)
SpendBounded == \A r \in Requests :
  /\ over[r] <= MaxOverruns
  /\ Cap # 0 => ctx[r].cost <= Cap + over[r] * MaxCost

\* A synthesised answer is never over the cap, although a critique's
\* BudgetExceeded is caught after the first synthesis (incident.py:450-452).
SynthesisWithinCap == \A r \in Requests :
  work[r] = "synthesised" /\ node[r] = "ended" /\ output[r] = "answer"
    => ~OverCap(ctx[r])

\* Telemetry is lost only for a client that left while the transport held a
\* frame; leaving during the graph's work, an agent's failure and a timeout
\* all reach obs.finish (routes.py:30-31, 79-82).
LostOnlyAtYield == \A r \in Requests :
  gen[r] = "closed" /\ cur[r] = "set" => gone[r] = "yield"

\* What the sinks were given is final: after the generator has closed, only
\* the agent of an abandoned stream still charges its RequestCtx.
LateSpendOnlyIfAbandoned ==
  [][\A r \in Requests :
       gen[r] = "closed" /\ ctx'[r] # ctx[r] => gone[r] = "yield"]_vars

\* A turn enters the session's history only when its graph reached the end
\* and its output, if any, had been handed to the client.
HistoryWasAnswered == \A s \in Sessions : \A i \in DOMAIN hist[s] :
  LET r == hist[s][i] IN
    /\ SessionOf[r] = s
    /\ node[r] = "ended"
    /\ output[r] = LastBody(r, "response", "")

\* Turns that never overlapped are all remembered, in order, up to the cap
\* (state.py:22-27): no failed, cancelled or abandoned turn erases one.
SerialTurnsKept == \A s \in Sessions :
  LET kept == Len(hist[s])
      all == Len(committed[s])
  IN ~overlap[s] =>
       /\ kept = IF all < MaxMessages THEN all ELSE MaxMessages
       /\ \A i \in 0 .. kept - 1 : hist[s][kept - i] = committed[s][all - i]

\* The telemetry scope keeps the promises of RequestScope.
Phase == [r \in Requests |->
  CASE cur[r] = "unset" -> "none"
    [] cur[r] = "cleared" -> "finished"
    [] OTHER -> IF gen[r] = "closed" THEN "lost" ELSE "open"]
Scope == INSTANCE RequestScope WITH phase <- Phase
KeepsScope == Scope!Spec

\* Every opened request ends, however long its agent hangs: the node budget
\* (builder.py:77-89) is what guarantees it.
EveryRequestEnds == \A r \in Requests :
  gen[r] = "session" ~> gen[r] = "closed" /\ node[r] # "agent"

-----------------------------------------------------------------------------
(* What the repository's own words say of the code. *)

\* "``obs.finish`` runs in ``finally`` so the event is written even on early
\* disconnect or exception" (routes.py:30-31).
FinishAlwaysRuns == \A r \in Requests : gen[r] = "closed" => cur[r] = "cleared"

\* "The graph node bubbles it up and the stream emits an SSE ``error`` frame"
\* (cost.py:7-9): a stream whose request breached the cap never ends in done.
BreachEndsInError == \A r \in Requests : over[r] > 0 => Sent(r, "done") = {}
=============================================================================
