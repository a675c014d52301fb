------------------------------ MODULE AskProofs ------------------------------
(***************************************************************************)
(* Theorems of Ask, for any requests, sessions, caps and configuration: its *)
(* types; what becomes of a request's telemetry scope; how far it outruns   *)
(* its cost cap; what is sent, recorded and remembered.                     *)
(***************************************************************************)
EXTENDS Ask, TLAPS

-----------------------------------------------------------------------------
(* Facts about the helpers. *)

\* The history cap keeps a suffix of at most MaxMessages messages, all of them
\* messages it was given (graph/state.py:22-27).
LEMMA KeepSuffix ==
  ASSUME NEW S, NEW s \in Seq(S)
  PROVE  Keep(s) \in Seq(S) /\ Len(Keep(s)) <= MaxMessages
<1>1. CASE Len(s) > MaxMessages
  <2>1. SubSeq(s, Len(s) - MaxMessages + 1, Len(s)) \in Seq(S)
    BY <1>1, BoundAssumption
  <2>2. Len(SubSeq(s, Len(s) - MaxMessages + 1, Len(s))) = MaxMessages
    BY <1>1, BoundAssumption
  <2> QED BY <1>1, <2>1, <2>2 DEF Keep
<1>2. CASE ~(Len(s) > MaxMessages)
  BY <1>2, BoundAssumption DEF Keep
<1> QED BY <1>1, <1>2

LEMMA AddMessagesType ==
  ASSUME NEW m \in Seq(Requests), NEW r \in Requests
  PROVE  AddMessages(m, <<r>>) \in Seq(Requests)
<1>1. m \o <<r>> \in Seq(Requests)
  OBVIOUS
<1> QED BY <1>1, KeepSuffix DEF AddMessages

LEMMA ChargeType ==
  ASSUME NEW c \in Ctxs, NEW usd \in 0 .. MaxCost
  PROVE  /\ Charge(c, usd) \in Ctxs
         /\ Charge(c, usd).cost = c.cost + usd
<1> DEFINE d == [c EXCEPT !.calls = @ + 1]
<1>1. d \in Ctxs /\ d.cost = c.cost
  BY DEF Ctxs
<1> HIDE DEF d
<1>2. d.cost + usd \in Nat
  BY <1>1, BoundAssumption DEF Ctxs
<1>3. [d EXCEPT !.cost = @ + usd] \in Ctxs
  BY <1>1, <1>2 DEF Ctxs
<1>4. [d EXCEPT !.cost = @ + usd].cost = c.cost + usd
  BY <1>1 DEF Ctxs
<1> QED BY <1>3, <1>4 DEF Charge, d

LEMMA FrameType ==
  ASSUME NEW type \in FrameTypes, NEW body \in Outputs \union Routes
  PROVE  Frame(type, body) \in Frames
  BY DEF Frame, Frames

LEMMA OneElement == ASSUME NEW S, NEW x \in S PROVE <<x>> \in Seq(S)
  OBVIOUS

LEMMA NewCtxType == NewCtx \in Ctxs
<1>1. << >> \in Seq(Routes)
  OBVIOUS
<1> QED BY <1>1 DEF NewCtx, Ctxs, Routes

LEMMA RowType == ASSUME TypeOK, NEW r \in Requests PROVE Row(r) \in Rows
  BY DEF TypeOK, Row, Rows

\* What a costed call, or none, does to the RequestCtx.
LEMMA CallType ==
  ASSUME TypeOK, NEW r \in Requests, Accepted(r) \/ Refused(r) \/ NotMade
  PROVE  ctx' \in [Requests -> Ctxs] /\ over' \in [Requests -> Nat]
<1> USE DEF TypeOK
<1>1. CASE Accepted(r)
  BY <1>1, ChargeType DEF Accepted
<1>2. CASE Refused(r)
  BY <1>2, ChargeType DEF Refused
<1>3. CASE NotMade
  BY <1>3 DEF NotMade
<1> QED BY <1>1, <1>2, <1>3

LEMMA EmptyLists ==
  ASSUME NEW D, NEW S
  PROVE  [x \in D |-> << >>] \in [D -> Seq(S)]
  OBVIOUS

LEMMA InitType == Init => TypeOK
<1> SUFFICES ASSUME Init PROVE TypeOK
  OBVIOUS
<1>1. ctx \in [Requests -> Ctxs]
  BY NewCtxType DEF Init
<1>2. /\ gen \in [Requests -> GenStates] /\ node \in [Requests -> NodeStates]
      /\ work \in [Requests -> WorkStates] /\ decision \in [Requests -> Routes]
      /\ finalAnswer \in [Requests -> Outputs] /\ output \in [Requests -> Outputs]
  BY DEF Init, GenStates, NodeStates, WorkStates, Routes, Outputs
<1>3. /\ sent \in [Requests -> Seq(Frames)]
      /\ events \in [Requests -> Seq(Rows)] /\ replays \in [Requests -> Seq(Rows)]
      /\ out \in [Requests -> Seq({"route", "token", "output"})]
      /\ mem \in [Requests -> Seq(Requests)] /\ hist \in [Sessions -> Seq(Requests)]
      /\ committed \in [Sessions -> Seq(Requests)]
  BY EmptyLists, Zenon DEF Init
<1>4. /\ cur \in [Requests -> {"unset", "set", "cleared"}]
      /\ gone \in [Requests -> {"no", "await", "yield"}]
      /\ overlap \in [Sessions -> BOOLEAN]
  BY DEF Init
<1>5. /\ attempt = [r \in Requests |-> 0] /\ passes = [r \in Requests |-> 0]
      /\ tokens = [r \in Requests |-> 0] /\ over = [r \in Requests |-> 0]
  BY DEF Init
<1>6. /\ attempt \in [Requests -> 0 .. MaxRetries]
      /\ passes \in [Requests -> 0 .. MaxCritique]
      /\ tokens \in [Requests -> 0 .. MaxTokens]
      /\ over \in [Requests -> Nat]
  BY <1>5, BoundAssumption
<1> QED BY <1>1, <1>2, <1>3, <1>4, <1>6, Zenon DEF TypeOK

-----------------------------------------------------------------------------
(* Type correctness. *)

LEMMA StartType ==
  ASSUME TypeOK, NEW r \in Requests, Start(r) PROVE TypeOK'
<1> USE DEF Start, TypeOK
<1>1. /\ gen' \in [Requests -> GenStates]
      /\ finalAnswer' \in [Requests -> Outputs]
  BY DEF GenStates, Outputs
<1>2. sent' \in [Requests -> Seq(Frames)]
  <2>1. Frame("session", "") \in Frames
    BY FrameType DEF FrameTypes, Outputs
  <2>2. <<Frame("session", "")>> \in Seq(Frames)
    BY <2>1, OneElement
  <2> QED BY <2>2
<1>3. cur' \in [Requests -> {"unset", "set", "cleared"}]
  OBVIOUS
<1>4. ctx' \in [Requests -> Ctxs]
  BY NewCtxType
<1> QED BY <1>1, <1>2, <1>3, <1>4 DEF runVars, agentVars, histVars

LEMMA EnterGraphType ==
  ASSUME TypeOK, NEW r \in Requests, EnterGraph(r) PROVE TypeOK'
<1> USE DEF EnterGraph, TypeOK
<1>1. /\ gen' \in [Requests -> GenStates]
      /\ node' \in [Requests -> NodeStates]
  BY DEF GenStates, NodeStates
<1>2. mem' \in [Requests -> Seq(Requests)]
  BY SessionAssumption
<1>3. overlap' \in [Sessions -> BOOLEAN]
  OBVIOUS
<1> QED BY <1>1, <1>2, <1>3 DEF obsVars, agentVars

LEMMA DecideType ==
  ASSUME TypeOK, NEW r \in Requests, NEW route \in VALID_ROUTES, Decide(r, route)
  PROVE  /\ decision' \in [Requests -> Routes] /\ node' \in [Requests -> NodeStates]
         /\ out' \in [Requests -> Seq({"route", "token", "output"})]
         /\ attempt' \in [Requests -> 0 .. MaxRetries]
<1>1. /\ <<"route">> \in Seq({"route", "token", "output"})
      /\ << >> \in Seq({"route", "token", "output"})
  OBVIOUS
<1> QED BY <1>1 DEF Decide, TypeOK, Routes, NodeStates

LEMMA AttemptFailsType ==
  ASSUME TypeOK, NEW r \in Requests, AttemptFails(r)
  PROVE  /\ decision' \in [Requests -> Routes] /\ node' \in [Requests -> NodeStates]
         /\ out' \in [Requests -> Seq({"route", "token", "output"})]
         /\ attempt' \in [Requests -> 0 .. MaxRetries]
<1>1. CASE /\ attempt[r] < MaxRetries
           /\ attempt' = [attempt EXCEPT ![r] = @ + 1]
           /\ UNCHANGED <<decision, node, out>>
  BY <1>1, BoundAssumption DEF TypeOK
<1>2. CASE Decide(r, FallbackRoute)
  BY <1>2, DecideType, RouteAssumption
<1> QED BY <1>1, <1>2 DEF AttemptFails

LEMMA RouterType ==
  ASSUME TypeOK, NEW r \in Requests, RouterStep(r) PROVE TypeOK'
<1>1. ctx' \in [Requests -> Ctxs] /\ over' \in [Requests -> Nat]
  BY CallType DEF RouterStep, RouterProviderError, RouterOverBudget, RouterBadReply,
                  RouterReply
<1>2. \/ AttemptFails(r)
      \/ \E route \in VALID_ROUTES : Decide(r, route)
  BY RouteAssumption DEF RouterStep, RouterProviderError, RouterOverBudget,
                         RouterBadReply, RouterReply
<1>3. /\ decision' \in [Requests -> Routes] /\ node' \in [Requests -> NodeStates]
      /\ out' \in [Requests -> Seq({"route", "token", "output"})]
      /\ attempt' \in [Requests -> 0 .. MaxRetries]
  BY <1>2, AttemptFailsType, DecideType
<1>4. UNCHANGED <<streamVars, obsVars, agentVars, tokens, histVars, gone>>
  BY DEF RouterStep, RouterProviderError, RouterOverBudget, RouterBadReply,
         RouterReply, RouterAttempt
<1> QED BY <1>1, <1>3, <1>4 DEF TypeOK, streamVars, obsVars, agentVars, histVars

LEMMA StartAgentType ==
  ASSUME TypeOK, NEW r \in Requests, StartAgent(r) PROVE TypeOK'
<1> USE DEF StartAgent, TypeOK
<1>1. /\ node' \in [Requests -> NodeStates]
      /\ work' \in [Requests -> WorkStates]
  BY DEF NodeStates, WorkStates, FirstWork
<1>2. hist' \in [Sessions -> Seq(Requests)]
  OBVIOUS
<1> QED BY <1>1, <1>2 DEF streamVars, obsVars

LEMMA ReturnType ==
  ASSUME TypeOK, NEW r \in Requests, NEW o \in Outputs, Return(r, o)
  PROVE  /\ output' \in [Requests -> Outputs] /\ node' \in [Requests -> NodeStates]
         /\ out' \in [Requests -> Seq({"route", "token", "output"})]
         /\ UNCHANGED <<work, passes, over>>
  BY DEF Return, TypeOK, NodeStates

LEMMA DegradeType ==
  ASSUME TypeOK, NEW r \in Requests, Degrade(r)
  PROVE  TypeOK'
<1> DEFINE d == [ctx[r] EXCEPT !.degraded = TRUE]
<1>1. ctx[r] \in Ctxs /\ decision[r] \in Routes
  BY DEF TypeOK
<1>2. d \in Ctxs
  BY <1>1 DEF Ctxs
<1> HIDE DEF d
<1>3. [d EXCEPT !.timeouts = Append(@, decision[r])] \in Ctxs
  <2>1. Append(d.timeouts, decision[r]) \in Seq(Routes)
    BY <1>1, <1>2 DEF Ctxs
  <2> QED BY <1>2, <2>1 DEF Ctxs
<1>4. ctx' = [ctx EXCEPT ![r] = [d EXCEPT !.timeouts = Append(@, decision[r])]]
  BY <1>1 DEF d, Degrade, TypeOK, Ctxs
<1>5. ctx' \in [Requests -> Ctxs]
  BY <1>3, <1>4 DEF TypeOK
<1>6. /\ output' \in [Requests -> Outputs] /\ node' \in [Requests -> NodeStates]
      /\ out' \in [Requests -> Seq({"route", "token", "output"})]
      /\ UNCHANGED <<work, passes, over>>
  BY ReturnType DEF Degrade, Outputs
<1>7. UNCHANGED <<streamVars, obsVars, attempt, decision, tokens, histVars, gone>>
  BY DEF Degrade, Handling, Working
<1> QED BY <1>5, <1>6, <1>7 DEF TypeOK, streamVars, obsVars, histVars

LEMMA AgentType ==
  ASSUME TypeOK, NEW r \in Requests, AgentStep(r) \/ OutOfScope(r) \/ BudgetExpires(r)
  PROVE  TypeOK'
<1> DEFINE Rest == UNCHANGED <<streamVars, obsVars, attempt, decision, histVars, gone>>
<1> USE DEF streamVars, obsVars, agentVars, histVars
<1>1. CASE PlanByKeywords(r) \/ PlanByLLM(r)
  <2>1. ctx' \in [Requests -> Ctxs] /\ over' \in [Requests -> Nat]
    BY <1>1, CallType DEF PlanByKeywords, PlanByLLM
  <2>2. work' \in [Requests -> WorkStates]
    BY <1>1 DEF PlanByKeywords, PlanByLLM, Planned, TypeOK, WorkStates
  <2>3. Rest /\ UNCHANGED <<tokens, node, passes, output, out>>
    BY <1>1 DEF PlanByKeywords, PlanByLLM, Working
  <2> QED BY <2>1, <2>2, <2>3 DEF TypeOK
<1>2. CASE Synthesise(r) \/ SynthesiseOverBudget(r)
  <2>1. ctx' \in [Requests -> Ctxs] /\ over' \in [Requests -> Nat]
    BY <1>2, CallType DEF Synthesise, SynthesiseOverBudget
  <2>2. work' \in [Requests -> WorkStates] /\ node' \in [Requests -> NodeStates]
    BY <1>2 DEF Synthesise, SynthesiseOverBudget, TypeOK, WorkStates, NodeStates
  <2>3. Rest /\ UNCHANGED <<tokens, passes, output, out>>
    BY <1>2 DEF Synthesise, SynthesiseOverBudget, Working
  <2> QED BY <2>1, <2>2, <2>3 DEF TypeOK
<1>3. CASE Critique(r)
  <2>1. ctx' \in [Requests -> Ctxs] /\ over' \in [Requests -> Nat]
    BY <1>3, CallType DEF Critique
  <2>2. work' \in [Requests -> WorkStates] /\ passes' \in [Requests -> 0 .. MaxCritique]
    BY <1>3, BoundAssumption DEF Critique, TypeOK, WorkStates
  <2>3. Rest /\ UNCHANGED <<tokens, node, output, out>>
    BY <1>3 DEF Critique, Working
  <2> QED BY <2>1, <2>2, <2>3 DEF TypeOK
<1>4. CASE OutOfScope(r) \/ AgentReturns(r)
  <2>1. PICK o \in Outputs : Return(r, o)
    BY <1>4 DEF OutOfScope, AgentReturns, Outputs
  <2>2. Rest /\ UNCHANGED <<tokens, ctx>>
    BY <1>4 DEF OutOfScope, AgentReturns, Working
  <2>3. /\ output' \in [Requests -> Outputs] /\ node' \in [Requests -> NodeStates]
        /\ out' \in [Requests -> Seq({"route", "token", "output"})]
        /\ UNCHANGED <<work, passes, over>>
    BY <2>1, ReturnType
  <2> QED BY <2>2, <2>3 DEF TypeOK
<1>5. CASE BudgetExpires(r) \/ AgentRaisesTimeout(r)
  BY <1>5, DegradeType DEF BudgetExpires, AgentRaisesTimeout
<1>6. CASE AgentRaises(r)
  <2>1. node' \in [Requests -> NodeStates]
    BY <1>6 DEF AgentRaises, TypeOK, NodeStates
  <2>2. Rest /\ UNCHANGED <<tokens, ctx, over, work, passes, output, out>>
    BY <1>6 DEF AgentRaises, NotMade, Handling, Working
  <2> QED BY <2>1, <2>2 DEF TypeOK
<1>7. CASE EmitToken(r)
  <2>1. tokens' \in [Requests -> 0 .. MaxTokens]
    BY <1>7, BoundAssumption DEF EmitToken, TypeOK
  <2>2. out' \in [Requests -> Seq({"route", "token", "output"})]
    BY <1>7 DEF EmitToken, TypeOK
  <2> QED BY <1>7, <2>1, <2>2 DEF EmitToken, TypeOK
<1> QED BY <1>1, <1>2, <1>3, <1>4, <1>5, <1>6, <1>7 DEF AgentStep

LEMMA YieldType ==
  ASSUME TypeOK, NEW r \in Requests, NEW f \in Frames,
         NEW to \in GenStates, Yield(r, f, to)
  PROVE  gen' \in [Requests -> GenStates] /\ sent' \in [Requests -> Seq(Frames)]
  BY DEF Yield, TypeOK

LEMMA PullType ==
  ASSUME TypeOK, NEW r \in Requests, NEW event, Pull(r, event)
  PROVE  out' \in [Requests -> Seq({"route", "token", "output"})]
  BY DEF Pull, TypeOK

LEMMA LoopType ==
  ASSUME TypeOK, NEW r \in Requests,
         SendRoute(r) \/ SendToken(r) \/ SendResponse(r) \/ SkipEmpty(r) \/ Resume(r)
  PROVE  TypeOK'
<1> USE DEF streamVars, obsVars, runVars, agentVars, histVars
<1> DEFINE Rest == UNCHANGED <<obsVars, node, attempt, decision, agentVars, tokens,
                               histVars, over, gone>>
<1>1. CASE SendRoute(r)
  <2>1. Frame("route", decision[r]) \in Frames
    BY FrameType DEF TypeOK, FrameTypes
  <2>2. gen' \in [Requests -> GenStates] /\ sent' \in [Requests -> Seq(Frames)]
    BY <1>1, <2>1, YieldType DEF SendRoute, GenStates
  <2>3. ctx' \in [Requests -> Ctxs]
    <3>1. ctx[r] \in Ctxs /\ decision[r] \in Routes
      BY DEF TypeOK
    <3>2. [ctx[r] EXCEPT !.route = decision[r]] \in Ctxs
      BY <3>1 DEF Ctxs
    <3>3. ctx' = [ctx EXCEPT ![r] = [ctx[r] EXCEPT !.route = decision[r]]]
      BY <1>1 DEF SendRoute, TypeOK
    <3> QED BY <3>2, <3>3 DEF TypeOK
  <2>4. out' \in [Requests -> Seq({"route", "token", "output"})]
    BY <1>1, PullType DEF SendRoute
  <2>5. Rest /\ UNCHANGED finalAnswer
    BY <1>1 DEF SendRoute, Pull
  <2> QED BY <2>2, <2>3, <2>4, <2>5 DEF TypeOK
<1>2. CASE SendToken(r)
  <2>1. Frame("token", "") \in Frames
    BY FrameType DEF FrameTypes, Outputs
  <2>2. gen' \in [Requests -> GenStates] /\ sent' \in [Requests -> Seq(Frames)]
    BY <1>2, <2>1, YieldType DEF SendToken, GenStates
  <2>3. out' \in [Requests -> Seq({"route", "token", "output"})]
    BY <1>2, PullType DEF SendToken
  <2>4. Rest /\ UNCHANGED <<ctx, finalAnswer>>
    BY <1>2 DEF SendToken, Pull
  <2> QED BY <2>2, <2>3, <2>4 DEF TypeOK
<1>3. CASE SendResponse(r)
  <2>1. Frame("response", output[r]) \in Frames
    BY FrameType DEF TypeOK, FrameTypes
  <2>2. gen' \in [Requests -> GenStates] /\ sent' \in [Requests -> Seq(Frames)]
    BY <1>3, <2>1, YieldType DEF SendResponse, GenStates
  <2>3. finalAnswer' \in [Requests -> Outputs]
    BY <1>3 DEF SendResponse, TypeOK
  <2>4. out' \in [Requests -> Seq({"route", "token", "output"})]
    BY <1>3, PullType DEF SendResponse
  <2>5. Rest /\ UNCHANGED ctx
    BY <1>3 DEF SendResponse, Pull
  <2> QED BY <2>2, <2>3, <2>4, <2>5 DEF TypeOK
<1>4. CASE SkipEmpty(r)
  <2>1. out' \in [Requests -> Seq({"route", "token", "output"})]
    BY <1>4, PullType DEF SkipEmpty
  <2>2. Rest /\ UNCHANGED <<ctx, streamVars>>
    BY <1>4 DEF SkipEmpty, Pull
  <2> QED BY <2>1, <2>2 DEF TypeOK
<1>5. CASE Resume(r)
  <2>1. gen' \in [Requests -> GenStates]
    BY <1>5 DEF Resume, TypeOK, GenStates
  <2> QED BY <1>5, <2>1 DEF Resume, TypeOK
<1> QED BY <1>1, <1>2, <1>3, <1>4, <1>5

LEMMA GraphDoneType ==
  ASSUME TypeOK, NEW r \in Requests, GraphRaises(r) \/ GraphEnds(r) PROVE TypeOK'
<1> USE DEF streamVars, obsVars, runVars, agentVars, histVars
<1>1. CASE GraphRaises(r)
  <2>1. Frame("error", "") \in Frames
    BY FrameType DEF FrameTypes, Outputs
  <2>2. gen' \in [Requests -> GenStates] /\ sent' \in [Requests -> Seq(Frames)]
    BY <1>1, <2>1, YieldType DEF GraphRaises, GenStates
  <2>3. out' \in [Requests -> Seq({"route", "token", "output"})]
    <3>1. out' = [out EXCEPT ![r] = << >>]
      BY <1>1 DEF GraphRaises
    <3> QED BY <3>1 DEF TypeOK
  <2> QED BY <1>1, <2>2, <2>3 DEF GraphRaises, TypeOK
<1>2. CASE GraphEnds(r)
  <2>1. Frame("done", "") \in Frames
    BY FrameType DEF FrameTypes, Outputs
  <2>2. gen' \in [Requests -> GenStates] /\ sent' \in [Requests -> Seq(Frames)]
    BY <1>2, <2>1, YieldType DEF GraphEnds, GenStates
  <2>3. AddMessages(mem[r], <<r>>) \in Seq(Requests)
    BY AddMessagesType DEF TypeOK
  <2>4. mem' \in [Requests -> Seq(Requests)] /\ hist' \in [Sessions -> Seq(Requests)]
    BY <1>2, <2>3 DEF GraphEnds, TypeOK
  <2>5. committed' \in [Sessions -> Seq(Requests)]
    <3>1. Append(committed[SessionOf[r]], r) \in Seq(Requests)
      BY SessionAssumption DEF TypeOK
    <3>2. committed' = [committed EXCEPT ![SessionOf[r]] = Append(@, r)]
      BY <1>2 DEF GraphEnds
    <3> QED BY <3>1, <3>2 DEF TypeOK
  <2>6. UNCHANGED <<finalAnswer, obsVars, ctx, runVars, overlap, over, gone>>
    BY <1>2 DEF GraphEnds
  <2> QED BY <2>2, <2>4, <2>5, <2>6 DEF TypeOK
<1> QED BY <1>1, <1>2

LEMMA FlushType ==
  ASSUME TypeOK, NEW r \in Requests, Flush(r)
  PROVE  /\ cur' \in [Requests -> {"unset", "set", "cleared"}]
         /\ events' \in [Requests -> Seq(Rows)] /\ replays' \in [Requests -> Seq(Rows)]
<1>1. Row(r) \in Rows
  BY RowType
<1>2. <<Row(r)>> \in Seq(Rows)
  BY <1>1, OneElement
<1>3. events' \in [Requests -> Seq(Rows)]
  <2>1. Append(events[r], Row(r)) \in Seq(Rows)
    BY <1>1 DEF TypeOK
  <2> QED BY <2>1 DEF Flush, TypeOK
<1>4. replays' \in [Requests -> Seq(Rows)]
  BY <1>2 DEF Flush, TypeOK
<1>5. cur' \in [Requests -> {"unset", "set", "cleared"}]
  BY DEF Flush, TypeOK
<1> QED BY <1>3, <1>4, <1>5

LEMMA ClosingType ==
  ASSUME TypeOK, NEW r \in Requests,
         \/ Finish(r) \/ Disconnect(r) \/ Abandon(r)
         \/ CollectAtSession(r) \/ Collect(r) \/ Reap(r)
  PROVE  TypeOK'
<1> USE DEF streamVars, obsVars, runVars, agentVars, histVars
<1>1. CASE Abandon(r)
  <2>1. gen' \in [Requests -> GenStates] /\ gone' \in [Requests -> {"no", "await", "yield"}]
    BY <1>1 DEF Abandon, TypeOK, GenStates
  <2> QED BY <1>1, <2>1 DEF Abandon, TypeOK
<1>2. CASE Reap(r)
  <2>1. node' \in [Requests -> NodeStates]
    BY <1>2 DEF Reap, Stopped, TypeOK, NodeStates
  <2> QED BY <1>2, <2>1 DEF Reap, TypeOK
<1>3. CASE Finish(r) \/ Disconnect(r) \/ CollectAtSession(r) \/ Collect(r)
  <2>1. /\ gen' \in [Requests -> GenStates]
        /\ UNCHANGED <<finalAnswer, sent, ctx, attempt, decision, agentVars, out,
                       tokens, histVars, over>>
    BY <1>3 DEF Finish, Disconnect, CollectAtSession, Collect, Close, TypeOK, GenStates
  <2>2. Flush(r) \/ UNCHANGED obsVars
    BY <1>3 DEF Finish, Disconnect, CollectAtSession, Collect
  <2>3. /\ cur' \in [Requests -> {"unset", "set", "cleared"}]
        /\ events' \in [Requests -> Seq(Rows)] /\ replays' \in [Requests -> Seq(Rows)]
    BY <2>2, FlushType DEF TypeOK
  <2>4. /\ node' \in [Requests -> NodeStates]
        /\ gone' \in [Requests -> {"no", "await", "yield"}]
    BY <1>3 DEF Finish, Disconnect, CollectAtSession, Collect, Stopped, TypeOK, NodeStates
  <2> QED BY <2>1, <2>3, <2>4 DEF TypeOK
<1> QED BY <1>1, <1>2, <1>3

\* Every handler keeps the frames, rows, contexts, counters and histories of
\* all requests in their domains; the retry, critique and token counters are
\* within their caps (api/routes.py, graph/router.py, obs/base.py).
THEOREM TypeCorrect == Spec => []TypeOK
<1>1. TypeOK /\ [Next]_vars => TypeOK'
  <2> SUFFICES ASSUME TypeOK, [Next]_vars PROVE TypeOK'
    OBVIOUS
  <2>1. ASSUME NEW r \in Requests, GeneratorStep(r) PROVE TypeOK'
    BY <2>1, EnterGraphType, StartAgentType, LoopType, GraphDoneType, ClosingType
       DEF GeneratorStep
  <2>2. CASE UNCHANGED vars
    BY <2>2 DEF TypeOK, vars, streamVars, obsVars, runVars, agentVars, histVars
  <2> QED BY <2>1, <2>2, StartType, RouterType, AgentType, ClosingType DEF Next
<1> QED BY InitType, <1>1, PTL DEF Spec

-----------------------------------------------------------------------------
(* The end of a request: what becomes of its telemetry scope, and who may    *)
(* still spend after it.                                                     *)

\* The inductive invariant: where the ContextVar, the rows and the graph's
\* task are, for each suspension of the generator.
Life(r) ==
  /\ gen[r] = "idle" => cur[r] = "unset"
  /\ gen[r] \notin {"idle", "closed"} => cur[r] = "set"
  /\ gen[r] = "closed" => cur[r] # "unset"
  /\ cur[r] # "cleared" => events[r] = << >>
  /\ gen[r] \in {"idle", "session", "dropped_session"} => node[r] = "none"
  /\ gen[r] = "done" => node[r] = "ended"
  /\ gen[r] = "error" => node[r] = "failed"
  /\ gen[r] \in {"dropped", "dropped_session"} => gone[r] = "yield"
  /\ gen[r] = "closed" /\ cur[r] = "set" => gone[r] = "yield"
  /\ gen[r] = "closed" /\ node[r] \in {"router", "agent"} => gone[r] = "yield"
LifeInv == \A r \in Requests : Life(r)

\* The effect of a step of r on the variables Life(r) is about.
RunStep(r) == RouterStep(r) \/ AgentStep(r) \/ OutOfScope(r) \/ BudgetExpires(r)
              \/ StartAgent(r)

LEMMA RunStepFacts ==
  ASSUME TypeOK, NEW r \in Requests, RunStep(r)
  PROVE  /\ UNCHANGED <<streamVars, obsVars, gone>>
         /\ node[r] \in {"router", "routed", "agent"}
         /\ node[r] = "routed" => gen[r] = "pulling"
         /\ \E n : n # "none" /\ node' = [node EXCEPT ![r] = n]
<1> SUFFICES /\ UNCHANGED <<streamVars, obsVars, gone>>
             /\ node[r] \in {"router", "routed", "agent"}
             /\ node[r] = "routed" => gen[r] = "pulling"
             /\ node' = [node EXCEPT ![r] = node'[r]] /\ node'[r] # "none"
  OBVIOUS
<1> USE DEF TypeOK
<1>1. CASE RouterStep(r)
  <2>1. UNCHANGED <<streamVars, obsVars, gone>> /\ node[r] = "router"
    BY <1>1 DEF RouterStep, RouterProviderError, RouterOverBudget, RouterBadReply,
                RouterReply, RouterAttempt
  <2>2. UNCHANGED node \/ \E route \in VALID_ROUTES : Decide(r, route)
    BY <1>1, RouteAssumption
       DEF RouterStep, RouterProviderError, RouterOverBudget, RouterBadReply,
           RouterReply, AttemptFails
  <2> QED BY <2>1, <2>2 DEF Decide
<1>2. CASE StartAgent(r)
  BY <1>2 DEF StartAgent
<1>3. CASE EmitToken(r)
  BY <1>3 DEF EmitToken
<1>4. CASE PlanByKeywords(r) \/ PlanByLLM(r) \/ Synthesise(r) \/ Critique(r)
  BY <1>4 DEF PlanByKeywords, PlanByLLM, Synthesise, Critique, Working
<1>5. CASE SynthesiseOverBudget(r) \/ AgentRaises(r)
  BY <1>5 DEF SynthesiseOverBudget, AgentRaises, Handling, Working
<1>6. CASE OutOfScope(r) \/ AgentReturns(r)
  BY <1>6 DEF OutOfScope, AgentReturns, Working, Return
<1>7. CASE BudgetExpires(r) \/ AgentRaisesTimeout(r)
  BY <1>7 DEF BudgetExpires, AgentRaisesTimeout, Degrade, Handling, Working, Return
<1> QED BY <1>1, <1>2, <1>3, <1>4, <1>5, <1>6, <1>7 DEF RunStep, AgentStep

\* Steps of the loop only move the generator between its suspensions.
LoopStep(r) == SendRoute(r) \/ SendToken(r) \/ SendResponse(r) \/ SkipEmpty(r)
               \/ Resume(r)

LEMMA LoopStepFacts ==
  ASSUME TypeOK, NEW r \in Requests, LoopStep(r)
  PROVE  /\ UNCHANGED <<cur, events, node, gone>>
         /\ gen[r] \in {"pulling", "yielding"}
         /\ gen' = [gen EXCEPT ![r] = gen'[r]]
         /\ gen'[r] \in {"pulling", "yielding"}
<1> USE DEF TypeOK, streamVars, obsVars, runVars
<1>1. CASE SendRoute(r) \/ SendToken(r) \/ SendResponse(r)
  BY <1>1 DEF SendRoute, SendToken, SendResponse, Pull, Yield
<1>2. CASE SkipEmpty(r)
  BY <1>2 DEF SkipEmpty, Pull
<1>3. CASE Resume(r)
  BY <1>3 DEF Resume
<1> QED BY <1>1, <1>2, <1>3 DEF LoopStep

LEMMA LifeStep == ASSUME TypeOK, LifeInv, [Next]_vars PROVE LifeInv'
<1>0. /\ gen \in [Requests -> GenStates] /\ node \in [Requests -> NodeStates]
      /\ cur \in [Requests -> {"unset", "set", "cleared"}]
      /\ gone \in [Requests -> {"no", "await", "yield"}]
      /\ events \in [Requests -> Seq(Rows)]
  BY DEF TypeOK
<1> USE <1>0 DEF LifeInv, Life
<1>1. ASSUME NEW r \in Requests, Start(r) PROVE LifeInv'
  <2>1. /\ gen[r] = "idle" /\ gen' = [gen EXCEPT ![r] = "session"]
        /\ cur' = [cur EXCEPT ![r] = "set"] /\ UNCHANGED <<events, node, gone>>
    BY <1>1 DEF Start, runVars
  <2> QED BY <2>1
<1>2. ASSUME NEW r \in Requests, EnterGraph(r) PROVE LifeInv'
  <2>1. /\ gen[r] = "session" /\ gen' = [gen EXCEPT ![r] = "pulling"]
        /\ node' = [node EXCEPT ![r] = "router"] /\ UNCHANGED <<cur, events, gone>>
    BY <1>2 DEF EnterGraph, obsVars
  <2> QED BY <2>1
<1>3. ASSUME NEW r \in Requests, RunStep(r) PROVE LifeInv'
  <2>1. PICK n : n # "none" /\ node' = [node EXCEPT ![r] = n]
    BY <1>3, RunStepFacts
  <2>2. UNCHANGED <<gen, cur, events, gone>>
    BY <1>3, RunStepFacts DEF streamVars, obsVars
  <2>3. node[r] \in {"router", "routed", "agent"} /\ (node[r] = "routed" => gen[r] = "pulling")
    BY <1>3, RunStepFacts
  <2> QED BY <2>1, <2>2, <2>3
<1>4. ASSUME NEW r \in Requests, LoopStep(r) PROVE LifeInv'
  BY <1>4, LoopStepFacts
<1>5. ASSUME NEW r \in Requests, GraphRaises(r) \/ GraphEnds(r) PROVE LifeInv'
  <2>1. /\ gen[r] = "pulling" /\ UNCHANGED <<cur, events, node, gone>>
        /\ \/ node[r] = "failed" /\ gen' = [gen EXCEPT ![r] = "error"]
           \/ node[r] = "ended" /\ gen' = [gen EXCEPT ![r] = "done"]
    BY <1>5 DEF GraphRaises, GraphEnds, Yield, obsVars, runVars
  <2> QED BY <2>1
<1>6. ASSUME NEW r \in Requests, Finish(r) PROVE LifeInv'
  <2>1. /\ gen[r] \in {"done", "error"} /\ gen' = [gen EXCEPT ![r] = "closed"]
        /\ cur' = [cur EXCEPT ![r] = "cleared"]
        /\ \A q \in Requests \ {r} : events'[q] = events[q]
        /\ UNCHANGED <<node, gone>>
    BY <1>6 DEF Finish, Flush, Close
  <2> QED BY <2>1
<1>7. ASSUME NEW r \in Requests, Disconnect(r) PROVE LifeInv'
  <2>1. /\ gen[r] = "pulling" /\ gen' = [gen EXCEPT ![r] = "closed"]
        /\ cur' = [cur EXCEPT ![r] = "cleared"]
        /\ \A q \in Requests \ {r} : events'[q] = events[q]
        /\ gone' = [gone EXCEPT ![r] = "await"]
    BY <1>7 DEF Disconnect, Flush, Close
  <2>2. node' = [node EXCEPT ![r] = Stopped(@)]
    BY <1>7 DEF Disconnect
  <2>3. Stopped(node[r]) \notin {"router", "agent"}
    BY DEF Stopped
  <2> QED BY <2>1, <2>2, <2>3
<1>8. ASSUME NEW r \in Requests, Abandon(r) PROVE LifeInv'
  BY <1>8 DEF Abandon, obsVars, runVars
<1>9. ASSUME NEW r \in Requests, CollectAtSession(r) PROVE LifeInv'
  BY <1>9 DEF CollectAtSession, Close, obsVars
<1>10. ASSUME NEW r \in Requests, Collect(r) PROVE LifeInv'
  <2>1. /\ gen[r] = "dropped" /\ gen' = [gen EXCEPT ![r] = "closed"]
        /\ cur' = [cur EXCEPT ![r] = "cleared"] \/ UNCHANGED <<cur, events>>
        /\ \A q \in Requests \ {r} : events'[q] = events[q]
        /\ UNCHANGED <<node, gone>>
    BY <1>10 DEF Collect, Flush, Close, obsVars
  <2> QED BY <2>1
<1>11. ASSUME NEW r \in Requests, Reap(r) PROVE LifeInv'
  BY <1>11 DEF Reap, Stopped, streamVars, obsVars
<1>12. CASE UNCHANGED vars
  BY <1>12 DEF vars, streamVars, obsVars, runVars
<1> QED BY <1>1, <1>2, <1>3, <1>4, <1>5, <1>6, <1>7, <1>8, <1>9, <1>10, <1>11, <1>12
        DEF Next, GeneratorStep, RunStep, LoopStep

LEMMA LifeAlways == Spec => []LifeInv
<1>1. Init => LifeInv
  <2> SUFFICES ASSUME Init, NEW r \in Requests PROVE Life(r)
    BY DEF LifeInv
  <2>1. gen[r] = "idle" /\ cur[r] = "unset" /\ events[r] = << >> /\ node[r] = "none"
    BY DEF Init
  <2> QED BY <2>1 DEF Life
<1> QED BY <1>1, LifeStep, TypeCorrect, PTL DEF Spec

-----------------------------------------------------------------------------
(* The theorems. *)

\* For any number of concurrent requests, only a client that left while the
\* transport held a frame can cost a request its row (api/routes.py:47-82).
THEOREM OnlyYieldLosesRows == Spec => []LostOnlyAtYield
<1>1. LifeInv => LostOnlyAtYield
  BY DEF LifeInv, Life, LostOnlyAtYield
<1> QED BY <1>1, LifeAlways, PTL

\* A RequestCtx whose row was written by a stream that ended, failed or was
\* cancelled in the graph's work is never charged again (obs/base.py:73-103).
THEOREM SpendEndsWithStream == Spec => LateSpendOnlyIfAbandoned
<1> DEFINE A == \A r \in Requests :
                  gen[r] = "closed" /\ ctx'[r] # ctx[r] => gone[r] = "yield"
<1>1. TypeOK /\ LifeInv /\ [Next]_vars => [A]_vars
  <2> SUFFICES ASSUME TypeOK, LifeInv, [Next]_vars PROVE A
    BY DEF A
  <2>1. ASSUME NEW r \in Requests, ctx'[r] # ctx[r], gen[r] = "closed"
        PROVE  node[r] \in {"router", "agent"}
    <3> USE DEF TypeOK
    <3>1. ASSUME NEW q \in Requests, RunStep(q)
          PROVE  \/ /\ node[q] \in {"router", "agent"}
                    /\ ctx' = [ctx EXCEPT ![q] = ctx'[q]]
                 \/ UNCHANGED ctx
      <4>1. CASE RouterStep(q)
        BY <4>1 DEF RouterStep, RouterProviderError, RouterOverBudget, RouterBadReply,
                    RouterReply, RouterAttempt, NotMade, Accepted, Refused
      <4>2. CASE StartAgent(q) \/ EmitToken(q)
        BY <4>2 DEF StartAgent, EmitToken
      <4>3. CASE PlanByKeywords(q) \/ PlanByLLM(q) \/ Synthesise(q) \/ Critique(q)
                   \/ SynthesiseOverBudget(q)
        BY <4>3 DEF PlanByKeywords, PlanByLLM, Synthesise, Critique,
                    SynthesiseOverBudget, Working, NotMade, Accepted, Refused
      <4>4. CASE OutOfScope(q) \/ AgentReturns(q) \/ AgentRaises(q)
        BY <4>4 DEF OutOfScope, AgentReturns, AgentRaises, NotMade
      <4>5. CASE BudgetExpires(q) \/ AgentRaisesTimeout(q)
        BY <4>5 DEF BudgetExpires, AgentRaisesTimeout, Degrade, Handling, Working
      <4> QED BY <3>1, <4>1, <4>2, <4>3, <4>4, <4>5 DEF RunStep, AgentStep
    <3>2. ASSUME NEW q \in Requests, Start(q) \/ SendRoute(q)
          PROVE  ctx' = [ctx EXCEPT ![q] = ctx'[q]] /\ gen[q] # "closed"
      BY <3>2 DEF Start, SendRoute, Pull
    <3>3. ASSUME NEW q \in Requests,
                 \/ EnterGraph(q) \/ SendToken(q) \/ SendResponse(q) \/ SkipEmpty(q)
                 \/ Resume(q) \/ GraphRaises(q) \/ GraphEnds(q) \/ Finish(q)
                 \/ CollectAtSession(q) \/ Collect(q) \/ Reap(q)
                 \/ Disconnect(q) \/ Abandon(q)
          PROVE  UNCHANGED ctx
      BY <3>3 DEF EnterGraph, SendToken, SendResponse, SkipEmpty, Resume, GraphRaises,
                  GraphEnds, Finish, CollectAtSession, Collect, Reap, Disconnect,
                  Abandon, Close
    <3>4. UNCHANGED vars => UNCHANGED ctx
      BY DEF vars
    <3> QED BY <2>1, <3>1, <3>2, <3>3, <3>4 DEF Next, GeneratorStep, RunStep
  <2> QED BY <2>1 DEF LifeInv, Life
<1> QED BY <1>1, TypeCorrect, LifeAlways, PTL DEF Spec, LateSpendOnlyIfAbandoned

\* The generator's use of src/obs implements RequestScope: each scope opens
\* once and ends at most once, with at most one row (obs/base.py:46-103).
THEOREM ImplementsRequestScope == Spec => KeepsScope
<1>1. Init => Scope!Init
  <2> SUFFICES ASSUME Init PROVE Scope!Init
    OBVIOUS
  <2>1. cur = [r \in Requests |-> "unset"] /\ events = [r \in Requests |-> << >>]
    BY DEF Init
  <2>2. Phase = [r \in Requests |-> "none"]
    BY <2>1 DEF Phase
  <2> QED BY <2>1, <2>2 DEF Scope!Init
<1>2. TypeOK /\ LifeInv /\ [Next]_vars => [Scope!Next]_(Scope!vars)
  <2> SUFFICES ASSUME TypeOK, LifeInv, [Next]_vars PROVE [Scope!Next]_(Scope!vars)
    OBVIOUS
  <2> USE DEF TypeOK, LifeInv, Life
  <2>1. ASSUME NEW r \in Requests, Start(r) PROVE Scope!Open(r)
    <3>1. Phase[r] = "none" /\ UNCHANGED events
      BY <2>1 DEF Start, Phase
    <3>2. Phase' = [Phase EXCEPT ![r] = "open"]
      BY <2>1 DEF Start, Phase
    <3> QED BY <3>1, <3>2 DEF Scope!Open
  <2>2. ASSUME NEW r \in Requests, Flush(r), gen[r] # "closed",
               gen' = [gen EXCEPT ![r] = "closed"]
        PROVE  Scope!Finish(r)
    <3>1. Phase[r] = "open" /\ Phase' = [Phase EXCEPT ![r] = "finished"]
      BY <2>2 DEF Flush, Phase
    <3>2. Row(r) \in Rows /\ events[r] = << >>
      BY <2>2, RowType DEF Flush
    <3>3. events'[r] = << >> \/ events'[r] = <<Row(r)>>
      BY <2>2, <3>2 DEF Flush
    <3>4. Scope!AtMostOneRow(events'[r])
      <4>1. Len(<<Row(r)>>) = 1 /\ <<Row(r)>>[1] = Row(r)
        OBVIOUS
      <4> QED BY <3>2, <3>3, <4>1 DEF Scope!AtMostOneRow
    <3>5. events' = [events EXCEPT ![r] = events'[r]]
      BY <2>2 DEF Flush
    <3> QED BY <3>1, <3>4, <3>5 DEF Scope!Finish
  <2>3. ASSUME NEW r \in Requests, gen[r] \in {"dropped", "dropped_session"},
               UNCHANGED obsVars, gen' = [gen EXCEPT ![r] = "closed"]
        PROVE  Scope!Lose(r)
    <3>1. Phase[r] = "open" /\ Phase' = [Phase EXCEPT ![r] = "lost"]
      BY <2>3 DEF Phase, obsVars
    <3> QED BY <2>3, <3>1 DEF Scope!Lose, obsVars
  <2>4. ASSUME UNCHANGED <<cur, events>>,
               \A q \in Requests : (gen'[q] = "closed") <=> (gen[q] = "closed")
        PROVE  UNCHANGED Scope!vars
    BY <2>4 DEF Scope!vars, Phase
  <2>5. ASSUME NEW r \in Requests, Finish(r) \/ Disconnect(r)
        PROVE  Scope!Finish(r)
    BY <2>5, <2>2 DEF Finish, Disconnect, Close
  <2>6. ASSUME NEW r \in Requests, CollectAtSession(r) \/ Collect(r)
        PROVE  Scope!Finish(r) \/ Scope!Lose(r)
    BY <2>6, <2>2, <2>3 DEF CollectAtSession, Collect, Close
  <2>7. ASSUME NEW r \in Requests, RunStep(r) PROVE UNCHANGED Scope!vars
    BY <2>7, <2>4, RunStepFacts DEF streamVars, obsVars
  <2>8. ASSUME NEW r \in Requests, LoopStep(r) PROVE UNCHANGED Scope!vars
    BY <2>8, <2>4, LoopStepFacts
  <2>9. ASSUME NEW r \in Requests,
               EnterGraph(r) \/ GraphRaises(r) \/ GraphEnds(r) \/ Abandon(r) \/ Reap(r)
        PROVE  UNCHANGED Scope!vars
    BY <2>9, <2>4 DEF EnterGraph, GraphRaises, GraphEnds, Abandon, Reap, Yield,
                      streamVars, obsVars
  <2>10. CASE UNCHANGED vars
    BY <2>10, <2>4 DEF vars, streamVars, obsVars
  <2> QED BY <2>1, <2>5, <2>6, <2>7, <2>8, <2>9, <2>10
          DEF Next, GeneratorStep, RunStep, LoopStep, Scope!Next
<1> QED BY <1>1, <1>2, TypeCorrect, LifeAlways, PTL DEF Spec, KeepsScope, Scope!Spec

-----------------------------------------------------------------------------
(* Money: how far a request outruns its cost cap.                            *)

P == IF PlannerLLM THEN 1 ELSE 0

\* The inductive invariant: the calls that may have raised BudgetExceeded by
\* the time the run is at each of its stages.  Costs never shrink, so a request
\* with an overrun stays over its cap, and no later synthesis is accepted.
Money(r) == /\ over[r] > 0 => OverCap(ctx[r])
            /\ Cap # 0 => ctx[r].cost <= Cap + over[r] * MaxCost
Purse(r) ==
  /\ Money(r)
  /\ over[r] <= MaxOverruns
  /\ node[r] = "none" => over[r] = 0 /\ attempt[r] = 0
  /\ node[r] = "router" => over[r] <= attempt[r]
  /\ node[r] \in {"none", "router", "routed"} => work[r] = "none"
  /\ node[r] = "routed" \/ work[r] \in {"plan", "scope"} => over[r] <= MaxRetries + 1
  /\ work[r] \in {"gather", "react"} /\ node[r] = "agent" => over[r] <= MaxRetries + 1 + P
  /\ work[r] = "synthesised" => ~OverCap(ctx[r])
  /\ gen[r] \in {"idle", "session", "dropped_session"} => node[r] = "none"
CostInv == \A r \in Requests : Purse(r)

\* The functions Purse looks at, and their values at one request.
CostTypes ==
  /\ gen \in [Requests -> GenStates] /\ node \in [Requests -> NodeStates]
  /\ work \in [Requests -> WorkStates] /\ attempt \in [Requests -> 0 .. MaxRetries]
  /\ over \in [Requests -> Nat] /\ ctx \in [Requests -> Ctxs]
  /\ decision \in [Requests -> Routes]

LEMMA TypesOfCost == TypeOK => CostTypes
  BY DEF TypeOK, CostTypes

\* Only the request that moves moves its purse.
Others(r) == \A q \in Requests \ {r} :
  /\ gen'[q] = gen[q] /\ node'[q] = node[q] /\ work'[q] = work[q]
  /\ attempt'[q] = attempt[q] /\ over'[q] = over[q] /\ ctx'[q] = ctx[q]

LEMMA OthersKept ==
  ASSUME CostInv, NEW r \in Requests, Others(r), Purse(r)'
  PROVE  CostInv'
<1> SUFFICES ASSUME NEW q \in Requests PROVE Purse(q)'
  BY DEF CostInv
<1>1. CASE q = r
  BY <1>1
<1>2. CASE q # r
  BY <1>2 DEF CostInv, Purse, Money, Others, OverCap
<1> QED BY <1>1, <1>2

\* What a costed call does to the purse.
LEMMA ChargeFacts ==
  ASSUME CostTypes, NEW r \in Requests, NEW usd \in 0 .. MaxCost,
         ctx' = [ctx EXCEPT ![r] = Charge(@, usd)]
  PROVE  /\ ctx'[r] = Charge(ctx[r], usd)
         /\ ctx'[r].cost \in Nat /\ ctx[r].cost \in Nat
         /\ ctx'[r].cost >= ctx[r].cost /\ ctx'[r].cost <= ctx[r].cost + MaxCost
         /\ \A q \in Requests \ {r} : ctx'[q] = ctx[q]
<1>1. ctx[r] \in Ctxs /\ ctx[r].cost \in Nat
  BY DEF CostTypes, Ctxs
<1>2. ctx'[r] = Charge(ctx[r], usd) /\ \A q \in Requests \ {r} : ctx'[q] = ctx[q]
  BY DEF CostTypes
<1>3. Charge(ctx[r], usd).cost = ctx[r].cost + usd
  BY <1>1, ChargeType
<1> QED BY <1>1, <1>2, <1>3, BoundAssumption

LEMMA AcceptedFacts ==
  ASSUME CostTypes, NEW r \in Requests, Accepted(r)
  PROVE  /\ \A q \in Requests \ {r} : ctx'[q] = ctx[q]
         /\ ctx[r].cost \in Nat /\ ctx'[r].cost \in Nat /\ ctx'[r].cost >= ctx[r].cost
         /\ UNCHANGED over
         /\ ~OverCap(ctx'[r])
<1>1. PICK usd \in 0 .. MaxCost :
        /\ ctx' = [ctx EXCEPT ![r] = Charge(@, usd)]
        /\ ~OverCap(Charge(ctx[r], usd))
        /\ UNCHANGED over
  BY DEF Accepted
<1> QED BY <1>1, ChargeFacts

LEMMA RefusedFacts ==
  ASSUME CostTypes, NEW r \in Requests, Refused(r)
  PROVE  /\ \A q \in Requests \ {r} : ctx'[q] = ctx[q]
         /\ ctx[r].cost \in Nat /\ ctx'[r].cost \in Nat
         /\ ctx'[r].cost >= ctx[r].cost /\ ctx'[r].cost <= ctx[r].cost + MaxCost
         /\ over' = [over EXCEPT ![r] = @ + 1]
         /\ OverCap(ctx'[r])
<1>1. PICK usd \in 0 .. MaxCost :
        /\ ctx' = [ctx EXCEPT ![r] = Charge(@, usd)]
        /\ OverCap(Charge(ctx[r], usd))
        /\ over' = [over EXCEPT ![r] = @ + 1]
  BY DEF Refused
<1> QED BY <1>1, ChargeFacts

\* One overrun more pays for one call more.
LEMMA OneMore ==
  ASSUME NEW n \in Nat, NEW k \in Nat
  PROVE  (n + 1) * k = n * k + k /\ n * k \in Nat
  OBVIOUS

\* The part of the purse that is about money is kept by every call.
LEMMA MoneyKept ==
  ASSUME CostTypes, NEW r \in Requests, Money(r), Accepted(r) \/ Refused(r) \/ NotMade
  PROVE  Money(r)'
<1>0. /\ over[r] \in Nat /\ MaxCost \in Nat /\ Cap \in Nat
      /\ over[r] * MaxCost \in Nat
  BY BoundAssumption, OneMore DEF CostTypes
<1>1. CASE NotMade
  BY <1>1 DEF NotMade, Money, OverCap
<1>2. CASE Accepted(r)
  <2>1. over'[r] = over[r] /\ ctx[r].cost \in Nat /\ ctx'[r].cost \in Nat
        /\ ctx'[r].cost >= ctx[r].cost /\ ~OverCap(ctx'[r])
    BY <1>2, AcceptedFacts
  <2>2. over'[r] = 0
    BY <1>0, <2>1 DEF Money, OverCap
  <2>3. Cap # 0 => ctx'[r].cost <= Cap
    BY <1>0, <2>1 DEF OverCap
  <2> QED BY <1>0, <2>1, <2>2, <2>3 DEF Money
<1>3. CASE Refused(r)
  <2>1. over'[r] = over[r] + 1
    BY <1>3, RefusedFacts DEF CostTypes
  <2>2. /\ ctx[r].cost \in Nat /\ ctx'[r].cost \in Nat
        /\ ctx'[r].cost <= ctx[r].cost + MaxCost /\ OverCap(ctx'[r])
    BY <1>3, RefusedFacts
  <2>3. over'[r] * MaxCost = over[r] * MaxCost + MaxCost
    BY <1>0, <2>1, OneMore
  <2>4. Cap # 0 => ctx'[r].cost <= Cap + over'[r] * MaxCost
    <3>1. Cap # 0 => ctx[r].cost <= Cap + over[r] * MaxCost
      BY DEF Money
    <3> DEFINE m == over[r] * MaxCost
    <3>2. m \in Nat /\ over'[r] * MaxCost = m + MaxCost
      BY <1>0, <2>3
    <3>3. Cap # 0 => ctx[r].cost <= Cap + m
      BY <3>1
    <3> HIDE DEF m
    <3> QED BY <1>0, <2>2, <3>2, <3>3
  <2> QED BY <2>2, <2>4 DEF Money
<1> QED BY <1>1, <1>2, <1>3

LEMMA RouterPurse ==
  ASSUME CostTypes, CostInv, NEW r \in Requests, RouterStep(r)
  PROVE  CostInv'
<1>1. /\ node[r] = "router"
      /\ UNCHANGED <<gen, work>>
      /\ Accepted(r) \/ Refused(r) \/ NotMade
      /\ AttemptFails(r) \/ (Accepted(r) /\ \E route \in VALID_ROUTES : Decide(r, route))
  BY RouteAssumption
     DEF RouterStep, RouterProviderError, RouterOverBudget, RouterBadReply, RouterReply,
         RouterAttempt, streamVars, agentVars
<1>2. /\ \A q \in Requests \ {r} : ctx'[q] = ctx[q] /\ over'[q] = over[q]
      /\ over'[r] = over[r] \/ over'[r] = over[r] + 1
      /\ Accepted(r) => over'[r] = over[r]
  BY <1>1, AcceptedFacts, RefusedFacts DEF NotMade, CostTypes
<1>3. /\ \A q \in Requests \ {r} : node'[q] = node[q] /\ attempt'[q] = attempt[q]
      /\ \/ /\ node'[r] = "router" /\ attempt'[r] = attempt[r] + 1
         \/ /\ node'[r] \in {"routed", "failed"} /\ attempt'[r] = attempt[r]
  <2>1. \/ /\ attempt' = [attempt EXCEPT ![r] = @ + 1]
           /\ UNCHANGED node
        \/ /\ UNCHANGED attempt
           /\ node' = [node EXCEPT ![r] = node'[r]]
           /\ node'[r] \in {"routed", "failed"}
    BY <1>1 DEF AttemptFails, Decide, CostTypes
  <2> QED BY <1>1, <2>1 DEF CostTypes
<1>4. Others(r)
  BY <1>1, <1>2, <1>3 DEF Others
<1>5. Purse(r)'
  <2>1. Money(r)'
    BY <1>1, MoneyKept DEF CostInv, Purse
  <2>2. over[r] <= attempt[r] /\ attempt[r] \in 0 .. MaxRetries /\ over[r] \in Nat
        /\ work[r] = "none" /\ gen[r] \notin {"idle", "session", "dropped_session"}
    BY <1>1 DEF CostInv, Purse, CostTypes
  <2>3. work'[r] = "none" /\ gen'[r] = gen[r]
    BY <1>1, <2>2
  <2> QED BY <1>2, <1>3, <2>1, <2>2, <2>3, BoundAssumption DEF Purse, MaxOverruns
<1> QED BY <1>4, <1>5, OthersKept

\* What the agent's steps leave alone.
Steady(r) ==
  /\ node[r] = "agent" /\ UNCHANGED <<gen, attempt>>
  /\ \A q \in Requests \ {r} : node'[q] = node[q] /\ work'[q] = work[q]

LEMMA AgentPurse ==
  ASSUME CostTypes, CostInv, NEW r \in Requests,
         AgentStep(r) \/ OutOfScope(r) \/ BudgetExpires(r)
  PROVE  CostInv'
<1> USE BoundAssumption
<1>0. /\ Purse(r) /\ over[r] \in Nat /\ ctx[r].cost \in Nat /\ P \in {0, 1}
      /\ P = 1 <=> PlannerLLM
      /\ MaxOverruns = MaxRetries + 2 + P
  BY SwitchAssumption DEF CostInv, CostTypes, Ctxs, P, MaxOverruns
<1>1. ASSUME Steady(r), Accepted(r) \/ Refused(r) \/ NotMade
      PROVE  Others(r) /\ Money(r)'
  <2>1. \A q \in Requests \ {r} : ctx'[q] = ctx[q] /\ over'[q] = over[q]
    BY <1>1, AcceptedFacts, RefusedFacts DEF NotMade, CostTypes
  <2> QED BY <1>0, <1>1, <2>1, MoneyKept DEF Others, Steady, Purse
<1>2. CASE PlanByKeywords(r) \/ PlanByLLM(r)
  <2>1. /\ Steady(r) /\ work[r] = "plan" /\ UNCHANGED node
        /\ work'[r] \in {"gather", "react"}
        /\ NotMade \/ (PlannerLLM /\ (Accepted(r) \/ Refused(r)))
    BY <1>2 DEF PlanByKeywords, PlanByLLM, Planned, Working, Steady, streamVars, CostTypes
  <2>2. over'[r] = over[r] \/ (PlannerLLM /\ over'[r] = over[r] + 1)
    BY <2>1, AcceptedFacts, RefusedFacts DEF NotMade, CostTypes
  <2>3. Purse(r)'
    BY <1>0, <1>1, <2>1, <2>2 DEF Purse, Steady
  <2> QED BY <1>1, <2>1, <2>3, OthersKept
<1>3. CASE Synthesise(r)
  <2>1. /\ Steady(r) /\ work'[r] = "synthesised" /\ UNCHANGED node /\ Accepted(r)
    BY <1>3 DEF Synthesise, Working, Steady, streamVars, CostTypes
  <2>2. over'[r] = over[r] /\ ~OverCap(ctx'[r])
    BY <2>1, AcceptedFacts
  <2>3. Purse(r)'
    BY <1>0, <1>1, <2>1, <2>2 DEF Purse, Steady
  <2> QED BY <1>1, <2>1, <2>3, OthersKept
<1>4. CASE SynthesiseOverBudget(r)
  <2>1. /\ Steady(r) /\ work[r] = "gather" /\ UNCHANGED work
        /\ node'[r] = "failed" /\ Refused(r)
    BY <1>4 DEF SynthesiseOverBudget, Working, Steady, streamVars, CostTypes
  <2>2. over'[r] = over[r] + 1
    BY <2>1, RefusedFacts DEF CostTypes
  <2>3. Purse(r)'
    BY <1>0, <1>1, <2>1, <2>2 DEF Purse, Steady
  <2> QED BY <1>1, <2>1, <2>3, OthersKept
<1>5. CASE Critique(r)
  <2>1. /\ Steady(r) /\ work[r] = "synthesised" /\ work'[r] = "gather" /\ UNCHANGED node
        /\ NotMade \/ Accepted(r) \/ Refused(r)
    BY <1>5 DEF Critique, Working, Steady, streamVars, CostTypes
  <2>2. over[r] = 0
    BY <1>0, <2>1 DEF Purse, Money
  <2>3. over'[r] <= 1 /\ over'[r] \in Nat
    BY <2>1, <2>2, AcceptedFacts, RefusedFacts DEF NotMade, CostTypes
  <2>4. Purse(r)'
    BY <1>0, <1>1, <2>1, <2>3 DEF Purse, Steady
  <2> QED BY <1>1, <2>1, <2>4, OthersKept
<1>6. ASSUME Steady(r), UNCHANGED <<work, over>>, ctx'[r].cost = ctx[r].cost,
             \A q \in Requests \ {r} : ctx'[q] = ctx[q],
             node'[r] \in {"agent", "ended", "failed"}
      PROVE  CostInv'
  <2>1. Others(r)
    BY <1>6 DEF Others, Steady
  <2>2. Purse(r)'
    BY <1>0, <1>6 DEF Purse, Money, OverCap, Steady
  <2> QED BY <2>1, <2>2, OthersKept
<1>7. CASE OutOfScope(r) \/ AgentReturns(r) \/ AgentRaises(r) \/ EmitToken(r)
  <2>1. /\ Steady(r) /\ UNCHANGED <<work, over, ctx>>
        /\ node'[r] \in {"agent", "ended", "failed"}
    BY <1>7 DEF OutOfScope, AgentReturns, AgentRaises, EmitToken, NotMade, Handling,
                Return, Working, Steady, streamVars, agentVars, CostTypes
  <2> QED BY <2>1, <1>6
<1>8. CASE BudgetExpires(r) \/ AgentRaisesTimeout(r)
  <2>1. /\ Steady(r) /\ UNCHANGED <<work, over>> /\ node'[r] = "ended"
        /\ ctx' = [ctx EXCEPT ![r].degraded = TRUE,
                              ![r].timeouts = Append(@, decision[r])]
    BY <1>8 DEF BudgetExpires, AgentRaisesTimeout, Degrade, Handling, Return, Working,
                Steady, streamVars, CostTypes
  <2>2. /\ ctx'[r].cost = ctx[r].cost
        /\ \A q \in Requests \ {r} : ctx'[q] = ctx[q]
    BY <2>1 DEF CostTypes, Ctxs
  <2> QED BY <2>1, <2>2, <1>6
<1> QED BY <1>2, <1>3, <1>4, <1>5, <1>7, <1>8 DEF AgentStep

\* The generator's own steps never spend; a new scope starts with nothing spent.
LEMMA GeneratorPurse ==
  ASSUME CostTypes, CostInv, NEW r \in Requests,
         Start(r) \/ GeneratorStep(r) \/ Disconnect(r) \/ Abandon(r)
  PROVE  CostInv'
<1> USE DEF CostTypes
<1>0. /\ Purse(r) /\ over[r] \in Nat /\ MaxRetries \in Nat /\ Cap \in Nat
      /\ MaxOverruns \in Nat
  BY BoundAssumption, SwitchAssumption DEF CostInv, MaxOverruns
<1>1. CASE Start(r)
  <2>1. /\ gen[r] = "idle" /\ UNCHANGED <<node, work, attempt, over>>
        /\ \A q \in Requests \ {r} : gen'[q] = gen[q] /\ ctx'[q] = ctx[q]
        /\ gen'[r] = "session" /\ ctx'[r] = NewCtx
    BY <1>1 DEF Start, runVars, agentVars
  <2>2. node[r] = "none" /\ over[r] = 0 /\ work[r] = "none"
    BY <1>0, <2>1 DEF Purse
  <2>3. NewCtx.cost = 0 /\ 0 * MaxCost = 0
    BY BoundAssumption DEF NewCtx
  <2>4. ~OverCap(NewCtx) /\ (Cap # 0 => NewCtx.cost <= Cap + 0 * MaxCost)
    BY <1>0, <2>3 DEF OverCap
  <2>5. Others(r)
    BY <2>1 DEF Others
  <2>6. Purse(r)'
    BY <1>0, <2>1, <2>2, <2>4 DEF Purse, Money
  <2> QED BY <2>5, <2>6, OthersKept
<1>2. ASSUME UNCHANGED <<attempt, over>>,
             \A q \in Requests \ {r} : /\ gen'[q] = gen[q] /\ node'[q] = node[q]
                                       /\ work'[q] = work[q] /\ ctx'[q] = ctx[q],
             ctx'[r].cost = ctx[r].cost,
             gen'[r] \in {"idle", "session", "dropped_session"} => node'[r] = "none",
             \/ node'[r] = node[r] /\ work'[r] = work[r]
             \/ node'[r] = "cancelled" /\ work'[r] = work[r]
             \/ node[r] = "none" /\ node'[r] = "router" /\ work'[r] = work[r]
             \/ node[r] = "routed" /\ node'[r] = "agent"
                  /\ work'[r] \in {"scope", "react", "plan"}
      PROVE  CostInv'
  <2>1. Others(r)
    BY <1>2 DEF Others
  <2>2. Money(r)'
    BY <1>0, <1>2 DEF Purse, Money, OverCap
  <2>3. attempt[r] \in Nat /\ P \in {0, 1}
    BY BoundAssumption DEF P
  <2>4. Purse(r)'
    BY <1>0, <1>2, <2>2, <2>3 DEF Purse, OverCap
  <2> QED BY <2>1, <2>4, OthersKept
<1>3. CASE EnterGraph(r)
  BY <1>0, <1>2, <1>3 DEF EnterGraph, agentVars, Purse
<1>4. CASE StartAgent(r)
  <2>1. FirstWork(decision[r]) \in {"scope", "react", "plan"}
    BY DEF FirstWork
  <2> QED BY <1>2, <1>4, <2>1 DEF StartAgent, streamVars
<1>5. CASE SendRoute(r)
  <2>1. ctx' = [ctx EXCEPT ![r].route = decision[r]]
    BY <1>5 DEF SendRoute
  <2>2. ctx'[r].cost = ctx[r].cost /\ \A q \in Requests \ {r} : ctx'[q] = ctx[q]
    BY <2>1 DEF Ctxs
  <2>3. /\ UNCHANGED <<attempt, over, node, work>> /\ gen'[r] = "yielding"
        /\ \A q \in Requests \ {r} : gen'[q] = gen[q]
    BY <1>5 DEF SendRoute, Pull, Yield, agentVars
  <2> QED BY <1>2, <2>2, <2>3
<1>6. CASE SendToken(r) \/ SendResponse(r) \/ SkipEmpty(r) \/ Resume(r)
             \/ GraphRaises(r) \/ GraphEnds(r)
  <2>1. /\ UNCHANGED <<attempt, over, node, work, ctx>>
        /\ gen'[r] \in {"pulling", "yielding", "error", "done"}
        /\ \A q \in Requests \ {r} : gen'[q] = gen[q]
    BY <1>6 DEF SendToken, SendResponse, SkipEmpty, Resume, GraphRaises, GraphEnds,
                Pull, Yield, agentVars, runVars, streamVars
  <2> QED BY <1>2, <2>1
<1>7. CASE Finish(r) \/ CollectAtSession(r) \/ Collect(r)
  <2>1. /\ UNCHANGED <<attempt, over, node, work, ctx>>
        /\ gen'[r] = "closed"
        /\ \A q \in Requests \ {r} : gen'[q] = gen[q]
    BY <1>7 DEF Finish, CollectAtSession, Collect, Close, agentVars
  <2> QED BY <1>2, <2>1
<1>8. CASE Disconnect(r)
  <2>1. /\ UNCHANGED <<attempt, over, work, ctx>>
        /\ gen'[r] = "closed" /\ node' = [node EXCEPT ![r] = Stopped(@)]
        /\ \A q \in Requests \ {r} : gen'[q] = gen[q]
    BY <1>8 DEF Disconnect, Close, agentVars
  <2> QED BY <1>2, <2>1 DEF Stopped
<1>9. CASE Reap(r)
  <2>1. /\ UNCHANGED <<attempt, over, work, ctx, gen>>
        /\ gen[r] = "closed" /\ node' = [node EXCEPT ![r] = Stopped(@)]
    BY <1>9 DEF Reap, streamVars, agentVars
  <2> QED BY <1>2, <2>1 DEF Stopped
<1>10. CASE Abandon(r)
  <2>1. /\ UNCHANGED <<attempt, over, node, work, ctx>>
        /\ gen' = [gen EXCEPT ![r] = IF @ = "session" THEN "dropped_session" ELSE "dropped"]
    BY <1>10 DEF Abandon, runVars, agentVars
  <2>2. gen'[r] \in {"idle", "session", "dropped_session"} => node[r] = "none"
    BY <1>0, <2>1 DEF Purse
  <2> QED BY <1>2, <2>1, <2>2
<1> QED BY <1>1, <1>3, <1>4, <1>5, <1>6, <1>7, <1>8, <1>9, <1>10 DEF GeneratorStep

LEMMA CostAlways == Spec => []CostInv
<1>1. Init => CostInv
  <2> SUFFICES ASSUME Init, NEW r \in Requests PROVE Purse(r)
    BY DEF CostInv
  <2>1. /\ over[r] = 0 /\ attempt[r] = 0 /\ node[r] = "none" /\ work[r] = "none"
        /\ ctx[r] = NewCtx
    BY DEF Init
  <2>2. NewCtx.cost = 0 /\ 0 * MaxCost = 0 /\ MaxOverruns \in Nat
    BY BoundAssumption DEF NewCtx, MaxOverruns
  <2>3. ~OverCap(NewCtx) /\ (Cap # 0 => NewCtx.cost <= Cap + 0 * MaxCost)
    BY <2>2, BoundAssumption DEF OverCap
  <2> QED BY <2>1, <2>2, <2>3, BoundAssumption DEF Purse, Money
<1>2. TypeOK /\ CostInv /\ [Next]_vars => CostInv'
  <2> SUFFICES ASSUME CostTypes, CostInv, [Next]_vars PROVE CostInv'
    BY TypesOfCost
  <2>1. CASE UNCHANGED vars
    BY <2>1 DEF vars, streamVars, runVars, agentVars, CostInv, Purse, Money, OverCap
  <2> QED BY <2>1, RouterPurse, AgentPurse, GeneratorPurse DEF Next
<1> QED BY <1>1, <1>2, TypeCorrect, PTL DEF Spec

-----------------------------------------------------------------------------
(* The theorems. *)

\* Whatever the retries, critiques and prices, the calls of one request that
\* raise BudgetExceeded are at most MaxOverruns: the router's attempts, the LLM
\* planner's, and one synthesis; and it spends its cap and one call's price for
\* each, at most (obs/cost.py:32-62, graph/router.py:58-65).
THEOREM SpendIsBounded == Spec => []SpendBounded
<1>1. CostInv => SpendBounded
  BY DEF CostInv, Purse, Money, SpendBounded
<1> QED BY <1>1, CostAlways, PTL

\* No answer is synthesised over the cap, although the breaches of the planner
\* and of the critique are swallowed (agents/incident.py:386-395, 440-452).
THEOREM SynthesisStaysWithinCap == Spec => []SynthesisWithinCap
<1>1. CostInv => SynthesisWithinCap
  BY DEF CostInv, Purse, SynthesisWithinCap
<1> QED BY <1>1, CostAlways, PTL

-----------------------------------------------------------------------------
(* The order of frames. *)

UpTo(s, k) == \A i \in DOMAIN s : Rank[s[i].type] <= k
HasRoute(s) == \E i \in DOMAIN s : s[i].type = "route"
InOrder(s) ==
  /\ \A i, j \in DOMAIN s : i < j =>
       \/ Rank[s[i].type] < Rank[s[j].type]
       \/ s[i].type = "token" /\ s[j].type = "token"
  /\ \A j \in DOMAIN s : s[j].type \in {"token", "response"} => HasRoute(s)
Tokens(q) == \A i \in DOMAIN q : q[i] = "token"
TokensThenOutput(q) ==
  /\ q # << >> /\ q[Len(q)] = "output"
  /\ \A i \in DOMAIN q : i # Len(q) => q[i] = "token"

\* How far the frames sent have come, by what the graph's task is doing and the
\* events it has emitted.
Progress(n, q, s) ==
  \/ n = "router" /\ q = << >> /\ UpTo(s, 0)
  \/ n = "routed" /\ q = <<"route">> /\ UpTo(s, 0)
  \/ n = "routed" /\ q = << >> /\ UpTo(s, 1) /\ HasRoute(s)
  \/ n = "agent" /\ Tokens(q) /\ UpTo(s, 2) /\ HasRoute(s)
  \/ n = "ended" /\ TokensThenOutput(q) /\ UpTo(s, 2) /\ HasRoute(s)
  \/ n = "ended" /\ q = << >> /\ UpTo(s, 3) /\ HasRoute(s)
  \/ n = "failed" /\ q = << >> /\ UpTo(s, 0)
  \/ n = "failed" /\ Tokens(q) /\ UpTo(s, 2) /\ HasRoute(s)

Order(r) ==
  /\ InOrder(sent[r])
  /\ node[r] = "none" => out[r] = << >>
  /\ gen[r] = "session" => UpTo(sent[r], 0)
  /\ gen[r] \in {"pulling", "yielding"} => Progress(node[r], out[r], sent[r])
OrderInv == \A r \in Requests : Order(r)

\* A frame that ranks above all that were sent, or another token.
LEMMA AppendFrame ==
  ASSUME NEW s \in Seq(Frames), NEW f \in Frames, NEW k \in 0..4, InOrder(s), UpTo(s, k),
         Rank[f.type] > k \/ (k = 2 /\ f.type = "token"),
         f.type \in {"token", "response"} => HasRoute(s)
  PROVE  /\ InOrder(Append(s, f))
         /\ UpTo(Append(s, f), Rank[f.type])
         /\ HasRoute(s) \/ f.type = "route" => HasRoute(Append(s, f))
<1> DEFINE t == Append(s, f)
<1>1. /\ DOMAIN t = 1..(Len(s) + 1) /\ DOMAIN s = 1..Len(s) /\ Len(s) \in Nat
      /\ \A i \in DOMAIN s : t[i] = s[i]
      /\ t[Len(s) + 1] = f
  OBVIOUS
<1>2. \A i \in DOMAIN s : s[i].type \in FrameTypes
  <2>1. \A i \in DOMAIN s : s[i] \in Frames
    OBVIOUS
  <2> QED BY <2>1 DEF Frames
<1>3. f.type \in FrameTypes
  BY DEF Frames
<1> HIDE DEF t
<1>4. HasRoute(s) \/ f.type = "route" => HasRoute(t)
  BY <1>1 DEF HasRoute
<1>5. UpTo(t, Rank[f.type])
  BY <1>1, <1>2, <1>3 DEF UpTo, Rank, FrameTypes
<1>6. InOrder(t)
  <2>1. ASSUME NEW i \in DOMAIN t, NEW j \in DOMAIN t, i < j
        PROVE  \/ Rank[t[i].type] < Rank[t[j].type]
               \/ t[i].type = "token" /\ t[j].type = "token"
    <3>1. CASE j \in DOMAIN s
      BY <1>1, <2>1, <3>1 DEF InOrder
    <3>2. CASE j = Len(s) + 1
      <4>1. i \in DOMAIN s /\ t[i] = s[i] /\ t[j] = f
        BY <1>1, <2>1, <3>2
      <4>2. Rank[s[i].type] <= k
        BY <4>1 DEF UpTo
      <4> QED BY <4>1, <4>2, <1>2, <1>3 DEF Rank, FrameTypes, InOrder
    <3> QED BY <1>1, <2>1, <3>1, <3>2
  <2>2. ASSUME NEW j \in DOMAIN t, t[j].type \in {"token", "response"} PROVE HasRoute(t)
    BY <1>1, <1>4, <2>2 DEF InOrder
  <2> QED BY <2>1, <2>2 DEF InOrder
<1> QED BY <1>4, <1>5, <1>6 DEF t

\* What a step of the graph's task does to the events it emits, and to its output.
Emits(r) ==
  \/ node[r] = "router" /\ node'[r] = "router" /\ UNCHANGED <<out, output>>
  \/ /\ node[r] = "router" /\ node'[r] = "routed"
     /\ out' = [out EXCEPT ![r] = <<"route">>] /\ UNCHANGED output
  \/ /\ node[r] = "router" /\ node'[r] = "failed"
     /\ out' = [out EXCEPT ![r] = << >>] /\ UNCHANGED output
  \/ /\ node[r] = "routed" /\ node'[r] = "agent" /\ gen[r] = "pulling"
     /\ out[r] = << >> /\ UNCHANGED <<out, output>>
  \/ node[r] = "agent" /\ node'[r] \in {"agent", "failed"} /\ UNCHANGED <<out, output>>
  \/ /\ node[r] = "agent" /\ node'[r] = "agent" /\ UNCHANGED output
     /\ out' = [out EXCEPT ![r] = Append(@, "token")]
  \/ /\ node[r] = "agent" /\ node'[r] = "ended"
     /\ out' = [out EXCEPT ![r] = Append(@, "output")]
     /\ output' = [output EXCEPT ![r] = output'[r]]

LEMMA RunEmits ==
  ASSUME TypeOK, NEW r \in Requests, RunStep(r)
  PROVE  Emits(r) /\ node' = [node EXCEPT ![r] = node'[r]]
<1> USE DEF TypeOK, Emits, agentVars
<1>0. node' = [node EXCEPT ![r] = node'[r]]
  BY RunStepFacts
<1>1. CASE RouterStep(r)
  <2>1. node[r] = "router" /\ UNCHANGED output
    BY <1>1 DEF RouterStep, RouterProviderError, RouterOverBudget, RouterBadReply,
                RouterReply, RouterAttempt
  <2>2. UNCHANGED <<node, out>> \/ \E route \in VALID_ROUTES : Decide(r, route)
    BY <1>1, RouteAssumption
       DEF RouterStep, RouterProviderError, RouterOverBudget, RouterBadReply,
           RouterReply, AttemptFails
  <2> QED BY <1>0, <2>1, <2>2 DEF Decide
<1>2. CASE StartAgent(r)
  BY <1>0, <1>2 DEF StartAgent
<1>3. CASE EmitToken(r)
  BY <1>0, <1>3 DEF EmitToken
<1>4. CASE PlanByKeywords(r) \/ PlanByLLM(r) \/ Synthesise(r) \/ Critique(r)
  BY <1>0, <1>4 DEF PlanByKeywords, PlanByLLM, Synthesise, Critique, Working
<1>5. CASE SynthesiseOverBudget(r) \/ AgentRaises(r)
  BY <1>0, <1>5 DEF SynthesiseOverBudget, AgentRaises, Handling, Working
<1>6. CASE OutOfScope(r) \/ AgentReturns(r)
  BY <1>0, <1>6 DEF OutOfScope, AgentReturns, Working, Return
<1>7. CASE BudgetExpires(r) \/ AgentRaisesTimeout(r)
  BY <1>0, <1>7 DEF BudgetExpires, AgentRaisesTimeout, Degrade, Handling, Working, Return
<1> QED BY <1>0, <1>1, <1>2, <1>3, <1>4, <1>5, <1>6, <1>7 DEF RunStep, AgentStep

\* The events of a task that goes on.
LEMMA AppendEvent ==
  ASSUME NEW q \in Seq({"route", "token", "output"}), Tokens(q)
  PROVE  /\ Tokens(Append(q, "token"))
         /\ TokensThenOutput(Append(q, "output"))
  BY DEF Tokens, TokensThenOutput

\* The event at the head of the queue, by the task's progress.
LEMMA PullEvent ==
  ASSUME NEW q \in Seq({"route", "token", "output"}), q # << >>, NEW n, NEW s,
         Progress(n, q, s)
  PROVE  /\ Head(q) = "route" => n = "routed" /\ Tail(q) = << >> /\ UpTo(s, 0)
         /\ Head(q) = "token" =>
              /\ HasRoute(s) /\ UpTo(s, 2)
              /\ n = "agent" \/ n = "failed" => Tokens(Tail(q))
              /\ n = "ended" => TokensThenOutput(Tail(q))
              /\ n \in {"agent", "failed", "ended"}
         /\ Head(q) = "output" =>
              n = "ended" /\ Tail(q) = << >> /\ HasRoute(s) /\ UpTo(s, 2)
<1>1. /\ Len(q) \in Nat /\ DOMAIN q = 1..Len(q)
      /\ Len(q) >= 1 /\ Head(q) = q[1] /\ Tail(q) \in Seq({"route", "token", "output"})
      /\ Len(Tail(q)) = Len(q) - 1 /\ DOMAIN Tail(q) = 1..(Len(q) - 1)
      /\ \A i \in 1..(Len(q) - 1) : Tail(q)[i] = q[i + 1]
      /\ Len(q) = 1 => Tail(q) = << >>
      /\ Len(q) > 1 => Tail(q) # << >>
  <2>1. Len(q) \in Nat /\ DOMAIN q = 1..Len(q) /\ Len(q) >= 1
    OBVIOUS
  <2>2. /\ Head(q) = q[1] /\ Tail(q) \in Seq({"route", "token", "output"})
        /\ Len(Tail(q)) = Len(q) - 1 /\ DOMAIN Tail(q) = 1..(Len(q) - 1)
    BY <2>1
  <2>3. \A i \in 1..(Len(q) - 1) : Tail(q)[i] = q[i + 1]
    BY <2>1
  <2>4. \A t \in Seq({"route", "token", "output"}) : t = << >> <=> Len(t) = 0
    OBVIOUS
  <2> DEFINE t == Tail(q)
  <2>5. /\ Len(q) = 1 => t = << >>
        /\ Len(q) > 1 => t # << >>
    <3>1. t \in Seq({"route", "token", "output"}) /\ Len(t) = Len(q) - 1
      BY <2>2
    <3> HIDE DEF t
    <3> QED BY <2>1, <2>4, <3>1
  <2> QED BY <2>1, <2>2, <2>3, <2>5, Zenon
<1>2. CASE q = <<"route">>
  BY <1>1, <1>2 DEF Progress, Tokens, TokensThenOutput
<1>3. CASE Tokens(q)
  BY <1>1, <1>3 DEF Progress, Tokens, TokensThenOutput
<1>4. CASE TokensThenOutput(q)
  <2>1. CASE Len(q) = 1
    BY <1>1, <1>4, <2>1 DEF Progress, Tokens, TokensThenOutput
  <2>2. CASE Len(q) > 1
    <3>1. Head(q) = "token" /\ TokensThenOutput(Tail(q))
      BY <1>1, <1>4, <2>2 DEF TokensThenOutput
    <3> QED BY <1>1, <1>4, <2>2, <3>1 DEF Progress, Tokens, TokensThenOutput
  <2> QED BY <1>1, <2>1, <2>2
<1> QED BY <1>2, <1>3, <1>4 DEF Progress

\* A step of the graph's task keeps the generator where it is and its frames.
LEMMA RunKeepsOrder ==
  ASSUME TypeOK, OrderInv, NEW r \in Requests, RunStep(r) PROVE OrderInv'
<1>1. UNCHANGED <<gen, sent>> /\ node' = [node EXCEPT ![r] = node'[r]] /\ Emits(r)
  BY RunStepFacts, RunEmits DEF streamVars
<1>2. ASSUME NEW q \in Requests, q # r PROVE Order(q)'
  <2>1. node'[q] = node[q] /\ out'[q] = out[q]
    BY <1>1, <1>2 DEF TypeOK, Emits
  <2> QED BY <1>1, <2>1 DEF OrderInv, Order
<1>3. Order(r)'
  <2>1. Order(r) /\ out[r] \in Seq({"route", "token", "output"})
    BY DEF OrderInv, TypeOK
  <2>2. node'[r] # "none"
    BY <1>1 DEF Emits
  <2>3. Progress(node[r], out[r], sent[r]) => Progress(node'[r], out'[r], sent[r])
    <3> SUFFICES ASSUME Progress(node[r], out[r], sent[r])
                 PROVE  Progress(node'[r], out'[r], sent[r])
      OBVIOUS
    <3>1. CASE node[r] = "router"
      BY <1>1, <3>1 DEF Emits, Progress, TypeOK
    <3>2. CASE node[r] = "routed"
      <4>1. Tokens(<< >>)
        BY DEF Tokens
      <4>2. UpTo(sent[r], 1) => UpTo(sent[r], 2)
        <5>1. \A i \in DOMAIN sent[r] : Rank[sent[r][i].type] \in Nat
          <6>1. \A i \in DOMAIN sent[r] : sent[r][i] \in Frames
            BY DEF TypeOK
          <6> QED BY <6>1 DEF Frames, FrameTypes, Rank
        <5> QED BY <5>1 DEF UpTo
      <4>3. out[r] # <<"route">>
        <5>1. out[r] = << >>
          BY <1>1, <3>2 DEF Emits
        <5>2. << >> # <<"route">>
          OBVIOUS
        <5> QED BY <5>1, <5>2
      <4> QED BY <1>1, <3>2, <4>1, <4>2, <4>3 DEF Emits, Progress
    <3>3. CASE node[r] = "agent"
      <4>1. Tokens(out[r]) /\ UpTo(sent[r], 2) /\ HasRoute(sent[r])
        BY <3>3 DEF Progress
      <4>2. Tokens(Append(out[r], "token")) /\ TokensThenOutput(Append(out[r], "output"))
        BY <2>1, <4>1, AppendEvent
      <4> QED BY <1>1, <3>3, <4>1, <4>2 DEF Emits, Progress, TypeOK
    <3> QED BY <1>1, <3>1, <3>2, <3>3 DEF Emits
  <2> QED BY <1>1, <2>1, <2>2, <2>3 DEF Order
<1> QED BY <1>2, <1>3 DEF OrderInv

\* A frame sent for an event of the graph.
LEMMA SendKeepsOrder ==
  ASSUME TypeOK, LifeInv, OrderInv, NEW r \in Requests,
         SendRoute(r) \/ SendToken(r) \/ SendResponse(r)
  PROVE  OrderInv'
<1>1. PICK f : /\ Yield(r, f, "yielding")
               /\ \/ Pull(r, "route") /\ f = Frame("route", decision[r])
                  \/ Pull(r, "token") /\ f = Frame("token", "")
                  \/ Pull(r, "output") /\ f = Frame("response", output[r])
  BY DEF SendRoute, SendToken, SendResponse
<1>2. /\ gen[r] = "pulling" /\ out[r] # << >> /\ UNCHANGED node
      /\ out' = [out EXCEPT ![r] = Tail(@)]
      /\ \/ Head(out[r]) = "route" /\ f.type = "route"
         \/ Head(out[r]) = "token" /\ f.type = "token"
         \/ Head(out[r]) = "output" /\ f.type = "response"
  <2>1. \A event : Pull(r, event) =>
          /\ gen[r] = "pulling" /\ out[r] # << >> /\ UNCHANGED node
          /\ out' = [out EXCEPT ![r] = Tail(@)] /\ Head(out[r]) = event
    BY DEF Pull
  <2>2. \A type, body : Frame(type, body).type = type
    BY DEF Frame
  <2> QED BY <1>1, <2>1, <2>2
<1>3. /\ f \in Frames /\ sent[r] \in Seq(Frames)
      /\ out[r] \in Seq({"route", "token", "output"})
  <2>1. decision[r] \in Routes /\ output[r] \in Outputs /\ "" \in Outputs
    BY DEF TypeOK, Outputs
  <2>2. /\ Frame("route", decision[r]) \in Frames /\ Frame("token", "") \in Frames
        /\ Frame("response", output[r]) \in Frames
    BY <2>1, FrameType DEF FrameTypes
  <2> QED BY <1>1, <2>2 DEF TypeOK
<1>4. /\ gen' = [gen EXCEPT ![r] = "yielding"]
      /\ sent' = [sent EXCEPT ![r] = Append(@, f)]
  BY <1>1 DEF Yield
<1>5. ASSUME NEW q \in Requests, q # r PROVE Order(q)'
  BY <1>2, <1>4, <1>5 DEF TypeOK, OrderInv, Order
<1>6. Order(r)'
  <2>1. InOrder(sent[r]) /\ Progress(node[r], out[r], sent[r])
    BY <1>2 DEF OrderInv, Order
  <2>2. CASE f.type = "route"
    <3>1. node[r] = "routed" /\ Tail(out[r]) = << >> /\ UpTo(sent[r], 0)
      BY <1>2, <1>3, <2>1, <2>2, PullEvent
    <3>2. /\ InOrder(Append(sent[r], f)) /\ UpTo(Append(sent[r], f), 1)
          /\ HasRoute(Append(sent[r], f))
      BY <1>3, <2>1, <2>2, <3>1, AppendFrame DEF Rank
    <3> QED BY <1>2, <1>4, <3>1, <3>2 DEF Order, Progress, TypeOK
  <2>3. CASE f.type = "token"
    <3>1. /\ HasRoute(sent[r]) /\ UpTo(sent[r], 2)
          /\ node[r] \in {"agent", "failed"} => Tokens(Tail(out[r]))
          /\ node[r] = "ended" => TokensThenOutput(Tail(out[r]))
          /\ node[r] \in {"agent", "failed", "ended"}
      BY <1>2, <1>3, <2>1, <2>3, PullEvent
    <3>2. /\ InOrder(Append(sent[r], f)) /\ UpTo(Append(sent[r], f), 2)
          /\ HasRoute(Append(sent[r], f))
      BY <1>3, <2>1, <2>3, <3>1, AppendFrame DEF Rank
    <3> QED BY <1>2, <1>4, <3>1, <3>2 DEF Order, Progress, TypeOK
  <2>4. CASE f.type = "response"
    <3>1. /\ node[r] = "ended" /\ Tail(out[r]) = << >>
          /\ HasRoute(sent[r]) /\ UpTo(sent[r], 2)
      BY <1>2, <1>3, <2>1, <2>4, PullEvent
    <3>2. /\ InOrder(Append(sent[r], f)) /\ UpTo(Append(sent[r], f), 3)
          /\ HasRoute(Append(sent[r], f))
      BY <1>3, <2>1, <2>4, <3>1, AppendFrame DEF Rank
    <3> QED BY <1>2, <1>4, <3>1, <3>2 DEF Order, Progress, TypeOK
  <2> QED BY <1>2, <2>2, <2>3, <2>4
<1> QED BY <1>5, <1>6 DEF OrderInv

LEMMA OrderStep == ASSUME TypeOK, LifeInv, OrderInv, [Next]_vars PROVE OrderInv'
<1>0. /\ gen \in [Requests -> GenStates] /\ node \in [Requests -> NodeStates]
      /\ sent \in [Requests -> Seq(Frames)]
      /\ out \in [Requests -> Seq({"route", "token", "output"})]
  BY DEF TypeOK
<1>1. ASSUME NEW r \in Requests, Start(r) PROVE OrderInv'
  <2>1. /\ gen' = [gen EXCEPT ![r] = "session"] /\ UNCHANGED <<node, out>>
        /\ sent' = [sent EXCEPT ![r] = <<Frame("session", "")>>]
    BY <1>1 DEF Start, runVars
  <2>2. InOrder(<<Frame("session", "")>>) /\ UpTo(<<Frame("session", "")>>, 0)
    <3> DEFINE s == <<Frame("session", "")>>
    <3>1. \A i \in DOMAIN s : i = 1 /\ s[i].type = "session"
      <4>1. Frame("session", "").type = "session"
        BY DEF Frame
      <4>2. \A f : \A i \in DOMAIN <<f>> : i = 1 /\ <<f>>[i] = f
        OBVIOUS
      <4> QED BY <4>1, <4>2
    <3> HIDE DEF s
    <3>2. InOrder(s) /\ UpTo(s, 0)
      BY <3>1 DEF InOrder, UpTo, Rank
    <3> QED BY <3>2 DEF s
  <2> QED BY <1>0, <2>1, <2>2 DEF OrderInv, Order
<1>2. ASSUME NEW r \in Requests, EnterGraph(r) PROVE OrderInv'
  <2>1. /\ gen[r] = "session" /\ gen' = [gen EXCEPT ![r] = "pulling"]
        /\ node' = [node EXCEPT ![r] = "router"] /\ UNCHANGED <<sent, out>>
    BY <1>2 DEF EnterGraph
  <2>2. out[r] = << >> /\ UpTo(sent[r], 0)
    BY <2>1 DEF LifeInv, Life, OrderInv, Order
  <2> QED BY <1>0, <2>1, <2>2 DEF OrderInv, Order, Progress
<1>3. ASSUME NEW r \in Requests, RunStep(r) PROVE OrderInv'
  BY <1>3, RunKeepsOrder
<1>4. ASSUME NEW r \in Requests, SendRoute(r) \/ SendToken(r) \/ SendResponse(r)
      PROVE  OrderInv'
  BY <1>4, SendKeepsOrder
<1>5. ASSUME NEW r \in Requests, SkipEmpty(r) PROVE OrderInv'
  <2>1. /\ gen[r] = "pulling" /\ out[r] # << >> /\ Head(out[r]) = "output"
        /\ out' = [out EXCEPT ![r] = Tail(@)] /\ UNCHANGED <<gen, sent, node>>
    BY <1>5 DEF SkipEmpty, Pull, streamVars
  <2>2. Progress(node[r], out[r], sent[r])
    BY <2>1 DEF OrderInv, Order
  <2>3. /\ node[r] = "ended" /\ Tail(out[r]) = << >> /\ HasRoute(sent[r])
        /\ UpTo(sent[r], 2)
    BY <1>0, <2>1, <2>2, PullEvent
  <2>4. UpTo(sent[r], 3)
    <3>1. \A i \in DOMAIN sent[r] : Rank[sent[r][i].type] \in Nat
      <4>1. \A i \in DOMAIN sent[r] : sent[r][i] \in Frames
        BY <1>0
      <4> QED BY <4>1 DEF Frames, FrameTypes, Rank
    <3> QED BY <2>3, <3>1 DEF UpTo
  <2> QED BY <1>0, <2>1, <2>3, <2>4 DEF OrderInv, Order, Progress
<1>6. ASSUME NEW r \in Requests, Resume(r) PROVE OrderInv'
  BY <1>0, <1>6 DEF Resume, runVars, OrderInv, Order
<1>7. ASSUME NEW r \in Requests, GraphRaises(r) \/ GraphEnds(r) PROVE OrderInv'
  <2>1. PICK f \in Frames, at \in {"error", "done"} :
          /\ gen[r] = "pulling" /\ gen' = [gen EXCEPT ![r] = at]
          /\ f.type = at /\ sent' = [sent EXCEPT ![r] = Append(@, f)]
          /\ UNCHANGED node /\ node[r] \in {"failed", "ended"}
          /\ node[r] = "ended" => out[r] = << >>
          /\ out' = [out EXCEPT ![r] = out'[r]]
    <3>1. /\ Frame("error", "") \in Frames /\ Frame("error", "").type = "error"
          /\ Frame("done", "") \in Frames /\ Frame("done", "").type = "done"
      BY FrameType DEF FrameTypes, Outputs, Frame
    <3>2. CASE GraphRaises(r)
      BY <1>0, <3>1, <3>2 DEF GraphRaises, Yield
    <3>3. CASE GraphEnds(r)
      BY <1>0, <3>1, <3>3 DEF GraphEnds, Yield, runVars
    <3> QED BY <1>7, <3>2, <3>3
  <2>2. Progress(node[r], out[r], sent[r]) /\ InOrder(sent[r])
    BY <2>1 DEF OrderInv, Order
  <2>3. \E k \in 0..3 : UpTo(sent[r], k)
    BY <2>1, <2>2 DEF Progress, TokensThenOutput
  <2>4. InOrder(Append(sent[r], f))
    <3>1. PICK k \in 0..3 : UpTo(sent[r], k)
      BY <2>3
    <3>2. Rank[f.type] > k /\ k \in 0..4 /\ f.type \notin {"token", "response"}
      BY <2>1, <3>1 DEF Rank
    <3>3. sent[r] \in Seq(Frames)
      BY <1>0
    <3> QED BY <2>1, <2>2, <3>1, <3>2, <3>3, AppendFrame
  <2> QED BY <1>0, <2>1, <2>4 DEF OrderInv, Order
<1>8. ASSUME NEW r \in Requests,
             Finish(r) \/ Disconnect(r) \/ CollectAtSession(r) \/ Collect(r) \/ Reap(r)
      PROVE  OrderInv'
  <2>1. /\ gen' = [gen EXCEPT ![r] = "closed"] /\ UNCHANGED <<sent, out>>
        /\ node' = [node EXCEPT ![r] = Stopped(@)] \/ UNCHANGED node
    BY <1>0, <1>8 DEF Finish, Disconnect, CollectAtSession, Collect, Reap, Close,
                      streamVars
  <2>2. Stopped(node[r]) = "none" => node[r] = "none"
    BY DEF Stopped
  <2> QED BY <1>0, <2>1, <2>2 DEF OrderInv, Order
<1>9. ASSUME NEW r \in Requests, Abandon(r) PROVE OrderInv'
  BY <1>0, <1>9 DEF Abandon, runVars, OrderInv, Order
<1>10. CASE UNCHANGED vars
  BY <1>10 DEF vars, streamVars, runVars, OrderInv, Order
<1> QED BY <1>1, <1>2, <1>3, <1>4, <1>5, <1>6, <1>7, <1>8, <1>9, <1>10
        DEF Next, GeneratorStep, RunStep

LEMMA OrderAlways == Spec => []OrderInv
<1>1. Init => OrderInv
  <2> SUFFICES ASSUME Init, NEW r \in Requests PROVE Order(r)
    BY DEF OrderInv
  <2>1. gen[r] = "idle" /\ sent[r] = << >> /\ out[r] = << >>
    BY DEF Init
  <2> QED BY <2>1 DEF Order, InOrder
<1> QED BY <1>1, OrderStep, TypeCorrect, LifeAlways, PTL DEF Spec

\* Whatever fails, expires or leaves, every stream keeps the order of its frames,
\* ends at most once, and sends nothing of an agent before its route
\* (api/routes.py:20-25, 52-80).
THEOREM FramesAlwaysInOrder == Spec => []FramesInOrder
<1>1. TypeOK /\ OrderInv => FramesInOrder
  <2> SUFFICES ASSUME TypeOK, OrderInv, NEW r \in Requests,
                      NEW i \in DOMAIN sent[r], NEW j \in DOMAIN sent[r], i < j
               PROVE  /\ \/ Rank[sent[r][i].type] < Rank[sent[r][j].type]
                         \/ {sent[r][i].type, sent[r][j].type} = {"token"}
                      /\ sent[r][j].type \in {"token", "response"} => Sent(r, "route") # {}
    BY DEF FramesInOrder
  <2>1. InOrder(sent[r])
    BY DEF OrderInv, Order
  <2> QED BY <2>1 DEF InOrder, HasRoute, Sent
<1> QED BY <1>1, TypeCorrect, OrderAlways, PTL

-----------------------------------------------------------------------------
(* The rows of the two sinks. *)

\* LastBody, of a list of frames.
OfType(s, type) == {i \in DOMAIN s : s[i].type = type}
BodyOf(s, type, default) ==
  IF OfType(s, type) = {} THEN default
  ELSE s[CHOOSE i \in OfType(s, type) : \A j \in OfType(s, type) : j <= i].body

LEMMA LastBodyIsBodyOf ==
  ASSUME NEW r, NEW type, NEW d
  PROVE  LastBody(r, type, d) = BodyOf(sent[r], type, d)
  BY DEF LastBody, BodyOf, Sent, OfType

\* Frames in order have one route and one response at most.
LEMMA OnlyBody ==
  ASSUME NEW s \in Seq(Frames), InOrder(s), NEW type \in {"route", "response"}, NEW d,
         NEW i \in OfType(s, type)
  PROVE  BodyOf(s, type, d) = s[i].body
<1>1. i \in Nat
  BY DEF OfType
<1>2. \A j \in OfType(s, type) : j = i
  <2> SUFFICES ASSUME NEW j \in OfType(s, type), j # i PROVE FALSE
    OBVIOUS
  <2>1. /\ i \in DOMAIN s /\ j \in DOMAIN s /\ i \in Nat /\ j \in Nat
        /\ s[i].type = type /\ s[j].type = type
    BY DEF OfType
  <2> QED BY <2>1 DEF InOrder, Rank
<1>3. \A k \in OfType(s, type) : (\A j \in OfType(s, type) : j <= k) <=> k = i
  BY <1>1, <1>2
<1>4. (CHOOSE k \in OfType(s, type) : \A j \in OfType(s, type) : j <= k) = i
  BY <1>3
<1> QED BY <1>4 DEF BodyOf

LEMMA BodyOfAppend ==
  ASSUME NEW s \in Seq(Frames), NEW f \in Frames, InOrder(s), InOrder(Append(s, f)),
         NEW type \in {"route", "response"}, NEW d
  PROVE  BodyOf(Append(s, f), type, d) = IF f.type = type THEN f.body ELSE BodyOf(s, type, d)
<1> DEFINE t == Append(s, f)
<1>1. /\ DOMAIN t = 1..(Len(s) + 1) /\ DOMAIN s = 1..Len(s) /\ Len(s) \in Nat
      /\ \A i \in DOMAIN s : t[i] = s[i]
      /\ t[Len(s) + 1] = f /\ t \in Seq(Frames) /\ InOrder(t)
  OBVIOUS
<1> HIDE DEF t
<1>2. CASE f.type = type
  <2>1. Len(s) + 1 \in OfType(t, type)
    BY <1>1, <1>2 DEF OfType
  <2>2. BodyOf(t, type, d) = t[Len(s) + 1].body
    BY <1>1, <2>1, OnlyBody
  <2> QED BY <1>1, <1>2, <2>2 DEF t
<1>3. CASE f.type # type /\ OfType(s, type) = {}
  <2>1. OfType(t, type) = {}
    BY <1>1, <1>3 DEF OfType
  <2>2. BodyOf(t, type, d) = d /\ BodyOf(s, type, d) = d
    BY <1>3, <2>1 DEF BodyOf
  <2> QED BY <1>3, <2>2 DEF t
<1>4. CASE f.type # type /\ OfType(s, type) # {}
  <2>1. PICK i : i \in OfType(s, type)
    BY <1>4
  <2>2. i \in OfType(t, type) /\ t[i] = s[i]
    BY <1>1, <2>1 DEF OfType
  <2>3. BodyOf(t, type, d) = t[i].body
    BY <1>1, <2>2, OnlyBody
  <2>4. BodyOf(s, type, d) = s[i].body
    BY <2>1, OnlyBody
  <2> QED BY <1>4, <2>2, <2>3, <2>4 DEF t
<1> QED BY <1>2, <1>3, <1>4

\* What a row tells, and what the RequestCtx would tell if it were written now.
Tells(row, s) ==
  /\ row.answer = BodyOf(s, "response", "")
  /\ row.ctx.route = BodyOf(s, "route", NoRoute)
  /\ row.ctx.degraded <=> row.ctx.timeouts # << >>
  /\ row.answer = "degraded" => row.ctx.degraded
Tell(r) ==
  /\ Tells(Row(r), sent[r])
  /\ output[r] = "degraded" => ctx[r].degraded
  /\ node[r] = "none" => output[r] = ""
  /\ cur[r] # "cleared" => replays[r] = << >>
  /\ \A i \in DOMAIN events[r] : Tells(events[r][i], sent[r])
  /\ \A i \in DOMAIN replays[r] : Tells(replays[r][i], sent[r])
TellInv == \A r \in Requests : Tell(r)

\* A call leaves route, degraded and timeouts of the RequestCtx alone.
SameTale(c, d) == c.route = d.route /\ c.degraded = d.degraded /\ c.timeouts = d.timeouts

LEMMA CallsKeepTale ==
  ASSUME TypeOK, NEW r \in Requests, Accepted(r) \/ Refused(r) \/ NotMade
  PROVE  \A q \in Requests : SameTale(ctx'[q], ctx[q])
<1>1. \A usd : SameTale(Charge(ctx[r], usd), ctx[r])
  <2>1. ctx[r] \in Ctxs
    BY DEF TypeOK
  <2> QED BY <2>1 DEF Charge, Ctxs, SameTale
<1>2. UNCHANGED ctx \/ \E usd : ctx' = [ctx EXCEPT ![r] = Charge(@, usd)]
  BY DEF Accepted, Refused, NotMade
<1>3. CASE UNCHANGED ctx
  BY <1>3 DEF SameTale
<1>4. CASE \E usd : ctx' = [ctx EXCEPT ![r] = Charge(@, usd)]
  <2>1. PICK usd : ctx' = [ctx EXCEPT ![r] = Charge(@, usd)]
    BY <1>4
  <2>2. \A q \in Requests : ctx'[q] = IF q = r THEN Charge(ctx[r], usd) ELSE ctx[q]
    BY <2>1 DEF TypeOK
  <2> QED BY <1>1, <2>2 DEF SameTale
<1> QED BY <1>2, <1>3, <1>4

\* An agent that returns the degraded answer has told the RequestCtx.
LEMMA RunTells ==
  ASSUME TypeOK, NEW r \in Requests, RunStep(r)
  PROVE  \A q \in Requests :
           /\ ctx'[q].route = ctx[q].route
           /\ \/ /\ SameTale(ctx'[q], ctx[q])
                 /\ output'[q] \in {output[q], "answer", "", "scope"}
              \/ /\ q = r /\ ctx'[q].degraded = TRUE /\ ctx'[q].timeouts # << >>
<1> USE DEF agentVars
<1>1. CASE RouterStep(r)
  <2>1. UNCHANGED output /\ (Accepted(r) \/ Refused(r) \/ NotMade)
    BY <1>1 DEF RouterStep, RouterProviderError, RouterOverBudget, RouterBadReply,
                RouterReply, RouterAttempt
  <2> QED BY <2>1, CallsKeepTale DEF SameTale
<1>2. CASE StartAgent(r) \/ EmitToken(r)
  BY <1>2 DEF StartAgent, EmitToken, SameTale
<1>3. CASE PlanByKeywords(r) \/ PlanByLLM(r) \/ Synthesise(r) \/ Critique(r)
           \/ SynthesiseOverBudget(r) \/ AgentRaises(r)
  <2>1. UNCHANGED output /\ (Accepted(r) \/ Refused(r) \/ NotMade)
    BY <1>3 DEF PlanByKeywords, PlanByLLM, Synthesise, Critique, SynthesiseOverBudget,
                AgentRaises
  <2> QED BY <2>1, CallsKeepTale DEF SameTale
<1>4. CASE OutOfScope(r) \/ AgentReturns(r)
  BY <1>4 DEF OutOfScope, AgentReturns, Return, SameTale, TypeOK
<1>5. CASE BudgetExpires(r) \/ AgentRaisesTimeout(r)
  <2>1. Degrade(r)
    BY <1>5 DEF BudgetExpires, AgentRaisesTimeout
  <2>2. ctx[r] \in Ctxs /\ decision[r] \in Routes
    BY DEF TypeOK
  <2>3. \A q \in Requests \ {r} : ctx'[q] = ctx[q] /\ output'[q] = output[q]
    BY <2>1 DEF Degrade, Return, TypeOK
  <2>4. /\ ctx'[r].route = ctx[r].route /\ ctx'[r].degraded = TRUE
        /\ ctx'[r].timeouts = Append(ctx[r].timeouts, decision[r])
    BY <2>1, <2>2 DEF Degrade, TypeOK, Ctxs
  <2>5. Append(ctx[r].timeouts, decision[r]) # << >>
    <3>1. ctx[r].timeouts \in Seq(Routes)
      BY <2>2 DEF Ctxs
    <3>2. \A t \in Seq(Routes) : Len(Append(t, decision[r])) # Len(<< >>)
      OBVIOUS
    <3> QED BY <3>1, <3>2
  <2> QED BY <2>3, <2>4, <2>5 DEF SameTale
<1> QED BY <1>1, <1>2, <1>3, <1>4, <1>5 DEF RunStep, AgentStep

LEMMA TellUnmoved ==
  ASSUME TellInv, NEW q \in Requests,
         sent'[q] = sent[q], finalAnswer'[q] = finalAnswer[q], ctx'[q] = ctx[q],
         cur'[q] = cur[q], events'[q] = events[q], replays'[q] = replays[q],
         output'[q] = output[q], node'[q] = "none" => node[q] = "none"
  PROVE  Tell(q)'
<1>1. Row(q)' = Row(q)
  BY DEF Row
<1> QED BY <1>1 DEF TellInv, Tell

\* A frame is sent while no row has been written.
LEMMA SendKeepsTale ==
  ASSUME TypeOK, LifeInv, OrderInv, OrderInv', TellInv, NEW r \in Requests,
         NEW f \in Frames, gen[r] = "pulling",
         sent' = [sent EXCEPT ![r] = Append(@, f)],
         UNCHANGED <<cur, events, replays, output, node>>,
         ctx' = [ctx EXCEPT ![r].route = IF f.type = "route" THEN f.body ELSE @],
         finalAnswer' = [finalAnswer EXCEPT ![r] =
           IF f.type = "response" THEN f.body ELSE @],
         f.type = "response" => f.body = output[r]
  PROVE  TellInv'
<1>1. ASSUME NEW q \in Requests, q # r PROVE Tell(q)'
  <2>1. /\ sent'[q] = sent[q] /\ finalAnswer'[q] = finalAnswer[q] /\ ctx'[q] = ctx[q]
        /\ node'[q] = "none" => node[q] = "none"
    BY <1>1 DEF TypeOK
  <2> QED BY <2>1, TellUnmoved
<1>2. Tell(r)'
  <2>1. sent[r] \in Seq(Frames) /\ sent'[r] = Append(sent[r], f)
    BY DEF TypeOK
  <2>2. InOrder(sent[r]) /\ InOrder(Append(sent[r], f))
    BY <2>1 DEF OrderInv, Order
  <2>3. /\ BodyOf(sent'[r], "response", "") = IF f.type = "response" THEN f.body
                                             ELSE BodyOf(sent[r], "response", "")
        /\ BodyOf(sent'[r], "route", NoRoute) = IF f.type = "route" THEN f.body
                                              ELSE BodyOf(sent[r], "route", NoRoute)
    <3>1. ASSUME NEW type \in {"route", "response"}, NEW d
          PROVE  BodyOf(sent'[r], type, d) =
                   IF f.type = type THEN f.body ELSE BodyOf(sent[r], type, d)
      BY <2>1, <2>2, BodyOfAppend
    <3> QED BY <3>1
  <2>4. /\ ctx'[r].degraded = ctx[r].degraded /\ ctx'[r].timeouts = ctx[r].timeouts
        /\ ctx'[r].route = IF f.type = "route" THEN f.body ELSE ctx[r].route
        /\ finalAnswer'[r] = IF f.type = "response" THEN f.body ELSE finalAnswer[r]
    <3>1. ctx[r] \in Ctxs
      BY DEF TypeOK
    <3> QED BY <3>1 DEF TypeOK, Ctxs
  <2>5. Tell(r) /\ cur[r] = "set" /\ events[r] = << >> /\ replays[r] = << >>
    BY DEF TellInv, Tell, LifeInv, Life
  <2>6. Tells(Row(r)', sent'[r])
    BY <2>3, <2>4, <2>5 DEF Tell, Tells, Row
  <2>7. output'[r] = "degraded" => ctx'[r].degraded
    BY <2>4, <2>5 DEF Tell
  <2>8. events'[r] = << >> /\ replays'[r] = << >>
    BY <2>5
  <2>9. node'[r] = "none" => output'[r] = ""
    BY <2>5 DEF Tell
  <2>10. \A log : log = << >> => DOMAIN log = {}
    OBVIOUS
  <2> QED BY <2>6, <2>7, <2>8, <2>9, <2>10 DEF Tell
<1> QED BY <1>1, <1>2 DEF TellInv

\* The rows are written of what has been sent.
LEMMA FlushTells ==
  ASSUME TypeOK, LifeInv, TellInv, NEW r \in Requests, Flush(r),
         UNCHANGED <<sent, finalAnswer, ctx, output>>,
         node' = [node EXCEPT ![r] = Stopped(@)] \/ UNCHANGED node
  PROVE  TellInv'
<1>1. ASSUME NEW q \in Requests, q # r PROVE Tell(q)'
  <2>1. /\ cur'[q] = cur[q] /\ events'[q] = events[q] /\ replays'[q] = replays[q]
        /\ node'[q] = node[q]
    BY <1>1 DEF TypeOK, Flush
  <2> QED BY <2>1, TellUnmoved
<1>2. Tell(r)'
  <2>1. Tell(r) /\ events[r] = << >> /\ replays[r] = << >>
    BY DEF TellInv, Tell, LifeInv, Life, Flush
  <2>2. /\ events'[r] \in {<< >>, Append(<< >>, Row(r))} /\ replays'[r] \in {<< >>, <<Row(r)>>}
        /\ cur'[r] = "cleared"
        /\ node'[r] = "none" => node[r] = "none"
        /\ Row(r)' = Row(r) /\ sent'[r] = sent[r] /\ output'[r] = output[r]
        /\ ctx'[r] = ctx[r]
    BY <2>1 DEF Flush, TypeOK, Stopped, Row
  <2>3. \A row : /\ \A i \in DOMAIN Append(<< >>, row) : Append(<< >>, row)[i] = row
                 /\ \A i \in DOMAIN <<row>> : <<row>>[i] = row
                 /\ DOMAIN << >> = {}
    OBVIOUS
  <2>4. /\ \A i \in DOMAIN events'[r] : events'[r][i] = Row(r)
        /\ \A i \in DOMAIN replays'[r] : replays'[r][i] = Row(r)
    BY <2>2, <2>3
  <2>5. Tells(Row(r), sent[r])
    BY <2>1 DEF Tell
  <2>6. /\ \A i \in DOMAIN events'[r] : Tells(events'[r][i], sent'[r])
        /\ \A i \in DOMAIN replays'[r] : Tells(replays'[r][i], sent'[r])
    BY <2>2, <2>4, <2>5
  <2> QED BY <2>1, <2>2, <2>5, <2>6 DEF Tell
<1> QED BY <1>1, <1>2 DEF TellInv

\* A frame, and what is assigned before it is sent.
Sends(r, f) ==
  /\ gen[r] = "pulling" /\ UNCHANGED <<cur, events, replays, output, node>>
  /\ sent' = [sent EXCEPT ![r] = Append(@, f)]
  /\ ctx' = IF f.type = "route" THEN [ctx EXCEPT ![r].route = f.body] ELSE ctx
  /\ finalAnswer' = IF f.type = "response" THEN [finalAnswer EXCEPT ![r] = f.body]
                    ELSE finalAnswer
  /\ f.type = "response" => f.body = output[r]

LEMMA TellStep ==
  ASSUME TypeOK, LifeInv, OrderInv, OrderInv', TellInv, [Next]_vars PROVE TellInv'
<1>1. ASSUME NEW r \in Requests, Start(r) PROVE TellInv'
  <2>1. /\ gen[r] = "idle" /\ UNCHANGED <<events, replays, node, output>>
        /\ sent' = [sent EXCEPT ![r] = <<Frame("session", "")>>]
        /\ finalAnswer' = [finalAnswer EXCEPT ![r] = ""]
        /\ ctx' = [ctx EXCEPT ![r] = NewCtx] /\ cur' = [cur EXCEPT ![r] = "set"]
    BY <1>1 DEF Start, runVars, agentVars
  <2>2. ASSUME NEW q \in Requests, q # r PROVE Tell(q)'
    <3>1. /\ sent'[q] = sent[q] /\ finalAnswer'[q] = finalAnswer[q] /\ ctx'[q] = ctx[q]
          /\ cur'[q] = cur[q]
      BY <2>1, <2>2 DEF TypeOK
    <3> QED BY <2>1, <3>1, TellUnmoved
  <2>3. /\ events[r] = << >> /\ replays[r] = << >> /\ node[r] = "none" /\ output[r] = ""
    BY <2>1 DEF LifeInv, Life, TellInv, Tell
  <2>4. /\ BodyOf(<<Frame("session", "")>>, "response", "") = ""
        /\ BodyOf(<<Frame("session", "")>>, "route", NoRoute) = NoRoute
    <3> DEFINE s == <<Frame("session", "")>>
    <3>1. \A i \in DOMAIN s : s[i].type = "session"
      <4>1. Frame("session", "").type = "session"
        BY DEF Frame
      <4>2. \A f : \A i \in DOMAIN <<f>> : <<f>>[i] = f
        OBVIOUS
      <4> QED BY <4>1, <4>2
    <3> HIDE DEF s
    <3>2. OfType(s, "response") = {} /\ OfType(s, "route") = {}
      BY <3>1 DEF OfType
    <3>3. BodyOf(s, "response", "") = "" /\ BodyOf(s, "route", NoRoute) = NoRoute
      BY <3>2 DEF BodyOf
    <3> QED BY <3>3 DEF s
  <2>5. NewCtx.route = NoRoute /\ NewCtx.degraded = FALSE /\ NewCtx.timeouts = << >>
    BY DEF NewCtx
  <2>6. /\ Row(r)' = [ctx |-> NewCtx, answer |-> ""]
        /\ sent'[r] = <<Frame("session", "")>> /\ ctx'[r] = NewCtx
    BY <2>1 DEF TypeOK, Row
  <2>7. Tells([ctx |-> NewCtx, answer |-> ""], sent'[r])
    BY <2>4, <2>5, <2>6 DEF Tells
  <2>8. events'[r] = << >> /\ replays'[r] = << >> /\ output'[r] = ""
    BY <2>1, <2>3
  <2>9. Tell(r)'
    <3>1. Tells(Row(r)', sent'[r])
      BY <2>6, <2>7
    <3>2. \A log : log = << >> => DOMAIN log = {}
      OBVIOUS
    <3> QED BY <2>8, <3>1, <3>2 DEF Tell
  <2> QED BY <2>2, <2>9 DEF TellInv
<1>2. ASSUME NEW r \in Requests,
             EnterGraph(r) \/ Abandon(r) \/ CollectAtSession(r) \/ Reap(r) \/ Resume(r)
               \/ SkipEmpty(r)
      PROVE  TellInv'
  <2>1. /\ UNCHANGED <<sent, finalAnswer, ctx, cur, events, replays, output>>
        /\ \A q \in Requests : node'[q] = "none" => node[q] = "none"
    BY <1>2 DEF TypeOK, EnterGraph, Abandon, CollectAtSession, Reap, Resume, SkipEmpty,
                Pull, Close, Stopped, streamVars, obsVars, runVars, agentVars
  <2> QED BY <2>1 DEF TellInv, Tell, Row
<1>3. ASSUME NEW r \in Requests, RunStep(r) PROVE TellInv'
  <2>1. /\ UNCHANGED <<sent, finalAnswer, cur, events, replays>>
        /\ \A q \in Requests : node'[q] = "none" => node[q] = "none" /\ q # r
    BY <1>3, RunStepFacts DEF TypeOK, streamVars, obsVars
  <2>2. ASSUME NEW q \in Requests PROVE Tell(q)'
    <3>1. Tell(q) /\ Row(q)' = [ctx |-> ctx'[q], answer |-> finalAnswer[q]]
      BY <2>1 DEF TellInv, Row
    <3>2. node'[q] = "none" => output'[q] = ""
      BY <1>3, <2>1, <3>1, RunEmits DEF Emits, Tell, TypeOK
    <3>3. /\ ctx'[q].route = ctx[q].route
          /\ \/ /\ SameTale(ctx'[q], ctx[q])
                /\ output'[q] \in {output[q], "answer", "", "scope"}
             \/ ctx'[q].degraded = TRUE /\ ctx'[q].timeouts # << >>
      BY <1>3, RunTells
    <3>4. Tells(Row(q)', sent[q]) /\ (output'[q] = "degraded" => ctx'[q].degraded)
      BY <3>1, <3>3 DEF Tell, Tells, SameTale, Row
    <3> QED BY <2>1, <3>1, <3>2, <3>4 DEF Tell
  <2> QED BY <2>2 DEF TellInv
<1>4. ASSUME NEW r \in Requests,
             SendRoute(r) \/ SendToken(r) \/ SendResponse(r) \/ GraphRaises(r) \/ GraphEnds(r)
      PROVE  TellInv'
  <2>1. \A type, body : Frame(type, body).type = type /\ Frame(type, body).body = body
    BY DEF Frame
  <2>2. /\ "" \in Outputs /\ output[r] \in Outputs /\ decision[r] \in Routes
        /\ ctx[r] \in Ctxs /\ ctx \in [Requests -> Ctxs]
        /\ finalAnswer \in [Requests -> Outputs]
    BY DEF TypeOK, Outputs
  <2>3. PICK f \in Frames : Sends(r, f)
    <3> USE DEF obsVars, runVars, agentVars, Yield, Pull, Sends
    <3>1. CASE SendRoute(r)
      <4>1. Frame("route", decision[r]) \in Frames
        BY <2>2, FrameType DEF FrameTypes
      <4>2. PICK f \in Frames : /\ f = Frame("route", decision[r])
                                /\ f.type = "route" /\ f.body = decision[r]
        BY <2>1, <4>1
      <4>3. /\ sent' = [sent EXCEPT ![r] = Append(@, f)] /\ gen[r] = "pulling"
            /\ UNCHANGED <<cur, events, replays, output, node, finalAnswer>>
            /\ ctx' = [ctx EXCEPT ![r].route = f.body]
        BY <3>1, <4>2 DEF SendRoute
      <4> QED BY <4>2, <4>3
    <3>2. CASE SendToken(r)
      <4>1. Frame("token", "") \in Frames
        BY <2>2, FrameType DEF FrameTypes
      <4>2. Sends(r, Frame("token", ""))
        BY <2>1, <3>2 DEF SendToken
      <4> QED BY <4>1, <4>2
    <3>3. CASE SendResponse(r)
      <4>1. Frame("response", output[r]) \in Frames
        BY <2>2, FrameType DEF FrameTypes
      <4>2. PICK f \in Frames : /\ f = Frame("response", output[r])
                                /\ f.type = "response" /\ f.body = output[r]
        BY <2>1, <4>1
      <4>3. /\ sent' = [sent EXCEPT ![r] = Append(@, f)] /\ gen[r] = "pulling"
            /\ UNCHANGED <<cur, events, replays, output, node, ctx>>
            /\ finalAnswer' = [finalAnswer EXCEPT ![r] = f.body]
        BY <3>3, <4>2 DEF SendResponse
      <4> QED BY <4>2, <4>3
    <3>4. CASE GraphRaises(r)
      <4>1. Frame("error", "") \in Frames
        BY <2>2, FrameType DEF FrameTypes
      <4>2. Sends(r, Frame("error", ""))
        BY <2>1, <3>4 DEF GraphRaises
      <4> QED BY <4>1, <4>2
    <3>5. CASE GraphEnds(r)
      <4>1. Frame("done", "") \in Frames
        BY <2>2, FrameType DEF FrameTypes
      <4>2. Sends(r, Frame("done", ""))
        BY <2>1, <3>5 DEF GraphEnds
      <4> QED BY <4>1, <4>2
    <3> QED BY <1>4, <3>1, <3>2, <3>3, <3>4, <3>5
  <2>4. ctx' = [ctx EXCEPT ![r].route = IF f.type = "route" THEN f.body ELSE @]
    BY <2>2, <2>3 DEF Ctxs, Sends
  <2>5. finalAnswer' = [finalAnswer EXCEPT ![r] = IF f.type = "response" THEN f.body ELSE @]
    BY <2>2, <2>3 DEF Sends
  <2>6. /\ gen[r] = "pulling" /\ UNCHANGED <<cur, events, replays, output, node>>
        /\ sent' = [sent EXCEPT ![r] = Append(@, f)]
        /\ f.type = "response" => f.body = output[r]
    BY <2>3 DEF Sends
  <2> QED BY <2>4, <2>5, <2>6, SendKeepsTale
<1>5. ASSUME NEW r \in Requests, Finish(r) \/ Disconnect(r) \/ Collect(r) PROVE TellInv'
  <2>1. /\ UNCHANGED <<sent, finalAnswer, ctx, output>>
        /\ node' = [node EXCEPT ![r] = Stopped(@)] \/ UNCHANGED node
        /\ Flush(r) \/ UNCHANGED <<cur, events, replays, node>>
    BY <1>5 DEF Finish, Disconnect, Collect, Close, obsVars, agentVars
  <2>2. CASE UNCHANGED <<cur, events, replays, node>>
    BY <2>1, <2>2 DEF TellInv, Tell, Row
  <2> QED BY <2>1, <2>2, FlushTells
<1>6. CASE UNCHANGED vars
  BY <1>6 DEF vars, streamVars, obsVars, runVars, agentVars, TellInv, Tell, Row
<1> QED BY <1>1, <1>2, <1>3, <1>4, <1>5, <1>6 DEF Next, GeneratorStep, RunStep

LEMMA TellAlways == Spec => []TellInv
<1>1. Init => TellInv
  <2> SUFFICES ASSUME Init, NEW r \in Requests PROVE Tell(r)
    BY DEF TellInv
  <2>1. /\ sent[r] = << >> /\ events[r] = << >> /\ replays[r] = << >>
        /\ ctx[r] = NewCtx /\ finalAnswer[r] = "" /\ output[r] = ""
    BY DEF Init
  <2>2. \A log : log = << >> => DOMAIN log = {}
    OBVIOUS
  <2>3. NewCtx.route = NoRoute /\ NewCtx.degraded = FALSE /\ NewCtx.timeouts = << >>
    BY DEF NewCtx
  <2>4. Row(r).ctx = NewCtx /\ Row(r).answer = ""
    BY <2>1 DEF Row
  <2>5. \A type : OfType(sent[r], type) = {}
    BY <2>1, <2>2 DEF OfType
  <2>6. BodyOf(sent[r], "response", "") = "" /\ BodyOf(sent[r], "route", NoRoute) = NoRoute
    BY <2>5 DEF BodyOf
  <2>7. Tells(Row(r), sent[r])
    BY <2>3, <2>4, <2>6 DEF Tells
  <2> QED BY <2>1, <2>2, <2>7 DEF Tell
<1> QED BY <1>1, TellStep, TypeCorrect, LifeAlways, OrderAlways, PTL DEF Spec

\* Both sinks agree with what the client was shown, for every way a request can
\* end (obs/base.py:37-43, 73-103).
THEOREM RowsAlwaysTell == Spec => []RowsTellTheStream
<1>1. TellInv => RowsTellTheStream
  <2> SUFFICES ASSUME TellInv, NEW r \in Requests, NEW log \in {events[r], replays[r]},
                      NEW i \in DOMAIN log
               PROVE  /\ log[i].answer = LastBody(r, "response", "")
                      /\ log[i].ctx.route = LastBody(r, "route", NoRoute)
                      /\ log[i].ctx.degraded <=> log[i].ctx.timeouts # << >>
                      /\ log[i].answer = "degraded" => log[i].ctx.degraded
    BY DEF RowsTellTheStream
  <2>1. Tells(log[i], sent[r])
    BY DEF TellInv, Tell
  <2> QED BY <2>1, LastBodyIsBodyOf DEF Tells
<1> QED BY <1>1, TellAlways, PTL

-----------------------------------------------------------------------------
(* The history of a session. *)

\* A graph that has ended and whose events are pulled has handed its output over.
Handed(r) ==
  gen[r] \in {"pulling", "yielding"} /\ node[r] = "ended" /\ out[r] = << >> =>
    output[r] = BodyOf(sent[r], "response", "")
Answered(r) ==
  /\ node[r] = "ended" /\ gen[r] \in {"done", "dropped", "closed"}
  /\ output[r] = BodyOf(sent[r], "response", "")
Turns(s) == {r \in Requests : SessionOf[r] = s /\ Answered(r)}
HistInv ==
  /\ \A r \in Requests : Handed(r) /\ mem[r] \in Seq(Turns(SessionOf[r]))
  /\ \A s \in Sessions : hist[s] \in Seq(Turns(s))

\* Before its response a stream has no response.
LEMMA NoResponseYet ==
  ASSUME NEW s, UpTo(s, 2) PROVE BodyOf(s, "response", "") = ""
<1>1. OfType(s, "response") = {}
  BY DEF OfType, UpTo, Rank
<1> QED BY <1>1 DEF BodyOf

LEMMA HandedStep ==
  ASSUME TypeOK, OrderInv, OrderInv', \A q \in Requests : Handed(q), [Next]_vars,
         NEW r \in Requests
  PROVE  Handed(r)'
<1>0. /\ gen \in [Requests -> GenStates] /\ node \in [Requests -> NodeStates]
      /\ sent \in [Requests -> Seq(Frames)] /\ output \in [Requests -> Outputs]
      /\ out \in [Requests -> Seq({"route", "token", "output"})]
  BY DEF TypeOK
<1>1. ASSUME NEW q \in Requests, Start(q) \/ EnterGraph(q) PROVE Handed(r)'
  BY <1>0, <1>1 DEF Start, EnterGraph, runVars, agentVars, Handed
<1>2. ASSUME NEW q \in Requests, RunStep(q) PROVE Handed(r)'
  <2>1. /\ UNCHANGED <<gen, sent>> /\ node' = [node EXCEPT ![q] = node'[q]] /\ Emits(q)
    BY <1>2, RunStepFacts, RunEmits DEF streamVars
  <2>2. CASE r # q
    BY <1>0, <2>1, <2>2 DEF Emits, Handed
  <2>3. CASE r = q
    <3>1. \A t \in Seq({"route", "token", "output"}) : Append(t, "output") # << >>
      <4>1. \A t \in Seq({"route", "token", "output"}) :
              Len(Append(t, "output")) # Len(<< >>)
        OBVIOUS
      <4> QED BY <4>1
    <3>2. node'[r] = "ended" => out'[r] = Append(out[r], "output")
      BY <1>0, <2>1, <2>3 DEF Emits
    <3> QED BY <1>0, <3>1, <3>2 DEF Handed
  <2> QED BY <2>2, <2>3
<1>3. ASSUME NEW q \in Requests, SendRoute(q) \/ SendToken(q) PROVE Handed(r)'
  <2>1. /\ gen[q] = "pulling" /\ out[q] # << >> /\ UNCHANGED <<node, output>>
        /\ Head(out[q]) \in {"route", "token"} /\ out' = [out EXCEPT ![q] = Tail(@)]
        /\ gen' = [gen EXCEPT ![q] = "yielding"]
        /\ sent' = [sent EXCEPT ![q] = sent'[q]]
    BY <1>0, <1>3 DEF SendRoute, SendToken, Pull, Yield, agentVars
  <2>2. Progress(node[q], out[q], sent[q])
    BY <2>1 DEF OrderInv, Order
  <2>3. node[q] = "ended" => Tail(out[q]) # << >>
    BY <1>0, <2>1, <2>2, PullEvent DEF TokensThenOutput
  <2> QED BY <1>0, <2>1, <2>3 DEF Handed
<1>4. ASSUME NEW q \in Requests, SendResponse(q) PROVE Handed(r)'
  <2>1. PICK f \in Frames : f = Frame("response", output[q])
    BY <1>0, FrameType DEF FrameTypes
  <2>2. /\ gen[q] = "pulling" /\ UNCHANGED <<node, output>>
        /\ out' = [out EXCEPT ![q] = Tail(@)] /\ gen' = [gen EXCEPT ![q] = "yielding"]
        /\ sent' = [sent EXCEPT ![q] = Append(@, f)]
    BY <1>4, <2>1 DEF SendResponse, Pull, Yield, agentVars
  <2>3. f.type = "response" /\ f.body = output[q]
    BY <2>1 DEF Frame
  <2>4. InOrder(sent[q]) /\ InOrder(Append(sent[q], f))
    BY <1>0, <2>2 DEF OrderInv, Order
  <2>5. BodyOf(Append(sent[q], f), "response", "") = output[q]
    BY <1>0, <2>3, <2>4, BodyOfAppend
  <2> QED BY <1>0, <2>2, <2>5 DEF Handed
<1>5. ASSUME NEW q \in Requests, SkipEmpty(q) PROVE Handed(r)'
  <2>1. /\ gen[q] = "pulling" /\ out[q] # << >> /\ Head(out[q]) = "output"
        /\ output[q] = "" /\ out' = [out EXCEPT ![q] = Tail(@)]
        /\ UNCHANGED <<gen, sent, node, output>>
    BY <1>5 DEF SkipEmpty, Pull, streamVars, agentVars
  <2>2. Progress(node[q], out[q], sent[q])
    BY <2>1 DEF OrderInv, Order
  <2>3. BodyOf(sent[q], "response", "") = ""
    BY <1>0, <2>1, <2>2, PullEvent, NoResponseYet
  <2> QED BY <1>0, <2>1, <2>3 DEF Handed
<1>6. ASSUME NEW q \in Requests,
             \/ Resume(q) \/ GraphRaises(q) \/ GraphEnds(q) \/ Finish(q) \/ Disconnect(q)
             \/ CollectAtSession(q) \/ Collect(q) \/ Reap(q) \/ Abandon(q)
      PROVE  Handed(r)'
  <2>1. /\ UNCHANGED output
        /\ \/ UNCHANGED <<sent, node, out>> /\ gen[q] = "yielding"
              /\ gen' = [gen EXCEPT ![q] = gen'[q]]
           \/ /\ gen' = [gen EXCEPT ![q] = gen'[q]]
              /\ gen'[q] \notin {"pulling", "yielding"}
              /\ sent' = [sent EXCEPT ![q] = sent'[q]]
              /\ node' = [node EXCEPT ![q] = node'[q]]
              /\ out' = [out EXCEPT ![q] = out'[q]]
    BY <1>0, <1>6 DEF Resume, GraphRaises, GraphEnds, Finish, Disconnect,
         CollectAtSession, Collect, Reap, Abandon, Close, Yield, streamVars, runVars, agentVars
  <2> QED BY <1>0, <2>1 DEF Handed
<1>7. CASE UNCHANGED vars
  BY <1>7 DEF vars, streamVars, runVars, agentVars, Handed
<1> QED BY <1>1, <1>2, <1>3, <1>4, <1>5, <1>6, <1>7 DEF Next, GeneratorStep, RunStep

\* A turn that was answered stays so.
LEMMA AnsweredStays ==
  ASSUME TypeOK, [Next]_vars, NEW r \in Requests, Answered(r) PROVE Answered(r)'
<1>0. /\ gen \in [Requests -> GenStates] /\ node \in [Requests -> NodeStates]
      /\ sent \in [Requests -> Seq(Frames)] /\ output \in [Requests -> Outputs]
  BY DEF TypeOK
<1>1. ASSUME NEW q \in Requests, RunStep(q) PROVE Answered(r)'
  <2>1. /\ UNCHANGED <<gen, sent>> /\ node' = [node EXCEPT ![q] = node'[q]] /\ Emits(q)
        /\ node[q] # "ended"
    BY <1>1, RunStepFacts, RunEmits DEF streamVars
  <2>2. output' = [output EXCEPT ![q] = output'[q]]
    BY <1>0, <2>1 DEF Emits
  <2> QED BY <1>0, <2>1, <2>2 DEF Answered
<1>2. ASSUME NEW q \in Requests,
             \/ Start(q) \/ EnterGraph(q) \/ SendRoute(q) \/ SendToken(q) \/ SendResponse(q)
             \/ SkipEmpty(q) \/ Resume(q) \/ GraphRaises(q) \/ GraphEnds(q)
             \/ CollectAtSession(q) \/ Reap(q) \/ Disconnect(q)
      PROVE  Answered(r)'
  <2>1. /\ gen[q] \in {"idle", "session", "pulling", "yielding", "dropped_session"}
              \/ node[q] = "agent"
        /\ UNCHANGED output
        /\ gen' = [gen EXCEPT ![q] = gen'[q]] /\ sent' = [sent EXCEPT ![q] = sent'[q]]
        /\ node' = [node EXCEPT ![q] = node'[q]]
    BY <1>0, <1>2 DEF Start, EnterGraph, SendRoute, SendToken, SendResponse, SkipEmpty,
         Resume, GraphRaises, GraphEnds, CollectAtSession, Reap, Disconnect, Close, Pull,
         Yield, streamVars, runVars, agentVars
  <2> QED BY <1>0, <2>1 DEF Answered
<1>3. ASSUME NEW q \in Requests, Finish(q) \/ Collect(q) \/ Abandon(q) PROVE Answered(r)'
  <2>1. /\ UNCHANGED <<sent, node, output>>
        /\ \/ gen' = [gen EXCEPT ![q] = "closed"]
           \/ gen' = [gen EXCEPT ![q] = "dropped"]
           \/ gen' = [gen EXCEPT ![q] = "dropped_session"] /\ gen[q] = "session"
        /\ gen[q] # "closed"
    BY <1>0, <1>3 DEF Finish, Collect, Abandon, Close, runVars, agentVars
  <2> QED BY <1>0, <2>1 DEF Answered
<1>4. CASE UNCHANGED vars
  BY <1>4 DEF vars, streamVars, runVars, agentVars, Answered
<1> QED BY <1>1, <1>2, <1>3, <1>4 DEF Next, GeneratorStep, RunStep

\* The steps that load or save a history.
LEMMA HistoryMoves ==
  ASSUME TypeOK, [Next]_vars
  PROVE  \/ UNCHANGED histVars
         \/ \E r \in Requests : EnterGraph(r) \/ StartAgent(r) \/ GraphEnds(r)
<1>1. ASSUME NEW r \in Requests, RunStep(r) PROVE UNCHANGED histVars \/ StartAgent(r)
  BY <1>1 DEF RunStep, RouterStep, RouterProviderError, RouterOverBudget, RouterBadReply,
       RouterReply, RouterAttempt, AgentStep, PlanByKeywords, PlanByLLM, Synthesise,
       SynthesiseOverBudget, Critique, AgentReturns, AgentRaisesTimeout, AgentRaises,
       EmitToken, OutOfScope, BudgetExpires, Degrade, Handling, Working
<1>2. ASSUME NEW r \in Requests,
             \/ Start(r) \/ SendRoute(r) \/ SendToken(r) \/ SendResponse(r) \/ SkipEmpty(r)
             \/ Resume(r) \/ GraphRaises(r) \/ Finish(r) \/ CollectAtSession(r)
             \/ Collect(r) \/ Reap(r) \/ Disconnect(r) \/ Abandon(r)
      PROVE  UNCHANGED histVars
  BY <1>2 DEF Start, SendRoute, SendToken, SendResponse, SkipEmpty, Resume, GraphRaises,
       Finish, CollectAtSession, Collect, Reap, Disconnect, Abandon, Close, Pull
<1> QED BY <1>1, <1>2 DEF Next, GeneratorStep, RunStep, vars

LEMMA HistStep ==
  ASSUME TypeOK, OrderInv, OrderInv', HistInv, [Next]_vars PROVE HistInv'
<1>1. ASSUME NEW s, NEW t \in Seq(Turns(s)) PROVE t \in Seq(Turns(s)')
  <2>1. Turns(s) \subseteq Turns(s)'
    BY AnsweredStays DEF Turns
  <2> QED BY <2>1
<1>2. \A r \in Requests : Handed(r)'
  BY HandedStep DEF HistInv
<1>3. \A r \in Requests : SessionOf[r] \in Sessions
  BY SessionAssumption
<1>4. mem \in [Requests -> Seq(Requests)] /\ hist \in [Sessions -> Seq(Requests)]
  BY DEF TypeOK
<1>5. /\ \A r \in Requests : mem[r] \in Seq(Turns(SessionOf[r])')
      /\ \A s \in Sessions : hist[s] \in Seq(Turns(s)')
  BY <1>1 DEF HistInv
<1>6. /\ \A r \in Requests : mem'[r] \in Seq(Turns(SessionOf[r])')
      /\ \A s \in Sessions : hist'[s] \in Seq(Turns(s)')
  <2>1. CASE UNCHANGED histVars
    BY <1>5, <2>1 DEF histVars
  <2>2. ASSUME NEW r \in Requests, EnterGraph(r) PROVE <1>6!:
    <3>1. mem' = [mem EXCEPT ![r] = hist[SessionOf[r]]] /\ UNCHANGED hist
      BY <2>2 DEF EnterGraph
    <3> QED BY <1>3, <1>4, <1>5, <3>1
  <2>3. ASSUME NEW r \in Requests, StartAgent(r) PROVE <1>6!:
    <3>1. hist' = [hist EXCEPT ![SessionOf[r]] = mem[r]] /\ UNCHANGED mem
      BY <2>3 DEF StartAgent
    <3> QED BY <1>3, <1>4, <1>5, <3>1
  <2>4. ASSUME NEW r \in Requests, GraphEnds(r) PROVE <1>6!:
    <3> DEFINE S == SessionOf[r]
    <3>1. /\ mem' = [mem EXCEPT ![r] = AddMessages(mem[r], <<r>>)]
          /\ hist' = [hist EXCEPT ![S] = AddMessages(mem[r], <<r>>)]
      BY <1>4, <2>4 DEF GraphEnds
    <3>2. r \in Turns(S)'
      <4>1. PICK f \in Frames : f = Frame("done", "")
        BY FrameType DEF FrameTypes, Outputs
      <4>2. /\ gen[r] = "pulling" /\ node[r] = "ended" /\ out[r] = << >>
            /\ gen'[r] = "done" /\ UNCHANGED <<node, output>>
            /\ sent'[r] = Append(sent[r], f) /\ sent[r] \in Seq(Frames)
        BY <2>4, <4>1 DEF GraphEnds, Yield, runVars, agentVars, TypeOK
      <4>3. output[r] = BodyOf(sent[r], "response", "")
        BY <4>2 DEF HistInv, Handed
      <4>4. InOrder(sent[r]) /\ InOrder(Append(sent[r], f)) /\ f.type # "response"
        BY <4>1, <4>2 DEF OrderInv, Order, Frame
      <4>5. BodyOf(Append(sent[r], f), "response", "") = BodyOf(sent[r], "response", "")
        BY <4>2, <4>4, BodyOfAppend
      <4> QED BY <4>2, <4>3, <4>5 DEF Turns, Answered
    <3>3. mem[r] \o <<r>> \in Seq(Turns(S)')
      BY <1>5, <3>2
    <3>4. AddMessages(mem[r], <<r>>) \in Seq(Turns(S)')
      BY <3>3, KeepSuffix DEF AddMessages
    <3> QED BY <1>3, <1>4, <1>5, <3>1, <3>4
  <2> QED BY <2>1, <2>2, <2>3, <2>4, HistoryMoves
<1> QED BY <1>2, <1>6 DEF HistInv

LEMMA HistAlways == Spec => []HistInv
<1>1. Init => HistInv
  <2> SUFFICES ASSUME Init PROVE HistInv
    OBVIOUS
  <2>1. \A S : << >> \in Seq(S)
    OBVIOUS
  <2>2. \A r \in Requests : Handed(r)
    BY DEF Init, Handed
  <2> QED BY <2>1, <2>2 DEF Init, HistInv
<1> QED BY <1>1, HistStep, TypeCorrect, OrderAlways, PTL DEF Spec

\* A turn is remembered only if its graph reached the end and what it answered had
\* been handed to the client (graph/state.py:22-27, api/routes.py:66-76).
THEOREM HistoryAlwaysAnswered == Spec => []HistoryWasAnswered
<1>1. HistInv => HistoryWasAnswered
  <2> SUFFICES ASSUME HistInv, NEW s \in Sessions, NEW i \in DOMAIN hist[s]
               PROVE  LET r == hist[s][i] IN
                        /\ SessionOf[r] = s /\ node[r] = "ended"
                        /\ output[r] = LastBody(r, "response", "")
    BY DEF HistoryWasAnswered
  <2>1. hist[s][i] \in Turns(s)
    BY DEF HistInv
  <2> QED BY <2>1, LastBodyIsBodyOf DEF Turns, Answered
<1> QED BY <1>1, HistAlways, PTL

-----------------------------------------------------------------------------
(* Turns that never overlapped.  The run in flight holds the session's      *)
(* history, so what it saves is that history and its own turn.              *)

Matches(h, c) ==
  /\ Len(h) = IF Len(c) < MaxMessages THEN Len(c) ELSE MaxMessages
  /\ \A i \in 0 .. Len(h) - 1 : h[Len(h) - i] = c[Len(c) - i]

SerialInv == \A s \in Sessions : ~overlap[s] =>
  /\ Matches(hist[s], committed[s])
  /\ \A r \in Requests : SessionOf[r] = s /\ InFlight(r) =>
       /\ mem[r] = hist[s]
       /\ \A q \in Requests : SessionOf[q] = s /\ InFlight(q) => q = r

LEMMA MatchesAppend ==
  ASSUME NEW h \in Seq(Requests), NEW c \in Seq(Requests), NEW r \in Requests, Matches(h, c)
  PROVE  Matches(AddMessages(h, <<r>>), Append(c, r))
<1> DEFINE t == h \o <<r>>
<1> DEFINE d == Append(c, r)
<1> DEFINE k == AddMessages(h, <<r>>)
<1>0. MaxMessages \in Nat \ {0}
  BY BoundAssumption
<1>1. /\ t \in Seq(Requests) /\ Len(t) = Len(h) + 1 /\ t[Len(h) + 1] = r
      /\ \A i \in 1 .. Len(h) : t[i] = h[i]
  <2>1. <<r>> \in Seq(Requests) /\ Len(<<r>>) = 1 /\ <<r>>[1] = r
    OBVIOUS
  <2> QED BY <2>1
<1>2. /\ Len(d) = Len(c) + 1 /\ d[Len(c) + 1] = r
      /\ \A i \in 1 .. Len(c) : d[i] = c[i]
  OBVIOUS
<1>3. Len(h) \in Nat /\ Len(c) \in Nat /\ Len(h) <= Len(c)
  BY <1>0 DEF Matches
<1>4. k = Keep(t)
  BY DEF AddMessages
<1> HIDE DEF t, d, k
<1>5. \A i \in 0 .. Len(h) : t[Len(h) + 1 - i] = d[Len(c) + 1 - i]
  <2> SUFFICES ASSUME NEW i \in 0 .. Len(h) PROVE t[Len(h) + 1 - i] = d[Len(c) + 1 - i]
    OBVIOUS
  <2>1. CASE i = 0
    BY <1>1, <1>2, <1>3, <2>1
  <2>2. CASE i # 0
    <3> DEFINE j == i - 1
    <3>1. /\ j \in 0 .. Len(h) - 1
          /\ Len(h) - j \in 1 .. Len(h) /\ Len(c) - j \in 1 .. Len(c)
          /\ Len(h) + 1 - i = Len(h) - j /\ Len(c) + 1 - i = Len(c) - j
      BY <1>3, <2>2
    <3>2. h[Len(h) - j] = c[Len(c) - j]
      BY <3>1 DEF Matches
    <3>3. t[Len(h) - j] = h[Len(h) - j] /\ d[Len(c) - j] = c[Len(c) - j]
      BY <1>1, <1>2, <3>1
    <3> QED BY <3>1, <3>2, <3>3
  <2> QED BY <2>1, <2>2
<1>6. CASE Len(h) + 1 <= MaxMessages
  <2>1. k = t
    BY <1>0, <1>1, <1>3, <1>4, <1>6 DEF Keep
  <2>2. Len(t) = IF Len(d) < MaxMessages THEN Len(d) ELSE MaxMessages
    BY <1>0, <1>1, <1>2, <1>3, <1>6 DEF Matches
  <2>3. \A i \in 0 .. Len(t) - 1 : t[Len(t) - i] = d[Len(d) - i]
    BY <1>1, <1>2, <1>3, <1>5
  <2>4. Matches(t, d)
    BY <2>2, <2>3 DEF Matches
  <2> QED BY <2>1, <2>4 DEF k, d
<1>7. CASE Len(h) + 1 > MaxMessages
  <2>1. Len(h) = MaxMessages /\ Len(c) >= MaxMessages
    BY <1>0, <1>3, <1>7 DEF Matches
  <2>2. k = SubSeq(t, 2, MaxMessages + 1)
    BY <1>0, <1>1, <1>4, <1>7, <2>1 DEF Keep
  <2>3. /\ Len(k) = MaxMessages
        /\ \A i \in 1 .. MaxMessages : k[i] = t[i + 1]
    BY <1>0, <1>1, <2>1, <2>2
  <2>4. \A i \in 0 .. Len(k) - 1 : k[Len(k) - i] = d[Len(d) - i]
    <3> SUFFICES ASSUME NEW i \in 0 .. MaxMessages - 1
                 PROVE  k[MaxMessages - i] = d[Len(c) + 1 - i]
      BY <1>0, <1>2, <1>3, <2>3
    <3>1. /\ MaxMessages - i \in 1 .. MaxMessages /\ i \in 0 .. Len(h)
          /\ MaxMessages - i + 1 = Len(h) + 1 - i
      BY <1>0, <2>1
    <3> QED BY <1>5, <2>3, <3>1
  <2>5. Len(k) = IF Len(d) < MaxMessages THEN Len(d) ELSE MaxMessages
    BY <1>0, <1>2, <1>3, <2>1, <2>3
  <2>6. Matches(k, d)
    BY <2>4, <2>5 DEF Matches
  <2> QED BY <2>6 DEF k, d
<1> QED BY <1>0, <1>3, <1>6, <1>7

\* Only EnterGraph puts a request in flight.
LEMMA FlightMoves ==
  ASSUME TypeOK, [Next]_vars, NEW r \in Requests, InFlight(r)', ~InFlight(r)
  PROVE  EnterGraph(r)
<1>0. /\ gen \in [Requests -> GenStates] /\ node \in [Requests -> NodeStates]
  BY DEF TypeOK
<1>1. ASSUME NEW q \in Requests, RunStep(q) PROVE FALSE
  <2>1. UNCHANGED gen /\ node[q] # "none" /\ node' = [node EXCEPT ![q] = node'[q]]
    BY <1>1, RunStepFacts, RunEmits DEF streamVars
  <2> QED BY <1>0, <2>1 DEF InFlight
<1>2. ASSUME NEW q \in Requests,
             \/ Start(q) \/ SendRoute(q) \/ SendToken(q) \/ SendResponse(q) \/ SkipEmpty(q)
             \/ Resume(q) \/ GraphRaises(q) \/ GraphEnds(q) \/ Finish(q)
             \/ CollectAtSession(q) \/ Collect(q) \/ Reap(q) \/ Disconnect(q) \/ Abandon(q)
      PROVE  FALSE
  <2>1. /\ gen' = [gen EXCEPT ![q] = gen'[q]] /\ node' = [node EXCEPT ![q] = node'[q]]
        /\ gen[q] = "closed" => gen'[q] = "closed"
        /\ node[q] = "none" => node'[q] = "none"
    BY <1>0, <1>2 DEF Start, SendRoute, SendToken, SendResponse, SkipEmpty, Resume,
         GraphRaises, GraphEnds, Finish, CollectAtSession, Collect, Reap, Disconnect,
         Abandon, Close, Pull, Yield, Stopped, streamVars, runVars
  <2> QED BY <1>0, <2>1 DEF InFlight
<1>3. ASSUME NEW q \in Requests, EnterGraph(q) PROVE q = r
  <2>1. /\ gen' = [gen EXCEPT ![q] = "pulling"] /\ node' = [node EXCEPT ![q] = "router"]
    BY <1>3 DEF EnterGraph
  <2>2. gen[q] # "closed"
    BY <1>3 DEF EnterGraph
  <2> QED BY <1>0, <2>1, <2>2 DEF InFlight
<1>4. CASE UNCHANGED vars
  BY <1>4 DEF vars, streamVars, runVars, InFlight
<1> QED BY <1>1, <1>2, <1>3, <1>4 DEF Next, GeneratorStep, RunStep

LEMMA SerialStep == ASSUME TypeOK, SerialInv, [Next]_vars PROVE SerialInv'
<1>0. /\ gen \in [Requests -> GenStates]
      /\ mem \in [Requests -> Seq(Requests)] /\ hist \in [Sessions -> Seq(Requests)]
      /\ committed \in [Sessions -> Seq(Requests)] /\ overlap \in [Sessions -> BOOLEAN]
      /\ \A r \in Requests : SessionOf[r] \in Sessions
  BY SessionAssumption DEF TypeOK
<1>1. ASSUME NEW r \in Requests, InFlight(r)', \A q \in Requests : ~EnterGraph(q)
      PROVE  InFlight(r)
  BY <1>1, FlightMoves
<1>2. CASE UNCHANGED histVars /\ \A q \in Requests : ~EnterGraph(q)
  BY <1>1, <1>2 DEF SerialInv, histVars
<1>3. ASSUME NEW r \in Requests, EnterGraph(r) PROVE SerialInv'
  <2> DEFINE S == SessionOf[r]
  <2>1. /\ mem' = [mem EXCEPT ![r] = hist[S]] /\ UNCHANGED <<hist, committed>>
        /\ gen' = [gen EXCEPT ![r] = "pulling"] /\ node' = [node EXCEPT ![r] = "router"]
        /\ overlap' = [overlap EXCEPT ![S] =
             @ \/ \E q \in Requests \ {r} : SessionOf[q] = S /\ InFlight(q)]
    BY <1>3 DEF EnterGraph
  <2>2. \A q \in Requests \ {r} : InFlight(q)' <=> InFlight(q)
    BY <2>1 DEF InFlight, TypeOK
  <2> SUFFICES ASSUME NEW s \in Sessions, ~overlap'[s]
               PROVE  /\ Matches(hist[s], committed[s])
                      /\ \A p \in Requests : SessionOf[p] = s /\ InFlight(p)' =>
                           /\ mem'[p] = hist[s]
                           /\ \A q \in Requests : SessionOf[q] = s /\ InFlight(q)' => q = p
    BY <2>1 DEF SerialInv, Matches
  <2>3. CASE s # S
    BY <1>0, <2>1, <2>2, <2>3 DEF SerialInv
  <2>4. CASE s = S
    <3>1. /\ ~overlap[S]
          /\ \A q \in Requests \ {r} : SessionOf[q] = S => ~InFlight(q)
      BY <1>0, <2>1, <2>4
    <3>2. \A q \in Requests : SessionOf[q] = S /\ InFlight(q)' => q = r
      BY <2>2, <3>1
    <3>3. mem'[r] = hist[S]
      BY <1>0, <2>1
    <3> QED BY <1>0, <2>4, <3>1, <3>2, <3>3 DEF SerialInv
  <2> QED BY <2>3, <2>4
<1>4. ASSUME NEW r \in Requests, StartAgent(r) PROVE SerialInv'
  <2> DEFINE S == SessionOf[r]
  <2>1. /\ hist' = [hist EXCEPT ![S] = mem[r]] /\ UNCHANGED <<mem, committed, overlap>>
        /\ gen[r] = "pulling" /\ node[r] = "routed" /\ UNCHANGED gen
    BY <1>4 DEF StartAgent, streamVars
  <2>2. \A q \in Requests : InFlight(q)' => InFlight(q)
    <3>1. \A q \in Requests : ~EnterGraph(q)
      BY <1>0, <2>1 DEF EnterGraph
    <3> QED BY <1>1, <3>1
  <2>3. \A s \in Sessions : ~overlap[s] => hist'[s] = hist[s]
    BY <1>0, <2>1 DEF SerialInv, InFlight
  <2> QED BY <2>1, <2>2, <2>3 DEF SerialInv, Matches
<1>5. ASSUME NEW r \in Requests, GraphEnds(r) PROVE SerialInv'
  <2> DEFINE S == SessionOf[r]
  <2>1. /\ mem' = [mem EXCEPT ![r] = AddMessages(mem[r], <<r>>)]
        /\ hist' = [hist EXCEPT ![S] = AddMessages(mem[r], <<r>>)]
        /\ committed' = [committed EXCEPT ![S] = Append(committed[S], r)]
        /\ UNCHANGED overlap
        /\ gen[r] = "pulling" /\ node[r] = "ended"
        /\ gen' = [gen EXCEPT ![r] = "done"]
    BY <1>5 DEF GraphEnds, Yield
  <2>2. InFlight(r)
    BY <2>1 DEF InFlight
  <2>3. \A q \in Requests : InFlight(q)' => InFlight(q)
    <3>1. \A q \in Requests : ~EnterGraph(q)
      BY <1>0, <2>1 DEF EnterGraph
    <3> QED BY <1>1, <3>1
  <2> SUFFICES ASSUME NEW s \in Sessions, ~overlap[s]
               PROVE  /\ Matches(hist'[s], committed'[s])
                      /\ \A p \in Requests : SessionOf[p] = s /\ InFlight(p)' =>
                           /\ mem'[p] = hist'[s]
                           /\ \A q \in Requests : SessionOf[q] = s /\ InFlight(q)' => q = p
    BY <2>1 DEF SerialInv, Matches
  <2>4. CASE s # S
    <3>1. hist'[s] = hist[s] /\ committed'[s] = committed[s]
      BY <1>0, <2>1, <2>4
    <3>2. \A p \in Requests : SessionOf[p] = s => mem'[p] = mem[p]
      BY <1>0, <2>1, <2>4
    <3> QED BY <2>3, <3>1, <3>2 DEF SerialInv
  <2>5. CASE s = S
    <3>1. /\ Matches(hist[S], committed[S]) /\ mem[r] = hist[S]
          /\ \A q \in Requests : SessionOf[q] = S /\ InFlight(q) => q = r
      BY <2>2, <2>5 DEF SerialInv
    <3>2. /\ hist'[S] = AddMessages(hist[S], <<r>>)
          /\ mem'[r] = hist'[S] /\ committed'[S] = Append(committed[S], r)
      BY <1>0, <2>1, <3>1
    <3>3. Matches(hist'[S], committed'[S])
      BY <1>0, <3>1, <3>2, MatchesAppend
    <3> QED BY <2>3, <2>5, <3>1, <3>2, <3>3
  <2> QED BY <2>4, <2>5
<1> QED BY <1>2, <1>3, <1>4, <1>5, HistoryMoves

LEMMA SerialAlways == Spec => []SerialInv
<1>1. Init => SerialInv
  <2> SUFFICES ASSUME Init PROVE SerialInv
    OBVIOUS
  <2>1. \A s \in Sessions : hist[s] = << >> /\ committed[s] = << >>
    BY DEF Init
  <2>2. \A r \in Requests : ~InFlight(r)
    BY DEF Init, InFlight
  <2>3. Matches(<< >>, << >>)
    BY BoundAssumption DEF Matches
  <2> QED BY <2>1, <2>2, <2>3 DEF SerialInv
<1> QED BY <1>1, SerialStep, TypeCorrect, PTL DEF Spec

\* Turns of a session that never overlapped are all remembered, in order, up to
\* the cap (graph/state.py:22-27).
THEOREM SerialTurnsAlwaysKept == Spec => []SerialTurnsKept
<1>1. SerialInv => SerialTurnsKept
  BY DEF SerialInv, Matches, SerialTurnsKept
<1> QED BY <1>1, SerialAlways, PTL
=============================================================================
