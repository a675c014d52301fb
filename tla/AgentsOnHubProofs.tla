------------------------- MODULE AgentsOnHubProofs --------------------------
(* Theorems of AgentsOnHub, for any agents, tasks, jobs, catalogs and        *)
(* allowlist; what ToolHubProofs proves of the hub holds of it here too.     *)
EXTENDS AgentsOnHub, ToolHubProofs

Phases == {"idle"} \union Working \union Ended

AgentTypes ==
  /\ pc \in [Tasks -> {"idle"} \union Running \union Over]
  /\ phase \in [Agents -> Phases]
  /\ stop \in [Agents -> {"none", "budget", "client"}]
  /\ evidence \in [Agents -> [from : SUBSET Tasks, partial : BOOLEAN]]

\* A step of the hub for a task, and what it leaves alone.
HubStep(t) == TaskStep(t) \/ ServerStep(t) \/ Cancel(t)

LEMMA HubStepIsOfOneTask ==
  ASSUME AgentTypes, NEW t \in Tasks, HubStep(t)
  PROVE  /\ pc[t] \in {"idle"} \union Running
         /\ pc'[t] \in Running \union Over
         /\ pc' = [pc EXCEPT ![t] = pc'[t]]
<1> USE DEF AgentTypes, Running, Over
<1>1. CASE BeginLoaded(t)
  BY <1>1 DEF BeginLoaded, Proceed
<1>2. CASE BeginListing(t)
  BY <1>2 DEF BeginListing
<1>3. CASE SetupDone(t)
  BY <1>3 DEF SetupDone, Proceed
<1>4. CASE SetupRefused(t)
  BY <1>4 DEF SetupRefused
<1>5. CASE ServerStep(t)
  BY <1>5 DEF ServerStep, ServerLists, Answer, Fail
<1>6. CASE Cancel(t)
  BY <1>6 DEF Cancel
<1> QED BY <1>1, <1>2, <1>3, <1>4, <1>5, <1>6 DEF HubStep, TaskStep

\* The agents' steps that leave the hub alone.
AgentMoves(a) ==
  \/ Handle(a) \/ Plan(a) \/ Gathered(a) \/ Bound(a) \/ Answers(a) \/ Raises(a)
  \/ Unwind(a)

\* The steps of AgentNext, by what they move.
LEMMA StepsOfAgents ==
  ASSUME [AgentNext]_allVars
  PROVE  \/ \E a \in Agents : AgentMoves(a)
         \/ /\ UNCHANGED <<pc, phase, evidence>>
            /\ (\E a \in Agents : Leave(a) \/ Expire(a)) \/ UNCHANGED stop
         \/ \E t \in Tasks :
              /\ HubStep(t)
              /\ pc[t] = "idle" => Called(t)
              /\ UNCHANGED agentVars
  BY DEF AgentNext, AgentStep, LoopStep, AgentMoves, Leave, Expire, ChildStep,
         ChildServed, CancelChild, Alive, HubStep, allVars, agentVars, vars,
         CloseHub, Redeploy

LEMMA AgentTypesAlways == AgentSpec => []AgentTypes
<1>1. AgentInit => AgentTypes
  BY DEF AgentInit, Init, AgentTypes, Phases
<1>2. AgentTypes /\ [AgentNext]_allVars => AgentTypes'
  <2> SUFFICES ASSUME AgentTypes, [AgentNext]_allVars PROVE AgentTypes'
    OBVIOUS
  <2>1. ASSUME NEW a \in Agents, AgentMoves(a) PROVE AgentTypes'
    <3> USE DEF AgentTypes, Phases, Working, Ended, Go
    <3>1. CASE Handle(a)
      BY <3>1 DEF Handle, vars
    <3>2. CASE Plan(a)
      BY <3>2 DEF Plan, vars
    <3>3. CASE Gathered(a)
      <4>1. Answered(a) \subseteq Tasks
        BY DEF Answered, Fetches
      <4> QED BY <3>3, <4>1 DEF Gathered, vars
    <3>4. CASE Bound(a)
      BY <3>4 DEF Bound, RaisedOrDegraded, vars
    <3>5. CASE Answers(a)
      BY <3>5 DEF Answers, vars
    <3>6. CASE Raises(a)
      BY <3>6 DEF Raises, RaisedOrDegraded, vars
    <3>7. CASE Unwind(a)
      BY <3>7 DEF Unwind, vars
    <3> QED BY <2>1, <3>1, <3>2, <3>3, <3>4, <3>5, <3>6, <3>7 DEF AgentMoves
  <2>2. ASSUME NEW a \in Agents, Leave(a) \/ Expire(a), UNCHANGED <<pc, phase, evidence>>
        PROVE  AgentTypes'
    BY <2>2 DEF Leave, Expire, AgentTypes
  <2>3. ASSUME NEW t \in Tasks, HubStep(t), UNCHANGED agentVars PROVE AgentTypes'
    BY <2>3, HubStepIsOfOneTask DEF AgentTypes, agentVars
  <2>4. CASE UNCHANGED <<pc, phase, evidence, stop>>
    BY <2>4 DEF AgentTypes
  <2> QED BY <2>1, <2>2, <2>3, <2>4, StepsOfAgents
<1> QED BY <1>1, <1>2, PTL DEF AgentSpec

-----------------------------------------------------------------------------
(* Nothing is left running. *)

\* A task in the hub is one its agent waits for.
Awaited == \A t \in Tasks : pc[t] \in Running => Called(t)

\* An agent that moves on has nothing in the hub that it waited for.
LEMMA LeavesNothing ==
  ASSUME AgentTypes, Awaited, NEW a \in Agents, AgentMoves(a), NEW t \in Tasks,
         Owner[t] = a
  PROVE  pc[t] \notin Running
<1> USE OwnerAssumption DEF AgentTypes
<1>1. CASE phase[a] \notin {"fetching", "binding"}
  BY <1>1 DEF Awaited, Called
<1>2. CASE Gathered(a)
  <2>1. Job[t].op = "call" => pc[t] \in Over
    BY <1>2 DEF Gathered, FetchesOver, Fetches
  <2>2. Job[t].op # "call" => ~Called(t)
    BY <1>2 DEF Gathered, Go, Called
  <2> QED BY <2>1, <2>2 DEF Awaited, Running, Over
<1>3. CASE Bound(a)
  <2>1. PICK u \in Binding(a) : pc[u] \in Over
    BY <1>3 DEF Bound, Over
  <2>2. Job[t].op = "topk" => t = u
    BY <2>1, AgentAssumption DEF Binding
  <2>3. Job[t].op = "call" => ~Called(t)
    BY <1>3 DEF Bound, Go, Called, RaisedOrDegraded
  <2>4. Job[t].op \in {"call", "topk"}
    BY JobAssumption DEF CallJobs, TopkJobs
  <2> QED BY <2>1, <2>2, <2>3, <2>4 DEF Awaited, Running, Over
<1>4. CASE Unwind(a)
  BY <1>4 DEF Unwind, Awaited, Running, Over
<1> QED BY <1>1, <1>2, <1>3, <1>4
        DEF AgentMoves, Handle, Plan, Answers, Raises, Go

LEMMA AgentMovesAlone ==
  ASSUME AgentTypes, NEW a \in Agents, AgentMoves(a)
  PROVE  /\ UNCHANGED <<vars, stop>>
         /\ phase' = [phase EXCEPT ![a] = phase'[a]]
  BY DEF AgentTypes, AgentMoves, Handle, Plan, Gathered, Bound, Answers, Raises, Unwind, Go

LEMMA AwaitedAlways == AgentSpec => []Awaited
<1>1. AgentInit => Awaited
  BY DEF AgentInit, Init, Awaited, Running
<1>2. AgentTypes /\ Awaited /\ [AgentNext]_allVars => Awaited'
  <2> SUFFICES ASSUME AgentTypes, Awaited, [AgentNext]_allVars PROVE Awaited'
    OBVIOUS
  <2>1. ASSUME NEW a \in Agents, AgentMoves(a) PROVE Awaited'
    <3> SUFFICES ASSUME NEW t \in Tasks, pc'[t] \in Running PROVE Called(t)'
      BY DEF Awaited
    <3>1. pc'[t] = pc[t]
      BY <2>1, AgentMovesAlone DEF vars
    <3>2. Owner[t] # a
      BY <2>1, <3>1, LeavesNothing
    <3>3. phase'[Owner[t]] = phase[Owner[t]]
      BY <2>1, <3>2, AgentMovesAlone, OwnerAssumption DEF AgentTypes
    <3> QED BY <3>1, <3>3 DEF Awaited, Called
  <2>2. CASE UNCHANGED <<pc, phase, evidence>>
    BY <2>2 DEF Awaited, Called
  <2>3. ASSUME NEW t \in Tasks, HubStep(t), pc[t] = "idle" => Called(t),
               UNCHANGED agentVars
        PROVE  Awaited'
    <3>1. Called(t)
      BY <2>3, HubStepIsOfOneTask DEF Awaited
    <3>2. \A u \in Tasks : Called(u)' <=> Called(u)
      BY <2>3 DEF Called, agentVars
    <3>3. \A u \in Tasks \ {t} : pc'[u] = pc[u]
      BY <2>3, HubStepIsOfOneTask DEF AgentTypes
    <3> QED BY <3>1, <3>2, <3>3 DEF Awaited
  <2> QED BY <2>1, <2>2, <2>3, StepsOfAgents
<1> QED BY <1>1, <1>2, AgentTypesAlways, PTL DEF AgentSpec

\* Whatever fails, hangs, expires or is left, an agent that has returned has
\* nothing in the hub any more (agents/logs.py:100, graph/builder.py:79).
THEOREM NothingOrphaned == AgentSpec => []NoOrphans
<1>1. Awaited => NoOrphans
  BY DEF Awaited, NoOrphans, Called, Ended
<1> QED BY <1>1, AwaitedAlways, PTL

-----------------------------------------------------------------------------
(* The evidence of an answer. *)

\* The hub under the agents is the hub.
LEMMA AgentsUseTheHub == AgentSpec => Spec
<1>1. AgentInit => Init
  BY DEF AgentInit
<1>2. ASSUME [AgentNext]_allVars PROVE [Next]_vars
  BY <1>2 DEF AgentNext, AgentStep, LoopStep, Handle, Plan, Gathered, Bound, Answers,
              Raises, Leave, Expire, Unwind, ChildStep, ChildServed, CancelChild,
              allVars, Next
<1> QED BY <1>1, <1>2, PTL DEF AgentSpec, Spec

\* An answered call was of an allowed tool.
AnswersAllowed == \A t \in Tasks : Pinned /\ pc[t] = "answered" => Job[t].name \in Allowed

LEMMA AnswersAlwaysAllowed == Spec => []AnswersAllowed
<1>1. Init => AnswersAllowed
  BY DEF Init, AnswersAllowed
<1>2. Shape /\ OnlyAllowedCalled /\ AnswersAllowed /\ [Next]_vars => AnswersAllowed'
  <2> SUFFICES ASSUME Shape, OnlyAllowedCalled, AnswersAllowed, [Next]_vars
               PROVE  AnswersAllowed'
    OBVIOUS
  <2> USE DEF Shape, TypeOK, AnswersAllowed
  <2>1. ASSUME NEW t \in Tasks, Answer(t) PROVE AnswersAllowed'
    BY <2>1 DEF Answer, OnlyAllowedCalled
  <2>2. ASSUME NEW t \in Tasks, BeginLoaded(t) \/ SetupDone(t) PROVE AnswersAllowed'
    BY <2>2 DEF BeginLoaded, SetupDone, Proceed
  <2>3. ASSUME NEW t \in Tasks, \/ BeginListing(t) \/ SetupRefused(t) \/ ServerLists(t)
                                \/ Fail(t) \/ Cancel(t)
        PROVE  AnswersAllowed'
    BY <2>3 DEF BeginListing, SetupRefused, ServerLists, Fail, Cancel
  <2>4. CASE CloseHub \/ Redeploy \/ UNCHANGED vars
    BY <2>4 DEF CloseHub, Redeploy, vars
  <2> QED BY <2>1, <2>2, <2>3, <2>4 DEF Next, TaskStep, ServerStep
<1> QED BY <1>1, <1>2, ShapeAlways, CallsAreAllowed, PTL DEF Spec

\* What an agent knows of its fetches, by where it is: none has been started, or
\* all are over and its prompt was made of those that answered.
Untouched(a) == \A t \in Fetches(a) : pc[t] = "idle"
Collected(a) ==
  /\ FetchesOver(a)
  /\ evidence[a].from = Answered(a)
  /\ evidence[a].partial = (Answered(a) # Fetches(a))
Knows(a) ==
  /\ phase[a] \in {"idle", "planning", "binding", "reacting"} => Untouched(a)
  /\ phase[a] = "synthesising" => Collected(a)
  /\ phase[a] = "answered" => Untouched(a) \/ Collected(a)

\* Idle or over, a fetch stays so while its agent does not wait for it.
LEMMA KnowsAlways == AgentSpec => [](\A a \in Agents : Knows(a))
<1>1. AgentInit => \A a \in Agents : Knows(a)
  BY DEF AgentInit, Init, Knows, Untouched, Fetches
<1>2. AgentTypes /\ Awaited /\ (\A a \in Agents : Knows(a)) /\ [AgentNext]_allVars
        => (\A a \in Agents : Knows(a))'
  <2> SUFFICES ASSUME AgentTypes, Awaited, \A b \in Agents : Knows(b),
                      [AgentNext]_allVars, NEW a \in Agents
               PROVE  Knows(a)'
    OBVIOUS
  <2> USE DEF Fetches
  <2>1. ASSUME NEW b \in Agents, AgentMoves(b), b # a PROVE Knows(a)'
    <3>1. UNCHANGED pc /\ phase'[a] = phase[a]
      BY <2>1, AgentMovesAlone DEF AgentTypes, vars
    <3>2. evidence'[a] = evidence[a]
      BY <2>1 DEF AgentTypes, AgentMoves, Handle, Plan, Gathered, Bound, Answers, Raises,
                  Unwind
    <3> QED BY <3>1, <3>2 DEF Knows, Untouched, Collected, FetchesOver, Answered
  <2>2. CASE AgentMoves(a)
    <3>0. UNCHANGED pc
      BY <2>2, AgentMovesAlone DEF vars
    <3> USE <3>0 DEF Knows, Go
    <3>1. CASE Handle(a)
      BY <3>1 DEF Handle, Untouched, AgentTypes
    <3>2. CASE Plan(a)
      BY <3>2 DEF Plan, Untouched, AgentTypes
    <3>3. CASE Gathered(a)
      BY <3>3 DEF Gathered, Collected, FetchesOver, Answered, AgentTypes
    <3>4. CASE Bound(a)
      BY <3>4 DEF Bound, RaisedOrDegraded, Untouched, AgentTypes
    <3>5. CASE Answers(a)
      BY <3>5 DEF Answers, Untouched, Collected, FetchesOver, Answered, AgentTypes
    <3>6. CASE Raises(a)
      BY <3>6 DEF Raises, RaisedOrDegraded, AgentTypes
    <3>7. CASE Unwind(a)
      BY <3>7 DEF Unwind, AgentTypes
    <3> QED BY <2>2, <3>1, <3>2, <3>3, <3>4, <3>5, <3>6, <3>7 DEF AgentMoves
  <2>3. CASE UNCHANGED <<pc, phase, evidence>>
    BY <2>3 DEF Knows, Untouched, Collected, FetchesOver, Answered
  <2>4. ASSUME NEW t \in Tasks, HubStep(t), pc[t] = "idle" => Called(t),
               UNCHANGED agentVars
        PROVE  Knows(a)'
    <3>1. Called(t)
      BY <2>4, HubStepIsOfOneTask DEF Awaited
    <3>2. CASE phase[a] # "fetching"
      <4>1. \A u \in Fetches(a) : u # t
        BY <3>1, <3>2 DEF Called
      <4>2. \A u \in Fetches(a) : pc'[u] = pc[u]
        BY <4>1, <2>4, HubStepIsOfOneTask DEF AgentTypes
      <4>3. Answered(a)' = Answered(a)
        BY <4>2 DEF Answered
      <4> QED BY <4>2, <4>3, <2>4 DEF Knows, Untouched, Collected, FetchesOver, agentVars
    <3>3. CASE phase[a] = "fetching"
      BY <3>3, <2>4 DEF Knows, agentVars
    <3> QED BY <3>2, <3>3
  <2> QED BY <2>1, <2>2, <2>3, <2>4, StepsOfAgents
<1> QED BY <1>1, <1>2, AgentTypesAlways, AwaitedAlways, PTL DEF AgentSpec

\* An answer is written from exactly the fetches the telemetry has recorded, and
\* says when one is missing, in every interleaving of failures, redeployments and
\* cancellations (agents/logs.py:92-107, mcp/hub.py:159-178).
THEOREM EvidenceAlwaysRecorded == AgentSpec => []EvidenceIsRecorded
<1>1. /\ \A a \in Agents : Knows(a)
      /\ RecordsMatchAnswers
      /\ AnswersAllowed
      => EvidenceIsRecorded
  <2> SUFFICES ASSUME \A b \in Agents : Knows(b), RecordsMatchAnswers, AnswersAllowed,
                      NEW a \in Agents, phase[a] \in {"synthesising", "answered"},
                      \E t \in Fetches(a) : pc[t] # "idle"
               PROVE  /\ \A t \in Fetches(a) :
                           t \in evidence[a].from <=> records[t] = <<Job[t].name>>
                      /\ evidence[a].partial <=> \E t \in Fetches(a) : records[t] = << >>
                      /\ Pinned => \A t \in evidence[a].from : Job[t].name \in Allowed
    BY DEF EvidenceIsRecorded
  <2>1. Collected(a)
    BY DEF Knows, Untouched
  <2>2. \A t \in Fetches(a) : /\ pc[t] = "answered" <=> records[t] = <<Job[t].name>>
                              /\ pc[t] # "answered" <=> records[t] = << >>
    <3> SUFFICES ASSUME NEW t \in Fetches(a)
                 PROVE  /\ pc[t] = "answered" <=> records[t] = <<Job[t].name>>
                        /\ pc[t] # "answered" <=> records[t] = << >>
      OBVIOUS
    <3>1. <<Job[t].name>> # << >>
      OBVIOUS
    <3> QED BY <3>1 DEF RecordsMatchAnswers, Fetches
  <2> QED BY <2>1, <2>2 DEF Collected, Answered, AnswersAllowed, Fetches
<1> QED BY <1>1, KnowsAlways, AgentsUseTheHub, RecordsAreOfAnswers, AnswersAlwaysAllowed, PTL

-----------------------------------------------------------------------------
(* The refinement of AgentPhases. *)

\* Every agent on the hub keeps to what Ask takes an agent to be
\* (agents/logs.py:36-89, agents/base.py:44-59, graph/builder.py:67-92).
THEOREM AgentsKeepPhases == AgentSpec => KeepsPhases
<1>1. AgentInit => \A a \in Agents : Contract(a)!Init
  BY DEF AgentInit, Contract!Init, Phase
<1>2. ASSUME AgentTypes, [AgentNext]_allVars, NEW a \in Agents
      PROVE  [Contract(a)!Next]_(Contract(a)!vars)
  <2> USE DEF Contract!Next, Contract!Plan, Contract!Synthesise, Contract!React,
              Contract!ReactEnds, Contract!Stop, Contract!vars
  <2>1. CASE AgentMoves(a)
    BY <2>1, <1>2 DEF AgentTypes, AgentMoves, Handle, Plan, Gathered, Bound, Answers,
                Raises, Unwind, Go, Phase, RaisedOrDegraded, Working
  <2>2. CASE phase'[a] = phase[a]
    BY <2>2 DEF Phase
  <2>3. ASSUME NEW b \in Agents, AgentMoves(b), b # a PROVE phase'[a] = phase[a]
    BY <1>2, <2>3, AgentMovesAlone DEF AgentTypes
  <2> QED BY <1>2, <2>1, <2>2, <2>3, StepsOfAgents DEF agentVars
<1>3. AgentTypes /\ [AgentNext]_allVars
        => [\A a \in Agents : [Contract(a)!Next]_(Contract(a)!vars)]_allVars
  BY <1>2
<1> QED BY <1>1, <1>3, AgentTypesAlways, PTL DEF AgentSpec, KeepsPhases
=============================================================================
