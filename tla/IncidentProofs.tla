--------------------------- MODULE IncidentProofs ---------------------------
(* Theorems of IncidentGraph, for any evidence and any caps with room in them. *)
EXTENDS IncidentGraph, ListsProofs

-----------------------------------------------------------------------------
(* The inductive invariant, in parts: what each node may assume on entry. *)

BeforeSynthesis == {"plan", "gather", "refine", "fanout"}

\* Supersteps done, by node and by rounds of the two loops; the guards that
\* bound the rounds.
LoopCounts ==
  /\ at \in BeforeSynthesis => critiques = 0
  /\ at = "plan" => steps = 0 /\ iteration = 0
  /\ at = "gather" => steps = 1 + 2 * iteration
  /\ at \in {"refine", "fanout"} => steps = 2 + 2 * iteration
  /\ at = "refine" => iteration < MaxIterations
  /\ at = "synthesize" => steps <= 3 + 2 * iteration + 2 * critiques
  /\ at = "critique" => /\ steps <= 4 + 2 * iteration + 2 * critiques
                        /\ critiques < MaxCritique

\* Every refinement adds the same amounts to what the planner chose.
BudgetGrowth ==
  /\ plan.logs <= 100 + 20 * iteration
  /\ plan.traces <= 10 + 5 * iteration

\* Where the synthesis that the critique edge looks at comes from.
SynthesisOrigin ==
  /\ at \in BeforeSynthesis => output.kind = "none" /\ synthesis.call = 0
  /\ at \in BeforeSynthesis \/ (at = "synthesize" /\ critiques = 0)
       => synthesis.confidence = "none"
  /\ at = "synthesize" => synthesis.call <= critiques
  /\ synthesis.confidence # "none" => synthesis.call >= 1

\* The findings joined: those of the branches that found something.
Found == {b \in Targets : branch[b] = "found"}
Joined ==
  /\ \A b \in Targets : branch[b] # "running"
  /\ IsSet(drill) /\ Elements(drill) \subseteq Found
  /\ Len(drill) = Cardinality(Found)

FanOutScope ==
  /\ at \in BeforeSynthesis => drill = << >>
  /\ at = "fanout" => Sent
  /\ at \in {"synthesize", "critique", "end"} => Sent /\ Joined

IInv == TypeOK /\ LoopCounts /\ BudgetGrowth /\ SynthesisOrigin /\ FanOutScope
        /\ DrillDownComplete /\ CritiqueAuditsLatest

-----------------------------------------------------------------------------
(* Facts about the helpers. *)

LEMMA ContextFields ==
  ASSUME NEW c \in Contexts
  PROVE  c.traces \subseteq Traces /\ c.services \subseteq Services
  BY DEF Contexts

LEMMA TargetsAreFinite ==
  ASSUME NEW S \in SUBSET Targets
  PROVE  IsFiniteSet(S) /\ Cardinality(S) \in Nat
<1>1. IsFiniteSet(Targets)
  BY EvidenceAssumption, FS_Union DEF Targets
<1> QED BY <1>1, FS_Subset, FS_CardinalityType

\* The branches a gathered context calls for are sent; with none the run goes
\* straight to synthesis.
LEMMA FanOutBranches ==
  ASSUME NEW c \in Contexts, FanOut(c), context' = c
  PROVE  /\ at' \in {"synthesize", "fanout"}
         /\ branch' \in [Targets -> {"unsent", "running"}]
         /\ Sent'
         /\ at' = "synthesize" => \A b \in Targets : branch'[b] = "unsent"
<1>1. PICK chosen \in SUBSET c.traces :
        /\ Cardinality(chosen) = Fewer(Cardinality(c.traces), FanOutCap)
        /\ branch' = [b \in Targets |->
             IF b \in chosen \union c.services THEN "running" ELSE "unsent"]
        /\ at' = IF chosen \union c.services = {} THEN "synthesize" ELSE "fanout"
  BY Zenon DEF FanOut
<1>2. c.services \subseteq Services /\ c.traces \subseteq Traces
  BY ContextFields
<1>3. \A b \in Targets : branch'[b] # "unsent" <=> b \in chosen \union c.services
  BY <1>1
<1>4. {b \in c.traces : branch'[b] # "unsent"} = chosen
  BY <1>2, <1>3, EvidenceAssumption DEF Targets
<1>5. \A b \in c.services : branch'[b] # "unsent"
  BY <1>2, <1>3 DEF Targets
<1>6. \A b \in Targets \ (c.traces \union c.services) : branch'[b] = "unsent"
  BY <1>3
<1>7. Sent'
  BY <1>1, <1>4, <1>5, <1>6 DEF Sent
<1> QED BY <1>1, <1>7

\* The `add` reducer over branches that ended in any order.
LEMMA MergeJoins ==
  ASSUME NEW found \in SUBSET Targets, drill = << >>, NEW merged \in Merged(found)
  PROVE  /\ merged \in Seq(Targets) /\ IsSet(merged)
         /\ Elements(merged) \subseteq found /\ Len(merged) = Cardinality(found)
<1>1. PICK order \in [1..Cardinality(found) -> found] :
        IsSet(order) /\ merged = drill \o order
  BY DEF Merged
<1>2. Cardinality(found) \in Nat
  BY TargetsAreFinite
<1>3. order \in Seq(Targets) /\ Len(order) = Cardinality(found)
  BY <1>2
<1>4. merged = order
  BY <1>1, <1>3
<1> QED BY <1>1, <1>3, <1>4 DEF Elements

\* What a prompt shows of findings joined.
LEMMA ShownOfJoined ==
  ASSUME TypeOK, Joined
  PROVE  /\ Shown(drill) \in Seq(Targets) /\ IsSet(Shown(drill))
         /\ Elements(Shown(drill)) \subseteq Found
         /\ Len(Shown(drill)) = Fewer(Cardinality(Found), DrillCap)
<1>1. drill \in Seq(Targets) /\ DrillCap \in Nat
  BY BoundAssumption DEF TypeOK
<1>2. /\ Shown(drill) \in Seq(Targets)
      /\ Len(Shown(drill)) = IF DrillCap < Len(drill) THEN DrillCap ELSE Len(drill)
      /\ \A i \in DOMAIN Shown(drill) : i \in DOMAIN drill /\ Shown(drill)[i] = drill[i]
      /\ Elements(Shown(drill)) \subseteq Elements(drill)
  BY <1>1, UptoPrefix DEF Shown
<1>3. IsSet(drill) /\ Elements(drill) \subseteq Found /\ Len(drill) = Cardinality(Found)
  BY DEF Joined
<1>4. IsSet(Shown(drill))
  BY <1>2, <1>3 DEF IsSet
<1>5. Cardinality(Found) \in Nat
  BY TargetsAreFinite DEF Found
<1>6. Len(Shown(drill)) = Fewer(Cardinality(Found), DrillCap)
  BY <1>1, <1>2, <1>3, <1>5 DEF Fewer
<1> QED BY <1>2, <1>3, <1>4, <1>6

LEMMA InitHolds == Init => IInv
<1> SUFFICES ASSUME Init PROVE IInv
  OBVIOUS
<1>1. /\ plan.logs \in Nat /\ plan.logs <= 100 /\ plan.traces \in Nat /\ plan.traces <= 10
      /\ plan \in [logs : Nat, traces : Nat]
  <2>1. plan \in [logs : 0 .. 100, traces : 0 .. 10]
    BY BudgetAssumption DEF Init
  <2> QED BY <2>1
<1>2. TypeOK
  <2>1. NoContext \in Contexts
    BY DEF NoContext, Contexts
  <2>2. context \in Contexts
    BY <2>1, Zenon DEF Init
  <2>3. output \in [kind : {"none", "report", "raw"}, drill : Seq(Targets),
                   audited : BOOLEAN]
    BY DEF Init
  <2>4. synthesis \in [confidence : {"none", "low", "high"}, call : 0 .. MaxCritique + 1]
    BY BoundAssumption DEF Init
  <2>5. /\ branch \in [Targets -> {"unsent", "running", "found", "nothing"}]
        /\ drill \in Seq(Targets)
    BY DEF Init
  <2>6. /\ at \in Nodes \union Ended
        /\ steps \in Nat /\ iteration \in 0 .. MaxIterations /\ critiques \in 0 .. MaxCritique
    BY BoundAssumption DEF Init, Nodes
  <2>7. audited \in BOOLEAN
    BY DEF Init
  <2> QED BY <1>1, <2>2, <2>3, <2>4, <2>5, <2>6, <2>7, Zenon DEF TypeOK
<1>3. LoopCounts
  BY DEF Init, LoopCounts, BeforeSynthesis
<1>4. BudgetGrowth
  <2>1. iteration = 0
    BY DEF Init
  <2> QED BY <1>1, <2>1 DEF BudgetGrowth
<1>5. SynthesisOrigin /\ FanOutScope
  BY DEF Init, SynthesisOrigin, FanOutScope, BeforeSynthesis
<1>6. DrillDownComplete /\ CritiqueAuditsLatest
  BY DEF Init, DrillDownComplete, CritiqueAuditsLatest
<1> QED BY <1>2, <1>3, <1>4, <1>5, <1>6 DEF IInv

-----------------------------------------------------------------------------
(* Preservation, one lemma per part.  The actions that end the run or only  *)
(* stop a branch share a step.                                              *)

Ends == \/ SynthesizeRaises \/ Cancel
        \/ \E b \in Targets : BranchRaises(b)

LEMMA EndsFacts ==
  ASSUME Ends
  PROVE  /\ at' \in {"raised", "cancelled"}
         /\ steps' = steps \/ steps' = steps + 1
         /\ UNCHANGED <<iteration, plan, context, branch, drill, synthesis,
                        critiques, output, audited>>
  BY DEF Ends, SynthesizeRaises, Cancel, BranchRaises, CallEnds, Superstep

\* Gathering either sends branches, or refines or fails with none sent.
LEMMA GatherFacts ==
  ASSUME IInv, GatherContext
  PROVE  /\ at = "gather" /\ steps' = steps + 1
         /\ at' \in {"synthesize", "fanout", "refine", "raised"}
         /\ at' = "refine" => iteration < MaxIterations
         /\ context' \in Contexts
         /\ branch' \in [Targets -> {"unsent", "running", "found", "nothing"}]
         /\ at' \in {"synthesize", "fanout"} => Sent'
         /\ at' = "synthesize" => \A b \in Targets : branch'[b] = "unsent"
         /\ UNCHANGED <<iteration, plan, drill, synthesis, critiques, output,
                        audited>>
<1> DEFINE Text == /\ at' = IF ~Validating /\ iteration < MaxIterations
                            THEN "refine" ELSE "raised"
                   /\ UNCHANGED branch
<1> DEFINE Malformed == at' = "raised" /\ UNCHANGED branch
<1>1. PICK c \in Contexts : context' = c /\ (FanOut(c) \/ Malformed \/ Text)
  BY Zenon DEF GatherContext
<1>2. /\ at = "gather" /\ steps' = steps + 1
      /\ UNCHANGED <<iteration, plan, drill, synthesis, critiques, output, audited>>
  BY DEF GatherContext, Superstep
<1>3. CASE FanOut(c)
  BY <1>1, <1>2, <1>3, FanOutBranches
<1>4. CASE Malformed \/ Text
  BY <1>1, <1>2, <1>4 DEF IInv, TypeOK
<1> QED BY <1>1, <1>3, <1>4

LEMMA ShownInType == ASSUME IInv PROVE Shown(drill) \in Seq(Targets)
<1>1. drill \in Seq(Targets) /\ DrillCap \in Nat
  BY BoundAssumption DEF IInv, TypeOK
<1> QED BY <1>1, UptoPrefix DEF Shown

LEMMA TypeStep == ASSUME IInv, [Next]_vars PROVE TypeOK'
<1> USE BoundAssumption DEF IInv, TypeOK, Nodes, Ended
<1>1. CASE PlanNode
  BY <1>1 DEF PlanNode, Superstep
<1>2. CASE GatherContext
  BY <1>2, GatherFacts
<1>3. CASE RefinePlan
  BY <1>3 DEF RefinePlan, Superstep, LoopCounts
<1>4. ASSUME NEW b \in Targets, BranchEnds(b) PROVE TypeOK'
  BY <1>4 DEF BranchEnds, CallEnds
<1>5. CASE Join
  <2>1. drill = << >>
    BY <1>5 DEF Join, Superstep, FanOutScope, BeforeSynthesis
  <2>2. drill' \in Seq(Targets)
    BY <1>5, <2>1, MergeJoins DEF Join
  <2> QED BY <1>5, <2>2 DEF Join, Superstep
<1>6. CASE SynthesizeReport
  <2>1. PICK confidence \in {"low", "high"} :
          /\ synthesis' = [confidence |-> confidence, call |-> critiques + 1]
          /\ AfterSynthesis(synthesis')
    BY <1>6 DEF SynthesizeReport
  <2>2. output' \in [kind : {"none", "report", "raw"}, drill : Seq(Targets),
                     audited : BOOLEAN]
    BY <1>6, ShownInType DEF SynthesizeReport
  <2>3. synthesis' \in [confidence : {"none", "low", "high"}, call : 0 .. MaxCritique + 1]
    BY <2>1
  <2> QED BY <1>6, <2>1, <2>2, <2>3 DEF SynthesizeReport, Superstep, AfterSynthesis
<1>7. CASE SynthesizeRaw
  <2>1. output' \in [kind : {"none", "report", "raw"}, drill : Seq(Targets),
                     audited : BOOLEAN]
    BY <1>7, ShownInType DEF SynthesizeRaw
  <2> QED BY <1>7, <2>1 DEF SynthesizeRaw, Superstep, AfterSynthesis
<1>8. CASE SelfCritique
  <2>1. output' \in [kind : {"none", "report", "raw"}, drill : Seq(Targets),
                     audited : BOOLEAN] /\ audited' \in BOOLEAN
    BY <1>8 DEF SelfCritique
  <2>2. /\ at' = "synthesize" /\ critiques' \in 0 .. MaxCritique /\ steps' \in Nat
        /\ UNCHANGED <<iteration, plan, context, branch, drill, synthesis>>
    <3>1. critiques < MaxCritique /\ at = "critique"
      BY <1>8 DEF SelfCritique, Superstep, LoopCounts
    <3> QED BY <1>8, <3>1 DEF SelfCritique, Superstep
  <2> QED BY <2>1, <2>2
<1>9. CASE Ends
  BY <1>9, EndsFacts
<1>10. CASE UNCHANGED vars
  BY <1>10 DEF vars
<1> QED BY <1>1, <1>2, <1>3, <1>4, <1>5, <1>6, <1>7, <1>8, <1>9, <1>10
        DEF Next, Progress, Ends

LEMMA LoopCountsStep == ASSUME IInv, [Next]_vars PROVE LoopCounts'
<1> USE DEF LoopCounts, BeforeSynthesis
<1>0. /\ steps \in Nat /\ iteration \in Nat /\ critiques \in Nat /\ MaxCritique \in Nat
      /\ LoopCounts
  BY BoundAssumption DEF IInv, TypeOK
<1>1. CASE PlanNode
  BY <1>0, <1>1 DEF PlanNode, Superstep
<1>2. CASE GatherContext
  BY <1>0, <1>2, GatherFacts
<1>3. CASE RefinePlan
  BY <1>0, <1>3 DEF RefinePlan, Superstep
<1>4. ASSUME NEW b \in Targets, BranchEnds(b) PROVE LoopCounts'
  BY <1>0, <1>4 DEF BranchEnds, CallEnds
<1>5. CASE Join
  BY <1>0, <1>5 DEF Join, Superstep
<1>6. CASE SynthesizeReport \/ SynthesizeRaw
  <2>1. /\ at = "synthesize" /\ steps' = steps + 1 /\ UNCHANGED <<iteration, critiques>>
        /\ \/ at' = "critique" /\ critiques < MaxCritique
           \/ at' = "end"
    BY <1>6 DEF SynthesizeReport, SynthesizeRaw, Superstep, AfterSynthesis, ShouldCritique
  <2> QED BY <1>0, <2>1
<1>7. CASE SelfCritique
  BY <1>0, <1>7 DEF SelfCritique, Superstep
<1>8. CASE Ends
  BY <1>8, EndsFacts
<1>9. CASE UNCHANGED vars
  BY <1>0, <1>9 DEF vars
<1> QED BY <1>1, <1>2, <1>3, <1>4, <1>5, <1>6, <1>7, <1>8, <1>9
        DEF Next, Progress, Ends

LEMMA BudgetStep == ASSUME IInv, [Next]_vars PROVE BudgetGrowth'
<1> USE DEF IInv, TypeOK, BudgetGrowth
<1>1. CASE RefinePlan
  <2>1. plan'.logs = plan.logs + 20 /\ plan'.traces = plan.traces + 5
    BY <1>1 DEF RefinePlan
  <2>2. iteration' = iteration + 1 /\ iteration \in Nat
    BY <1>1, BoundAssumption DEF RefinePlan
  <2> QED BY <2>1, <2>2
<1>2. ASSUME UNCHANGED <<plan, iteration>> PROVE BudgetGrowth'
  BY <1>2
<1>3. PlanNode \/ Join \/ SynthesizeReport \/ SynthesizeRaw \/ SelfCritique \/ UNCHANGED vars
        => UNCHANGED <<plan, iteration>>
  BY DEF PlanNode, Join, SynthesizeReport, SynthesizeRaw, SelfCritique, vars
<1>4. ASSUME NEW b \in Targets, BranchEnds(b) PROVE UNCHANGED <<plan, iteration>>
  BY <1>4 DEF BranchEnds, CallEnds
<1>5. Ends \/ GatherContext => UNCHANGED <<plan, iteration>>
  BY EndsFacts, GatherFacts
<1> QED BY <1>1, <1>2, <1>3, <1>4, <1>5 DEF Next, Progress, Ends

LEMMA OriginStep ==
  ASSUME IInv, [Next]_vars
  PROVE  SynthesisOrigin' /\ CritiqueAuditsLatest'
<1> DEFINE P == SynthesisOrigin /\ CritiqueAuditsLatest
<1> USE BoundAssumption DEF IInv, SynthesisOrigin, CritiqueAuditsLatest, BeforeSynthesis
<1>0. critiques \in Nat /\ synthesis.call \in Nat
  BY DEF TypeOK
<1>1. CASE PlanNode \/ RefinePlan \/ Join
  BY <1>0, <1>1 DEF PlanNode, RefinePlan, Join, Superstep, LoopCounts
<1>2. CASE GatherContext
  BY <1>0, <1>2, GatherFacts
<1>3. ASSUME NEW b \in Targets, BranchEnds(b) PROVE P'
  BY <1>3 DEF BranchEnds, CallEnds
<1>4. CASE SynthesizeReport
  <2>1. /\ at = "synthesize" /\ at' \in {"critique", "end"} /\ UNCHANGED critiques
        /\ output'.kind = "report" /\ synthesis'.call = critiques + 1
    BY <1>4 DEF SynthesizeReport, Superstep, AfterSynthesis
  <2> QED BY <1>0, <2>1
<1>5. CASE SynthesizeRaw
  <2>1. /\ output'.kind = "raw" /\ UNCHANGED <<synthesis, critiques>>
        /\ at = "synthesize" /\ at' \in {"critique", "end"}
    BY <1>5 DEF SynthesizeRaw, Superstep, AfterSynthesis
  <2>2. at' = "critique" => synthesis.confidence = "low"
    BY <1>5, <2>1 DEF SynthesizeRaw, AfterSynthesis, ShouldCritique
  <2> QED BY <1>0, <2>1, <2>2
<1>6. CASE SelfCritique
  <2>1. /\ at = "critique" /\ at' = "synthesize" /\ critiques' = critiques + 1
        /\ UNCHANGED synthesis
    BY <1>6 DEF SelfCritique, Superstep
  <2> QED BY <1>0, <2>1
<1>7. CASE Ends
  BY <1>7, EndsFacts
<1>8. CASE UNCHANGED vars
  BY <1>8 DEF vars
<1> QED BY <1>1, <1>2, <1>3, <1>4, <1>5, <1>6, <1>7, <1>8 DEF Next, Progress, Ends

\* The parts of the invariant that speak of the branches do so through these.
LEMMA BranchesSame ==
  ASSUME UNCHANGED <<context, branch>>
  PROVE  /\ Sent' <=> Sent
         /\ Found' = Found
         /\ (\A b \in Targets : branch'[b] # "running") <=> \A b \in Targets : branch[b] # "running"
  BY DEF Sent, Found

LEMMA FanOutStep ==
  ASSUME IInv, [Next]_vars
  PROVE  FanOutScope' /\ DrillDownComplete'
<1> DEFINE P == FanOutScope /\ DrillDownComplete
<1> USE DEF IInv
<1>0. at \in BeforeSynthesis => output.kind = "none"
  BY DEF SynthesisOrigin
<1>1. CASE PlanNode \/ RefinePlan
  <2>1. /\ at \in BeforeSynthesis /\ at' = "gather" /\ UNCHANGED <<drill, output>>
    BY <1>1 DEF PlanNode, RefinePlan, Superstep, BeforeSynthesis
  <2> QED BY <1>0, <2>1 DEF FanOutScope, DrillDownComplete, BeforeSynthesis
<1>2. CASE GatherContext
  <2>1. drill' = << >> /\ output'.kind = "none"
    BY <1>0, <1>2, GatherFacts DEF FanOutScope, BeforeSynthesis
  <2>2. at' \in {"synthesize", "fanout"} => Sent'
    BY <1>2, GatherFacts
  <2>3. ASSUME at' = "synthesize" PROVE Joined'
    <3>1. \A b \in Targets : branch'[b] = "unsent"
      BY <1>2, <2>3, GatherFacts
    <3>2. Found' = {}
      BY <3>1 DEF Found
    <3>3. Cardinality(Found') = 0
      BY <3>2, FS_EmptySet
    <3> QED BY <2>1, <3>1, <3>3 DEF Joined, IsSet, Elements
  <2>4. at' \in {"synthesize", "fanout", "refine", "raised"}
    BY <1>2, GatherFacts
  <2> QED BY <2>1, <2>2, <2>3, <2>4 DEF FanOutScope, DrillDownComplete
<1>3. ASSUME NEW b \in Targets, BranchEnds(b) PROVE P'
  <2>1. /\ at = "fanout" /\ at' = "fanout" /\ branch[b] = "running"
        /\ UNCHANGED <<context, drill, output>>
    BY <1>3 DEF BranchEnds, CallEnds
  <2>2. \A a \in Targets : branch'[a] = "unsent" <=> branch[a] = "unsent"
    BY <1>3 DEF BranchEnds, CallEnds, TypeOK
  <2>3. Sent
    BY <2>1 DEF FanOutScope
  <2>4. context.traces \subseteq Targets /\ context.services \subseteq Targets
    BY ContextFields DEF TypeOK, Targets
  <2>5. {a \in context.traces : branch'[a] # "unsent"}
          = {a \in context.traces : branch[a] # "unsent"}
    BY <2>2, <2>4
  <2>6. Sent'
    BY <2>1, <2>2, <2>3, <2>4, <2>5 DEF Sent
  <2> QED BY <1>0, <2>1, <2>6 DEF FanOutScope, DrillDownComplete, BeforeSynthesis
<1>4. CASE Join
  <2>1. /\ at = "fanout" /\ at' = "synthesize"
        /\ \A b \in Targets : branch[b] # "running"
        /\ UNCHANGED <<branch, context, output>>
        /\ drill' \in Merged(Found)
    BY <1>4, Zenon DEF Join, Superstep, Found
  <2>2. drill = << >> /\ Sent
    BY <2>1 DEF FanOutScope, BeforeSynthesis
  <2>3. IsSet(drill') /\ Elements(drill') \subseteq Found /\ Len(drill') = Cardinality(Found)
    BY <2>1, <2>2, MergeJoins DEF Found
  <2>4. Sent' /\ Joined'
    BY <2>1, <2>2, <2>3, BranchesSame DEF Joined, IsSet, Elements
  <2> QED BY <1>0, <2>1, <2>4 DEF FanOutScope, DrillDownComplete, BeforeSynthesis
<1>5. CASE SynthesizeReport \/ SynthesizeRaw \/ SelfCritique
  <2>1. /\ at \in {"synthesize", "critique"} /\ at' \in {"synthesize", "critique", "end"}
        /\ UNCHANGED <<branch, context, drill>>
    BY <1>5 DEF SynthesizeReport, SynthesizeRaw, SelfCritique, Superstep, AfterSynthesis
  <2>2. Sent /\ Joined
    BY <2>1 DEF FanOutScope
  <2>3. Sent' /\ Joined'
    BY <2>1, <2>2, BranchesSame DEF Joined, IsSet, Elements
  <2>4. \/ output'.drill = Shown(drill)
        \/ output'.kind = output.kind /\ output'.drill = output.drill
    BY <1>5 DEF SynthesizeReport, SynthesizeRaw, SelfCritique, TypeOK
  <2>5. CASE output'.drill = Shown(drill)
    <3>1. /\ IsSet(output'.drill) /\ Elements(output'.drill) \subseteq Found
          /\ Len(output'.drill) = Fewer(Cardinality(Found), DrillCap)
      BY <2>2, <2>5, ShownOfJoined
    <3> QED BY <2>1, <2>3, <3>1, BranchesSame
            DEF FanOutScope, BeforeSynthesis, DrillDownComplete, Joined, Found, IsSet, Elements
  <2>6. CASE output'.kind = output.kind /\ output'.drill = output.drill
    <3>1. DrillDownComplete'
      BY <2>1, <2>6, BranchesSame DEF DrillDownComplete, Found, IsSet, Elements
    <3> QED BY <2>1, <2>3, <3>1 DEF FanOutScope, BeforeSynthesis
  <2> QED BY <2>4, <2>5, <2>6
<1>6. CASE Ends
  <2>1. at' \in {"raised", "cancelled"} /\ UNCHANGED <<branch, context, drill, output>>
    BY <1>6, EndsFacts
  <2>2. DrillDownComplete'
    BY <2>1, BranchesSame DEF DrillDownComplete, Found, IsSet, Elements
  <2> QED BY <2>1, <2>2 DEF FanOutScope, BeforeSynthesis
<1>7. CASE UNCHANGED vars
  <2>1. UNCHANGED <<at, branch, context, drill, output>>
    BY <1>7 DEF vars
  <2> QED BY <2>1, BranchesSame
          DEF FanOutScope, DrillDownComplete, Joined, Found, IsSet, Elements
<1> QED BY <1>1, <1>2, <1>3, <1>4, <1>5, <1>6, <1>7 DEF Next, Progress, Ends

LEMMA InvariantAlways == Spec => []IInv
<1>1. IInv /\ [Next]_vars => IInv'
  BY TypeStep, LoopCountsStep, BudgetStep, OriginStep, FanOutStep DEF IInv
<1> QED BY InitHolds, <1>1, PTL DEF Spec

-----------------------------------------------------------------------------
(* The theorems. *)

\* The state of an investigation keeps its types, the pass counter its cap
\* among them (agents/incident.py:82-109, 234-247).
THEOREM TypeCorrect == Spec => []TypeOK
<1>1. IInv => TypeOK
  BY DEF IInv
<1> QED BY <1>1, InvariantAlways, PTL

\* Whatever the evidence, the refine loop, the fan-out and the critique loop
\* together stay below langgraph's recursion limit, given RoomAssumption
\* (agents/incident.py:159-193).
THEOREM LimitNeverReached == Spec => []WithinRecursionLimit
<1>1. IInv => WithinRecursionLimit
  BY BoundAssumption, RoomAssumption
     DEF IInv, TypeOK, LoopCounts, BeforeSynthesis, WithinRecursionLimit, Nodes
<1> QED BY <1>1, InvariantAlways, PTL

\* The budgets that refinement raises without validation never leave the
\* bounds of the Plan schema (agents/incident.py:291-301, planner.py:44-48).
THEOREM BudgetsStayInSchema == Spec => []BudgetsWithinSchema
<1>1. IInv => BudgetsWithinSchema
  BY BoundAssumption, RoomAssumption
     DEF IInv, TypeOK, BudgetGrowth, BudgetsWithinSchema, LogLimit, TraceLimit
<1> QED BY <1>1, InvariantAlways, PTL

\* Whatever the evidence and in whatever order the branches end, every answer was
\* written after all branches sent had ended, and with the findings of those that
\* found something, each once, as many as a prompt shows: an investigation with
\* more findings than that answers from only so many of them
\* (agents/incident.py:102-103, 182-184, 376).
THEOREM DrillDownIsComplete == Spec => []DrillDownComplete
<1>1. IInv => DrillDownComplete
  BY DEF IInv
<1> QED BY <1>1, InvariantAlways, PTL

\* Under any cap of passes, a critique audits the report just written, or, behind
\* a reply that did not parse, one that an earlier pass wrote: it is never run
\* before there is a report (agents/incident.py:234-247, 401-410, 413-463).
THEOREM CritiqueIsOfLatest == Spec => []CritiqueAuditsLatest
<1>1. IInv => CritiqueAuditsLatest
  BY DEF IInv
<1> QED BY <1>1, InvariantAlways, PTL

\* An investigation is an agent as Ask assumes it: it plans, gathers and
\* synthesises, and answers only with a synthesis after its last critique
\* (agents/incident.py:159-193).
THEOREM KeepsAgentContract == Spec => KeepsContract
<1>1. Init => Contract!Init
  BY DEF Init, Contract!Init, Phase
<1>2. IInv /\ [Next]_vars => [Contract!Next]_(Contract!vars)
  <2> SUFFICES ASSUME IInv, [Next]_vars PROVE [Contract!Next]_(Contract!vars)
    OBVIOUS
  <2> USE DEF Phase
  <2>1. CASE PlanNode
    BY <2>1 DEF PlanNode, Superstep, Contract!Next, Contract!Plan
  <2>2. CASE GatherContext
    BY <2>2, GatherFacts DEF Contract!Next, Contract!Stop, Contract!vars
  <2>3. CASE RefinePlan \/ Join
    BY <2>3 DEF RefinePlan, Join, Superstep, Contract!vars
  <2>4. ASSUME NEW b \in Targets, BranchEnds(b) PROVE UNCHANGED Contract!vars
    BY <2>4 DEF BranchEnds, CallEnds, Contract!vars
  <2>5. CASE SynthesizeReport \/ SynthesizeRaw
    BY <2>5 DEF SynthesizeReport, SynthesizeRaw, Superstep, AfterSynthesis,
                Contract!Next, Contract!Synthesise
  <2>6. CASE SelfCritique
    BY <2>6 DEF SelfCritique, Superstep, IInv, LoopCounts, Contract!Next,
                Contract!Critique
  <2>7. CASE Ends
    BY <2>7, EndsFacts
       DEF Ends, SynthesizeRaises, Cancel, BranchRaises, CallEnds, Superstep, Nodes,
           Contract!Next, Contract!Stop
  <2>8. CASE UNCHANGED vars
    BY <2>8 DEF vars, Contract!vars
  <2> QED BY <2>1, <2>2, <2>3, <2>4, <2>5, <2>6, <2>7, <2>8 DEF Next, Progress, Ends
<1> QED BY <1>1, <1>2, InvariantAlways, PTL DEF Spec, KeepsContract, Contract!Spec
=============================================================================
