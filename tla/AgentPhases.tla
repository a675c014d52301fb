---------------------------- MODULE AgentPhases -----------------------------
(***************************************************************************)
(* What Ask takes an agent to be: it plans, gathers, makes one synthesis   *)
(* call, and then either answers or makes one critique call and goes back  *)
(* to synthesise again, at most MaxCritique times; or, where MayReact, it  *)
(* runs a ReAct loop instead of gathering.  It may stop without an answer  *)
(* (an exception, the node budget, a client that left) at any point, and   *)
(* it never answers after a critique without a further synthesis.          *)
(***************************************************************************)
EXTENDS Naturals

CONSTANTS
  MaxCritique,  \* a natural number
  MayReact      \* may the plan lead to ReAct

VARIABLES phase, passes

vars == <<phase, passes>>

Init == phase = "plan" /\ passes = 0

Plan == phase = "plan" /\ phase' = "gather" /\ UNCHANGED passes

Synthesise == /\ phase = "gather"
              /\ phase' \in {"synthesised", "answered"}
              /\ UNCHANGED passes

Critique == /\ phase = "synthesised"
            /\ passes < MaxCritique
            /\ phase' = "gather"
            /\ passes' = passes + 1

React == MayReact /\ phase = "plan" /\ phase' = "react" /\ UNCHANGED passes

ReactEnds == phase = "react" /\ phase' = "answered" /\ UNCHANGED passes

Stop == /\ phase \in {"plan", "gather", "synthesised", "react"}
        /\ phase' = "stopped"
        /\ UNCHANGED passes

Next == Plan \/ Synthesise \/ Critique \/ React \/ ReactEnds \/ Stop

Spec == Init /\ [][Next]_vars
=============================================================================
