---------------------------- MODULE RequestScope ----------------------------
(***************************************************************************)
(* What src/obs promises the rest of the service: every POST /ask opens    *)
(* one telemetry scope, and the scope ends at most once, either by writing *)
(* its row (obs.finish) or by being lost with the generator that held it.  *)
(* A row, once written, is never changed and never joined by a second one. *)
(***************************************************************************)
EXTENDS Sequences

CONSTANTS Requests, \* the POST /ask calls, named by their request_id
          Rows      \* the records events.jsonl can hold

VARIABLES phase,    \* phase[r]: where the scope of r is in its life
          events    \* events[r]: the rows of events.jsonl with r's request_id

vars == <<phase, events>>

Init == /\ phase = [r \in Requests |-> "none"]
        /\ events = [r \in Requests |-> << >>]

Open(r) == /\ phase[r] = "none"
           /\ phase' = [phase EXCEPT ![r] = "open"]
           /\ UNCHANGED events

AtMostOneRow(log) == log = << >> \/ (Len(log) = 1 /\ log[1] \in Rows)

\* The sink may fail: the scope is then over with no row.
Finish(r) == /\ phase[r] = "open"
             /\ phase' = [phase EXCEPT ![r] = "finished"]
             /\ AtMostOneRow(events'[r])
             /\ events' = [events EXCEPT ![r] = events'[r]]

Lose(r) == /\ phase[r] = "open"
           /\ phase' = [phase EXCEPT ![r] = "lost"]
           /\ UNCHANGED events

Next == \E r \in Requests : Open(r) \/ Finish(r) \/ Lose(r)

Spec == Init /\ [][Next]_vars
=============================================================================
