------------------------------ MODULE ReadOnce ------------------------------
(***************************************************************************)
(* What mcp/tools/_data.py promises its callers: a file's content is fixed *)
(* by the first read that succeeds, and every later load, until the cache  *)
(* is cleared, returns that same object.                                   *)
(***************************************************************************)
EXTENDS Naturals

CONSTANTS Readers, Files, Want

VARIABLES fixed,  \* fixed[f]: the object f stands for, 0 if none yet
          result, \* result[r]: the object r was given, 0 if none
          fresh   \* the next object's identity

vars == <<fixed, result, fresh>>

Init == /\ fixed = [f \in Files |-> 0]
        /\ result = [r \in Readers |-> 0]
        /\ fresh = 1

Fix(r) == LET f == Want[r] IN
  /\ fixed[f] = 0
  /\ fixed' = [fixed EXCEPT ![f] = fresh]
  /\ result' = [result EXCEPT ![r] = fresh]
  /\ fresh' = fresh + 1

Get(r) == LET f == Want[r] IN
  /\ fixed[f] # 0
  /\ result' = [result EXCEPT ![r] = fixed[f]]
  /\ UNCHANGED <<fixed, fresh>>

Clear == /\ fixed' = [f \in Files |-> 0]
         /\ UNCHANGED <<result, fresh>>

Next == Clear \/ \E r \in Readers : Fix(r) \/ Get(r)

Spec == Init /\ [][Next]_vars
=============================================================================
