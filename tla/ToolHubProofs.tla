---------------------------- MODULE ToolHubProofs ----------------------------
(* Theorems of ToolHub, for any tasks, jobs, catalogs and allowlist. *)
EXTENDS ToolHub, ListsProofs

\* Every list the hub or a task holds is one the server has advertised; byName is
\* typed by tools.
Shape ==
  /\ TypeOK
  /\ tools \in Catalogs \union {<< >>}
  /\ raw \in [Tasks -> Catalogs \union {<< >>}]
  /\ \A t \in Tasks : pc[t] = "listed" => raw[t] \in Catalogs
  /\ byName = Elements(tools)
  /\ \A t \in Tasks : pc[t] = "invoking" => Job[t].op = "call" /\ Job[t].name \in Names
  /\ \A t \in Tasks : pc[t] # "bound" => bound[t] = << >>

LEMMA JobIsEither ==
  ASSUME NEW t \in Tasks
  PROVE  /\ Job[t].op = "call" => Job[t].name \in Names
         /\ Job[t].op = "topk" => Job[t].k \in Nat /\ Job[t].alwaysOn \in Seq(Names)
  BY JobAssumption DEF CallJobs, TopkJobs

LEMMA CatalogIsList ==
  ASSUME NEW c \in Catalogs
  PROVE  c \in Seq(Names) /\ Elements(c) \subseteq Names
<1>1. c \in Seq(Names)
  BY CatalogAssumption
<1> QED BY <1>1 DEF Elements

\* What topk returns, of any catalog and its own index.
LEMMA TopkGives ==
  ASSUME NEW catalog \in Seq(Names), NEW k \in Nat, NEW alwaysOn \in Seq(Names),
         NEW b, b = Topk(catalog, Elements(catalog), k, alwaysOn)
  PROVE  b \in Seq(Names) /\ Selects(b, catalog, k, alwaysOn)
<1> DEFINE known == Elements(catalog)
<1> DEFINE pinned == Elements(alwaysOn) \cap known
<1> DEFINE P == Once(alwaysOn, pinned)
<1> DEFINE W == Once(catalog, known \ pinned)
<1> DEFINE list == P \o W
<1>1. P \in Seq(Names) /\ IsSet(P) /\ Elements(P) = pinned
  BY OnceGives
<1>2. W \in Seq(Names) /\ IsSet(W) /\ Elements(W) = known \ pinned
  BY OnceGives
<1>3. b = Upto(list, k)
  BY DEF Topk
<1>4. pinned \subseteq known
  OBVIOUS
<1> HIDE DEF P, W, pinned, known
<1>5. /\ list \in Seq(Names) /\ DOMAIN list = 1..(Len(P) + Len(W))
      /\ Len(list) = Len(P) + Len(W)
      /\ Len(P) \in Nat /\ Len(W) \in Nat
      /\ DOMAIN P = 1..Len(P) /\ DOMAIN W = 1..Len(W)
      /\ \A i \in 1..(Len(P) + Len(W)) :
           list[i] = IF i <= Len(P) THEN P[i] ELSE W[i - Len(P)]
  BY <1>1, <1>2
<1> HIDE DEF list
<1>6. \A i \in DOMAIN list :
        IF i <= Len(P) THEN i \in DOMAIN P /\ list[i] = P[i] /\ list[i] \in pinned
        ELSE /\ i - Len(P) \in DOMAIN W /\ list[i] = W[i - Len(P)]
             /\ list[i] \in known \ pinned
  <2> SUFFICES ASSUME NEW i \in DOMAIN list
               PROVE  IF i <= Len(P) THEN i \in DOMAIN P /\ list[i] = P[i] /\ list[i] \in pinned
                      ELSE /\ i - Len(P) \in DOMAIN W /\ list[i] = W[i - Len(P)]
                           /\ list[i] \in known \ pinned
    OBVIOUS
  <2>1. CASE i <= Len(P)
    <3>1. i \in DOMAIN P /\ list[i] = P[i]
      BY <1>5, <2>1
    <3>2. P[i] \in pinned
      BY <1>1, <3>1 DEF Elements
    <3> QED BY <2>1, <3>1, <3>2
  <2>2. CASE ~(i <= Len(P))
    <3>1. i - Len(P) \in DOMAIN W /\ list[i] = W[i - Len(P)]
      BY <1>5, <2>2
    <3>2. W[i - Len(P)] \in known \ pinned
      BY <1>2, <3>1 DEF Elements
    <3> QED BY <2>2, <3>1, <3>2
  <2> QED BY <2>1, <2>2
<1>7. IsSet(list)
  <2> SUFFICES ASSUME NEW i \in DOMAIN list, NEW j \in DOMAIN list, list[i] = list[j]
               PROVE  i = j
    BY DEF IsSet
  <2>1. i <= Len(P) <=> j <= Len(P)
    BY <1>6
  <2>2. CASE i <= Len(P)
    BY <1>1, <1>6, <2>1, <2>2 DEF IsSet
  <2>3. CASE ~(i <= Len(P))
    <3>1. i - Len(P) = j - Len(P)
      BY <1>2, <1>6, <2>1, <2>3 DEF IsSet
    <3> QED BY <1>5, <3>1
  <2> QED BY <2>2, <2>3
<1>8. Elements(list) = known
  <2>1. ASSUME NEW x \in known PROVE \E i \in DOMAIN list : list[i] = x
    <3>1. CASE x \in pinned
      <4>1. PICK i \in DOMAIN P : P[i] = x
        BY <1>1, <3>1 DEF Elements
      <4>2. i \in DOMAIN list /\ list[i] = P[i]
        BY <1>5
      <4> QED BY <4>1, <4>2
    <3>2. CASE x \notin pinned
      <4>1. PICK i \in DOMAIN W : W[i] = x
        BY <1>2, <3>2 DEF Elements
      <4>2. i + Len(P) \in DOMAIN list /\ list[i + Len(P)] = W[i]
        BY <1>5
      <4> QED BY <4>1, <4>2
    <3> QED BY <3>1, <3>2
  <2>2. \A i \in DOMAIN list : list[i] \in known
    BY <1>4, <1>6
  <2> QED BY <2>1, <2>2 DEF Elements
<1>9. Cardinality(known) = Len(list) /\ Len(list) \in Nat
  <2>1. /\ IsFiniteSet(DOMAIN list) /\ Cardinality(DOMAIN list) = Len(list)
        /\ Len(list) \in Nat
    BY <1>5, DomainIsFinite
  <2>2. Apart(list, DOMAIN list) /\ At(list, DOMAIN list) = known
    BY <1>7, <1>8 DEF Apart, At, IsSet, Elements
  <2> QED BY <2>1, <2>2, ApartAreAsMany
<1>10. /\ b \in Seq(Names)
       /\ Len(b) = IF k < Len(list) THEN k ELSE Len(list)
       /\ \A i \in DOMAIN b : i \in DOMAIN list /\ b[i] = list[i]
       /\ Elements(b) \subseteq Elements(list)
  BY <1>3, <1>5, UptoPrefix
<1>11. DOMAIN b = 1..Len(b)
  BY <1>10
<1>12. IsSet(b)
  BY <1>7, <1>10 DEF IsSet
<1>13. \A i, j \in DOMAIN b : b[j] \in pinned /\ i < j => b[i] \in pinned
  <2> SUFFICES ASSUME NEW i \in DOMAIN b, NEW j \in DOMAIN b, b[j] \in pinned, i < j
               PROVE  b[i] \in pinned
    OBVIOUS
  <2>1. i \in DOMAIN list /\ j \in DOMAIN list /\ list[j] \in pinned /\ b[i] = list[i]
    BY <1>10
  <2>2. j <= Len(P)
    BY <1>6, <2>1
  <2>3. i <= Len(P)
    BY <1>5, <2>1, <2>2
  <2> QED BY <1>6, <2>1, <2>3
<1>14. pinned \subseteq Elements(b) \/ Elements(b) \subseteq pinned
  <2>1. CASE Len(P) <= Len(b)
    <3> SUFFICES ASSUME NEW x \in pinned PROVE x \in Elements(b)
      OBVIOUS
    <3>1. PICK i \in DOMAIN P : P[i] = x
      BY <1>1 DEF Elements
    <3>2. i \in DOMAIN b /\ i \in DOMAIN list /\ i <= Len(P)
      BY <1>5, <1>11, <1>10, <2>1
    <3>3. b[i] = x
      BY <1>6, <1>10, <3>1, <3>2
    <3> QED BY <3>2, <3>3 DEF Elements
  <2>2. CASE Len(b) < Len(P)
    <3>1. \A i \in DOMAIN b : b[i] \in pinned
      <4> SUFFICES ASSUME NEW i \in DOMAIN b PROVE b[i] \in pinned
        OBVIOUS
      <4>1. i \in DOMAIN list /\ b[i] = list[i] /\ i <= Len(P)
        BY <1>5, <1>10, <1>11, <2>2
      <4> QED BY <1>6, <4>1
    <3> QED BY <3>1 DEF Elements
  <2>3. Len(b) \in Nat /\ Len(P) \in Nat
    BY <1>5, <1>10
  <2> QED BY <2>1, <2>2, <2>3
<1>15. Elements(b) \subseteq known
  BY <1>8, <1>10
<1>16. Len(b) = IF k < Cardinality(known) THEN k ELSE Cardinality(known)
  BY <1>9, <1>10
<1>17. Selects(b, catalog, k, alwaysOn)
  BY <1>12, <1>13, <1>14, <1>15, <1>16, Zenon DEF Selects, pinned, known
<1> QED BY <1>10, <1>17

\* What a task is handed after setup is well typed, and a selection.
LEMMA ProceedKeeps ==
  ASSUME TypeOK, Shape, NEW t \in Tasks, pc[t] # "bound", NEW catalog \in Catalogs,
         Proceed(t, catalog, Elements(catalog))
  PROVE  /\ pc' \in [Tasks -> {"idle"} \union Running \union Over]
         /\ bound' \in [Tasks -> Seq(Names)]
         /\ \A u \in Tasks : pc'[u] = "invoking" => Job[u].op = "call" /\ Job[u].name \in Names
         /\ \A u \in Tasks : pc'[u] # "bound" => bound'[u] = << >>
         /\ \A u \in Tasks : pc'[u] = "listed" => pc[u] = "listed"
         /\ pc'[t] = "invoking" => Job[t].name \in Elements(catalog)
         /\ pc' = [pc EXCEPT ![t] = pc'[t]]
         /\ bound' = [bound EXCEPT ![t] = bound'[t]]
         /\ Elements(bound'[t]) \subseteq Elements(catalog)
         /\ pc'[t] = "bound" => Selects(bound'[t], catalog, Job[t].k, Job[t].alwaysOn)
<1> USE DEF Running, Over
<1>1. catalog \in Seq(Names) /\ bound[t] = << >>
  BY CatalogIsList DEF Shape
<1>2. CASE Job[t].op = "call"
  <2>1. /\ pc' = [pc EXCEPT ![t] = IF Job[t].name \in Elements(catalog) THEN "invoking" ELSE "unknown"]
        /\ bound' = bound
    BY <1>2 DEF Proceed
  <2>2. Job[t].name \in Names
    BY <1>2, JobIsEither
  <2>3. Elements(bound'[t]) = {}
    BY <1>1, <2>1 DEF Elements
  <2> QED BY <1>2, <2>1, <2>2, <2>3 DEF Shape, TypeOK
<1>3. CASE Job[t].op = "topk"
  <2> DEFINE b == Topk(catalog, Elements(catalog), Job[t].k, Job[t].alwaysOn)
  <2>1. pc' = [pc EXCEPT ![t] = "bound"] /\ bound' = [bound EXCEPT ![t] = b]
    BY <1>3 DEF Proceed
  <2>2. Job[t].k \in Nat /\ Job[t].alwaysOn \in Seq(Names)
    BY <1>3, JobIsEither
  <2>3. b \in Seq(Names) /\ Selects(b, catalog, Job[t].k, Job[t].alwaysOn)
    BY <1>1, <2>2, TopkGives
  <2>4. Elements(b) \subseteq Elements(catalog)
    BY <2>3 DEF Selects
  <2> HIDE DEF b
  <2>5. pc'[t] = "bound" /\ bound'[t] = b
    BY <2>1 DEF Shape, TypeOK
  <2> QED BY <2>1, <2>3, <2>4, <2>5 DEF Shape, TypeOK
<1> QED BY <1>2, <1>3 DEF Proceed

LEMMA ShapeAlways == Spec => []Shape
<1> USE JobAssumption, CatalogAssumption, AllowlistAssumption
<1>1. Init => Shape
  BY DEF Init, Shape, TypeOK, Elements
<1>2. Shape /\ [Next]_vars => Shape'
  <2> SUFFICES ASSUME Shape, [Next]_vars PROVE Shape'
    OBVIOUS
  <2>0. TypeOK
    BY DEF Shape
  <2>1. ASSUME NEW t \in Tasks, BeginLoaded(t) PROVE Shape'
    <3>1. pc[t] # "bound" /\ Proceed(t, tools, Elements(tools)) /\ tools \in Catalogs
      BY <2>1 DEF BeginLoaded, Shape
    <3> QED BY <2>0, <2>1, <3>1, ProceedKeeps DEF BeginLoaded, Shape, TypeOK
  <2>2. ASSUME NEW t \in Tasks, BeginListing(t) PROVE Shape'
    BY <2>2 DEF BeginListing, Shape, TypeOK, Running, Over
  <2>3. ASSUME NEW t \in Tasks, ServerLists(t) PROVE Shape'
    BY <2>3 DEF ServerLists, Shape, TypeOK, Running, Over
  <2>4. ASSUME NEW t \in Tasks, SetupDone(t) PROVE Shape'
    <3>1. /\ pc[t] # "bound" /\ Proceed(t, raw[t], Elements(raw[t]))
          /\ raw[t] \in Catalogs
      BY <2>4 DEF SetupDone, Shape
    <3>2. raw[t] \in Seq(Names) /\ Elements(raw[t]) \subseteq Names
      BY <3>1, CatalogIsList
    <3>3. /\ pc' \in [Tasks -> {"idle"} \union Running \union Over]
          /\ bound' \in [Tasks -> Seq(Names)]
          /\ \A u \in Tasks : pc'[u] = "invoking" => Job[u].op = "call" /\ Job[u].name \in Names
          /\ \A u \in Tasks : pc'[u] # "bound" => bound'[u] = << >>
          /\ \A u \in Tasks : pc'[u] = "listed" => pc[u] = "listed"
      BY <2>0, <3>1, ProceedKeeps
    <3> QED BY <2>4, <3>1, <3>2, <3>3 DEF SetupDone, Shape, TypeOK
  <2>5. ASSUME NEW t \in Tasks, SetupRefused(t) PROVE Shape'
    BY <2>5 DEF SetupRefused, Shape, TypeOK, Running, Over
  <2>6. ASSUME NEW t \in Tasks, Answer(t) PROVE Shape'
    <3>1. records[t] \in Seq(Names) /\ Job[t].name \in Names
      BY <2>6 DEF Answer, Shape, TypeOK
    <3>2. Append(records[t], Job[t].name) \in Seq(Names)
      BY <3>1
    <3>3. records' = [records EXCEPT ![t] = Append(records[t], Job[t].name)]
      BY <2>6 DEF Answer
    <3> QED BY <2>6, <3>2, <3>3 DEF Answer, Shape, TypeOK, Running, Over
  <2>7. ASSUME NEW t \in Tasks, Fail(t) \/ Cancel(t) PROVE Shape'
    BY <2>7 DEF Fail, Cancel, Shape, TypeOK, Running, Over
  <2>8. CASE CloseHub
    BY <2>8 DEF CloseHub, Shape, TypeOK, Elements
  <2>9. CASE Redeploy
    BY <2>9 DEF Redeploy, Shape, TypeOK
  <2>10. CASE UNCHANGED vars
    BY <2>10 DEF vars, Shape, TypeOK
  <2> QED BY <2>1, <2>2, <2>3, <2>4, <2>5, <2>6, <2>7, <2>8, <2>9, <2>10
          DEF Next, TaskStep, ServerStep
<1> QED BY <1>1, <1>2, PTL DEF Spec

\* Every variable keeps its type; in particular what is handed to a ReAct agent
\* is a list of tool names (mcp/hub.py:88-157).
THEOREM TypeCorrect == Spec => []TypeOK
<1>1. Shape => TypeOK
  BY DEF Shape
<1> QED BY <1>1, ShapeAlways, PTL

\* No interleaving of setups, refusals, redeployments and closes leaves the
\* list and the index of different catalogs, or an unchecked catalog installed
\* (mcp/hub.py:117-124, 180-182).
THEOREM CatalogAlwaysChecked == Spec => []CatalogChecked
<1>1. Init => CatalogChecked
  BY DEF Init, CatalogChecked, Elements
<1>2. CatalogChecked /\ [Next]_vars => CatalogChecked'
  <2> SUFFICES ASSUME CatalogChecked, [Next]_vars PROVE CatalogChecked'
    OBVIOUS
  <2> USE DEF CatalogChecked
  <2>1. ASSUME NEW t \in Tasks, SetupDone(t) PROVE CatalogChecked'
    BY <2>1 DEF SetupDone, Unexpected
  <2>2. CASE CloseHub
    BY <2>2 DEF CloseHub, Elements
  <2>3. ASSUME UNCHANGED <<tools, byName>> PROVE CatalogChecked'
    BY <2>3 DEF Elements
  <2>4. ASSUME NEW t \in Tasks,
               BeginLoaded(t) \/ BeginListing(t) \/ SetupRefused(t)
                 \/ ServerStep(t) \/ Cancel(t)
        PROVE  UNCHANGED <<tools, byName>>
    BY <2>4 DEF BeginLoaded, BeginListing, SetupRefused, ServerStep,
                ServerLists, Answer, Fail, Cancel
  <2>5. CASE Redeploy \/ UNCHANGED vars
    BY <2>5, <2>3 DEF Redeploy, vars
  <2> QED BY <2>1, <2>2, <2>3, <2>4, <2>5 DEF Next, TaskStep
<1> QED BY <1>1, <1>2, PTL DEF Spec

\* No tool outside the allowlist is ever invoked, also not by a task suspended
\* in a call while the catalog is replaced under it (mcp/hub.py:159-169).
THEOREM CallsAreAllowed == Spec => []OnlyAllowedCalled
<1>1. Init => OnlyAllowedCalled
  BY DEF Init, OnlyAllowedCalled
<1>2. Shape /\ CatalogChecked /\ CatalogChecked' /\ OnlyAllowedCalled /\ [Next]_vars
        => OnlyAllowedCalled'
  <2> SUFFICES ASSUME Shape, CatalogChecked, CatalogChecked', OnlyAllowedCalled,
                      [Next]_vars
               PROVE  OnlyAllowedCalled'
    OBVIOUS
  <2> USE DEF Shape, TypeOK, CatalogChecked, OnlyAllowedCalled
  <2>1. ASSUME NEW t \in Tasks, BeginLoaded(t) PROVE OnlyAllowedCalled'
    BY <2>1 DEF BeginLoaded, Proceed
  <2>2. ASSUME NEW t \in Tasks, SetupDone(t) PROVE OnlyAllowedCalled'
    BY <2>2 DEF SetupDone, Proceed
  <2>3. ASSUME NEW t \in Tasks,
               BeginListing(t) \/ SetupRefused(t) \/ ServerStep(t) \/ Cancel(t)
        PROVE  OnlyAllowedCalled'
    BY <2>3 DEF BeginListing, SetupRefused, ServerStep, ServerLists, Answer,
                Fail, Cancel
  <2>4. CASE CloseHub \/ Redeploy \/ UNCHANGED vars
    BY <2>4 DEF CloseHub, Redeploy, vars
  <2> QED BY <2>1, <2>2, <2>3, <2>4 DEF Next, TaskStep
<1> QED BY <1>1, <1>2, ShapeAlways, CatalogAlwaysChecked, PTL DEF Spec

\* No tool outside the allowlist is handed to a ReAct agent either, also by a
\* setup that finishes after the catalog was replaced (mcp/hub.py:117-157).
THEOREM UseIsAllowed == Spec => []OnlyAllowedUsed
<1>1. Init => OnlyAllowedBound
  BY DEF Init, OnlyAllowedBound, Elements
<1>2. Shape /\ CatalogChecked /\ CatalogChecked' /\ OnlyAllowedBound /\ [Next]_vars
        => OnlyAllowedBound'
  <2> SUFFICES ASSUME Shape, CatalogChecked, CatalogChecked', OnlyAllowedBound,
                      [Next]_vars
               PROVE  OnlyAllowedBound'
    OBVIOUS
  <2>0. TypeOK /\ bound \in [Tasks -> Seq(Names)]
    BY DEF Shape, TypeOK
  <2> USE DEF OnlyAllowedBound
  <2>1. ASSUME NEW t \in Tasks, BeginLoaded(t) PROVE OnlyAllowedBound'
    <3>1. pc[t] # "bound" /\ Proceed(t, tools, Elements(tools)) /\ tools \in Catalogs
      BY <2>1 DEF BeginLoaded, Shape
    <3>2. bound' = [bound EXCEPT ![t] = bound'[t]] /\ Elements(bound'[t]) \subseteq Elements(tools)
      BY <2>0, <3>1, ProceedKeeps
    <3>3. Pinned => Elements(bound'[t]) \subseteq Allowed
      BY <3>2 DEF CatalogChecked
    <3> QED BY <2>0, <3>2, <3>3
  <2>2. ASSUME NEW t \in Tasks, SetupDone(t) PROVE OnlyAllowedBound'
    <3>1. /\ pc[t] # "bound" /\ Proceed(t, raw[t], Elements(raw[t]))
          /\ raw[t] \in Catalogs
          /\ tools' = raw[t]
      BY <2>2 DEF SetupDone, Shape
    <3>2. bound' = [bound EXCEPT ![t] = bound'[t]] /\ Elements(bound'[t]) \subseteq Elements(raw[t])
      BY <2>0, <3>1, ProceedKeeps
    <3>3. Pinned => Elements(raw[t]) \subseteq Allowed
      BY <2>2 DEF SetupDone, Unexpected
    <3>4. Pinned => Elements(bound'[t]) \subseteq Allowed
      BY <3>2, <3>3
    <3> QED BY <2>0, <3>2, <3>4
  <2>3. ASSUME NEW t \in Tasks,
               BeginListing(t) \/ SetupRefused(t) \/ ServerStep(t) \/ Cancel(t)
        PROVE  OnlyAllowedBound'
    BY <2>3 DEF BeginListing, SetupRefused, ServerStep, ServerLists, Answer,
                Fail, Cancel
  <2>4. CASE CloseHub \/ Redeploy \/ UNCHANGED vars
    BY <2>4 DEF CloseHub, Redeploy, vars
  <2> QED BY <2>1, <2>2, <2>3, <2>4 DEF Next, TaskStep
<1>3. OnlyAllowedCalled /\ OnlyAllowedBound => OnlyAllowedUsed
  BY DEF OnlyAllowedUsed
<1> QED BY <1>1, <1>2, <1>3, ShapeAlways, CatalogAlwaysChecked, CallsAreAllowed, PTL DEF Spec

\* A ReAct agent is given k tools, or all there are, of one catalog that passed
\* the allowlist, none twice and none left out for one that is not pinned, for any
\* k, pins and catalog, repetitions in them included (mcp/hub.py:126-157).
THEOREM TopkKeepsContract == Spec => []TopkContract
<1> DEFINE Given(t) == \E catalog \in Catalogs :
             /\ Pinned => Elements(catalog) \subseteq Allowed
             /\ Selects(bound[t], catalog, Job[t].k, Job[t].alwaysOn)
<1>1. Init => TopkContract
  BY DEF Init, TopkContract
<1>2. Shape /\ CatalogChecked /\ TopkContract /\ [Next]_vars => TopkContract'
  <2> SUFFICES ASSUME Shape, CatalogChecked, TopkContract, [Next]_vars
               PROVE  TopkContract'
    OBVIOUS
  <2>0. /\ TypeOK /\ bound \in [Tasks -> Seq(Names)]
        /\ pc \in [Tasks -> {"idle"} \union Running \union Over]
    BY DEF Shape, TypeOK
  <2>1. TopkContract <=> \A u \in Tasks : pc[u] = "bound" => Given(u)
    BY DEF TopkContract
  <2>2. TopkContract' <=> \A u \in Tasks : pc'[u] = "bound" => Given(u)'
    BY DEF TopkContract
  <2>3. ASSUME NEW u \in Tasks, bound'[u] = bound[u], Given(u) PROVE Given(u)'
    BY <2>3
  <2>4. ASSUME NEW t \in Tasks, NEW catalog \in Catalogs, pc[t] # "bound",
               Pinned => Elements(catalog) \subseteq Allowed,
               Proceed(t, catalog, Elements(catalog))
        PROVE  TopkContract'
    <3>1. /\ pc' = [pc EXCEPT ![t] = pc'[t]] /\ bound' = [bound EXCEPT ![t] = bound'[t]]
          /\ pc'[t] = "bound" => Selects(bound'[t], catalog, Job[t].k, Job[t].alwaysOn)
      BY <2>0, <2>4, ProceedKeeps
    <3>2. pc'[t] = "bound" => Given(t)'
      BY <2>4, <3>1
    <3> HIDE DEF Given
    <3>3. ASSUME NEW u \in Tasks, u # t, pc'[u] = "bound" PROVE Given(u)'
      <4>1. pc[u] = "bound" /\ bound'[u] = bound[u]
        BY <2>0, <3>1, <3>3
      <4> QED BY <2>1, <2>3, <4>1
    <3> QED BY <2>2, <3>2, <3>3
  <2>5. ASSUME NEW t \in Tasks, BeginLoaded(t) PROVE TopkContract'
    <3>1. /\ tools \in Catalogs /\ pc[t] # "bound" /\ Proceed(t, tools, Elements(tools))
          /\ Pinned => Elements(tools) \subseteq Allowed
      BY <2>5 DEF BeginLoaded, Shape, CatalogChecked
    <3> QED BY <2>4, <3>1
  <2>6. ASSUME NEW t \in Tasks, SetupDone(t) PROVE TopkContract'
    <3>1. /\ raw[t] \in Catalogs /\ pc[t] # "bound" /\ Proceed(t, raw[t], Elements(raw[t]))
          /\ Pinned => Elements(raw[t]) \subseteq Allowed
      BY <2>6 DEF SetupDone, Shape, Unexpected
    <3> QED BY <2>4, <3>1
  <2> HIDE DEF Given
  <2>7. ASSUME bound' = bound, \A u \in Tasks : pc'[u] = "bound" => pc[u] = "bound"
        PROVE  TopkContract'
    BY <2>1, <2>2, <2>3, <2>7
  <2>8. ASSUME NEW t \in Tasks,
               BeginListing(t) \/ SetupRefused(t) \/ ServerStep(t) \/ Cancel(t)
        PROVE  TopkContract'
    <3>1. bound' = bound /\ \A u \in Tasks : pc'[u] = "bound" => pc[u] = "bound"
      BY <2>0, <2>8 DEF BeginListing, SetupRefused, ServerStep, ServerLists, Answer,
                        Fail, Cancel
    <3> QED BY <2>7, <3>1
  <2>9. CASE CloseHub \/ Redeploy \/ UNCHANGED vars
    <3>1. bound' = bound /\ pc' = pc
      BY <2>9 DEF CloseHub, Redeploy, vars
    <3> QED BY <2>7, <3>1
  <2> QED BY <2>5, <2>6, <2>8, <2>9 DEF Next, TaskStep
<1> QED BY <1>1, <1>2, ShapeAlways, CatalogAlwaysChecked, PTL DEF Spec

\* A request's telemetry has one entry per answered call and none for a call
\* that failed, was cancelled, refused or unknown (mcp/hub.py:159-178).
THEOREM RecordsAreOfAnswers == Spec => []RecordsMatchAnswers
<1>1. Init => RecordsMatchAnswers
  BY DEF Init, RecordsMatchAnswers
<1>2. Shape /\ RecordsMatchAnswers /\ [Next]_vars => RecordsMatchAnswers'
  <2> SUFFICES ASSUME Shape, RecordsMatchAnswers, [Next]_vars
               PROVE  RecordsMatchAnswers'
    OBVIOUS
  <2> USE DEF Shape, TypeOK, RecordsMatchAnswers
  <2>1. ASSUME NEW t \in Tasks, Answer(t) PROVE RecordsMatchAnswers'
    <3>1. records[t] = << >>
      BY <2>1 DEF Answer
    <3>2. Append(records[t], Job[t].name) = <<Job[t].name>>
      BY <3>1
    <3>3. records' = [records EXCEPT ![t] = <<Job[t].name>>]
      BY <2>1, <3>2 DEF Answer
    <3> QED BY <2>1, <3>3 DEF Answer
  <2>2. ASSUME NEW t \in Tasks, BeginLoaded(t) \/ SetupDone(t)
        PROVE  RecordsMatchAnswers'
    BY <2>2 DEF BeginLoaded, SetupDone, Proceed
  <2>3. ASSUME NEW t \in Tasks,
               \/ BeginListing(t) \/ SetupRefused(t) \/ ServerLists(t)
               \/ Fail(t) \/ Cancel(t)
        PROVE  RecordsMatchAnswers'
    BY <2>3 DEF BeginListing, SetupRefused, ServerLists, Fail, Cancel, Running
  <2>4. CASE CloseHub \/ Redeploy \/ UNCHANGED vars
    BY <2>4 DEF CloseHub, Redeploy, vars
  <2> QED BY <2>1, <2>2, <2>3, <2>4 DEF Next, TaskStep, ServerStep
<1> QED BY <1>1, <1>2, ShapeAlways, PTL DEF Spec
=============================================================================
