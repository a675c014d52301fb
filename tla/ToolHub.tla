------------------------------ MODULE ToolHub -------------------------------
(***************************************************************************)
(* mcp/hub.py: the catalog every agent shares, loaded lazily by the first  *)
(* callers, checked against config/tools.yaml, and used by `call` (direct  *)
(* dispatch, recorded in the request's telemetry) and `topk` (the tools a  *)
(* ReAct agent is given).  Callers are tasks of one event loop, so a step  *)
(* runs from one await to the next: the two awaits are the client's        *)
(* get_tools and the tool's ainvoke.  The MCP server is outside; it may be *)
(* redeployed with another catalog at any time, and may fail.              *)
(***************************************************************************)
EXTENDS Lists

CONSTANTS
  Tasks,    \* the tasks that use the hub
  Job,      \* what each of them asks for
  Names,    \* tool names
  Catalogs, \* the catalogs the server may advertise
  Allowed,  \* config/tools.yaml
  Pinned    \* is that file there and readable

CallJobs == [op : {"call"}, name : Names]
TopkJobs == [op : {"topk"}, k : Nat, alwaysOn : Seq(Names)]

ASSUME JobAssumption == \A t \in Tasks :
  \/ Job[t] \in CallJobs
  \/ Job[t] \in TopkJobs
ASSUME CatalogAssumption == Catalogs \subseteq Seq(Names)
ASSUME AllowlistAssumption == Allowed \subseteq Names /\ Pinned \in BOOLEAN

VARIABLES
  tools,   \* _tools
  byName,  \* the keys of _by_name
  server,  \* the catalog the server advertises now
  pc,      \* where each task is
  raw,     \* the list get_tools has for each task
  bound,   \* what topk returned to each task
  records  \* the task's calls in RequestCtx.mcp_calls

vars == <<tools, byName, server, pc, raw, bound, records>>

Running == {"listing", "listed", "invoking"}
Over == {"answered", "bound", "refused", "unknown", "failed", "cancelled"}

Init ==
  /\ tools = << >>
  /\ byName = {}
  /\ server \in Catalogs
  /\ pc = [t \in Tasks |-> "idle"]
  /\ raw = [t \in Tasks |-> << >>]
  /\ bound = [t \in Tasks |-> << >>]
  /\ records = [t \in Tasks |-> << >>]

-----------------------------------------------------------------------------
(* Selection and dispatch: what follows setup without an await. *)

\* Mutant of Topk: `seen` is not consulted, and a pinned tool is picked again.
TopkRepeating(catalog, known, k, alwaysOn) ==
  Upto(Only(alwaysOn, known) \o catalog, k)

\* topk: the pinned tools the catalog has, then the rest in catalog order, each
\* name once, cut at k.
Topk(catalog, known, k, alwaysOn) ==
  LET pinned == Elements(alwaysOn) \cap known
  IN Upto(Once(alwaysOn, pinned) \o Once(catalog, Elements(catalog) \ pinned), k)

Proceed(t, catalog, known) ==
  \/ /\ Job[t].op = "call"
     /\ pc' = [pc EXCEPT ![t] = IF Job[t].name \in known THEN "invoking" ELSE "unknown"]
     /\ UNCHANGED bound
  \/ /\ Job[t].op = "topk"
     /\ pc' = [pc EXCEPT ![t] = "bound"]
     /\ bound' = [bound EXCEPT ![t] =
          Topk(catalog, known, Job[t].k, Job[t].alwaysOn)]

-----------------------------------------------------------------------------
(* setup. *)

\* A loaded catalog is used without a suspension.
BeginLoaded(t) ==
  /\ pc[t] = "idle"
  /\ tools # << >>
  /\ Proceed(t, tools, byName)
  /\ UNCHANGED <<tools, byName, server, raw, records>>

\* Nothing marks a setup in progress: every task that comes before the
\* catalog is there lists the tools for itself.
BeginListing(t) ==
  /\ pc[t] = "idle"
  /\ tools = << >>
  /\ pc' = [pc EXCEPT ![t] = "listing"]
  /\ UNCHANGED <<tools, byName, server, raw, bound, records>>

ServerLists(t) ==
  /\ pc[t] = "listing"
  /\ raw' = [raw EXCEPT ![t] = server]
  /\ pc' = [pc EXCEPT ![t] = "listed"]
  /\ UNCHANGED <<tools, byName, server, bound, records>>

\* Mutant of Unexpected: the difference is taken the other way round.
MissingInstead(list) == Pinned /\ Allowed \ Elements(list) # {}

Unexpected(list) == Pinned /\ Elements(list) \ Allowed # {}

\* Mutant of SetupDone: the index is built only by the first setup.
SetupDoneIndexOnce(t) ==
  /\ pc[t] = "listed"
  /\ ~Unexpected(raw[t])
  /\ tools' = raw[t]
  /\ byName' = IF byName = {} THEN Elements(raw[t]) ELSE byName
  /\ Proceed(t, tools', byName')
  /\ UNCHANGED <<server, raw, records>>

\* Mutant of SetupDone: the index is keyed by position.
SetupDoneByPosition(t) ==
  /\ pc[t] = "listed"
  /\ ~Unexpected(raw[t])
  /\ tools' = raw[t]
  /\ byName' = DOMAIN raw[t]
  /\ Proceed(t, tools', byName')
  /\ UNCHANGED <<server, raw, records>>

\* The list is installed whatever another setup has installed meanwhile.
SetupDone(t) ==
  /\ pc[t] = "listed"
  /\ ~Unexpected(raw[t])
  /\ tools' = raw[t]
  /\ byName' = Elements(raw[t])
  /\ Proceed(t, tools', byName')
  /\ UNCHANGED <<server, raw, records>>

\* Mutant of SetupRefused: a refused catalog is listed again.
SetupRetried(t) ==
  /\ pc[t] = "listed"
  /\ Unexpected(raw[t])
  /\ pc' = [pc EXCEPT ![t] = "listing"]
  /\ UNCHANGED <<tools, byName, server, raw, bound, records>>

\* RuntimeError before either assignment.
SetupRefused(t) ==
  /\ pc[t] = "listed"
  /\ Unexpected(raw[t])
  /\ pc' = [pc EXCEPT ![t] = "refused"]
  /\ UNCHANGED <<tools, byName, server, raw, bound, records>>

-----------------------------------------------------------------------------
(* The tool call. *)

\* Mutant of Answer: a call that returns is not recorded if it returns late,
\* after the catalog was dropped.
AnswerIfLoaded(t) ==
  /\ pc[t] = "invoking"
  /\ pc' = [pc EXCEPT ![t] = "answered"]
  /\ records' = IF tools = << >> THEN records
                ELSE [records EXCEPT ![t] = Append(@, Job[t].name)]
  /\ UNCHANGED <<tools, byName, server, raw, bound>>

\* Parsed, redacted, measured and recorded, in that order, with no await.
Answer(t) ==
  /\ pc[t] = "invoking"
  /\ pc' = [pc EXCEPT ![t] = "answered"]
  /\ records' = [records EXCEPT ![t] = Append(@, Job[t].name)]
  /\ UNCHANGED <<tools, byName, server, raw, bound>>

\* The server, the transport or the tool raises: nothing is recorded.
Fail(t) ==
  /\ pc[t] \in {"listing", "invoking"}
  /\ pc' = [pc EXCEPT ![t] = "failed"]
  /\ UNCHANGED <<tools, byName, server, raw, bound, records>>

\* The caller's timeout, or its own cancellation, at either await, or before
\* the task has taken its first step.
Cancel(t) ==
  /\ pc[t] \in {"idle"} \union Running
  /\ pc' = [pc EXCEPT ![t] = "cancelled"]
  /\ UNCHANGED <<tools, byName, server, raw, bound, records>>

\* close, at shutdown: tasks still suspended are not told.
CloseHub ==
  /\ tools' = << >>
  /\ byName' = {}
  /\ UNCHANGED <<server, pc, raw, bound, records>>

Redeploy ==
  /\ server' \in Catalogs
  /\ UNCHANGED <<tools, byName, pc, raw, bound, records>>

TaskStep(t) ==
  \/ BeginLoaded(t) \/ BeginListing(t) \/ SetupDone(t) \/ SetupRefused(t)
ServerStep(t) == ServerLists(t) \/ Answer(t) \/ Fail(t)

Next ==
  \/ \E t \in Tasks : TaskStep(t) \/ ServerStep(t) \/ Cancel(t)
  \/ CloseHub
  \/ Redeploy

Spec == Init /\ [][Next]_vars

\* The loop runs every ready task, and the server answers or its transport fails.
FairSpec == Spec /\ \A t \in Tasks : WF_vars(TaskStep(t)) /\ WF_vars(ServerStep(t))

-----------------------------------------------------------------------------
(* Properties. *)

TypeOK ==
  /\ tools \in Seq(Names)
  /\ byName \subseteq Names
  /\ server \in Catalogs
  /\ pc \in [Tasks -> {"idle"} \union Running \union Over]
  /\ raw \in [Tasks -> Seq(Names)]
  /\ bound \in [Tasks -> Seq(Names)]
  /\ records \in [Tasks -> Seq(Names)]

\* However setups, refusals, redeployments and closes interleave, the index and
\* the list are of one catalog, and that catalog passed the allowlist
\* (hub.py:117-124).
CatalogChecked ==
  /\ byName = Elements(tools)
  /\ Pinned => byName \subseteq Allowed

\* No tool outside the allowlist is ever called or handed to a ReAct agent,
\* also by a task that holds it from a catalog replaced since.
OnlyAllowedCalled == \A t \in Tasks :
  Pinned /\ pc[t] = "invoking" => Job[t].name \in Allowed
OnlyAllowedBound == \A t \in Tasks : Pinned => Elements(bound[t]) \subseteq Allowed
OnlyAllowedUsed == OnlyAllowedCalled /\ OnlyAllowedBound

\* A selection of one catalog: k tools or all there are, none twice, also if the
\* catalog or the caller repeats itself, the pinned ones before any other, and any
\* other only if no pinned one is left out.
Selects(b, catalog, k, alwaysOn) ==
  LET known == Elements(catalog)
      pins == Elements(alwaysOn) \cap known
      all == Cardinality(known)
  IN /\ IsSet(b) /\ Elements(b) \subseteq known
     /\ Len(b) = IF k < all THEN k ELSE all
     /\ \A i, j \in DOMAIN b : b[j] \in pins /\ i < j => b[i] \in pins
     /\ pins \subseteq Elements(b) \/ Elements(b) \subseteq pins

\* What a ReAct agent is given is such a selection of a catalog that the server
\* has advertised and the allowlist let through (hub.py:126-157).
TopkContract == \A t \in Tasks : pc[t] = "bound" =>
  \E catalog \in Catalogs :
    /\ Pinned => Elements(catalog) \subseteq Allowed
    /\ Selects(bound[t], catalog, Job[t].k, Job[t].alwaysOn)

\* The request's telemetry has one entry for each answer a caller got, and
\* none for a call that failed, was cancelled or found no tool.
RecordsMatchAnswers == \A t \in Tasks :
  records[t] = IF pc[t] = "answered" THEN <<Job[t].name>> ELSE << >>

\* A task that starts using the hub is never stuck in it.
UseEnds == \A t \in Tasks : pc[t] \in Running ~> pc[t] \in Over
=============================================================================
