# A verified model of obs-agent

obs-agent answers questions about a system's logs, metrics, traces and incidents.
One endpoint, `POST /ask`, streams server-sent events while a langgraph run routes
the question to an agent, the agent collects evidence through MCP tools, and an LLM
writes the answer. This directory models the parts of it that hold state across
awaits, and the pure functions that decide what the LLM is shown: TLA+ modules translated
from the Python source, TLC configurations that check them on small instances, and TLAPS
proofs of all their safety properties for every value of the constants.

Paths below are relative to the repository (`src/…` is the Python package
directory). `PROJECT.json` maps each definition to the lines it stands for.

    tlc -workers 2 -config ask_request.cfg MCAsk
    tlc -workers 2 -config retrieval.cfg MCRetrieval
    tlapm AskProofs.tla
    tlapm RetrievalProofs.tla

## 1. The system

All of it runs on one asyncio event loop, so a step is what happens between two
suspension points, and every interleaving below is an interleaving of such steps.

| Component (source) | State | Operations | Talks to |
|---|---|---|---|
| **SSE stream** `src/api/routes.py` | the suspended generator, `final_answer`, frames sent | `_stream_response`: session, route, token, response, done/error frames; the `finally` | drives the graph by pulling its events; `obs.start/set_route/finish`; the transport may drop it at any suspension |
| **Telemetry scope** `src/obs/base.py`, `events.py`, `replay.py` | a ContextVar with the `RequestCtx`; `events.jsonl`; `replays/*.json` | `start`, `set_route`, `record_timeout`, `record_mcp`, `record_llm`, `finish` | called from the stream, the graph nodes, the hub, the LLM client |
| **Cost cap** `src/obs/cost.py`, `src/llm/client.py` | `RequestCtx.llm_calls`, `cost_usd` | `record_llm`, `BudgetExceeded` | raised in router, planner, synthesis and critique; caught by some of them |
| **Router** `src/graph/router.py` | retry counter of one call | one LLM call per attempt, retries, low-confidence and failure fallback | the conditional edge of the graph |
| **Top-level graph** `src/graph/builder.py`, `registry.py` | compiled `StateGraph`, `MemorySaver` | the agent wrapper with its latency budget, `out_of_scope`, the route map | the router, the agents |
| **Session history** `src/graph/state.py` | `messages` of the newest checkpoint of each thread | `add_messages` reducer with its cap | loaded when a run starts, saved between supersteps |
| **Incident agent** `src/agents/incident.py`, `src/llm/validation.py` | `IncidentState` | plan, gather, refine loop, fan-out branches, synthesis, critique loop | MCP tools under `tool_timeout`, LLM |
| **ReAct agents** `src/agents/{base,metrics,traces}.py` | langgraph's own | tool selection with `hub.topk`, the ReAct loop | hub, LLM |
| **Logs agent** `src/agents/logs.py`, **planner** `src/retrieval/planner.py` | none across requests | plan (keywords or LLM), parallel fetch, synthesis, ReAct escape | tools, LLM |
| **Tool hub** `src/mcp/hub.py` | `_tools`, `_by_name`, the client | `setup`, `call`, `topk`, `close` | MCP server, telemetry; shared by all requests |
| **JSON cache** `src/mcp/tools/_data.py` | `_cache`, `_lock` | `load_json`, `clear_cache` | the file system, through two `to_thread` awaits |
| **Retrieval signals** `src/retrieval/signals.py` | none | log clusters, metric statistics and anomalies, trace skeletons, the call graph | the incident and logs agents |
| **Correlation join** `src/mcp/tools/_backends/mock.py`, **citation check** `src/llm/validation.py` | none | the tools over the fixtures, `get_incident_context`, `strip_hallucinations` | the cache, the agents |
| **Mock data generator** `scripts/generate_mock_data.py` | `_id_counters`, four lists, `data/*.json` | `_next_id`, `_span`, `_trace`, `_log`, `_error`, `_metric`, `main` | the files the mock backend serves |
| MCP server and wrappers, settings, prompts, schemas, guards, app start-up, other scripts, evals | configuration, or none | registration, dispatch, strings, reports | — |

What is hard about it:

* **Two activities per request.** The generator and the graph's task alternate, and
  the graph advances to its next superstep (and saves the checkpoint of the last)
  only when the generator pulls. The client may leave at any `yield` or `await`; the
  two cases raise different exceptions, and the first frame is sent outside the `try`.
* **An exception used for control.** `BudgetExceeded` is raised after the money is
  spent and passes through code that catches `Exception` (router, planner, critique)
  and code that does not (synthesis).
* **A budget that abandons work.** The latency budget cancels the agent; a stream
  that is dropped leaves it running for a while under a copied context.
* **Checkpointed history.** Two turns of one session load and save the same thread.
* **Two loops and a fan-out** inside the incident agent share langgraph's recursion
  limit, write one list in parallel, and pass a stale `synthesis` along when a reply
  does not parse.
* **Lazy shared set-up.** Any number of tasks can be in `hub.setup` at once while the
  server is redeployed or the hub closed.
* **Partial failure and cancellation inside an agent.** The logs agent runs two fetches
  side by side and goes on with the ones that answer; a budget or a client can stop it
  at any await, over a hub that other agents are using.
* **Double-checked locking** with failures and cancellation under the lock.
* **Lossy compression before the LLM.** The signals drop rows, the join applies limits
  after filters, and a citation is checked against what is left: a boundary that is
  off by one there changes what an answer can say, and no answer shows it.

`PROJECT.json` lists these as hazards, each at its line with the properties aimed at it.

## 2. The modules

| Module | Models | Kind |
|---|---|---|
| `RequestScope` | what `src/obs` promises: a scope opens, ends at most once, at most one row | abstract |
| `Ask` | one or more `POST /ask`: stream, telemetry, cost, router, agent node, history | detailed; implements `RequestScope` |
| `AgentPhases` | what `Ask` assumes of the incident agent | abstract |
| `IncidentGraph` | the incident agent's own graph | detailed; implements `AgentPhases` |
| `ToolHub` | the hub under concurrent use | detailed |
| `ReadOnce` | what the cache promises: one object per file until it is cleared | abstract |
| `JsonCache` | `load_json`, the lock and its queue | detailed; implements `ReadOnce` |
| `AgentsOnHub` | the logs and ReAct agents, with their budgets, on `ToolHub` | composition; implements `AgentPhases` |
| `Lists` | Python's slice, filter and stable sort | operators |
| `Rows` | what a row is: a record that may lack a field | operators |
| `Signals` | `retrieval/signals.py` | operators |
| `Correlation` | the mock backend's tools, the join, the citation check | operators |
| `Planner` | `retrieval/planner.py` | operators |
| `Fixtures` | the script that writes the fixtures | state machine |
| `Retrieval` | what a prompt is made of, over every set of fixtures `Fixtures` can write | composition |
| `MC…` | values of the constants for TLC | |
| `…Proofs` | theorems | |

`Ask` and `IncidentGraph` meet in `AgentPhases`. `Ask` keeps of an agent only its
costed calls, where `BudgetExceeded` is caught, and how it ends; `IncidentGraph` is
checked and proved to behave like that (plan, gather, one synthesis, then an answer or
one critique and back to synthesis), and `AgentsOnHub` is shown to behave
like it too, for the agents that have no critique but may leave the pipeline for a ReAct
loop.

### Ask

| State | Code |
|---|---|
| `gen` | where `_stream_response` is suspended: at the session frame (before the `try`), at `astream`'s next event (`pulling`), at a frame inside the `try`, at the last frame, dropped, closed |
| `sent`, `finalAnswer` | frames yielded, the local `final_answer` |
| `cur`, `ctx` | the ContextVar in the generator's context and the `RequestCtx` it points to; an agent's task holds a copy of the context, so it reaches `ctx` after `cur` is cleared |
| `events`, `replays` | what the two sinks got for the request |
| `node`, `attempt`, `decision`, `work`, `passes`, `output` | the graph's task, the router's retry, `state["route"]`, the agent's progress |
| `out` | stream events emitted and not pulled |
| `mem`, `hist` | the messages in the run and in the thread's newest checkpoint |

`Start` is everything up to the first `yield`; `EnterGraph` resumes it and starts
`astream`, which loads the checkpoint. The router's outcomes are a provider error, a
reply over budget, a reply that does not parse, and a decision; the conditional edge
runs in the same task, so a route without a node fails there (`Decide`). `StartAgent`
needs a pull and saves the router's checkpoint. `BudgetExpires` is `asyncio.wait_for`;
`AgentRaisesTimeout` is an agent's own `TimeoutError`, which the same `except` catches.
`SendRoute`, `SendToken`, `SendResponse`, `SkipEmpty`, `GraphRaises`, `GraphEnds` are the
loop over events with its three exits. The end of the generator has four forms:
`Finish` (normal), `Disconnect` (`CancelledError` at the await), `CollectAtSession` and
`Collect` (`GeneratorExit` at a yield, when the generator is collected). In the last
one the `finally` may be run by a task with another context, where `finish` finds no
`RequestCtx` and returns: hence the disjunct that leaves the telemetry alone.

Abstractions. A message is the request it belongs to; a price is any amount up to
`MaxCost`; a row holds route, answer, cost, calls, degraded and timeouts. The LLM calls
inside a ReAct loop are langgraph's and are not charged by the code, so they are not
charged here. The provider is taken to report its usage on each completion.

### IncidentGraph

A node and the conditional edge behind it are one action, since langgraph runs them in
one task; the `Send` branches end one by one (`BranchEnds`, `BranchRaises`) and are
merged by the `add` reducer when all have ended (`Join`). Evidence is reduced to what
is decided from it: whether the context is a dict, which traces failed, which services
are related, whether there are logs. `drill` is the list the branches' findings are merged
into, in any order, and an answer holds the part of it that the synthesis prompt was shown:
`_truncate` cuts it at ten items (`DrillCap`, `Shown`), and with five traces and six or more
related services there can be more. A row that the signals, an edge or a branch cannot
read raises there. Which of an answer's citations are left is decided by the context alone,
and is `Correlation`'s. `Validating` stands for a
langgraph that coerces the state into its Pydantic model before an edge reads it: a
context that is not a dict then raises in the edge instead of leading to `refine_plan`;
the proofs hold for both. `GraphRecursionError` has no action: that it is never due is a
property.

### ToolHub

A task's program counter stops at the two awaits of the hub: `get_tools` (`listing`,
then `listed` when the answer is there) and `ainvoke` (`invoking`). `Redeploy` changes
what the server advertises, `CloseHub` is the application's shutdown, `Cancel` is a
caller's timeout. `SetupDone` installs its list whatever has been installed meanwhile.

### JsonCache

asyncio's lock is modelled with its queue: it is taken at once only if free with nobody
waiting, and a release hands it to the head of the queue. `reading` and `parsing` are
the two awaits under the lock; each can fail or be cancelled. `clear_cache` takes no
lock, and a parse in progress fills the cache after it.

### AgentsOnHub

A task of `ToolHub` is one use of the hub by one agent. `_gather_resilient` starts two
tasks, one for each fetch (`Job[t].op = "call"`), and `run_react` one `topk`, in the
agent's own task. `phase` is the await the agent is suspended at, `stop` what has
cancelled it (the budget's timer, or the client, which outranks it), `evidence` the
fetches its prompt was made from with the prompt's degraded flag.

The agents' own steps are `Handle`, `Plan` (the keyword or LLM plan, or the escape to
ReAct), `Gathered`, `Bound`, `Answers`, `Raises`. A task starts only when its agent waits for
it (`Alive`), and takes every step of `ToolHub` from there. When the agent is stopped,
`CancelChild` delivers the cancellation to whatever it waits for and `Unwind` ends the agent
when the last of these is over, since `gather` and `wait_for` both wait for the tasks they
cancel. The hub's own failures, a redeployed server and a closed hub reach the agent
through its tasks: `gather(return_exceptions=True)` swallows them, `topk` raises them.

### Retrieval and what it is made of

`Fixtures` runs the helpers of the generator script in any order: its five scenarios are
straight-line programs over these helpers, and each constant *scenario* says which
values it draws from (`services`, `statuses`, `times`, …) and how often it may call each
helper (`room`). Identifiers come from one counter for each prefix and are pairs
`<<prefix, n>>`; a scenario with `reserve` takes an identifier for its trace before
`_trace` takes the next one, as one of the script's scenarios does
(generate_mock_data.py:181). `Write` sorts by
time and writes.

`Correlation`, `Signals` and `Planner` are the functions of the source, as operators over
rows, records that may lack a field. `Rows` and `Lists` hold what Python does in them: a missing
key reads its default, `rows[:k]` counts from the end for a negative `k`, `sorted` is stable,
a dict keeps first appearances in order. The list operators say what stands at each place
(`ItemsAt`: the k-th of the positions kept; `Ordered`: an item comes after as many as are ahead of it):
a recursive definition could be run and not reasoned about. Ratios are kept in hundredths, as
`round(…, 2)` leaves them. The query of the planner is reduced to the intents whose
keywords it contains and the services it names; the LLM's reply is the fields it sets.

`Retrieval.Handle` is the logs agent's evaluation of these for one query; its awaits and
failures are `AgentsOnHub`'s, so here it is one step. The other properties are
about every request that can be made of the files on disk. They are written against
the rows and not against the functions: `TracesKeepSignal` counts how many spans outrun a
span, where the code sorts and cuts; `JoinExact` says which rows belong in a context, where the
code filters and slices.

## 3. What is checked

| Run | Instance | Distinct states |
|---|---|---|
| `ask_request` | one request, three enabled agents, fallback to one of them, 2 retries, cap 2 with calls of 0..3, LLM planner, 2 critiques, 2 tokens | 304,446 |
| `ask_session` | two turns of one session, a history of one message, no cost | 628,224 |
| `incident` | 2 failing traces with a cap of 1, 2 related services, a prompt of 2 findings, smallest and largest planner budgets, 8 refinements, 2 critiques | 236,216 |
| `toolhub` | one call and two `topk`s, four catalogs of up to four tools | 25,460 |
| `jsoncache` | three readers of one file, one of another, one clear | 4,905 |
| `agents_on_hub` | a logs agent with a budget and a ReAct agent without one; two calls, two `topk`s | 104,136 |
| `retrieval` | six scenarios of fixtures, two services, limits 0..2 | 43,619 |

**ask_request** — `FramesInOrder` (the order of frames, at most one of done/error, no
agent output before the route), `RowsTellTheStream` (both sinks agree with what the client
was shown), `SpendBounded`, `SynthesisWithinCap` (how many calls and how
much money a request can spend past its cap), `LostOnlyAtYield`, `LateSpendOnlyIfAbandoned`, `KeepsScope`
(refinement of `RequestScope`), `EveryRequestEnds`.

**ask_session** — `HistoryWasAnswered` (a remembered turn had its output handed over) and
`SerialTurnsKept` (turns that never overlap are all kept, in order, up to the cap;
nothing failed or abandoned erases one). Overlapping turns do overwrite each other;
the history variable `overlap` marks them.

**incident** — `WithinRecursionLimit`, `BudgetsWithinSchema`, `DrillDownComplete` (an
answer is written after every branch sent has ended, from their findings, none twice, all
of them or as many as the prompt shows), `CritiqueAuditsLatest` (a critique audits the
report just written or, after a reply that did not parse, an earlier one; never nothing),
`KeepsContract` (refinement of `AgentPhases`), `InvestigationEnds`.

**toolhub** — `CatalogChecked`, `OnlyAllowedUsed`, `TopkContract` (what an agent is bound to
is a selection from one catalog: `k` tools or all there are, pins first), `RecordsMatchAnswers`,
`UseEnds`.

**jsoncache** — `LockMatchesReader`, `KeepsReadOnce` (refinement of `ReadOnce`: a file is
parsed once for each clear), `LoadEnds`.

**agents_on_hub** — `NoOrphans` (an agent that returned left nothing in the hub),
`EvidenceIsRecorded` (an answer is written from exactly the fetches the telemetry has
recorded, and says when one is missing), `KeepsPhases` (refinement of `AgentPhases`, agent by
agent), `AgentEnds` (a budgeted agent ends however the server and the LLM hang; one without
a budget can only be waiting for one of them).

**retrieval** — `ClustersRank`, `MetricsTold`, `TracesKeepSignal`, `CallsReachAll` (the
signals say what the rows say; `MetricsTold` also which changes of a metric are never
flagged), `JoinExact` (which trace and correlation a context is named after, and that it
holds the rows of that correlation or, without one, of the service, all of them or the
oldest its limits take), `CitationsGrounded` (a citation survives the check exactly if the
context names the thing by that type, and the drill-down tools find what it names),
`BudgetsHonoured` (from any reply of the planner's LLM to the rows a prompt is written
from).

`ask_request`, `incident`, `toolhub` and `jsoncache` also check their module's type
invariant. Each property is paired with a mutant of the code that breaks it; the
mutated operators stand in the module just before the ones they replace.

**Bounds.** Two retries, two critiques and two tokens are the least that distinguish
"again" from "once more"; a cap of 2 with prices 0..3 lets a call stay under the cap,
meet it, exceed it alone or together with an earlier one, and with the logs agent as
fallback the request does reach `MaxOverruns` refused calls. Three agents suffice in
`ask_request`: `traces` and `metrics` differ in name only, and `traces` left out gives a
route without a node. Two requests are enough for history because a checkpoint is
loaded and saved by one request at a time and a property relates two turns; a cap of
one message makes the second turn exceed it. Eight refinements are the most
`RoomAssumption` admits; they bring the budget of traces to its bound and, with two
critiques, the supersteps to 24 of the 25; two passes are also the least with which a critique
can audit an old report. Two services and one trace inspected give three findings, one more
than the prompt shows. In `toolhub` one task can be in setup while a second refuses a
catalog and a third calls a tool; one agent asks for two of three tools and pins one that
exists, twice, and one that is not allowed, the other asks for one tool and pins two; one
catalog lists a tool twice. Four readers allow a
holder, a queue of two for the same file, and one for another. In `agents_on_hub` one
agent's fetches run beside each other and beside the other agent's `topk`, and both
agents start setup of the same hub. In `retrieval` each scenario draws on what its
properties tell apart: four logs of three messages are the least with two clusters of equal
severity and different size and with a cut between them; the metric values 0, 1, 3, 10, 1000 lie on
both sides of, and on, the threshold 3, its inverse, zero, and the rounding to hundredths;
three spans in two traces give a root, a child, a grandchild or a sibling, and a
trace outside the cut. Rows of every kind meet only in `JoiningRows`, one of each.

**Deadlock.** The `ask_*`, `incident*` and `jsoncache` runs disable the deadlock check,
since every request, investigation or load finishes and nothing starts it again; so do
`retrieval` and `logs_examples`, where the script ends and one query is asked. `toolhub`
and `agents_on_hub` keep it (the server can always be redeployed).

**Fairness.** The event loop runs what is ready: the generator, the hub's and the
cache's tasks. The provider answers or fails each router call; the budget's timer
fires. Nothing is assumed of agents, whose hanging is what the budget is for, nor of the
client. Inside an investigation every tool call runs under `tool_timeout` (its
`asyncio.wait_for`) and each LLM call ends, so weak fairness of `Progress` is assumed. The
hub's server answers or its transport fails; the file system answers or fails. `AgentsOnHub`
assumes less: neither the server nor the LLM need ever answer, and only the loop's own
work is fair (ready tasks run, cancellations are delivered, timers fire).

### Disagreements met while modelling

Each is a run whose expected result is a violation.

| Run | The words | The code |
|---|---|---|
| `ask_finish` | routes.py:30-31 "`obs.finish` runs in `finally` so the event is written even on early disconnect or exception" | the session frame is yielded before the `try`: a client that leaves there loses its event and replay |
| `ask_breach` | cost.py:7-9 "the graph node bubbles it up and the stream emits an SSE `error` frame" | the router catches `BudgetExceeded` with every exception, retries, and falls back; the stream ends in done |
| `incident_critique` | settings.py:59-60 "audit the analysis and append findings" | synthesis always follows a critique and replaces the output; no verdict reaches the user |
| `incident_refine` | incident.py:200 "No logs + retries left -> refine_plan" | the summary of an empty log list is a non-empty dict, so a context without logs goes on to synthesis |
| `logs_examples` | logs.py:65-66 "example IDs the LLM can cite" | the template prints `c.example_id`, the summary calls the field `sample_id`: every example is printed empty |

Seen, and not given a run of their own: most because no state of the model would tell them
apart, the others because a property of a passing run already states what the code does.

* The cost cap is called per session (cost.py:28-29) but the counter is the request's. A
  synthesis reply that does not parse is shown with its citations unchecked, against
  README.md:130-135 (`SynthesizeRaw`). The hub refuses an unlisted catalog at its first
  use, not at start-up (`SetupRefused`), and reads only the first text block of a
  result. The session's messages are stored but no agent reads them. `redact.py:12` says that
  every signal crosses `hub.call`; the tools a ReAct loop is given do not.
* A metric that rises from zero, falls to zero or falls more than 200-fold is never flagged,
  against signals.py:83-84 "in either direction": there is no ratio, or it rounds to zero. A
  fall to exactly a third is flagged where a rise to exactly three times is not. `MetricsTold`
  states what is flagged and these exceptions, which the run reaches. Percentiles are of the
  floor rank, and a cluster's level is that of its first entry, also when a later one is
  worse; `ClustersRank` says so too.
* README.md:130-132 has the evidence checked against "the context that was passed to the
  LLM". The check is against the whole context (incident.py:401), of which the prompt shows ten
  errors, five traces, ten logs and ten findings (incident.py:373-376), and the summaries
  of the rest; so a citation of something the LLM was not shown is left, if it exists.
* An error row has no `id` and no `level`, so `LogEntry`'s defaults show each cluster of errors as
  INFO without a sample, against schemas.py:3-6 "fails loudly".
* Twelve logs and twelve errors of the committed fixtures carry a `trace_id` that no
  trace has: the script takes an identifier that `_trace` does not use (`Reserve`).
  `CitationsGrounded` therefore lets such a reference stand. One service has more metrics
  than the default limit, and limits keep the oldest rows, so its latest point is cut.
* `correlation.py:26` calls the trace the primary key of the join; an explicit
  `correlation_id` comes first, and a trace of another incident asked for with it names the
  context and is not in it. Without a correlation the join is by service, over whatever
  incidents touch it. `JoinExact` states both.
  Limits are not checked for sign, and a negative one drops rows at the end. A plan over
  its budget is called clamped (planner.py:34-35) and is refused.
* Scripts: `seed_events.py` overwrites `events.jsonl`; `replay.py` exits 1 when the
  application cannot be reached and 0 when the stream ends in an error frame;
  `evals/test_synthesis` calls a coroutine without awaiting it. README.md:62 names a tool,
  `detect_anomalies`, that is not registered.

## 4. What is proved

`tlapm` checks every theorem below to its last leaf. They hold for any sets of requests,
sessions, traces, tasks and files, and any numbers allowed by the named assumptions of
the modules.

| Module | Theorem | Property |
|---|---|---|
| `AskProofs` | `TypeCorrect` | `TypeOK` |
| | `OnlyYieldLosesRows`, `SpendEndsWithStream`, `ImplementsRequestScope` | `LostOnlyAtYield`, `LateSpendOnlyIfAbandoned`, `KeepsScope` |
| | `SpendIsBounded`, `SynthesisStaysWithinCap` | `SpendBounded`, `SynthesisWithinCap` |
| | `FramesAlwaysInOrder`, `RowsAlwaysTell` | `FramesInOrder`, `RowsTellTheStream` |
| | `HistoryAlwaysAnswered`, `SerialTurnsAlwaysKept` | `HistoryWasAnswered`, `SerialTurnsKept` |
| `IncidentProofs` | `TypeCorrect`, `LimitNeverReached`, `BudgetsStayInSchema`, `DrillDownIsComplete`, `CritiqueIsOfLatest`, `KeepsAgentContract` | `TypeOK`, `WithinRecursionLimit`, `BudgetsWithinSchema`, `DrillDownComplete`, `CritiqueAuditsLatest`, `KeepsContract` |
| `ToolHubProofs` | `TypeCorrect`, `CatalogAlwaysChecked`, `CallsAreAllowed`, `UseIsAllowed`, `TopkKeepsContract`, `RecordsAreOfAnswers` | `TypeOK`, `CatalogChecked`, `OnlyAllowedCalled`, `OnlyAllowedUsed`, `TopkContract`, `RecordsMatchAnswers` |
| `JsonCacheProofs` | `TypeCorrect`, `LockIsHeldByReader`, `ImplementsReadOnce` | `TypeOK`, `LockMatchesReader`, `KeepsReadOnce` |
| `AgentsOnHubProofs` | `NothingOrphaned`, `EvidenceAlwaysRecorded`, `AgentsKeepPhases` | `NoOrphans`, `EvidenceIsRecorded`, `KeepsPhases` |
| `ListsProofs` | lemmas only | what a filter, a slice, a stable sort, a minimum return |
| `RetrievalProofs` | `FixturesAreSound` | `FixtureInv`, inductive |
| | `BudgetsAreHonoured`, `ContextIsJoined`, `CitationsAreOfContext` | `BudgetsHonoured`, `JoinExact`, `CitationsGrounded` |
| `SignalProofs` | `SlowAndFailingAreShown`, `CallGraphIsComplete`, `ClustersAreRanked`, `MetricsAreTrue` | `TracesKeepSignal`, `CallsReachAll`, `ClustersRank`, `MetricsTold` |

The arguments:

* **Scope.** `LostOnlyAtYield` alone is not inductive: a step from "closed" must be
  excluded and the scope must be known to be set in every open state. `LifeInv` says, for
  each place the generator can be, what `cur`, `events` and the graph's task can be: unset
  only before the start, set while it runs, and at the end either cleared or lost by
  a client that left at a yield; a graph's task outlives a closed generator only in an
  abandoned stream. The refinement of `RequestScope` follows step by step from it.
* **Stream.** `OrderInv` says how far the frames sent may have come, by what the graph's
  task does and by its events that are not pulled: before the route is pulled only the
  session frame, while the agent works nothing above a token, and a response only from
  the one event that ends the queue. Each pull then sends a frame that ranks above all
  before it, or another token.
* **Rows.** `TellInv`: in every open state the row that would be written now already tells
  what was sent, and frames are sent only while no row exists; so whichever way the
  generator ends, what a sink gets is true and stays true. It needs `OrderInv`, for the
  frame last sent of a type is the only one.
* **History.** `HistInv`: a run that has drained its graph's events has handed its output
  over (`Handed`), so what `GraphEnds` saves is a turn that was answered, and an answered
  turn never changes. `SerialInv`: while the session's turns have not overlapped, the
  one request in flight holds the saved history, so the first checkpoint of a run
  changes nothing and the last adds its turn; `MatchesAppend` is the cap's part.
* **Cost.** `CostInv` relates the total to the calls that broke the cap and to the place in
  the control flow. While the cap is not exceeded no call has been refused; a request can
  be over it only in the router, after an LLM plan, or after a critique, and each of
  these contributes a known number of refusals; from there the next synthesis must raise.
  That bounds the refusals by `MaxRetries + 2`, one more with an LLM planner, and the
  money by the cap plus one call's price for each.
* **Investigation.** `IInv` ties `steps` to the loop counters and to the node (each
  refinement costs two supersteps, each critique two), the budgets to the number of
  refinements, `drill` to the branches, and `synthesis.call` to the critiques made. The
  merged list names each branch that found something once, in whatever order, so its first
  `DrillCap` items are as many different findings or all there are.
  `RoomAssumption` (`4 + 2·MaxIterations + 2·MaxCritique <= RecursionLimit`, at most 8
  iterations) then gives the bounds. The defaults, 2 iterations and 1 critique with a
  limit of 25, satisfy it; `BudgetAssumption` is the largest budget of the planner's
  table.
* **Hub.** `Shape`, that the index and the list are of one checked catalog, and that a task
  that is invoking has a checked name, survives setup by any task because both
  assignments follow the check without a suspension.
* **Cache.** `HolderFillsGap`: a task under the lock for a file was the last to see it
  missing, and nobody else can fill it before; so a parse always fixes an unfixed file,
  and double-checked locking implements `ReadOnce`.
* **Agents on the hub.** Two invariants. `Awaited`: a task in the hub is one its agent waits
  for; an agent moves on only when these are over, so it leaves nothing behind. `Knows`:
  an agent's fetches are all untouched until it gathers, and afterwards all over, with
  the prompt's evidence being those that answered; they cannot change any more, since a
  task moves only while it is awaited. A behaviour of `AgentsOnHub` is one of `ToolHub`
  (`AgentsUseTheHub`), so the hub's theorems hold under the agents and connect the
  evidence to the records.

* **Selection.** `topk` returns pins, then the rest of the catalog, cut at `k`. Each of the two
  lists names its tools once, where they first appear (`OnceGives`), and they have none in
  common; so the cut keeps `k` different tools, or all, and leaves a pin out only for
  another pin. Neither the pins nor a catalog need be free of repetitions. The same lemma types what is bound.
* **Lists.** Each operator of `Lists` is a function from places to positions. `PlacesAreTaken`:
  among finitely many positions exactly one has a given number ahead of it, which makes the
  `CHOOSE` in `ItemsAt` and `Ordered` a bijection; `SortedByKey` and `FirstItemsAt` are what the
  rest needs of `sorted` and of a filter with a limit. The induction over lengths is not
  ours: cardinalities (`FiniteSetTheorems`) carry it.
* **Fixtures.** `FixtureInv` is the inductive invariant under the theorems on retrieval:
  identifiers are numbered up to their counters, with none used twice; a trace has exactly
  one span without a parent, its first, and each other span names an earlier one of
  the same trace; what is on disk is in time order. The six helpers and `Write` each
  keep their part. TLC finds it true on `retrieval`. The join and the signals are then proved of any files that satisfy it.
* **Join and citations.** A row fetched by a filter and a limit is among the oldest of its
  kind (`OldestFirst`), since the files are in time order; the trace a context is named after is
  the one asked for or a failing one of the service (`AnchorIsNamed`), and without a
  correlation asked for it has that trace's, which selects the trace if it is there or
  touches the service (`AnchorIsJoined`); every touched service is measured (`ContextMetrics`). An identifier is a citation left over exactly if `ExtractRefs` has it,
  and its sets are shown to be the fields of the context (`RefsOfContext`). That the drill-down
  finds the very row needs identifiers to be unique.
* **Signals.** A span outside the cut is outrun by `slowest_k`, counted through the bijection of
  the sort (`SkeletonKeeps`). The call graph is complete because a set of services that has the
  root and is closed under calls has, by the least span outside it, all of them. The
  ranking of clusters is by severity and then size; with at most 100 rows this is the
  order of `100 * severity + size`, a key for `SortedByKey`. The k-th of the sorted values has
  at least k at or below it and fewer than k below it (`ValuesByRank`), which `Pct` turns into
  what `MetricsTold` says of a percentile.

Assumptions on the constants, besides those named above: `ScenarioAssumption` (the script's
helpers are called with numbers, and with a name for each service, message and metric;
values are not negative, as counts, rates and latencies are), `QueryAssumption` (a query's keywords
are of the planner's table) and `LimitAssumption` (limits are naturals, as the schema's
`ge=0` and the code's defaults are; a negative limit cuts at the end, see section 3).

What a theorem says and the small instance did not show: the ratio of a metric is rounded
to hundredths before it is compared with the threshold, so a metric within half a
hundredth of the threshold may be flagged or missed, against signals.py:83-84 "exceeds
`anomaly_threshold`". `MetricsTold` leaves that gap open and no more: a rise is flagged from a
ratio of 3.01 on and never at 3 or below, a fall from a third on, down to but not including
a two-hundredth, and never above 0.335. The three changes of section 3 that are never flagged
are clauses of it.

Model-checked only: liveness (`EveryRequestEnds`, `InvestigationEnds`, `UseEnds`, `LoadEnds`,
`AgentEnds`), for fairness and ENABLED are outside the prover's reach. Every other
property of a passing run is the statement of a theorem.

## 5. What is not modelled, and the plan

Not modelled: registration and dispatch of the MCP server, settings, prompts and
schemas (beyond the defaults and bounds `Signals` and `Planner` read), redaction, tracing,
middleware (configuration, strings or I/O without a decision the properties depend
on); the scripts that seed, replay, report and plot, and the evals, which run alone over files
and print; the inside of the ReAct loop and of langgraph beyond the steps above. Of the
generator, the five scenarios themselves: they are fixed sequences of calls, all of which
`Fixtures` admits up to its bounds, and their values do not matter to any property.

Order of work, most important first; all are done.

1. `RequestScope`, `Ask`: the request, with its proofs.
2. `AgentPhases`, `IncidentGraph`: the investigation, with its proofs.
3. `ToolHub`: the shared catalog, with its proofs.
4. `ReadOnce`, `JsonCache`: the cache, with its proofs.
5. `AgentsOnHub`: the logs agent's parallel fetch with its partial failures, and tool
   selection, composed with the hub.
6. `Lists`, `Rows`, `Signals`, `Planner`: what is kept of the rows, and how many are asked for.
7. `Fixtures`, `Correlation`, `Retrieval`: the join, the limits and the citations.
8. The stream, the rows and the history in `AskProofs`, from invariants on `sent`, `out` and
   `gen`, and on `mem` and `hist`.
9. `ListsProofs`, and with it the rest of `ToolHubProofs`, `RetrievalProofs` and `SignalProofs`.
