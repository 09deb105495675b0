# Formal models of the autonomous AI company

These modules describe the parts of the program that run, wait, fail and are
stopped: the agents' runs, the workflow graph with its experiment tracker, the
event stream of the API, the audit table, the provider clients and the HTTP edge
with its metrics, traces and tokens; and the arithmetic of the business tools.
TLC checks each of them on a small instance; the modules named `...Proofs`
prove for every instance every invariant and every action property TLC checks
there. All paths below are relative to `src/src/autonomous_ai_company/`.

## The system

| Component | State it keeps | Operations | What makes it correct |
|---|---|---|---|
| Agents (`agents/*.py`) | the locals of one `run`: attempt, tracking status, flag of a failed audit backend | `run`, `_audit_primary_failure` | the caller gets one outcome and the primary failure; provider calls are bounded and audited; trail, tracker, tracer and counters agree with the outcome |
| Workflow graph (`graph/*.py`) | `CompanyState` and the tasks of a superstep | fan-out, join, route, error summary, report, CEO | results merged together; the CEO knows what is missing; every outcome is earned; every workflow is answered |
| Experiment tracker (`observability/mlflow_tracker.py`) | the open workflow runs and their children, under one lock | `start_run`, `end_run`, logging | the tree of runs tells how the workflow went |
| Streaming API (`api/streaming.py`) | the pending task, the graph's iterator, the next heartbeat | one asynchronous generator | framed, ordered, complete streams; nothing left running behind a closed one |
| Audit (`audit/*.py`, `schemas/audit.py`) | one table, or one list | append, snapshot | one attempt per event, no lost acknowledged event, an execution's own order |
| LLM clients (`llm/*.py`) | none between calls | `generate`, with a retry loop in the Ollama client | errors that tell what happened to their own call, bounded requests, an answer in bounded time |
| Metrics, tracing (`observability/metrics.py`, `tracing.py`) | one registry per application, an in-flight gauge; one tracer per request with its open spans | middlewares, wrappers of audit logger and tracker | the gauge counts what is in flight; clients, counters and spans tell one story; spans nest and end |
| HTTP API, authentication (`api/`, `auth/`) | none; a token carries its own expiry | routes, exception handlers, login, verification | every failure has a status; a workflow needs a token that is good at that moment |
| Business tools (`tools/*.py`) | none | pure arithmetic on two periods of orders and a series | which requests are answered, and that these can be calculated; results reconcile across tools; rejections are errors of the domain |
| Prompts, schemas, configuration (`prompts/`, `schemas/`, `config.py`, `bootstrap.py`) | none | text, declarations, construction | not modelled, see the end |

**How they interact.** A route builds a `CompanyState` and either awaits
`graph.ainvoke` or hands the graph's event iterator to the streaming generator.
LangGraph runs the node coroutines on the one event loop; a node awaits one
agent's `run`; the agent calls audit logger, tracker, tracer and metrics
synchronously and awaits only the provider. Parallel requests are separate
executions: each has its own compiled graph, audit logger and tracker, and
worker processes share nothing but the audit table and the tracking server.

**What is hard.** Every boundary may raise while an earlier failure is being
reported; a task may be cancelled at its only suspension point; siblings are
stopped while one of them fails; a client leaves or stops reading while the
graph answers; a commit's acknowledgement is lost; clocks differ. `PROJECT.json`
lists these hazards line by line with the properties aimed at each.

## The modules

| Module | Models | Role |
|---|---|---|
| `AgentContract` | what the callers of `run` rely on | abstract specification |
| `AgentRun` | `run` of all five agents | detailed; implements `AgentContract` |
| `AgentRunProofs` | | theorems about `AgentRun` |
| `Workflow` | what a route relies on | abstract specification |
| `CompanyGraph` | graph, five agents, tracker, client | composition; implements `Workflow` |
| `CompanyGraphProofs` | | theorems about `CompanyGraph` |
| `WorkflowStream` | `stream_workflow_events` | detailed |
| `WorkflowStreamProofs` | | theorems about `WorkflowStream` |
| `AuditTrail` | what `AuditLogger` promises the agents | abstract specification |
| `AuditStorage` | loggers, table, crashes, clocks | detailed; implements `AuditTrail` |
| `MCAuditStorage` | | the symmetry TLC uses |
| `AuditStorageProofs` | | theorems about `AuditStorage` |
| `LlmProvider` | what an agent relies on when it awaits `generate` | abstract specification |
| `LlmClients` | router, the three kinds of client, their callers' correction loop | detailed; implements `LlmProvider` |
| `LlmClientsProofs` | | theorems about `LlmClients` |
| `Tracer` | `OpenTelemetryTracer` and its wrappers | operators on one tracer |
| `HttpEdge` | both middlewares, routes, handlers, tokens; agents by their spans | composition, uses `Tracer` |
| `HttpEdgeProofs` | | theorems about `HttpEdge` |
| `Decimals` | rounding of `decimal` | operators |
| `FinanceTools`, `MarketingTools`, `DataScientistTools` | the three tool modules | operators |
| `BusinessTools` | a request handed to all three | composition of the three by INSTANCE |
| `MCBusinessTools` | | the observations TLC tries |
| `BusinessToolsProofs` | | theorems about `BusinessTools` and the operators it composes |
| `InductionLemmas` | | induction over naturals and what it says of functions defined by recursion; used by two of the proof modules |

Next to some definitions stands a mutated form of it, named for the slip it
makes (`CanRetryOffByOne`, `CloseSkipped`, ...). No specification uses one;
each shows that a property notices that slip.

### AgentRun

One action is one boundary call with the local code up to the next; `pc` is the
position, the locals keep the source's names in camel case. The five `run`
coroutines follow one protocol, so there is one module for them: `Profile`
holds the ways they differ (who computes KPIs, who moves `attempt` before the
correction is audited, that the CEO reads the log back and stores artifacts
after its success verdict). The map spreads over the five files: where a
handler is the same in all of them, it names the lines of one.

`Faults` says what the deployment can do to a run: `audit` (an append raises),
`lost_ack` (it raises and the event is stored all the same), `tracking`,
`tracing`, `tool`, `llm`, `provider`, `cancel`. `primary` is the exception the
run is failing with and `cause` what is reachable from it through `__cause__`,
so that `_raise_primary_with_audit_failure` can lose something. The metrics
helpers swallow every exception, so metrics have no fault.

Left out: the payloads, the text of prompts and answers (validation accepts or
rejects), and the six log-and-go-on messages.

### CompanyGraph

The event loop is one thread, so an agent's action is what its coroutine does
between two suspensions: `Begin` up to the first request, `Resume` from an
answer to the next request or the end, `Unwind` when it was cancelled.
`GraphStep` is LangGraph between supersteps. LangGraph is not part of the
repository; it is modelled from what the code builds with it (edges, a join, a
conditional edge, `ainvoke`): supersteps, updates merged when all tasks of a
superstep returned, the first failed task cancels the others, and the executor
waits for them before it re-raises. Cancellation takes effect before a pending
answer. `Disconnect` reaches the graph only through the stream: its generator
cancels the pending task; the server lets a plain `/workflow/run` finish, which
is the same model without that fault. A second cancellation while the executor
waits is not modelled.

`faults` is chosen at the start and kept, so that properties can speak of
executions in which, say, the tracker works. `MayOmit` names specialists whose
node may return no result. The shipped nodes always return one or raise; the
test suite runs the graph with a finance node that does not
(`tests/integration/test_company_graph.py:402`), and this is what makes the
error path worth checking. The run `error_summary` uses the shipped nodes only.

The tracker is the tree of MLflow runs: `parent` is the workflow's run,
`child[n]` the agent's. `Endings` lists every point at which `end_run`, or the
logging before it, can raise.

### WorkflowStream

`at` is the position of the generator: suspended at one of its yields, in
`is_disconnected`, in `wait`, or in its finally block. `pending` is the task
that awaits the next native event. The server asks for a chunk only when it
could send the last one, so a stalled client suspends the generator at a yield.
`Abandon` covers both ways it is left from outside: a cancellation inside an
await, and a generator closed at a yield. Before the first yield is resumed
there is nothing to clean up.

Time is abstract: the poll interval may elapse whenever the generator waits
without an event, a heartbeat becomes due at any moment.

### AuditStorage

An append is stamped and built under the logger's own lock, then inserted
(drawing its id), committed and acknowledged. Two loggers stand for two
executions in two processes; they share only the table. `Fail` before the
commit leaves nothing, after it leaves the row. `skew` is how far a host's
clock is ahead; a clock does not step back (see Not modelled). `Snapshot`
happens once: its result is compared with every later state of the table, and
further readings would add states but no cases. The bounded appends end, so
deadlock is not checked in this run.

`AuditTrail` is the interface between the two halves. An agent waits for its
append, so what it sees is a whole append: one that begins, writes and returns is
`Persisted` in `AgentRun`, one that raises, before or after it wrote, is
`Rejected`. `ImplementsTrail` maps the trail of a logger to the rows a snapshot of
the table would return for it, in that order: a lost row, a doubled one or one that
moves is not a step of `AuditTrail`.

### LlmClients

The router constructs one client and all agents of a workflow share it, so the
model has one client and several agents. `Generate` sends the first request of a
call, `RequestEnds` is everything up to the next request or the end of the call:
for Ollama the loop with its retry, for the SDK clients (built with
`max_retries=0`) always the end. `ServiceAnswers` ranges over the ways a
transport can fail and over complete, empty, blank and unreadable responses;
blank text passes the clients' own test and is refused by `GenerationResult`,
which makes it an error outside `LLMError`. `attempt` is a local of `generate`:
`FailureExplained` fails at once if it were kept on the shared client
(`RetriesShared`). `Validate` is the agent's correction loop, kept here so that
the two loops can multiply. The composition root builds the Ollama client
without retries; the runs give it one, which its constructor offers.

`LlmProvider` is what `AgentRun` takes for granted: every call ends, a failed one
is the run's last. The clients implement it if they time out.

### Tracer and HttpEdge

A tracer is one record; `StartSpan`, `EndSpan` and so on are its methods. The
current span is a context variable: each task has its own and a new task starts
with its creator's (`Inherit`). `TracedCall` opens and closes a span around one
synchronous call.

`HttpEdge` is what surrounds a workflow: `Arrive` enters both middlewares,
`Leave` runs their finally blocks from the inside out. A response, an exception
and a cancellation leave differently: the handler for unexpected errors sits
outside the middlewares, so they see the exception and the client still gets a
500. The registry is shared by all requests, a tracer belongs to one. Of the
agents only what these boundaries see is kept: they open a span, make an audited
call and a tracked one, await, make one more audited call, and end. An agent
whose `log_start` or `start_run` raises is `leaked`: the span was opened in front
of the try statement and nothing ends it. Tokens are their expiry times; a
token of an earlier life of the server is as good as a new one. Wrong passwords,
bad signatures and missing headers are all the same 401. Metrics and tracing are
both on. Of the ways not to reach a route, `Admit` keeps the 401, 422 and 503: a graph
dependency whose construction raises and the statuses 403, 404 and 405 are left
out; no property depends on them.

### The business tools

Amounts are integers in their smallest unit and intermediate results fractions,
rounded once where the code calls `quantize`. The fifty digits of a quotient before
that are taken as exact; that a result may need more than fifty is not: `Limit` is the
first number that does, and `Fits` what `quantize` accepts. `_to_money` turns its
refusal into an `InvalidDatasetError`. `profit_margin` and `revenue_growth_rate` do
not, so that a cost or a growth out of all proportion to the revenue, in rows that are
all valid, ends in `decimal.InvalidOperation` and a 500 (`finance_tools.py:163`,
`184`). The series tools read their input in Python's default context of 28 digits
(`SeriesLimit`), except for the slope, and a result that does not fit is a plain
`ValueError`. What a tool cannot read is one of three values: `Missing` (absent, of
a type that is no number, or not finite), `NotFinite` in a series, and `Text`, a decimal
string. The last is the form in which `docs/api.md:66-92` shows the amounts, and both
tools reject it with a 400 (`finance_tools.py:55`, `marketing_tools.py:44`). No run
reports that divergence as a violation, but `AnswersExplained` holds of such rows, and
says that they are rejected.

Money comes in tenths of a cent so that rounding has something to do, observations in
hundred thousandths, of which the tools keep four decimals.
Texts are their place in the alphabet, with the blanks around them. What each
tool raises is an operator (`Raises`) in the order of the code; results are only
asked for where nothing is raised. Roots are avoided by squaring comparisons;
the correlation is kept as a fraction.

`BusinessTools` puts a request together row by row. Every intermediate request
is one the client could send, so the three properties are invariants. It fills
in orders or a series: no tool reads both.

## The runs

| Run | Bounds | Result |
|---|---|---|
| `agent_run` | five agents, 2 attempts (the code's value), all faults; 8 676 states | holds |
| `tracking_transparent` | finance | violated |
| `no_recursive_audit` | finance | violated |
| `company_graph` | all five agents, 2 attempts, every subset of the faults; 173 838 states | holds |
| `error_summary` | shipped nodes, agents fail | violated |
| `workflow_stream` | 3 native events, 2 heartbeats; 41 366 states | holds |
| `audit_storage` | 2 loggers, 2 events each, 2 instants, skew of 1; 1.0 million states up to symmetry | holds |
| `llm_clients` | 2 agents, 2 attempts, 1 client retry; 32 304 states | holds |
| `ollama_timeout` | 1 agent, no timeout | violated |
| `http_edge` | 2 requests, 2 agents each, 2 instants; 528 348 states up to symmetry | holds |
| `business_tools` | 3 orders over two periods, or 4 observations of 7 values, or 11 of 2; 308 993 states | holds |
| `short_series` | 4 observations | violated |

`agent_run` has nothing bounded but the attempts, and there with the code's own
number. Three native events are an event of each kind with a repetition, and
let one be pending while one is yielded and one was sent; two heartbeats let one
fall before and one after a node event. Two events per logger suffice for
order and duplicates, two loggers (interchangeable, and all properties of the run are
safety properties) for every pairwise interleaving, a skew of one
tick for the two clocks to disagree either way. Two agents make a shared retry
counter visible; two attempts and one retry make both loops turn. Two requests
overlap in every way the gauge, the registry and the tokens can tell apart, with
the tokens of an earlier life letting both be workflows; two agents are siblings
with spans of their own, and one tick separates a good token from an expired one.
Three orders have repeated customers, ties between segments and amounts on both
sides of half a cent, with a segment limit of 1 (3 in the code) so that two
segments suffice to cut. Five digits for the amounts (50 in the code) let ratios of
single orders fit or not, and still be larger than any product TLC meets by itself;
for the same reason a series has one digit in the default context (28). Four observations
are any of seven values on both sides of these limits; eleven are the fewest of which
one can lie three standard deviations off, and take two values. Window, horizon, season and
threshold are the code's defaults.

**What the passing runs show.**

* Agents: a failure is never replaced by one met while reporting it
  (`PrimaryKept`), and every failed append shows in the exception
  (`AuditFailuresSurface`). Calls are bounded and audited (`EveryCallAudited`).
  A result stands behind exactly one success verdict (`VerdictMatchesResult`);
  a run without audit failure or cancellation closes its trail (`TrailClosed`),
  both with the one exception the code has: the CEO's publication step comes
  after its verdict, so its trail may hold success and then failed. Counters,
  tracker, tracer and caller agree (`OutcomesAgree`, `RetriesReported`, the
  latter again with the code's exception: a retry the audit backend stopped is
  counted). The run keeps `AgentContract` and ends.
* Graph: `MergedTogether`, `CEOKnowsGaps`, `TrackerTree`, `OutcomeEarned` (a failed
  or cancelled task holds the workflow where it is, what its siblings return all the
  same is thrown away and no later agent has cost anything; success is answered only
  for the returned work of every agent that was needed, failure only for an agent that
  failed); it keeps `Workflow`, and every workflow is answered. `TrackerTree` also says
  what is not promised: the root run stays open when a specialist fails.
* Stream: `Framing`, `NodeEventsCarried`, `NothingLeftRunning`. A client that
  leaves ends the execution even if the server cancels nothing
  (`DisconnectStops`); the end of the graph is announced unless the client
  leaves or stops reading (`EndAnnounced`).
* Audit table: `ExactlyOnce`, `OwnOrder`, `LateRows` (what a second reading may
  find in front of what the first one saw), and `ImplementsTrail` (the rows, in snapshot
  order, are a trail that only grows, by one event for an append, before it returns).

* Clients: an error is that of the call's own last request, in the promised
  category, after all its retries and only then (`FailureExplained`); one run
  makes at most attempts times (1 + retries) requests (`RequestBudget`); they
  keep `LlmProvider`, so the liveness of `AgentRun` rests on something.
* Edge: the gauge is the number of workflows in flight (`GaugeCountsWorkflows`).
  `OutcomesAgree` relates what clients were sent, the counters and the request's
  span, with the differences the code has: a task cancelled before it answered
  counts as a 500 nobody received, and a stream broken behind its header is a
  failure to the metrics and a success to its span. A stream whose workflow
  fails is a 200 and a success to both. `SpansNest`: every span hangs under its
  own agent's, carries its workflow's id and ends with the request, but for the
  spans of leaked agents. `OnlyTokenHolders`: no workflow without a secret, a
  login and an unexpired token.
* Tools: `AnswersExplained` (which requests are answered, told from the request: rows
  each tool can read, a cent of revenue in either period, and figures that fit; with the
  margin of one step within which rounding decides; everything answered can be
  calculated), `OrdersReconcile` (Finance and Marketing agree on the
  same orders to the cent; churn, retention and growth fit; row order does not
  matter), `SeriesReconcile` (forecast and trend, mean and interval, outliers
  and length, season and repetition; the series read backwards).

**What the violated properties show.** Each states what the repository says.

* `TrackingIsTransparent`: `config.py:176` says tracking does not change
  application logic; a tracker that raises outside the finally block fails the
  run.
* `NoRecursiveAudit`: `finance_agent.py:190` says a failing backend is not asked
  to record its own failure; a run whose primary failure is an `AuditError`
  does ask it, once.
* `GapsReachCEO`: the README's missing results that "take the deterministic
  Error Summary path" cannot arise from the shipped nodes: a specialist without
  a result has raised, and that ends the workflow.
* `TimeoutsSurface`: `llm_router.py:29` asks providers to surface timeouts; the
  Ollama client of the composition root has none.
* `RejectionsAreDomainErrors`: `docs/api.md:149` promises a 400 for invalid
  dataset input; a series of two observations is a 500. (So is a request whose margin
  or growth does not fit; the run needs only the series.)

## Fairness

* `AgentRun`: the event loop keeps running a task that can run. That the
  provider answers is owed to the hosted providers' SDKs, whose requests time
  out by default (`ImplementsProvider`). The Ollama client is built without a
  timeout, and the liveness results do not cover it (`TimeoutsSurface`). Cancellation is not fair: nobody has to.
* `CompanyGraph`: the same for every agent task, and for the runner. The client
  need not leave.
* `WorkflowStream`: only the generator itself. Nothing is assumed of the graph,
  the clock or the client, and `Abandon` has no fairness, so termination does
  not rest on the server cancelling anything.
* `LlmClients`: an agent's task runs when it can and a request's timer expires.
  The service owes no answer and nobody has to cancel, so calls end because they
  time out. `TimeOut` does not exist for an Ollama client built without one.
* `AuditStorage`, `HttpEdge` and `BusinessTools` have no liveness property.

## The proofs

`AgentRunProofs` holds for any `Agents`, `MaxAttempts` and `Faults` that satisfy
the three assumptions of `AgentRun`: agents among the five, at least one
attempt, known faults. Proved:

* `TypeCorrect`, `AuditFailuresAlwaysSurface`, `OutcomesAlwaysAgree`,
  `RetriesAlwaysReported`, `EveryCallAlwaysAudited`, `VerdictsAlwaysMatch`,
  `TrailAlwaysClosed`: invariants, every one the run `agent_run` checks;
* `PrimaryAlwaysKept`: the action property;
* `ContractKept`: the safety half of the refinement of `AgentContract`.

None of the invariants is inductive. `IInv` adds what the code's control flow
guarantees at each position: `FailureShape` (there is a primary error exactly
where a handler or the finally block may have one, and its causes fit it),
`StatusShape` (`tracking_status` is FINISHED only behind a success),
`FinalShape` (what the finally block has recorded so far), `AttemptShape` (how
`attempt` and the calls go together at each position: the retry count is
`attempt - 1` and `attempt` runs ahead of the calls by one between a correction
and its request) and `AuditFailuresSurface`, which is the part that says the
backend was refused as often as the exception tells. `CallShape` adds the
counts of requests and responses on the trail, `VerdictShape` those of the
verdicts: no success before `log_finish`, nothing behind it where no error is
under way, and the failure verdict last where a handler recorded it. Without the
part about `refused` and `lost_ack` the step of `LogSuccess` whose append fails
after its commit would break it. Each step of the proof takes one action; the
counting lemmas say what `Append` does to `Count`.

The module `LlmClientsProofs` proves, from `ClientAssumption` alone (at least
one attempt, any number of retries) and for any set of agents,

* `ClientsTyped`: `TypeOK`, with the bound on the requests of a run;
* `BudgetKept`: `RequestBudget`;
* `ErrorsExplained`: `FailureExplained`;
* `ProviderKept`: the safety half of the refinement of `LlmProvider`.

None of the invariants is inductive: while a request is out they do not say where
its call stands. `IInv` adds `CallOpen`, for each agent: every answer of the call
so far was a failure that may pass, there is one for each retry made, and the
requests made plus the retries left are within the budget. A retry takes one of
those left; an end needs none. `TranslationRight` compares the two translations
with the documented categories once for all errors, and `OthersKeep` says that a
step of one agent leaves its siblings' calls alone, which is what a counter kept on
the shared client instead of in the call would break. The bound in `TypeOK` is a
product of two variables; `OneMoreCall` and `ProductGrows` are the arithmetic.
The refinement needs one fact more, `AskedOnText`: a run that is about to call
`generate` has not called yet or holds a text.

`CompanyGraphProofs` takes the three assumptions of `CompanyGraph` (at least one
attempt, known faults, `MayOmit` among the specialists) and proves `GraphTyped`,
`AlwaysMergedTogether`, `CEOAlwaysKnowsGaps`, `TrackerTreeTrue`, `AlwaysOutcomeEarned`
and `PromiseKept`, the safety half of the refinement of
`Workflow`. `OrderInv` is why they hold: at each superstep it says which tasks
cannot have started and what the state holds, so that a result is in `results`
only behind a join and `errors` is either empty or the one summary. `TaskInv`
ties a task to its run in the tracker, `RootInv` the tracker's root to the CEO's
run, which closes it, and `AnswerInv` what the client was told to what the
runner decided. `AlwaysOutcomeEarned` needs all but `RootInv`, and `MergedInv` on
top: what is written or merged was returned, and at each superstep only agents of
earlier ones have results. It is kept because a join moves on only from a superstep
all of whose tasks returned (`MergedKept`).

`WorkflowStreamProofs`, for any number of native events and heartbeats
(`NativeAssumption`, `BeatsAssumption`): `StreamTyped`, `AlwaysFramed`,
`AlwaysCleanedUp`, `AlwaysCarried`. `Framing` speaks of what was sent and must
survive steps of the graph, so `TaskInv` relates the position of the generator, its
pending task and the iterator the task drives: a task that ended with an error
belongs to a graph that raised, and one that ended at the end to a graph that is
done. `SentInv` says that nothing terminal is sent while the generator can still
yield an event. `NodeEventsCarried` compares the filtered sequences of what was
sent and what was emitted; `CarriedAppend` says what one event more does to either
side, and with `TaskInv` every step of the stream is one of its cases.

`AuditStorageProofs`, for any finite set of loggers (`LoggersAssumption`) and any
bounds: `AlwaysTypeOK`, `AlwaysExactlyOnce`, `AlwaysOwnOrder`, `AlwaysLateRows` and
`TrailKept`, the whole refinement of `AuditTrail`: a commit appends to what a snapshot
returns (`OneLonger`), and no other step touches it, because the new row comes after
every older one of its logger in (timestamp, id). `PairInv` orders the rows of one
logger by call, time and id; it is kept because `RowInv` makes every committed row
older than the draft of the append under way (the clock of a host does not step back
and ids only grow). `CountInv` accounts for a logger's rows, with the one in
flight; after a crash it only bounds them, since a commit nobody saw stays.
`SnapshotInv` compares drafts and new rows with the rows of the snapshot by the
true clock, for the calls that did not overlap it. The bound on the ids in `TypeOK`
is a count over all loggers: `BoundsInv` has the set of the calls that may have
drawn one (`Drawn`), and an insert adds its own call to it.

`HttpEdgeProofs`, for any finite set of requests (`EdgeAssumption`; the gauge is
a cardinality) and any agents, none of which runs in the request's own task
(`TaskAssumption`): `GaugeAlwaysCounts`, `OnlyTokenHoldersRun`, `SpansAlwaysNest`,
`OutcomesAlwaysAgree`, `AlwaysTypeOK`. There are three invariants, each of which
rests on the one before.

* `IInv`, gauge and tokens. The gauge is inductive by itself once a request that
  leaves is known to have entered: `LeaveMetricsShape` says what the finally block
  does to it on every way out. `TokenInv` keeps for each token the login it was
  answered with, `BearerInv` the credentials of a request among the tokens.
* `SInv`, spans. `Standing` says which spans are open at each position of a request
  and of its agents, under which parent and with which run; `Contexts` what each
  task's current span is; `Filed` what every exported span must be. Siblings
  interleave freely because a task moves no context but its own and opens or ends no
  span but its own and its calls'. Identity is the subtle part: the root spans learn
  the run when the first agent begins, so `RunIn` depends on whether one has.
* `OInv`, counts. Each counter equals the number of requests that are over with
  the outcome it counts, or lies between two such numbers where the code is not
  exact (`Completed` and `Watched`: a stream its client left may count either way).
  The calls of the audit logger are counted as spans, over all tracers.

### Recursion and sums

The sums, filters and choices of the tools and of the stream are recursive
functions and CHOOSE. `InductionLemmas` derives induction from the library's
well-founded order of the naturals, stated of sets: a set with zero and all
successors is `Nat` (`SetInduction`, `BoundedInduction`). From it: a recurrence has
a solution (`RecurrenceSolved`), and two functions that agree at first and after
every step agree (`StepwiseEqual`). With the two a recursive function stands for its
equations. A new fact about a sum is then one about its growth: `TotalOrder`,
`TotalLinear`, `TotalReversed`.

`BusinessToolsProofs` is for any segment limit, window, horizon, season and
threshold, any amounts and observations, any number of rows and of observations
(`ToolsAssumption`). `PrecisionAssumption` says that `Limit` is a multiple of a hundred
percent, which a power of ten is, and that the greatest amounts of as many rows as are
allowed still add up within it: sums are not rounded.

* `RoundsToNearest`: `quantize` as modelled returns the nearest integer, of two the
  even one. That is all the other proofs know of rounding: it is unique, keeps the
  order and commutes with a change of sign.
* `AnswersAlwaysExplained`: the requests Finance answers lie between two conditions
  that speak of the rows alone, one step of the ratio apart (`FinanceExplained`: a ratio
  of at most `Limit` / 10000 times fits, `RatioFits`, and one that fits is below one step
  more); only a ratio beyond the first raises `InvalidOperation`; Marketing
  answers just if names and revenues are good. All figures of an answer fit
  (`FiguresFit`, `MarketingFits`, `DataScientistFits`): an average is at most the
  sum it is taken of (`MeanOfSum`). No denominator is zero; the interesting one is the
  slope's: twelve times it is n²(n² - 1) (`SlopeDefined`), from the sums of the indices
  and of their squares.
* `OrdersAlwaysReconcile`: both tools sum up the same column (`ToolsAgree`); the
  segments partition the orders, so their totals sum up to the column's, in
  whatever order the fold takes them (`SegmentsSum`, `FoldsAgree`); a segment
  stands in `top_segments` at the place of its rank (`TopLeads`); roundings that
  are each to the nearest keep customers from falling by more than the churn
  (`GrowthAgainstChurn`); and every sum and set is the same read backwards.
* `SeriesAlwaysReconcile`: slope, variance and correlation are all of one form, n
  times a sum of products less a product of sums (`Codev`). Read backwards the
  slope's numerator changes its sign and the others stay. n times the variance is
  the sum of the squared deviations, so it is not negative and zero only for a
  constant. Few observations lie far off (`AnomaliesFew`, Chebyshev). The
  interval is found by a choice, so there must be something to choose: `Begins` (what
  fails below and holds above begins somewhere) with the bound that the variance is
  at most a quarter of the squared range (`VarianceBounded`, Popoviciu), which puts
  the choice within the range searched. Forecasts lie on a line, and what rounds to
  a stable slope moves it by half a unit a step at most (`ForecastsFollow`).

Two conjuncts of the properties turned out to be false in general, beyond the
bounds of the run, and were corrected. A repeat customer shows in the rounded rate
only among fewer than 20 000 customers: one in 20 000 is exactly half of a
hundredth of a percent and rounds to zero. And a series that repeats its season is
reported as seasonal only if two whole seasons are in it: with fewer, the part that
is compared may be constant.

## What is only model-checked

Every invariant and every action property of the passing runs is stated by a theorem,
and so is the safety half of every refinement. Left to TLC are

* liveness: `Termination`, `Answered`, `DisconnectStops`, `EndAnnounced`, and the
  fairness half of `ImplementsContract`, `ImplementsWorkflow` and
  `ImplementsProvider`. They need ENABLED, which this prover does not reason about;
* the properties of the runs that expect a violation, which are false of the code.

## Not modelled

* Prompts, output schemas: text building and declarations. `AgentRun` keeps that
  a builder may raise and that validation accepts or rejects.
* Configuration: `Settings` is validated once, before anything runs; its results
  are the constants and initial states of the modules.
* Telemetry detail: histograms, label validation, lazy registration, exporters,
  the attribute allowlists, token counts. They decide what a value looks like,
  not what happens; the null adapters do nothing.
* `feature_importance_summary` and `model_metrics_summary`: no route supplies
  their inputs, and without them they return an empty result.
* Whether unclosed HTTP clients and tracer providers are released: that is in
  httpx and OpenTelemetry.
* The CEO's audit summary, which counts the events of other executions too: it
  feeds one artifact and nothing reads it back.
* Checkpointing: with it enabled the routes pass no `thread_id`, and every
  request fails before the first node.
* A wall clock that steps back: `OwnOrder` does not hold then, as rows are
  ordered by their timestamps.
* The in-memory audit list: one lock around one list, which is the table
  without its failures.
* MLflow's parameters, metrics and artifacts; deployment assets.

## Plan

1. Done: agents, graph with tracker, stream, audit table; first proofs.
2. Done: provider clients with their refinement, the missing timeout, the HTTP
   edge with metrics, traces and tokens, the tools against each other; proofs of
   the clients' budget and errors.
3. Done: proofs of every invariant and action property the passing runs check,
   of the safety half of each refinement, and of what the tools' recursive sums and
   choices compute.
4. Done: the tools' limits of digits and their theorems for arbitrary amounts; the
   audit trail refined by the table's rows.
5. Left: checkpointing, once a route passes a `thread_id`.
