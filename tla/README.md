# Verification of the Agentic Platform Starter Kit

TLA+ models of the engine, of the API around it and of the developer UI
(`app/engine`, `app/api`, `app/ui`), TLC configurations that check them on small
instances, and proofs, checked by TLAPS, of theorems that hold for every
instance. `PROJECT.json` maps each
definition to the lines it translates and lists runs, seeded faults, hazards,
findings and theorems.

To repeat a check: `tlc -config MCGraphRun.cfg MCGraphRun.tla`; to repeat the
proofs: `tlapm GraphRunProofs.tla`.

## The system

| Component | State | Operations | Who calls it |
|---|---|---|---|
| Graph acceptance, `workflow_executor.py` `_validate_graph` | a call's own: `reachable`, `can_end`, Tarjan's index, low, stack | accept or refuse a definition | building a runtime |
| Graph run, `GraphWorkflowExecutor` | `WorkflowState` (steps, visits, results, history) in LangGraph's hands, the event sink of the context | `run`, node and route functions | the API |
| Parallel node, `invoke_parallel` | a semaphore, a task per branch | `branch`, `wait`/`gather`, cancellation | a graph run |
| Orchestrator run, `OrchestratorWorkflowExecutor` | a stack of MCP connections | `run` | the API |
| Agent call, `AgentExecutor` | a stack of MCP connections | `run` | the API, nodes, branches, the orchestrator |
| Run store, `InMemoryRunStore`, `SQLiteRunStore` | records, bounded in number and in events | `create`, `event`, `finish`, `get`, `list` | the API; the event sink, from the loop and from route threads |
| Runtime manager, `RuntimeManager`, `ProjectRuntime` and loaders | the snapshot published last; schemas and frozen prompts of each runtime | `reload`, `snapshot`, `render` | the API |
| API, `routes.py` | none of its own | `/run`, `/agents/{name}/run`, `/reload`, reads | clients |
| Developer UI, `streamlit_app.py` | a session dict | a page, run again on every interaction | a person |

The engine is asyncio code on one event loop: what lies between two awaits is
atomic, and everything that goes wrong goes wrong at an await, in a worker
thread, or when the process stops. The places that are hard:

* A **deadline or a caller** cancels a run. Cancelling marks a task; the
  exception arrives at its next await, possibly after a late answer. A caller's
  cancellation overrides the deadline's.
* **LangGraph runs route functions in worker threads**, which no cancellation
  stops: such a thread can report an event after its run has ended.
* A **parallel node** starts a task per branch, limits them by a semaphore, and
  under `fail_fast` cancels the rest at the first failure. Permits are handed to
  waiters that may be cancelled before they run; a queued branch can start
  between the failure and the moment the parent wakes.
* The **event sink** of a run is the store's `event`, called in the middle of a
  node, a branch, a route or the orchestrator: an error of the store surfaces
  there, with its event recorded or not, and ends what was being reported.
* **Connections** are opened one after another and closed in reverse whatever
  happens; an error in a close takes the place of the result or of the error on
  its way out.
* A **store** evicts runs that are still running, drops events beyond a bound,
  and on SQLite can be interrupted between statements. There a statement may
  raise, and what its call had written stays in the open transaction, which the
  next call to commit publishes.
* A **reload** reads files one after another while they may be edited, and runs
  go on with the runtime they began with. Its handler holds the event loop.
* The **UI's script** is begun again by any interaction, and stopped wherever it
  next touches its session; only the session's dict survives.

What makes each component correct is listed with its module below.

## Modules

Each component has a module, an `MC` module that instantiates it for TLC, and
configurations. Arrows say what is built on what:

    WorkflowGraph <- GraphRun <- GraphRunProofs
    WorkflowGraph <- GraphValidation <- GraphValidationProofs
    NodeVisit <- ParallelNode (implements) <- ParallelNodeProofs
    McpStack <- AgentCall <- OrchestratorRun (composes the two) <- OrchestratorRunProofs
    RunStore <- SqliteRunStore (implements) <- SqliteRunStoreProofs
    DurableStore <- SqliteRunStore (implements, call by call, in MCSqliteRunStore)
    RunStore, DurableStore <- RunApi (runs over either) <- RunApiProofs (and of RunStore by itself)
    RuntimeManager <- RuntimeManagerProofs
    DeveloperUi <- DeveloperUiProofs

Operators marked *Seeded fault* are plausible mistakes. Each is compared with
the definition it precedes: with the fault in its place a run must fail. They
are used nowhere else.

### WorkflowGraph: which definitions are accepted

A definition is a record: nodes, start, kinds, `maxVisits`, transitions (direct,
or conditional with a selector, cases and a default), `maxSteps`, output.
`LocalShape` is what `WorkflowDefinition` enforces and is assumed of every
definition. `Accepted` is the meaning of `_validate_graph`, stated on the graph:
selectors name nodes, each node has one transition, every node is reachable and
can end, and every node on a cycle may be visited more than once. It is written
without recursion (`Reach` is the least set closed under edges), so that it can
be used in proofs.

### GraphValidation: how they are accepted

The algorithm itself, step by step: checks of selectors and transitions, the
recursive `visit`, the fixpoint of `can_end`, and Tarjan's `strongconnect` with
its explicit call stack. A name may be one of the markers: a node called `END`
is taken for the end, so from a start of that name nothing is visited
(`VisitNothing`) and the definition is refused as unreachable. `VerdictIsExact`:
what it accepts is `Accepted`, and each complaint it raises is one that holds.
`EventuallyDecided`: it ends. So it accepts just the definitions that are
`Accepted`. The order in which nodes and targets are looked at is
nondeterministic.

### GraphRun: one run of a graph workflow

`pc` goes from `ready` (a node is due) through `visiting` (its agent is awaited)
and, for a conditional transition, `routing` to `stepping` (between supersteps),
and back or to `done`. `steps`, `visits`, `results` and `history` are
`WorkflowState`; `superstep` is LangGraph's count; `stop` is a cancellation
under way and `raised` an error on its way out. An agent may answer with any
value, fail, or hang. `DeadlineExpires` and `CallerCancels` may happen at any
time, and are delivered later (`Cancelled`). `LateRoute` is the route thread
that outlives its run. `SinkRaises` is any emission that raises instead of
returning, its event recorded or not: the error leaves the node or the route in
place of its answer (`EventsDue` says which events may be due where).

* `WithinBudget`: budgets hold for visits started, not only for completed ones.
* `HistoryTellsTheRun`, `RunIsReplay`: state, events and history tell one story,
  and the history alone can be replayed against the definition to the same
  result. A completion that the history lacks is one the sink raised on, the
  last event of a run that does not complete.
* `EventsAreReplay`: the timeline is the same replay and goes further than the
  history, to visits that never end and to a route whose thread outlives the
  run.
* `OnlyLoopsExhaustVisits`: the static test of cycles suffices, no run comes
  back to a node that allows one visit.
* `RecursionLimitUnreached`: LangGraph's own limit never ends a run.
* `AnsweredRunEnds`, `DeadlineEndsRun`: a run ends when its agents answer, and
  when its deadline passes though they hang.

### ParallelNode and NodeVisit: a parallel visit

`task` is the state of each branch (created, queued, granted a permit, running,
ended), `permits` the semaphore's value, `cancelling` the tasks told to stop.
The semaphore follows asyncio's: a released permit goes to the first waiter in
line, which holds it before it runs, and a waiter cancelled then gives it back.
Which waiter is first is left open. A branch's report may raise (`SinkRaises`):
the error ends its task as `unreported`, with the permit given back, and counts
as the branch's failure, even if `branch_completed` is on record. So may the
node's own report at the end (`LeaveUnreported`). `PermitsConserved` and
`NoLostWakeup` are about permits; `NothingStartsWhenClosing` about cancellation;
`EventsTellBranches` about what is reported, exactly where the sink returned and
within limits where it raised; `FailureEndsNode` and `EventuallyDone` about the
end.

`NodeVisit` is the visit as a run sees it: branches fail, it is stopped, and it
completes, fails or is cancelled once, as the policy allows, or has completed
and finds no one to tell. `ParallelNode` implements it (`VisitSpec`), which is
what lets GraphRun treat a parallel visit as a single outcome.

### McpStack, AgentCall, OrchestratorRun: connections and timeouts

`McpStack` is `open_mcp` with the exit stack: servers still to connect and
servers connected. `AgentCall` is `AgentExecutor.run` from the input check to
the output check. `OrchestratorRun` is the orchestrator's `run` with an instance
of `AgentCall` as its manager's call: they share the task, so they share
`interrupt`, the cancellation that arrives at the await the task is suspended
in, and each has a stack and a timer of its own. Any server may fail to connect
or to close, models may hang, the caller may cancel at any await, and a
cancelled SDK call may answer with an error of its own. Each of the manager's
events may raise (`SinkRaises`), and the error takes the place of its answer.

* `ServersSpanTheRun`: the specialists' connections are open as long as the
  manager works, its own are closed before theirs, none outlives the run.
* `OutcomeIsEarned`: a result is returned only if nothing failed, not even a
  close, and a timeout or a cancellation is reported only if there was one.
* `TimelineTellsManager`: the timeline is just `ManagerTimeline`, less at most
  the event the sink raised at, and the run's outcome agrees with it. A manager
  that timed out or was cancelled leaves its start and no end, as the code
  reports nothing of either: a reader of the timeline cannot tell them from each
  other, nor from a run that is still under way (see findings).
* `WorkflowTimeoutEndsRun`, `AgentTimeoutEndsRun`: either timer ends a run
  whose model hangs, without help of the other.

### RunStore, SqliteRunStore, DurableStore: what is recorded

`RunStore` is the store in memory and at the same time what the `RunRepository`
protocol promises; its ghost variables `created`, `emitted` and `told` are what
callers have said. `KeepsTheNewest`: just the newest `max_runs` are kept,
however many of them still run. `RecordsWhatItWasTold`: a record is its run's
status and the beginning of its events.

`SqliteRunStore` has rows as the open connection sees them (`table`), what is
committed of them (`disk`), rowids as SQLite allocates them, the wall clock, and
the call that holds the lock. Each statement and each commit is a step. The
process may stop at any of them (`Restart`: what was not committed is gone), and
any may raise (`CallRaises`: the statement alone is undone, or SQLite rolls the
whole transaction back; nothing in the code does). Then `table` and `disk`
differ between calls, later calls read what the failed one left, and the next
commit publishes it.

* `StoreSpec`: through restarts, with a clock that does not step back, and until
  a call raises, what is committed implements `RunStore`: in particular a call
  that has returned is not lost.
* `ReturnedWritesSurvive`: whichever calls raise, a row has all events and the
  last status of calls that returned after a commit, and beyond those only what
  failed calls had tried to write. `tried` and `may` are ghosts that say which
  those are.
* `CallsAreOneStep`: with its lock, a call is one step for those who do not hold
  it. `DurableStore` is that store: a call that returns after a write commits
  all that is open (`Commit`); one that raises commits nothing and leaves the
  connection with what some statement of it did, or with what is on disk
  (`Raise`); which rows an eviction keeps is left to the clock. `SqliteRunStore`
  implements it, with the rows at the beginning of the call under way for its
  `record` (`before`, a history variable). A call that raised may be taken for
  one that returned, where both leave the same: what a return promises is
  `ReturnedWritesSurvive`.
* `BoundIsRestored`: a create that raises may leave one row too many; the next
  one that returns leaves `max_runs`.

### RunApi: answers, records and timelines

`run_agent` and `run_workflow` over the store in memory, `RunStore`, or over the
one on SQLite, `DurableStore`; `durable` says which. Every store call is a step
that may raise (`StoreRaises`). In memory it then has changed nothing; on SQLite
it leaves whatever `DurableStore` allows: a row too many, an eviction or an
update that callers see and a restart undoes, or the loss of what the call
before had left open. The engine reports, returns or raises, and its reports may
raise too; route threads report at any time, also while a handler is between two
calls; `/reload` holds the loop while it builds; the process may stop between
any two steps, and a store on SQLite starts again on what it had committed.

* `KeepsTheNewest`, `RecordsWhatItWasTold`: RunStore's, here with the callers
  the store really has, and of the store in memory only. On SQLite neither holds
  once a call has raised or the clock is set back.
* `AnswerMatchesRecord`: what a client was told is what the records say, those
  that callers see and those on disk. The exception is the code's: a create that
  raises may leave an eviction uncommitted, the evicted run's `finish` then
  finds no row and returns, and its row comes back `running` after a restart
  though its client was told of success (`MaySay`). It never comes back with the
  other end.
* `TimelineIsFramed`: a timeline, seen or on disk, begins with `run_started` and
  has at most one end, the one the client was told of.
* `EveryRequestAnswered`: a request is answered if the engine ends its run,
  whatever the store raises and however long other runs take.

### RuntimeManager: reloads

A directory is a record of contents: `project`, `models`, `agents`, `tools`,
`workflow`, `schemas`, prompts and the directories that are roots of filesystem
tools. A content is what a file refers to, or `Bad`; that of `schemas` is the
modules there and the classes of each. It is edited one file at a time, also
while a build reads it, in the order of `load_project_configs`. The schema
modules are listed (`Discovers`) and then imported one by one (`Imports`), so
that a class moved meanwhile may be met twice, which is refused, or not at all.
The build then checks agent after agent (`ChecksAgent`: its model resolves to a
provider that is supported, its prompt is read, parsed and frozen, its schemas
were discovered), each of its tools (`ChecksTool`: a root that is a directory, a
URL, a server that exists), and the workflow, whose graph the executor has to
accept. `Refuses` is enabled just where a `ConfigurationError` is raised. A run
builds its agents from the runtime it captured, validating tools once more.

* `PublishedIsCoherent`: what is published resolves all its references, even if
  it mixes two edits and no one ever had that directory.
* `QuietReloadIsExact`: a reload during which nobody edits publishes the
  directory as it is if a build accepts it, and otherwise changes nothing.
* `RevisionsNameRuntimes`: revisions are numbered without gaps and name one
  runtime each.
* `RunsKeepTheirRevision`: a run finds every agent, model, prompt and schema it
  needs, unchanged to its end; a tool is refused only if its directory is gone.

### DeveloperUi: one browser session

`at` is where the script is, `session` the dict that survives it, `form` what
the widgets held when it began, `page` what it shows. `Interacts` is the user,
at any time; `StartsAgain` stops the script where it next uses Streamlit, which
includes every access to the session (`Waits` are the requests, which are waited
for). The client's outcomes are `Answered`, with a run or with an error that
names one, and `NoRunIsNamed`: refused, unreachable, or given up on. Runs of the
API advance (`RunAdvances`) and are evicted (`RunIsForgotten`) meanwhile; the
store may have no room for a run's last event (`ends`), and what it has stored
it keeps as long as the record.

* `PageTellsOneSubmission`: unless the user cut the stores of a submission
  short, the page shows a finished run with its own request, or an error, of the
  API that the page is about.
* `TraceTellsTheEnd`: a trace whose caption says that the run is over shows how,
  just if the store had room for that event; never because the events are older
  than the record.

## Runs

| Run | Shows | Instance |
|---|---|---|
| `graph_run` | the properties of a run, that it ends, and the margin of `recursion_limit` | 12 definitions over up to 3 nodes that are accepted, out of more that are not: loops through an agent or a parallel node, self-loops, visit bounds 1 to 3, step bounds 2 to 5, and a self-loop with `max_steps` around LangGraph's 25; per node one to three outputs |
| `graph_run_trace` | violation, see findings | as `graph_run` |
| `parallel_node` | permits, tasks, events, refinement, liveness | 3 branches, 1 or 2 permits |
| `graph_validation` | the algorithm is exact | over 3 nodes: two with up to 2 edges and one with any, four choices of bounds, misshapen lists of transitions, and nodes called like the markers |
| `sqlite_run_store` | SQLite implements the store through restarts, what is kept when a call raises, and that calls are atomic | 3 runs, 1 kept; 2 events each, 1 kept; 2 instants; one call raises |
| `sqlite_run_store_clock` | violation, see findings | as before; the clock may step back, no call raises |
| `run_api` | bounds of the store, answers and records agree, every request is answered | 2 requests on a store for 1, in memory or on SQLite, any call raising, 3 events kept of up to 6, 1 reload |
| `runtime_manager` | coherence, exactness, numbering, stability | 2 reloaders, 1 run, 2 edits, 3 revisions; 2 agents, a tool of each type, a graph or an orchestrator, 2 schema modules between which a class moves |
| `developer_ui` | what the page shows | 2 APIs, 2 submissions, 3 interactions |
| `developer_ui_failed` | violation, see findings | the same |
| `orchestrator_run` | connections, outcome, timeline, timeouts | up to 3 servers for the specialists and for the manager |
| `orchestrator_run_timed` | violation, see findings | the same |

Why the bounds are enough. A loop needs two rounds to tell the first result from
the latest and to meet either budget first. Three branches on one permit let one
wait while another is handed the permit that a third gives up as it fails; on
two, a branch that failed, one that runs and one that is handed a permit meet. A
fourth only adds more of the same, and the proofs hold for any number. Three
nodes hold a cycle within a cycle. A store for one with a third run evicts a run
that is still reporting, can hold a row too many after a create that raised, and
can reuse a rowid; one call that raises leaves a transaction open for any other
call to read, to publish or to lose. With room for one run a request always
evicts the other, and either create may be the one that raises. Three servers
put a failing one between two that work. Two edits make a directory wrong and
right again during one build, or break a reference on either side of it. Two
submissions and a third interaction let a submission be cut short, or fail after
another one failed, on either API. Symmetry is used over runs and threads that
no property tells apart, never in a run with a liveness property.

The bounds `MaxEmitted`, `MaxReports`, `MaxReloads`, `MaxEdits`, `MaxRevision`,
`MaxClock`, `MaxRaised`, `MaxSubmissions` and `MaxInteractions` stand in guards
and only keep the state space finite.

## Fairness

* The event loop runs what is ready: weak fairness of each step that waits for
  nothing (`LoopRuns`, `Local`, and the handlers in `ServingSpec`).
* Models and timers are fair only where a property assumes it, as a premise of
  its own: `AnsweredRunEnds` and `EventuallyDone` assume that agents answer,
  `DeadlineEndsRun`, `WorkflowTimeoutEndsRun` and `AgentTimeoutEndsRun` that one
  timer fires, and nothing of the agents. `FailureEndsNode` assumes neither.
* MCP servers close, or fail to: the SDK's client bounds that. That they connect
  or fail to is a premise of the two timeout properties, and is left out of
  `TimedSpec`, where connecting may take longer than any timeout.
* `ServingSpec` assumes nothing of the engine. That it ends a run is a premise
  of `EveryRequestAnswered`, for the request it is about alone:
  `AnsweredRunEnds` and `DeadlineEndsRun` show when it does, and
  `CappedByTimeout` that it may not. The premise is strong fairness, because the
  loop may be busy with another handler whenever the engine could return.
* A reload ends, and so gives the loop back: its build awaits nothing and only
  reads files.
* Nothing is assumed of clients, of users, of edits, or of how long a build
  takes.

## Findings

* A failed **parallel node** leaves no `node_failed` event: `invoke_parallel`
  has no counterpart of the `except` in `invoke_agent`, while
  `docs/observability.md` lists node failure among workflow events. An
  orchestrator's manager that times out leaves none either: `except
  TimeoutError` at `workflow_executor.py:427` emits nothing (`ManagerTimeline`
  states it).
* The **SQLite store evicts by wall clock**: after the clock is set back a run
  is deleted as it is created, and the documented "most recent runs" are not
  kept.
* The **UI names the wrong run** below an error: `last_failed_run_id` is stored
  with an error that has one and never removed, so a later error without one (an
  invalid payload, an API that cannot be reached) is shown with "Failed run ID"
  of an earlier request, possibly to another API.
* The **orchestrator's `timeout_seconds`** does not cover the connecting of its
  specialists' servers, while `docs/workflow-dsl.md` says all runs are capped.

## Theorems

Every safety property that a passing run checks is also a theorem, for all
values of the constants, and so is every refinement but `CallsAreOneStep`. The
proofs need no bound: they hold for all definitions, any number of branches,
servers, runs, threads and submissions, and any limits. Each rests on an
inductive invariant, and the invariants that are new were first checked by TLC
on the runs' instances.

**GraphValidationProofs** assumes `DefinitionAssumption`: a definition has the
shape the configuration models enforce, finitely many nodes and a list of
transitions. Its invariant says, phase by phase, what the algorithm knows.

* `VerdictsAreExact`, of the search: what is visited is reachable, and an edge
  out of it leads to what is visited or is still to be looked at in some frame
  (`Visiting`). With no frame left the visited set is closed, hence all of what
  is reachable. Of the fixpoint: its members can end (`Extending`), and when it
  stops growing the others are closed under edges and have none to `END`.
* Of Tarjan's algorithm: numbers grow along the stack and along the frames
  (`Numbered`, `Stacked`, `Nested`). A node in a frame reaches all that is above
  it on the stack, and all that is on the stack reaches some frame at or below
  it (`Connected`). `low` of a frame's node is the number of a node that it
  reaches (`LowReached`), and no edge looked at since then leads further down
  (`LowLeast`). So, when a node returns with `low` its own number, what is above
  it is one component, and its edges lead to popped nodes or back into it
  (`RootComponent`). When `low` is less, the node reaches a frame below
  (`NoRootBelow`), which keeps `Connected` true as its own frame goes.
* A popped component is closed under edges but for others popped before it
  (`Settled`), so cycles through its members lie within it, and the test of the
  component is the test of each member's cycles (`BoundedIsExact`).

**GraphRunProofs** assumes `DefinitionAssumption` (definitions have the shape
the configuration models enforce) and `OutputAssumption` (`NoOutput` is no
node's output).

* `TypeCorrect`: `TypeOK` is inductive; the step that matters is that the
  transition taken leads to a node of the graph or to `END`, which follows from
  `LocalShape` and `Accepted`.
* `RecursionLimitNeverReached`: the inductive invariant ties `superstep` to
  `steps` at each value of `pc`, with `steps` at most `maxSteps`.
* `LoopsAreTheOnlyRevisits`: the invariant says that every visited node reaches
  the one that is due along edges. So a node due for a second time is on a
  cycle, and acceptance bounds it by more than one visit.
* `BudgetsHold`: events are counted; the invariant ties the number of visits
  started to `steps` and `visits`, and says when the current visit is the one
  not yet counted.
* `HistoryIsTold`: `HistoryAccountsForState` is inductive by itself. That events
  tell the history is not: `EventsTold` adds that each completion stands right
  after its start and belongs to the entry of its rank (`CompletionsTold`), that
  a visit under way was the last thing reported (`OpenVisit`), that the last
  thing before a route is its node's completion (`RouteDue`), that there is at
  most one start more than entries (`StartsTold`), and that a completion too
  many is there only after the sink raised (`AllTold`).
* `RunsReplay`: `Replay` says that each entry of the history but the last has
  the transition to the next one's node, with the results of just the entries
  up to it; `Replayed` says what the last entry leads to wherever control is.
  The lemma the proof turns on is that a longer history does not change what its
  beginning replays to (`BeginningKept`).
* `TimelineReplays` extends it to the events: `EventReplayed` says of each event
  what it owes to the history up to its rank, and, as a longer history does not
  change its beginning, goes on to hold (`EventsReplayed`). A failed route is
  the last event there is (`NoFailedRoute`).

**ParallelNodeProofs** assumes that there are finitely many branches and that
`max_concurrency` is positive.

* `TypeCorrect`, `ClosingStartsNothing`: control of the
  node and its tasks; once it closes every live task has been told to stop.
* `PermitsAreConserved`: `permits + Cardinality(Holding) = limit`, one lemma on
  cardinality per kind of change of `Holding`.
* `NoWakeupIsLost`: inductive together with the former.
* `EventsAreTrue`: `Recorded` says where in the trace a branch's events stand
  (none twice, the start first, the node's completion last of all), and `Agree`
  ties those that are there to the state of the branch's task, exactly unless
  the sink raised in it.
* `ImplementsVisit`: initial states map to initial states and every step to a
  step of `NodeVisit` or a stutter, under the invariants above.

**OrchestratorRunProofs** assumes `ServersAssumption` (an agent declares a
sequence of servers). `IInv` is `CallInv`, of the manager's call and provable of
`AgentCall` alone, and `RunInv`, of the run around it.

* `ServersSpan`: the servers connected and those still to connect are the
  specialists', in order, until the run closes; it closes its own only when the
  call has none open.
* `OutcomesAreEarned`, `TimelineTells`: `Reported` ties the exception on its way
  out to what may have raised it, the sink included, and to the events at each
  point of the run; `Cancellation` says whose cancellation the shared task is
  carrying.

**RuntimeManagerProofs** assumes `ThreadAssumption` and `ContentAssumption`
(threads and references have names, tools are of one of three types) and
`InitialAssumption`: the process starts on a directory that a build accepts, as
`RuntimeManager.__init__` raises otherwise.

* `RuntimesAreCoherent`: `BuildInv` says of a build in progress what it has
  read, which schema modules are still to be imported, and that everything it
  has checked so far resolves in *what it has read*, not in the directory, which
  may have changed since. What is published has been checked in full.
* `RevisionsAreNames`: the lock admits one builder (`LockInv`), whose revision
  is the next one.
* `RunsKeepRevisions`: a run's runtime is one of those published.
* `QuietReloadsAreExact`: `QuietInv` says that a build since whose beginning the
  directory has not been edited has read what is there, the modules it has
  imported included (`QuietRead`). So it publishes the directory, and refuses
  only one that is not `Sound`.

**SqliteRunStoreProofs** assumes positive bounds and a clock that is a number.

* `BoundIsKept`: `Bounded` counts rows in the open transaction by the step of
  the call. That the DELETE leaves `max_runs` rows needs that no two rows have
  the same rank, hence that rowids differ, hence that SQLite's next rowid is
  larger than all (`LargestExists`, `RowidsGrow`).
* `ReturnedWritesAreKept`: `Written` says of the open transaction, too, that its
  rows are explained by the calls so far, with the event or status about to be
  committed on top. A call that raises turns what it wrote into what was tried.
* `DiskIsARunStore`: for a clock that does not step back, `SqliteRunStore`
  implements `RunStore` until a call first raises. The refinement mapping sorts
  the rows on disk by time and rowid; `OrderedInsert` and `OrderedEvict` say
  that the INSERT and the DELETE of `create` do to the sorted rows what `Append`
  and `Newest` do to a sequence. `Undisturbed` holds while no call has raised:
  no row is from the future (`Timely`), and the open transaction is the disk
  with what the present call has written (`Mirrors`). The clock is a hypothesis
  the theorem cannot do without: `sqlite_run_store_clock` is the counterexample.

**DeveloperUiProofs** assumes that the two bounds are natural numbers.

* `PagesTellOneSubmission`: `Stored` says that the session's last run, last
  request and last API are of one submission unless the stores of one have been
  cut short, and `Shown` says the same of the page, by where the script is.
* `TracesTellTheEnd`: the record of a run is read before its events are, and a
  run has reported its end, stored or dropped, before its record says so.

**RunApiProofs** proves what a store keeps once, in lemmas about each operation
(`KeptCreate`, `KeptReportEvent`, `KeptFinish`), and uses them for the store by
itself and for the store in memory behind the handlers. For the former, `Alone`
is an instance of `RunStore` with events and a number of them that are left
open; only the bounds being natural numbers is assumed, as a hypothesis of the
two theorems. For `RunApi`, `BoundsAssumption` is (a store has positive bounds)
and `RunAssumption` (no run is called `none` or `reload`). Its invariant `IInv`
speaks of every row of a run, as callers see it and on disk (`Rows`), and the
lemmas on a call say of which rows it makes the tables (`MadeOf`), so that one
that raises and leaves half of itself is no special case.

* `NewestAreKept`: a store that has only what it kept of the runs so far still
  finds the newest of one more (`NewestIsIncremental`).
* `RecordsAreTruthful`: appending up to a bound keeps the beginning of what was
  appended (`ExtendedBeginning`); the invariant adds that a run has said nothing
  before it is created.
* `ServedRunsAreKept`, `ServedRecordsAreTruthful`, of the store in memory: the
  handlers create a run before they say anything of it, and a process that
  restarts finds its store empty (`Memory`).
* `AnswersMatchRecords`: `Told` says that the store is told of an outcome only
  as the handler leaves. `finish` may find no row and still return, so a row may
  say less than the client was told, if there is one on disk that callers do not
  see: `Aligned` says that there is none before a create has raised.
* `TimelinesAreFramed`: `Opened` and `Ended` tie what each row of a run says to
  where its handler is. A row must not be without `run_started` once the engine
  runs: the create that returned has committed what was open, so that no copy of
  the new row is hidden from the first event and its commit (`Aligned` again).
  `IsTheEnd` adds that a thread whose report follows the end is gone.

Only model-checked: `CallsAreOneStep`, whose history variable belongs to TLC's
instance, and all liveness (`AnsweredRunEnds`, `DeadlineEndsRun`,
`FailureEndsNode`, `EventuallyDone`, `EventuallyDecided`,
`EveryRequestAnswered`, `WorkflowTimeoutEndsRun`, `AgentTimeoutEndsRun`), which
is out of the prover's reach: `VerdictsAreExact` says what a decided validation
has decided, and that it decides is `EventuallyDecided`. The four violated
statements of the findings are counterexamples TLC finds.

## Not modelled

What SDK, model and tools do inside a call (`read_project_file` and the HTTP
tool are checks on the strings a model chose, then one read or one request, with
no state between calls); LangGraph beyond one node per superstep, cancellation,
threads for routes and the recursion limit (it also refuses a node named like a
key of the state, with an error of its own); the text of errors; strings as
such; durations, as opposed to their order; an agent that raises
`CancelledError` without being cancelled; bearer authentication and the
endpoints that describe the project, which change nothing; what the UI draws of
an answer; the choice between the two executors (`WorkflowExecutor`), which
delegates; the pilot, examples and scripts. Whether a single configuration file
is well formed is a value of its content, so the checks of one value in
`definitions.py` are not translated one by one. `sys.modules`, which a reload
shares with the schemas of older revisions, is left out.

Operating facts that are visible in the models and are not counted as findings:
after the process stops a durable record stays `running` for ever, and so may
that of a run whose client was told of its end, if a create that raised had
evicted it; a store that cannot write fails the node that reports; revisions
start at 1 again; a store call that raises is answered without `X-Run-ID`,
because the calls are outside the `try` of both handlers; the UI's session keeps
the last request only once it has been answered with a run; and a user who
interrupts the stores of a submission may see a run beside another one's request
until the next one, which is why `PageTellsOneSubmission` excepts that case.

## Plan

What is left: the safety half of termination as theorems, a measure of
`GraphValidation` that every step but the last decreases and a bound on the
steps of a run; and a specification of what a client sees of one request, which
`RunApi` implements.
