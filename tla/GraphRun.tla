------------------------------ MODULE GraphRun ------------------------------
(***************************************************************************)
(* One run of a graph workflow: GraphWorkflowExecutor.run and the node and *)
(* route functions it gives LangGraph (app/engine/workflow_executor.py).   *)
(*                                                                         *)
(* The engine is asyncio code: what lies between two awaits is one step.   *)
(* LangGraph runs one node at a time (a direct edge or a route has one     *)
(* target), each in a superstep of its own, runs a route function in a     *)
(* worker thread after the node's update is visible to it, and raises an   *)
(* error of its own when the superstep count passes recursion_limit.       *)
(*                                                                         *)
(* What a node does while it is visited is its outcome here: an output, or *)
(* an error that escapes.  ParallelNode models a parallel visit in full.   *)
(***************************************************************************)
EXTENDS WorkflowGraph, FiniteSets

CONSTANTS
  Node,         \* node names
  Definition,   \* definitions that pass the configuration models
  Input,        \* values a request may carry
  Output        \* the values each node may return

ASSUME DefinitionAssumption ==
  \A d \in Definition : d.nodes \subseteq Node /\ LocalShape(d)

VARIABLES
  graph,        \* the definition being run
  input,        \* the request's input
  pc,           \* ready -> visiting -> (routing ->) stepping -> ready ... done
  at,           \* the node that is due, visited or just left
  next,         \* where the last transition leads
  superstep,    \* LangGraph's superstep count
  steps, visits, results, history,   \* WorkflowState
  events,       \* what went to the event sink
  stop,         \* cancellation under way: none, deadline or caller
  raised,       \* the error on its way out of the graph, or none
  outcome,      \* what run() returned or raised
  lateRoute     \* a route thread outlives the run

state == <<steps, visits, results, history>>
vars  == <<graph, input, pc, at, next, superstep, state, events, stop, raised,
           outcome, lateRoute>>

NodeErrors == {"agent_input", "agent_execution"}
Errors     == NodeErrors \cup {"max_steps", "max_visits", "no_route", "unresolved",
                               "not_scalar", "recursion", "sink"}
AnyOutput  == UNION {Output[n] : n \in Node}
NoOutput   == [type |-> "no output"]
Pending    == [status |-> "pending"]

ASSUME OutputAssumption == \A n \in Node : NoOutput \notin Output[n]

----------------------------------------------------------------------------
(* Selectors.  A value is a dict of values or a scalar, whose text is      *)
(* Python's str of it.                                                     *)

Dict(fields) == [type |-> "dict", fields |-> fields]
Unresolved   == [type |-> "unresolved"]
EmptyDict    == Dict([x \in {} |-> Unresolved])

\* select_state: walk the dotted parts from the whole state.
Resolve(value, path) ==
  LET walk[i \in 0..Len(path)] ==
        IF i = 0 THEN value
        ELSE IF walk[i-1].type = "dict" /\ path[i] \in DOMAIN walk[i-1].fields
             THEN walk[i-1].fields[path[i]]
             ELSE Unresolved
  IN walk[Len(path)]

\* The state a selector walks, when res holds the latest outputs.  The
\* request's context is selected from like its input, and is left empty.
StateDict(res) ==
  Dict([input    |-> input,
        context  |-> EmptyDict,
        metadata |-> EmptyDict,
        results  |-> Dict([n \in {m \in Node : res[m] # NoOutput} |->
                             Dict([output |-> res[n]])])])

\* _case_key: the text a scalar is compared as.
CaseKey(value) ==
  CASE value.type = "bool" -> IF value.text = "True" THEN "true" ELSE "false"
    [] value.type = "null" -> "null"
    [] OTHER               -> value.text

Target(t, value) ==
  IF CaseKey(value) \in DOMAIN t.cases THEN t.cases[CaseKey(value)] ELSE t.default

RouteError(t, value) ==
  IF value.type = "unresolved" THEN "unresolved"
  ELSE IF value.type = "dict" THEN "not_scalar"
  ELSE IF Target(t, value) = Fail THEN "no_route"
  ELSE "none"

Transition == TransitionOf(graph, at)

Selected == Resolve(StateDict(results), Transition.select)

----------------------------------------------------------------------------
(* Budgets. *)

\* Seeded fault: the step limit is compared one step late.
LateBudgetError(n) ==
  IF steps > graph.maxSteps THEN "max_steps"
  ELSE IF visits[n] + 1 > graph.maxVisits[n] THEN "max_visits"
  ELSE "none"

\* _check_budget: the error a visit of n meets before it starts.
BudgetError(n) ==
  IF steps + 1 > graph.maxSteps THEN "max_steps"
  ELSE IF visits[n] + 1 > graph.maxVisits[n] THEN "max_visits"
  ELSE "none"

VisitNumber == visits[at] + 1

\* Seeded fault: no room left for START and the visit that is refused.
TightRecursionLimit == IF graph.maxSteps > 25 THEN graph.maxSteps ELSE 25

RecursionLimit == IF graph.maxSteps + 2 > 25 THEN graph.maxSteps + 2 ELSE 25

----------------------------------------------------------------------------
Init ==
  /\ graph \in {d \in Definition : Accepted(d)}
  /\ input \in Input
  /\ pc = "ready"
  /\ at = graph.start
  /\ next = graph.start
  /\ superstep = 2             \* LangGraph spent the first on START
  /\ steps = 0
  /\ visits = [n \in Node |-> 0]
  /\ results = [n \in Node |-> NoOutput]
  /\ history = <<>>
  /\ events = <<>>
  /\ stop = "none"
  /\ raised = "none"
  /\ outcome = Pending
  /\ lateRoute = FALSE

Emit(event) == events' = Append(events, event)

\* Seeded fault: the error is lost on its way.
LostError(error) == "none"

\* Once the run is being cancelled LangGraph drops a node's or route's error.
EscapingError(error) == IF stop = "none" THEN error ELSE "none"

Raise(error) == pc' = "raising" /\ raised' = EscapingError(error)

RefuseNode ==
  /\ pc = "ready"
  /\ BudgetError(at) # "none"
  /\ Raise(BudgetError(at))
  /\ UNCHANGED <<graph, input, at, next, superstep, state, events, stop, outcome, lateRoute>>

StartedEvent == [type |-> "node_started", node |-> at, visit |-> VisitNumber]

StartNode ==
  /\ pc = "ready"
  /\ BudgetError(at) = "none"
  /\ Emit(StartedEvent)
  /\ pc' = "visiting"
  /\ UNCHANGED <<graph, input, at, next, superstep, state, stop, raised, outcome, lateRoute>>

\* Seeded fault: a second visit does not replace the first one's result.
FirstResults(o) == IF results[at] = NoOutput THEN [results EXCEPT ![at] = o] ELSE results

LatestResults(o) == [results EXCEPT ![at] = o]

\* Seeded fault: a revisit overwrites the node's earlier entry.
OverwrittenHistory(o) ==
  SelectSeq(history, LAMBDA h : h.node # at) \o <<[node |-> at, visit |-> VisitNumber, output |-> o]>>

LongerHistory(o) == Append(history, [node |-> at, visit |-> VisitNumber, output |-> o])

\* _update, applied by LangGraph to the state when the node returns.
Update(o) ==
  /\ steps' = steps + 1
  /\ visits' = [visits EXCEPT ![at] = VisitNumber]
  /\ results' = LatestResults(o)
  /\ history' = LongerHistory(o)

CompletedEvent(o) ==
  [type |-> "node_completed", node |-> at, visit |-> VisitNumber, output |-> o]

NodeCompletes(o) ==
  /\ pc = "visiting"
  /\ Emit(CompletedEvent(o))
  /\ Update(o)
  /\ IF Transition.type = "direct"
     THEN pc' = "stepping" /\ next' = Transition.to
     ELSE pc' = "routing" /\ UNCHANGED next
  /\ UNCHANGED <<graph, input, at, superstep, stop, raised, outcome, lateRoute>>

FailedEvent == [type |-> "node_failed", node |-> at, visit |-> VisitNumber]

\* An agent's error escapes its node, which reports it; of the parallel nodes
\* only fail_fast lets a branch's error escape, and none reports it.
NodeFails(error) ==
  /\ pc = "visiting"
  /\ graph.kind[at] # "collect_errors"
  /\ IF graph.kind[at] = "agent" THEN Emit(FailedEvent) ELSE UNCHANGED events
  /\ Raise(error)
  /\ UNCHANGED <<graph, input, at, next, superstep, state, stop, outcome, lateRoute>>

\* Seeded fault: the route is reported before its value's case is looked up.
DefaultEvent == [type |-> "route_selected", node |-> at, target |-> Transition.default]

SelectedEvent == [type |-> "route_selected", node |-> at, target |-> Target(Transition, Selected)]
RefusedEvent  == [type |-> "route_failed", node |-> at]

\* A selector that resolves to nothing, or to a dict, raises before any event.
RouteEvents ==
  CASE RouteError(Transition, Selected) = "none"     -> {SelectedEvent}
    [] RouteError(Transition, Selected) = "no_route" -> {RefusedEvent}
    [] OTHER                                         -> {}

RouteSelects ==
  /\ pc = "routing"
  /\ RouteError(Transition, Selected) = "none"
  /\ Emit(SelectedEvent)
  /\ next' = Target(Transition, Selected)
  /\ pc' = "stepping"
  /\ UNCHANGED <<graph, input, at, superstep, state, stop, raised, outcome, lateRoute>>

RouteFails ==
  /\ pc = "routing"
  /\ RouteError(Transition, Selected) # "none"
  /\ IF RouteError(Transition, Selected) = "no_route"
     THEN Emit(RefusedEvent)
     ELSE UNCHANGED events
  /\ Raise(RouteError(Transition, Selected))
  /\ UNCHANGED <<graph, input, at, next, superstep, state, stop, outcome, lateRoute>>

----------------------------------------------------------------------------
(* The sink is the run store's event(): any emission may raise instead of  *)
(* returning, its event recorded or not.                                   *)

\* The events the code at hand may be about to emit.
EventsDue ==
  CASE pc = "ready" /\ BudgetError(at) = "none" -> {StartedEvent}
    [] pc = "visiting" -> {CompletedEvent(o) : o \in Output[at]}
                            \cup (IF graph.kind[at] = "agent" THEN {FailedEvent} ELSE {})
    [] pc = "routing"  -> RouteEvents
    [] OTHER           -> {}

\* The sink's error leaves the node or route in place of its answer or its own
\* error.  It may be that of a branch, which only fail_fast lets escape.
SinkRaises ==
  /\ \/ \E e \in EventsDue : events' \in {events, Append(events, e)}
     \/ pc = "visiting" /\ graph.kind[at] = "fail_fast" /\ UNCHANGED events
  /\ Raise("sink")
  /\ UNCHANGED <<graph, input, at, next, superstep, state, stop, outcome, lateRoute>>

----------------------------------------------------------------------------
MayStep == pc = "stepping" /\ stop = "none"

\* LangGraph opens the next superstep.
Schedule ==
  /\ MayStep /\ next # END
  /\ superstep' = superstep + 1
  /\ LET allowed == superstep' <= RecursionLimit
     IN /\ pc' = IF allowed THEN "ready" ELSE "raising"
        /\ at' = IF allowed THEN next ELSE at
        /\ raised' = IF allowed THEN raised ELSE EscapingError("recursion")
  /\ UNCHANGED <<graph, input, next, state, events, stop, outcome, lateRoute>>

Failed(error) == [status |-> "failed", error |-> error]

\* The graph is at END: run() selects the output of the final state.
Finish ==
  /\ MayStep /\ next = END
  /\ LET value == Resolve(StateDict(results), graph.output)
     IN outcome' = IF value = Unresolved THEN Failed("unresolved")
                   ELSE [status |-> "completed", result |-> value]
  /\ pc' = "done"
  /\ UNCHANGED <<graph, input, at, next, superstep, state, events, stop, raised, lateRoute>>

Propagate ==
  /\ pc = "raising" /\ raised # "none"
  /\ outcome' = Failed(raised)
  /\ pc' = "done"
  /\ UNCHANGED <<graph, input, at, next, superstep, state, events, stop, raised, lateRoute>>

----------------------------------------------------------------------------
(* Cancellation.  The deadline of asyncio.wait_for, or the caller's task   *)
(* being cancelled, marks the run; the code at its await learns of it      *)
(* later, and what was already scheduled may still take a step.            *)

DeadlineExpires ==
  /\ pc # "done" /\ stop = "none"
  /\ stop' = "deadline"
  /\ UNCHANGED <<graph, input, pc, at, next, superstep, state, events, raised, outcome, lateRoute>>

\* A caller's cancellation is never reported as the deadline's.
CallerCancels ==
  /\ pc # "done" /\ stop # "caller"
  /\ stop' = "caller"
  /\ UNCHANGED <<graph, input, pc, at, next, superstep, state, events, raised, outcome, lateRoute>>

\* Seeded fault: a node swallows the cancellation.
DeliverableOutsideNodes == pc \notin {"done", "visiting"} /\ stop # "none"

Deliverable == pc # "done" /\ stop # "none"

\* The cancellation is delivered: no node and no route of the run goes on,
\* but a route that its thread has begun cannot be stopped.
Cancelled ==
  /\ Deliverable
  /\ outcome' = IF stop = "deadline" THEN Failed("timeout") ELSE [status |-> "cancelled"]
  /\ pc' = "done"
  /\ lateRoute' \in {FALSE, pc = "routing"}
  /\ UNCHANGED <<graph, input, at, next, superstep, state, events, stop, raised>>

\* The sink is still bound in the thread's copy of the context, and may raise
\* there: nobody is left to hear of it.
LateRoute ==
  /\ pc = "done" /\ lateRoute
  /\ lateRoute' = FALSE
  /\ events' \in {events} \cup {Append(events, e) : e \in RouteEvents}
  /\ UNCHANGED <<graph, input, pc, at, next, superstep, state, stop, raised, outcome>>

Ended == pc = "done" /\ ~lateRoute /\ UNCHANGED vars

----------------------------------------------------------------------------
Engine == RefuseNode \/ StartNode \/ RouteSelects \/ RouteFails \/ Schedule
          \/ Finish \/ Propagate

NodeAnswers == (\E o \in Output[at] : NodeCompletes(o)) \/ (\E e \in NodeErrors : NodeFails(e))

Next == Engine \/ NodeAnswers \/ SinkRaises \/ DeadlineExpires \/ CallerCancels \/ Cancelled
        \/ LateRoute \/ Ended

Spec == Init /\ [][Next]_vars

\* The event loop keeps running: a step of the engine, a delivery.
LoopRuns == WF_vars(Engine) /\ WF_vars(Cancelled)

\* Agents may hang for ever, and no timer is counted on.
LoopSpec == Spec /\ LoopRuns

----------------------------------------------------------------------------
(* Properties. *)

DefinitionOf(d) == d \in Definition /\ Accepted(d)

TraceEvent ==
  [type : {"node_started", "node_failed"}, node : Node, visit : Nat]
    \cup [type : {"node_completed"}, node : Node, visit : Nat, output : AnyOutput]
    \cup [type : {"route_selected"}, node : Node, target : Node \cup {END}]
    \cup [type : {"route_failed"}, node : Node]

\* Every variable holds a value of its kind; in particular the target of
\* every transition taken is a node of the graph or END, never "fail".
TypeOK ==
  /\ DefinitionOf(graph)
  /\ input \in Input
  /\ pc \in {"ready", "visiting", "routing", "stepping", "raising", "done"}
  /\ at \in graph.nodes
  /\ next \in graph.nodes \cup {END}
  /\ superstep \in Nat /\ steps \in Nat
  /\ visits \in [Node -> Nat]
  /\ results \in [Node -> AnyOutput \cup {NoOutput}]
  /\ history \in Seq([node : Node, visit : Nat, output : AnyOutput])
  /\ events \in Seq(TraceEvent)
  /\ stop \in {"none", "deadline", "caller"}
  /\ raised \in Errors \cup {"none"}
  /\ lateRoute \in BOOLEAN

\* The places in a trace where a visit, or a visit of n, is started.
StartsIn(e)    == {i \in DOMAIN e : e[i].type = "node_started"}
StartsOf(e, n) == {i \in StartsIn(e) : e[i].node = n}

\* The budgets hold for what was started, not only for what the counters
\* say: however nodes, routes and cancellation interleave, no run starts
\* more than max_steps visits, nor a node more than its max_visits.
WithinBudget ==
  /\ Cardinality(StartsIn(events)) <= graph.maxSteps
  /\ \A n \in graph.nodes : Cardinality(StartsOf(events, n)) <= graph.maxVisits[n]

VisitsIn(h, n) == {i \in DOMAIN h : h[i].node = n}

\* The state's counters and its results are what the history says: a step
\* per visit, visits numbered in order, the latest output of each node.
HistoryAccountsForState ==
  /\ Len(history) = steps
  /\ \A n \in Node : visits[n] = Cardinality(VisitsIn(history, n))
  /\ \A i \in DOMAIN history :
       /\ history[i].visit = Cardinality({j \in VisitsIn(history, history[i].node) : j <= i})
       /\ history[i].visit = visits[history[i].node]
            => results[history[i].node] = history[i].output
  /\ \A n \in Node : results[n] = NoOutput <=> visits[n] = 0

CompletedIn(e) == {i \in DOMAIN e : e[i].type = "node_completed"}

\* The number of completions up to the i-th event.
RankIn(e, i)   == Cardinality({j \in CompletedIn(e) : j <= i})

\* The events tell the same story as the history: the completions are the
\* visits of the history in order, each the answer to the start before it.
\* One more start than visits is there only while a visit is open or once the
\* run ends in it, and one more completion only if the sink raised on it: then
\* it is the last event of a run that does not complete.
EventsTellHistory ==
  LET completed == CompletedIn(events)
  IN /\ \A i \in completed :
          /\ i > 1
          /\ events[i-1] = [type |-> "node_started", node |-> events[i].node,
                            visit |-> events[i].visit]
          /\ RankIn(events, i) <= Len(history) =>
               history[RankIn(events, i)] = [node |-> events[i].node, visit |-> events[i].visit,
                                             output |-> events[i].output]
     /\ Cardinality(completed) - Len(history) \in {0, 1}
     /\ Cardinality(completed) # Len(history) =>
          /\ Len(events) \in completed
          /\ pc \in {"raising", "done"} /\ raised \in {"sink", "none"}
     /\ Cardinality(StartsIn(events)) - Len(history) \in {0, 1}
     /\ outcome.status = "completed" =>
          Cardinality(StartsIn(events)) = Len(history) /\ Cardinality(completed) = Len(history)

\* State, history and events never disagree about the visits of a run, however
\* its nodes end and wherever it is cancelled.
HistoryTellsTheRun == HistoryAccountsForState /\ EventsTellHistory

\* The latest outputs after the first k visits of the history.
ResultsAfter(k) ==
  [n \in Node |->
     LET past == {i \in VisitsIn(history, n) : i <= k}
     IN IF past = {} THEN NoOutput
        ELSE history[CHOOSE i \in past : \A j \in past : j <= i].output]

\* Where the definition leads from there: Fail when its route is an error.
NextAfter(k) ==
  LET t == TransitionOf(graph, history[k].node)
      value == Resolve(StateDict(ResultsAfter(k)), t.select)
  IN IF t.type = "direct" THEN t.to
     ELSE IF RouteError(t, value) # "none" THEN Fail
     ELSE Target(t, value)

\* A run can be replayed from its history: it begins at the start node,
\* every further visit is the one the definition's transition chooses on the
\* results of the visits before it, and a completed run ended where that
\* chain reaches END, with the output the definition selects.
RunIsReplay ==
  /\ history # <<>> => history[1].node = graph.start
  /\ \A k \in 1..(Len(history) - 1) : history[k+1].node = NextAfter(k)
  /\ outcome.status = "completed" =>
       /\ NextAfter(Len(history)) = END
       /\ outcome.result = Resolve(StateDict(ResultsAfter(Len(history))), graph.output)
       /\ outcome.result # Unresolved

\* The timeline is the same replay, and goes further than the history: where
\* the definition leads after the visits told so far is where the route event
\* says, the node started next, and the reason for the route that failed.  It
\* holds of visits that never end, and of a route whose thread outlives its run.
EventsAreReplay ==
  \A i \in DOMAIN events :
    LET type == events[i].type
        told == RankIn(events, i)
        follows == i > 1 /\ told \in DOMAIN history
    IN /\ type = "node_started" =>
            IF i = 1 THEN events[i].node = graph.start
            ELSE follows /\ events[i].node = NextAfter(told)
       /\ type \in {"route_selected", "route_failed"} =>
            /\ follows
            /\ events[i-1].type = "node_completed"
            /\ events[i].node = history[told].node
       /\ type = "route_selected" =>
            events[i].target = NextAfter(told) /\ events[i].target # Fail
       /\ type = "route_failed" => NextAfter(told) = Fail /\ i = Len(events)

\* Only a node that may be visited more than once can run out of visits: a
\* node whose max_visits is 1 is on no cycle of an accepted graph, so a run
\* never comes back to it.
OnlyLoopsExhaustVisits ==
  raised = "max_visits" \/ outcome = Failed("max_visits") => graph.maxVisits[at] > 1

\* recursion_limit leaves room for every step the definition allows, so a run
\* that is too long ends with the engine's own error and never LangGraph's.
RecursionLimitUnreached ==
  raised # "recursion" /\ outcome # Failed("recursion")

\* The timeline of a run that failed in a node shows that node's failure.
NodeFailureTraced ==
  outcome.status = "failed" /\ outcome.error \in NodeErrors
    => \E i \in DOMAIN events : events[i].type = "node_failed" /\ events[i].node = at

\* A run of agents that answer ends without its deadline: every loop runs out
\* of visits or steps.
AnsweredRunEnds == WF_vars(NodeAnswers) => <>(pc = "done")

\* A run ends at its deadline although an agent hangs.
DeadlineEndsRun == WF_vars(DeadlineExpires) => <>(pc = "done")

============================================================================
