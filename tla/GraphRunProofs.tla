--------------------------- MODULE GraphRunProofs ---------------------------
(***************************************************************************)
(* Theorems about GraphRun, for every set of definitions, every input and  *)
(* every output a node may return.  They rest on one inductive invariant,  *)
(* IInv: its parts say where the control is, what the budgets leave, and   *)
(* that the node at hand is reachable from every node visited before.      *)
(***************************************************************************)
EXTENDS GraphRun, FiniteSetTheorems, TLAPS

----------------------------------------------------------------------------
(* Lemmas about accepted definitions. *)

\* The one transition of a node is where all its edges come from.
LEMMA TransitionEdges ==
  ASSUME NEW d, LocalShape(d), OneTransitionEach(d), NEW n \in d.nodes
  PROVE  /\ TransitionOf(d, n).type \in {"direct", "conditional"}
         /\ Adjacent(d, n) = Destinations(TransitionOf(d, n)) \ {Fail}
         /\ Adjacent(d, n) \subseteq d.nodes \cup {END}
<1>1. PICK i \in TransitionsFrom(d, n) : TransitionsFrom(d, n) = {i}
  BY DEF OneTransitionEach
<1>2. i \in DOMAIN d.transitions
  BY <1>1 DEF TransitionsFrom
<1>3. TransitionOf(d, n) = d.transitions[i]
  BY <1>1 DEF TransitionOf
<1>4. Adjacent(d, n) = Destinations(d.transitions[i]) \ {Fail}
  BY <1>1 DEF Adjacent
<1>5. /\ d.transitions[i].type \in {"direct", "conditional"}
      /\ Destinations(d.transitions[i]) \subseteq d.nodes \cup {END, Fail}
  BY <1>2 DEF LocalShape
<1>. QED BY <1>3, <1>4, <1>5

\* A set closed under the edges that contains S contains all S reaches.
LEMMA ReachIsLeast ==
  ASSUME NEW d, NEW S, NEW T \in SUBSET d.nodes, S \ {END} \subseteq T, ClosedUnderEdges(d, T)
  PROVE  Reach(d, S) \subseteq T
BY DEF Reach

\* What S reaches is closed: one more edge leads to what S reaches, or to END.
LEMMA ReachStep ==
  ASSUME NEW d, NEW S, NEW m \in Reach(d, S), NEW n \in Adjacent(d, m), n \in d.nodes, n # END
  PROVE  n \in Reach(d, S)
<1>1. SUFFICES ASSUME NEW T \in SUBSET d.nodes, S \ {END} \subseteq T, ClosedUnderEdges(d, T)
               PROVE  n \in T
  BY DEF Reach
<1>2. m \in T
  BY <1>1, ReachIsLeast
<1>. QED BY <1>1, <1>2 DEF ClosedUnderEdges

\* S reaches its own members.
LEMMA ReachStart ==
  ASSUME NEW d, NEW S, NEW n \in S, n \in d.nodes, n # END
  PROVE  n \in Reach(d, S)
BY DEF Reach

\* A node that can end has an edge, so a direct transition does not fail.
LEMMA AcceptedHasEdge ==
  ASSUME NEW d, Accepted(d), NEW n \in d.nodes
  PROVE  Adjacent(d, n) # {}
<1>1. SUFFICES ASSUME Adjacent(d, n) = {} PROVE FALSE
  OBVIOUS
<1>2. PICK m \in Reach(d, {n}) : END \in Adjacent(d, m)
  BY DEF Accepted, AllCanEnd, CanEnd
<1>3. ClosedUnderEdges(d, {n})
  BY <1>1 DEF ClosedUnderEdges
<1>4. m \in {n}
  BY <1>2, <1>3, ReachIsLeast
<1>. QED BY <1>1, <1>2, <1>4

\* No node of an accepted definition is called END: nothing would reach it.
LEMMA EndIsNoNode ==
  ASSUME NEW d, LocalShape(d), Accepted(d)
  PROVE  END \notin d.nodes
<1> DEFINE T == d.nodes \ {END}
<1>1. ClosedUnderEdges(d, T)
  <2>1. \A n \in T : Adjacent(d, n) \subseteq d.nodes \cup {END}
    BY TransitionEdges DEF Accepted
  <2>. QED BY <2>1 DEF ClosedUnderEdges
<1>2. {d.start} \ {END} \subseteq T
  BY DEF LocalShape
<1>3. Reach(d, {d.start}) \subseteq T
  BY <1>1, <1>2, ReachIsLeast
<1>. QED BY <1>3 DEF Accepted, AllReachable

\* Where a transition that is taken may lead.
LEMMA AcceptedTransition ==
  ASSUME NEW d, LocalShape(d), Accepted(d), NEW n \in d.nodes
  PROVE  LET t == TransitionOf(d, n)
         IN /\ t.type \in {"direct", "conditional"}
            /\ Adjacent(d, n) \subseteq d.nodes \cup {END}
            /\ t.type = "direct" => t.to \in Adjacent(d, n)
            /\ t.type # "direct" =>
                 \A value : Target(t, value) # Fail => Target(t, value) \in Adjacent(d, n)
<1> DEFINE t == TransitionOf(d, n)
<1>1. /\ t.type \in {"direct", "conditional"}
      /\ Adjacent(d, n) = Destinations(t) \ {Fail}
      /\ Adjacent(d, n) \subseteq d.nodes \cup {END}
  BY TransitionEdges DEF Accepted
<1>2. t.type = "direct" => t.to \in Adjacent(d, n)
  BY <1>1, AcceptedHasEdge DEF Destinations
<1>3. ASSUME t.type # "direct", NEW value, Target(t, value) # Fail
      PROVE  Target(t, value) \in Adjacent(d, n)
  <2>1. Target(t, value) \in Destinations(t)
    BY <1>3 DEF Target, Destinations
  <2>. QED BY <1>1, <1>3, <2>1
<1>. QED BY <1>1, <1>2, <1>3

----------------------------------------------------------------------------
(* Types. *)

\* What the definition being run guarantees of the node at hand.
LEMMA GraphFacts ==
  ASSUME TypeOK
  PROVE  /\ graph.nodes \subseteq Node
         /\ LocalShape(graph) /\ Accepted(graph)
         /\ graph.maxSteps \in Nat \ {0}
         /\ graph.maxVisits \in [graph.nodes -> Nat \ {0}]
         /\ END \notin graph.nodes
         /\ at \in Node
BY DefinitionAssumption, EndIsNoNode DEF TypeOK, DefinitionOf, LocalShape

\* A route function runs, or outlives the run, only where the transition of
\* the node at hand has one.
RoutesHaveChoices ==
  /\ pc = "routing" \/ lateRoute => Transition.type # "direct"
  /\ lateRoute => pc = "done"

Typed == TypeOK /\ RoutesHaveChoices

LEMMA TypedInit == Init => Typed
<1>1. SUFFICES ASSUME Init PROVE Typed
  OBVIOUS
<1>2. DefinitionOf(graph) /\ graph.start \in graph.nodes
  BY <1>1, DefinitionAssumption DEF Init, DefinitionOf, LocalShape
<1>3. /\ history \in Seq([node : Node, visit : Nat, output : AnyOutput])
      /\ events \in Seq(TraceEvent)
  BY <1>1 DEF Init
<1>4. /\ visits \in [Node -> Nat]
      /\ results \in [Node -> AnyOutput \cup {NoOutput}]
  BY <1>1 DEF Init
<1>. QED BY <1>1, <1>2, <1>3, <1>4 DEF Init, Typed, TypeOK, RoutesHaveChoices

\* The target a route selects is a node or END, and it can be reported.
LEMMA RouteTargets ==
  ASSUME Typed, pc = "routing" \/ lateRoute, RouteError(Transition, Selected) = "none"
  PROVE  /\ Target(Transition, Selected) \in Adjacent(graph, at)
         /\ Target(Transition, Selected) \in graph.nodes \cup {END}
         /\ [type |-> "route_selected", node |-> at, target |-> Target(Transition, Selected)]
              \in TraceEvent
<1>1. /\ graph.nodes \subseteq Node /\ LocalShape(graph) /\ Accepted(graph)
      /\ at \in graph.nodes /\ at \in Node
  BY GraphFacts DEF Typed, TypeOK
<1>2. Target(Transition, Selected) # Fail
  BY DEF RouteError
<1>3. Transition.type # "direct"
  BY DEF Typed, RoutesHaveChoices
<1>4. /\ Target(Transition, Selected) \in Adjacent(graph, at)
      /\ Adjacent(graph, at) \subseteq graph.nodes \cup {END}
  BY <1>1, <1>2, <1>3, AcceptedTransition DEF Transition
<1>. QED BY <1>1, <1>4 DEF TraceEvent

\* Every event the code may be about to emit is one.
LEMMA EventsTyped ==
  ASSUME Typed
  PROVE  /\ StartedEvent \in TraceEvent /\ StartedEvent.type = "node_started"
         /\ StartedEvent.node = at
         /\ FailedEvent \in TraceEvent /\ FailedEvent.type = "node_failed"
         /\ RefusedEvent \in TraceEvent /\ RefusedEvent.type = "route_failed"
         /\ SelectedEvent.type = "route_selected"
         /\ \A o \in Output[at] :
              CompletedEvent(o) \in TraceEvent /\ CompletedEvent(o).type = "node_completed"
         /\ pc = "routing" \/ lateRoute =>
              \A x \in RouteEvents :
                /\ x \in TraceEvent
                /\ \/ x = SelectedEvent /\ RouteError(Transition, Selected) = "none"
                   \/ x = RefusedEvent /\ RouteError(Transition, Selected) = "no_route"
<1>1. at \in Node /\ VisitNumber \in Nat
  BY GraphFacts DEF Typed, TypeOK, VisitNumber
<1>2. \A o \in Output[at] : o \in AnyOutput
  BY <1>1 DEF AnyOutput
<1>3. /\ StartedEvent \in TraceEvent /\ StartedEvent.type = "node_started" /\ StartedEvent.node = at
      /\ FailedEvent \in TraceEvent /\ FailedEvent.type = "node_failed"
      /\ RefusedEvent \in TraceEvent /\ RefusedEvent.type = "route_failed"
      /\ SelectedEvent.type = "route_selected"
  BY <1>1 DEF StartedEvent, FailedEvent, RefusedEvent, SelectedEvent, TraceEvent
<1>4. \A o \in Output[at] :
        CompletedEvent(o) \in TraceEvent /\ CompletedEvent(o).type = "node_completed"
  BY <1>1, <1>2 DEF CompletedEvent, TraceEvent
<1>5. ASSUME pc = "routing" \/ lateRoute, NEW x \in RouteEvents
      PROVE  /\ x \in TraceEvent
             /\ \/ x = SelectedEvent /\ RouteError(Transition, Selected) = "none"
                \/ x = RefusedEvent /\ RouteError(Transition, Selected) = "no_route"
  <2>1. \/ x = SelectedEvent /\ RouteError(Transition, Selected) = "none"
        \/ x = RefusedEvent /\ RouteError(Transition, Selected) = "no_route"
    BY <1>5 DEF RouteEvents
  <2>. QED BY <1>3, <1>5, <2>1, RouteTargets DEF SelectedEvent
<1>. QED BY <1>3, <1>4, <1>5

\* What an emission that raises does: the event is there or not, the node or
\* route is left with the sink's error, and nothing else has changed.
LEMMA SinkStep ==
  ASSUME Typed, SinkRaises
  PROVE  /\ pc \in {"ready", "visiting", "routing"} /\ pc' = "raising"
         /\ raised' \in {"sink", "none"}
         /\ UNCHANGED <<graph, input, at, next, superstep, steps, visits, results, history,
                        stop, outcome, lateRoute>>
         /\ \/ events' = events
            \/ \E x \in TraceEvent :
                 /\ events' = Append(events, x)
                 /\ \/ pc = "ready" /\ BudgetError(at) = "none" /\ x = StartedEvent
                    \/ pc = "visiting" /\ \E o \in Output[at] : x = CompletedEvent(o)
                    \/ pc = "visiting" /\ x = FailedEvent
                    \/ pc = "routing" /\ x \in RouteEvents
<1>1. /\ pc' = "raising" /\ raised' \in {"sink", "none"}
      /\ UNCHANGED <<graph, input, at, next, superstep, steps, visits, results, history,
                     stop, outcome, lateRoute>>
  BY DEF SinkRaises, Raise, EscapingError, state
<1>2. ASSUME NEW x \in EventsDue
      PROVE  /\ x \in TraceEvent
             /\ \/ pc = "ready" /\ BudgetError(at) = "none" /\ x = StartedEvent
                \/ pc = "visiting" /\ \E o \in Output[at] : x = CompletedEvent(o)
                \/ pc = "visiting" /\ x = FailedEvent
                \/ pc = "routing" /\ x \in RouteEvents
  <2>1. \/ pc = "ready" /\ BudgetError(at) = "none" /\ x = StartedEvent
        \/ pc = "visiting" /\ \E o \in Output[at] : x = CompletedEvent(o)
        \/ pc = "visiting" /\ x = FailedEvent
        \/ pc = "routing" /\ x \in RouteEvents
    BY <1>2 DEF EventsDue
  <2>. QED BY <2>1, EventsTyped
<1>3. \/ pc = "visiting" /\ events' = events
      \/ \E x \in EventsDue : events' \in {events, Append(events, x)}
  BY DEF SinkRaises
<1>. QED BY <1>1, <1>2, <1>3

LEMMA TypedStep == Typed /\ [Next]_vars => Typed'
<1>1. SUFFICES ASSUME Typed, [Next]_vars PROVE Typed'
  OBVIOUS
<1>. USE <1>1
<1>2. /\ TypeOK /\ graph.nodes \subseteq Node /\ LocalShape(graph) /\ Accepted(graph)
      /\ at \in Node /\ at \in graph.nodes
  BY GraphFacts DEF Typed, TypeOK
<1>3. \A error \in Errors : EscapingError(error) \in Errors \cup {"none"}
  BY DEF EscapingError
<1>4. VisitNumber \in Nat
  BY <1>2 DEF VisitNumber, TypeOK
<1>21. events \in Seq(TraceEvent) /\ \A x \in TraceEvent : Append(events, x) \in Seq(TraceEvent)
  BY <1>2 DEF TypeOK
<1>5. CASE RefuseNode
  <2>1. BudgetError(at) \in Errors
    BY <1>5 DEF RefuseNode, BudgetError, Errors
  <2>. QED BY <1>3, <1>5, <2>1
       DEF RefuseNode, Raise, Typed, TypeOK, state, RoutesHaveChoices, Transition
<1>6. CASE StartNode
  <2>1. StartedEvent \in TraceEvent
    BY EventsTyped
  <2>2. events' \in Seq(TraceEvent)
    BY <1>2, <1>6, <2>1 DEF StartNode, Emit, TypeOK
  <2>. QED BY <1>6, <2>2 DEF StartNode, Typed, TypeOK, state, RoutesHaveChoices, Transition
<1>7. ASSUME NEW o \in Output[at], NodeCompletes(o) PROVE Typed'
  <2>0. o \in AnyOutput
    BY <1>2, <1>7 DEF AnyOutput
  <2>1. events' \in Seq(TraceEvent)
    <3>1. CompletedEvent(o) \in TraceEvent
      BY EventsTyped
    <3>. QED BY <1>2, <1>7, <3>1 DEF NodeCompletes, Emit, TypeOK
  <2>2. history' \in Seq([node : Node, visit : Nat, output : AnyOutput])
    BY <1>2, <1>4, <1>7, <2>0 DEF NodeCompletes, Update, LongerHistory, TypeOK
  <2>3. /\ steps' \in Nat /\ visits' \in [Node -> Nat]
        /\ results' \in [Node -> AnyOutput \cup {NoOutput}]
    BY <1>2, <1>4, <1>7, <2>0 DEF NodeCompletes, Update, LatestResults, TypeOK
  <2>4. Transition.type = "direct" => Transition.to \in graph.nodes \cup {END}
    BY <1>2, AcceptedTransition DEF Transition
  <2>5. /\ pc' \in {"stepping", "routing"} /\ next' \in graph.nodes \cup {END}
        /\ pc' = "routing" => Transition.type # "direct"
    BY <1>2, <1>7, <2>4 DEF NodeCompletes, TypeOK
  <2>. QED BY <1>7, <2>1, <2>2, <2>3, <2>5
       DEF NodeCompletes, Typed, TypeOK, RoutesHaveChoices, Transition
<1>8. ASSUME NEW error \in NodeErrors, NodeFails(error) PROVE Typed'
  <2>1. FailedEvent \in TraceEvent
    BY EventsTyped
  <2>2. events' \in Seq(TraceEvent)
    BY <1>8, <1>21, <2>1 DEF NodeFails, Emit
  <2>. QED BY <1>3, <1>8, <2>2
       DEF NodeFails, Raise, Errors, Typed, TypeOK, state, RoutesHaveChoices, Transition
<1>9. CASE RouteSelects
  <2>1. /\ Target(Transition, Selected) \in graph.nodes \cup {END}
        /\ events' \in Seq(TraceEvent)
    BY <1>2, <1>9, RouteTargets DEF RouteSelects, SelectedEvent, Emit, TypeOK
  <2>. QED BY <1>9, <2>1
       DEF RouteSelects, Typed, TypeOK, state, RoutesHaveChoices, Transition
<1>10. CASE RouteFails
  <2>1. RefusedEvent \in TraceEvent
    BY EventsTyped
  <2>2. events' \in Seq(TraceEvent)
    BY <1>10, <1>21, <2>1 DEF RouteFails, Emit
  <2>3. RouteError(Transition, Selected) \in Errors
    BY <1>10 DEF RouteFails, RouteError, Errors
  <2>. QED BY <1>3, <1>10, <2>2, <2>3
       DEF RouteFails, Raise, Typed, TypeOK, state, RoutesHaveChoices, Transition
<1>11. CASE Schedule
  <2>1. /\ next \in graph.nodes /\ superstep' \in Nat
    BY <1>2, <1>11 DEF Schedule, TypeOK
  <2>2. /\ pc' \in {"ready", "raising"} /\ at' \in graph.nodes
        /\ raised' \in Errors \cup {"none"}
    BY <1>2, <1>3, <1>11, <2>1 DEF Schedule, TypeOK, Errors
  <2>. QED BY <1>11, <2>1, <2>2
       DEF Schedule, MayStep, Typed, TypeOK, state, RoutesHaveChoices
<1>12. CASE Finish
  BY <1>12 DEF Finish, MayStep, Typed, TypeOK, state, RoutesHaveChoices, Transition
<1>13. CASE Propagate
  BY <1>13 DEF Propagate, Typed, TypeOK, state, RoutesHaveChoices, Transition
<1>14. CASE DeadlineExpires
  BY <1>14 DEF DeadlineExpires, Typed, TypeOK, state, RoutesHaveChoices, Transition
<1>15. CASE CallerCancels
  BY <1>15 DEF CallerCancels, Typed, TypeOK, state, RoutesHaveChoices, Transition
<1>16. CASE Cancelled
  BY <1>16 DEF Cancelled, Deliverable, Typed, TypeOK, state, RoutesHaveChoices, Transition
<1>17. CASE LateRoute
  <2>1. events' \in Seq(TraceEvent)
    <3>1. \A x \in RouteEvents : x \in TraceEvent
      BY <1>17, EventsTyped DEF LateRoute
    <3>. QED BY <1>17, <1>21, <3>1 DEF LateRoute
  <2>. QED BY <1>17, <2>1
       DEF LateRoute, Typed, TypeOK, state, RoutesHaveChoices, Transition
<1>20. CASE SinkRaises
  <2>1. events' \in Seq(TraceEvent)
    BY <1>20, <1>21, SinkStep
  <2>. QED BY <1>20, <2>1, SinkStep DEF Typed, TypeOK, Errors, RoutesHaveChoices, Transition
<1>18. CASE Ended
  BY <1>18 DEF Ended, vars, Typed, TypeOK, state, RoutesHaveChoices, Transition
<1>19. CASE UNCHANGED vars
  BY <1>19 DEF vars, Typed, TypeOK, state, RoutesHaveChoices, Transition
<1>. QED BY <1>5, <1>6, <1>7, <1>8, <1>9, <1>10, <1>11, <1>12, <1>13, <1>14, <1>15,
            <1>16, <1>17, <1>18, <1>19, <1>20 DEF Next, Engine, NodeAnswers

\* Every state of a run is well formed: in particular each transition that is
\* taken leads to a node of the graph or to END.
THEOREM TypeCorrect == Spec => []TypeOK
<1>1. Typed => TypeOK
  BY DEF Typed
<1>. QED BY TypedInit, TypedStep, <1>1, PTL DEF Spec

----------------------------------------------------------------------------
(* The budgets and LangGraph's limit. *)

\* Where the counters stand at each point of control.
Accounts ==
  /\ pc \in {"ready", "visiting", "routing", "stepping"} => raised = "none"
  /\ pc # "done" => outcome = Pending
  /\ steps <= graph.maxSteps
  /\ \A n \in graph.nodes : visits[n] <= graph.maxVisits[n]
  /\ pc = "visiting" => steps < graph.maxSteps /\ visits[at] < graph.maxVisits[at]
  /\ pc \in {"ready", "visiting"} => superstep = steps + 2
  /\ pc \in {"routing", "stepping"} => superstep = steps + 1
  /\ RecursionLimitUnreached

LEMMA PendingIsNoFailure == \A error : Pending # Failed(error)
<1>1. SUFFICES ASSUME NEW error, Pending = Failed(error) PROVE FALSE
  OBVIOUS
<1>2. Pending.status = "pending" /\ Failed(error).status = "failed"
  BY DEF Pending, Failed
<1>. QED BY <1>1, <1>2

LEMMA FailedError == \A e, f : Failed(e) = Failed(f) => e = f
<1>1. SUFFICES ASSUME NEW e, NEW f, Failed(e) = Failed(f) PROVE e = f
  OBVIOUS
<1>2. Failed(e).error = e /\ Failed(f).error = f
  BY DEF Failed
<1>. QED BY <1>1, <1>2

\* The one error a run can end with at END.
LEMMA FinishError ==
  ASSUME Finish, NEW error, error # "unresolved"
  PROVE  outcome' # Failed(error)
<1>1. CASE Resolve(StateDict(results), graph.output) = Unresolved
  BY <1>1, FailedError DEF Finish
<1>2. CASE Resolve(StateDict(results), graph.output) # Unresolved
  <2>1. outcome'.status = "completed"
    BY <1>2 DEF Finish
  <2>2. Failed(error).status = "failed"
    BY DEF Failed
  <2>. QED BY <2>1, <2>2
<1>. QED BY <1>1, <1>2

LEMMA AccountsInit == Init => Accounts
<1>1. SUFFICES ASSUME Init PROVE Accounts
  OBVIOUS
<1>2. TypeOK
  BY <1>1, TypedInit DEF Typed
<1>3. /\ graph.maxSteps \in Nat \ {0} /\ graph.maxVisits \in [graph.nodes -> Nat \ {0}]
      /\ graph.nodes \subseteq Node
  BY <1>2, GraphFacts
<1>. QED BY <1>1, <1>3, PendingIsNoFailure DEF Init, Accounts, RecursionLimitUnreached

LEMMA AccountsStep == Typed /\ Accounts /\ [Next]_vars => Accounts'
<1>1. SUFFICES ASSUME Typed, Accounts, [Next]_vars PROVE Accounts'
  OBVIOUS
<1>. USE <1>1
<1>2. /\ TypeOK /\ graph.nodes \subseteq Node /\ at \in graph.nodes
      /\ graph.maxSteps \in Nat \ {0} /\ graph.maxVisits \in [graph.nodes -> Nat \ {0}]
      /\ steps \in Nat /\ superstep \in Nat /\ visits \in [Node -> Nat]
  BY GraphFacts DEF Typed, TypeOK
<1>. USE <1>2, PendingIsNoFailure, FailedError
<1>3. CASE RefuseNode
  <2>1. BudgetError(at) # "recursion"
    BY DEF BudgetError
  <2>. QED BY <1>3, <2>1
       DEF RefuseNode, Raise, EscapingError, Accounts, state, RecursionLimitUnreached
<1>4. CASE StartNode
  <2>1. steps < graph.maxSteps /\ visits[at] < graph.maxVisits[at]
    BY <1>4 DEF StartNode, BudgetError
  <2>. QED BY <1>4, <2>1 DEF StartNode, Accounts, state, RecursionLimitUnreached
<1>5. ASSUME NEW o \in Output[at], NodeCompletes(o) PROVE Accounts'
  <2>1. /\ pc = "visiting" /\ graph' = graph /\ at' = at /\ superstep' = superstep
        /\ raised' = raised /\ outcome' = outcome
        /\ steps' = steps + 1 /\ visits' = [visits EXCEPT ![at] = visits[at] + 1]
        /\ pc' \in {"stepping", "routing"}
    BY <1>5 DEF NodeCompletes, Update, VisitNumber
  <2>2. \A n \in graph.nodes : visits'[n] <= graph.maxVisits[n]
    BY <2>1 DEF Accounts
  <2>. QED BY <2>1, <2>2 DEF Accounts, RecursionLimitUnreached
<1>6. ASSUME NEW error \in NodeErrors, NodeFails(error) PROVE Accounts'
  <2>1. error # "recursion"
    BY DEF NodeErrors
  <2>. QED BY <1>6, <2>1
       DEF NodeFails, Raise, EscapingError, Accounts, state, RecursionLimitUnreached
<1>7. CASE RouteSelects
  BY <1>7 DEF RouteSelects, Accounts, state, RecursionLimitUnreached
<1>8. CASE RouteFails
  <2>1. RouteError(Transition, Selected) # "recursion"
    BY DEF RouteError
  <2>. QED BY <1>8, <2>1
       DEF RouteFails, Raise, EscapingError, Accounts, state, RecursionLimitUnreached
<1>9. CASE Schedule
  <2>1. superstep' = steps + 2 /\ superstep' <= RecursionLimit
    BY <1>9 DEF Schedule, MayStep, Accounts, RecursionLimit
  <2>2. /\ pc' = "ready" /\ raised' = raised
    BY <1>9, <2>1 DEF Schedule
  <2>. QED BY <1>9, <2>1, <2>2 DEF Schedule, MayStep, Accounts, state, RecursionLimitUnreached
<1>10. CASE Finish
  <2>1. outcome' # Failed("recursion")
    BY <1>10, FinishError
  <2>. QED BY <1>10, <2>1 DEF Finish, MayStep, Accounts, state, RecursionLimitUnreached
<1>11. CASE Propagate
  BY <1>11 DEF Propagate, Accounts, state, RecursionLimitUnreached
<1>12. CASE DeadlineExpires
  BY <1>12 DEF DeadlineExpires, Accounts, state, RecursionLimitUnreached
<1>13. CASE CallerCancels
  BY <1>13 DEF CallerCancels, Accounts, state, RecursionLimitUnreached
<1>14. CASE Cancelled
  <2>1. outcome' # Failed("recursion")
    BY <1>14 DEF Cancelled, Failed
  <2>. QED BY <1>14, <2>1 DEF Cancelled, Accounts, state, RecursionLimitUnreached
<1>15. CASE LateRoute
  BY <1>15 DEF LateRoute, Accounts, state, RecursionLimitUnreached
<1>16. CASE Ended \/ UNCHANGED vars
  BY <1>16 DEF Ended, vars, Accounts, state, RecursionLimitUnreached
<1>17. CASE SinkRaises
  BY <1>17, SinkStep DEF Accounts, RecursionLimitUnreached
<1>. QED BY <1>3, <1>4, <1>5, <1>6, <1>7, <1>8, <1>9, <1>10, <1>11, <1>12, <1>13,
            <1>14, <1>15, <1>16, <1>17 DEF Next, Engine, NodeAnswers

\* LangGraph's recursion_limit never ends a run: max_steps does, first.
THEOREM RecursionLimitNeverReached == Spec => []RecursionLimitUnreached
<1>1. Accounts => RecursionLimitUnreached
  BY DEF Accounts
<1>. QED BY TypedInit, TypedStep, AccountsInit, AccountsStep, <1>1, PTL DEF Spec

----------------------------------------------------------------------------
(* Coming back to a node. *)

\* The node at hand is reachable, by at least one edge, from every node that
\* was visited before it; a run that has run out of visits is on a cycle.
Returns ==
  /\ pc \in {"ready", "visiting"} =>
       \A n \in graph.nodes : visits[n] > 0 => at \in Reach(graph, Adjacent(graph, n))
  /\ pc \in {"routing", "stepping"} =>
       \A n \in graph.nodes : visits[n] > 0 => n = at \/ at \in Reach(graph, Adjacent(graph, n))
  /\ pc = "stepping" => next \in Adjacent(graph, at)
  /\ OnlyLoopsExhaustVisits

LEMMA ReturnsInit == Init => Returns
<1>1. SUFFICES ASSUME Init PROVE Returns
  OBVIOUS
<1>2. graph.nodes \subseteq Node
  BY <1>1, TypedInit, GraphFacts DEF Typed
<1>. QED BY <1>1, <1>2, PendingIsNoFailure DEF Init, Returns, OnlyLoopsExhaustVisits

LEMMA ReturnsStep == Typed /\ Accounts /\ Returns /\ [Next]_vars => Returns'
<1>1. SUFFICES ASSUME Typed, Accounts, Returns, [Next]_vars PROVE Returns'
  OBVIOUS
<1>. USE <1>1
<1>2. /\ TypeOK /\ graph.nodes \subseteq Node /\ at \in graph.nodes
      /\ LocalShape(graph) /\ Accepted(graph) /\ END \notin graph.nodes
      /\ graph.maxVisits \in [graph.nodes -> Nat \ {0}] /\ visits \in [Node -> Nat]
  BY GraphFacts DEF Typed, TypeOK
<1>. USE <1>2, PendingIsNoFailure, FailedError
<1>3. CASE RefuseNode
  <2>1. BudgetError(at) = "max_visits" => graph.maxVisits[at] > 1
    <3>1. SUFFICES ASSUME BudgetError(at) = "max_visits" PROVE graph.maxVisits[at] > 1
      OBVIOUS
    <3>2. visits[at] + 1 > graph.maxVisits[at]
      BY <3>1 DEF BudgetError
    <3>3. visits[at] > 0
      BY <3>2
    <3>4. OnCycle(graph, at)
      BY <1>3, <3>3 DEF Returns, RefuseNode, OnCycle
    <3>. QED BY <3>4 DEF Accepted, CyclesBounded
  <2>. QED BY <1>3, <2>1
       DEF RefuseNode, Raise, EscapingError, Returns, Accounts, state, OnlyLoopsExhaustVisits
<1>4. CASE StartNode
  BY <1>4 DEF StartNode, Returns, state, OnlyLoopsExhaustVisits
<1>5. ASSUME NEW o \in Output[at], NodeCompletes(o) PROVE Returns'
  <2>1. /\ pc = "visiting" /\ graph' = graph /\ at' = at
        /\ raised' = raised /\ outcome' = outcome
        /\ visits' = [visits EXCEPT ![at] = visits[at] + 1]
        /\ pc' \in {"stepping", "routing"}
    BY <1>5 DEF NodeCompletes, Update, VisitNumber
  <2>2. \A n \in graph.nodes :
          visits'[n] > 0 => n = at \/ at \in Reach(graph, Adjacent(graph, n))
    BY <2>1 DEF Returns
  <2>3. pc' = "stepping" => next' \in Adjacent(graph, at)
    <3>1. Transition.type = "direct" => Transition.to \in Adjacent(graph, at)
      BY AcceptedTransition DEF Transition
    <3>. QED BY <1>5, <3>1 DEF NodeCompletes
  <2>. QED BY <2>1, <2>2, <2>3 DEF Returns, OnlyLoopsExhaustVisits
<1>6. ASSUME NEW error \in NodeErrors, NodeFails(error) PROVE Returns'
  <2>1. error # "max_visits"
    BY DEF NodeErrors
  <2>. QED BY <1>6, <2>1
       DEF NodeFails, Raise, EscapingError, Returns, Accounts, state, OnlyLoopsExhaustVisits
<1>7. CASE RouteSelects
  <2>1. Target(Transition, Selected) \in Adjacent(graph, at)
    BY <1>7, RouteTargets DEF RouteSelects
  <2>. QED BY <1>7, <2>1 DEF RouteSelects, Returns, state, OnlyLoopsExhaustVisits
<1>8. CASE RouteFails
  <2>1. RouteError(Transition, Selected) # "max_visits"
    BY DEF RouteError
  <2>. QED BY <1>8, <2>1
       DEF RouteFails, Raise, EscapingError, Returns, Accounts, state, OnlyLoopsExhaustVisits
<1>9. CASE Schedule
  <2>1. superstep' <= RecursionLimit
    <3>1. superstep' = steps + 2 /\ steps <= graph.maxSteps
      BY <1>9 DEF Schedule, MayStep, Accounts, TypeOK
    <3>. QED BY <3>1, GraphFacts DEF RecursionLimit, TypeOK
  <2>2. /\ pc = "stepping" /\ pc' = "ready" /\ raised' = raised /\ outcome' = outcome
        /\ at' = next /\ visits' = visits /\ graph' = graph /\ next # END
    BY <1>9, <2>1 DEF Schedule, MayStep, state
  <2>3. next \in Adjacent(graph, at) /\ next \in graph.nodes
    BY <2>2 DEF Returns, TypeOK
  <2>4. \A n \in graph.nodes : visits[n] > 0 => next \in Reach(graph, Adjacent(graph, n))
    <3>1. SUFFICES ASSUME NEW n \in graph.nodes, visits[n] > 0
                   PROVE  next \in Reach(graph, Adjacent(graph, n))
      OBVIOUS
    <3>2. CASE n = at
      BY <2>2, <2>3, <3>2, ReachStart
    <3>3. CASE at \in Reach(graph, Adjacent(graph, n))
      BY <2>2, <2>3, <3>3, ReachStep
    <3>. QED BY <2>2, <3>1, <3>2, <3>3 DEF Returns
  <2>5. raised = "none" /\ outcome = Pending
    BY <2>2 DEF Accounts
  <2>. QED BY <2>2, <2>4, <2>5 DEF Returns, OnlyLoopsExhaustVisits
<1>10. CASE Finish
  <2>1. outcome' # Failed("max_visits")
    BY <1>10, FinishError
  <2>. QED BY <1>10, <2>1
       DEF Finish, MayStep, Returns, Accounts, state, OnlyLoopsExhaustVisits
<1>11. CASE Propagate
  BY <1>11 DEF Propagate, Returns, state, OnlyLoopsExhaustVisits
<1>12. CASE DeadlineExpires
  BY <1>12 DEF DeadlineExpires, Returns, state, OnlyLoopsExhaustVisits
<1>13. CASE CallerCancels
  BY <1>13 DEF CallerCancels, Returns, state, OnlyLoopsExhaustVisits
<1>14. CASE Cancelled
  <2>1. outcome' # Failed("max_visits")
    BY <1>14 DEF Cancelled, Failed
  <2>. QED BY <1>14, <2>1 DEF Cancelled, Returns, state, OnlyLoopsExhaustVisits
<1>15. CASE LateRoute
  BY <1>15 DEF LateRoute, Returns, state, OnlyLoopsExhaustVisits
<1>16. CASE Ended \/ UNCHANGED vars
  BY <1>16 DEF Ended, vars, Returns, state, OnlyLoopsExhaustVisits
<1>17. CASE SinkRaises
  BY <1>17, SinkStep DEF Returns, Accounts, OnlyLoopsExhaustVisits
<1>. QED BY <1>3, <1>4, <1>5, <1>6, <1>7, <1>8, <1>9, <1>10, <1>11, <1>12, <1>13,
            <1>14, <1>15, <1>16, <1>17 DEF Next, Engine, NodeAnswers

\* The static test of cycles is enough: no run of an accepted definition ever
\* asks for a second visit of a node that allows only one.
THEOREM LoopsAreTheOnlyRevisits == Spec => []OnlyLoopsExhaustVisits
<1>1. Returns => OnlyLoopsExhaustVisits
  BY DEF Returns
<1>. QED BY TypedInit, TypedStep, AccountsInit, AccountsStep, ReturnsInit, ReturnsStep,
            <1>1, PTL DEF Spec

----------------------------------------------------------------------------
(* What was started. *)

\* The starts in a trace that grows by one event.
LEMMA StartsInAppend ==
  ASSUME NEW e \in Seq(TraceEvent), NEW x \in TraceEvent
  PROVE  /\ x.type # "node_started" => /\ StartsIn(Append(e, x)) = StartsIn(e)
                                       /\ \A n : StartsOf(Append(e, x), n) = StartsOf(e, n)
         /\ x.type = "node_started" =>
              /\ StartsIn(Append(e, x)) = StartsIn(e) \cup {Len(e) + 1}
              /\ \A n : StartsOf(Append(e, x), n) =
                          IF x.node = n THEN StartsOf(e, n) \cup {Len(e) + 1} ELSE StartsOf(e, n)
<1>1. /\ Len(e) \in Nat /\ DOMAIN e = 1..Len(e)
      /\ DOMAIN Append(e, x) = 1..(Len(e) + 1)
      /\ \A i \in 1..Len(e) : Append(e, x)[i] = e[i]
      /\ Append(e, x)[Len(e) + 1] = x
  OBVIOUS
<1>2. StartsIn(Append(e, x)) =
        IF x.type = "node_started" THEN StartsIn(e) \cup {Len(e) + 1} ELSE StartsIn(e)
  BY <1>1 DEF StartsIn
<1>3. ASSUME NEW n
      PROVE  StartsOf(Append(e, x), n) =
               IF x.type = "node_started" /\ x.node = n THEN StartsOf(e, n) \cup {Len(e) + 1}
               ELSE StartsOf(e, n)
  <2>1. \A i \in StartsIn(e) : Append(e, x)[i] = e[i]
    BY <1>1 DEF StartsIn
  <2>. QED BY <1>1, <1>2, <2>1 DEF StartsOf
<1>. QED BY <1>2, <1>3

\* The starts in a trace are finitely many, and one more counts one more.
LEMMA StartsFinite ==
  ASSUME NEW e \in Seq(TraceEvent)
  PROVE  /\ Cardinality(StartsIn(e)) \in Nat
         /\ Cardinality(StartsIn(e) \cup {Len(e) + 1}) = Cardinality(StartsIn(e)) + 1
         /\ \A n : /\ Cardinality(StartsOf(e, n)) \in Nat
                   /\ Cardinality(StartsOf(e, n) \cup {Len(e) + 1})
                        = Cardinality(StartsOf(e, n)) + 1
<1>1. Len(e) \in Nat /\ StartsIn(e) \subseteq 1..Len(e)
  BY DEF StartsIn
<1>2. Len(e) + 1 \notin StartsIn(e)
  BY <1>1
<1>3. IsFiniteSet(1..Len(e))
  BY <1>1, FS_Interval
<1>4. IsFiniteSet(StartsIn(e))
  BY <1>1, <1>3, FS_Subset
<1>5. ASSUME NEW n
      PROVE  IsFiniteSet(StartsOf(e, n)) /\ Len(e) + 1 \notin StartsOf(e, n)
  <2>1. StartsOf(e, n) \subseteq StartsIn(e)
    BY DEF StartsOf
  <2>. QED BY <1>2, <1>4, <2>1, FS_Subset
<1>. QED BY <1>2, <1>4, <1>5, FS_AddElement, FS_CardinalityType

\* The trace shows as many starts as the counters say, plus the open visit's.
StartsCounted ==
  /\ pc \in {"ready", "routing", "stepping"} =>
       /\ Cardinality(StartsIn(events)) = steps
       /\ \A n \in graph.nodes : Cardinality(StartsOf(events, n)) = visits[n]
  /\ pc = "visiting" =>
       /\ Cardinality(StartsIn(events)) = steps + 1
       /\ \A n \in graph.nodes :
            Cardinality(StartsOf(events, n)) = IF n = at THEN visits[n] + 1 ELSE visits[n]
  /\ WithinBudget

LEMMA StartsInit == Init => StartsCounted
<1>1. SUFFICES ASSUME Init PROVE StartsCounted
  OBVIOUS
<1>2. TypeOK
  BY <1>1, TypedInit DEF Typed
<1>3. /\ graph.maxSteps \in Nat \ {0} /\ graph.maxVisits \in [graph.nodes -> Nat \ {0}]
      /\ graph.nodes \subseteq Node
  BY <1>2, GraphFacts
<1>4. StartsIn(events) = {} /\ \A n : StartsOf(events, n) = {}
  BY <1>1 DEF Init, StartsIn, StartsOf
<1>5. Cardinality(StartsIn(events)) = 0 /\ \A n : Cardinality(StartsOf(events, n)) = 0
  BY <1>4, FS_EmptySet
<1>6. pc = "ready" /\ steps = 0 /\ \A n \in graph.nodes : visits[n] = 0
  BY <1>1, <1>3 DEF Init
<1>7. WithinBudget
  BY <1>3, <1>5 DEF WithinBudget
<1>. QED BY <1>5, <1>6, <1>7 DEF StartsCounted

\* A step that starts no visit leaves what was started as it is.
LEMMA QuietStep ==
  ASSUME Typed, StartsCounted, graph' = graph,
         \/ events' = events
         \/ \E x \in TraceEvent : x.type # "node_started" /\ events' = Append(events, x)
  PROVE  /\ StartsIn(events') = StartsIn(events)
         /\ \A n : StartsOf(events', n) = StartsOf(events, n)
         /\ WithinBudget'
<1>1. /\ StartsIn(events') = StartsIn(events)
      /\ \A n : StartsOf(events', n) = StartsOf(events, n)
  <2>1. CASE events' = events
    BY <2>1
  <2>2. CASE \E x \in TraceEvent : x.type # "node_started" /\ events' = Append(events, x)
    <3>1. PICK x \in TraceEvent : x.type # "node_started" /\ events' = Append(events, x)
      BY <2>2
    <3>2. events \in Seq(TraceEvent)
      BY DEF Typed, TypeOK
    <3>. QED BY <3>1, <3>2, StartsInAppend
  <2>. QED BY <2>1, <2>2
<1>. QED BY <1>1 DEF StartsCounted, WithinBudget

\* A start the budgets let through is one they have room for.
LEMMA StartingStep ==
  ASSUME Typed, StartsCounted, pc = "ready", BudgetError(at) = "none",
         UNCHANGED graph, events' = Append(events, StartedEvent)
  PROVE  /\ Cardinality(StartsIn(events')) = steps + 1
         /\ \A n \in graph.nodes :
              Cardinality(StartsOf(events', n)) = IF n = at THEN visits[n] + 1 ELSE visits[n]
         /\ WithinBudget'
<1>. /\ TypeOK /\ graph.nodes \subseteq Node /\ at \in graph.nodes /\ at \in Node
      /\ graph.maxSteps \in Nat \ {0} /\ graph.maxVisits \in [graph.nodes -> Nat \ {0}]
      /\ steps \in Nat /\ visits \in [Node -> Nat] /\ events \in Seq(TraceEvent)
  BY GraphFacts DEF Typed, TypeOK
<1>1. StartedEvent \in TraceEvent /\ StartedEvent.type = "node_started" /\ StartedEvent.node = at
  BY EventsTyped
<1>2. /\ StartsIn(events') = StartsIn(events) \cup {Len(events) + 1}
      /\ \A n : StartsOf(events', n) =
                  IF at = n THEN StartsOf(events, n) \cup {Len(events) + 1}
                  ELSE StartsOf(events, n)
  BY <1>1, StartsInAppend
<1>3. Cardinality(StartsIn(events')) = steps + 1
  BY <1>2, StartsFinite DEF StartsCounted
<1>4. \A n \in graph.nodes :
        Cardinality(StartsOf(events', n)) = IF n = at THEN visits[n] + 1 ELSE visits[n]
  BY <1>2, StartsFinite, ZenonT(60) DEF StartsCounted
<1>5. steps < graph.maxSteps /\ visits[at] < graph.maxVisits[at]
  BY DEF BudgetError
<1>6. Cardinality(StartsIn(events')) <= graph'.maxSteps
  BY <1>3, <1>5
<1>7. ASSUME NEW n \in graph.nodes
      PROVE  Cardinality(StartsOf(events', n)) <= graph'.maxVisits[n]
  <2>1. CASE n = at
    <3>1. visits[n] \in Nat /\ graph.maxVisits[n] \in Nat /\ visits[n] < graph.maxVisits[n]
      BY <1>5, <2>1
    <3>. QED BY <1>4, <2>1, <3>1
  <2>2. CASE n # at
    BY <1>2, <2>2 DEF StartsCounted, WithinBudget
  <2>. QED BY <2>1, <2>2
<1>. QED BY <1>3, <1>4, <1>6, <1>7 DEF WithinBudget

LEMMA StartsStep == Typed /\ Accounts /\ StartsCounted /\ [Next]_vars => StartsCounted'
<1>1. SUFFICES ASSUME Typed, Accounts, StartsCounted, [Next]_vars PROVE StartsCounted'
  OBVIOUS
<1>. USE <1>1
<1>2. /\ TypeOK /\ graph.nodes \subseteq Node /\ at \in graph.nodes /\ at \in Node
      /\ graph.maxSteps \in Nat \ {0} /\ graph.maxVisits \in [graph.nodes -> Nat \ {0}]
      /\ steps \in Nat /\ visits \in [Node -> Nat] /\ events \in Seq(TraceEvent)
      /\ VisitNumber \in Nat
  BY GraphFacts DEF Typed, TypeOK, VisitNumber
<1>. USE <1>2
<1>3. CASE RefuseNode
  BY <1>3, QuietStep DEF RefuseNode, Raise, StartsCounted, state
<1>4. CASE StartNode
  <2>1. /\ pc = "ready" /\ BudgetError(at) = "none" /\ pc' = "visiting" /\ graph' = graph
        /\ at' = at /\ steps' = steps /\ visits' = visits
        /\ events' = Append(events, StartedEvent)
    BY <1>4 DEF StartNode, Emit, state
  <2>. QED BY <2>1, StartingStep DEF StartsCounted
<1>5. ASSUME NEW o \in Output[at], NodeCompletes(o) PROVE StartsCounted'
  <2>1. /\ pc = "visiting" /\ graph' = graph /\ at' = at /\ pc' \in {"stepping", "routing"}
        /\ steps' = steps + 1 /\ visits' = [visits EXCEPT ![at] = visits[at] + 1]
    BY <1>5 DEF NodeCompletes, Update, VisitNumber
  <2>2. \E x \in TraceEvent : x.type # "node_started" /\ events' = Append(events, x)
    <3>1. CompletedEvent(o) \in TraceEvent /\ CompletedEvent(o).type = "node_completed"
      BY EventsTyped
    <3>. QED BY <1>5, <3>1 DEF NodeCompletes, Emit
  <2>3. /\ StartsIn(events') = StartsIn(events)
        /\ \A n : StartsOf(events', n) = StartsOf(events, n)
        /\ WithinBudget'
    BY <2>1, <2>2, QuietStep
  <2>. QED BY <2>1, <2>3 DEF StartsCounted
<1>6. ASSUME NEW error \in NodeErrors, NodeFails(error) PROVE StartsCounted'
  <2>1. \/ events' = events
        \/ \E x \in TraceEvent : x.type # "node_started" /\ events' = Append(events, x)
    <3>1. FailedEvent \in TraceEvent /\ FailedEvent.type = "node_failed"
      BY EventsTyped
    <3>. QED BY <1>6, <3>1 DEF NodeFails, Emit
  <2>. QED BY <1>6, <2>1, QuietStep DEF NodeFails, Raise, StartsCounted
<1>7. CASE RouteSelects
  <2>1. \E x \in TraceEvent : x.type # "node_started" /\ events' = Append(events, x)
    BY <1>7, RouteTargets DEF RouteSelects, SelectedEvent, Emit
  <2>. QED BY <1>7, <2>1, QuietStep DEF RouteSelects, state, StartsCounted
<1>8. CASE RouteFails
  <2>1. \/ events' = events
        \/ \E x \in TraceEvent : x.type # "node_started" /\ events' = Append(events, x)
    <3>1. RefusedEvent \in TraceEvent /\ RefusedEvent.type = "route_failed"
      BY EventsTyped
    <3>. QED BY <1>8, <3>1 DEF RouteFails, Emit
  <2>. QED BY <1>8, <2>1, QuietStep DEF RouteFails, Raise, StartsCounted
<1>9. CASE Schedule
  BY <1>9, QuietStep DEF Schedule, MayStep, EscapingError, state, StartsCounted
<1>10. CASE Finish
  BY <1>10, QuietStep DEF Finish, StartsCounted
<1>11. CASE Propagate
  BY <1>11, QuietStep DEF Propagate, StartsCounted
<1>12. CASE DeadlineExpires
  BY <1>12, QuietStep DEF DeadlineExpires, state, StartsCounted
<1>13. CASE CallerCancels
  BY <1>13, QuietStep DEF CallerCancels, state, StartsCounted
<1>14. CASE Cancelled
  BY <1>14, QuietStep DEF Cancelled, StartsCounted
<1>15. CASE LateRoute
  <2>1. \/ events' = events
        \/ \E x \in TraceEvent : x.type # "node_started" /\ events' = Append(events, x)
    <3>1. \A x \in RouteEvents : x \in TraceEvent /\ x.type # "node_started"
      BY <1>15, EventsTyped DEF LateRoute
    <3>. QED BY <1>15, <3>1 DEF LateRoute
  <2>. QED BY <1>15, <2>1, QuietStep DEF LateRoute, StartsCounted
<1>16. CASE Ended \/ UNCHANGED vars
  BY <1>16, QuietStep DEF Ended, vars, state, StartsCounted
<1>17. CASE SinkRaises
  <2>1. pc' = "raising" /\ graph' = graph
    BY <1>17, SinkStep
  <2>2. ASSUME pc = "ready", BudgetError(at) = "none", events' = Append(events, StartedEvent)
        PROVE  WithinBudget'
    BY <2>1, <2>2, StartingStep
  <2>3. \/ events' = events
        \/ \E x \in TraceEvent : x.type # "node_started" /\ events' = Append(events, x)
        \/ pc = "ready" /\ BudgetError(at) = "none" /\ events' = Append(events, StartedEvent)
    BY <1>17, SinkStep, EventsTyped
  <2>. QED BY <2>1, <2>2, <2>3, QuietStep DEF StartsCounted
<1>. QED BY <1>3, <1>4, <1>5, <1>6, <1>7, <1>8, <1>9, <1>10, <1>11, <1>12, <1>13,
            <1>14, <1>15, <1>16, <1>17 DEF Next, Engine, NodeAnswers

\* However nodes, routes and cancellation interleave, no run starts more
\* visits than max_steps, nor more of a node than its max_visits.
THEOREM BudgetsHold == Spec => []WithinBudget
<1>1. StartsCounted => WithinBudget
  BY DEF StartsCounted
<1>. QED BY TypedInit, TypedStep, AccountsInit, AccountsStep, StartsInit, StartsStep,
            <1>1, PTL DEF Spec

----------------------------------------------------------------------------
(* What a step adds to the trace. *)

\* An event is added at the end, and a start only where one is due.
LEMMA EventsGrow ==
  ASSUME Typed, [Next]_vars
  PROVE  \/ events' = events
         \/ \E x \in TraceEvent : x.type # "node_started" /\ events' = Append(events, x)
         \/ pc = "ready" /\ events' = Append(events, StartedEvent)
<1>. USE EventsTyped
<1>1. ASSUME NEW o \in Output[at], NodeCompletes(o)
      PROVE  \E x \in TraceEvent : x.type # "node_started" /\ events' = Append(events, x)
  BY <1>1 DEF NodeCompletes, Emit
<1>2. CASE \E error \in NodeErrors : NodeFails(error)
  BY <1>2 DEF NodeFails, Emit
<1>3. CASE RouteSelects
  BY <1>3, RouteTargets DEF RouteSelects, SelectedEvent, Emit
<1>4. CASE RouteFails
  BY <1>4 DEF RouteFails, Emit
<1>5. CASE LateRoute
  BY <1>5 DEF LateRoute
<1>6. CASE StartNode
  BY <1>6 DEF StartNode, Emit
<1>7. CASE SinkRaises
  BY <1>7, SinkStep
<1>8. CASE RefuseNode \/ Schedule \/ Finish \/ Propagate \/ DeadlineExpires \/ CallerCancels
           \/ Cancelled \/ Ended \/ UNCHANGED vars
  BY <1>8 DEF RefuseNode, Schedule, Finish, Propagate, DeadlineExpires, CallerCancels,
              Cancelled, Ended, vars
<1>. QED BY <1>1, <1>2, <1>3, <1>4, <1>5, <1>6, <1>7, <1>8 DEF Next, Engine, NodeAnswers

----------------------------------------------------------------------------
(* The history and the state. *)

Entry == [node : Node, visit : Nat, output : AnyOutput]

\* The visits of n among the first k entries of h.
VisitsUpTo(h, n, k) == {j \in VisitsIn(h, n) : j <= k}

\* The visits in a history that grows by one entry.
LEMMA VisitsInAppend ==
  ASSUME NEW h \in Seq(Entry), NEW x \in Entry, NEW n
  PROVE  /\ VisitsIn(Append(h, x), n) =
              IF x.node = n THEN VisitsIn(h, n) \cup {Len(h) + 1} ELSE VisitsIn(h, n)
         /\ \A k \in 0..Len(h) : VisitsUpTo(Append(h, x), n, k) = VisitsUpTo(h, n, k)
         /\ VisitsUpTo(Append(h, x), n, Len(h) + 1) = VisitsIn(Append(h, x), n)
<1>1. /\ Len(h) \in Nat /\ DOMAIN h = 1..Len(h)
      /\ DOMAIN Append(h, x) = 1..(Len(h) + 1)
      /\ \A i \in 1..Len(h) : Append(h, x)[i] = h[i]
      /\ Append(h, x)[Len(h) + 1] = x
  OBVIOUS
<1>2. VisitsIn(Append(h, x), n) =
        IF x.node = n THEN VisitsIn(h, n) \cup {Len(h) + 1} ELSE VisitsIn(h, n)
  BY <1>1 DEF VisitsIn
<1>3. \A k \in 0..Len(h) : \A j \in 1..(Len(h) + 1) : j <= k => j \in 1..Len(h)
  BY <1>1
<1>4. \A k \in 0..Len(h) : VisitsUpTo(Append(h, x), n, k) = VisitsUpTo(h, n, k)
  BY <1>1, <1>3 DEF VisitsUpTo, VisitsIn
<1>5. VisitsUpTo(Append(h, x), n, Len(h) + 1) = VisitsIn(Append(h, x), n)
  BY <1>1 DEF VisitsUpTo, VisitsIn
<1>. QED BY <1>2, <1>4, <1>5

\* The visits in a history are finitely many, and one more counts one more.
LEMMA VisitsFinite ==
  ASSUME NEW h \in Seq(Entry), NEW n
  PROVE  /\ Cardinality(VisitsIn(h, n)) \in Nat
         /\ Cardinality(VisitsIn(h, n) \cup {Len(h) + 1}) = Cardinality(VisitsIn(h, n)) + 1
         /\ \A k : /\ Cardinality(VisitsUpTo(h, n, k)) \in Nat
                   /\ Cardinality(VisitsUpTo(h, n, k)) <= Cardinality(VisitsIn(h, n))
<1>1. Len(h) \in Nat /\ VisitsIn(h, n) \subseteq 1..Len(h)
  BY DEF VisitsIn
<1>2. Len(h) + 1 \notin VisitsIn(h, n)
  BY <1>1
<1>3. IsFiniteSet(VisitsIn(h, n))
  <2>1. IsFiniteSet(1..Len(h))
    BY <1>1, FS_Interval
  <2>. QED BY <1>1, <2>1, FS_Subset
<1>4. ASSUME NEW k
      PROVE  /\ Cardinality(VisitsUpTo(h, n, k)) \in Nat
             /\ Cardinality(VisitsUpTo(h, n, k)) <= Cardinality(VisitsIn(h, n))
  <2>1. VisitsUpTo(h, n, k) \subseteq VisitsIn(h, n)
    BY DEF VisitsUpTo
  <2>. QED BY <1>3, <2>1, FS_Subset, FS_CardinalityType
<1>. QED BY <1>2, <1>3, <1>4, FS_AddElement, FS_CardinalityType

LEMMA AccountedInit == Init => HistoryAccountsForState
<1>1. SUFFICES ASSUME Init PROVE HistoryAccountsForState
  OBVIOUS
<1>2. history = <<>> /\ Len(history) = 0 /\ DOMAIN history = {} /\ steps = 0
  BY <1>1 DEF Init
<1>3. \A n : Cardinality(VisitsIn(history, n)) = 0
  <2>1. \A n : VisitsIn(history, n) = {}
    BY <1>2 DEF VisitsIn
  <2>. QED BY <2>1, FS_EmptySet
<1>. QED BY <1>1, <1>2, <1>3 DEF Init, HistoryAccountsForState

LEMMA AccountedStep == Typed /\ HistoryAccountsForState /\ [Next]_vars => HistoryAccountsForState'
<1>1. SUFFICES ASSUME Typed, HistoryAccountsForState, [Next]_vars
               PROVE  HistoryAccountsForState'
  OBVIOUS
<1>2. ASSUME NEW o \in Output[at], NodeCompletes(o) PROVE HistoryAccountsForState'
  <2>. DEFINE x == [node |-> at, visit |-> visits[at] + 1, output |-> o]
              last == Len(history) + 1
  <2>1. /\ history \in Seq(Entry) /\ Len(history) \in Nat /\ at \in Node
        /\ visits \in [Node -> Nat] /\ results \in [Node -> AnyOutput \cup {NoOutput}]
        /\ DOMAIN history = 1..Len(history)
    BY <1>1, GraphFacts DEF Typed, TypeOK, Entry
  <2>2. x \in Entry /\ x.node = at /\ x.visit = visits[at] + 1 /\ x.output = o
    BY <2>1 DEF Entry, AnyOutput
  <2>3. /\ history' = Append(history, x) /\ steps' = steps + 1
        /\ visits' = [visits EXCEPT ![at] = visits[at] + 1]
        /\ results' = [results EXCEPT ![at] = o]
    BY <1>2 DEF NodeCompletes, Update, LongerHistory, LatestResults, VisitNumber
  <2>. HIDE DEF x
  <2>4. /\ Len(history') = last /\ DOMAIN history' = 1..last
        /\ \A i \in 1..Len(history) : history'[i] = history[i]
        /\ history'[last] = x
    BY <2>1, <2>2, <2>3
  <2>5. /\ Len(history) = steps
        /\ \A n \in Node : visits[n] = Cardinality(VisitsIn(history, n))
        /\ \A i \in DOMAIN history :
             /\ history[i].visit = Cardinality(VisitsUpTo(history, history[i].node, i))
             /\ history[i].visit = visits[history[i].node]
                  => results[history[i].node] = history[i].output
        /\ \A n \in Node : results[n] = NoOutput <=> visits[n] = 0
    BY <1>1 DEF HistoryAccountsForState, VisitsUpTo
  <2>5a. ASSUME NEW n
         PROVE  /\ VisitsIn(history', n) =
                     IF at = n THEN VisitsIn(history, n) \cup {last} ELSE VisitsIn(history, n)
                /\ \A k \in 0..Len(history) : VisitsUpTo(history', n, k) = VisitsUpTo(history, n, k)
                /\ VisitsUpTo(history', n, last) = VisitsIn(history', n)
    <3>1. /\ VisitsIn(Append(history, x), n) =
               IF x.node = n THEN VisitsIn(history, n) \cup {Len(history) + 1}
               ELSE VisitsIn(history, n)
          /\ \A k \in 0..Len(history) :
               VisitsUpTo(Append(history, x), n, k) = VisitsUpTo(history, n, k)
          /\ VisitsUpTo(Append(history, x), n, Len(history) + 1) = VisitsIn(Append(history, x), n)
      BY <2>1, <2>2, VisitsInAppend
    <3>2. history' = Append(history, x) /\ x.node = at
      BY <2>2, <2>3
    <3>. QED BY <3>1, <3>2
  <2>6. \A n \in Node : visits'[n] = Cardinality(VisitsIn(history', n))
    <3>1. ASSUME NEW n \in Node PROVE visits'[n] = Cardinality(VisitsIn(history', n))
      <4>1. VisitsIn(history', n) =
              IF at = n THEN VisitsIn(history, n) \cup {Len(history) + 1}
              ELSE VisitsIn(history, n)
        BY <2>5a
      <4>2. Cardinality(VisitsIn(history, n) \cup {Len(history) + 1})
              = Cardinality(VisitsIn(history, n)) + 1
        BY <2>1, VisitsFinite
      <4>. QED BY <2>1, <2>3, <2>5, <4>1, <4>2
    <3>. QED BY <3>1
  <2>7. \A i \in 1..Len(history) :
          /\ history[i].node \in Node
          /\ VisitsUpTo(history', history[i].node, i) = VisitsUpTo(history, history[i].node, i)
          /\ Cardinality(VisitsUpTo(history, history[i].node, i)) <= visits[history[i].node]
    <3>1. ASSUME NEW i \in 1..Len(history)
          PROVE  /\ history[i].node \in Node
                 /\ VisitsUpTo(history', history[i].node, i)
                      = VisitsUpTo(history, history[i].node, i)
                 /\ Cardinality(VisitsUpTo(history, history[i].node, i))
                      <= visits[history[i].node]
      <4>1. history[i] \in Entry
        BY <2>1
      <4>2. history[i].node \in Node
        BY <4>1 DEF Entry
      <4>3. i \in 0..Len(history)
        BY <2>1
      <4>4. VisitsUpTo(history', history[i].node, i) = VisitsUpTo(history, history[i].node, i)
        BY <2>5a, <4>3
      <4>5. Cardinality(VisitsUpTo(history, history[i].node, i))
              <= Cardinality(VisitsIn(history, history[i].node))
        BY <2>1, VisitsFinite
      <4>. QED BY <2>5, <4>2, <4>4, <4>5
    <3>. QED BY <3>1
  <2>8. VisitsUpTo(history', at, last) = VisitsIn(history', at)
    BY <2>5a
  <2>9. ASSUME NEW i \in DOMAIN history'
        PROVE  /\ history'[i].visit = Cardinality(VisitsUpTo(history', history'[i].node, i))
               /\ history'[i].visit = visits'[history'[i].node]
                    => results'[history'[i].node] = history'[i].output
    <3>1. CASE i = last
      BY <2>1, <2>2, <2>3, <2>4, <2>6, <2>8, <3>1
    <3>2. CASE i # last
      <4>1. i \in 1..Len(history)
        BY <2>1, <2>4, <3>2
      <4>2. history'[i] = history[i]
        BY <2>4, <4>1
      <4>3. history[i].visit = Cardinality(VisitsUpTo(history, history[i].node, i))
        BY <2>1, <2>5, <4>1
      <4>4. history[i].node = at => history[i].visit # visits'[at]
        <5>1. ASSUME history[i].node = at, history[i].visit = visits'[at] PROVE FALSE
          <6>1. history[i].visit <= visits[at] /\ visits'[at] = visits[at] + 1 /\ visits[at] \in Nat
            BY <2>1, <2>3, <2>7, <4>1, <4>3, <5>1
          <6>. QED BY <5>1, <6>1
        <5>. QED BY <5>1
      <4>5. history[i].node # at => /\ visits'[history[i].node] = visits[history[i].node]
                                    /\ results'[history[i].node] = results[history[i].node]
        BY <2>1, <2>3, <2>7, <4>1
      <4>. QED BY <2>1, <2>5, <2>7, <4>1, <4>2, <4>3, <4>4, <4>5
    <3>. QED BY <3>1, <3>2
  <2>10. \A n \in Node : results'[n] = NoOutput <=> visits'[n] = 0
    <3>1. o # NoOutput
      BY <2>1, OutputAssumption
    <3>. QED BY <2>1, <2>3, <2>5, <3>1
  <2>. QED BY <2>3, <2>4, <2>5, <2>6, <2>9, <2>10 DEF HistoryAccountsForState, VisitsUpTo
<1>3. CASE UNCHANGED state
  BY <1>1, <1>3 DEF state, HistoryAccountsForState
<1>. QED BY <1>1, <1>2, <1>3
     DEF Next, Engine, NodeAnswers, RefuseNode, StartNode, RouteSelects, RouteFails, Schedule,
         Finish, Propagate, NodeFails, SinkRaises, DeadlineExpires, CallerCancels, Cancelled,
         LateRoute, Ended, vars

----------------------------------------------------------------------------
(* The events and the history. *)

LEMMA CompletedFinite ==
  ASSUME NEW e \in Seq(TraceEvent)
  PROVE  /\ Cardinality(CompletedIn(e)) \in Nat
         /\ Cardinality(CompletedIn(e) \cup {Len(e) + 1}) = Cardinality(CompletedIn(e)) + 1
         /\ \A i \in CompletedIn(e) : RankIn(e, i) \in 1..Cardinality(CompletedIn(e))
<1>1. Len(e) \in Nat /\ CompletedIn(e) \subseteq 1..Len(e)
  BY DEF CompletedIn
<1>2. Len(e) + 1 \notin CompletedIn(e)
  BY <1>1
<1>3. IsFiniteSet(CompletedIn(e))
  <2>1. IsFiniteSet(1..Len(e))
    BY <1>1, FS_Interval
  <2>. QED BY <1>1, <2>1, FS_Subset
<1>4. Cardinality(CompletedIn(e)) \in Nat
  BY <1>3, FS_CardinalityType
<1>5. ASSUME NEW i \in CompletedIn(e)
      PROVE  RankIn(e, i) \in 1..Cardinality(CompletedIn(e))
  <2>. DEFINE S == {j \in CompletedIn(e) : j <= i}
  <2>1. S \subseteq CompletedIn(e) /\ i \in S
    BY <1>1
  <2>2. IsFiniteSet(S) /\ Cardinality(S) <= Cardinality(CompletedIn(e))
    BY <1>3, <2>1, FS_Subset
  <2>3. Cardinality(S) \in Nat /\ Cardinality(S) # 0
    BY <2>1, <2>2, FS_CardinalityType, FS_EmptySet
  <2>. QED BY <1>4, <2>2, <2>3 DEF RankIn
<1>. QED BY <1>2, <1>3, <1>4, <1>5, FS_AddElement

\* The completions in a trace that grows by one event.
LEMMA CompletedInAppend ==
  ASSUME NEW e \in Seq(TraceEvent), NEW x \in TraceEvent
  PROVE  /\ CompletedIn(Append(e, x)) =
              IF x.type = "node_completed" THEN CompletedIn(e) \cup {Len(e) + 1} ELSE CompletedIn(e)
         /\ \A i \in 1..Len(e) : RankIn(Append(e, x), i) = RankIn(e, i)
         /\ x.type # "node_completed" =>
              RankIn(Append(e, x), Len(e) + 1) = Cardinality(CompletedIn(e))
         /\ x.type = "node_completed" =>
              RankIn(Append(e, x), Len(e) + 1) = Cardinality(CompletedIn(e)) + 1
<1>1. /\ Len(e) \in Nat /\ DOMAIN e = 1..Len(e)
      /\ DOMAIN Append(e, x) = 1..(Len(e) + 1)
      /\ \A i \in 1..Len(e) : Append(e, x)[i] = e[i]
      /\ Append(e, x)[Len(e) + 1] = x
  OBVIOUS
<1>2. CompletedIn(Append(e, x)) =
        IF x.type = "node_completed" THEN CompletedIn(e) \cup {Len(e) + 1} ELSE CompletedIn(e)
  BY <1>1 DEF CompletedIn
<1>3. CompletedIn(e) \subseteq 1..Len(e)
  BY DEF CompletedIn
<1>4. ASSUME NEW i \in 1..Len(e) PROVE RankIn(Append(e, x), i) = RankIn(e, i)
  <2>1. {j \in CompletedIn(Append(e, x)) : j <= i} = {j \in CompletedIn(e) : j <= i}
    BY <1>1, <1>2, <1>3
  <2>. QED BY <2>1 DEF RankIn
<1>5. ASSUME x.type = "node_completed"
      PROVE  RankIn(Append(e, x), Len(e) + 1) = Cardinality(CompletedIn(e)) + 1
  <2>1. {j \in CompletedIn(Append(e, x)) : j <= Len(e) + 1} = CompletedIn(e) \cup {Len(e) + 1}
    BY <1>1, <1>2, <1>3, <1>5
  <2>. QED BY <2>1, CompletedFinite DEF RankIn
<1>6. ASSUME x.type # "node_completed"
      PROVE  RankIn(Append(e, x), Len(e) + 1) = Cardinality(CompletedIn(e))
  <2>1. {j \in CompletedIn(Append(e, x)) : j <= Len(e) + 1} = CompletedIn(e)
    BY <1>1, <1>2, <1>3, <1>6
  <2>. QED BY <2>1 DEF RankIn
<1>. QED BY <1>2, <1>4, <1>5, <1>6

Started(x)    == [type |-> "node_started", node |-> x.node, visit |-> x.visit]
EntryOf(x)    == [node |-> x.node, visit |-> x.visit, output |-> x.output]

\* Each completion is the answer to the start before it and an entry of the
\* history, but for the last one of a run whose sink raised on it.
CompletionsTold ==
  /\ \A i \in CompletedIn(events) :
       /\ i > 1 /\ events[i - 1] = Started(events[i])
       /\ RankIn(events, i) <= Len(history) => history[RankIn(events, i)] = EntryOf(events[i])
  /\ \/ Cardinality(CompletedIn(events)) = Len(history)
     \/ /\ Cardinality(CompletedIn(events)) = Len(history) + 1
        /\ Len(events) \in CompletedIn(events)
        /\ pc \in {"raising", "done"} /\ raised \in {"sink", "none"}

\* The start that an open visit answers is the last event.
OpenVisit == pc = "visiting" => events # <<>> /\ events[Len(events)] = StartedEvent

\* A route follows at once the completion of the node it leads from, which is
\* the last one and an entry.
RouteDue ==
  pc = "routing" \/ lateRoute =>
    /\ history # <<>> /\ at = history[Len(history)].node
    /\ events # <<>> /\ Len(events) \in CompletedIn(events)
    /\ Cardinality(CompletedIn(events)) = Len(history)

StartsTold == Cardinality(StartsIn(events)) - Len(history) \in {0, 1}

\* A completed run has no visit, and no completion, that its history lacks.
AllTold ==
  outcome.status = "completed" =>
    /\ Cardinality(StartsIn(events)) = Len(history)
    /\ Cardinality(CompletedIn(events)) = Len(history)
    /\ ~lateRoute

EventsTold == CompletionsTold /\ OpenVisit /\ RouteDue /\ StartsTold /\ AllTold

LEMMA AppendLast ==
  ASSUME NEW S, NEW e \in Seq(S), NEW x \in S
  PROVE  Append(e, x) # <<>> /\ Append(e, x)[Len(Append(e, x))] = x
OBVIOUS

\* Only a completion that is accepted adds an entry; one more completion than
\* that is shown only where the sink raised on it.
MayEmit == pc \in {"ready", "visiting", "routing"} \/ lateRoute = TRUE

LEMMA HistoryGrows ==
  ASSUME Typed, [Next]_vars, \A o \in Output[at] : ~NodeCompletes(o)
  PROVE  /\ history' = history
         /\ \/ events' = events
            \/ /\ MayEmit
               /\ \E x \in TraceEvent : x.type # "node_completed" /\ events' = Append(events, x)
            \/ /\ pc = "visiting" /\ pc' = "raising" /\ raised' \in {"sink", "none"}
               /\ lateRoute' = lateRoute
               /\ \E o \in Output[at] : events' = Append(events, CompletedEvent(o))
<1>1. CASE StartNode
  <2>1. /\ history' = history /\ events' = Append(events, StartedEvent) /\ MayEmit
    BY <1>1 DEF StartNode, Emit, state, MayEmit
  <2>2. StartedEvent \in TraceEvent /\ StartedEvent.type = "node_started"
    BY EventsTyped
  <2>3. \E x \in TraceEvent : x.type # "node_completed" /\ events' = Append(events, x)
    BY <2>1, <2>2
  <2>. QED BY <2>1, <2>3
<1>2. ASSUME NEW error \in NodeErrors, NodeFails(error)
      PROVE  /\ history' = history /\ MayEmit
             /\ events' = events \/ events' = Append(events, FailedEvent)
  BY <1>2 DEF NodeFails, Emit, state, MayEmit
<1>3. CASE RouteSelects
  <2>1. /\ history' = history /\ events' = Append(events, SelectedEvent) /\ MayEmit
    BY <1>3 DEF RouteSelects, Emit, state, MayEmit
  <2>2. SelectedEvent \in TraceEvent /\ SelectedEvent.type = "route_selected"
    BY <1>3, EventsTyped, RouteTargets DEF RouteSelects, SelectedEvent
  <2>3. \E x \in TraceEvent : x.type # "node_completed" /\ events' = Append(events, x)
    BY <2>1, <2>2
  <2>. QED BY <2>1, <2>3
<1>4. CASE RouteFails
  <2>1. /\ history' = history /\ MayEmit
        /\ events' = events \/ events' = Append(events, RefusedEvent)
    BY <1>4 DEF RouteFails, Emit, state, MayEmit
  <2>2. RefusedEvent \in TraceEvent /\ RefusedEvent.type = "route_failed"
    BY EventsTyped
  <2>3. \/ events' = events
        \/ \E x \in TraceEvent : x.type # "node_completed" /\ events' = Append(events, x)
    BY <2>1, <2>2
  <2>. QED BY <2>1, <2>3
<1>5. CASE LateRoute
  <2>1. /\ history' = history /\ MayEmit
        /\ events' = events \/ \E x \in RouteEvents : events' = Append(events, x)
    BY <1>5 DEF LateRoute, state, MayEmit
  <2>2. \A x \in RouteEvents : x \in TraceEvent /\ x.type # "node_completed"
    BY <1>5, EventsTyped DEF LateRoute
  <2>. QED BY <2>1, <2>2
<1>6. CASE SinkRaises
  <2>1. /\ MayEmit /\ pc' = "raising"
        /\ raised' \in {"sink", "none"} /\ history' = history /\ lateRoute' = lateRoute
    BY <1>6, SinkStep DEF MayEmit
  <2>2. CASE events' = events
    BY <2>1, <2>2
  <2>3. CASE pc = "visiting" /\ \E o \in Output[at] : events' = Append(events, CompletedEvent(o))
    BY <2>1, <2>3
  <2>4. CASE \E x \in TraceEvent : x.type # "node_completed" /\ events' = Append(events, x)
    BY <2>1, <2>4
  <2>5. ASSUME events' # events
        PROVE  \/ pc = "visiting" /\ \E o \in Output[at] : events' = Append(events, CompletedEvent(o))
               \/ \E x \in TraceEvent : x.type # "node_completed" /\ events' = Append(events, x)
    <3>1. PICK x \in TraceEvent :
            /\ events' = Append(events, x)
            /\ \/ pc = "ready" /\ BudgetError(at) = "none" /\ x = StartedEvent
               \/ pc = "visiting" /\ \E o \in Output[at] : x = CompletedEvent(o)
               \/ pc = "visiting" /\ x = FailedEvent
               \/ pc = "routing" /\ x \in RouteEvents
      BY <1>6, <2>5, SinkStep
    <3>2. CASE pc = "visiting" /\ \E o \in Output[at] : x = CompletedEvent(o)
      BY <3>1, <3>2
    <3>3. CASE x = StartedEvent \/ x = FailedEvent \/ (pc = "routing" /\ x \in RouteEvents)
      <4>1. x.type # "node_completed"
        BY <3>1, <3>3, EventsTyped
      <4>. QED BY <3>1, <4>1
    <3>. QED BY <3>1, <3>2, <3>3
  <2>. QED BY <2>2, <2>3, <2>4, <2>5
<1>7. CASE RefuseNode \/ Schedule \/ Finish \/ Propagate \/ DeadlineExpires \/ CallerCancels
           \/ Cancelled \/ Ended \/ UNCHANGED vars
  BY <1>7 DEF RefuseNode, Schedule, Finish, Propagate, DeadlineExpires, CallerCancels,
              Cancelled, Ended, vars, state
<1>8. FailedEvent \in TraceEvent /\ FailedEvent.type = "node_failed"
  BY EventsTyped
<1>9. ASSUME NEW error \in NodeErrors, NodeFails(error)
      PROVE  /\ history' = history /\ MayEmit
             /\ \/ events' = events
                \/ \E x \in TraceEvent : x.type # "node_completed" /\ events' = Append(events, x)
  BY <1>2, <1>8, <1>9
<1>. QED BY <1>1, <1>3, <1>4, <1>5, <1>6, <1>7, <1>9 DEF Next, Engine, NodeAnswers

\* A completion added after the start it answers is well placed, and those
\* before it stay so.
LEMMA CompletionPlaced ==
  ASSUME Typed, CompletionsTold, OpenVisit, pc = "visiting", NEW o \in Output[at],
         events' = Append(events, CompletedEvent(o))
  PROVE  LET last == Len(events) + 1
         IN /\ CompletedIn(events') = CompletedIn(events) \cup {last} /\ Len(events') = last
            /\ events'[last] = CompletedEvent(o)
            /\ Cardinality(CompletedIn(events)) = Len(history)
            /\ Cardinality(CompletedIn(events')) = Len(history) + 1
            /\ RankIn(events', last) = Len(history) + 1
            /\ last > 1 /\ events'[last - 1] = Started(events'[last])
            /\ \A i \in CompletedIn(events) :
                 /\ RankIn(events', i) = RankIn(events, i)
                 /\ RankIn(events, i) \in 1..Len(history)
                 /\ i > 1 /\ events'[i - 1] = Started(events'[i])
                 /\ history[RankIn(events', i)] = EntryOf(events'[i])
<1>. DEFINE x == CompletedEvent(o)
            last == Len(events) + 1
<1>1. /\ events \in Seq(TraceEvent) /\ Len(events) \in Nat /\ DOMAIN events = 1..Len(events)
      /\ CompletedIn(events) \subseteq 1..Len(events)
  BY DEF Typed, TypeOK, CompletedIn
<1>2. x \in TraceEvent /\ x.type = "node_completed"
  BY EventsTyped
<1>3. Started(x) = StartedEvent
  BY DEF CompletedEvent, Started, StartedEvent
<1>. HIDE DEF x
<1>4. /\ events'[last] = x /\ \A i \in 1..Len(events) : events'[i] = events[i]
      /\ Len(events') = last
  BY <1>1, <1>2 DEF x
<1>5. /\ CompletedIn(events') = CompletedIn(events) \cup {last}
      /\ \A i \in 1..Len(events) : RankIn(events', i) = RankIn(events, i)
      /\ RankIn(events', last) = Cardinality(CompletedIn(events)) + 1
  BY <1>1, <1>2, CompletedInAppend DEF x
<1>6. /\ Cardinality(CompletedIn(events)) = Len(history)
      /\ Cardinality(CompletedIn(events')) = Len(history) + 1
      /\ \A i \in CompletedIn(events) : RankIn(events, i) \in 1..Len(history)
  BY <1>1, <1>5, CompletedFinite DEF CompletionsTold
<1>7. ASSUME NEW i \in CompletedIn(events)
      PROVE  /\ i > 1 /\ events'[i - 1] = Started(events'[i])
             /\ history[RankIn(events', i)] = EntryOf(events'[i])
             /\ RankIn(events', i) = RankIn(events, i)
  <2>1. /\ i > 1 /\ events[i - 1] = Started(events[i])
        /\ RankIn(events, i) <= Len(history) => history[RankIn(events, i)] = EntryOf(events[i])
    BY DEF CompletionsTold
  <2>2. i \in 1..Len(events) /\ i - 1 \in 1..Len(events)
    BY <1>1, <2>1
  <2>3. RankIn(events, i) <= Len(history)
    BY <1>6
  <2>. QED BY <1>4, <1>5, <2>1, <2>2, <2>3
<1>8. last > 1 /\ events'[last - 1] = Started(events'[last])
  <2>1. events # <<>> /\ events[Len(events)] = StartedEvent
    BY DEF OpenVisit
  <2>2. Len(events) \in 1..Len(events) /\ last - 1 = Len(events)
    BY <1>1, <2>1
  <2>. QED BY <1>1, <1>3, <1>4, <2>1, <2>2
<1>. QED BY <1>4, <1>5, <1>6, <1>7, <1>8 DEF x

\* An event of another kind leaves the completions as they are.
LEMMA CompletionsKept ==
  ASSUME Typed, CompletionsTold, NEW x \in TraceEvent, x.type # "node_completed",
         events' = Append(events, x), history' = history
  PROVE  /\ CompletedIn(events') = CompletedIn(events)
         /\ \A i \in CompletedIn(events) :
              /\ i > 1 /\ events'[i - 1] = Started(events'[i])
              /\ RankIn(events', i) <= Len(history) =>
                   history[RankIn(events', i)] = EntryOf(events'[i])
<1>1. /\ events \in Seq(TraceEvent) /\ Len(events) \in Nat /\ DOMAIN events = 1..Len(events)
      /\ CompletedIn(events) \subseteq 1..Len(events)
  BY DEF Typed, TypeOK, CompletedIn
<1>2. /\ CompletedIn(events') = CompletedIn(events)
      /\ \A i \in 1..Len(events) : RankIn(events', i) = RankIn(events, i)
  BY <1>1, CompletedInAppend
<1>3. \A i \in 1..Len(events) : events'[i] = events[i]
  BY <1>1
<1>4. \A i \in CompletedIn(events) : i > 1 => i \in 1..Len(events) /\ i - 1 \in 1..Len(events)
  BY <1>1
<1>. QED BY <1>2, <1>3, <1>4 DEF CompletionsTold

LEMMA CompletionsStep ==
  Typed /\ Accounts /\ CompletionsTold /\ OpenVisit /\ RouteDue /\ [Next]_vars => CompletionsTold'
<1>1. SUFFICES ASSUME Typed, Accounts, CompletionsTold, OpenVisit, RouteDue, [Next]_vars
               PROVE  CompletionsTold'
  OBVIOUS
<1>2. history \in Seq(Entry) /\ Len(history) \in Nat /\ Len(events) \in Nat
  BY <1>1 DEF Typed, TypeOK, Entry
<1>3. ASSUME NEW o \in Output[at], NodeCompletes(o) PROVE CompletionsTold'
  <2>. DEFINE h == EntryOf(CompletedEvent(o))
              last == Len(events) + 1
  <2>1. at \in Node /\ VisitNumber \in Nat /\ o \in AnyOutput
    BY <1>1, <1>3, GraphFacts DEF Typed, TypeOK, VisitNumber, AnyOutput
  <2>2. h \in Entry
    BY <2>1 DEF Entry, EntryOf, CompletedEvent
  <2>3. /\ events' = Append(events, CompletedEvent(o)) /\ history' = Append(history, h)
        /\ pc = "visiting"
    BY <1>3 DEF NodeCompletes, Emit, Update, LongerHistory, EntryOf, CompletedEvent
  <2>. HIDE DEF h
  <2>4. /\ Len(history') = Len(history) + 1
        /\ history'[Len(history) + 1] = h
        /\ \A i \in 1..Len(history) : history'[i] = history[i]
    BY <1>2, <2>2, <2>3
  <2>5. /\ CompletedIn(events') = CompletedIn(events) \cup {last}
        /\ events'[last] = CompletedEvent(o)
        /\ Cardinality(CompletedIn(events')) = Len(history) + 1
        /\ RankIn(events', last) = Len(history) + 1
        /\ last > 1 /\ events'[last - 1] = Started(events'[last])
        /\ \A i \in CompletedIn(events) :
             /\ RankIn(events', i) = RankIn(events, i)
             /\ RankIn(events, i) \in 1..Len(history)
             /\ i > 1 /\ events'[i - 1] = Started(events'[i])
             /\ history[RankIn(events', i)] = EntryOf(events'[i])
    BY <1>1, <2>3, CompletionPlaced
  <2>6. history'[RankIn(events', last)] = EntryOf(events'[last])
    BY <2>4, <2>5 DEF h
  <2>7. \A i \in CompletedIn(events) : history'[RankIn(events', i)] = EntryOf(events'[i])
    BY <2>4, <2>5
  <2>. QED BY <2>4, <2>5, <2>6, <2>7 DEF CompletionsTold
<1>4. CASE \A o \in Output[at] : ~NodeCompletes(o)
  <2>1. history' = history
    BY <1>1, <1>4, HistoryGrows
  <2>2. CASE events' = events
    <3>1. pc \in {"raising", "done"} =>
            pc' \in {"raising", "done"} /\ (raised \in {"sink", "none"} => raised' = raised)
      BY <1>1
         DEF Next, Engine, NodeAnswers, RefuseNode, StartNode, RouteSelects, RouteFails, Schedule,
             MayStep, Finish, Propagate, NodeCompletes, NodeFails, SinkRaises, EventsDue,
             DeadlineExpires, CallerCancels, Cancelled, LateRoute, Ended, vars
    <3>. QED BY <1>1, <2>1, <2>2, <3>1 DEF CompletionsTold
  <2>3. ASSUME NEW x \in TraceEvent, x.type # "node_completed", events' = Append(events, x),
               MayEmit
        PROVE  CompletionsTold'
    <3>1. Cardinality(CompletedIn(events)) = Len(history)
      BY <1>1, <2>3, Zenon DEF CompletionsTold, RouteDue, MayEmit
    <3>. QED BY <1>1, <2>1, <2>3, <3>1, CompletionsKept DEF CompletionsTold
  <2>4. ASSUME pc = "visiting", pc' = "raising", raised' \in {"sink", "none"},
               NEW o \in Output[at], events' = Append(events, CompletedEvent(o))
        PROVE  CompletionsTold'
    <3>. DEFINE last == Len(events) + 1
    <3>1. /\ CompletedIn(events') = CompletedIn(events) \cup {last} /\ Len(events') = last
          /\ Cardinality(CompletedIn(events')) = Len(history) + 1
          /\ RankIn(events', last) = Len(history) + 1
          /\ last > 1 /\ events'[last - 1] = Started(events'[last])
          /\ \A i \in CompletedIn(events) :
               /\ i > 1 /\ events'[i - 1] = Started(events'[i])
               /\ history[RankIn(events', i)] = EntryOf(events'[i])
      BY <1>1, <2>4, CompletionPlaced
    <3>2. ~(RankIn(events', last) <= Len(history)) /\ Len(events') \in CompletedIn(events')
      BY <1>2, <3>1
    <3>3. \A i \in CompletedIn(events') :
            /\ i > 1 /\ events'[i - 1] = Started(events'[i])
            /\ RankIn(events', i) <= Len(history') =>
                 history'[RankIn(events', i)] = EntryOf(events'[i])
      BY <2>1, <3>1, <3>2
    <3>. HIDE DEF last
    <3>. QED BY <2>1, <2>4, <3>1, <3>2, <3>3 DEF CompletionsTold
  <2>. QED BY <1>1, <1>4, <2>2, <2>3, <2>4, HistoryGrows
<1>. QED BY <1>3, <1>4

LEMMA RouteDueStep ==
  Typed /\ CompletionsTold /\ CompletionsTold' /\ OpenVisit /\ RouteDue /\ [Next]_vars => RouteDue'
<1>1. SUFFICES ASSUME Typed, CompletionsTold, CompletionsTold', OpenVisit, RouteDue, [Next]_vars,
                      pc' = "routing" \/ lateRoute'
               PROVE  /\ history' # <<>> /\ at' = history'[Len(history')].node
                      /\ events' # <<>> /\ Len(events') \in CompletedIn(events')
                      /\ Cardinality(CompletedIn(events')) = Len(history')
  BY DEF RouteDue
<1>2. ASSUME NEW o \in Output[at], NodeCompletes(o)
      PROVE  /\ history' # <<>> /\ at' = history'[Len(history')].node
             /\ events' # <<>> /\ Len(events') \in CompletedIn(events')
             /\ Cardinality(CompletedIn(events')) = Len(history')
  <2>. DEFINE h == [node |-> at, visit |-> VisitNumber, output |-> o]
  <2>1. h \in Entry /\ h.node = at /\ history \in Seq(Entry) /\ Len(history) \in Nat
    BY <1>1, <1>2, GraphFacts DEF Typed, TypeOK, VisitNumber, AnyOutput, Entry
  <2>2. /\ events' = Append(events, CompletedEvent(o)) /\ history' = Append(history, h)
        /\ pc = "visiting" /\ at' = at
    BY <1>2 DEF NodeCompletes, Emit, Update, LongerHistory
  <2>. HIDE DEF h
  <2>3. /\ Len(history') = Len(history) + 1 /\ history' # <<>>
        /\ history'[Len(history')].node = at
    BY <2>1, <2>2
  <2>4. /\ CompletedIn(events') = CompletedIn(events) \cup {Len(events')}
        /\ Cardinality(CompletedIn(events')) = Len(history) + 1
    BY <1>1, <2>2, CompletionPlaced
  <2>5. events' # <<>>
    <3>1. events \in Seq(TraceEvent) /\ CompletedEvent(o) \in TraceEvent
      BY <1>1, EventsTyped DEF Typed, TypeOK
    <3>. QED BY <2>2, <3>1
  <2>. QED BY <2>2, <2>3, <2>4, <2>5
<1>3. CASE \A o \in Output[at] : ~NodeCompletes(o)
  <2>1. ~SinkRaises
    <3>1. SUFFICES ASSUME SinkRaises PROVE FALSE
      OBVIOUS
    <3>. QED BY <1>1, <3>1, SinkStep DEF Typed, RoutesHaveChoices
  <2>2. CASE Cancelled
    <3>1. pc = "routing" /\ UNCHANGED <<events, history, at>>
      BY <1>1, <2>2 DEF Cancelled, state
    <3>. QED BY <1>1, <3>1 DEF RouteDue
  <2>3. CASE ~Cancelled
    <3>1. /\ UNCHANGED <<events, history, at, lateRoute>>
          /\ pc' = "routing" => pc = "routing"
      BY <1>1, <1>3, <2>1, <2>3
         DEF Next, Engine, NodeAnswers, RefuseNode, StartNode, RouteSelects, RouteFails, Raise,
             Schedule, MayStep, Finish, Propagate, NodeFails, DeadlineExpires, CallerCancels,
             LateRoute, Ended, vars, state, Typed, RoutesHaveChoices
    <3>. QED BY <1>1, <3>1 DEF RouteDue
  <2>. QED BY <2>2, <2>3
<1>. QED BY <1>2, <1>3

LEMMA OpenVisitStep == Typed /\ OpenVisit /\ [Next]_vars => OpenVisit'
<1>1. SUFFICES ASSUME Typed, OpenVisit, [Next]_vars, pc' = "visiting"
               PROVE  events' # <<>> /\ events'[Len(events')] = StartedEvent'
  BY DEF OpenVisit
<1>2. CASE StartNode
  <2>1. StartedEvent \in TraceEvent /\ events \in Seq(TraceEvent)
    BY <1>1, GraphFacts DEF Typed, TypeOK, StartedEvent, VisitNumber, TraceEvent
  <2>2. events' = Append(events, StartedEvent) /\ StartedEvent' = StartedEvent
    BY <1>2 DEF StartNode, Emit, state, StartedEvent, VisitNumber
  <2>. HIDE DEF StartedEvent
  <2>. QED BY <2>1, <2>2, AppendLast
<1>3. CASE ~StartNode
  <2>1. pc = "visiting" /\ events' = events /\ at' = at /\ visits' = visits
    BY <1>1, <1>3
       DEF Next, Engine, NodeAnswers, RefuseNode, RouteSelects, RouteFails, Raise, Schedule,
           Finish, Propagate, NodeCompletes, NodeFails, SinkRaises, DeadlineExpires, CallerCancels,
           Cancelled, LateRoute, Ended, vars, state
  <2>. QED BY <1>1, <2>1 DEF OpenVisit, StartedEvent, VisitNumber
<1>. QED BY <1>2, <1>3

LEMMA StartsToldStep ==
  ASSUME Typed, Accounts, StartsCounted, HistoryAccountsForState, StartsTold, [Next]_vars,
         Typed', Accounts', StartsCounted', HistoryAccountsForState'
  PROVE  StartsTold'
<1>1. Len(history) = steps /\ Len(history') = steps' /\ steps \in Nat
  BY DEF HistoryAccountsForState, Typed, TypeOK
<1>2. CASE pc' \in {"ready", "visiting", "routing", "stepping"}
  BY <1>1, <1>2 DEF StartsCounted, StartsTold, Typed, TypeOK
<1>3. CASE pc' \notin {"ready", "visiting", "routing", "stepping"}
  <2>1. history' = history
    BY <1>3, HistoryGrows DEF NodeCompletes
  <2>2. events \in Seq(TraceEvent)
    BY DEF Typed, TypeOK
  <2>3. CASE pc = "ready" /\ events' = Append(events, StartedEvent)
    <3>1. StartedEvent \in TraceEvent /\ StartedEvent.type = "node_started"
      BY EventsTyped
    <3>2. Cardinality(StartsIn(events')) = Cardinality(StartsIn(events)) + 1
      BY <2>2, <2>3, <3>1, StartsInAppend, StartsFinite
    <3>3. Cardinality(StartsIn(events)) = Len(history)
      BY <1>1, <2>3 DEF StartsCounted
    <3>. QED BY <1>1, <2>1, <3>2, <3>3 DEF StartsTold
  <2>4. CASE ~(pc = "ready" /\ events' = Append(events, StartedEvent))
    <3>1. StartsIn(events') = StartsIn(events)
      BY <2>2, <2>4, EventsGrow, StartsInAppend
    <3>. QED BY <2>1, <3>1 DEF StartsTold
  <2>. QED BY <2>3, <2>4
<1>. QED BY <1>2, <1>3

\* Only Finish completes a run, and what it completes stays as it is.
LEMMA CompletedRun ==
  ASSUME Typed, Accounts, [Next]_vars, outcome'.status = "completed"
  PROVE  \/ Finish
         \/ /\ pc = "done" /\ outcome' = outcome
            /\ UNCHANGED <<graph, input, history>>
            /\ LateRoute \/ UNCHANGED <<events, lateRoute>>
<1>1. ASSUME Propagate \/ Cancelled PROVE FALSE
  <2>1. (\E error : outcome' = Failed(error)) \/ outcome' = [status |-> "cancelled"]
    BY <1>1, Zenon DEF Propagate, Cancelled
  <2>2. \A error : Failed(error).status = "failed"
    BY DEF Failed
  <2>. QED BY <2>1, <2>2
<1>2. ASSUME ~Finish PROVE outcome' = outcome
  BY <1>1, <1>2
     DEF Next, Engine, NodeAnswers, RefuseNode, StartNode, RouteSelects, RouteFails, Schedule,
         NodeCompletes, NodeFails, SinkRaises, DeadlineExpires, CallerCancels, LateRoute, Ended,
         vars
<1>3. ASSUME ~Finish PROVE pc = "done"
  BY <1>2, <1>3 DEF Accounts, Pending
<1>4. ASSUME ~Finish PROVE ~SinkRaises
  BY <1>3, <1>4, SinkStep
<1>5. ASSUME ~Finish
      PROVE  /\ UNCHANGED <<graph, input, history>>
             /\ LateRoute \/ UNCHANGED <<events, lateRoute>>
  BY <1>1, <1>3, <1>4, <1>5
     DEF Next, Engine, NodeAnswers, RefuseNode, StartNode, RouteSelects, RouteFails, Schedule,
         MayStep, NodeCompletes, NodeFails, DeadlineExpires, CallerCancels, LateRoute, Ended,
         vars, state
<1>. QED BY <1>2, <1>3, <1>5

LEMMA AllToldStep ==
  ASSUME Typed, Accounts, StartsCounted, HistoryAccountsForState, CompletionsTold, AllTold,
         [Next]_vars
  PROVE  AllTold'
<1>1. SUFFICES ASSUME outcome'.status = "completed"
               PROVE  /\ Cardinality(StartsIn(events')) = Len(history')
                      /\ Cardinality(CompletedIn(events')) = Len(history')
                      /\ ~lateRoute'
  BY DEF AllTold
<1>2. CASE Finish
  <2>1. UNCHANGED <<events, history, lateRoute>> /\ pc = "stepping"
    BY <1>2 DEF Finish, MayStep, state
  <2>2. Cardinality(StartsIn(events)) = Len(history)
    BY <2>1 DEF StartsCounted, HistoryAccountsForState
  <2>3. Cardinality(CompletedIn(events)) = Len(history) /\ ~lateRoute
    BY <2>1 DEF CompletionsTold, Typed, RoutesHaveChoices
  <2>. QED BY <2>1, <2>2, <2>3
<1>3. CASE ~Finish
  <2>1. /\ outcome' = outcome /\ history' = history
        /\ LateRoute \/ UNCHANGED <<events, lateRoute>>
    BY <1>1, <1>3, CompletedRun
  <2>. QED BY <1>1, <2>1 DEF AllTold, LateRoute
<1>. QED BY <1>2, <1>3

LEMMA EventsToldInit == Init => EventsTold
<1>1. SUFFICES ASSUME Init PROVE EventsTold
  OBVIOUS
<1>2. CompletedIn(events) = {} /\ StartsIn(events) = {} /\ Len(history) = 0
  BY <1>1 DEF Init, CompletedIn, StartsIn
<1>3. Cardinality(CompletedIn(events)) = 0 /\ Cardinality(StartsIn(events)) = 0
  BY <1>2, FS_EmptySet
<1>. QED BY <1>1, <1>2, <1>3
     DEF Init, Pending, EventsTold, CompletionsTold, OpenVisit, RouteDue, StartsTold, AllTold

LEMMA EventsToldStep ==
  ASSUME Typed, Accounts, StartsCounted, HistoryAccountsForState, EventsTold, [Next]_vars,
         Typed', Accounts', StartsCounted', HistoryAccountsForState'
  PROVE  EventsTold'
<1>1. CompletionsTold'
  BY CompletionsStep DEF EventsTold
<1>. QED BY <1>1, RouteDueStep, OpenVisitStep, StartsToldStep, AllToldStep DEF EventsTold

\* History, state and events of a run tell the same visits, in the same order
\* and with the same outputs, however it goes, wherever it is cancelled and
\* whichever emission raises.
THEOREM HistoryIsTold == Spec => []HistoryTellsTheRun
<1>1. Init => EventsTold /\ HistoryAccountsForState
  BY EventsToldInit, AccountedInit
<1>2. ASSUME Typed, HistoryAccountsForState, EventsTold PROVE HistoryTellsTheRun
  <2>1. Len(history) \in Nat
    BY <1>2 DEF Typed, TypeOK
  <2>. QED BY <1>2, <2>1 DEF HistoryTellsTheRun, EventsTellHistory, EventsTold, CompletionsTold,
              StartsTold, AllTold, Started, EntryOf
<1>. QED BY TypedInit, TypedStep, AccountsInit, AccountsStep, StartsInit, StartsStep,
            AccountedStep, EventsToldStep, <1>1, <1>2, PTL DEF Spec

----------------------------------------------------------------------------
(* Replaying the history. *)

LastOf(S) == CHOOSE i \in S : \A j \in S : j <= i

\* What the history h, the input and the definition g say by themselves.
ResultsOf(h, k) ==
  [n \in Node |-> IF VisitsUpTo(h, n, k) = {} THEN NoOutput
                  ELSE h[LastOf(VisitsUpTo(h, n, k))].output]

DictOf(i, res) ==
  Dict([input    |-> i,
        context  |-> EmptyDict,
        metadata |-> EmptyDict,
        results  |-> Dict([n \in {m \in Node : res[m] # NoOutput} |->
                             Dict([output |-> res[n]])])])

NextOf(g, i, h, k) ==
  LET t == TransitionOf(g, h[k].node)
      value == Resolve(DictOf(i, ResultsOf(h, k)), t.select)
  IN IF t.type = "direct" THEN t.to
     ELSE IF RouteError(t, value) # "none" THEN Fail
     ELSE Target(t, value)

LEMMA ReplayTerms ==
  /\ \A k : ResultsAfter(k) = ResultsOf(history, k)
  /\ \A res : StateDict(res) = DictOf(input, res)
  /\ \A k : NextAfter(k) = NextOf(graph, input, history, k)
<1>1. \A k : ResultsAfter(k) = ResultsOf(history, k)
  BY Zenon DEF ResultsAfter, ResultsOf, VisitsUpTo, LastOf
<1>2. \A res : StateDict(res) = DictOf(input, res)
  BY Zenon DEF StateDict, DictOf
<1>3. \A k : NextAfter(k) = NextOf(graph, input, history, k)
  BY <1>1, <1>2 DEF NextAfter, NextOf
<1>. QED BY <1>1, <1>2, <1>3

\* Every set of visits that is asked for its last one has one.
LastFound(h) ==
  \A n \in Node : \A k \in 0..Len(h) :
    VisitsUpTo(h, n, k) # {} =>
      \E i \in VisitsUpTo(h, n, k) : \A j \in VisitsUpTo(h, n, k) : j <= i

\* A history that grows says of its beginning what it said before.
LEMMA BeginningKept ==
  ASSUME NEW h \in Seq(Entry), NEW x \in Entry, LastFound(h)
  PROVE  /\ LastFound(Append(h, x))
         /\ \A k \in 0..Len(h) : ResultsOf(Append(h, x), k) = ResultsOf(h, k)
         /\ ResultsOf(Append(h, x), Len(h) + 1) =
              [ResultsOf(h, Len(h)) EXCEPT ![x.node] = x.output]
         /\ \A g, i : \A k \in 1..Len(h) : NextOf(g, i, Append(h, x), k) = NextOf(g, i, h, k)
<1>. DEFINE l == Append(h, x)
            last == Len(h) + 1
<1>1. /\ Len(h) \in Nat /\ Len(l) = last /\ l[last] = x
      /\ \A i \in 1..Len(h) : l[i] = h[i]
      /\ DOMAIN h = 1..Len(h) /\ x.node \in Node
  BY DEF Entry
<1>2. \A n : /\ VisitsIn(l, n) = IF x.node = n THEN VisitsIn(h, n) \cup {last} ELSE VisitsIn(h, n)
             /\ \A k \in 0..Len(h) : VisitsUpTo(l, n, k) = VisitsUpTo(h, n, k)
             /\ VisitsUpTo(l, n, last) = VisitsIn(l, n)
             /\ VisitsUpTo(h, n, Len(h)) = VisitsIn(h, n)
  BY <1>1, VisitsInAppend DEF VisitsIn, VisitsUpTo
<1>. HIDE DEF l
<1>3. \A n : VisitsIn(h, n) \subseteq 1..Len(h)
  BY <1>1 DEF VisitsIn
<1>4. \A n \in Node : \A k \in 0..Len(h) :
        VisitsUpTo(h, n, k) # {} =>
          /\ LastOf(VisitsUpTo(h, n, k)) \in VisitsUpTo(h, n, k)
          /\ LastOf(VisitsUpTo(h, n, k)) \in 1..Len(h)
  BY <1>3 DEF LastFound, LastOf, VisitsUpTo
<1>5. LastFound(l)
  <2>1. SUFFICES ASSUME NEW n \in Node, NEW k \in 0..last, VisitsUpTo(l, n, k) # {}
                 PROVE  \E i \in VisitsUpTo(l, n, k) : \A j \in VisitsUpTo(l, n, k) : j <= i
    BY <1>1 DEF LastFound
  <2>2. CASE k \in 0..Len(h)
    BY <1>2, <2>1, <2>2 DEF LastFound
  <2>3. CASE k = last /\ x.node = n
    <3>1. VisitsUpTo(l, n, k) = VisitsIn(h, n) \cup {last}
      BY <1>2, <2>3
    <3>2. \A j \in VisitsIn(h, n) \cup {last} : j <= last
      BY <1>1, <1>3
    <3>. QED BY <3>1, <3>2, Zenon
  <2>4. CASE k = last /\ x.node # n
    <3>1. VisitsUpTo(l, n, k) = VisitsUpTo(h, n, Len(h)) /\ Len(h) \in 0..Len(h)
      BY <1>1, <1>2, <2>4
    <3>. QED BY <2>1, <3>1 DEF LastFound
  <2>. QED BY <1>1, <2>1, <2>2, <2>3, <2>4
<1>6. ASSUME NEW k \in 0..Len(h) PROVE ResultsOf(l, k) = ResultsOf(h, k)
  <2>1. ASSUME NEW n \in Node
        PROVE  (IF VisitsUpTo(l, n, k) = {} THEN NoOutput ELSE l[LastOf(VisitsUpTo(l, n, k))].output)
                 = (IF VisitsUpTo(h, n, k) = {} THEN NoOutput
                    ELSE h[LastOf(VisitsUpTo(h, n, k))].output)
    BY <1>1, <1>2, <1>4
  <2>. QED BY <2>1 DEF ResultsOf
<1>7. ResultsOf(l, last) = [ResultsOf(h, Len(h)) EXCEPT ![x.node] = x.output]
  <2>1. LastOf(VisitsIn(h, x.node) \cup {last}) = last
    BY <1>1, <1>3 DEF LastOf
  <2>2. ResultsOf(l, last)[x.node] = x.output
    BY <1>1, <1>2, <2>1 DEF ResultsOf
  <2>3. ASSUME NEW n \in Node, n # x.node PROVE ResultsOf(l, last)[n] = ResultsOf(h, Len(h))[n]
    <3>1. VisitsUpTo(l, n, last) = VisitsUpTo(h, n, Len(h)) /\ Len(h) \in 0..Len(h)
      BY <1>1, <1>2, <2>3
    <3>2. VisitsUpTo(h, n, Len(h)) # {} =>
            l[LastOf(VisitsUpTo(h, n, Len(h)))] = h[LastOf(VisitsUpTo(h, n, Len(h)))]
      BY <1>1, <1>4, <3>1
    <3>. QED BY <3>1, <3>2 DEF ResultsOf
  <2>. QED BY <2>2, <2>3, <1>1 DEF ResultsOf
<1>8. \A g, i : \A k \in 1..Len(h) : NextOf(g, i, l, k) = NextOf(g, i, h, k)
  <2>1. \A k \in 1..Len(h) : k \in 0..Len(h) /\ l[k] = h[k]
    BY <1>1
  <2>. QED BY <1>6, <2>1 DEF NextOf
<1>. QED BY <1>5, <1>6, <1>7, <1>8 DEF l

\* The run goes where its history leads.
Replay ==
  /\ LastFound(history)
  /\ results = ResultsOf(history, Len(history))
  /\ history # <<>> => history[1].node = graph.start
  /\ \A k \in 1..(Len(history) - 1) : history[k+1].node = NextOf(graph, input, history, k)
  /\ pc \in {"ready", "visiting"} =>
       at = IF history = <<>> THEN graph.start
            ELSE NextOf(graph, input, history, Len(history))
  /\ pc \in {"routing", "stepping"} => history # <<>>
  /\ pc = "routing" => at = history[Len(history)].node
  /\ pc = "stepping" => next = NextOf(graph, input, history, Len(history))

Replayed ==
  outcome.status = "completed" =>
    /\ NextOf(graph, input, history, Len(history)) = END
    /\ outcome.result = Resolve(DictOf(input, ResultsOf(history, Len(history))), graph.output)
    /\ outcome.result # Unresolved

LEMMA ReplayInit == Init => Replay /\ Replayed
<1>1. SUFFICES ASSUME Init PROVE Replay /\ Replayed
  OBVIOUS
<1>2. history = <<>> /\ Len(history) = 0 /\ \A n, k : VisitsUpTo(history, n, k) = {}
  BY <1>1 DEF Init, VisitsUpTo, VisitsIn
<1>3. LastFound(history) /\ results = ResultsOf(history, Len(history))
  BY <1>1, <1>2 DEF Init, LastFound, ResultsOf
<1>. QED BY <1>1, <1>2, <1>3 DEF Init, Pending, Replay, Replayed

\* A completed visit was the one the history before it led to.
LEMMA VisitReplayed ==
  ASSUME Typed, Replay, NEW o \in Output[at], NodeCompletes(o)
  PROVE  Replay'
<1>. DEFINE x == [node |-> at, visit |-> VisitNumber, output |-> o]
            last == Len(history) + 1
<1>1. /\ at \in Node /\ VisitNumber \in Nat /\ o \in AnyOutput
      /\ history \in Seq(Entry) /\ Len(history) \in Nat /\ (history = <<>> <=> Len(history) = 0)
  BY GraphFacts DEF Typed, TypeOK, VisitNumber, AnyOutput, Entry
<1>2. x \in Entry /\ x.node = at /\ x.output = o
  BY <1>1 DEF Entry
<1>3. /\ history' = Append(history, x) /\ results' = [results EXCEPT ![at] = o]
      /\ UNCHANGED <<graph, input, at>> /\ pc = "visiting"
      /\ IF Transition.type = "direct" THEN pc' = "stepping" /\ next' = Transition.to
         ELSE pc' = "routing"
  BY DEF NodeCompletes, Update, LongerHistory, LatestResults
<1>. HIDE DEF x
<1>4. /\ LastFound(history')
      /\ results' = ResultsOf(history', last)
      /\ \A k \in 1..Len(history) :
           NextOf(graph, input, history', k) = NextOf(graph, input, history, k)
  <2>1. LastFound(history) /\ results = ResultsOf(history, Len(history))
    BY DEF Replay
  <2>2. /\ LastFound(Append(history, x))
        /\ ResultsOf(Append(history, x), last) =
             [ResultsOf(history, Len(history)) EXCEPT ![x.node] = x.output]
        /\ \A g, i : \A k \in 1..Len(history) :
             NextOf(g, i, Append(history, x), k) = NextOf(g, i, history, k)
    BY <1>1, <1>2, <2>1, BeginningKept
  <2>. QED BY <1>2, <1>3, <2>1, <2>2
<1>5. /\ Len(history') = last /\ history' # <<>> /\ history'[last] = x
      /\ \A i \in 1..Len(history) : history'[i] = history[i]
  BY <1>1, <1>2, <1>3
<1>6. history'[1].node = graph.start
  <2>1. CASE history = <<>>
    BY <1>1, <1>2, <1>3, <1>5, <2>1 DEF Replay
  <2>2. CASE history # <<>>
    BY <1>1, <1>5, <2>2 DEF Replay
  <2>. QED BY <2>1, <2>2
<1>7. ASSUME NEW k \in 1..Len(history)
      PROVE  history'[k+1].node = NextOf(graph, input, history', k)
  <2>1. CASE k = Len(history)
    BY <1>1, <1>2, <1>3, <1>4, <1>5, <2>1 DEF Replay
  <2>2. CASE k # Len(history)
    <3>1. k \in 1..(Len(history) - 1) /\ k + 1 \in 1..Len(history)
      BY <1>1, <2>2
    <3>. QED BY <1>4, <1>5, <3>1 DEF Replay
  <2>. QED BY <2>1, <2>2
<1>8. pc' = "stepping" => next' = NextOf(graph, input, history', last)
  BY <1>2, <1>3, <1>5 DEF NextOf, Transition
<1>9. pc' \in {"stepping", "routing"} /\ Len(history') - 1 = Len(history)
  BY <1>1, <1>3, <1>5
<1>10. pc' = "routing" => at' = history'[Len(history')].node
  BY <1>2, <1>3, <1>5
<1>. QED BY <1>3, <1>4, <1>5, <1>6, <1>7, <1>8, <1>9, <1>10 DEF Replay

LEMMA ReplayStep == Typed /\ Replay /\ [Next]_vars => Replay'
<1>1. SUFFICES ASSUME Typed, Replay, [Next]_vars PROVE Replay'
  OBVIOUS
<1>2. ASSUME NEW o \in Output[at], NodeCompletes(o) PROVE Replay'
  BY <1>1, <1>2, VisitReplayed
<1>3. CASE RouteSelects
  <2>1. NextOf(graph, input, history, Len(history)) = Target(Transition, Selected)
    <3>1. /\ at = history[Len(history)].node
          /\ results = ResultsOf(history, Len(history))
          /\ Transition.type # "direct" /\ RouteError(Transition, Selected) = "none"
      BY <1>1, <1>3 DEF RouteSelects, Replay, Typed, RoutesHaveChoices
    <3>2. Selected = Resolve(DictOf(input, results), Transition.select)
      BY ReplayTerms DEF Selected
    <3>. QED BY <3>1, <3>2 DEF NextOf, Transition
  <2>2. UNCHANGED <<graph, input, history, results>> /\ pc' = "stepping" /\ pc = "routing"
        /\ next' = Target(Transition, Selected)
    BY <1>3 DEF RouteSelects, state
  <2>. QED BY <1>1, <2>1, <2>2 DEF Replay
<1>4. CASE Schedule
  <2>1. /\ UNCHANGED <<graph, input, history, results>> /\ pc = "stepping"
        /\ pc' \in {"ready", "raising"} /\ (pc' = "ready" => at' = next)
    BY <1>4 DEF Schedule, MayStep, state
  <2>. QED BY <1>1, <2>1 DEF Replay
<1>5. CASE \/ RefuseNode \/ RouteFails \/ Finish \/ Propagate \/ Cancelled \/ LateRoute
           \/ SinkRaises \/ \E error \in NodeErrors : NodeFails(error)
  <2>1. UNCHANGED <<graph, input, history, results>> /\ pc' \in {"raising", "done"}
    BY <1>5 DEF RefuseNode, RouteFails, Finish, Propagate, Cancelled, LateRoute, SinkRaises,
                NodeFails, Raise, state
  <2>. QED BY <1>1, <2>1 DEF Replay
<1>6. CASE StartNode
  <2>1. UNCHANGED <<graph, input, history, results, at>> /\ pc = "ready" /\ pc' = "visiting"
    BY <1>6 DEF StartNode, state
  <2>. QED BY <1>1, <2>1 DEF Replay
<1>7. CASE DeadlineExpires \/ CallerCancels \/ Ended \/ UNCHANGED vars
  <2>1. UNCHANGED <<graph, input, history, results, at, pc, next>>
    BY <1>7 DEF DeadlineExpires, CallerCancels, Ended, vars, state
  <2>. QED BY <1>1, <2>1 DEF Replay
<1>. QED BY <1>1, <1>2, <1>3, <1>4, <1>5, <1>6, <1>7 DEF Next, Engine, NodeAnswers

LEMMA ReplayedStep == Typed /\ Accounts /\ Replay /\ Replayed /\ [Next]_vars => Replayed'
<1>1. SUFFICES ASSUME Typed, Accounts, Replay, Replayed, [Next]_vars, outcome'.status = "completed"
               PROVE  /\ NextOf(graph', input', history', Len(history')) = END
                      /\ outcome'.result =
                           Resolve(DictOf(input', ResultsOf(history', Len(history'))), graph'.output)
                      /\ outcome'.result # Unresolved
  BY DEF Replayed
<1>2. CASE Finish
  <2>. DEFINE value == Resolve(StateDict(results), graph.output)
  <2>1. /\ pc = "stepping" /\ next = END /\ UNCHANGED <<graph, input, history>>
        /\ outcome' = IF value = Unresolved THEN Failed("unresolved")
                      ELSE [status |-> "completed", result |-> value]
    BY <1>2 DEF Finish, MayStep, state
  <2>2. Failed("unresolved").status = "failed"
    BY DEF Failed
  <2>3. value # Unresolved /\ outcome' = [status |-> "completed", result |-> value]
    BY <1>1, <2>1, <2>2
  <2>4. outcome'.result = value
    BY <2>3
  <2>5. value = Resolve(DictOf(input, ResultsOf(history, Len(history))), graph.output)
    BY <1>1, ReplayTerms DEF Replay
  <2>. QED BY <1>1, <2>1, <2>3, <2>4, <2>5 DEF Replay
<1>3. CASE ~Finish
  <2>1. outcome' = outcome /\ UNCHANGED <<graph, input, history>>
    BY <1>1, <1>3, CompletedRun
  <2>. QED BY <1>1, <2>1 DEF Replayed
<1>. QED BY <1>2, <1>3

\* A run can be replayed from its history and its input alone, loops and
\* routes included; a completed run's result is the replay's.
THEOREM RunsReplay == Spec => []RunIsReplay
<1>1. ASSUME Replay, Replayed PROVE RunIsReplay
  BY <1>1, ReplayTerms DEF Replay, Replayed, RunIsReplay
<1>. QED BY TypedInit, TypedStep, AccountsInit, AccountsStep, ReplayInit, ReplayStep,
            ReplayedStep, <1>1, PTL DEF Spec

----------------------------------------------------------------------------
(* Replaying the timeline. *)

\* What the event at place i of e says, if the history h is what was done.
EventReplayed(g, inp, h, e, i) ==
  LET told == RankIn(e, i)
      follows == i > 1 /\ told \in DOMAIN h
  IN /\ e[i].type = "node_started" =>
          IF i = 1 THEN e[i].node = g.start
          ELSE follows /\ e[i].node = NextOf(g, inp, h, told)
     /\ e[i].type \in {"route_selected", "route_failed"} =>
          /\ follows
          /\ e[i-1].type = "node_completed"
          /\ e[i].node = h[told].node
     /\ e[i].type = "route_selected" =>
          e[i].target = NextOf(g, inp, h, told) /\ e[i].target # Fail
     /\ e[i].type = "route_failed" => NextOf(g, inp, h, told) = Fail /\ i = Len(e)

\* A route that failed is the end of a timeline.
NoFailedRoute ==
  events # <<>> /\ events[Len(events)].type = "route_failed" =>
    pc \in {"raising", "done"} /\ ~lateRoute

EventsReplayed ==
  /\ \A i \in DOMAIN events : EventReplayed(graph, input, history, events, i)
  /\ pc = "ready" /\ history = <<>> => events = <<>>
  /\ NoFailedRoute

\* What was told stays true when an event is added and the history's beginning
\* is kept, unless a route had failed.
LEMMA ReplayKept ==
  ASSUME Typed, EventsReplayed, NEW x \in TraceEvent, events' = Append(events, x),
         UNCHANGED <<graph, input>>,
         DOMAIN history \subseteq DOMAIN history',
         \A k \in DOMAIN history :
           /\ history'[k] = history[k]
           /\ NextOf(graph, input, history', k) = NextOf(graph, input, history, k),
         pc \notin {"raising", "done"} \/ lateRoute,
         EventReplayed(graph', input', history', events', Len(events) + 1)
  PROVE  \A i \in DOMAIN events' : EventReplayed(graph', input', history', events', i)
<1>1. /\ events \in Seq(TraceEvent) /\ Len(events) \in Nat /\ DOMAIN events = 1..Len(events)
      /\ DOMAIN events' = 1..(Len(events) + 1)
      /\ \A i \in 1..Len(events) : events'[i] = events[i]
  BY DEF Typed, TypeOK
<1>2. SUFFICES ASSUME NEW i \in 1..Len(events)
               PROVE  EventReplayed(graph, input, history', events', i)
  BY <1>1
<1>3. EventReplayed(graph, input, history, events, i)
  BY <1>1 DEF EventsReplayed
<1>4. /\ RankIn(events', i) = RankIn(events, i) /\ events'[i] = events[i]
      /\ i > 1 => events'[i-1] = events[i-1]
  BY <1>1, CompletedInAppend
<1>5. events[i].type # "route_failed"
  <2>1. SUFFICES ASSUME events[i].type = "route_failed" PROVE FALSE
    OBVIOUS
  <2>2. i = Len(events)
    BY <1>3, <2>1 DEF EventReplayed
  <2>3. events # <<>>
    BY <1>1, <1>2
  <2>. QED BY <2>1, <2>2, <2>3 DEF EventsReplayed, NoFailedRoute
<1>. QED BY <1>1, <1>3, <1>4, <1>5, ZenonT(60) DEF EventReplayed

\* A start is where the definition leads.
LEMMA StartReplayed ==
  ASSUME Typed, Replay, EventsTold, EventsReplayed, pc = "ready",
         events' = Append(events, StartedEvent)
  PROVE  EventReplayed(graph, input, history, events', Len(events) + 1)
<1>. DEFINE last == Len(events) + 1
<1>1. /\ events \in Seq(TraceEvent) /\ Len(events) \in Nat /\ events'[last] = StartedEvent
      /\ (events = <<>> <=> Len(events) = 0)
      /\ Len(history) \in Nat /\ DOMAIN history = 1..Len(history)
      /\ (history = <<>> <=> Len(history) = 0)
  BY EventsTyped DEF Typed, TypeOK
<1>2. RankIn(events', last) = Cardinality(CompletedIn(events))
  BY <1>1, EventsTyped, CompletedInAppend
<1>3. Cardinality(CompletedIn(events)) = Len(history)
  BY DEF EventsTold, CompletionsTold
<1>4. StartedEvent.type = "node_started" /\ StartedEvent.node = at
  BY EventsTyped
<1>5. CASE events = <<>>
  <2>1. Cardinality(CompletedIn(events)) = 0
    <3>1. CompletedIn(events) = {}
      BY <1>5 DEF CompletedIn
    <3>. QED BY <3>1, FS_EmptySet
  <2>2. at = graph.start /\ last = 1
    BY <1>1, <1>3, <1>5, <2>1 DEF Replay
  <2>. QED BY <1>1, <1>4, <2>2 DEF EventReplayed
<1>6. CASE events # <<>>
  <2>1. Len(history) \in 1..Len(history) /\ last > 1
    BY <1>1, <1>6 DEF EventsReplayed
  <2>2. at = NextOf(graph, input, history, Len(history))
    BY <1>1, <2>1 DEF Replay
  <2>. QED BY <1>1, <1>2, <1>3, <1>4, <2>1, <2>2 DEF EventReplayed
<1>. QED BY <1>5, <1>6

\* What a route tells is where the definition leads, or that it leads nowhere.
LEMMA RouteReplayed ==
  ASSUME Typed, Replay, EventsTold, pc = "routing" \/ lateRoute,
         NEW x \in RouteEvents, events' = Append(events, x)
  PROVE  EventReplayed(graph, input, history, events', Len(events) + 1)
<1>. DEFINE last == Len(events) + 1
<1>1. /\ x \in TraceEvent
      /\ \/ x = SelectedEvent /\ RouteError(Transition, Selected) = "none"
         \/ x = RefusedEvent /\ RouteError(Transition, Selected) = "no_route"
  BY EventsTyped
<1>2. /\ x.type \in {"route_selected", "route_failed"} /\ x.node = at
      /\ x.type = "route_selected" =>
           x.target = Target(Transition, Selected) /\ RouteError(Transition, Selected) = "none"
      /\ x.type = "route_failed" => RouteError(Transition, Selected) = "no_route"
  BY <1>1 DEF SelectedEvent, RefusedEvent
<1>3. /\ history # <<>> /\ at = history[Len(history)].node
      /\ events # <<>> /\ Len(events) \in CompletedIn(events)
      /\ Cardinality(CompletedIn(events)) = Len(history)
  BY DEF EventsTold, RouteDue
<1>4. /\ events \in Seq(TraceEvent) /\ Len(events) \in Nat /\ events'[last] = x
      /\ Len(events') = last /\ last > 1
      /\ events'[last - 1].type = "node_completed"
      /\ Len(history) \in 1..Len(history) /\ DOMAIN history = 1..Len(history)
  <2>1. /\ events \in Seq(TraceEvent) /\ Len(events) \in 1..Len(events)
        /\ events[Len(events)].type = "node_completed"
    BY <1>3 DEF Typed, TypeOK, CompletedIn
  <2>2. events'[last] = x /\ Len(events') = last /\ events'[Len(events)] = events[Len(events)]
    BY <1>1, <2>1
  <2>3. last - 1 = Len(events)
    BY <2>1
  <2>. QED BY <1>3, <2>1, <2>2, <2>3 DEF Typed, TypeOK
<1>5. RankIn(events', last) = Len(history)
  BY <1>1, <1>2, <1>3, <1>4, CompletedInAppend
<1>6. NextOf(graph, input, history, Len(history)) =
        IF RouteError(Transition, Selected) # "none" THEN Fail ELSE Target(Transition, Selected)
  <2>1. /\ results = ResultsOf(history, Len(history)) /\ Transition.type # "direct"
    BY DEF Replay, Typed, RoutesHaveChoices
  <2>2. Selected = Resolve(DictOf(input, results), Transition.select)
    BY ReplayTerms DEF Selected
  <2>. QED BY <1>3, <2>1, <2>2 DEF NextOf, Transition
<1>7. RouteError(Transition, Selected) = "none" => Target(Transition, Selected) # Fail
  BY DEF RouteError
<1>. HIDE DEF last
<1>. QED BY <1>2, <1>3, <1>4, <1>5, <1>6, <1>7 DEF EventReplayed, last

\* What a step may add to the timeline, and where the run is then.
LEMMA EventsAdded ==
  ASSUME Typed, [Next]_vars, events' # events
  PROVE  \/ \E o \in Output[at] : NodeCompletes(o)
         \/ /\ UNCHANGED <<graph, input, history, at>> /\ pc' # "ready"
            /\ \/ pc = "ready" /\ events' = Append(events, StartedEvent)
               \/ /\ pc = "visiting"
                  /\ \/ events' = Append(events, FailedEvent)
                     \/ \E o \in Output[at] : events' = Append(events, CompletedEvent(o))
               \/ /\ pc = "routing" \/ lateRoute
                  /\ \E x \in RouteEvents :
                       /\ events' = Append(events, x)
                       /\ x = RefusedEvent => pc' \in {"raising", "done"} /\ ~lateRoute'
<1>1. CASE StartNode
  BY <1>1 DEF StartNode, Emit, state
<1>2. CASE \E error \in NodeErrors : NodeFails(error)
  BY <1>2 DEF NodeFails, Emit, Raise, state
<1>3. CASE RouteSelects
  <2>1. /\ SelectedEvent \in RouteEvents /\ events' = Append(events, SelectedEvent)
        /\ UNCHANGED <<graph, input, history, at>> /\ pc' = "stepping" /\ pc = "routing"
    BY <1>3 DEF RouteSelects, RouteEvents, Emit, state
  <2>2. SelectedEvent # RefusedEvent
    BY EventsTyped
  <2>. QED BY <2>1, <2>2
<1>4. CASE RouteFails
  <2>1. /\ RefusedEvent \in RouteEvents /\ events' = Append(events, RefusedEvent)
        /\ UNCHANGED <<graph, input, history, at>> /\ pc' = "raising" /\ pc = "routing"
        /\ lateRoute' = lateRoute
    BY <1>4 DEF RouteFails, RouteEvents, Emit, Raise, state
  <2>2. ~lateRoute
    BY <2>1 DEF Typed, RoutesHaveChoices
  <2>. QED BY <2>1, <2>2
<1>5. CASE LateRoute
  BY <1>5 DEF LateRoute, state
<1>6. CASE SinkRaises
  <2>1. /\ pc \in {"ready", "visiting", "routing"} /\ pc' = "raising"
        /\ UNCHANGED <<graph, input, history, at>>
    BY <1>6, SinkStep
  <2>2. ~lateRoute /\ ~lateRoute'
    BY <1>6, <2>1, SinkStep DEF Typed, RoutesHaveChoices
  <2>3. PICK x \in TraceEvent :
          /\ events' = Append(events, x)
          /\ \/ pc = "ready" /\ BudgetError(at) = "none" /\ x = StartedEvent
             \/ pc = "visiting" /\ \E o \in Output[at] : x = CompletedEvent(o)
             \/ pc = "visiting" /\ x = FailedEvent
             \/ pc = "routing" /\ x \in RouteEvents
    BY <1>6, SinkStep
  <2>. QED BY <2>1, <2>2, <2>3
<1>7. CASE RefuseNode \/ Schedule \/ Finish \/ Propagate \/ DeadlineExpires \/ CallerCancels
           \/ Cancelled \/ Ended \/ UNCHANGED vars
  BY <1>7 DEF RefuseNode, Schedule, Finish, Propagate, DeadlineExpires, CallerCancels,
              Cancelled, Ended, vars
<1>. QED BY <1>1, <1>2, <1>3, <1>4, <1>5, <1>6, <1>7 DEF Next, Engine, NodeAnswers

LEMMA EventsReplayedStep ==
  ASSUME Typed, Replay, EventsTold, EventsReplayed, [Next]_vars, Typed'
  PROVE  EventsReplayed'
<1>1. /\ history \in Seq(Entry) /\ Len(history) \in Nat /\ DOMAIN history = 1..Len(history)
      /\ events \in Seq(TraceEvent)
  BY DEF Typed, TypeOK, Entry
<1>2. ASSUME NEW o \in Output[at], NodeCompletes(o) PROVE EventsReplayed'
  <2>. DEFINE h == [node |-> at, visit |-> VisitNumber, output |-> o]
              x == CompletedEvent(o)
  <2>1. /\ events' = Append(events, x) /\ history' = Append(history, h) /\ pc = "visiting"
        /\ UNCHANGED <<graph, input>> /\ pc' \in {"stepping", "routing"}
    BY <1>2 DEF NodeCompletes, Emit, Update, LongerHistory
  <2>2. h \in Entry /\ x \in TraceEvent /\ x.type = "node_completed"
    <3>1. TypeOK
      BY DEF Typed
    <3>2. at \in Node
      BY <3>1, GraphFacts
    <3>3. VisitNumber \in Nat
      BY <3>1, <3>2 DEF TypeOK, VisitNumber
    <3>4. o \in AnyOutput
      BY <1>2, <3>2 DEF AnyOutput
    <3>. QED BY <3>2, <3>3, <3>4, EventsTyped DEF Entry
  <2>. HIDE DEF h, x
  <2>3. /\ DOMAIN history \subseteq DOMAIN history'
        /\ \A k \in DOMAIN history : history'[k] = history[k]
    BY <1>1, <2>1, <2>2
  <2>4. \A k \in DOMAIN history :
          NextOf(graph, input, history', k) = NextOf(graph, input, history, k)
    <3>1. LastFound(history)
      BY DEF Replay
    <3>2. \A g, i : \A k \in 1..Len(history) :
            NextOf(g, i, Append(history, h), k) = NextOf(g, i, history, k)
      BY <1>1, <2>2, <3>1, BeginningKept
    <3>. QED BY <1>1, <2>1, <3>2
  <2>5. events'[Len(events) + 1] = x /\ Len(events') = Len(events) + 1 /\ events' # <<>>
    BY <1>1, <2>1, <2>2
  <2>6. EventReplayed(graph', input', history', events', Len(events) + 1)
    BY <2>2, <2>5 DEF EventReplayed
  <2>7. \A i \in DOMAIN events' : EventReplayed(graph', input', history', events', i)
    BY <2>1, <2>2, <2>3, <2>4, <2>6, ReplayKept
  <2>. QED BY <2>1, <2>2, <2>5, <2>7 DEF EventsReplayed, NoFailedRoute
<1>3. CASE events' = events /\ \A o \in Output[at] : ~NodeCompletes(o)
  <2>1. history' = history
    BY <1>3, HistoryGrows
  <2>2. UNCHANGED <<graph, input>>
    BY DEF Next, Engine, NodeAnswers, RefuseNode, StartNode, RouteSelects, RouteFails, Schedule,
           Finish, Propagate, NodeCompletes, NodeFails, SinkRaises, DeadlineExpires,
           CallerCancels, Cancelled, LateRoute, Ended, vars
  <2>3. pc' = "ready" => pc = "ready" \/ history # <<>>
    BY <1>3
       DEF Next, Engine, NodeAnswers, RefuseNode, StartNode, RouteSelects, RouteFails, Raise,
           Schedule, MayStep, Finish, Propagate, NodeFails, SinkRaises, DeadlineExpires,
           CallerCancels, Cancelled, LateRoute, Ended, vars, Replay
  <2>4. pc \in {"raising", "done"} /\ ~lateRoute => pc' \in {"raising", "done"} /\ ~lateRoute'
    BY <1>3
       DEF Next, Engine, NodeAnswers, RefuseNode, StartNode, RouteSelects, RouteFails, Raise,
           Schedule, MayStep, Finish, Propagate, NodeFails, SinkRaises, DeadlineExpires,
           CallerCancels, Cancelled, LateRoute, Ended, vars
  <2>. QED BY <1>3, <2>1, <2>2, <2>3, <2>4 DEF EventsReplayed, NoFailedRoute
<1>4. CASE events' # events /\ \A o \in Output[at] : ~NodeCompletes(o)
  <2>1. UNCHANGED <<graph, input, history, at>> /\ pc' # "ready"
    BY <1>4, EventsAdded
  <2>2. ASSUME NEW x \in TraceEvent, events' = Append(events, x),
               EventReplayed(graph, input, history, events', Len(events) + 1),
               pc \notin {"raising", "done"} \/ lateRoute,
               x.type = "route_failed" => pc' \in {"raising", "done"} /\ ~lateRoute'
        PROVE  EventsReplayed'
    <3>1. events'[Len(events')] = x
      BY <1>1, <2>2
    <3>2. \A i \in DOMAIN events' : EventReplayed(graph', input', history', events', i)
      BY <2>1, <2>2, ReplayKept
    <3>. QED BY <2>1, <2>2, <3>1, <3>2 DEF EventsReplayed, NoFailedRoute
  <2>3. CASE pc = "ready" /\ events' = Append(events, StartedEvent)
    BY <2>2, <2>3, StartReplayed, EventsTyped
  <2>4. ASSUME NEW x \in TraceEvent, events' = Append(events, x), pc = "visiting",
               x.type \in {"node_failed", "node_completed"}
        PROVE  EventsReplayed'
    <3>1. events'[Len(events) + 1] = x
      BY <1>1, <2>4
    <3>2. EventReplayed(graph, input, history, events', Len(events) + 1)
      BY <2>4, <3>1 DEF EventReplayed
    <3>. QED BY <2>2, <2>4, <3>2
  <2>5. ASSUME pc = "routing" \/ lateRoute, NEW x \in RouteEvents, events' = Append(events, x),
               x = RefusedEvent => pc' \in {"raising", "done"} /\ ~lateRoute'
        PROVE  EventsReplayed'
    <3>1. EventReplayed(graph, input, history, events', Len(events) + 1)
      BY <2>5, RouteReplayed
    <3>2. x \in TraceEvent /\ (x.type = "route_failed" => x = RefusedEvent)
      BY <2>5, EventsTyped
    <3>. QED BY <2>2, <2>5, <3>1, <3>2
  <2>6. CASE pc = "visiting" /\ \/ events' = Append(events, FailedEvent)
                                \/ \E o \in Output[at] : events' = Append(events, CompletedEvent(o))
    BY <2>4, <2>6, EventsTyped
  <2>. QED BY <1>4, <2>3, <2>5, <2>6, EventsAdded
<1>. QED BY <1>2, <1>3, <1>4

\* The timeline is the same replay as the history, and goes as far as the
\* events do: visits that never ended, routes that failed, and the route whose
\* thread outlived its run.
THEOREM TimelineReplays == Spec => []EventsAreReplay
<1>1. Init => EventsReplayed
  BY DEF Init, EventsReplayed, NoFailedRoute
<1>2. ASSUME EventsReplayed PROVE EventsAreReplay
  BY <1>2, ReplayTerms DEF EventsReplayed, EventReplayed, EventsAreReplay
<1>3. Init => EventsTold /\ HistoryAccountsForState
  BY EventsToldInit, AccountedInit
<1>. QED BY TypedInit, TypedStep, AccountsInit, AccountsStep, StartsInit, StartsStep,
            AccountedStep, EventsToldStep, ReplayInit, ReplayStep, EventsReplayedStep,
            <1>1, <1>2, <1>3, PTL DEF Spec

============================================================================
