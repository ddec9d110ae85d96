--------------------------- MODULE WorkflowGraph ---------------------------
(***************************************************************************)
(* A graph workflow as the configuration files define it, and the          *)
(* acceptance test that GraphWorkflowExecutor applies before it compiles   *)
(* the graph (app/engine/definitions.py, app/engine/workflow_executor.py). *)
(*                                                                         *)
(* Everything here is constant level.  A definition is a record            *)
(*   [nodes, start, kind, maxVisits, transitions, maxSteps, output]        *)
(* whose transitions are a sequence of                                     *)
(*   [type |-> "direct", from, to] and                                     *)
(*   [type |-> "conditional", from, select, cases, default],               *)
(* cases mapping case keys to targets, and whose selectors (select,        *)
(* output) are the sequences of their dotted parts.                        *)
(*                                                                         *)
(* The test is stated by what it means, with reachability as "in every set *)
(* closed under the edges"; GraphValidation models the code's algorithm    *)
(* and is checked against these operators.                                 *)
(***************************************************************************)
EXTENDS Naturals, Sequences

END  == "END"     \* target that ends the run successfully
Fail == "fail"    \* target that is a routing error

----------------------------------------------------------------------------
(* Transitions. *)

Destinations(t) ==
  IF t.type = "direct" THEN {t.to}
  ELSE {t.cases[key] : key \in DOMAIN t.cases} \cup {t.default}

TransitionsFrom(d, n) == {i \in DOMAIN d.transitions : d.transitions[i].from = n}

\* The one transition of n in a definition that has exactly one.
TransitionOf(d, n) == d.transitions[CHOOSE i \in TransitionsFrom(d, n) : TRUE]

\* The edges of the graph; a fail target is not an edge.
Adjacent(d, n) ==
  (UNION {Destinations(d.transitions[i]) : i \in TransitionsFrom(d, n)}) \ {Fail}

----------------------------------------------------------------------------
(* What the configuration models guarantee of every definition: positive   *)
(* bounds, and names that are nodes or markers.  A node may bear the name  *)
(* of a marker; that no run mistakes one for the other follows from the    *)
(* acceptance test.                                                        *)

LocalShape(d) ==
  /\ d.start \in d.nodes
  /\ d.kind \in [d.nodes -> {"agent", "fail_fast", "collect_errors"}]
  /\ d.maxVisits \in [d.nodes -> Nat \ {0}]
  /\ d.maxSteps \in Nat \ {0}
  /\ \A i \in DOMAIN d.transitions :
       /\ d.transitions[i].type \in {"direct", "conditional"}
       /\ d.transitions[i].from \in d.nodes
       /\ Destinations(d.transitions[i]) \subseteq d.nodes \cup {END, Fail}

----------------------------------------------------------------------------
(* Reachability. *)

ClosedUnderEdges(d, T) == \A n \in T : Adjacent(d, n) \ {END} \subseteq T

\* The nodes reachable from the set of targets S by zero or more edges.
Reach(d, S) ==
  {n \in d.nodes : \A T \in SUBSET d.nodes :
     (S \ {END} \subseteq T /\ ClosedUnderEdges(d, T)) => n \in T}

OnCycle(d, n) == n \in Reach(d, Adjacent(d, n))

CanEnd(d, n) == \E m \in Reach(d, {n}) : END \in Adjacent(d, m)

----------------------------------------------------------------------------
(* The acceptance test, one operator per complaint of _validate_graph.     *)

Selectors(d) ==
  {d.output} \cup {d.transitions[i].select :
                     i \in {j \in DOMAIN d.transitions : d.transitions[j].type = "conditional"}}

SelectorsKnown(d) ==
  \A s \in Selectors(d) : (Len(s) > 1 /\ s[1] = "results") => s[2] \in d.nodes

OneTransitionEach(d) ==
  \A n \in d.nodes : \E i \in TransitionsFrom(d, n) : TransitionsFrom(d, n) = {i}

AllReachable(d) == d.nodes \subseteq Reach(d, {d.start})

\* Seeded fault: the test for a way to END is left out.
NoneNeedsToEnd(d) == TRUE

AllCanEnd(d) == \A n \in d.nodes : CanEnd(d, n)

\* Seeded fault: only a node's edge to itself counts as a cycle.
SelfLoopsBounded(d) == \A n \in d.nodes : n \in Adjacent(d, n) => d.maxVisits[n] > 1

CyclesBounded(d) == \A n \in d.nodes : OnCycle(d, n) => d.maxVisits[n] > 1

Accepted(d) ==
  /\ SelectorsKnown(d)
  /\ OneTransitionEach(d)
  /\ AllReachable(d)
  /\ AllCanEnd(d)
  /\ CyclesBounded(d)

============================================================================
