------------------------- MODULE MCGraphValidation -------------------------
(***************************************************************************)
(* Instances of GraphValidation for TLC: graphs over three nodes, by the   *)
(* set of edges of each node and by which nodes may be revisited, and a    *)
(* few definitions whose transitions are missing, doubled or misnamed, or  *)
(* one of whose nodes bears the name of a marker.                          *)
(***************************************************************************)
EXTENDS GraphValidation

Nodes == {"a", "b", "c"}

\* A conditional transition with these edges, or with fail alone.
Edges(n, targets, field) ==
  [type |-> "conditional", from |-> n, select |-> <<"results", field, "output">>,
   cases |-> [t \in targets |-> t], default |-> Fail]

Def(transitions, maxVisits) ==
  [nodes |-> Nodes, start |-> "a", kind |-> [n \in Nodes |-> "agent"],
   maxVisits |-> maxVisits, transitions |-> transitions, maxSteps |-> 3,
   output |-> <<"results", "a", "output">>]

Targets == SUBSET (Nodes \cup {END})

Few == {T \in Targets : Cardinality(T) <= 2}

\* Graphs in which each node has one transition: a and c have at most two
\* edges, b any; the nodes that may not be revisited are none, one or two.
Graphs ==
  {Def(<<Edges("a", A, "a"), Edges("b", B, "a"), Edges("c", C, "a")>>,
       [n \in Nodes |-> IF n \in single THEN 1 ELSE 2])
     : A \in Few, B \in Targets, C \in Few,
       single \in {{}, {"a"}, {"c"}, {"b", "c"}}}

Misshapen ==
  {Def(ts, [n \in Nodes |-> 1]) :
     ts \in {<<Edges("a", {"b"}, "a"), Edges("b", {END}, "a")>>,
             <<Edges("a", {"b", "c"}, "a"), Edges("b", {END}, "a"),
               Edges("c", {END}, "a"), Edges("c", {"b"}, "a")>>,
             <<Edges("a", {"b"}, "d"), Edges("b", {"c"}, "a"), Edges("c", {END}, "a")>>}}

\* A node called END or fail, at the start or after it.
Marked ==
  {[nodes |-> {"a", n}, start |-> start, kind |-> [m \in {"a", n} |-> "agent"],
    maxVisits |-> [m \in {"a", n} |-> 1], maxSteps |-> 3, output |-> <<"results", n, "output">>,
    transitions |-> <<Edges("a", A, "a"), Edges(n, N, n)>>]
     : n \in {END, Fail}, start \in {"a", END, Fail}, A \in SUBSET {END}, N \in SUBSET {"a", END}}

MCDefinition == Graphs \cup Misshapen \cup {d0 \in Marked : d0.start \in d0.nodes}

============================================================================
