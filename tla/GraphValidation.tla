-------------------------- MODULE GraphValidation --------------------------
(***************************************************************************)
(* GraphWorkflowExecutor._validate_graph (workflow_executor.py): the       *)
(* depth-first search, the fixpoint and Tarjan's algorithm by which the    *)
(* executor accepts a definition or refuses it, with the recursion of the  *)
(* two local functions kept as a stack of frames.                          *)
(*                                                                         *)
(* Dictionaries and lists are walked in an order that is left open here,   *)
(* so the verdict is shown not to depend on how a file is written.         *)
(***************************************************************************)
EXTENDS WorkflowGraph, FiniteSets, SequencesExt

CONSTANT Definition   \* definitions that pass the configuration models

ASSUME DefinitionAssumption ==
  \A d \in Definition :
    /\ LocalShape(d)
    /\ IsFiniteSet(d.nodes) /\ d.transitions \in Seq(ToSet(d.transitions))

VARIABLES
  d,           \* the definition
  adjacency,   \* each node's targets, fail left out
  phase,       \* what is being tested, then accepted or the complaint
  frames,      \* activations of visit or strongconnect, each with the targets left
  reachable,   \* visit's set
  canEnd,      \* the fixpoint's set
  indices, low, stack   \* Tarjan's

vars == <<d, adjacency, phase, frames, reachable, canEnd, indices, low, stack>>

Complaints == {"unknown selector", "ambiguous", "missing", "unreachable", "stuck", "unbounded"}

Init ==
  /\ d \in Definition
  /\ phase = "selectors"
  /\ adjacency = <<>>
  /\ frames = <<>>
  /\ reachable = {}
  /\ canEnd = {END}
  /\ indices = <<>> /\ low = <<>> /\ stack = <<>>

----------------------------------------------------------------------------
CheckSelectors ==
  /\ phase = "selectors"
  /\ phase' = IF SelectorsKnown(d) THEN "transitions" ELSE "unknown selector"
  /\ UNCHANGED <<d, adjacency, frames, reachable, canEnd, indices, low, stack>>

\* The loop over transitions meets a source twice, or leaves a node out.
CheckTransitions ==
  LET sources == {d.transitions[i].from : i \in DOMAIN d.transitions}
  IN /\ phase = "transitions"
     /\ phase' = IF Cardinality(sources) # Len(d.transitions) THEN "ambiguous"
                 ELSE IF sources # d.nodes THEN "missing"
                 ELSE "visit"
     /\ adjacency' = IF phase' = "visit" THEN [n \in d.nodes |-> Adjacent(d, n)] ELSE <<>>
     /\ UNCHANGED <<d, frames, reachable, canEnd, indices, low, stack>>

----------------------------------------------------------------------------
(* Frames. *)

Top         == frames[Len(frames)]
Pop         == SubSeq(frames, 1, Len(frames) - 1)
Frame(n)    == [name |-> n, rest |-> adjacency[n]]
Looked(fs, t) == [fs EXCEPT ![Len(fs)].rest = @ \ {t}]

----------------------------------------------------------------------------
(* visit. *)

Seen(t) == t \in reachable \cup {END}

Visit(n) ==
  /\ reachable' = reachable \cup {n}
  /\ UNCHANGED <<d, adjacency, canEnd, indices, low, stack>>

VisitStart ==
  /\ phase = "visit" /\ frames = <<>> /\ ~Seen(d.start)
  /\ frames' = <<Frame(d.start)>>
  /\ Visit(d.start)
  /\ UNCHANGED phase

\* A start called END is not entered.
VisitNothing ==
  /\ phase = "visit" /\ frames = <<>> /\ Seen(d.start)
  /\ phase' = "unreachable"
  /\ UNCHANGED <<d, adjacency, frames, reachable, canEnd, indices, low, stack>>

VisitTarget(t) ==
  /\ phase = "visit" /\ frames # <<>> /\ t \in Top.rest
  /\ IF Seen(t)
     THEN /\ frames' = Looked(frames, t)
          /\ UNCHANGED <<d, adjacency, phase, reachable, canEnd, indices, low, stack>>
     ELSE /\ frames' = Append(Looked(frames, t), Frame(t))
          /\ Visit(t)
          /\ UNCHANGED phase

VisitReturn ==
  /\ phase = "visit" /\ frames # <<>> /\ Top.rest = {}
  /\ frames' = Pop
  /\ phase' = IF Pop # <<>> THEN phase
              ELSE IF d.nodes # reachable THEN "unreachable"
              ELSE "can_end"
  /\ UNCHANGED <<d, adjacency, reachable, canEnd, indices, low, stack>>

----------------------------------------------------------------------------
(* can_end. *)

Grown == canEnd \cup {n \in d.nodes : adjacency[n] \cap canEnd # {}}

\* Seeded fault: the fixpoint loop never notices that it is done.
AlwaysChanged == TRUE

Changed == Grown # canEnd

GrowCanEnd ==
  /\ phase = "can_end"
  /\ canEnd' = Grown
  /\ phase' = IF Changed THEN phase
              ELSE IF d.nodes \ canEnd # {} THEN "stuck"
              ELSE "cycles"
  /\ UNCHANGED <<d, adjacency, frames, reachable, indices, low, stack>>

----------------------------------------------------------------------------
(* strongconnect. *)

Indexed == DOMAIN indices
With(f, n, x) == [m \in DOMAIN f \cup {n} |-> IF m = n THEN x ELSE f[m]]
Lower(n, x) == [low EXCEPT ![n] = IF x < @ THEN x ELSE @]

Connect(n) ==
  /\ indices' = With(indices, n, Cardinality(Indexed))
  /\ low' = With(low, n, Cardinality(Indexed))
  /\ stack' = Append(stack, n)
  /\ UNCHANGED <<d, adjacency, phase, reachable, canEnd>>

\* The loop over all nodes starts a search at each that has no index yet.
ConnectStart(n) ==
  /\ phase = "cycles" /\ frames = <<>> /\ n \in d.nodes \ Indexed
  /\ frames' = <<Frame(n)>>
  /\ Connect(n)

ConnectTarget(t) ==
  /\ phase = "cycles" /\ frames # <<>> /\ t \in Top.rest
  /\ IF t # END /\ t \notin Indexed
     THEN /\ frames' = Append(Looked(frames, t), Frame(t))
          /\ Connect(t)
     ELSE /\ frames' = Looked(frames, t)
          /\ low' = IF t \in ToSet(stack) THEN Lower(Top.name, indices[t]) ELSE low
          /\ UNCHANGED <<d, adjacency, phase, reachable, canEnd, indices, stack>>

\* What the while loop pops: everything above n and n itself.
Position(n)  == CHOOSE i \in DOMAIN stack : stack[i] = n
Component(n) == ToSet(SubSeq(stack, Position(n), Len(stack)))

Bounded(n) ==
  (Cardinality(Component(n)) > 1 \/ n \in adjacency[n])
    => \A m \in Component(n) : d.maxVisits[m] # 1

\* Seeded fault: the caller does not learn its callee's low.
ForgottenLow(n) == low

\* Back in the caller, low[name] = min(low[name], low[target]).
ReturnedLow(n) ==
  IF Pop = <<>> THEN low ELSE Lower(frames[Len(frames) - 1].name, low[n])

ConnectReturn ==
  LET n    == Top.name
      root == low[n] = indices[n]
  IN /\ phase = "cycles" /\ frames # <<>> /\ Top.rest = {}
     /\ frames' = Pop
     /\ low' = ReturnedLow(n)
     /\ stack' = IF root THEN SubSeq(stack, 1, Position(n) - 1) ELSE stack
     /\ phase' = IF root /\ ~Bounded(n) THEN "unbounded"
                 ELSE IF Pop = <<>> /\ Indexed = d.nodes THEN "accepted"
                 ELSE phase
     /\ UNCHANGED <<d, adjacency, reachable, canEnd, indices>>

Decided == phase \in Complaints \cup {"accepted"}

Stutter == Decided /\ UNCHANGED vars

----------------------------------------------------------------------------
Next ==
  \/ CheckSelectors \/ CheckTransitions
  \/ VisitStart \/ VisitNothing \/ VisitReturn \/ GrowCanEnd \/ ConnectReturn
  \/ \E t \in d.nodes \cup {END} : VisitTarget(t) \/ ConnectTarget(t)
  \/ \E n \in d.nodes : ConnectStart(n)
  \/ Stutter

Spec == Init /\ [][Next]_vars /\ WF_vars(Next)

----------------------------------------------------------------------------
(* Properties. *)

\* The verdict is the right one and names the first complaint that holds:
\* the search, the fixpoint and Tarjan's algorithm find what reachability
\* says, in whatever order the file lists nodes and transitions.
VerdictIsExact ==
  /\ phase = "accepted" => Accepted(d)
  /\ phase = "unknown selector" => ~SelectorsKnown(d)
  /\ phase \in {"ambiguous", "missing"} => ~OneTransitionEach(d)
  /\ phase = "unreachable" => OneTransitionEach(d) /\ ~AllReachable(d)
  /\ phase = "stuck" => AllReachable(d) /\ ~AllCanEnd(d)
  /\ phase = "unbounded" => AllCanEnd(d) /\ ~CyclesBounded(d)

\* Validation ends: a definition is accepted or refused.
EventuallyDecided == <>Decided

============================================================================
