----------------------- MODULE GraphValidationProofs -----------------------
(***************************************************************************)
(* The theorem about GraphValidation, for every definition of whatever     *)
(* size: the search, the fixpoint and Tarjan's algorithm, in any order of  *)
(* the nodes and targets, accept only the graphs the acceptance test       *)
(* means, and name a complaint that holds.                                 *)
(***************************************************************************)
EXTENDS GraphValidation, FiniteSetTheorems, SequenceTheorems, TLAPS

----------------------------------------------------------------------------
(* Lemmas about reachability in a definition g. *)

\* Edges lead to nodes or to END.
LEMMA EdgesSpan ==
  ASSUME NEW g, LocalShape(g), NEW n
  PROVE  Adjacent(g, n) \subseteq g.nodes \cup {END}
<1>1. \A i \in DOMAIN g.transitions : Destinations(g.transitions[i]) \subseteq g.nodes \cup {END, Fail}
  BY DEF LocalShape
<1>2. TransitionsFrom(g, n) \subseteq DOMAIN g.transitions
  BY DEF TransitionsFrom
<1>. QED BY <1>1, <1>2 DEF Adjacent

\* A set closed under the edges that contains S contains all S reaches.
LEMMA ReachIsLeast ==
  ASSUME NEW g, NEW S, NEW T \in SUBSET g.nodes, S \ {END} \subseteq T, ClosedUnderEdges(g, T)
  PROVE  Reach(g, S) \subseteq T
BY DEF Reach

\* S reaches its own members.
LEMMA ReachStart ==
  ASSUME NEW g, NEW S, NEW n \in S, n \in g.nodes, n # END
  PROVE  n \in Reach(g, S)
BY DEF Reach

\* What S reaches are nodes, and closed under the edges.
LEMMA ReachIsClosed ==
  ASSUME NEW g, LocalShape(g), NEW S
  PROVE  Reach(g, S) \in SUBSET g.nodes /\ ClosedUnderEdges(g, Reach(g, S))
<1>1. Reach(g, S) \in SUBSET g.nodes
  BY DEF Reach
<1>2. SUFFICES ASSUME NEW m \in Reach(g, S), NEW n \in Adjacent(g, m), n # END
               PROVE  n \in Reach(g, S)
  BY <1>1 DEF ClosedUnderEdges
<1>3. n \in g.nodes
  BY <1>2, EdgesSpan
<1>4. SUFFICES ASSUME NEW T \in SUBSET g.nodes, S \ {END} \subseteq T, ClosedUnderEdges(g, T)
               PROVE  n \in T
  BY <1>3 DEF Reach
<1>5. m \in T
  BY <1>4, ReachIsLeast
<1>. QED BY <1>2, <1>4, <1>5 DEF ClosedUnderEdges

\* What is reachable from something S reaches, S reaches.
LEMMA ReachReaches ==
  ASSUME NEW g, LocalShape(g), NEW S, NEW m \in Reach(g, S), NEW n \in Reach(g, {m})
  PROVE  n \in Reach(g, S)
BY ReachIsClosed, ReachIsLeast

\* An edge from something S reaches leads to what S reaches.
LEMMA ReachStep ==
  ASSUME NEW g, LocalShape(g), NEW S, NEW m \in Reach(g, S), NEW n \in Adjacent(g, m) \ {END}
  PROVE  n \in Reach(g, S)
BY ReachIsClosed DEF ClosedUnderEdges

\* The way to another node begins with an edge.
LEMMA ReachElsewhere ==
  ASSUME NEW g, LocalShape(g), NEW m \in g.nodes, NEW n \in Reach(g, {m}), n # m
  PROVE  n \in Reach(g, Adjacent(g, m))
<1> DEFINE T == {m} \cup Reach(g, Adjacent(g, m))
<1>1. T \in SUBSET g.nodes
  BY ReachIsClosed
<1>2. ASSUME NEW x \in T, NEW y \in Adjacent(g, x) \ {END} PROVE y \in T
  <2>1. y \in g.nodes
    BY EdgesSpan
  <2>2. CASE x = m
    BY <2>1, <2>2, ReachStart
  <2>3. CASE x # m
    BY <2>3, ReachStep
  <2>. QED BY <2>2, <2>3
<1>3. ClosedUnderEdges(g, T)
  BY <1>2 DEF ClosedUnderEdges
<1>4. Reach(g, {m}) \subseteq T
  BY <1>1, <1>3, ReachIsLeast
<1>. QED BY <1>4

\* When the start reaches every node, no node is called END.
LEMMA EndIsNoNode ==
  ASSUME NEW g, LocalShape(g), AllReachable(g)
  PROVE  END \notin g.nodes
<1> DEFINE T == g.nodes \ {END}
<1>1. ClosedUnderEdges(g, T)
  BY EdgesSpan DEF ClosedUnderEdges
<1>2. {g.start} \ {END} \subseteq T
  BY DEF LocalShape
<1>3. Reach(g, {g.start}) \subseteq T
  BY <1>1, <1>2, ReachIsLeast
<1>. QED BY <1>3 DEF AllReachable

\* A node with an edge to itself, or to a node that reaches it, is on a cycle.
LEMMA CycleThrough ==
  ASSUME NEW g, LocalShape(g), NEW m \in g.nodes, NEW n \in g.nodes, END \notin g.nodes,
         n \in Reach(g, {m}), m \in Reach(g, {n}), m # n \/ n \in Adjacent(g, n)
  PROVE  OnCycle(g, n)
<1>1. CASE m # n
  <2>1. m \in Reach(g, Adjacent(g, n))
    BY <1>1, ReachElsewhere
  <2>. QED BY <2>1, ReachReaches DEF OnCycle
<1>2. CASE n \in Adjacent(g, n)
  BY <1>2, ReachStart DEF OnCycle
<1>. QED BY <1>1, <1>2

\* A node whose edges lead into a closed set that leaves it out is on no cycle.
LEMMA NoCycleThrough ==
  ASSUME NEW g, NEW T \in SUBSET g.nodes, ClosedUnderEdges(g, T), NEW n, n \notin T,
         Adjacent(g, n) \ {END} \subseteq T
  PROVE  ~OnCycle(g, n)
BY ReachIsLeast DEF OnCycle

----------------------------------------------------------------------------
(* Lemmas about transitions and frames. *)

\* As many sources as transitions, and every node a source: every node has
\* exactly one.
LEMMA TransitionsCounted ==
  ASSUME NEW g, LocalShape(g), g.transitions \in Seq(ToSet(g.transitions)),
         NEW sources, sources = {g.transitions[i].from : i \in DOMAIN g.transitions}
  PROVE  (sources = g.nodes /\ Cardinality(sources) = Len(g.transitions)) <=> OneTransitionEach(g)
<1> DEFINE L == Len(g.transitions)
           f == [i \in 1..L |-> g.transitions[i].from]
<1>1. L \in Nat /\ DOMAIN g.transitions = 1..L
  BY LenProperties
<1> HIDE DEF L
<1>2. f \in Surjection(1..L, sources)
  BY <1>1 DEF Surjection
<1>3. IsFiniteSet(1..L) /\ Cardinality(1..L) = L
  BY <1>1, FS_Interval
<1>4. Cardinality(sources) = L <=> f \in Injection(1..L, sources)
  BY <1>2, <1>3, FS_Surjection
<1>5. Cardinality(sources) = L <=>
        \A i, j \in 1..L : g.transitions[i].from = g.transitions[j].from => i = j
  <2>1. f \in [1..L -> sources]
    BY <1>1
  <2>. QED BY <1>4, <2>1 DEF Injection, IsInjective
<1>6. \A n : TransitionsFrom(g, n) = {i \in 1..L : g.transitions[i].from = n}
  BY <1>1 DEF TransitionsFrom
<1>7. \A i \in 1..L : g.transitions[i].from \in g.nodes
  BY <1>1 DEF LocalShape
<1>8. ASSUME sources = g.nodes, Cardinality(sources) = L PROVE OneTransitionEach(g)
  <2>1. SUFFICES ASSUME NEW n \in g.nodes
                 PROVE  \E i \in TransitionsFrom(g, n) : TransitionsFrom(g, n) = {i}
    BY DEF OneTransitionEach
  <2>2. PICK i \in 1..L : g.transitions[i].from = n
    BY <1>1, <1>8
  <2>3. TransitionsFrom(g, n) = {i}
    BY <1>5, <1>6, <1>8, <2>2
  <2>. QED BY <2>3
<1>9. ASSUME OneTransitionEach(g) PROVE sources = g.nodes /\ Cardinality(sources) = L
  <2>1. \A n \in g.nodes : \E i \in 1..L : g.transitions[i].from = n
    BY <1>6, <1>9 DEF OneTransitionEach
  <2>2. sources = g.nodes
    BY <1>1, <1>7, <2>1, ZenonT(30)
  <2>3. ASSUME NEW i \in 1..L, NEW j \in 1..L, g.transitions[i].from = g.transitions[j].from
        PROVE  i = j
    <3>1. PICK k : TransitionsFrom(g, g.transitions[i].from) = {k}
      BY <1>7, <1>9 DEF OneTransitionEach
    <3>2. i \in {k} /\ j \in {k}
      BY <1>6, <2>3, <3>1
    <3>. QED BY <3>2
  <2>. QED BY <1>5, <2>2, <2>3
<1>. QED BY <1>8, <1>9 DEF L

\* The targets that activations of n, in the frames fs, have still to look at.
Pending(fs, n) == UNION {fs[i].rest : i \in {j \in DOMAIN fs : fs[j].name = n}}

\* Frames of activations of nodes of N.
FrameOver(N) == [name : N, rest : SUBSET (N \cup {END})]

\* Looking at t shortens what the last frame has left, and nothing else.
LEMMA LookedFrames ==
  ASSUME NEW N, NEW fs \in Seq(FrameOver(N)), fs # <<>>, NEW t
  PROVE  /\ Looked(fs, t) \in Seq(FrameOver(N))
         /\ Looked(fs, t) # <<>> /\ Len(Looked(fs, t)) = Len(fs)
         /\ \A i \in 1..Len(fs) :
              /\ Looked(fs, t)[i].name = fs[i].name
              /\ Looked(fs, t)[i].rest = IF i = Len(fs) THEN fs[i].rest \ {t} ELSE fs[i].rest
         /\ \A n : \A z \in Pending(fs, n) :
              z \in Pending(Looked(fs, t), n) \/ (n = fs[Len(fs)].name /\ z = t)
<1> DEFINE k  == Len(fs)
           ft == [name |-> fs[k].name, rest |-> fs[k].rest \ {t}]
<1>1. k \in Nat \ {0} /\ DOMAIN fs = 1..k /\ \A i \in 1..k : fs[i] \in FrameOver(N)
  BY EmptySeq, LenProperties, ElementOfSeq
<1>2. ft \in FrameOver(N)
  BY <1>1 DEF FrameOver
<1>3. Looked(fs, t) = [fs EXCEPT ![k] = ft]
  <2>1. fs[k] \in [name : N, rest : SUBSET (N \cup {END})]
    BY <1>1 DEF FrameOver
  <2>2. \A r \in [name : N, rest : SUBSET (N \cup {END})] : \A s :
          [r EXCEPT !.rest = s] = [name |-> r.name, rest |-> s]
    OBVIOUS
  <2>3. [fs[k] EXCEPT !.rest = @ \ {t}] = ft
    BY <2>1, <2>2
  <2>. QED BY <1>1, <2>3 DEF Looked
<1>4. /\ Looked(fs, t) \in Seq(FrameOver(N)) /\ Len(Looked(fs, t)) = k
      /\ \A i \in 1..k : Looked(fs, t)[i] = IF i = k THEN ft ELSE fs[i]
  BY <1>1, <1>2, <1>3, ExceptSeq
<1>5. DOMAIN Looked(fs, t) = 1..k /\ Looked(fs, t) # <<>>
  BY <1>1, <1>4, LenProperties, EmptySeq
<1>6. ASSUME NEW n, NEW z \in Pending(fs, n), ~(n = fs[k].name /\ z = t)
      PROVE  z \in Pending(Looked(fs, t), n)
  <2>1. PICK i \in 1..k : fs[i].name = n /\ z \in fs[i].rest
    BY <1>1 DEF Pending
  <2>2. Looked(fs, t)[i].name = n /\ z \in Looked(fs, t)[i].rest
    BY <1>4, <1>6, <2>1
  <2>. QED BY <1>5, <2>2 DEF Pending
<1>7. /\ ft.name = fs[k].name /\ ft.rest = fs[k].rest \ {t}
  OBVIOUS
<1> HIDE DEF ft
<1>8. \A i \in 1..k : /\ Looked(fs, t)[i].name = fs[i].name
                     /\ Looked(fs, t)[i].rest = IF i = k THEN fs[i].rest \ {t} ELSE fs[i].rest
  BY <1>1, <1>4, <1>7
<1>. QED BY <1>4, <1>5, <1>6, <1>8

\* A frame f pushed on fs.
LEMMA PushedFrames ==
  ASSUME NEW F, NEW fs \in Seq(F), NEW f \in F
  PROVE  /\ Append(fs, f) \in Seq(F) /\ Append(fs, f) # <<>>
         /\ Len(Append(fs, f)) = Len(fs) + 1 /\ Append(fs, f)[Len(fs) + 1] = f
         /\ \A i \in 1..Len(fs) : Append(fs, f)[i] = fs[i]
         /\ \A n : Pending(fs, n) \subseteq Pending(Append(fs, f), n)
         /\ f.rest \subseteq Pending(Append(fs, f), f.name)
<1>1. /\ Append(fs, f) \in Seq(F) /\ Append(fs, f) # <<>>
      /\ Len(Append(fs, f)) = Len(fs) + 1 /\ Append(fs, f)[Len(fs) + 1] = f
      /\ \A i \in 1..Len(fs) : Append(fs, f)[i] = fs[i]
  BY AppendProperties
<1>2. Len(fs) \in Nat /\ DOMAIN fs = 1..Len(fs) /\ DOMAIN Append(fs, f) = 1..Len(fs) + 1
  BY <1>1, LenProperties
<1>. QED BY <1>1, <1>2 DEF Pending

\* A frame with nothing left taken from fs.
LEMMA PoppedFrames ==
  ASSUME NEW F, NEW fs \in Seq(F), fs # <<>>, fs[Len(fs)].rest = {}
  PROVE  LET gs == SubSeq(fs, 1, Len(fs) - 1)
         IN  /\ gs \in Seq(F) /\ Len(gs) = Len(fs) - 1
             /\ \A i \in 1..Len(fs) - 1 : gs[i] = fs[i]
             /\ \A n : Pending(fs, n) \subseteq Pending(gs, n)
<1> DEFINE gs == SubSeq(fs, 1, Len(fs) - 1)
<1>1. Len(fs) \in Nat \ {0} /\ DOMAIN fs = 1..Len(fs) /\ \A i \in 1..Len(fs) : fs[i] \in F
  BY EmptySeq, LenProperties, ElementOfSeq
<1>2. /\ gs \in Seq(F) /\ Len(gs) = Len(fs) - 1
      /\ \A i \in 1..Len(fs) - 1 : gs[i] = fs[i]
  BY <1>1, SubSeqProperties
<1> HIDE DEF gs
<1>3. DOMAIN gs = 1..Len(fs) - 1
  BY <1>1, <1>2, LenProperties
<1>4. ASSUME NEW n, NEW z \in Pending(fs, n) PROVE z \in Pending(gs, n)
  <2>1. PICK i \in 1..Len(fs) : fs[i].name = n /\ z \in fs[i].rest
    BY <1>1 DEF Pending
  <2>2. i \in 1..Len(fs) - 1
    BY <1>1, <2>1
  <2>. QED BY <1>2, <1>3, <2>1, <2>2 DEF Pending
<1>. QED BY <1>2, <1>3, <1>4 DEF gs

----------------------------------------------------------------------------
(* The inductive invariant, phase by phase. *)

\* The nodes that edges of n lead to, and what activations of n have left.
Out(n)  == Adjacent(d, n) \ {END}
Todo(n) == Pending(frames, n)

Framed ==
  /\ frames \in Seq(FrameOver(d.nodes))
  /\ \A i \in 1..Len(frames) : frames[i].rest \subseteq Adjacent(d, frames[i].name)

Unvisited   == reachable = {} /\ frames = <<>>
Unextended  == canEnd = {END}
Unconnected == indices = <<>> /\ low = <<>> /\ stack = <<>>

\* The definition has passed the first two tests, and has an adjacency.
Formed ==
  /\ SelectorsKnown(d) /\ OneTransitionEach(d)
  /\ adjacency = [n \in d.nodes |-> Adjacent(d, n)]

\* The nodes that visit has seen are reachable, and it has seen, or will look
\* at, what lies one edge further.
Visiting ==
  /\ Formed /\ Unextended /\ Unconnected /\ Framed
  /\ reachable \subseteq Reach(d, {d.start})
  /\ \A i \in 1..Len(frames) : frames[i].name \in reachable
  /\ \A n \in reachable : Out(n) \ Todo(n) \subseteq reachable
  /\ IF frames = <<>> THEN reachable = {} ELSE d.start \in reachable

\* The nodes that the fixpoint has can end.
Extending ==
  /\ Formed /\ AllReachable(d) /\ Unconnected /\ frames = <<>>
  /\ END \in canEnd
  /\ \A n \in canEnd \ {END} : n \in d.nodes /\ CanEnd(d, n)

----------------------------------------------------------------------------
(* Tarjan's algorithm. *)

On == ToSet(stack)

\* Members of components that were popped.
Popped == Indexed \ On

\* Nodes are numbered in the order they are met.
Numbered ==
  /\ Indexed \subseteq d.nodes /\ IsFiniteSet(Indexed)
  /\ indices \in [Indexed -> Nat] /\ low \in [Indexed -> Nat]
  /\ \A n \in Indexed : indices[n] < Cardinality(Indexed)
  /\ \A m, n \in Indexed : indices[m] = indices[n] => m = n

\* The stack has them in that order, and so have the frames.
Stacked ==
  /\ stack \in Seq(Indexed)
  /\ \A i, j \in 1..Len(stack) : i < j => indices[stack[i]] < indices[stack[j]]

Nested ==
  /\ Framed
  /\ \A i \in 1..Len(frames) : frames[i].name \in On
  /\ \A i, j \in 1..Len(frames) : i < j => indices[frames[i].name] < indices[frames[j].name]

\* Edges that were looked at lead to nodes with a number.
Followed == \A n \in Indexed : Out(n) \ Todo(n) \subseteq Indexed

\* A node in a frame reaches what is above it on the stack, and from each node
\* on the stack there is a way down to one that is in a frame.
Downward(x) ==
  \E i \in 1..Len(frames) :
    indices[frames[i].name] <= indices[x] /\ frames[i].name \in Reach(d, {x})

Connected ==
  /\ \A i \in 1..Len(frames) : \A x \in On :
       indices[frames[i].name] <= indices[x] => x \in Reach(d, {frames[i].name})
  /\ \A x \in On : Downward(x)

\* low of a node in a frame is the number of a node that it reaches.
LowReached ==
  \A i \in 1..Len(frames) :
    /\ low[frames[i].name] <= indices[frames[i].name]
    /\ \E y \in On : low[frames[i].name] = indices[y] /\ y \in Reach(d, {frames[i].name})

\* x is the node of frame i or was met, and left, from there.
Under(i, x) ==
  /\ indices[frames[i].name] <= indices[x]
  /\ i < Len(frames) => indices[x] < indices[frames[i + 1].name]

\* Nothing that was looked at from there is further down than its low.
LowLeast ==
  \A i \in 1..Len(frames) : \A x \in On :
    Under(i, x) => \A z \in (Out(x) \ Todo(x)) \cap On : low[frames[i].name] <= indices[z]

\* Nothing leads out of the components that were popped, and they were tested.
Settled ==
  \A m \in Popped : /\ Out(m) \subseteq Popped
                    /\ OnCycle(d, m) => d.maxVisits[m] > 1

Connecting ==
  /\ Formed /\ AllReachable(d) /\ AllCanEnd(d)
  /\ Numbered /\ Stacked /\ Nested
  /\ Followed /\ Connected /\ LowReached /\ LowLeast /\ Settled

Phases == Complaints \cup {"selectors", "transitions", "visit", "can_end", "cycles", "accepted"}

IInv ==
  /\ d \in Definition
  /\ phase \in Phases
  /\ phase = "selectors" => Unvisited /\ Unextended /\ Unconnected
  /\ phase = "transitions" => Unvisited /\ Unextended /\ Unconnected /\ SelectorsKnown(d)
  /\ phase = "visit" => Visiting
  /\ phase = "can_end" => Extending
  /\ phase = "cycles" => Connecting
  /\ VerdictIsExact

----------------------------------------------------------------------------
(* The tests before Tarjan's algorithm. *)

\* What the frames are made of.
LEMMA TopFacts ==
  ASSUME Framed, frames # <<>>
  PROVE  /\ Len(frames) \in Nat \ {0} /\ DOMAIN frames = 1..Len(frames)
         /\ Top \in FrameOver(d.nodes) /\ Top.name \in d.nodes /\ Top.rest \subseteq Adjacent(d, Top.name)
<1>1. Len(frames) \in Nat \ {0} /\ DOMAIN frames = 1..Len(frames)
  BY EmptySeq, LenProperties DEF Framed
<1>2. Top \in FrameOver(d.nodes)
  BY <1>1, ElementOfSeq DEF Framed, Top
<1>. QED BY <1>1, <1>2 DEF Framed, Top, FrameOver

\* A new activation has all edges of its node before it.
LEMMA FrameFacts ==
  ASSUME d \in Definition, Formed, NEW n \in d.nodes
  PROVE  Frame(n) \in FrameOver(d.nodes) /\ Frame(n).name = n /\ Frame(n).rest = Adjacent(d, n)
<1>1. adjacency[n] = Adjacent(d, n)
  BY DEF Formed
<1>2. Adjacent(d, n) \subseteq d.nodes \cup {END}
  BY DefinitionAssumption, EdgesSpan
<1>. QED BY <1>1, <1>2 DEF Frame, FrameOver

\* The same, of the frames there are.
LEMMA FramesLooked ==
  ASSUME Framed, frames # <<>>, NEW t
  PROVE  LET fs == Looked(frames, t)
         IN  /\ fs \in Seq(FrameOver(d.nodes)) /\ fs # <<>> /\ Len(fs) = Len(frames)
             /\ \A i \in 1..Len(frames) :
                  /\ fs[i].name = frames[i].name
                  /\ fs[i].rest \subseteq frames[i].rest
             /\ \A m : \A z \in Pending(frames, m) :
                  z \in Pending(fs, m) \/ (m = Top.name /\ z = t)
<1>1. frames \in Seq(FrameOver(d.nodes))
  BY DEF Framed
<1> DEFINE fs == Looked(frames, t)
<1>2. fs \in Seq(FrameOver(d.nodes)) /\ fs # <<>> /\ Len(fs) = Len(frames)
  BY <1>1, LookedFrames
<1>3. \A i \in 1..Len(frames) :
        /\ fs[i].name = frames[i].name
        /\ fs[i].rest = IF i = Len(frames) THEN frames[i].rest \ {t} ELSE frames[i].rest
  BY <1>1, LookedFrames
<1>4. \A m : \A z \in Pending(frames, m) :
        z \in Pending(fs, m) \/ (m = frames[Len(frames)].name /\ z = t)
  BY <1>1, LookedFrames
<1> HIDE DEF fs
<1>5. \A i \in 1..Len(frames) : fs[i].rest \subseteq frames[i].rest
  BY <1>3
<1>. QED BY <1>2, <1>3, <1>4, <1>5 DEF fs, Top

LEMMA FramesPopped ==
  ASSUME Framed, frames # <<>>, Top.rest = {}
  PROVE  /\ Pop \in Seq(FrameOver(d.nodes)) /\ Len(Pop) = Len(frames) - 1
         /\ Pop = <<>> <=> Len(frames) = 1
         /\ \A i \in 1..Len(frames) - 1 : Pop[i] = frames[i]
         /\ \A n : Pending(frames, n) \subseteq Pending(Pop, n)
<1>1. frames \in Seq(FrameOver(d.nodes)) /\ frames[Len(frames)].rest = {}
  BY DEF Framed, Top
<1>3. Pop \in Seq(FrameOver(d.nodes)) /\ Len(Pop) = Len(frames) - 1
  BY <1>1, PoppedFrames DEF Pop
<1>6. Pop = <<>> <=> Len(frames) = 1
  <2>1. Len(frames) \in Nat /\ (Len(Pop) = 0 <=> Pop = <<>>)
    BY <1>1, <1>3, EmptySeq, LenProperties
  <2>. QED BY <1>3, <2>1
<1>4. \A i \in 1..Len(frames) - 1 : Pop[i] = frames[i]
  BY <1>1, PoppedFrames DEF Pop
<1>5. \A n : Pending(frames, n) \subseteq Pending(Pop, n)
  BY <1>1, PoppedFrames DEF Pop
<1>. QED BY <1>3, <1>4, <1>5, <1>6

LEMMA InvInit == Init => IInv
BY DEF Init, IInv, Unvisited, Unextended, Unconnected, Phases, VerdictIsExact, Complaints

LEMMA SelectorsStep == IInv /\ CheckSelectors => IInv'
BY DEF IInv, CheckSelectors, Unvisited, Unextended, Unconnected, Phases, VerdictIsExact, Complaints

LEMMA TransitionsStep == IInv /\ CheckTransitions => IInv'
<1> SUFFICES ASSUME IInv, CheckTransitions PROVE IInv'
  OBVIOUS
<1> DEFINE sources == {d.transitions[i].from : i \in DOMAIN d.transitions}
<1>1. /\ phase = "transitions" /\ d' = d /\ d \in Definition
      /\ Unvisited /\ Unextended /\ Unconnected /\ SelectorsKnown(d)
      /\ Unvisited' /\ Unextended' /\ Unconnected'
  BY DEF IInv, CheckTransitions, Unvisited, Unextended, Unconnected
<1>2. LocalShape(d) /\ d.transitions \in Seq(ToSet(d.transitions))
  BY <1>1, DefinitionAssumption
<1>3. (sources = d.nodes /\ Cardinality(sources) = Len(d.transitions)) <=> OneTransitionEach(d)
  BY <1>2, TransitionsCounted
<1>4. phase' = IF Cardinality(sources) # Len(d.transitions) THEN "ambiguous"
               ELSE IF sources # d.nodes THEN "missing" ELSE "visit"
  BY DEF CheckTransitions
<1>5. CASE phase' # "visit"
  <2>1. phase' \in {"ambiguous", "missing"} /\ ~OneTransitionEach(d)
    BY <1>3, <1>4, <1>5
  <2>. QED BY <1>1, <2>1 DEF IInv, Phases, VerdictIsExact, Complaints
<1>6. CASE phase' = "visit"
  <2>1. OneTransitionEach(d)
    BY <1>3, <1>4, <1>6
  <2>2. adjacency' = [n \in d.nodes |-> Adjacent(d, n)]
    BY <1>6 DEF CheckTransitions
  <2>3. Formed'
    BY <1>1, <2>1, <2>2 DEF Formed
  <2>4. frames' = <<>> /\ reachable' = {}
    BY <1>1 DEF Unvisited
  <2>5. Len(frames') = 0 /\ frames' \in Seq(FrameOver(d'.nodes))
    BY <2>4, EmptySeq
  <2>6. Visiting'
    BY <1>1, <2>3, <2>4, <2>5 DEF Visiting, Framed
  <2>. QED BY <1>1, <1>6, <2>6 DEF IInv, Phases, VerdictIsExact, Complaints
<1>. QED BY <1>5, <1>6

LEMMA VisitStartStep == IInv /\ VisitStart => IInv'
<1> SUFFICES ASSUME IInv, VisitStart PROVE IInv'
  OBVIOUS
<1>1. /\ phase = "visit" /\ phase' = "visit" /\ d \in Definition /\ d' = d /\ Visiting
      /\ frames = <<>> /\ frames' = <<Frame(d.start)>> /\ reachable' = reachable \cup {d.start}
      /\ UNCHANGED <<adjacency, canEnd, indices, low, stack>>
  BY DEF IInv, VisitStart, Visit
<1>2. LocalShape(d) /\ d.start \in d.nodes
  BY <1>1, DefinitionAssumption DEF LocalShape
<1>3. reachable = {} /\ d.start # END
  BY <1>1 DEF Visiting, VisitStart, Seen
<1>4. /\ Frame(d.start) \in FrameOver(d.nodes) /\ Frame(d.start).name = d.start
      /\ Frame(d.start).rest = Adjacent(d, d.start)
  BY <1>1, <1>2, FrameFacts DEF Visiting
<1>5. Framed'
  BY <1>1, <1>4 DEF Framed, FrameOver
<1>6. Out(d.start)' \subseteq Todo(d.start)'
  BY <1>1, <1>4 DEF Out, Todo, Pending
<1>7. reachable' = {d.start} /\ reachable' \subseteq Reach(d, {d.start})
  BY <1>1, <1>2, <1>3, ReachStart
<1>8. /\ Formed' /\ Unextended' /\ Unconnected'
      /\ \A i \in 1..Len(frames') : frames'[i].name \in reachable'
  BY <1>1, <1>4, <1>7 DEF Visiting, Formed, Unextended, Unconnected
<1>9. Visiting'
  BY <1>1, <1>5, <1>6, <1>7, <1>8 DEF Visiting
<1>. QED BY <1>1, <1>9 DEF IInv, Phases, VerdictIsExact, Complaints

\* Nothing is reachable from a start called END, not even itself.
LEMMA VisitNothingStep == IInv /\ VisitNothing => IInv'
<1> SUFFICES ASSUME IInv, VisitNothing PROVE IInv'
  OBVIOUS
<1>1. /\ phase' = "unreachable" /\ d \in Definition /\ d' = d /\ Visiting
      /\ frames = <<>> /\ Seen(d.start)
  BY DEF IInv, VisitNothing
<1>2. d.start = END /\ d.start \in d.nodes
  BY <1>1, DefinitionAssumption DEF Visiting, Seen, LocalShape
<1>3. Reach(d, {d.start}) \subseteq {}
  <2>1. {} \in SUBSET d.nodes /\ {d.start} \ {END} \subseteq {} /\ ClosedUnderEdges(d, {})
    BY <1>2 DEF ClosedUnderEdges
  <2>. QED BY <2>1, ReachIsLeast
<1>4. OneTransitionEach(d) /\ ~AllReachable(d)
  BY <1>1, <1>2, <1>3 DEF Visiting, Formed, AllReachable
<1>. QED BY <1>1, <1>4 DEF IInv, Phases, VerdictIsExact, Complaints

LEMMA VisitTargetStep == ASSUME NEW t PROVE IInv /\ VisitTarget(t) => IInv'
<1> SUFFICES ASSUME IInv, VisitTarget(t) PROVE IInv'
  OBVIOUS
<1> DEFINE n  == Top.name
           fs == Looked(frames, t)
<1>1. /\ phase = "visit" /\ phase' = "visit" /\ d \in Definition /\ d' = d /\ Visiting
      /\ frames # <<>> /\ t \in Top.rest
      /\ UNCHANGED <<adjacency, canEnd, indices, low, stack>>
      /\ IF Seen(t) THEN frames' = fs /\ reachable' = reachable
         ELSE frames' = Append(fs, Frame(t)) /\ reachable' = reachable \cup {t}
  BY DEF IInv, VisitTarget, Visit
<1>2. /\ LocalShape(d) /\ Framed /\ Formed
      /\ Len(frames) \in Nat \ {0} /\ n \in d.nodes /\ t \in Adjacent(d, n)
      /\ n \in reachable /\ reachable \subseteq Reach(d, {d.start}) /\ d.start \in reachable
  <2>1. /\ LocalShape(d) /\ Framed /\ Formed
        /\ reachable \subseteq Reach(d, {d.start}) /\ d.start \in reachable
    BY <1>1, DefinitionAssumption DEF Visiting
  <2>2. Len(frames) \in Nat \ {0} /\ n \in d.nodes /\ t \in Adjacent(d, n)
    BY <1>1, <2>1, TopFacts
  <2>3. n \in reachable
    BY <1>1, <2>2 DEF Visiting, Top
  <2>. QED BY <2>1, <2>2, <2>3
<1>3. /\ fs \in Seq(FrameOver(d.nodes)) /\ fs # <<>> /\ Len(fs) = Len(frames)
      /\ \A i \in 1..Len(frames) : /\ fs[i].name = frames[i].name
                                   /\ fs[i].rest \subseteq frames[i].rest
      /\ \A m : \A z \in Pending(frames, m) : z \in Pending(fs, m) \/ (m = n /\ z = t)
  BY <1>1, <1>2, FramesLooked
<1> HIDE DEF n, fs
<1>4. \A i \in 1..Len(fs) : fs[i].name \in reachable /\ fs[i].rest \subseteq Adjacent(d, fs[i].name)
  BY <1>1, <1>2, <1>3 DEF Visiting, Framed
<1>5. \A m \in reachable : Out(m) \ Pending(fs, m) \subseteq reachable \cup {t}
  BY <1>1, <1>3 DEF Visiting, Todo
<1>6. Formed' /\ Unextended' /\ Unconnected' /\ FrameOver(d'.nodes) = FrameOver(d.nodes) /\ \A m : Out(m)' = Out(m)
  BY <1>1 DEF Visiting, Formed, Unextended, Unconnected, Out
<1>7. CASE Seen(t)
  <2>1. frames' = fs /\ reachable' = reachable
    BY <1>1, <1>7
  <2>2. Framed'
    BY <1>3, <1>4, <1>6, <1>1, <2>1 DEF Framed
  <2>3. \A m \in reachable : Out(m) \ Pending(fs, m) \subseteq reachable
    BY <1>5, <1>7 DEF Out, Seen
  <2>4. Visiting'
    BY <1>1, <1>2, <1>3, <1>4, <1>6, <2>1, <2>2, <2>3 DEF Visiting, Todo
  <2>. QED BY <1>1, <2>4 DEF IInv, Phases, VerdictIsExact, Complaints
<1>8. CASE ~Seen(t)
  <2>1. frames' = Append(fs, Frame(t)) /\ reachable' = reachable \cup {t} /\ t # END
    BY <1>1, <1>8 DEF Seen
  <2>2. t \in Reach(d, {d.start})
    BY <1>2, <2>1, ReachStep
  <2>3. t \in d.nodes
    BY <1>2, <2>2, ReachIsClosed
  <2>4. Frame(t) \in FrameOver(d.nodes) /\ Frame(t).name = t /\ Frame(t).rest = Adjacent(d, t)
    BY <1>1, <1>2, <2>3, FrameFacts
  <2>5. /\ frames' \in Seq(FrameOver(d.nodes)) /\ frames' # <<>>
        /\ Len(frames') = Len(fs) + 1 /\ frames'[Len(fs) + 1] = Frame(t)
        /\ \A i \in 1..Len(fs) : frames'[i] = fs[i]
        /\ \A m : Pending(fs, m) \subseteq Pending(frames', m)
        /\ Adjacent(d, t) \subseteq Pending(frames', t)
    BY <1>3, <2>1, <2>4, PushedFrames
  <2>6. \A i \in 1..Len(frames') : i \in 1..Len(fs) \/ i = Len(fs) + 1
    BY <1>2, <1>3, <2>5
  <2>7. \A i \in 1..Len(frames') :
          frames'[i].name \in reachable' /\ frames'[i].rest \subseteq Adjacent(d, frames'[i].name)
    BY <1>4, <2>1, <2>4, <2>5, <2>6
  <2>8. Framed'
    BY <1>1, <1>6, <2>5, <2>7 DEF Framed
  <2>9. \A m \in reachable' : Out(m) \ Pending(frames', m) \subseteq reachable'
    BY <1>5, <2>1, <2>5 DEF Out
  <2>10. Visiting'
    BY <1>1, <1>2, <1>6, <2>1, <2>2, <2>5, <2>7, <2>8, <2>9 DEF Visiting, Todo
  <2>. QED BY <1>1, <2>10 DEF IInv, Phases, VerdictIsExact, Complaints
<1>. QED BY <1>7, <1>8

LEMMA VisitReturnStep == IInv /\ VisitReturn => IInv'
<1> SUFFICES ASSUME IInv, VisitReturn PROVE IInv'
  OBVIOUS
<1>1. /\ phase = "visit" /\ d \in Definition /\ d' = d /\ Visiting
      /\ frames # <<>> /\ Top.rest = {} /\ frames' = Pop
      /\ UNCHANGED <<adjacency, reachable, canEnd, indices, low, stack>>
      /\ phase' = IF Pop # <<>> THEN phase
                  ELSE IF d.nodes # reachable THEN "unreachable" ELSE "can_end"
  BY DEF IInv, VisitReturn
<1>2. /\ LocalShape(d) /\ Framed /\ Formed /\ Len(frames) \in Nat \ {0}
      /\ reachable \subseteq Reach(d, {d.start}) /\ d.start \in reachable
  BY <1>1, DefinitionAssumption, TopFacts DEF Visiting
<1>3. /\ Pop \in Seq(FrameOver(d.nodes)) /\ Len(Pop) = Len(frames) - 1
      /\ \A i \in 1..Len(frames) - 1 : Pop[i] = frames[i]
      /\ \A n : Pending(frames, n) \subseteq Pending(Pop, n)
  BY <1>1, <1>2, FramesPopped
<1>4. \A n \in reachable : Out(n) \ Pending(frames', n) \subseteq reachable
  BY <1>1, <1>3 DEF Visiting, Todo
<1>5. Formed' /\ Unextended' /\ Unconnected' /\ FrameOver(d'.nodes) = FrameOver(d.nodes) /\ \A n : Out(n)' = Out(n)
  BY <1>1 DEF Visiting, Formed, Unextended, Unconnected, Out
<1>6. CASE Pop # <<>>
  <2>1. 1..Len(Pop) \subseteq 1..Len(frames)
    BY <1>2, <1>3
  <2>2. Framed'
    BY <1>1, <1>2, <1>3, <1>5, <2>1 DEF Framed
  <2>3. \A i \in 1..Len(Pop) : Pop[i].name \in reachable
    BY <1>1, <1>3, <2>1 DEF Visiting
  <2>4. Visiting'
    BY <1>1, <1>2, <1>4, <1>5, <1>6, <2>2, <2>3 DEF Visiting, Todo
  <2>. QED BY <1>1, <1>6, <2>4 DEF IInv, Phases, VerdictIsExact, Complaints
<1>7. CASE Pop = <<>>
  <2>1. \A n : Pending(frames', n) = {}
    BY <1>1, <1>7 DEF Pending
  <2>2. ClosedUnderEdges(d, reachable) /\ reachable \in SUBSET d.nodes
    BY <1>2, <1>4, <2>1, ReachIsClosed DEF ClosedUnderEdges, Out
  <2>3. reachable = Reach(d, {d.start})
    BY <1>2, <2>2, ReachIsLeast
  <2>4. d.nodes = reachable <=> AllReachable(d)
    BY <2>2, <2>3 DEF AllReachable
  <2>5. CASE d.nodes # reachable
    BY <1>1, <1>2, <1>7, <2>4, <2>5 DEF IInv, Formed, Phases, VerdictIsExact, Complaints
  <2>6. CASE d.nodes = reachable
    <3>1. Extending'
      BY <1>1, <1>5, <1>7, <2>4, <2>6 DEF Extending, Visiting, Unextended
    <3>. QED BY <1>1, <1>7, <2>6, <3>1 DEF IInv, Phases, VerdictIsExact, Complaints
  <2>. QED BY <2>5, <2>6
<1>. QED BY <1>6, <1>7

LEMMA GrowStep == IInv /\ GrowCanEnd => IInv'
<1> SUFFICES ASSUME IInv, GrowCanEnd PROVE IInv'
  OBVIOUS
<1>1. /\ phase = "can_end" /\ d \in Definition /\ d' = d /\ Extending /\ canEnd' = Grown
      /\ UNCHANGED <<adjacency, frames, reachable, indices, low, stack>>
      /\ phase' = IF Changed THEN phase
                  ELSE IF d.nodes \ canEnd # {} THEN "stuck" ELSE "cycles"
  BY DEF IInv, GrowCanEnd
<1>2. /\ LocalShape(d) /\ Formed /\ AllReachable(d) /\ Unconnected /\ frames = <<>>
      /\ END \notin d.nodes /\ END \in canEnd
      /\ \A n \in canEnd \ {END} : n \in d.nodes /\ CanEnd(d, n)
  BY <1>1, DefinitionAssumption, EndIsNoNode DEF Extending
<1>3. \A n \in d.nodes : adjacency[n] = Adjacent(d, n) /\ Adjacent(d, n) \subseteq d.nodes \cup {END}
  BY <1>2, EdgesSpan DEF Formed
<1>4. CASE Changed
  <2>1. ASSUME NEW n \in d.nodes, adjacency[n] \cap canEnd # {} PROVE CanEnd(d, n)
    <3>1. CASE END \in adjacency[n]
      BY <1>2, <1>3, <3>1, ReachStart DEF CanEnd
    <3>2. CASE END \notin adjacency[n]
      <4>1. PICK m \in Adjacent(d, n) \cap canEnd : m # END
        BY <1>3, <2>1, <3>2
      <4>2. PICK x \in Reach(d, {m}) : END \in Adjacent(d, x)
        BY <1>2, <4>1 DEF CanEnd
      <4>3. m \in Reach(d, {n})
        BY <1>2, <4>1, ReachStart, ReachStep
      <4>4. x \in Reach(d, {n})
        BY <1>2, <4>2, <4>3, ReachReaches
      <4>. QED BY <4>2, <4>4 DEF CanEnd
    <3>. QED BY <3>1, <3>2
  <2>2. END \in Grown /\ \A n \in Grown \ {END} : n \in d.nodes /\ CanEnd(d, n)
    BY <1>2, <2>1 DEF Grown
  <2>3. Extending'
    BY <1>1, <1>2, <2>2 DEF Extending, Formed, Unconnected
  <2>. QED BY <1>1, <1>4, <2>3 DEF IInv, Phases, VerdictIsExact, Complaints
<1>5. CASE ~Changed /\ d.nodes \ canEnd # {}
  <2> DEFINE T == d.nodes \ canEnd
  <2>1. \A x \in T : adjacency[x] \cap canEnd = {}
    BY <1>5 DEF Changed, Grown
  <2>2. \A x \in T : END \notin Adjacent(d, x)
    BY <1>2, <1>3, <2>1
  <2>3. ClosedUnderEdges(d, T)
    BY <1>3, <2>1 DEF ClosedUnderEdges
  <2>4. PICK n \in T : TRUE
    BY <1>5
  <2>5. Reach(d, {n}) \subseteq T
    BY <2>3, <2>4, ReachIsLeast
  <2>6. ~CanEnd(d, n)
    BY <2>2, <2>5 DEF CanEnd
  <2>7. ~AllCanEnd(d)
    BY <2>4, <2>6 DEF AllCanEnd
  <2>. QED BY <1>1, <1>2, <1>5, <2>7 DEF IInv, Phases, VerdictIsExact, Complaints
<1>6. CASE ~Changed /\ d.nodes \ canEnd = {}
  <2>1. AllCanEnd(d)
    BY <1>2, <1>6 DEF AllCanEnd
  <2>2. frames' = <<>> /\ indices' = <<>> /\ low' = <<>> /\ stack' = <<>>
    BY <1>1, <1>2 DEF Unconnected
  <2>3. /\ Indexed' = {} /\ On' = {} /\ Len(frames') = 0 /\ Len(stack') = 0
        /\ frames' \in Seq(FrameOver(d'.nodes)) /\ stack' \in Seq(Indexed')
    BY <2>2, EmptySeq DEF Indexed, On, ToSet
  <2>4. Numbered'
    BY <2>2, <2>3, FS_EmptySet DEF Numbered, Indexed
  <2>5. Stacked' /\ Nested'
    BY <2>3 DEF Stacked, Nested, Framed
  <2>6. Followed' /\ Connected' /\ LowReached' /\ LowLeast' /\ Settled'
    BY <2>3 DEF Followed, Connected, LowReached, LowLeast, Settled, Popped
  <2>7. Formed'
    BY <1>1, <1>2 DEF Formed
  <2>8. Connecting'
    BY <1>1, <1>2, <2>1, <2>4, <2>5, <2>6, <2>7 DEF Connecting
  <2>. QED BY <1>1, <1>6, <2>8 DEF IInv, Phases, VerdictIsExact, Complaints
<1>. QED BY <1>4, <1>5, <1>6

----------------------------------------------------------------------------
(* Tarjan's algorithm, up to the return of an activation. *)

LEMMA SetOfSeq ==
  ASSUME NEW S, NEW s \in Seq(S)
  PROVE  ToSet(s) = {s[i] : i \in 1..Len(s)} /\ ToSet(s) \subseteq S
<1>1. DOMAIN s = 1..Len(s) /\ \A i \in 1..Len(s) : s[i] \in S
  BY LenProperties, ElementOfSeq
<1>. QED BY <1>1 DEF ToSet

LEMMA SetOfAppend ==
  ASSUME NEW S, NEW s \in Seq(S), NEW x \in S
  PROVE  ToSet(Append(s, x)) = ToSet(s) \cup {x}
<1>1. /\ Append(s, x) \in Seq(S) /\ Len(Append(s, x)) = Len(s) + 1 /\ Len(s) \in Nat
      /\ \A i \in 1..Len(s) : Append(s, x)[i] = s[i]
      /\ Append(s, x)[Len(s) + 1] = x
  BY AppendProperties, LenProperties
<1>2. ToSet(Append(s, x)) = {Append(s, x)[i] : i \in 1..Len(s) + 1}
  BY <1>1, SetOfSeq
<1>3. ToSet(s) = {s[i] : i \in 1..Len(s)}
  BY SetOfSeq
<1>4. \A i \in 1..Len(s) + 1 : i \in 1..Len(s) \/ i = Len(s) + 1
  BY <1>1
<1>. QED BY <1>1, <1>2, <1>3, <1>4

\* What the tests so far say, in the state at hand.
LEMMA ConnectFacts ==
  ASSUME d \in Definition, Connecting
  PROVE  /\ LocalShape(d) /\ END \notin d.nodes /\ Formed /\ Framed
         /\ Indexed \subseteq d.nodes /\ On \subseteq Indexed
         /\ Len(frames) \in Nat /\ \A i \in 1..Len(frames) : frames[i].name \in On
         /\ \A n \in Indexed : indices[n] \in Nat /\ low[n] \in Nat
<1>1. LocalShape(d) /\ END \notin d.nodes
  BY DefinitionAssumption, EndIsNoNode DEF Connecting
<1>2. On \subseteq Indexed
  BY SetOfSeq DEF Connecting, Stacked, On
<1>. QED BY <1>1, <1>2, LenProperties DEF Connecting, Nested, Framed, Numbered

\* strongconnect is entered, from the loop over all nodes or from a caller.
LEMMA EnterKeeps ==
  ASSUME d \in Definition, Connecting, NEW t \in d.nodes \ Indexed, Connect(t),
         NEW fs, frames' = Append(fs, Frame(t)),
         \/ frames = <<>> /\ fs = <<>>
         \/ frames # <<>> /\ t \in Top.rest /\ fs = Looked(frames, t)
  PROVE  Connecting'
<1> DEFINE c == Cardinality(Indexed)
           k == Len(fs)
<1>1. /\ LocalShape(d) /\ END \notin d.nodes /\ Formed /\ Framed
      /\ Indexed \subseteq d.nodes /\ On \subseteq Indexed
      /\ \A i \in 1..Len(frames) : frames[i].name \in On
      /\ \A n \in Indexed : indices[n] \in Nat /\ low[n] \in Nat
  BY ConnectFacts
<1>2. /\ d' = d /\ UNCHANGED <<adjacency, phase>> /\ stack' = Append(stack, t)
      /\ indices' = With(indices, t, c) /\ low' = With(low, t, c)
      /\ \A n : Out(n)' = Out(n)
  BY DEF Connect, Out
<1>3. /\ fs \in Seq(FrameOver(d.nodes)) /\ k \in Nat /\ k = Len(frames)
      /\ \A i \in 1..k : fs[i].name = frames[i].name
      /\ \A i \in 1..k : fs[i].rest \subseteq Adjacent(d, fs[i].name)
      /\ \A m : \A z \in Todo(m) :
           z \in Pending(fs, m) \/ (frames # <<>> /\ m = Top.name /\ z = t)
  <2>1. CASE frames = <<>>
    BY <2>1, EmptySeq DEF Pending, Todo
  <2>2. CASE frames # <<>>
    <3>1. /\ fs \in Seq(FrameOver(d.nodes)) /\ k = Len(frames)
          /\ \A i \in 1..k : fs[i].name = frames[i].name /\ fs[i].rest \subseteq frames[i].rest
          /\ \A m : \A z \in Pending(frames, m) : z \in Pending(fs, m) \/ (m = Top.name /\ z = t)
      BY <1>1, <2>2, FramesLooked
    <3>. QED BY <1>1, <2>2, <3>1, LenProperties DEF Framed, Todo
  <2>. QED BY <2>1, <2>2
<1>4. frames # <<>> => k \in 1..k /\ Top = frames[k] /\ t \in Out(Top.name)
  BY <1>1, <1>3, TopFacts DEF Top, Out
<1> HIDE DEF k
<1>5. c \in Nat /\ \A n \in Indexed : indices[n] < c
  BY FS_CardinalityType DEF Connecting, Numbered
<1> HIDE DEF c
<1>6. /\ Indexed' = Indexed \cup {t} /\ indices'[t] = c /\ low'[t] = c
      /\ \A n \in Indexed : indices'[n] = indices[n] /\ low'[n] = low[n]
  BY <1>2 DEF With, Indexed, Connecting, Numbered
<1>7. Numbered'
  <2>1. IsFiniteSet(Indexed') /\ Cardinality(Indexed') = c + 1
    BY <1>6, FS_AddElement DEF Connecting, Numbered, c
  <2>2. indices' \in [Indexed' -> Nat] /\ low' \in [Indexed' -> Nat]
    BY <1>1, <1>2, <1>5 DEF With, Indexed, Connecting, Numbered
  <2>3. \A n \in Indexed' : indices'[n] < c + 1
    BY <1>1, <1>5, <1>6
  <2>4. \A m, n \in Indexed' : indices'[m] = indices'[n] => m = n
    BY <1>1, <1>5, <1>6 DEF Connecting, Numbered
  <2>. QED BY <1>1, <1>2, <1>6, <2>1, <2>2, <2>3, <2>4, ZenonT(30) DEF Numbered
<1>8. On' = On \cup {t} /\ Stacked'
  <2>1. stack \in Seq(Indexed') /\ t \in Indexed' /\ stack \in Seq(Indexed)
    BY <1>6, SeqMonotonic DEF Connecting, Stacked
  <2>2. /\ stack' \in Seq(Indexed') /\ Len(stack') = Len(stack) + 1 /\ Len(stack) \in Nat
        /\ \A i \in 1..Len(stack) : stack'[i] = stack[i] /\ stack[i] \in Indexed
        /\ stack'[Len(stack) + 1] = t
    BY <1>2, <2>1, AppendProperties, LenProperties, ElementOfSeq
  <2>3. ASSUME NEW i \in 1..Len(stack'), NEW j \in 1..Len(stack'), i < j
        PROVE  indices'[stack'[i]] < indices'[stack'[j]]
    <3>1. i \in 1..Len(stack) /\ (j \in 1..Len(stack) \/ j = Len(stack) + 1)
      BY <2>2, <2>3
    <3>. QED BY <1>5, <1>6, <2>2, <2>3, <3>1, SMTT(20) DEF Connecting, Stacked
  <2>4. On' = On \cup {t}
    BY <1>2, <2>1, SetOfAppend DEF On
  <2>. QED BY <2>2, <2>3, <2>4 DEF Stacked
<1>9. Frame(t) \in FrameOver(d.nodes) /\ Frame(t).name = t /\ Frame(t).rest = Adjacent(d, t)
  BY <1>1, FrameFacts
<1>10. /\ frames' \in Seq(FrameOver(d.nodes)) /\ Len(frames') = k + 1
       /\ frames'[k + 1] = Frame(t)
       /\ \A i \in 1..k : frames'[i] = fs[i] /\ frames'[i].name = frames[i].name
       /\ \A i \in 1..k + 1 : i \in 1..k \/ i = k + 1
       /\ \A m : Pending(fs, m) \subseteq Todo(m)'
       /\ Adjacent(d, t) \subseteq Todo(t)'
  BY <1>3, <1>9, PushedFrames DEF Todo, k
<1>11. Nested'
  <2>1. Framed'
    BY <1>2, <1>3, <1>9, <1>10 DEF Framed
  <2>2. \A i \in 1..k + 1 : frames'[i].name \in On'
    BY <1>1, <1>3, <1>8, <1>9, <1>10
  <2>3. ASSUME NEW i \in 1..k + 1, NEW j \in 1..k + 1, i < j
        PROVE  indices'[frames'[i].name] < indices'[frames'[j].name]
    <3>1. i \in 1..k /\ frames[i].name \in Indexed
      BY <1>1, <1>3, <2>3
    <3>2. CASE j \in 1..k
      <4>1. frames[j].name \in Indexed /\ indices[frames[i].name] < indices[frames[j].name]
        BY <1>1, <1>3, <2>3, <3>1, <3>2 DEF Connecting, Nested
      <4>. QED BY <1>6, <1>10, <3>1, <3>2, <4>1
    <3>3. CASE j = k + 1
      BY <1>5, <1>6, <1>9, <1>10, <3>1, <3>3
    <3>. QED BY <1>10, <3>2, <3>3
  <2>. QED BY <1>10, <2>1, <2>2, <2>3 DEF Nested
<1>12. \A m : \A z \in Out(m) \ Todo(m)' :
         z \in Out(m) \ Todo(m) \/ (frames # <<>> /\ m = Top.name /\ z = t)
  BY <1>3, <1>10
<1>13. Out(t) \ Todo(t)' = {}
  BY <1>10 DEF Out
<1>14. Followed'
  BY <1>2, <1>6, <1>12, <1>13 DEF Connecting, Followed
<1>15. Connected'
  <2>1. ASSUME NEW i \in 1..k + 1, NEW x \in On', indices'[frames'[i].name] <= indices'[x]
        PROVE  x \in Reach(d, {frames'[i].name})
    <3>1. CASE i = k + 1
      <4>1. frames'[i].name = t
        BY <1>9, <1>10, <3>1
      <4>2. x = t
        BY <1>1, <1>5, <1>6, <1>8, <2>1, <4>1
      <4>. QED BY <1>1, <4>1, <4>2, ReachStart
    <3>2. CASE i \in 1..k /\ x \in On
      <4>1. frames'[i].name = frames[i].name /\ frames[i].name \in Indexed /\ x \in Indexed
        BY <1>1, <1>3, <1>10, <3>2
      <4>. QED BY <1>3, <1>6, <2>1, <3>2, <4>1 DEF Connecting, Connected
    <3>3. CASE i \in 1..k /\ x = t
      <4>1. /\ frames'[i].name = frames[i].name /\ frames # <<>> /\ k \in 1..k
            /\ i = k \/ i < k
        BY <1>3, <1>10, <3>3
      <4>2. Top.name \in On /\ indices[frames[i].name] <= indices[Top.name]
        BY <1>1, <1>3, <1>4, <3>3, <4>1 DEF Connecting, Nested
      <4>3. Top.name \in Reach(d, {frames[i].name})
        BY <1>3, <3>3, <4>2 DEF Connecting, Connected
      <4>. QED BY <1>1, <1>4, <3>3, <4>1, <4>3, ReachStep DEF Out
    <3>. QED BY <1>8, <1>10, <3>1, <3>2, <3>3
  <2>2. ASSUME NEW x \in On' PROVE Downward(x)'
    <3>1. CASE x = t
      <4>1. k + 1 \in 1..k + 1 /\ frames'[k + 1].name = t /\ t \in Reach(d, {t}) /\ indices'[t] \in Nat
        BY <1>1, <1>3, <1>5, <1>6, <1>9, <1>10, ReachStart
      <4>. QED BY <1>2, <1>10, <3>1, <4>1 DEF Downward
    <3>2. CASE x \in On
      <4>1. PICK i \in 1..k : /\ indices[frames[i].name] <= indices[x]
                              /\ frames[i].name \in Reach(d, {x})
        BY <1>3, <3>2 DEF Connecting, Connected, Downward
      <4>2. i \in 1..k + 1 /\ frames'[i].name = frames[i].name
        BY <1>3, <1>10
      <4>3. indices'[frames[i].name] <= indices'[x]
        BY <1>1, <1>3, <1>6, <3>2, <4>1
      <4>. QED BY <1>2, <1>10, <4>1, <4>2, <4>3 DEF Downward
    <3>. QED BY <1>8, <3>1, <3>2
  <2>. QED BY <1>2, <1>10, <2>1, <2>2 DEF Connected
<1>16. LowReached'
  <2>1. ASSUME NEW i \in 1..k + 1
        PROVE  /\ low'[frames'[i].name] <= indices'[frames'[i].name]
               /\ \E y \in On' : /\ low'[frames'[i].name] = indices'[y]
                                 /\ y \in Reach(d, {frames'[i].name})
    <3>1. CASE i = k + 1
      BY <1>1, <1>5, <1>6, <1>8, <1>9, <1>10, <3>1, ReachStart
    <3>2. CASE i \in 1..k
      <4>1. frames[i].name \in Indexed /\ frames'[i].name = frames[i].name
        BY <1>1, <1>3, <1>10, <3>2
      <4>2. /\ low[frames[i].name] <= indices[frames[i].name]
            /\ \E y \in On : low[frames[i].name] = indices[y] /\ y \in Reach(d, {frames[i].name})
        BY <1>3, <3>2 DEF Connecting, LowReached
      <4>. QED BY <1>1, <1>6, <1>8, <4>1, <4>2
    <3>. QED BY <1>10, <3>1, <3>2
  <2>. QED BY <1>2, <1>10, <2>1 DEF LowReached
<1>17. LowLeast'
  <2>1. ASSUME NEW i \in 1..k + 1, NEW x \in On', Under(i, x)',
               NEW z \in On', z \in Out(x) \ Todo(x)'
        PROVE  low'[frames'[i].name] <= indices'[z]
    <3>1. x # t
      BY <1>13, <2>1
    <3>2. x \in On /\ indices'[x] = indices[x] /\ indices[x] < c
      BY <1>1, <1>5, <1>6, <1>8, <3>1
    <3>3. i \in 1..k
      <4>1. SUFFICES ASSUME i = k + 1 PROVE FALSE
        BY <1>10
      <4>2. frames'[i].name = t
        BY <1>9, <1>10, <4>1
      <4>. QED BY <1>1, <1>5, <1>6, <2>1, <3>2, <4>2 DEF Under
    <3>4. frames'[i].name = frames[i].name /\ frames[i].name \in Indexed
      BY <1>1, <1>3, <1>10, <3>3
    <3>5. Under(i, x)
      <4>1. indices[frames[i].name] <= indices[x]
        BY <1>6, <2>1, <3>2, <3>4 DEF Under
      <4>2. ASSUME i < Len(frames) PROVE indices[x] < indices[frames[i + 1].name]
        <5>1. i + 1 \in 1..k /\ i < Len(frames')
          BY <1>3, <1>10, <4>2
        <5>2. frames'[i + 1].name = frames[i + 1].name /\ frames[i + 1].name \in Indexed
          BY <1>1, <1>3, <1>10, <5>1
        <5>. QED BY <1>6, <2>1, <3>2, <5>1, <5>2 DEF Under
      <4>. QED BY <4>1, <4>2 DEF Under
    <3>6. CASE z \in Out(x) \ Todo(x)
      <4>1. z \in Indexed
        BY <1>1, <3>2, <3>6 DEF Connecting, Followed
      <4>2. z \in On
        BY <1>8, <2>1, <4>1
      <4>3. low[frames[i].name] <= indices[z]
        BY <1>3, <3>2, <3>3, <3>5, <3>6, <4>2 DEF Connecting, LowLeast
      <4>. QED BY <1>6, <3>4, <4>1, <4>3
    <3>7. CASE z = t
      <4>1. low[frames[i].name] <= indices[frames[i].name]
        BY <1>3, <3>3 DEF Connecting, LowReached
      <4>. QED BY <1>1, <1>5, <1>6, <3>4, <3>7, <4>1
    <3>. QED BY <1>12, <2>1, <3>6, <3>7
  <2>. QED BY <1>2, <1>10, <2>1 DEF LowLeast
<1>18. Settled'
  <2>1. Popped' = Popped
    BY <1>1, <1>6, <1>8 DEF Popped
  <2>. QED BY <1>2, <2>1 DEF Connecting, Settled
<1>19. Formed' /\ AllReachable(d') /\ AllCanEnd(d')
  BY <1>2 DEF Connecting, Formed
<1>. QED BY <1>7, <1>8, <1>11, <1>14, <1>15, <1>16, <1>17, <1>18, <1>19 DEF Connecting

\* strongconnect looks at a target that has a number, or at END.
LEMMA LookKeeps ==
  ASSUME d \in Definition, Connecting, frames # <<>>, NEW t \in Top.rest, t = END \/ t \in Indexed,
         frames' = Looked(frames, t),
         low' = IF t \in ToSet(stack) THEN Lower(Top.name, indices[t]) ELSE low,
         UNCHANGED <<d, adjacency, indices, stack>>
  PROVE  Connecting'
<1> DEFINE k == Len(frames)
           n == Top.name
<1>1. /\ LocalShape(d) /\ END \notin d.nodes /\ Formed /\ Framed
      /\ Indexed \subseteq d.nodes /\ On \subseteq Indexed
      /\ \A i \in 1..k : frames[i].name \in On
      /\ \A m \in Indexed : indices[m] \in Nat /\ low[m] \in Nat
  BY ConnectFacts
<1>2. k \in Nat \ {0} /\ t \in Adjacent(d, n) /\ Top = frames[k] /\ n \in On
  BY <1>1, TopFacts DEF Top
<1>3. /\ Formed' /\ AllReachable(d') /\ AllCanEnd(d') /\ Stacked' /\ Settled'
      /\ Indexed' = Indexed /\ On' = On /\ \A m : Out(m)' = Out(m)
  BY DEF Connecting, Formed, Stacked, Settled, Popped, Indexed, On, Out
<1>4. /\ frames' \in Seq(FrameOver(d.nodes)) /\ Len(frames') = k
      /\ \A i \in 1..k : frames'[i].name = frames[i].name
      /\ \A i \in 1..k : frames'[i].rest \subseteq Adjacent(d, frames'[i].name)
      /\ \A m : \A z \in Out(m) \ Todo(m)' : z \in Out(m) \ Todo(m) \/ (m = n /\ z = t)
  <2>1. /\ frames' \in Seq(FrameOver(d.nodes)) /\ Len(frames') = k
        /\ \A i \in 1..k : frames'[i].name = frames[i].name /\ frames'[i].rest \subseteq frames[i].rest
        /\ \A m : \A z \in Pending(frames, m) : z \in Pending(frames', m) \/ (m = n /\ z = t)
    BY <1>1, FramesLooked
  <2>. QED BY <1>1, <2>1 DEF Framed, Todo
<1>5. Nested'
  BY <1>3, <1>4 DEF Connecting, Nested, Framed
<1>6. Followed'
  <2>1. t \in Out(n) => t \in Indexed
    BY DEF Out
  <2>. QED BY <1>3, <1>4, <2>1 DEF Connecting, Followed
<1>7. Connected'
  BY <1>3, <1>4 DEF Connecting, Connected, Downward
<1>8. /\ low' \in [Indexed -> Nat] /\ low'[n] <= low[n] /\ low'[n] \in {low[n], indices[t]}
      /\ low'[n] = low[n] \/ t \in On
      /\ t \in On => low'[n] <= indices[t]
      /\ \A m \in Indexed \ {n} : low'[m] = low[m]
  BY <1>1, <1>2 DEF Connecting, Numbered, Lower, On
<1>9. Numbered'
  BY <1>3, <1>8 DEF Connecting, Numbered
<1> HIDE DEF n
<1>10. LowReached'
  <2>1. ASSUME NEW i \in 1..k
        PROVE  /\ low'[frames[i].name] <= indices[frames[i].name]
               /\ \E y \in On : low'[frames[i].name] = indices[y] /\ y \in Reach(d, {frames[i].name})
    <3>1. /\ frames[i].name \in Indexed /\ low[frames[i].name] <= indices[frames[i].name]
          /\ \E y \in On : low[frames[i].name] = indices[y] /\ y \in Reach(d, {frames[i].name})
      BY <1>1 DEF Connecting, LowReached
    <3>2. CASE low'[frames[i].name] = low[frames[i].name]
      BY <3>1, <3>2
    <3>3. CASE low'[frames[i].name] # low[frames[i].name]
      <4>1. frames[i].name = n /\ t \in On /\ low'[n] = indices[t]
        BY <1>8, <3>1, <3>3
      <4>2. t \in Reach(d, {n})
        BY <1>1, <1>2, <4>1, ReachStart, ReachStep
      <4>. QED BY <1>1, <1>8, <3>1, <4>1, <4>2
    <3>. QED BY <3>2, <3>3
  <2>. QED BY <1>3, <1>4, <2>1 DEF LowReached
<1>11. LowLeast'
  <2>1. ASSUME NEW i \in 1..k, NEW x \in On, Under(i, x), NEW z \in On, z \in Out(x) \ Todo(x)'
        PROVE  low'[frames[i].name] <= indices[z]
    <3>1. frames[i].name \in Indexed /\ low'[frames[i].name] <= low[frames[i].name]
      BY <1>1, <1>8
    <3>2. CASE z \in Out(x) \ Todo(x)
      <4>1. low[frames[i].name] <= indices[z]
        BY <2>1, <3>2 DEF Connecting, LowLeast
      <4>2. low[frames[i].name] \in Nat /\ low'[frames[i].name] \in Nat /\ indices[z] \in Nat
        BY <1>1, <1>8, <3>1
      <4>. QED BY <3>1, <4>1, <4>2
    <3>3. CASE x = n /\ z = t
      <4>1. i = k
        <5>1. SUFFICES ASSUME i < k PROVE FALSE
          BY <1>2
        <5>2. /\ i + 1 \in 1..k /\ frames[i + 1].name \in Indexed
              /\ indices[n] < indices[frames[i + 1].name]
          BY <1>1, <1>2, <2>1, <3>3, <5>1 DEF Under
        <5>3. i + 1 = k \/ indices[frames[i + 1].name] < indices[frames[k].name]
          BY <1>2, <5>1, <5>2 DEF Connecting, Nested
        <5>. QED BY <1>1, <1>2, <5>2, <5>3 DEF n
      <4>. QED BY <1>2, <1>8, <2>1, <3>3, <4>1 DEF n
    <3>. QED BY <1>4, <2>1, <3>2, <3>3
  <2>2. \A i \in 1..k : \A x : Under(i, x)' => Under(i, x)
    <3>1. SUFFICES ASSUME NEW i \in 1..k, NEW x, Under(i, x)' PROVE Under(i, x)
      OBVIOUS
    <3>2. i < k => i + 1 \in 1..k
      BY <1>2
    <3>. QED BY <1>4, <3>1, <3>2 DEF Under
  <2>. QED BY <1>3, <1>4, <2>1, <2>2 DEF LowLeast
<1>. QED BY <1>3, <1>5, <1>6, <1>7, <1>9, <1>10, <1>11 DEF Connecting

LEMMA ConnectStartStep == ASSUME NEW n \in d.nodes PROVE IInv /\ ConnectStart(n) => IInv'
<1> SUFFICES ASSUME IInv, ConnectStart(n) PROVE IInv'
  OBVIOUS
<1>1. /\ phase = "cycles" /\ phase' = "cycles" /\ d \in Definition /\ d' = d /\ Connecting
      /\ n \in d.nodes \ Indexed /\ Connect(n) /\ frames = <<>> /\ frames' = <<Frame(n)>>
  BY DEF IInv, ConnectStart, Connect
<1>2. frames' = Append(<<>>, Frame(n))
  BY <1>1
<1>3. Connecting'
  BY <1>1, <1>2, EnterKeeps
<1>. QED BY <1>1, <1>3 DEF IInv, Phases, VerdictIsExact, Complaints

LEMMA ConnectTargetStep == ASSUME NEW t PROVE IInv /\ ConnectTarget(t) => IInv'
<1> SUFFICES ASSUME IInv, ConnectTarget(t) PROVE IInv'
  OBVIOUS
<1>1. /\ phase = "cycles" /\ phase' = "cycles" /\ d \in Definition /\ d' = d /\ Connecting
      /\ frames # <<>> /\ t \in Top.rest
  BY DEF IInv, ConnectTarget, Connect
<1>2. CASE t # END /\ t \notin Indexed
  <2>1. Connect(t) /\ frames' = Append(Looked(frames, t), Frame(t))
    BY <1>2 DEF ConnectTarget
  <2>2. t \in d.nodes
    BY <1>1, <1>2, ConnectFacts, TopFacts, EdgesSpan
  <2>. QED BY <1>1, <1>2, <2>1, <2>2, EnterKeeps
           DEF IInv, Phases, VerdictIsExact, Complaints
<1>3. CASE ~(t # END /\ t \notin Indexed)
  <2>1. /\ frames' = Looked(frames, t) /\ UNCHANGED <<d, adjacency, indices, stack>>
        /\ low' = IF t \in ToSet(stack) THEN Lower(Top.name, indices[t]) ELSE low
    BY <1>3 DEF ConnectTarget
  <2>2. Connecting'
    BY <1>1, <1>3, <2>1, LookKeeps
  <2>. QED BY <1>1, <2>2 DEF IInv, Phases, VerdictIsExact, Complaints
<1>. QED BY <1>2, <1>3

----------------------------------------------------------------------------
(* The return of an activation. *)

\* What is popped is what has no lower number, and the rest stays.
LEMMA ComponentIs ==
  ASSUME d \in Definition, Connecting, NEW n \in On
  PROVE  LET s == SubSeq(stack, 1, Position(n) - 1)
         IN  /\ Component(n) = {x \in On : indices[n] <= indices[x]}
             /\ s \in Seq(Indexed) /\ ToSet(s) = {x \in On : indices[x] < indices[n]}
             /\ \A i, j \in 1..Len(s) : i < j => indices[s[i]] < indices[s[j]]
<1> DEFINE s == SubSeq(stack, 1, Position(n) - 1)
           c == SubSeq(stack, Position(n), Len(stack))
           p == Position(n)
           k == Len(stack)
<1>1. /\ stack \in Seq(Indexed) /\ k \in Nat /\ DOMAIN stack = 1..k /\ On = {stack[i] : i \in 1..k}
      /\ \A i \in 1..k : stack[i] \in Indexed /\ indices[stack[i]] \in Nat
      /\ \A i, j \in 1..k : i < j => indices[stack[i]] < indices[stack[j]]
  BY ConnectFacts, LenProperties, ElementOfSeq, SetOfSeq DEF Connecting, Stacked, On
<1>2. p \in 1..k /\ stack[p] = n
  BY <1>1 DEF Position
<1> HIDE DEF p, k
<1>3. /\ s \in Seq(Indexed) /\ Len(s) = p - 1 /\ \A i \in 1..p - 1 : s[i] = stack[i]
  BY <1>1, <1>2, SubSeqProperties DEF p
<1>4. /\ c \in Seq(Indexed) /\ Len(c) = k - p + 1 /\ \A i \in 1..k - p + 1 : c[i] = stack[p + i - 1]
  BY <1>1, <1>2, SubSeqProperties DEF p, k
<1> HIDE DEF s, c
<1>5. \A i \in 1..k : /\ indices[stack[i]] < indices[n] <=> i < p
                      /\ indices[n] <= indices[stack[i]] <=> p <= i
  <2>1. SUFFICES ASSUME NEW i \in 1..k
                 PROVE  /\ indices[stack[i]] < indices[n] <=> i < p
                        /\ indices[n] <= indices[stack[i]] <=> p <= i
    OBVIOUS
  <2>2. i < p \/ i = p \/ p < i
    BY <1>1, <1>2
  <2>3. indices[stack[i]] \in Nat /\ indices[n] \in Nat
    BY <1>1, <1>2
  <2>. QED BY <1>1, <1>2, <2>2, <2>3
<1>6. ToSet(s) = {x \in On : indices[x] < indices[n]}
  <2>1. ToSet(s) = {s[i] : i \in 1..p - 1}
    BY <1>3, SetOfSeq
  <2>2. \A i : i \in 1..p - 1 <=> i \in 1..k /\ i < p
    BY <1>1, <1>2
  <2>3. \A x \in ToSet(s) : x \in On /\ indices[x] < indices[n]
    BY <1>1, <1>3, <1>5, <2>1, <2>2
  <2>4. ASSUME NEW x \in On, indices[x] < indices[n] PROVE x \in ToSet(s)
    <3>1. PICK i \in 1..k : x = stack[i] /\ i < p
      BY <1>1, <1>5, <2>4
    <3>. QED BY <1>3, <2>1, <2>2, <3>1
  <2>. QED BY <2>3, <2>4
<1>7. ToSet(c) = {x \in On : indices[n] <= indices[x]}
  <2>1. ToSet(c) = {c[i] : i \in 1..k - p + 1}
    BY <1>4, SetOfSeq
  <2>2. \A i \in 1..k - p + 1 : p + i - 1 \in 1..k /\ p <= p + i - 1
    BY <1>1, <1>2
  <2>3. \A i \in 1..k : p <= i => i - p + 1 \in 1..k - p + 1 /\ p + (i - p + 1) - 1 = i
    BY <1>1, <1>2
  <2>4. \A x \in ToSet(c) : x \in On /\ indices[n] <= indices[x]
    BY <1>1, <1>4, <1>5, <2>1, <2>2
  <2>5. ASSUME NEW x \in On, indices[n] <= indices[x] PROVE x \in ToSet(c)
    <3>1. PICK i \in 1..k : x = stack[i] /\ p <= i
      BY <1>1, <1>5, <2>5
    <3>2. c[i - p + 1] = x
      BY <1>4, <2>3, <3>1
    <3>. QED BY <2>1, <2>3, <3>1, <3>2
  <2>. QED BY <2>4, <2>5
<1>8. \A i, j \in 1..Len(s) : i < j => indices[s[i]] < indices[s[j]]
  BY <1>1, <1>2, <1>3, SMTT(20)
<1>. QED BY <1>3, <1>6, <1>7, <1>8 DEF Component, s, c, p, k

\* What the returning activation leaves to know.
LEMMA ReturnFacts ==
  ASSUME d \in Definition, Connecting, frames # <<>>, Top.rest = {}
  PROVE  LET k == Len(frames)
             n == Top.name
         IN  /\ k \in Nat \ {0} /\ frames[k].name = n /\ n \in On
             /\ Pop \in Seq(FrameOver(d.nodes)) /\ Len(Pop) = k - 1
             /\ \A i \in 1..k - 1 : /\ Pop[i] = frames[i] /\ frames[i].name \in On
                                    /\ indices[frames[i].name] < indices[n]
             /\ \A m : Todo(m) \subseteq Pending(Pop, m)
             /\ \A m : indices[n] <= indices[m] => m \notin On \/ Todo(m) = {}
<1> DEFINE k == Len(frames)
           n == Top.name
<1>1. Framed /\ \A i \in 1..k : frames[i].name \in On
  BY ConnectFacts
<1>2. k \in Nat \ {0} /\ DOMAIN frames = 1..k /\ frames[k] = Top
  BY <1>1, TopFacts DEF Top
<1>3. Pop \in Seq(FrameOver(d.nodes)) /\ Len(Pop) = k - 1
  BY <1>1, FramesPopped
<1>4. \A i \in 1..k - 1 : Pop[i] = frames[i]
  BY <1>1, FramesPopped
<1>5. \A m : Todo(m) \subseteq Pending(Pop, m)
  BY <1>1, FramesPopped DEF Todo
<1> HIDE DEF k
<1>6. \A i \in 1..k - 1 : indices[frames[i].name] < indices[n]
  <2>1. \A i, j \in 1..k : i < j => indices[frames[i].name] < indices[frames[j].name]
    BY DEF Connecting, Nested, k
  <2>. QED BY <1>2, <2>1
<1>7. ASSUME NEW m \in On, indices[n] <= indices[m] PROVE Todo(m) = {}
  <2>1. \A i \in 1..k : frames[i].name = m => frames[i].rest = {}
    <3>1. SUFFICES ASSUME NEW i \in 1..k, frames[i].name = m, i # k PROVE FALSE
      BY <1>2
    <3>2. indices[m] < indices[n]
      BY <1>2, <1>6, <3>1
    <3>3. indices[m] \in Nat /\ indices[n] \in Nat
      BY <1>1, <1>2, ConnectFacts
    <3>. QED BY <1>7, <3>2, <3>3
  <2>. QED BY <1>2, <2>1 DEF Todo, Pending
<1>. QED BY <1>1, <1>2, <1>3, <1>4, <1>5, <1>6, <1>7 DEF k

\* A root's component: its members reach each other, and nothing outside it
\* but popped nodes.
LEMMA RootComponent ==
  ASSUME d \in Definition, Connecting, frames # <<>>, Top.rest = {},
         low[Top.name] = indices[Top.name], NEW x \in Component(Top.name)
  PROVE  /\ x \in On /\ x \in d.nodes
         /\ x \in Reach(d, {Top.name}) /\ Top.name \in Reach(d, {x})
         /\ Out(x) \subseteq Popped \cup Component(Top.name)
<1> DEFINE k == Len(frames)
           n == Top.name
<1>1. /\ LocalShape(d) /\ Indexed \subseteq d.nodes /\ On \subseteq Indexed
      /\ \A m \in Indexed : indices[m] \in Nat
      /\ \A i \in 1..k : frames[i].name \in On
  BY ConnectFacts
<1>2. k \in Nat \ {0} /\ frames[k].name = n /\ n \in On
  BY ReturnFacts
<1>3. Component(n) = {m \in On : indices[n] <= indices[m]}
  BY <1>2, ComponentIs
<1>4. \A m \in Component(n) : Todo(m) = {}
  BY <1>3, ReturnFacts
<1> HIDE DEF n
<1>5. x \in On /\ x \in d.nodes /\ indices[n] <= indices[x]
  BY <1>1, <1>3 DEF n
<1>6. x \in Reach(d, {n})
  BY <1>2, <1>5 DEF Connecting, Connected
<1>7. n \in Reach(d, {x})
  <2>1. PICK i \in 1..k : indices[frames[i].name] <= indices[x] /\ frames[i].name \in Reach(d, {x})
    BY <1>5 DEF Connecting, Connected, Downward
  <2>2. i = k \/ indices[frames[i].name] < indices[n]
    BY <1>2 DEF Connecting, Nested
  <2>3. indices[frames[i].name] <= indices[n]
    BY <1>1, <1>2, <2>2
  <2>4. n \in Reach(d, {frames[i].name})
    BY <1>2, <2>3 DEF Connecting, Connected
  <2>. QED BY <1>1, <2>1, <2>4, ReachReaches
<1>8. Out(x) \subseteq Popped \cup Component(n)
  <2>1. SUFFICES ASSUME NEW z \in Out(x), z \notin Popped PROVE z \in Component(n)
    OBVIOUS
  <2>2. Todo(x) = {}
    BY <1>4 DEF n
  <2>3. z \in On
    BY <1>1, <1>5, <2>1, <2>2 DEF Connecting, Followed, Popped
  <2>4. Under(k, x)
    BY <1>2, <1>5 DEF Under
  <2>5. low[n] <= indices[z]
    BY <1>2, <1>5, <2>1, <2>2, <2>3, <2>4 DEF Connecting, LowLeast
  <2>. QED BY <1>3, <2>3, <2>5 DEF n
<1>. QED BY <1>5, <1>6, <1>7, <1>8 DEF n

\* The test of a component says of each member what it says of its cycles.
LEMMA BoundedIsExact ==
  ASSUME d \in Definition, Connecting, frames # <<>>, Top.rest = {},
         low[Top.name] = indices[Top.name]
  PROVE  Bounded(Top.name) <=> \A m \in Component(Top.name) : OnCycle(d, m) => d.maxVisits[m] > 1
<1> DEFINE n == Top.name
           C == Component(n)
<1>1. /\ LocalShape(d) /\ END \notin d.nodes /\ Formed
      /\ Indexed \subseteq d.nodes /\ On \subseteq Indexed /\ n \in On /\ n \in C
  <2>1. n \in On
    BY ReturnFacts
  <2>2. n \in C
    BY <2>1, ComponentIs, ConnectFacts
  <2>. QED BY <2>1, <2>2, ConnectFacts
<1>2. \A x \in C : /\ x \in On /\ x \in d.nodes
                   /\ x \in Reach(d, {n}) /\ n \in Reach(d, {x})
                   /\ Out(x) \subseteq Popped \cup C
  BY RootComponent
<1>3. \A m \in C : d.maxVisits[m] \in Nat \ {0}
  BY <1>1, <1>2 DEF LocalShape
<1> DEFINE Cyclic == Cardinality(C) > 1 \/ n \in adjacency[n]
<1>4. Bounded(n) <=> (Cyclic => \A m \in C : d.maxVisits[m] # 1)
  BY DEF Bounded
<1> HIDE DEF n, C
<1>5. Cardinality(C) > 1 <=> C # {n}
  <2>1. IsFiniteSet(C)
    BY <1>1, <1>2, FS_Subset DEF Connecting, Numbered
  <2>2. Cardinality(C) \in Nat /\ {n} \in SUBSET C /\ Cardinality({n}) = 1
    BY <1>1, <2>1, FS_CardinalityType, FS_Singleton
  <2>3. Cardinality({n}) <= Cardinality(C) /\ (Cardinality(C) = Cardinality({n}) => C = {n})
    BY <2>1, <2>2, FS_Subset
  <2>4. C = {n} => Cardinality(C) = 1
    BY <2>2
  <2>. QED BY <2>2, <2>3, <2>4
<1>6. n \in adjacency[n] <=> n \in Adjacent(d, n)
  BY <1>1 DEF Formed
<1>7. ASSUME Cyclic, NEW m \in C PROVE OnCycle(d, m)
  <2>1. CASE m # n
    BY <1>1, <1>2, <2>1, CycleThrough
  <2>2. CASE m = n /\ n \in Adjacent(d, n)
    BY <1>1, <1>2, <2>2, CycleThrough
  <2>3. CASE m = n /\ C # {n}
    <3>1. PICK x \in C : x # n
      BY <1>1, <2>3
    <3>. QED BY <1>1, <1>2, <2>3, <3>1, CycleThrough
  <2>. QED BY <1>5, <1>6, <1>7, <2>1, <2>2, <2>3
<1>8. ASSUME ~Cyclic, NEW m \in C PROVE ~OnCycle(d, m)
  <2>1. C = {n} /\ m = n /\ n \notin Adjacent(d, n)
    BY <1>5, <1>6, <1>8
  <2>2. Adjacent(d, n) \ {END} \subseteq Popped
    BY <1>1, <1>2, <2>1 DEF Out
  <2>3. Popped \in SUBSET d.nodes /\ n \notin Popped /\ ClosedUnderEdges(d, Popped)
    BY <1>1 DEF Connecting, Settled, Popped, ClosedUnderEdges, Out
  <2>. QED BY <2>1, <2>2, <2>3, NoCycleThrough
<1>9. \A m \in C : d.maxVisits[m] # 1 <=> d.maxVisits[m] > 1
  BY <1>3
<1> HIDE DEF Cyclic
<1>. QED BY <1>4, <1>7, <1>8, <1>9 DEF n, C

\* When n is not a root it reaches a frame below it.
LEMMA NoRootBelow ==
  ASSUME d \in Definition, Connecting, frames # <<>>, Top.rest = {},
         low[Top.name] # indices[Top.name]
  PROVE  \E j \in 1..Len(frames) - 1 : frames[j].name \in Reach(d, {Top.name})
<1> DEFINE k == Len(frames)
           n == Top.name
<1>1. /\ LocalShape(d) /\ On \subseteq Indexed
      /\ \A m \in Indexed : indices[m] \in Nat /\ low[m] \in Nat
      /\ \A i \in 1..k : frames[i].name \in On
  BY ConnectFacts
<1>2. k \in Nat \ {0} /\ frames[k].name = n /\ n \in On
  BY ReturnFacts
<1> HIDE DEF n, k
<1>3. low[n] <= indices[n] /\ \E y \in On : low[n] = indices[y] /\ y \in Reach(d, {n})
  <2>1. k \in 1..k
    BY <1>2
  <2>. QED BY <1>2, <2>1 DEF Connecting, LowReached, k
<1>4. PICK y \in On : low[n] = indices[y] /\ y \in Reach(d, {n})
  BY <1>3
<1>5. indices[y] < indices[n]
  BY <1>1, <1>2, <1>3, <1>4 DEF n
<1>6. PICK j \in 1..k : indices[frames[j].name] <= indices[y] /\ frames[j].name \in Reach(d, {y})
  BY DEF Connecting, Connected, Downward, k
<1>7. j \in 1..k - 1
  BY <1>1, <1>2, <1>5, <1>6 DEF k
<1>8. frames[j].name \in Reach(d, {n})
  BY <1>1, <1>4, <1>6, ReachReaches
<1>. QED BY <1>7, <1>8 DEF k, n

\* strongconnect returns, and what it pops passes the test.
LEMMA ReturnKeeps ==
  ASSUME d \in Definition, Connecting, frames # <<>>, Top.rest = {}, NEW n, n = Top.name,
         frames' = Pop, low' = ReturnedLow(n),
         stack' = IF low[n] = indices[n] THEN SubSeq(stack, 1, Position(n) - 1) ELSE stack,
         low[n] = indices[n] => Bounded(n),
         UNCHANGED <<d, adjacency, indices>>
  PROVE  Connecting'
<1> DEFINE k    == Len(frames)
           root == low[n] = indices[n]
           p    == frames[k - 1].name
<1>1. /\ LocalShape(d) /\ END \notin d.nodes /\ Framed
      /\ Indexed \subseteq d.nodes /\ On \subseteq Indexed
      /\ \A m \in Indexed : indices[m] \in Nat /\ low[m] \in Nat
  BY ConnectFacts
<1>2. /\ k \in Nat \ {0} /\ frames[k].name = n /\ n \in On
      /\ frames' \in Seq(FrameOver(d.nodes)) /\ Len(frames') = k - 1
      /\ \A i \in 1..k - 1 : /\ frames'[i] = frames[i] /\ frames[i].name \in On
                             /\ indices[frames[i].name] < indices[n]
      /\ \A m : Todo(m) \subseteq Todo(m)'
  BY ReturnFacts DEF Todo
<1> HIDE DEF k
<1>3. 1..k - 1 \subseteq 1..k /\ k \in 1..k /\ \A i \in 1..k : i \in 1..k - 1 \/ i = k
  BY <1>2
<1>4. /\ Formed' /\ AllReachable(d') /\ AllCanEnd(d') /\ Indexed' = Indexed
      /\ \A m : Out(m)' = Out(m)
  BY DEF Connecting, Formed, Indexed, Out
<1>5. /\ root => On' = {x \in On : indices[x] < indices[n]}
      /\ ~root => On' = On
      /\ Stacked'
  <2>1. CASE root
    <3>1. /\ stack' \in Seq(Indexed) /\ ToSet(stack') = {x \in On : indices[x] < indices[n]}
          /\ \A i, j \in 1..Len(stack') : i < j => indices[stack'[i]] < indices[stack'[j]]
      BY <1>2, <2>1, ComponentIs
    <3>. QED BY <1>4, <2>1, <3>1 DEF On, Stacked
  <2>2. CASE ~root
    BY <1>4, <2>2 DEF On, Connecting, Stacked
  <2>. QED BY <2>1, <2>2
<1>6. On' \subseteq On
  BY <1>5
<1>7. /\ low' \in [Indexed -> Nat]
      /\ \A i \in 1..k - 1 :
           /\ low'[frames[i].name] <= low[frames[i].name]
           /\ low'[frames[i].name] # low[frames[i].name] =>
                i = k - 1 /\ low'[frames[i].name] = low[n] /\ low[n] < low[frames[i].name]
           /\ i = k - 1 => low'[frames[i].name] <= low[n]
  <2>1. low \in [Indexed -> Nat]
    BY DEF Connecting, Numbered
  <2>2. CASE k = 1
    <3>1. Pop = <<>>
      BY <1>1, <2>2, FramesPopped DEF k
    <3>. QED BY <2>1, <2>2, <3>1 DEF ReturnedLow
  <2>3. CASE k # 1
    <3>1. k - 1 \in 1..k - 1 /\ p \in Indexed /\ n \in Indexed
      BY <1>1, <1>2, <2>3
    <3>2. Pop # <<>>
      BY <1>1, <2>3, FramesPopped DEF k
    <3>3. low' = [low EXCEPT ![p] = IF low[n] < @ THEN low[n] ELSE @]
      BY <3>2 DEF ReturnedLow, Lower, k
    <3>4. \A i \in 1..k - 1 : frames[i].name = p => i = k - 1
      <4>1. SUFFICES ASSUME NEW i \in 1..k - 1, frames[i].name = p, i < k - 1 PROVE FALSE
        BY <1>2
      <4>2. indices[frames[i].name] < indices[p]
        BY <1>3, <3>1, <4>1 DEF Connecting, Nested, k
      <4>. QED BY <1>1, <3>1, <4>1, <4>2
    <3>5. /\ low' \in [Indexed -> Nat]
          /\ \A m \in Indexed \ {p} : low'[m] = low[m]
          /\ low'[p] = IF low[n] < low[p] THEN low[n] ELSE low[p]
      BY <1>1, <2>1, <3>1, <3>3
    <3> HIDE DEF p
    <3>6. ASSUME NEW i \in 1..k - 1
          PROVE  /\ low'[frames[i].name] <= low[frames[i].name]
                 /\ low'[frames[i].name] # low[frames[i].name] =>
                      i = k - 1 /\ low'[frames[i].name] = low[n] /\ low[n] < low[frames[i].name]
                 /\ i = k - 1 => low'[frames[i].name] <= low[n]
      <4>1. frames[i].name \in Indexed /\ low[frames[i].name] \in Nat /\ low[n] \in Nat /\ low[p] \in Nat
        BY <1>1, <1>2, <3>1
      <4>2. i = k - 1 => frames[i].name = p
        BY DEF p
      <4>3. CASE frames[i].name = p
        BY <3>4, <3>5, <4>1, <4>3
      <4>4. CASE frames[i].name # p
        BY <3>5, <4>1, <4>2, <4>4
      <4>. QED BY <4>3, <4>4
    <3>. QED BY <3>5, <3>6
  <2>. QED BY <2>2, <2>3
<1> HIDE DEF root, p
<1>8. Numbered'
  BY <1>4, <1>7 DEF Connecting, Numbered
<1>9. Nested'
  <2>1. Framed'
    BY <1>1, <1>2, <1>3 DEF Framed, k
  <2>2. \A i \in 1..k - 1 : frames'[i].name \in On'
    BY <1>2, <1>5
  <2>. QED BY <1>2, <1>3, <2>1, <2>2 DEF Connecting, Nested, k
<1>10. Followed'
  BY <1>2, <1>4 DEF Connecting, Followed
<1>11. Connected'
  <2>1. ASSUME NEW i \in 1..k - 1, NEW x \in On', indices[frames[i].name] <= indices[x]
        PROVE  x \in Reach(d, {frames[i].name})
    BY <1>3, <1>6, <2>1 DEF Connecting, Connected, k
  <2>2. ASSUME NEW x \in On' PROVE Downward(x)'
    <3>1. PICK i \in 1..k : indices[frames[i].name] <= indices[x] /\ frames[i].name \in Reach(d, {x})
      BY <1>6 DEF Connecting, Connected, Downward, k
    <3>2. CASE i \in 1..k - 1
      BY <1>2, <3>1, <3>2 DEF Downward
    <3>3. CASE i = k
      <4>1. indices[n] <= indices[x] /\ n \in Reach(d, {x}) /\ x \in Indexed /\ n \in Indexed
        BY <1>1, <1>2, <1>6, <3>1, <3>3
      <4>2. ~root
        BY <1>1, <1>5, <4>1
      <4>3. PICK j \in 1..k - 1 : frames[j].name \in Reach(d, {n})
        BY <4>2, NoRootBelow DEF root, k
      <4>4. frames[j].name \in Reach(d, {x})
        BY <1>1, <4>1, <4>3, ReachReaches
      <4>5. indices[frames[j].name] <= indices[x]
        BY <1>1, <1>2, <4>1
      <4>. QED BY <1>2, <4>4, <4>5 DEF Downward
    <3>. QED BY <1>3, <3>2, <3>3
  <2>. QED BY <1>2, <2>1, <2>2 DEF Connected
<1>12. LowReached'
  <2>1. ASSUME NEW i \in 1..k - 1
        PROVE  /\ low'[frames[i].name] <= indices[frames[i].name]
               /\ \E y \in On' : low'[frames[i].name] = indices[y] /\ y \in Reach(d, {frames[i].name})
    <3> DEFINE f == frames[i].name
    <3>1. /\ f \in Indexed /\ n \in Indexed /\ indices[f] < indices[n] /\ low[f] <= indices[f]
          /\ low'[f] \in Nat
      BY <1>1, <1>2, <1>3, <1>7 DEF Connecting, LowReached, k
    <3>2. PICK y \in On : low[f] = indices[y] /\ y \in Reach(d, {f})
      BY <1>3 DEF Connecting, LowReached, k
    <3>3. low'[f] <= low[f] /\ (low'[f] # low[f] => low'[f] = low[n] /\ low[n] < low[f])
      BY <1>7
    <3> HIDE DEF f
    <3>4. low'[f] <= indices[f]
      BY <1>1, <3>1, <3>3
    <3>5. CASE low'[f] = low[f]
      <4>1. indices[y] < indices[n]
        BY <1>1, <3>1, <3>2
      <4>2. y \in On'
        BY <1>5, <4>1
      <4>. QED BY <3>2, <3>4, <3>5, <4>2 DEF f
    <3>6. CASE low'[f] # low[f]
      <4>1. low'[f] = low[n] /\ low[n] < indices[n]
        BY <1>1, <3>1, <3>3, <3>6
      <4>2. On' = On
        BY <1>1, <1>5, <3>1, <4>1 DEF root
      <4>3. PICK w \in On : low[n] = indices[w] /\ w \in Reach(d, {n})
        BY <1>2, <1>3 DEF Connecting, LowReached, k
      <4>4. n \in Reach(d, {f})
        <5>1. indices[f] <= indices[n]
          BY <1>1, <3>1
        <5>. QED BY <1>2, <1>3, <5>1 DEF Connecting, Connected, k, f
      <4>5. w \in Reach(d, {f})
        BY <1>1, <4>3, <4>4, ReachReaches
      <4>. QED BY <3>4, <4>1, <4>2, <4>3, <4>5 DEF f
    <3>. QED BY <3>5, <3>6
  <2>. QED BY <1>2, <2>1 DEF LowReached
<1>13. LowLeast'
  <2>1. ASSUME NEW i \in 1..k - 1, NEW x \in On', Under(i, x)', NEW z \in On', z \in Out(x) \ Todo(x)'
        PROVE  low'[frames[i].name] <= indices[z]
    <3>1. x \in On /\ z \in On /\ z \in Out(x) \ Todo(x)
      BY <1>2, <1>6, <2>1
    <3>2. /\ frames[i].name \in Indexed /\ n \in Indexed /\ x \in Indexed /\ z \in Indexed
          /\ low'[frames[i].name] \in Nat
      BY <1>1, <1>2, <1>7, <3>1
    <3>3. indices[frames[i].name] <= indices[x]
      BY <1>2, <2>1 DEF Under
    <3>4. CASE i < k - 1 \/ indices[x] < indices[n]
      <4>1. Under(i, x)
        <5>1. CASE i < k - 1
          <6>1. i + 1 \in 1..k - 1
            BY <1>2, <5>1
          <6>. QED BY <1>2, <2>1, <3>3, <5>1, <6>1 DEF Under
        <5>2. CASE i = k - 1 /\ indices[x] < indices[n]
          BY <1>2, <3>3, <5>2 DEF Under
        <5>. QED BY <1>2, <3>4, <5>1, <5>2
      <4>2. low[frames[i].name] <= indices[z]
        BY <1>3, <3>1, <4>1 DEF Connecting, LowLeast, k
      <4>. QED BY <1>1, <1>7, <3>2, <4>2
    <3>5. CASE i = k - 1 /\ indices[n] <= indices[x]
      <4>1. Under(k, x)
        BY <1>2, <3>5 DEF Under, k
      <4>2. low[n] <= indices[z]
        BY <1>2, <1>3, <3>1, <4>1 DEF Connecting, LowLeast, k
      <4>. QED BY <1>1, <1>7, <3>2, <3>5, <4>2
    <3>. QED BY <1>1, <1>2, <3>2, <3>4, <3>5
  <2>. QED BY <1>2, <1>4, <2>1 DEF LowLeast
<1>14. Settled'
  <2>1. CASE root
    <3>1. Component(n) = {x \in On : indices[n] <= indices[x]}
      BY <1>2, ComponentIs
    <3>2. Popped' = Popped \cup Component(n)
      <4>1. \A x \in On : indices[x] < indices[n] <=> ~(indices[n] <= indices[x])
        BY <1>1, <1>2
      <4>. QED BY <1>1, <1>4, <1>5, <2>1, <3>1, <4>1 DEF Popped
    <3>3. \A m \in Component(n) : Out(m) \subseteq Popped \cup Component(n)
      BY <2>1, RootComponent DEF root
    <3>4. \A m \in Component(n) : OnCycle(d, m) => d.maxVisits[m] > 1
      BY <2>1, BoundedIsExact DEF root
    <3>. QED BY <1>4, <3>2, <3>3, <3>4 DEF Connecting, Settled
  <2>2. CASE ~root
    <3>1. Popped' = Popped
      BY <1>4, <1>5, <2>2 DEF Popped
    <3>. QED BY <1>4, <3>1 DEF Connecting, Settled
  <2>. QED BY <2>1, <2>2
<1>. QED BY <1>4, <1>5, <1>8, <1>9, <1>10, <1>11, <1>12, <1>13, <1>14 DEF Connecting

LEMMA ConnectReturnStep == IInv /\ ConnectReturn => IInv'
<1> SUFFICES ASSUME IInv, ConnectReturn PROVE IInv'
  OBVIOUS
<1> DEFINE n == Top.name
           root == low[n] = indices[n]
<1>1. /\ phase = "cycles" /\ d \in Definition /\ d' = d /\ Connecting
      /\ frames # <<>> /\ Top.rest = {} /\ frames' = Pop /\ low' = ReturnedLow(n)
      /\ stack' = IF root THEN SubSeq(stack, 1, Position(n) - 1) ELSE stack
      /\ phase' = IF root /\ ~Bounded(n) THEN "unbounded"
                  ELSE IF Pop = <<>> /\ Indexed = d.nodes THEN "accepted" ELSE phase
      /\ UNCHANGED <<d, adjacency, indices>>
  BY DEF IInv, ConnectReturn
<1>2. CASE root /\ ~Bounded(n)
  <2>1. PICK m \in Component(n) : OnCycle(d, m) /\ ~(d.maxVisits[m] > 1)
    BY <1>1, <1>2, BoundedIsExact
  <2>2. m \in d.nodes
    BY <1>1, <1>2, RootComponent
  <2>3. AllCanEnd(d) /\ ~CyclesBounded(d)
    BY <1>1, <2>1, <2>2 DEF Connecting, CyclesBounded
  <2>. QED BY <1>1, <1>2, <2>3 DEF IInv, Phases, VerdictIsExact, Complaints
<1>3. CASE ~(root /\ ~Bounded(n))
  <2>1. Connecting'
    BY <1>1, <1>3, ReturnKeeps
  <2>2. CASE Pop = <<>> /\ Indexed = d.nodes
    <3>1. On' = {}
      <4>1. Len(frames') = 0
        BY <1>1, <2>2, EmptySeq
      <4>. QED BY <2>1, <4>1 DEF Connecting, Connected, Downward
    <3>2. Popped' = d.nodes
      BY <1>1, <2>2, <3>1 DEF Popped, Indexed
    <3>3. CyclesBounded(d)
      BY <1>1, <2>1, <3>2 DEF Connecting, Settled, CyclesBounded
    <3>4. Accepted(d)
      BY <1>1, <3>3 DEF Connecting, Formed, Accepted
    <3>. QED BY <1>1, <1>3, <2>2, <3>4 DEF IInv, Phases, VerdictIsExact, Complaints
  <2>3. CASE ~(Pop = <<>> /\ Indexed = d.nodes)
    BY <1>1, <1>3, <2>1, <2>3 DEF IInv, Phases, VerdictIsExact, Complaints
  <2>. QED BY <2>2, <2>3
<1>. QED BY <1>2, <1>3

----------------------------------------------------------------------------
(* The theorem. *)

LEMMA InvStep == IInv /\ [Next]_vars => IInv'
<1> SUFFICES ASSUME IInv, [Next]_vars PROVE IInv'
  OBVIOUS
<1>1. CASE UNCHANGED vars
  <2>1. /\ Unvisited' = Unvisited /\ Unextended' = Unextended /\ Unconnected' = Unconnected
        /\ Formed' = Formed /\ Framed' = Framed /\ Indexed' = Indexed /\ On' = On /\ Popped' = Popped
        /\ \A n : Out(n)' = Out(n) /\ Todo(n)' = Todo(n) /\ Downward(n)' = Downward(n)
        /\ \A i, x : Under(i, x)' = Under(i, x)
    BY <1>1 DEF vars, Unvisited, Unextended, Unconnected, Formed, Framed, Indexed, On, Popped,
       Out, Todo, Downward, Under
  <2>2. Visiting' = Visiting /\ Extending' = Extending
    BY <1>1, <2>1 DEF vars, Visiting, Extending
  <2>3. Numbered' = Numbered /\ Stacked' = Stacked /\ Nested' = Nested
    BY <1>1, <2>1 DEF vars, Numbered, Stacked, Nested
  <2>4. /\ Followed' = Followed /\ Connected' = Connected /\ LowReached' = LowReached
        /\ LowLeast' = LowLeast /\ Settled' = Settled
    BY <1>1, <2>1 DEF vars, Followed, Connected, LowReached, LowLeast, Settled
  <2>5. Connecting' = Connecting
    BY <1>1, <2>1, <2>3, <2>4 DEF vars, Connecting
  <2>. QED BY <1>1, <2>1, <2>2, <2>5 DEF vars, IInv, VerdictIsExact
<1>2. CASE Stutter
  BY <1>1, <1>2 DEF Stutter
<1>3. CASE CheckSelectors \/ CheckTransitions
  BY <1>3, SelectorsStep, TransitionsStep
<1>4. CASE VisitStart \/ VisitNothing \/ VisitReturn
  BY <1>4, VisitStartStep, VisitNothingStep, VisitReturnStep
<1>5. CASE GrowCanEnd \/ ConnectReturn
  BY <1>5, GrowStep, ConnectReturnStep
<1>6. CASE \E t \in d.nodes \cup {END} : VisitTarget(t) \/ ConnectTarget(t)
  BY <1>6, VisitTargetStep, ConnectTargetStep
<1>7. CASE \E n \in d.nodes : ConnectStart(n)
  BY <1>7, ConnectStartStep
<1>. QED BY <1>1, <1>2, <1>3, <1>4, <1>5, <1>6, <1>7 DEF Next

\* Whatever the definition, and in whatever order its nodes and transitions
\* are met: _validate_graph accepts only what the acceptance test means, and
\* the complaint it raises is one that holds.
THEOREM VerdictsAreExact == Spec => []VerdictIsExact
<1>1. IInv => VerdictIsExact
  BY DEF IInv
<1>. QED BY <1>1, InvInit, InvStep, PTL DEF Spec

=============================================================================
