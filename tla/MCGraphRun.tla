----------------------------- MODULE MCGraphRun -----------------------------
(***************************************************************************)
(* Instances of GraphRun for TLC: a few small definitions of each shape,   *)
(* some of which the acceptance test refuses.  a, b and c are agents, p is *)
(* a parallel node, long loops on itself, and one node is called "fail".   *)
(***************************************************************************)
EXTENDS GraphRun

MCNode == {"a", "b", "c", "p", "long", Fail}

Text(x) == [type |-> "text", text |-> x]
Bool(x) == [type |-> "bool", text |-> x]
Null    == [type |-> "null", text |-> "None"]

\* An agent answers with text or, by its schema, with a dict; a parallel node
\* with a dict of its branches, here one called status, null where it failed.
MCOutput ==
  [n \in MCNode |->
     CASE n = "a" -> {Text("go"), Text("done"), Dict([status |-> Bool("True")])}
       [] n = "b" -> {Text("go"), Dict([status |-> Bool("True")]), Dict([status |-> Text("redo")])}
       [] n = "p" -> {Dict([status |-> x]) : x \in {Bool("True"), Text("redo"), Null}}
       [] OTHER   -> {Text("go")}]

MCInput == {Text("go"), Text("other")}

----------------------------------------------------------------------------
Direct(n, m) == [type |-> "direct", from |-> n, to |-> m]
Cond(n, sel, cases, default) ==
  [type |-> "conditional", from |-> n, select |-> sel, cases |-> cases, default |-> default]

Whole(n)  == <<"results", n, "output">>
Status(n) == <<"results", n, "output", "status">>

\* p's kind is a parallel node's; a node's bound is 1 unless bounds has it.
Def(nodes, start, pKind, bounds, transitions, maxSteps, output) ==
  [nodes |-> nodes, start |-> start,
   kind |-> [n \in nodes |-> IF n = "p" THEN pKind ELSE "agent"],
   maxVisits |-> [n \in nodes |-> IF n \in DOMAIN bounds THEN bounds[n] ELSE 1],
   transitions |-> transitions, maxSteps |-> maxSteps, output |-> output]

\* A review loop: a again until b or p approves, then c.  The bounds of the
\* loop, and max_steps, vary: either budget may be met first, and a bound of
\* 1 on the loop is to be refused.
ReviewLoop ==
  {Def({"a", r, "c"}, "a", "fail_fast", [n \in {"a", r} |-> v],
       <<Direct("a", r),
         Cond(r, Status(r), [true |-> "c", redo |-> "a"], Fail),
         Direct("c", END)>>, m, Whole("c"))
     : v \in {1, 2}, m \in {2, 3, 5}, r \in {"b", "p"}}

\* A parallel node that loops on itself, routed by an earlier node's result or
\* by its own latest one.
SelfLoop ==
  {Def({"a", "p"}, "a", "collect_errors", [p |-> v],
       <<Cond("a", <<"input">>, [go |-> "p"], END),
         Cond("p", sel, [redo |-> "p", true |-> END, null |-> END, done |-> END], "p")>>,
       4, Status("p"))
     : v \in {1, 3}, sel \in {Whole("a"), Status("p")}}

\* Refused: a direct fail, a node without a way to END.
Refused ==
  {Def({"a", "b"}, "a", "fail_fast", [b |-> 2],
       <<Cond("a", <<"input">>, [go |-> "b"], END), t>>, 4, Whole("a"))
     : t \in {Direct("b", Fail), Direct("b", "b")}}

\* A node called "fail" can only be where a run starts: a target of that name
\* is the marker.
FailNode ==
  {Def({Fail, "b"}, Fail, "fail_fast", <<>>,
       <<Direct(Fail, "b"), Cond("b", <<"input">>, [go |-> END], Fail)>>, 4, Whole("b"))}

\* Step limits around the 25 supersteps that LangGraph allows when
\* recursion_limit is not raised.
LongLoop ==
  {Def({"long"}, "long", "fail_fast", [long |-> 100],
       <<Cond("long", Whole("long"), [done |-> END], "long")>>, m, Whole("long"))
     : m \in {23, 24, 26}}

MCDefinition == ReviewLoop \cup SelfLoop \cup Refused \cup FailNode \cup LongLoop

============================================================================
