-------------------------- MODULE MCRuntimeManager --------------------------
(***************************************************************************)
(* Instances of RuntimeManager for TLC: two agents, of which the second    *)
(* comes and goes, in a graph or under an orchestrator, with a tool of     *)
(* each type.  A schema may move from one module to another, be in both or *)
(* in none.  The directory is edited twice: enough for a build to read it  *)
(* half before and half after an edit, and for it to be wrong and put      *)
(* right.                                                                  *)
(***************************************************************************)
EXTENDS RuntimeManager, TLC

CONSTANTS a1, a2, p1, p2, s1, x1, x2, d1, m1, m2

Uses(p, input, tools) ==
  [model |-> "m", prompt |-> p, input |-> input, output |-> s1, tools |-> tools]

Graph(agents, accepted) == [type |-> "graph", agents |-> agents, accepted |-> accepted]
Manages(a, b) == [type |-> "orchestrator", manager |-> a, specialists |-> {b}]

Builtin == [type |-> "builtin", root |-> d1]
Mcp     == [type |-> "mcp", server |-> "v"]
Http(u) == [type |-> "http", url |-> u]

ToolsFile(url, servers) ==
  [tools |-> [files |-> Builtin, api |-> Http(url), mcp |-> Mcp],
   servers |-> [v \in servers |-> "https"]]

One  == a1 :> Uses(p1, None, {"files"})
Two  == One @@ a2 :> Uses(p1, None, {"mcp"})
Form == One @@ a2 :> Uses(p2, s1, {"api", "files"})

MCContent ==
  [project  |-> {"ok", Bad},
   models   |-> {[m |-> "openai"], [m |-> "other"]},
   agents   |-> {One, Two, Form},
   tools    |-> {ToolsFile("https", {"v"}), ToolsFile(Bad, {"v"}), ToolsFile("https", {})},
   workflow |-> {Graph({a1}, TRUE), Graph({a1, a2}, TRUE), Graph({a1}, FALSE), Manages(a1, a2)},
   schemas  |-> {m1 :> {s1}, m1 :> {} @@ m2 :> {s1}, m1 :> {s1} @@ m2 :> {s1},
                 m1 :> Bad, <<>>, Bad}]

MCInitial ==
  {[project |-> "ok", models |-> [m |-> "openai"], agents |-> Two,
    tools |-> ToolsFile("https", {"v"}), workflow |-> w, schemas |-> m1 :> {s1},
    prompts |-> p1 :> x1 @@ p2 :> x1, roots |-> {d1}]
     : w \in {Graph({a1, a2}, TRUE), Manages(a1, a2)}}

CallerSymmetry == Permutations(Thread)

============================================================================
