--------------------------- MODULE RuntimeManager ---------------------------
(***************************************************************************)
(* Versioned runtimes: RuntimeManager (app/engine/runtime_manager.py), the *)
(* build it makes of a project directory (project_runtime.py, config.py,   *)
(* schema_loader.py, prompt_loader.py, the registries) and the runs that   *)
(* keep the runtime they began with.                                       *)
(*                                                                         *)
(* A build reads one file after another while the directory may be edited; *)
(* the manager may be called from any thread.  A file's content is what it *)
(* refers to, or Bad: missing, malformed, or refused by the configuration  *)
(* models.  A prompt is a text, Bad (it does not parse or uses unknown     *)
(* variables) or None.  "schemas" is a directory of modules, each with the *)
(* names of its classes or Bad.  The project directory is a record of      *)
(* these contents and of the roots for filesystem tools that exist in it.  *)
(***************************************************************************)
EXTENDS Naturals, Sequences, FiniteSets

CONSTANTS
  None, Bad,     \* no name and no text; a content that is wrong
  Thread,        \* callers of reload
  Request,       \* runs
  Prompt, Root,  \* names
  Text,          \* prompt texts
  Content,       \* the contents each file may have, by file
  Initial,       \* directories at start
  MaxEdits,      \* bound: edits of the directory
  MaxRevision    \* bound: revisions

\* What a build reads, in order; of the schemas, first which modules there are.
ReadOrder == <<"project", "models", "agents", "tools", "workflow", "schemas">>

Files == {ReadOrder[i] : i \in DOMAIN ReadOrder}

ASSUME ThreadAssumption == None \notin Thread

\* What a file refers to has a name, and a tool is of one of the types.
ASSUME ContentAssumption ==
  /\ DOMAIN Content = Files
  /\ \A agents \in Content.agents \ {Bad} : \A a \in DOMAIN agents : agents[a].prompt \in Prompt
  /\ \A x \in Content.tools \ {Bad} :
       \A tool \in DOMAIN x.tools : x.tools[tool].type \in {"builtin", "http", "mcp"}
  /\ \A s \in Content.schemas \ {Bad} : s = [m \in DOMAIN s |-> s[m]]

VARIABLES
  disk,        \* the directory
  edits,
  snapshot,    \* the runtime published last
  published,   \* every runtime published
  reloading,   \* who holds the reload lock, or none
  build,       \* the build under way
  run          \* the runtime each run has captured, and what it has built

vars == <<disk, edits, snapshot, published, reloading, build, run>>

----------------------------------------------------------------------------
(* What a build asks of the contents x: x[file] for each file. *)

\* ModelRegistry.resolve_openai.
ModelResolves(x, a) ==
  LET model == x.agents[a].model
  IN model \in DOMAIN x.models /\ x.models[model] = "openai"

Classes(schemas) == UNION {schemas[m] : m \in DOMAIN schemas}

OneClassPerName(schemas) ==
  \A m, n \in DOMAIN schemas : m # n => schemas[m] \cap schemas[n] = {}

SchemasKnown(x, a) ==
  /\ x.agents[a].input # None => x.agents[a].input \in Classes(x.schemas)
  /\ x.agents[a].output # None => x.agents[a].output \in Classes(x.schemas)

\* ToolRegistry.validate, with the roots that are directories now.
ToolValid(x, tool, roots) ==
  tool \in DOMAIN x.tools.tools /\
  LET t == x.tools.tools[tool]
  IN CASE t.type = "builtin" -> t.root \in roots
       [] t.type = "http"    -> t.url # Bad
       [] t.type = "mcp"     -> /\ t.server \in DOMAIN x.tools.servers
                                /\ x.tools.servers[t.server] # Bad

WorkflowAgents(w) ==
  IF w.type = "orchestrator" THEN {w.manager} \cup w.specialists ELSE w.agents

\* The workflow's agents exist; specialists are handed text; and the executor
\* accepts a graph (WorkflowGraph).
WorkflowValid(x) ==
  /\ WorkflowAgents(x.workflow) \subseteq DOMAIN x.agents
  /\ IF x.workflow.type = "orchestrator"
     THEN \A a \in x.workflow.specialists : x.agents[a].input = None
     ELSE x.workflow.accepted

PromptsOf(agents) == {agents[a].prompt : a \in DOMAIN agents}

\* A directory that a build accepts if no one touches it.
Sound(d) ==
  /\ \A f \in Files : d[f] # Bad
  /\ \A m \in DOMAIN d.schemas : d.schemas[m] # Bad
  /\ OneClassPerName(d.schemas)
  /\ \A a \in DOMAIN d.agents :
       /\ ModelResolves(d, a) /\ SchemasKnown(d, a)
       /\ d.prompts[d.agents[a].prompt] \notin {None, Bad}
       /\ \A tool \in d.agents[a].tools : ToolValid(d, tool, d.roots)
  /\ WorkflowValid(d)

IsDirectory(d) ==
  /\ DOMAIN d = Files \cup {"prompts", "roots"}
  /\ \A f \in Files : d[f] \in Content[f]
  /\ d.prompts \in [Prompt -> Text \cup {None, Bad}]
  /\ d.roots \subseteq Root

ASSUME InitialAssumption == \A d \in Initial : IsDirectory(d) /\ Sound(d)

FilesOf(x) == [f \in Files |-> x[f]]

\* A runtime: what was read, with the text of every prompt an agent uses.
Runtime(revision, x, frozen) ==
  [revision |-> revision, files |-> FilesOf(x), frozen |-> frozen]

RuntimeOn(revision, d) ==
  Runtime(revision, d, [p \in PromptsOf(d.agents) |-> d.prompts[p]])

----------------------------------------------------------------------------
NoBuild == [step |-> "idle"]
NotYet  == [step |-> "waiting"]

Init ==
  /\ disk \in Initial
  /\ edits = 0
  /\ snapshot = RuntimeOn(1, disk)
  /\ published = {snapshot}
  /\ reloading = None
  /\ build = [t \in Thread |-> NoBuild]
  /\ run = [r \in Request |-> NotYet]

----------------------------------------------------------------------------
(* The directory is edited, one file at a time, the schema modules together. *)

Edit ==
  /\ edits < MaxEdits
  /\ edits' = edits + 1
  /\ \/ \E f \in DOMAIN Content : \E c \in Content[f] : disk' = [disk EXCEPT ![f] = c]
     \/ \E p \in Prompt, x \in Text \cup {None, Bad} : disk' = [disk EXCEPT !.prompts[p] = x]
     \/ \E d \in Root : disk' = [disk EXCEPT !.roots = IF d \in @ THEN @ \ {d} ELSE @ \cup {d}]
  /\ disk' # disk
  /\ UNCHANGED <<snapshot, published, reloading, build, run>>

----------------------------------------------------------------------------
(* reload *)

ReferencesChecked(b) ==
  b.step = "references" /\ b.modules = {} /\ b.prompts = {} /\ b.tools = {}

\* Seeded fault: the lock is given up before the candidate is published.
MayReloadEarly(t) == \A u \in Thread : build[u].step = "idle" \/ ReferencesChecked(build[u])

MayReload(t) == reloading = None

Building(t, b) == build' = [build EXCEPT ![t] = b]

\* The caller takes the reload lock and numbers its candidate.
BeginReload(t) ==
  /\ build[t].step = "idle" /\ MayReload(t)
  /\ snapshot.revision < MaxRevision
  /\ reloading' = t
  /\ Building(t, [step |-> "read", revision |-> snapshot.revision + 1, began |-> edits,
                  files |-> <<>>])
  /\ UNCHANGED <<disk, edits, snapshot, published, run>>

\* What is read next.
NextFile(b) == ReadOrder[Cardinality(DOMAIN b.files) + 1]

Grown(f, key, x) == [k \in DOMAIN f \cup {key} |-> IF k = key THEN x ELSE f[k]]

Reads(t) ==
  LET b == build[t]
      f == NextFile(b)
  IN /\ b.step = "read" /\ f # "schemas" /\ disk[f] # Bad
     /\ Building(t, [b EXCEPT !.files = Grown(@, f, disk[f])])
     /\ UNCHANGED <<disk, edits, snapshot, published, reloading, run>>

\* SchemaLoader.discover lists the schema modules; they are to be imported, and
\* the references are then due.
Discovers(t) ==
  LET b == build[t]
  IN /\ b.step = "read" /\ NextFile(b) = "schemas" /\ disk.schemas # Bad
     /\ Building(t, [step |-> "references", revision |-> b.revision, began |-> b.began,
                     files |-> Grown(b.files, "schemas", <<>>),
                     modules |-> DOMAIN disk.schemas,
                     prompts |-> DOMAIN b.files.agents, tools |-> {}, frozen |-> <<>>])
     /\ UNCHANGED <<disk, edits, snapshot, published, reloading, run>>

\* The module is still there, is well formed, and names no class there is.
Importable(b, m) ==
  /\ disk.schemas # Bad
  /\ m \in DOMAIN disk.schemas
  /\ disk.schemas[m] # Bad
  /\ disk.schemas[m] \cap Classes(b.files.schemas) = {}

WithModule(files, m) == [files EXCEPT !.schemas = Grown(@, m, disk.schemas[m])]

Imports(t) ==
  LET b == build[t]
  IN /\ b.step = "references"
     /\ \E m \in b.modules :
          /\ Importable(b, m)
          /\ Building(t, [b EXCEPT !.modules = @ \ {m}, !.files = WithModule(@, m)])
     /\ UNCHANGED <<disk, edits, snapshot, published, reloading, run>>

\* Seeded fault: one loader serves all revisions.
LoadShared(frozen, p) == IF p \in DOMAIN snapshot.frozen THEN snapshot.frozen[p] ELSE disk.prompts[p]

\* PromptLoader.load: a prompt that is frozen is not read again.
Load(frozen, p) == IF p \in DOMAIN frozen THEN frozen[p] ELSE disk.prompts[p]

\* Seeded fault: a validated prompt's text is not kept.
ForgottenPrompt(b, p) == b.frozen

\* PromptLoader.validate keeps the text it has checked.
FrozenWith(b, p) == Grown(b.frozen, p, Load(b.frozen, p))

AgentResolves(b, a) ==
  /\ ModelResolves(b.files, a)
  /\ Load(b.frozen, b.files.agents[a].prompt) \notin {None, Bad}
  /\ SchemasKnown(b.files, a)

\* The next agent's model, prompt and schemas; its tools are then due.
ChecksAgent(t) ==
  LET b == build[t]
  IN /\ b.step = "references" /\ b.modules = {} /\ b.tools = {}
     /\ \E a \in b.prompts :
          /\ AgentResolves(b, a)
          /\ Building(t, [b EXCEPT !.prompts = @ \ {a}, !.tools = b.files.agents[a].tools,
                                   !.frozen = FrozenWith(b, b.files.agents[a].prompt)])
     /\ UNCHANGED <<disk, edits, snapshot, published, reloading, run>>

ChecksTool(t) ==
  LET b == build[t]
  IN /\ b.step = "references"
     /\ \E tool \in b.tools :
          ToolValid(b.files, tool, disk.roots) /\ Building(t, [b EXCEPT !.tools = @ \ {tool}])
     /\ UNCHANGED <<disk, edits, snapshot, published, reloading, run>>

\* A reload that ends, either way, gives up the lock.
GivesUp(t) == Building(t, NoBuild) /\ reloading' = None

\* The workflow is valid too: the candidate is published and returned.
Publishes(t) ==
  LET b == build[t]
  IN /\ ReferencesChecked(b) /\ WorkflowValid(b.files)
     /\ snapshot' = Runtime(b.revision, b.files, b.frozen)
     /\ published' = published \cup {snapshot'}
     /\ GivesUp(t)
     /\ UNCHANGED <<disk, edits, run>>

\* A ConfigurationError ends the reload; the published runtime stays.
Refuses(t) ==
  LET b == build[t]
  IN /\ \/ b.step = "read" /\ disk[NextFile(b)] = Bad
        \/ b.step = "references" /\ \E m \in b.modules : ~Importable(b, m)
        \/ /\ b.step = "references" /\ b.modules = {} /\ b.tools = {}
           /\ \E a \in b.prompts : ~AgentResolves(b, a)
        \/ b.step = "references" /\ \E tool \in b.tools : ~ToolValid(b.files, tool, disk.roots)
        \/ ReferencesChecked(b) /\ ~WorkflowValid(b.files)
     /\ GivesUp(t)
     /\ UNCHANGED <<disk, edits, snapshot, published, run>>

----------------------------------------------------------------------------
(* Runs. *)

\* snapshot() takes only the lock that is held to swap the runtime, so a run
\* begins whatever reload is under way.
Capture(r) ==
  /\ run[r] = NotYet
  /\ run' = [run EXCEPT ![r] = [step |-> "running", runtime |-> snapshot, built |-> {}]]
  /\ UNCHANGED <<disk, edits, snapshot, published, reloading, build>>

\* Seeded fault: a run looks at the runtime published last.
LatestRuntime(r) == snapshot

RuntimeOf(r) == run[r].runtime

\* AgentFactory.build, for an agent of the workflow, at any time of the run:
\* what it finds, and the tools that are not valid any more.
Builds(r) ==
  /\ run[r].step = "running"
  /\ \E a \in WorkflowAgents(run[r].runtime.files.workflow) :
       LET x == RuntimeOf(r).files
           found ==
             IF a \notin DOMAIN x.agents THEN [agent |-> a, found |-> FALSE]
             ELSE [agent |-> a, found |-> ModelResolves(x, a) /\ SchemasKnown(x, a),
                   text |-> Load(RuntimeOf(r).frozen, x.agents[a].prompt),
                   refused |-> {tool \in x.agents[a].tools : ~ToolValid(x, tool, disk.roots)},
                   missing |-> {tool \in x.agents[a].tools :
                                  /\ x.tools.tools[tool].type = "builtin"
                                  /\ x.tools.tools[tool].root \notin disk.roots}]
       IN run' = [run EXCEPT ![r].built = @ \cup {found}]
  /\ UNCHANGED <<disk, edits, snapshot, published, reloading, build>>

----------------------------------------------------------------------------
Reload(t) == BeginReload(t) \/ Reads(t) \/ Discovers(t) \/ Imports(t) \/ ChecksAgent(t)
             \/ ChecksTool(t) \/ Publishes(t) \/ Refuses(t)

Next ==
  \/ Edit
  \/ \E t \in Thread : Reload(t)
  \/ \E r \in Request : Capture(r) \/ Builds(r)

Spec == Init /\ [][Next]_vars

----------------------------------------------------------------------------
(* Properties. *)

\* A runtime whose every reference resolves within it.
Coherent(x) ==
  /\ WorkflowValid(x.files) /\ OneClassPerName(x.files.schemas)
  /\ \A a \in DOMAIN x.files.agents :
       /\ ModelResolves(x.files, a) /\ SchemasKnown(x.files, a)
       /\ x.files.agents[a].prompt \in DOMAIN x.frozen
       /\ x.frozen[x.files.agents[a].prompt] \in Text
       /\ \A tool \in x.files.agents[a].tools : ToolValid(x.files, tool, Root)

\* However the directory is edited while it is read, what is published is a
\* runtime whose references resolve, even if no one ever had that directory.
PublishedIsCoherent == \A x \in published : Coherent(x)

\* A revision names one runtime, and they are numbered without a gap.
RevisionsNameRuntimes ==
  /\ \A x, y \in published : x.revision = y.revision => x = y
  /\ {x.revision : x \in published} = 1..snapshot.revision

\* A reload during which nothing is edited publishes the directory as it is if
\* a build accepts it, and otherwise leaves the published runtime alone.
QuietReloadIsExact ==
  [][\A t \in Thread :
       (build[t].step # "idle" /\ build'[t].step = "idle" /\ build[t].began = edits) =>
         snapshot' = IF Sound(disk) THEN RuntimeOn(build[t].revision, disk) ELSE snapshot]_vars

\* To its end a run finds every agent, model, prompt and schema it needs, and
\* finds them unchanged, whatever is edited or reloaded meanwhile; a tool is
\* refused only if the directory it reads is gone.
RunsKeepTheirRevision ==
  \A r, s \in Request : run[r].step = "running" /\ run[s].step = "running" =>
    \A x \in run[r].built :
      /\ x.found /\ x.text \in Text /\ x.refused = x.missing
      /\ run[r].runtime.revision = run[s].runtime.revision =>
           \A y \in run[s].built : x.agent = y.agent => x.text = y.text

============================================================================
