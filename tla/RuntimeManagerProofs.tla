------------------------ MODULE RuntimeManagerProofs ------------------------
(***************************************************************************)
(* Theorems about RuntimeManager, for any directory, any edits of it and   *)
(* any number of callers and runs: what is published is coherent and       *)
(* numbered, a reload that nothing disturbs is exact, and a run keeps the  *)
(* runtime it began with.                                                  *)
(***************************************************************************)
EXTENDS RuntimeManager, FiniteSetTheorems, TLAPS

----------------------------------------------------------------------------
(* The order in which files are read. *)

Prefix(k) == {ReadOrder[i] : i \in 1..k}

LEMMA OrderOfFiles ==
  /\ DOMAIN ReadOrder = 1..6
  /\ \A i, j \in 1..6 : ReadOrder[i] = ReadOrder[j] => i = j
  /\ \A i \in 1..6 : ReadOrder[i] = "schemas" <=> i = 6
  /\ Files = Prefix(6)
  /\ Files = {"project", "models", "agents", "tools", "workflow", "schemas"}
<1>1. DOMAIN ReadOrder = 1..6
  BY DEF ReadOrder
<1>2. \A i \in 1..6 : i = 1 \/ i = 2 \/ i = 3 \/ i = 4 \/ i = 5 \/ i = 6
  OBVIOUS
<1>3. /\ ReadOrder[1] = "project" /\ ReadOrder[2] = "models" /\ ReadOrder[3] = "agents"
      /\ ReadOrder[4] = "tools" /\ ReadOrder[5] = "workflow" /\ ReadOrder[6] = "schemas"
  BY DEF ReadOrder
<1>4. \A i, j \in 1..6 : ReadOrder[i] = ReadOrder[j] => i = j
  BY <1>2, <1>3
<1>5. \A i \in 1..6 : ReadOrder[i] = "schemas" <=> i = 6
  BY <1>2, <1>3
<1>6. Files = Prefix(6)
  BY <1>1 DEF Files, Prefix
<1>7. Files = {"project", "models", "agents", "tools", "workflow", "schemas"}
  BY <1>2, <1>3, <1>6 DEF Prefix
<1>. QED BY <1>1, <1>4, <1>5, <1>6, <1>7

LEMMA PrefixGrows ==
  ASSUME NEW k \in 0..5
  PROVE  /\ Prefix(k + 1) = Prefix(k) \cup {ReadOrder[k + 1]}
         /\ ReadOrder[k + 1] \notin Prefix(k)
<1>1. 1..(k + 1) = 1..k \cup {k + 1} /\ 1..k \subseteq 1..6 /\ k + 1 \in 1..6 /\ k + 1 \notin 1..k
  OBVIOUS
<1>2. Prefix(k + 1) = Prefix(k) \cup {ReadOrder[k + 1]}
  BY <1>1, Zenon DEF Prefix
<1>3. ReadOrder[k + 1] \notin Prefix(k)
  <2>1. SUFFICES ASSUME NEW i \in 1..k, ReadOrder[i] = ReadOrder[k + 1] PROVE FALSE
    BY Zenon DEF Prefix
  <2>. QED BY <1>1, <2>1, OrderOfFiles
<1>. QED BY <1>2, <1>3

LEMMA PrefixSize == \A k \in 0..6 : IsFiniteSet(Prefix(k)) /\ Cardinality(Prefix(k)) = k
<1>. DEFINE Size(k) == IsFiniteSet(Prefix(k)) /\ Cardinality(Prefix(k)) = k
<1>1. Size(0)
  <2>1. Prefix(0) = {}
    BY DEF Prefix
  <2>. QED BY <2>1, FS_EmptySet
<1>2. ASSUME NEW k \in 0..5, Size(k) PROVE Size(k + 1)
  <2>1. /\ Prefix(k + 1) = Prefix(k) \cup {ReadOrder[k + 1]}
        /\ ReadOrder[k + 1] \notin Prefix(k)
    BY PrefixGrows
  <2>2. /\ IsFiniteSet(Prefix(k) \cup {ReadOrder[k + 1]})
        /\ Cardinality(Prefix(k) \cup {ReadOrder[k + 1]}) = k + 1
    BY <1>2, <2>1, FS_AddElement
  <2>. QED BY <2>1, <2>2
<1>3. Size(1) /\ Size(2) /\ Size(3)
  BY <1>1, <1>2
<1>4. Size(4) /\ Size(5) /\ Size(6)
  BY <1>2, <1>3
<1>. QED BY <1>1, <1>3, <1>4

LEMMA NextOfPrefix ==
  ASSUME NEW b, NEW k \in 0..5, DOMAIN b.files = Prefix(k)
  PROVE  /\ NextFile(b) = ReadOrder[k + 1]
         /\ NextFile(b) \in Files
         /\ NextFile(b) # "schemas" => k + 1 \in 0..5
         /\ NextFile(b) = "schemas" => Prefix(k) \cup {"schemas"} = Files
<1>1. NextFile(b) = ReadOrder[k + 1]
  BY PrefixSize DEF NextFile
<1>2. k + 1 \in 1..6
  OBVIOUS
<1>3. NextFile(b) \in Files
  BY <1>1, <1>2, OrderOfFiles DEF Files
<1>4. NextFile(b) # "schemas" => k + 1 # 6
  BY <1>1, <1>2, OrderOfFiles
<1>5. ASSUME NextFile(b) = "schemas" PROVE Prefix(k) \cup {"schemas"} = Files
  <2>1. k + 1 = 6
    BY <1>1, <1>2, <1>5, OrderOfFiles
  <2>. QED BY <1>1, <1>5, <2>1, PrefixGrows, OrderOfFiles
<1>. QED BY <1>1, <1>2, <1>3, <1>4, <1>5

----------------------------------------------------------------------------
(* Questions to the contents, asked of a runtime and of a directory. *)

LEMMA SameAnswers ==
  ASSUME NEW x, NEW y, \A f \in Files : x[f] = y[f]
  PROVE  /\ \A a : ModelResolves(x, a) <=> ModelResolves(y, a)
         /\ \A a : SchemasKnown(x, a) <=> SchemasKnown(y, a)
         /\ \A tool, roots : ToolValid(x, tool, roots) <=> ToolValid(y, tool, roots)
         /\ WorkflowValid(x) <=> WorkflowValid(y)
<1>1. /\ x.models = y.models /\ x.agents = y.agents /\ x.tools = y.tools
      /\ x.workflow = y.workflow /\ x.schemas = y.schemas
  BY OrderOfFiles
<1>. QED BY <1>1 DEF ModelResolves, SchemasKnown, ToolValid, WorkflowValid

LEMMA FilesKept ==
  ASSUME NEW x
  PROVE  /\ \A f \in Files : FilesOf(x)[f] = x[f]
         /\ FilesOf(x).agents = x.agents /\ FilesOf(x).tools = x.tools
         /\ FilesOf(x).workflow = x.workflow /\ FilesOf(x).schemas = x.schemas
<1>1. \A f \in Files : FilesOf(x)[f] = x[f]
  BY DEF FilesOf
<1>. QED BY <1>1, OrderOfFiles

\* A tool that is valid stays so when more roots exist.
LEMMA MoreRoots ==
  ASSUME NEW x, x.tools \in Content.tools \ {Bad}, NEW tool, NEW few, NEW many,
         few \subseteq many
  PROVE  /\ ToolValid(x, tool, few) => ToolValid(x, tool, many)
         /\ ToolValid(x, tool, many) =>
              (~ToolValid(x, tool, few) <=>
                 x.tools.tools[tool].type = "builtin" /\ x.tools.tools[tool].root \notin few)
<1>1. tool \in DOMAIN x.tools.tools => x.tools.tools[tool].type \in {"builtin", "http", "mcp"}
  BY ContentAssumption
<1>. QED BY <1>1 DEF ToolValid

----------------------------------------------------------------------------
(* The inductive invariant. *)

Accepted(x, f) == x[f] \in Content[f] \ {Bad}

DiskInv == IsDirectory(disk) /\ edits \in Nat

\* Only the holder of the lock builds, what comes after the runtime published
\* last, and it began before now.
LockInv ==
  /\ DOMAIN build = Thread
  /\ \A t \in Thread : build[t].step # "idle" =>
       /\ reloading = t
       /\ build[t].revision = snapshot.revision + 1
       /\ build[t].began \in Nat /\ build[t].began <= edits

\* The agents that are not due any more are right, and so are the tools of
\* theirs that are not due.
CheckedIn(b, roots) ==
  \A a \in DOMAIN b.files.agents \ b.prompts :
    /\ ModelResolves(b.files, a) /\ SchemasKnown(b.files, a)
    /\ \A tool \in b.files.agents[a].tools \ b.tools : ToolValid(b.files, tool, roots)

PromptsChecked(b) == {b.files.agents[a].prompt : a \in DOMAIN b.files.agents \ b.prompts}

Reading(b) ==
  /\ b = [step |-> "read", revision |-> b.revision, began |-> b.began, files |-> b.files]
  /\ \E k \in 0..5 : DOMAIN b.files = Prefix(k)
  /\ \A f \in DOMAIN b.files : Accepted(b.files, f)

\* The agents are due only when the modules are imported.
Checking(b) ==
  /\ b = [step |-> "references", revision |-> b.revision, began |-> b.began,
          files |-> b.files, modules |-> b.modules, prompts |-> b.prompts,
          tools |-> b.tools, frozen |-> b.frozen]
  /\ DOMAIN b.files = Files
  /\ b.files = [f \in DOMAIN b.files |-> b.files[f]]
  /\ \A f \in Files \ {"schemas"} : Accepted(b.files, f)
  /\ b.files.schemas = [m \in DOMAIN b.files.schemas |-> b.files.schemas[m]]
  /\ OneClassPerName(b.files.schemas)
  /\ b.modules \cap DOMAIN b.files.schemas = {}
  /\ b.modules # {} => b.prompts = DOMAIN b.files.agents /\ b.tools = {}
  /\ b.prompts \subseteq DOMAIN b.files.agents
  /\ b.tools # {} => \E a \in DOMAIN b.files.agents : b.tools \subseteq b.files.agents[a].tools
  /\ b.frozen \in [PromptsChecked(b) -> Text \ {None, Bad}]
  /\ CheckedIn(b, Root)

BuildInv == \A t \in Thread : build[t] = NoBuild \/ Reading(build[t]) \/ Checking(build[t])

\* A build that no edit has disturbed has read the directory there is.
Undisturbed(b) ==
  /\ \A f \in DOMAIN b.files \ {"schemas"} : b.files[f] = disk[f]
  /\ b.step = "references" =>
       /\ disk.schemas # Bad
       /\ DOMAIN disk.schemas = DOMAIN b.files.schemas \cup b.modules
       /\ \A m \in DOMAIN b.files.schemas :
            b.files.schemas[m] = disk.schemas[m] /\ disk.schemas[m] # Bad
       /\ \A p \in DOMAIN b.frozen : b.frozen[p] = disk.prompts[p]
       /\ CheckedIn(b, disk.roots)

QuietInv ==
  \A t \in Thread : build[t].step # "idle" /\ build[t].began = edits => Undisturbed(build[t])

PublishedInv ==
  /\ snapshot \in published /\ snapshot.revision \in Nat
  /\ \A x \in published : x.files.tools \in Content.tools \ {Bad}
  /\ PublishedIsCoherent
  /\ RevisionsNameRuntimes

\* What a run finds is what its runtime holds.
FoundIn(x, runtime) ==
  /\ x.found /\ x.refused = x.missing
  /\ x.agent \in DOMAIN runtime.files.agents
  /\ x.text = runtime.frozen[runtime.files.agents[x.agent].prompt]

RunningOn(q) ==
  /\ q = [step |-> "running", runtime |-> q.runtime, built |-> q.built]
  /\ q.runtime \in published
  /\ \A x \in q.built : FoundIn(x, q.runtime)

RunInv == DOMAIN run = Request /\ \A r \in Request : run[r] = NotYet \/ RunningOn(run[r])

IInv == DiskInv /\ LockInv /\ BuildInv /\ QuietInv /\ PublishedInv /\ RunInv

LEMMA PublishedKept ==
  ASSUME PublishedInv, UNCHANGED <<snapshot, published>>
  PROVE  PublishedInv'
BY DEF PublishedInv, PublishedIsCoherent, RevisionsNameRuntimes

LEMMA RunKept ==
  ASSUME RunInv, UNCHANGED <<published, run>>
  PROVE  RunInv'
BY DEF RunInv, RunningOn

\* A step of one build, to b, touches no other build.
LEMMA OneBuild ==
  ASSUME DOMAIN build = Thread, NEW t \in Thread, NEW b, Building(t, b)
  PROVE  /\ DOMAIN build' = Thread
         /\ build'[t] = b
         /\ \A u \in Thread : u # t => build'[u] = build[u]
BY DEF Building

LEMMA BuildStep ==
  ASSUME IInv, NEW t \in Thread, NEW b, Building(t, b),
         UNCHANGED <<disk, edits, snapshot, published, run>>,
         b = NoBuild \/ Reading(b) \/ Checking(b),
         b.step # "idle" =>
           /\ reloading' = t
           /\ b.revision = snapshot.revision + 1
           /\ b.began \in Nat /\ b.began <= edits
           /\ b.began = edits => Undisturbed(b),
         \A u \in Thread : u # t /\ build[u].step # "idle" => reloading' = u
  PROVE  IInv'
<1>1. /\ DOMAIN build' = Thread
      /\ build'[t] = b
      /\ \A u \in Thread : u # t => build'[u] = build[u]
  BY OneBuild DEF IInv, LockInv
<1>2. DiskInv'
  BY DEF IInv, DiskInv, IsDirectory
<1>3. LockInv'
  BY <1>1 DEF IInv, LockInv
<1>4. BuildInv'
  BY <1>1 DEF IInv, BuildInv
<1>5. QuietInv'
  BY <1>1 DEF IInv, QuietInv, Undisturbed
<1>6. PublishedInv' /\ RunInv'
  BY PublishedKept, RunKept DEF IInv
<1>. QED BY <1>2, <1>3, <1>4, <1>5, <1>6 DEF IInv

LEMMA BeginStep == ASSUME IInv, NEW t \in Thread, BeginReload(t) PROVE IInv'
<1>. DEFINE b == [step |-> "read", revision |-> snapshot.revision + 1, began |-> edits,
                  files |-> <<>>]
<1>1. Building(t, b) /\ UNCHANGED <<disk, edits, snapshot, published, run>>
  BY DEF BeginReload
<1>2. \A u \in Thread : build[u].step = "idle"
  BY ThreadAssumption DEF BeginReload, MayReload, IInv, LockInv
<1>3. DOMAIN b.files = {} /\ Prefix(0) = {}
  BY DEF Prefix
<1>4. Reading(b)
  BY <1>3 DEF Reading
<1>5. Undisturbed(b)
  BY <1>3 DEF Undisturbed
<1>6. /\ reloading' = t /\ b.revision = snapshot.revision + 1
      /\ b.began \in Nat /\ b.began <= edits
  BY DEF BeginReload, IInv, DiskInv
<1>. HIDE DEF b
<1>. QED BY <1>1, <1>2, <1>4, <1>5, <1>6, BuildStep

\* The build that reloads is the only one.
LEMMA OnlyBuild ==
  ASSUME IInv, NEW t \in Thread, build[t].step # "idle"
  PROVE  /\ reloading = t
         /\ \A u \in Thread : u # t => build[u].step = "idle"
         /\ build[t].revision = snapshot.revision + 1
         /\ build[t].began \in Nat /\ build[t].began <= edits
         /\ build[t].began = edits => Undisturbed(build[t])
         /\ build[t].step = "read" => Reading(build[t])
         /\ build[t].step = "references" => Checking(build[t])
         /\ build[t].step \in {"read", "references"}
<1>1. build[t] = NoBuild \/ Reading(build[t]) \/ Checking(build[t])
  BY DEF IInv, BuildInv
<1>2. /\ NoBuild.step = "idle"
      /\ Reading(build[t]) => build[t].step = "read"
      /\ Checking(build[t]) => build[t].step = "references"
  BY DEF NoBuild, Reading, Checking
<1>3. /\ build[t].step = "read" => Reading(build[t])
      /\ build[t].step = "references" => Checking(build[t])
      /\ build[t].step \in {"read", "references"}
  BY <1>1, <1>2
<1>. QED BY <1>3 DEF IInv, LockInv, QuietInv

\* The next build keeps the lock, its number and its beginning.
LEMMA Continues ==
  ASSUME IInv, NEW t \in Thread, build[t].step # "idle", NEW b, Building(t, b),
         UNCHANGED <<disk, edits, snapshot, published, reloading, run>>,
         Reading(b) \/ Checking(b),
         b.revision = build[t].revision, b.began = build[t].began,
         Undisturbed(build[t]) => Undisturbed(b)
  PROVE  IInv'
<1>1. /\ reloading' = t
      /\ b.revision = snapshot.revision + 1
      /\ b.began \in Nat /\ b.began <= edits
      /\ b.began = edits => Undisturbed(b)
  BY OnlyBuild
<1>2. \A u \in Thread : u # t /\ build[u].step # "idle" => reloading' = u
  BY OnlyBuild
<1>. QED BY <1>1, <1>2, BuildStep

LEMMA ReadsStep == ASSUME IInv, NEW t \in Thread, Reads(t) PROVE IInv'
<1>. DEFINE f == NextFile(build[t])
            files == Grown(build[t].files, f, disk[f])
            b == [step |-> "read", revision |-> build[t].revision, began |-> build[t].began,
                  files |-> files]
<1>1. build[t].step = "read" /\ f # "schemas" /\ disk[f] # Bad
  BY DEF Reads
<1>2. build[t].step # "idle" /\ Reading(build[t])
  BY <1>1, OnlyBuild
<1>3. Building(t, b) /\ UNCHANGED <<disk, edits, snapshot, published, reloading, run>>
  <2>1. Building(t, [build[t] EXCEPT !.files = Grown(@, f, disk[f])])
    BY DEF Reads
  <2>2. build[t] = [step |-> "read", revision |-> build[t].revision, began |-> build[t].began,
                    files |-> build[t].files]
    BY <1>2 DEF Reading
  <2>3. [build[t] EXCEPT !.files = Grown(@, f, disk[f])] = b
    BY <2>2
  <2>. QED BY <2>1, <2>3 DEF Reads
<1>4. /\ DOMAIN files = DOMAIN build[t].files \cup {f}
      /\ files[f] = disk[f]
      /\ \A g \in DOMAIN build[t].files : g # f => files[g] = build[t].files[g]
  BY DEF Grown
<1>. HIDE DEF files
<1>5. PICK k \in 0..5 : DOMAIN build[t].files = Prefix(k)
  BY <1>2 DEF Reading
<1>6. f = ReadOrder[k + 1] /\ f \in Files /\ k + 1 \in 0..5
  BY <1>1, <1>5, NextOfPrefix
<1>7. DOMAIN files = Prefix(k + 1)
  BY <1>4, <1>5, <1>6, PrefixGrows
<1>8. \A g \in DOMAIN files : Accepted(files, g)
  <2>1. Accepted(files, f)
    BY <1>1, <1>4, <1>6 DEF IInv, DiskInv, IsDirectory, Accepted
  <2>2. \A g \in DOMAIN build[t].files : Accepted(build[t].files, g)
    BY <1>2 DEF Reading
  <2>. QED BY <1>4, <2>1, <2>2 DEF Accepted
<1>9. Reading(b)
  BY <1>6, <1>7, <1>8 DEF Reading
<1>10. Undisturbed(build[t]) => Undisturbed(b)
  BY <1>4 DEF Undisturbed
<1>11. b.revision = build[t].revision /\ b.began = build[t].began
  OBVIOUS
<1>. HIDE DEF b
<1>. QED BY <1>2, <1>3, <1>9, <1>10, <1>11, Continues

LEMMA DiscoversStep == ASSUME IInv, NEW t \in Thread, Discovers(t) PROVE IInv'
<1>. DEFINE files == Grown(build[t].files, "schemas", <<>>)
            b == [step |-> "references", revision |-> build[t].revision,
                  began |-> build[t].began, files |-> files,
                  modules |-> DOMAIN disk.schemas,
                  prompts |-> DOMAIN build[t].files.agents, tools |-> {}, frozen |-> <<>>]
<1>1. build[t].step = "read" /\ NextFile(build[t]) = "schemas" /\ disk.schemas # Bad
  BY DEF Discovers
<1>2. build[t].step # "idle" /\ Reading(build[t])
  BY <1>1, OnlyBuild
<1>3. Building(t, b) /\ UNCHANGED <<disk, edits, snapshot, published, reloading, run>>
  BY DEF Discovers, Building
<1>4. /\ DOMAIN files = DOMAIN build[t].files \cup {"schemas"}
      /\ files["schemas"] = <<>>
      /\ \A g \in DOMAIN build[t].files : g # "schemas" => files[g] = build[t].files[g]
      /\ files = [g \in DOMAIN files |-> files[g]]
  BY DEF Grown
<1>. HIDE DEF files
<1>5. PICK k \in 0..5 : DOMAIN build[t].files = Prefix(k)
  BY <1>2 DEF Reading
<1>6. DOMAIN files = Files
  BY <1>1, <1>4, <1>5, NextOfPrefix
<1>7. \A g \in Files \ {"schemas"} : Accepted(files, g)
  <2>1. \A g \in DOMAIN build[t].files : Accepted(build[t].files, g)
    BY <1>2 DEF Reading
  <2>. QED BY <1>4, <1>6, <2>1 DEF Accepted
<1>8. files.agents = build[t].files.agents
  <2>1. "agents" \in Files /\ "agents" # "schemas"
    BY OrderOfFiles
  <2>. QED BY <1>4, <1>6, <2>1
<1>9. PromptsChecked(b) = {}
  BY <1>8 DEF PromptsChecked
<1>10. \A roots : CheckedIn(b, roots)
  BY <1>8 DEF CheckedIn
<1>11. DOMAIN files.schemas = {} /\ files.schemas = [m \in {} |-> files.schemas[m]]
  BY <1>4
<1>12. Checking(b)
  <2>1. b.frozen \in [{} -> Text \ {None, Bad}]
    OBVIOUS
  <2>2. OneClassPerName(files.schemas)
    BY <1>11 DEF OneClassPerName
  <2>. QED BY <1>4, <1>6, <1>7, <1>8, <1>9, <1>10, <1>11, <2>1, <2>2 DEF Checking
<1>13. Undisturbed(build[t]) => Undisturbed(b)
  <2>1. ASSUME Undisturbed(build[t])
        PROVE \A g \in DOMAIN b.files \ {"schemas"} : b.files[g] = disk[g]
    BY <1>4, <2>1 DEF Undisturbed
  <2>2. DOMAIN b.frozen = {}
    OBVIOUS
  <2>. QED BY <1>1, <1>10, <1>11, <2>1, <2>2 DEF Undisturbed
<1>14. b.revision = build[t].revision /\ b.began = build[t].began
  OBVIOUS
<1>. HIDE DEF b
<1>. QED BY <1>2, <1>3, <1>12, <1>13, <1>14, Continues

LEMMA ImportsStep == ASSUME IInv, NEW t \in Thread, Imports(t) PROVE IInv'
<1>1. build[t].step = "references"
  BY DEF Imports
<1>2. build[t].step # "idle" /\ Checking(build[t])
  BY <1>1, OnlyBuild
<1>3. PICK m \in build[t].modules :
        /\ Importable(build[t], m)
        /\ Building(t, [build[t] EXCEPT !.modules = @ \ {m}, !.files = WithModule(@, m)])
  BY DEF Imports
<1>. DEFINE old == build[t].files
            schemas == Grown(old.schemas, m, disk.schemas[m])
            files == WithModule(old, m)
            b == [step |-> "references", revision |-> build[t].revision,
                  began |-> build[t].began, files |-> files,
                  modules |-> build[t].modules \ {m}, prompts |-> build[t].prompts,
                  tools |-> build[t].tools, frozen |-> build[t].frozen]
<1>4. /\ build[t] = [step |-> "references", revision |-> build[t].revision,
                     began |-> build[t].began, files |-> old, modules |-> build[t].modules,
                     prompts |-> build[t].prompts, tools |-> build[t].tools,
                     frozen |-> build[t].frozen]
      /\ DOMAIN old = Files /\ old = [f \in DOMAIN old |-> old[f]]
      /\ old.schemas = [n \in DOMAIN old.schemas |-> old.schemas[n]]
      /\ OneClassPerName(old.schemas)
      /\ build[t].modules \cap DOMAIN old.schemas = {}
      /\ build[t].prompts = DOMAIN old.agents /\ build[t].tools = {}
  BY <1>2, <1>3 DEF Checking
<1>5. Building(t, b) /\ UNCHANGED <<disk, edits, snapshot, published, reloading, run>>
  <2>. DEFINE c == [build[t] EXCEPT !.modules = @ \ {m}]
  <2>1. c = [step |-> "references", revision |-> build[t].revision,
             began |-> build[t].began, files |-> old, modules |-> build[t].modules \ {m},
             prompts |-> build[t].prompts, tools |-> build[t].tools,
             frozen |-> build[t].frozen]
    <3>. HIDE DEF old
    <3>1. build[t] = [step |-> "references", revision |-> build[t].revision,
                      began |-> build[t].began, files |-> old, modules |-> build[t].modules,
                      prompts |-> build[t].prompts, tools |-> build[t].tools,
                      frozen |-> build[t].frozen]
      BY <1>4
    <3>. QED BY <3>1
  <2>2. [build[t] EXCEPT !.modules = @ \ {m}, !.files = WithModule(@, m)] =
          [c EXCEPT !.files = files]
    BY <1>4
  <2>. HIDE DEF c, files
  <2>3. [c EXCEPT !.files = files] = b
    BY <2>1
  <2>. QED BY <1>3, <2>2, <2>3 DEF Imports, files
<1>6. /\ files = [old EXCEPT !["schemas"] = schemas]
      /\ "schemas" \in DOMAIN old /\ "agents" \in DOMAIN old
  BY <1>4, OrderOfFiles DEF WithModule
<1>7. /\ DOMAIN schemas = DOMAIN old.schemas \cup {m}
      /\ schemas[m] = disk.schemas[m]
      /\ \A n \in DOMAIN old.schemas : n # m => schemas[n] = old.schemas[n]
      /\ schemas = [n \in DOMAIN schemas |-> schemas[n]]
  BY DEF Grown
<1>. HIDE DEF schemas
<1>8. /\ DOMAIN files = Files
      /\ files.schemas = schemas
      /\ \A f \in Files \ {"schemas"} : files[f] = old[f]
      /\ files.agents = old.agents
      /\ files = [f \in DOMAIN files |-> files[f]]
  BY <1>4, <1>6
<1>. HIDE DEF files
<1>9. OneClassPerName(schemas)
  <2>1. \A n \in DOMAIN old.schemas : disk.schemas[m] \cap old.schemas[n] = {}
    BY <1>3 DEF Importable, Classes
  <2>. QED BY <1>4, <1>7, <2>1 DEF OneClassPerName
<1>10. PromptsChecked(b) = {} /\ PromptsChecked(build[t]) = {}
  BY <1>4, <1>8 DEF PromptsChecked
<1>11. \A roots : CheckedIn(b, roots)
  BY <1>4, <1>8 DEF CheckedIn
<1>12. Checking(b)
  <2>1. \A f \in Files \ {"schemas"} : Accepted(files, f)
    BY <1>2, <1>8 DEF Checking, Accepted
  <2>2. b.frozen \in [PromptsChecked(b) -> Text \ {None, Bad}]
    BY <1>2, <1>10 DEF Checking
  <2>. QED BY <1>4, <1>7, <1>8, <1>9, <1>11, <2>1, <2>2, ZenonT(60) DEF Checking
<1>13. Undisturbed(build[t]) => Undisturbed(b)
  <2>1. ASSUME Undisturbed(build[t]) PROVE Undisturbed(b)
    <3>1. \A f \in DOMAIN b.files \ {"schemas"} : b.files[f] = disk[f]
      BY <1>4, <1>8, <2>1 DEF Undisturbed
    <3>2. /\ disk.schemas # Bad
          /\ DOMAIN disk.schemas = DOMAIN b.files.schemas \cup b.modules
          /\ \A n \in DOMAIN b.files.schemas :
               b.files.schemas[n] = disk.schemas[n] /\ disk.schemas[n] # Bad
      BY <1>1, <1>3, <1>7, <1>8, <2>1 DEF Undisturbed, Importable
    <3>3. \A p \in DOMAIN b.frozen : b.frozen[p] = disk.prompts[p]
      BY <1>1, <2>1 DEF Undisturbed
    <3>. QED BY <1>11, <3>1, <3>2, <3>3 DEF Undisturbed
  <2>. QED BY <2>1
<1>14. b.revision = build[t].revision /\ b.began = build[t].began
  OBVIOUS
<1>. HIDE DEF b
<1>. QED BY <1>2, <1>5, <1>12, <1>13, <1>14, Continues

\* An agent's prompt is loaded as it is in a sound directory.
LEMMA PromptLoaded ==
  ASSUME DiskInv, NEW b, Checking(b), NEW a \in DOMAIN b.files.agents,
         Load(b.frozen, b.files.agents[a].prompt) \notin {None, Bad}
  PROVE  Load(b.frozen, b.files.agents[a].prompt) \in Text \ {None, Bad}
<1>. DEFINE p == b.files.agents[a].prompt
<1>1. b.files.agents \in Content.agents \ {Bad}
  BY OrderOfFiles DEF Checking, Accepted
<1>2. p \in Prompt
  BY <1>1, ContentAssumption
<1>3. disk.prompts[p] \in Text \cup {None, Bad}
  BY <1>2 DEF DiskInv, IsDirectory
<1>4. b.frozen \in [PromptsChecked(b) -> Text \ {None, Bad}]
  BY DEF Checking
<1>5. CASE p \in DOMAIN b.frozen
  BY <1>4, <1>5 DEF Load
<1>6. CASE p \notin DOMAIN b.frozen
  BY <1>3, <1>6 DEF Load
<1>. QED BY <1>5, <1>6

LEMMA CheckedRecord ==
  ASSUME NEW b, Checking(b), NEW x, NEW y, NEW z
  PROVE  [b EXCEPT !.prompts = x, !.tools = y, !.frozen = z] =
           [step |-> "references", revision |-> b.revision, began |-> b.began,
            files |-> b.files, modules |-> b.modules, prompts |-> x, tools |-> y,
            frozen |-> z]
<1>1. b = [step |-> "references", revision |-> b.revision, began |-> b.began,
           files |-> b.files, modules |-> b.modules, prompts |-> b.prompts,
           tools |-> b.tools, frozen |-> b.frozen]
  BY DEF Checking
<1>. DEFINE c == [b EXCEPT !.prompts = x]
            d == [c EXCEPT !.tools = y]
<1>2. [b EXCEPT !.prompts = x, !.tools = y, !.frozen = z] = [d EXCEPT !.frozen = z]
  OBVIOUS
<1>3. c = [step |-> "references", revision |-> b.revision, began |-> b.began,
           files |-> b.files, modules |-> b.modules, prompts |-> x, tools |-> b.tools,
           frozen |-> b.frozen]
  BY <1>1
<1>. HIDE DEF c
<1>4. d = [step |-> "references", revision |-> b.revision, began |-> b.began,
           files |-> b.files, modules |-> b.modules, prompts |-> x, tools |-> y,
           frozen |-> b.frozen]
  BY <1>3
<1>. HIDE DEF d
<1>. QED BY <1>2, <1>4

LEMMA ChecksAgentStep == ASSUME IInv, NEW t \in Thread, ChecksAgent(t) PROVE IInv'
<1>1. build[t].step = "references" /\ build[t].modules = {} /\ build[t].tools = {}
  BY DEF ChecksAgent
<1>2. build[t].step # "idle" /\ Checking(build[t])
  BY <1>1, OnlyBuild
<1>3. PICK a \in build[t].prompts :
        /\ AgentResolves(build[t], a)
        /\ Building(t, [build[t] EXCEPT !.prompts = @ \ {a},
                                        !.tools = build[t].files.agents[a].tools,
                                        !.frozen = FrozenWith(build[t], build[t].files.agents[a].prompt)])
  BY DEF ChecksAgent
<1>. DEFINE p == build[t].files.agents[a].prompt
            frozen == FrozenWith(build[t], p)
            b == [step |-> "references", revision |-> build[t].revision,
                  began |-> build[t].began, files |-> build[t].files,
                  modules |-> build[t].modules, prompts |-> build[t].prompts \ {a},
                  tools |-> build[t].files.agents[a].tools, frozen |-> frozen]
<1>4. Building(t, b) /\ UNCHANGED <<disk, edits, snapshot, published, reloading, run>>
  <2>1. [build[t] EXCEPT !.prompts = @ \ {a}, !.tools = build[t].files.agents[a].tools,
                         !.frozen = FrozenWith(build[t], p)] = b
    BY <1>2, CheckedRecord
  <2>. QED BY <1>3, <2>1 DEF ChecksAgent
<1>5. a \in DOMAIN build[t].files.agents
  BY <1>2, <1>3 DEF Checking
<1>6. /\ ModelResolves(build[t].files, a) /\ SchemasKnown(build[t].files, a)
      /\ Load(build[t].frozen, p) \in Text \ {None, Bad}
  BY <1>2, <1>3, <1>5, PromptLoaded DEF AgentResolves, IInv
<1>7. /\ DOMAIN frozen = DOMAIN build[t].frozen \cup {p}
      /\ frozen[p] = Load(build[t].frozen, p)
      /\ \A q \in DOMAIN build[t].frozen : frozen[q] = build[t].frozen[q]
      /\ frozen = [q \in DOMAIN frozen |-> frozen[q]]
  BY DEF FrozenWith, Grown, Load
<1>. HIDE DEF frozen
<1>8. DOMAIN b.files.agents \ b.prompts = (DOMAIN build[t].files.agents \ build[t].prompts) \cup {a}
  BY <1>5
<1>9. PromptsChecked(b) = PromptsChecked(build[t]) \cup {p}
  BY <1>8 DEF PromptsChecked
<1>10. frozen \in [PromptsChecked(b) -> Text \ {None, Bad}]
  <2>1. build[t].frozen \in [PromptsChecked(build[t]) -> Text \ {None, Bad}]
    BY <1>2 DEF Checking
  <2>2. DOMAIN frozen = PromptsChecked(b)
    BY <1>7, <1>9, <2>1
  <2>3. \A q \in DOMAIN frozen : frozen[q] \in Text \ {None, Bad}
    BY <1>6, <1>7, <2>1
  <2>. QED BY <1>7, <2>2, <2>3
<1>11. ASSUME NEW roots, CheckedIn(build[t], roots) PROVE CheckedIn(b, roots)
  BY <1>1, <1>6, <1>8, <1>11 DEF CheckedIn
<1>12. Checking(b)
  BY <1>1, <1>2, <1>5, <1>10, <1>11 DEF Checking
<1>13. Undisturbed(build[t]) => Undisturbed(b)
  BY <1>1, <1>7, <1>11 DEF Undisturbed, Load
<1>14. b.revision = build[t].revision /\ b.began = build[t].began
  OBVIOUS
<1>. HIDE DEF b
<1>. QED BY <1>2, <1>4, <1>12, <1>13, <1>14, Continues

LEMMA ChecksToolStep == ASSUME IInv, NEW t \in Thread, ChecksTool(t) PROVE IInv'
<1>1. build[t].step = "references"
  BY DEF ChecksTool
<1>2. build[t].step # "idle" /\ Checking(build[t])
  BY <1>1, OnlyBuild
<1>3. PICK tool \in build[t].tools :
        /\ ToolValid(build[t].files, tool, disk.roots)
        /\ Building(t, [build[t] EXCEPT !.tools = @ \ {tool}])
  BY DEF ChecksTool
<1>. DEFINE b == [step |-> "references", revision |-> build[t].revision,
                  began |-> build[t].began, files |-> build[t].files,
                  modules |-> build[t].modules, prompts |-> build[t].prompts,
                  tools |-> build[t].tools \ {tool},
                  frozen |-> build[t].frozen]
<1>4. Building(t, b) /\ UNCHANGED <<disk, edits, snapshot, published, reloading, run>>
  <2>1. build[t] = [step |-> "references", revision |-> build[t].revision,
                    began |-> build[t].began, files |-> build[t].files,
                    modules |-> build[t].modules,
                    prompts |-> build[t].prompts, tools |-> build[t].tools,
                    frozen |-> build[t].frozen]
    BY <1>2 DEF Checking
  <2>2. [build[t] EXCEPT !.tools = @ \ {tool}] = b
    BY <2>1
  <2>. QED BY <1>3, <2>2 DEF ChecksTool
<1>5. ASSUME NEW roots, CheckedIn(build[t], roots), ToolValid(build[t].files, tool, roots)
      PROVE  CheckedIn(b, roots)
  BY <1>5 DEF CheckedIn
<1>6. ToolValid(build[t].files, tool, Root)
  <2>1. build[t].files.tools \in Content.tools \ {Bad}
    BY <1>2, OrderOfFiles DEF Checking, Accepted
  <2>2. disk.roots \subseteq Root
    BY DEF IInv, DiskInv, IsDirectory
  <2>. QED BY <1>3, <2>1, <2>2, MoreRoots
<1>7. PromptsChecked(b) = PromptsChecked(build[t])
  BY DEF PromptsChecked
<1>8. Checking(b)
  BY <1>2, <1>5, <1>6, <1>7 DEF Checking
<1>9. Undisturbed(build[t]) => Undisturbed(b)
  BY <1>1, <1>3, <1>5 DEF Undisturbed
<1>10. b.revision = build[t].revision /\ b.began = build[t].began
  OBVIOUS
<1>. HIDE DEF b
<1>. QED BY <1>2, <1>4, <1>8, <1>9, <1>10, Continues

\* The end of a reload: all builds are idle.
LEMMA GivenUp ==
  ASSUME IInv, NEW t \in Thread, build[t].step # "idle", GivesUp(t), UNCHANGED <<disk, edits>>
  PROVE  DiskInv' /\ LockInv' /\ BuildInv' /\ QuietInv'
<1>1. NoBuild.step = "idle"
  BY DEF NoBuild
<1>2. /\ DOMAIN build' = Thread
      /\ build'[t] = NoBuild
      /\ \A u \in Thread : u # t => build'[u] = build[u]
  BY OneBuild DEF GivesUp, IInv, LockInv
<1>3. \A u \in Thread : build'[u].step = "idle"
  BY <1>1, <1>2, OnlyBuild
<1>4. BuildInv'
  BY <1>2 DEF IInv, BuildInv
<1>. QED BY <1>2, <1>3, <1>4 DEF IInv, DiskInv, IsDirectory, LockInv, QuietInv

LEMMA CandidateCoherent ==
  ASSUME NEW b, Checking(b), ReferencesChecked(b), WorkflowValid(b.files), NEW revision
  PROVE  /\ Coherent(Runtime(revision, b.files, b.frozen))
         /\ Runtime(revision, b.files, b.frozen).files.tools \in Content.tools \ {Bad}
<1>. DEFINE x == Runtime(revision, b.files, b.frozen)
<1>1. x.files = FilesOf(b.files) /\ x.frozen = b.frozen
  BY DEF Runtime
<1>2. /\ \A a : ModelResolves(x.files, a) <=> ModelResolves(b.files, a)
      /\ \A a : SchemasKnown(x.files, a) <=> SchemasKnown(b.files, a)
      /\ \A tool, roots : ToolValid(x.files, tool, roots) <=> ToolValid(b.files, tool, roots)
      /\ WorkflowValid(x.files) <=> WorkflowValid(b.files)
      /\ x.files.agents = b.files.agents /\ x.files.tools = b.files.tools
      /\ x.files.schemas = b.files.schemas
  BY <1>1, FilesKept, SameAnswers
<1>3. b.prompts = {} /\ b.tools = {}
  BY DEF ReferencesChecked
<1>4. b.files.tools \in Content.tools \ {Bad}
  BY OrderOfFiles DEF Checking, Accepted
<1>. HIDE DEF x
<1>5. ASSUME NEW a \in DOMAIN x.files.agents
      PROVE  /\ ModelResolves(x.files, a) /\ SchemasKnown(x.files, a)
             /\ x.files.agents[a].prompt \in DOMAIN x.frozen
             /\ x.frozen[x.files.agents[a].prompt] \in Text
             /\ \A tool \in x.files.agents[a].tools : ToolValid(x.files, tool, Root)
  <2>1. /\ ModelResolves(b.files, a) /\ SchemasKnown(b.files, a)
        /\ \A tool \in b.files.agents[a].tools : ToolValid(b.files, tool, Root)
    BY <1>2, <1>3 DEF Checking, CheckedIn
  <2>2. b.files.agents[a].prompt \in PromptsChecked(b)
    BY <1>2, <1>3 DEF PromptsChecked
  <2>3. b.frozen \in [PromptsChecked(b) -> Text \ {None, Bad}]
    BY DEF Checking
  <2>. QED BY <1>1, <1>2, <2>1, <2>2, <2>3
<1>6. Coherent(x)
  BY <1>2, <1>5 DEF Coherent, Checking
<1>. QED BY <1>2, <1>4, <1>6 DEF x

LEMMA PublishesStep == ASSUME IInv, NEW t \in Thread, Publishes(t) PROVE IInv'
<1>1. /\ ReferencesChecked(build[t]) /\ WorkflowValid(build[t].files)
      /\ GivesUp(t) /\ UNCHANGED <<disk, edits, run>>
      /\ published' = published \cup {snapshot'}
      /\ snapshot' = Runtime(build[t].revision, build[t].files, build[t].frozen)
  BY DEF Publishes
<1>2. build[t].step # "idle" /\ Checking(build[t]) /\ build[t].revision = snapshot.revision + 1
  BY <1>1, OnlyBuild DEF ReferencesChecked
<1>3. DiskInv' /\ LockInv' /\ BuildInv' /\ QuietInv'
  BY <1>1, <1>2, GivenUp
<1>4. Coherent(snapshot') /\ snapshot'.files.tools \in Content.tools \ {Bad}
  BY <1>1, <1>2, CandidateCoherent
<1>5. snapshot'.revision = snapshot.revision + 1
  BY <1>1, <1>2 DEF Runtime
<1>6. snapshot.revision \in Nat /\ {x.revision : x \in published} = 1..snapshot.revision
  BY DEF IInv, PublishedInv, RevisionsNameRuntimes
<1>7. 1..(snapshot.revision + 1) = 1..snapshot.revision \cup {snapshot.revision + 1}
      /\ snapshot.revision + 1 \notin 1..snapshot.revision
  BY <1>6
<1>8. RevisionsNameRuntimes'
  <2>1. {x.revision : x \in published'} = {x.revision : x \in published} \cup {snapshot'.revision}
    BY <1>1
  <2>2. \A x \in published : x.revision # snapshot'.revision
    BY <1>5, <1>6, <1>7
  <2>3. \A x, y \in published' : x.revision = y.revision => x = y
    BY <1>1, <2>2 DEF IInv, PublishedInv, RevisionsNameRuntimes
  <2>. QED BY <1>5, <1>6, <1>7, <2>1, <2>3 DEF RevisionsNameRuntimes
<1>9. PublishedIsCoherent'
  BY <1>1, <1>4 DEF IInv, PublishedInv, PublishedIsCoherent
<1>10. PublishedInv'
  BY <1>1, <1>4, <1>5, <1>8, <1>9 DEF IInv, PublishedInv
<1>11. RunInv'
  BY <1>1 DEF IInv, RunInv, RunningOn
<1>. QED BY <1>3, <1>10, <1>11 DEF IInv

LEMMA RefusesStep == ASSUME IInv, NEW t \in Thread, Refuses(t) PROVE IInv'
<1>1. GivesUp(t) /\ UNCHANGED <<disk, edits, snapshot, published, run>> /\ build[t].step # "idle"
  BY DEF Refuses, ReferencesChecked
<1>2. DiskInv' /\ LockInv' /\ BuildInv' /\ QuietInv'
  BY <1>1, GivenUp
<1>. QED BY <1>1, <1>2, PublishedKept, RunKept DEF IInv

LEMMA EditStep == ASSUME IInv, Edit PROVE IInv'
<1>1. UNCHANGED <<snapshot, published, reloading, build, run>> /\ edits' = edits + 1
  BY DEF Edit
<1>2. edits \in Nat /\ IsDirectory(disk)
  BY DEF IInv, DiskInv
<1>3. IsDirectory(disk')
  <2>1. "prompts" \notin Files /\ "roots" \notin Files
    BY OrderOfFiles
  <2>2. CASE \E f \in DOMAIN Content : \E c \in Content[f] : disk' = [disk EXCEPT ![f] = c]
    BY <1>2, <2>1, <2>2, ContentAssumption DEF IsDirectory
  <2>3. CASE \E p \in Prompt, x \in Text \cup {None, Bad} : disk' = [disk EXCEPT !.prompts[p] = x]
    BY <1>2, <2>1, <2>3 DEF IsDirectory
  <2>4. CASE \E d \in Root :
               disk' = [disk EXCEPT !.roots = IF d \in @ THEN @ \ {d} ELSE @ \cup {d}]
    BY <1>2, <2>1, <2>4 DEF IsDirectory
  <2>. QED BY <2>2, <2>3, <2>4 DEF Edit
<1>4. DiskInv'
  BY <1>1, <1>2, <1>3 DEF DiskInv, IsDirectory
<1>5. LockInv'
  BY <1>1, <1>2 DEF IInv, LockInv
<1>6. QuietInv'
  BY <1>1, <1>2 DEF IInv, LockInv, QuietInv
<1>7. BuildInv'
  BY <1>1 DEF IInv, BuildInv
<1>. QED BY <1>1, <1>4, <1>5, <1>6, <1>7, PublishedKept, RunKept DEF IInv

\* A step of one run, to q, touches nothing else.
LEMMA OneRun ==
  ASSUME IInv, NEW r \in Request, NEW q, run' = [run EXCEPT ![r] = q],
         UNCHANGED <<disk, edits, snapshot, published, reloading, build>>, RunningOn(q)
  PROVE  IInv'
<1>1. RunInv'
  <2>1. DOMAIN run' = Request /\ run'[r] = q /\ \A s \in Request : s # r => run'[s] = run[s]
    BY DEF IInv, RunInv
  <2>. QED BY <2>1 DEF IInv, RunInv, RunningOn
<1>2. DiskInv' /\ LockInv' /\ BuildInv' /\ QuietInv'
  BY DEF IInv, DiskInv, IsDirectory, LockInv, BuildInv, QuietInv, Undisturbed
<1>. QED BY <1>1, <1>2, PublishedKept DEF IInv

LEMMA CaptureStep == ASSUME IInv, NEW r \in Request, Capture(r) PROVE IInv'
<1>. DEFINE q == [step |-> "running", runtime |-> snapshot, built |-> {}]
<1>1. RunningOn(q)
  BY DEF IInv, PublishedInv, RunningOn
<1>2. /\ run' = [run EXCEPT ![r] = q]
      /\ UNCHANGED <<disk, edits, snapshot, published, reloading, build>>
  BY DEF Capture
<1>. HIDE DEF q
<1>. QED BY <1>1, <1>2, OneRun

\* What an agent finds in the files and the prompts of a coherent runtime.
LEMMA AgentFound ==
  ASSUME IInv, NEW x \in published, NEW a \in WorkflowAgents(x.files.workflow)
  PROVE  /\ a \in DOMAIN x.files.agents
         /\ ModelResolves(x.files, a) /\ SchemasKnown(x.files, a)
         /\ Load(x.frozen, x.files.agents[a].prompt) = x.frozen[x.files.agents[a].prompt]
         /\ {tool \in x.files.agents[a].tools : ~ToolValid(x.files, tool, disk.roots)} =
              {tool \in x.files.agents[a].tools :
                 /\ x.files.tools.tools[tool].type = "builtin"
                 /\ x.files.tools.tools[tool].root \notin disk.roots}
<1>1. Coherent(x) /\ x.files.tools \in Content.tools \ {Bad}
  BY DEF IInv, PublishedInv, PublishedIsCoherent
<1>2. a \in DOMAIN x.files.agents
  BY <1>1 DEF Coherent, WorkflowValid
<1>3. disk.roots \subseteq Root
  BY DEF IInv, DiskInv, IsDirectory
<1>4. \A tool \in x.files.agents[a].tools : ToolValid(x.files, tool, Root)
  BY <1>1, <1>2 DEF Coherent
<1>5. \A tool \in x.files.agents[a].tools :
         ~ToolValid(x.files, tool, disk.roots) <=>
           /\ x.files.tools.tools[tool].type = "builtin"
           /\ x.files.tools.tools[tool].root \notin disk.roots
  BY <1>1, <1>3, <1>4, MoreRoots
<1>. QED BY <1>1, <1>2, <1>5 DEF Coherent, Load

LEMMA BuildsStep == ASSUME IInv, NEW r \in Request, Builds(r) PROVE IInv'
<1>. DEFINE x == run[r].runtime.files
<1>1. run[r].step = "running"
  BY DEF Builds
<1>2. RunningOn(run[r])
  <2>1. NotYet.step = "waiting"
    BY DEF NotYet
  <2>. QED BY <1>1, <2>1 DEF IInv, RunInv
<1>3. run[r].runtime \in published
  BY <1>2 DEF RunningOn
<1>. DEFINE Found(a) ==
       [agent |-> a, found |-> ModelResolves(x, a) /\ SchemasKnown(x, a),
        text |-> Load(run[r].runtime.frozen, x.agents[a].prompt),
        refused |-> {tool \in x.agents[a].tools : ~ToolValid(x, tool, disk.roots)},
        missing |-> {tool \in x.agents[a].tools :
                       /\ x.tools.tools[tool].type = "builtin"
                       /\ x.tools.tools[tool].root \notin disk.roots}]
<1>4. PICK a \in WorkflowAgents(x.workflow) :
        run' = [run EXCEPT ![r].built =
                  @ \cup {IF a \notin DOMAIN x.agents THEN [agent |-> a, found |-> FALSE]
                          ELSE Found(a)}]
  BY Zenon DEF Builds, RuntimeOf
<1>5. a \in DOMAIN x.agents /\ FoundIn(Found(a), run[r].runtime)
  BY <1>3, AgentFound DEF FoundIn
<1>. HIDE DEF Found
<1>. DEFINE q == [step |-> "running", runtime |-> run[r].runtime,
                  built |-> run[r].built \cup {Found(a)}]
<1>6. run' = [run EXCEPT ![r] = q]
  <2>1. run' = [run EXCEPT ![r].built = @ \cup {Found(a)}]
    BY <1>4, <1>5
  <2>2. [run[r] EXCEPT !.built = @ \cup {Found(a)}] = q
    <3>1. run[r] = [step |-> "running", runtime |-> run[r].runtime, built |-> run[r].built]
      BY <1>2 DEF RunningOn
    <3>. QED BY <3>1
  <2>. QED BY <2>1, <2>2
<1>7. RunningOn(q)
  BY <1>2, <1>5 DEF RunningOn
<1>8. UNCHANGED <<disk, edits, snapshot, published, reloading, build>>
  BY DEF Builds
<1>. HIDE DEF q
<1>. QED BY <1>6, <1>7, <1>8, OneRun

LEMMA InitInv == Init => IInv
<1>. SUFFICES ASSUME Init PROVE IInv
  OBVIOUS
<1>1. IsDirectory(disk) /\ Sound(disk)
  BY InitialAssumption DEF Init
<1>2. /\ snapshot.files = FilesOf(disk) /\ snapshot.revision = 1
      /\ snapshot.frozen = [p \in PromptsOf(disk.agents) |-> disk.prompts[p]]
  BY DEF Init, RuntimeOn, Runtime
<1>3. /\ \A a : ModelResolves(snapshot.files, a) <=> ModelResolves(disk, a)
      /\ \A a : SchemasKnown(snapshot.files, a) <=> SchemasKnown(disk, a)
      /\ \A tool, roots : ToolValid(snapshot.files, tool, roots) <=> ToolValid(disk, tool, roots)
      /\ WorkflowValid(snapshot.files) <=> WorkflowValid(disk)
      /\ snapshot.files.agents = disk.agents /\ snapshot.files.tools = disk.tools
      /\ snapshot.files.schemas = disk.schemas
  BY <1>2, FilesKept, SameAnswers
<1>4. /\ disk.tools \in Content.tools \ {Bad} /\ disk.agents \in Content.agents \ {Bad}
      /\ disk.roots \subseteq Root
  BY <1>1, OrderOfFiles DEF IsDirectory, Sound
<1>5. ASSUME NEW a \in DOMAIN disk.agents
      PROVE  /\ ModelResolves(disk, a) /\ SchemasKnown(disk, a)
             /\ disk.agents[a].prompt \in PromptsOf(disk.agents)
             /\ disk.prompts[disk.agents[a].prompt] \in Text
             /\ \A tool \in disk.agents[a].tools : ToolValid(disk, tool, Root)
  <2>1. disk.agents[a].prompt \in Prompt
    BY <1>4, ContentAssumption
  <2>2. disk.prompts[disk.agents[a].prompt] \in Text
    BY <1>1, <2>1 DEF Sound, IsDirectory
  <2>3. \A tool \in disk.agents[a].tools : ToolValid(disk, tool, Root)
    BY <1>1, <1>4, MoreRoots DEF Sound
  <2>. QED BY <1>1, <2>2, <2>3 DEF Sound, PromptsOf
<1>6. Coherent(snapshot)
  BY <1>1, <1>2, <1>3, <1>5 DEF Coherent, Sound
<1>7. PublishedInv
  <2>1. published = {snapshot}
    BY DEF Init
  <2>2. {x.revision : x \in published} = 1..snapshot.revision
    BY <1>2, <2>1
  <2>. QED BY <1>2, <1>3, <1>4, <1>6, <2>1, <2>2
       DEF PublishedInv, PublishedIsCoherent, RevisionsNameRuntimes
<1>8. DiskInv /\ LockInv /\ BuildInv /\ QuietInv /\ RunInv
  BY <1>1 DEF Init, DiskInv, LockInv, BuildInv, QuietInv, RunInv, NoBuild
<1>. QED BY <1>7, <1>8 DEF IInv

LEMMA InvStep == ASSUME IInv, [Next]_vars PROVE IInv'
<1>1. CASE Edit
  BY <1>1, EditStep
<1>2. ASSUME NEW t \in Thread, Reload(t) PROVE IInv'
  BY <1>2, BeginStep, ReadsStep, DiscoversStep, ImportsStep, ChecksAgentStep, ChecksToolStep,
     PublishesStep, RefusesStep DEF Reload
<1>3. ASSUME NEW r \in Request, Capture(r) \/ Builds(r) PROVE IInv'
  BY <1>3, CaptureStep, BuildsStep
<1>4. CASE UNCHANGED vars
  <2>1. DiskInv' /\ LockInv' /\ BuildInv' /\ QuietInv'
    BY <1>4 DEF vars, IInv, DiskInv, IsDirectory, LockInv, BuildInv, QuietInv, Undisturbed
  <2>. QED BY <1>4, <2>1, PublishedKept, RunKept DEF vars, IInv
<1>. QED BY <1>1, <1>2, <1>3, <1>4 DEF Next

LEMMA Invariance == Spec => []IInv
<1>1. IInv /\ [Next]_vars => IInv'
  BY InvStep
<1>. QED BY <1>1, InitInv, PTL DEF Spec

\* A build that no edit has disturbed and that has imported every module has
\* read the directory there is.
LEMMA QuietRead ==
  ASSUME IInv, NEW b, Checking(b), Undisturbed(b), b.step = "references", b.modules = {}
  PROVE  /\ \A f \in Files : b.files[f] = disk[f]
         /\ \A m \in DOMAIN disk.schemas : disk.schemas[m] # Bad
         /\ OneClassPerName(disk.schemas)
<1>1. /\ DOMAIN disk.schemas = DOMAIN b.files.schemas
      /\ \A m \in DOMAIN disk.schemas :
           b.files.schemas[m] = disk.schemas[m] /\ disk.schemas[m] # Bad
      /\ disk.schemas # Bad
  BY DEF Undisturbed
<1>2. disk.schemas = [m \in DOMAIN disk.schemas |-> disk.schemas[m]]
  BY <1>1, ContentAssumption, OrderOfFiles DEF IInv, DiskInv, IsDirectory
<1>3. b.files.schemas = [m \in DOMAIN b.files.schemas |-> b.files.schemas[m]]
  BY DEF Checking
<1>4. b.files.schemas = disk.schemas
  BY <1>1, <1>2, <1>3
<1>5. \A f \in Files \ {"schemas"} : b.files[f] = disk[f]
  BY DEF Checking, Undisturbed
<1>. QED BY <1>1, <1>4, <1>5 DEF Checking

\* A build that is done, and that no edit has disturbed, has found what a build
\* of the directory there is would find.
LEMMA QuietEnd ==
  ASSUME IInv, NEW t \in Thread, Publishes(t) \/ Refuses(t), build[t].began = edits
  PROVE  snapshot' = IF Sound(disk) THEN RuntimeOn(build[t].revision, disk) ELSE snapshot
<1>. DEFINE b == build[t]
<1>1. b.step # "idle" /\ Undisturbed(b)
  BY OnlyBuild DEF Publishes, Refuses, ReferencesChecked
<1>2. ASSUME b.step = "references", b.modules = {}
      PROVE  snapshot' = IF Sound(disk) THEN RuntimeOn(build[t].revision, disk) ELSE snapshot
  <2>1. Checking(b)
    BY <1>1, <1>2, OnlyBuild
  <2>2. /\ \A f \in Files : b.files[f] = disk[f]
        /\ \A m \in DOMAIN disk.schemas : disk.schemas[m] # Bad
        /\ OneClassPerName(disk.schemas)
    BY <1>1, <1>2, <2>1, QuietRead
  <2>3. /\ \A a : ModelResolves(b.files, a) <=> ModelResolves(disk, a)
        /\ \A a : SchemasKnown(b.files, a) <=> SchemasKnown(disk, a)
        /\ \A tool, roots : ToolValid(b.files, tool, roots) <=> ToolValid(disk, tool, roots)
        /\ WorkflowValid(b.files) <=> WorkflowValid(disk)
        /\ b.files.agents = disk.agents
    BY <2>2, SameAnswers, OrderOfFiles
  <2>4. /\ \A p \in DOMAIN b.frozen : b.frozen[p] = disk.prompts[p]
        /\ CheckedIn(b, disk.roots)
        /\ disk.schemas # Bad
    BY <1>1, <1>2 DEF Undisturbed
  <2>5. \A p : Load(b.frozen, p) = disk.prompts[p]
    BY <2>4 DEF Load
  <2>6. b.frozen \in [PromptsChecked(b) -> Text \ {None, Bad}]
    BY <2>1 DEF Checking
  <2>7. CASE Publishes(t)
    <3>1. b.prompts = {} /\ b.tools = {} /\ WorkflowValid(b.files)
      BY <2>7 DEF Publishes, ReferencesChecked
    <3>2. PromptsChecked(b) = PromptsOf(disk.agents)
      BY <2>3, <3>1 DEF PromptsChecked, PromptsOf
    <3>3. b.frozen = [p \in PromptsOf(disk.agents) |-> disk.prompts[p]]
      BY <2>4, <2>6, <3>2
    <3>4. FilesOf(b.files) = FilesOf(disk)
      BY <2>2 DEF FilesOf
    <3>5. snapshot' = RuntimeOn(b.revision, disk)
      BY <2>7, <3>3, <3>4 DEF Publishes, Runtime, RuntimeOn
    <3>6. ASSUME NEW a \in DOMAIN disk.agents
          PROVE  /\ ModelResolves(disk, a) /\ SchemasKnown(disk, a)
                 /\ disk.prompts[disk.agents[a].prompt] \notin {None, Bad}
                 /\ \A tool \in disk.agents[a].tools : ToolValid(disk, tool, disk.roots)
      <4>1. disk.prompts[disk.agents[a].prompt] \notin {None, Bad}
        BY <2>4, <2>6, <3>2 DEF PromptsOf
      <4>2. /\ ModelResolves(b.files, a) /\ SchemasKnown(b.files, a)
            /\ \A tool \in b.files.agents[a].tools : ToolValid(b.files, tool, disk.roots)
        BY <2>3, <2>4, <3>1 DEF CheckedIn
      <4>. QED BY <2>3, <4>1, <4>2
    <3>7. \A f \in Files : disk[f] # Bad
      BY <2>1, <2>2, <2>4 DEF Checking, Accepted
    <3>8. Sound(disk)
      BY <2>2, <2>3, <3>1, <3>6, <3>7 DEF Sound
    <3>. QED BY <3>5, <3>8
  <2>8. CASE Refuses(t)
    <3>1. snapshot' = snapshot
      BY <2>8 DEF Refuses
    <3>2. CASE \E a \in b.prompts : ~AgentResolves(b, a)
      <4>1. PICK a \in b.prompts : ~AgentResolves(b, a)
        BY <3>2
      <4>2. a \in DOMAIN disk.agents
        BY <2>1, <2>3 DEF Checking
      <4>3. \/ ~ModelResolves(disk, a) \/ ~SchemasKnown(disk, a)
            \/ disk.prompts[disk.agents[a].prompt] \in {None, Bad}
        BY <2>3, <2>5, <4>1 DEF AgentResolves
      <4>. QED BY <3>1, <4>2, <4>3 DEF Sound
    <3>3. CASE \E tool \in b.tools : ~ToolValid(b.files, tool, disk.roots)
      <4>1. PICK tool \in b.tools : ~ToolValid(disk, tool, disk.roots)
        BY <2>3, <3>3
      <4>2. PICK a \in DOMAIN disk.agents : b.tools \subseteq disk.agents[a].tools
        BY <2>1, <2>3, <4>1 DEF Checking
      <4>. QED BY <3>1, <4>1, <4>2 DEF Sound
    <3>4. CASE ~WorkflowValid(b.files)
      BY <2>3, <3>1, <3>4 DEF Sound
    <3>. QED BY <1>2, <2>8, <3>2, <3>3, <3>4 DEF Refuses
  <2>. QED BY <2>7, <2>8
<1>3. ASSUME b.step = "references", b.modules # {}
      PROVE  snapshot' = IF Sound(disk) THEN RuntimeOn(build[t].revision, disk) ELSE snapshot
  <2>1. Checking(b) /\ b.tools = {}
    BY <1>1, <1>3, OnlyBuild DEF Checking
  <2>2. snapshot' = snapshot /\ \E m \in b.modules : ~Importable(b, m)
    BY <1>3, <2>1 DEF Publishes, Refuses, ReferencesChecked
  <2>3. PICK m \in b.modules : ~Importable(b, m)
    BY <2>2
  <2>4. /\ disk.schemas # Bad /\ m \in DOMAIN disk.schemas
        /\ \A n \in DOMAIN b.files.schemas :
             n \in DOMAIN disk.schemas /\ b.files.schemas[n] = disk.schemas[n]
    BY <1>1, <1>3 DEF Undisturbed
  <2>5. CASE disk.schemas[m] = Bad
    BY <2>2, <2>4, <2>5 DEF Sound
  <2>6. CASE disk.schemas[m] \cap Classes(b.files.schemas) # {}
    <3>1. PICK n \in DOMAIN b.files.schemas : disk.schemas[m] \cap disk.schemas[n] # {}
      BY <2>4, <2>6 DEF Classes
    <3>2. m # n
      BY <2>1, <2>3 DEF Checking
    <3>. QED BY <2>2, <2>4, <3>1, <3>2 DEF Sound, OneClassPerName
  <2>. QED BY <2>3, <2>4, <2>5, <2>6 DEF Importable
<1>4. CASE b.step # "references"
  <2>1. b.step = "read" /\ disk[NextFile(b)] = Bad /\ snapshot' = snapshot
    BY <1>4 DEF Publishes, Refuses, ReferencesChecked
  <2>2. PICK k \in 0..5 : DOMAIN b.files = Prefix(k)
    BY <1>1, <2>1, OnlyBuild DEF Reading
  <2>3. NextFile(b) \in Files
    BY <2>2, NextOfPrefix
  <2>. QED BY <2>1, <2>3 DEF Sound
<1>. QED BY <1>2, <1>3, <1>4

\* A build ends only by its own publication or refusal.
LEMMA EndOfBuild ==
  ASSUME IInv, NEW t \in Thread, build[t].step # "idle", [Next]_vars, build'[t].step = "idle"
  PROVE  Publishes(t) \/ Refuses(t)
<1>1. \A u \in Thread : u # t => build[u].step = "idle"
  BY OnlyBuild
<1>2. build' # build
  OBVIOUS
<1>3. PICK u \in Thread : Reload(u)
  BY <1>2 DEF Next, Edit, Capture, Builds, vars
<1>4. CASE BeginReload(u)
  <2>1. build[u].step = "idle" /\ reloading = None
    BY <1>4 DEF BeginReload, MayReload
  <2>. QED BY <2>1, OnlyBuild, ThreadAssumption
<1>5. CASE Reads(u) \/ Discovers(u) \/ Imports(u) \/ ChecksAgent(u) \/ ChecksTool(u)
  <2>1. u = t /\ build[t].step \in {"read", "references"} /\ DOMAIN build = Thread
    BY <1>1, <1>5 DEF Reads, Discovers, Imports, ChecksAgent, ChecksTool, IInv, LockInv
  <2>2. Reading(build[t]) \/ Checking(build[t])
    BY <2>1, OnlyBuild
  <2>3. /\ Reads(t) => Reading(build[t])
        /\ Imports(t) \/ ChecksAgent(t) \/ ChecksTool(t) => Checking(build[t])
    BY OnlyBuild DEF Reads, Imports, ChecksAgent, ChecksTool
  <2>4. CASE Reads(t)
    BY <2>1, <2>3, <2>4 DEF Reads, Building, Reading
  <2>5. CASE Discovers(t)
    BY <2>1, <2>5 DEF Discovers, Building
  <2>6. CASE ChecksAgent(t)
    BY <2>1, <2>3, <2>6, ZenonT(60) DEF ChecksAgent, Building, Checking
  <2>7. CASE ChecksTool(t)
    BY <2>1, <2>3, <2>7 DEF ChecksTool, Building, Checking
  <2>8. CASE Imports(t)
    BY <2>1, <2>3, <2>8, ZenonT(60) DEF Imports, Building, Checking
  <2>. QED BY <1>5, <2>1, <2>4, <2>5, <2>6, <2>7, <2>8
<1>6. CASE Publishes(u) \/ Refuses(u)
  <2>1. build[u].step # "idle"
    BY <1>6 DEF Publishes, Refuses, ReferencesChecked
  <2>. QED BY <1>1, <1>6, <2>1
<1>. QED BY <1>3, <1>4, <1>5, <1>6 DEF Reload

----------------------------------------------------------------------------
(* Theorems. *)

\* However the directory is edited while a build reads it, everything that is
\* published has references that resolve within it.
THEOREM RuntimesAreCoherent == Spec => []PublishedIsCoherent
<1>1. IInv => PublishedIsCoherent
  BY DEF IInv, PublishedInv
<1>. QED BY <1>1, Invariance, PTL

\* Concurrent reloads never give two runtimes one revision, or skip one.
THEOREM RevisionsAreNames == Spec => []RevisionsNameRuntimes
<1>1. IInv => RevisionsNameRuntimes
  BY DEF IInv, PublishedInv
<1>. QED BY <1>1, Invariance, PTL

\* A run finds all it needs in the runtime it began with, and two runs of one
\* revision find the same, however many reloads and edits come in between.
THEOREM RunsKeepRevisions == Spec => []RunsKeepTheirRevision
<1>1. ASSUME IInv PROVE RunsKeepTheirRevision
  <2>1. SUFFICES ASSUME NEW r \in Request, NEW s \in Request,
                        run[r].step = "running", run[s].step = "running",
                        NEW x \in run[r].built
                 PROVE  /\ x.found /\ x.text \in Text /\ x.refused = x.missing
                        /\ run[r].runtime.revision = run[s].runtime.revision =>
                             \A y \in run[s].built : x.agent = y.agent => x.text = y.text
    BY DEF RunsKeepTheirRevision
  <2>2. RunningOn(run[r]) /\ RunningOn(run[s])
    <3>1. NotYet.step = "waiting"
      BY DEF NotYet
    <3>. QED BY <1>1, <2>1, <3>1 DEF IInv, RunInv
  <2>3. run[r].runtime \in published /\ run[s].runtime \in published
    BY <2>2 DEF RunningOn
  <2>4. FoundIn(x, run[r].runtime) /\ \A y \in run[s].built : FoundIn(y, run[s].runtime)
    BY <2>2 DEF RunningOn
  <2>5. Coherent(run[r].runtime)
    BY <1>1, <2>3 DEF IInv, PublishedInv, PublishedIsCoherent
  <2>6. x.text \in Text
    BY <2>4, <2>5 DEF FoundIn, Coherent
  <2>7. run[r].runtime.revision = run[s].runtime.revision => run[r].runtime = run[s].runtime
    BY <1>1, <2>3 DEF IInv, PublishedInv, RevisionsNameRuntimes
  <2>. QED BY <2>4, <2>6, <2>7 DEF FoundIn
<1>. QED BY <1>1, Invariance, PTL

\* A reload that no edit disturbs publishes exactly the directory if a build
\* accepts it, and otherwise leaves the published runtime as it was.
THEOREM QuietReloadsAreExact == Spec => QuietReloadIsExact
<1>1. ASSUME IInv, [Next]_vars
      PROVE  [\A t \in Thread :
                (build[t].step # "idle" /\ build'[t].step = "idle" /\ build[t].began = edits) =>
                  snapshot' = IF Sound(disk) THEN RuntimeOn(build[t].revision, disk)
                              ELSE snapshot]_vars
  BY <1>1, EndOfBuild, QuietEnd
<1>. QED BY <1>1, Invariance, PTL DEF Spec, QuietReloadIsExact

============================================================================
