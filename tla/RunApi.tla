------------------------------- MODULE RunApi -------------------------------
(***************************************************************************)
(* The two endpoints that run something: run_agent and run_workflow of     *)
(* app/api/routes.py, over a run store.  The handlers share one event      *)
(* loop, so a handler is interrupted only where it awaits the engine; the  *)
(* calls it makes on the store are still steps of their own, because any   *)
(* of them may raise, the process may stop between two of them, and a      *)
(* route function's worker thread may report in between.                   *)
(*                                                                         *)
(* The store is the one in memory, RunStore, or the one on SQLite as its   *)
(* callers see it, DurableStore.                                           *)
(*                                                                         *)
(* What happens inside the engine is GraphRun's and AgentCall's subject;   *)
(* here it reports, returns, or raises.                                    *)
(***************************************************************************)
EXTENDS Integers, Sequences, FiniteSets

CONSTANTS
  Run,                  \* requests, by the run id each is given
  MaxRuns, MaxEvents,   \* the store's bounds
  MaxReports,           \* bound: events the engine reports in one run
  MaxReloads            \* bound: reloads of the project

\* The bounds of a store are positive.
ASSUME BoundsAssumption ==
  MaxRuns \in Nat \ {0} /\ MaxEvents \in Nat \ {0} /\ MaxReloads \in Nat

VARIABLES
  durable,   \* is the store one on SQLite, which outlives the process
  record,    \* the records of the store, as its callers see them
  disk,      \* the records on disk, of a store on SQLite
  order, created, emitted, told,   \* the rest of a store in memory
  unmade,    \* the runs whose create has raised
  kind,      \* agent or workflow
  pc,        \* the next store call of each handler, or where it waits
  loop,      \* the handler the event loop is in, or none
  reloads,   \* how many reloads there have been
  thread,    \* the runs of which a route function is in its worker thread
  answer     \* what the client was told

inMemory == <<order, created, emitted, told>>
store == <<record, disk, inMemory>>
vars  == <<durable, store, unmade, kind, pc, loop, reloads, thread, answer>>

None   == "none"
Reload == "reload"   \* the handler of /reload

ASSUME RunAssumption == None \notin Run /\ Reload \notin Run

ApiEvent == {"run_started", "node", "route", "agent_completed", "run_completed", "run_failed"}
Terminal == {"run_completed", "run_failed"}

Store  == INSTANCE RunStore WITH Event <- ApiEvent, MaxEmitted <- MaxReports + 4
Sqlite == INSTANCE DurableStore WITH Event <- ApiEvent

Init ==
  /\ durable \in BOOLEAN
  /\ Store!Init /\ Sqlite!Init
  /\ unmade = {}
  /\ kind \in [Run -> {"agent", "workflow"}]
  /\ reloads = 0
  /\ pc = [r \in Run |-> "new"]
  /\ loop = None
  /\ thread = {}
  /\ answer = [r \in Run |-> None]

----------------------------------------------------------------------------
(* The operations of either store. *)

Creates(r) ==
  IF durable THEN Sqlite!Create(r) /\ UNCHANGED inMemory
  ELSE Store!Create(r) /\ UNCHANGED disk

ReportsEvent(r, e) ==
  IF durable THEN Sqlite!ReportEvent(r, e) /\ UNCHANGED inMemory
  ELSE Store!ReportEvent(r, e) /\ UNCHANGED disk

Finishes(r, status) ==
  IF durable THEN Sqlite!Finish(r, status) /\ UNCHANGED inMemory
  ELSE Store!Finish(r, status) /\ UNCHANGED disk

\* ... and what they leave behind when they raise.  The store in memory copies
\* what it is given before it changes anything, and its create copies nothing.
CreateRaises(r) == durable /\ Sqlite!CreateRaises(r) /\ UNCHANGED inMemory

EventRaises(r, e) ==
  IF durable THEN Sqlite!ReportRaises(r, e) /\ UNCHANGED inMemory ELSE UNCHANGED store

FinishRaises(r, status) ==
  IF durable THEN Sqlite!FinishRaises(r, status) /\ UNCHANGED inMemory ELSE UNCHANGED store

----------------------------------------------------------------------------
(* The store calls of a handler, in order. *)

StoreCalls == {"create", "report start", "report agent", "report completed", "finish completed",
               "report failed", "finish failed"}

\* The call a handler has come to.
CallOf(r) ==
  CASE pc[r] = "create"           -> Creates(r)
    [] pc[r] = "report start"     -> ReportsEvent(r, "run_started")
    [] pc[r] = "report agent"     -> ReportsEvent(r, "agent_completed")
    [] pc[r] = "report completed" -> ReportsEvent(r, "run_completed")
    [] pc[r] = "finish completed" -> Finishes(r, "completed")
    [] pc[r] = "report failed"    -> ReportsEvent(r, "run_failed")
    [] pc[r] = "finish failed"    -> Finishes(r, "failed")

RaisedCallOf(r) ==
  CASE pc[r] = "create"           -> CreateRaises(r)
    [] pc[r] = "report start"     -> EventRaises(r, "run_started")
    [] pc[r] = "report agent"     -> EventRaises(r, "agent_completed")
    [] pc[r] = "report completed" -> EventRaises(r, "run_completed")
    [] pc[r] = "finish completed" -> FinishRaises(r, "completed")
    [] pc[r] = "report failed"    -> EventRaises(r, "run_failed")
    [] pc[r] = "finish failed"    -> FinishRaises(r, "failed")

NextCall(r) ==
  CASE pc[r] = "create"           -> "report start"
    [] pc[r] = "report start"     -> "engine"
    [] pc[r] = "report agent"     -> "report completed"
    [] pc[r] = "report completed" -> "finish completed"
    [] pc[r] = "report failed"    -> "finish failed"
    [] OTHER                      -> "answered"

\* Seeded fault: the failure is made and not raised.
UnraisedFailure(r) == IF pc[r] = "finish completed" THEN "ok" ELSE None

\* Seeded fault: the client is answered before the record is finished.
EarlyAnswer(r) ==
  CASE pc[r] = "report completed" -> "ok"
    [] pc[r] = "finish completed" -> "ok"
    [] pc[r] = "finish failed"    -> "failed"
    [] OTHER                      -> None

AnswerAfter(r) ==
  CASE pc[r] = "finish completed" -> "ok"
    [] pc[r] = "finish failed"    -> "failed"
    [] OTHER                      -> None

\* The handler leaves the loop where it awaits the engine and at its end.
LoopAfter(r) == IF NextCall(r) \in {"engine", "answered"} THEN None ELSE r

CallsStore(r) ==
  /\ loop = r /\ pc[r] \in StoreCalls
  /\ CallOf(r)
  /\ pc' = [pc EXCEPT ![r] = NextCall(r)]
  /\ loop' = LoopAfter(r)
  /\ answer' = [answer EXCEPT ![r] = AnswerAfter(r)]
  /\ UNCHANGED <<durable, unmade, kind, reloads, thread>>

\* Seeded fault: the calls that record a success are in the try block.
InsideTry(r) ==
  IF pc[r] \in {"report completed", "finish completed"} THEN "report failed" ELSE "answered"

\* No store call is in the try block: what it raises goes to the client.
AfterStoreError(r) == "answered"

\* A store call raises.
StoreRaises(r) ==
  /\ loop = r /\ pc[r] \in StoreCalls
  /\ RaisedCallOf(r)
  /\ unmade' = IF pc[r] = "create" THEN unmade \cup {r} ELSE unmade
  /\ pc' = [pc EXCEPT ![r] = AfterStoreError(r)]
  /\ IF AfterStoreError(r) = "answered"
     THEN loop' = None /\ answer' = [answer EXCEPT ![r] = "error"]
     ELSE UNCHANGED <<loop, answer>>
  /\ UNCHANGED <<durable, kind, reloads, thread>>

----------------------------------------------------------------------------
(* Requests and the engine. *)

\* A request for an unknown agent, or without a model key, makes no run.
Refuse(r) ==
  /\ loop = None /\ pc[r] = "new"
  /\ pc' = [pc EXCEPT ![r] = "answered"]
  /\ answer' = [answer EXCEPT ![r] = "refused"]
  /\ UNCHANGED <<store, durable, unmade, kind, loop, reloads, thread>>

Accept(r) ==
  /\ loop = None /\ pc[r] = "new"
  /\ pc' = [pc EXCEPT ![r] = "create"]
  /\ loop' = r
  /\ UNCHANGED <<store, durable, unmade, kind, reloads, thread, answer>>

\* A store in memory has room in its history for one more report.
MayReport(r) == Len(emitted[r]) <= MaxReports

\* A node or a branch reports through the run's event sink.  If that raises
\* the run may end for it, or have the error among the results of a node.
EngineReports(r) ==
  /\ loop = None /\ pc[r] = "engine" /\ kind[r] = "workflow" /\ r \notin thread
  /\ MayReport(r)
  /\ ReportsEvent(r, "node") \/ EventRaises(r, "node")
  /\ UNCHANGED <<durable, unmade, kind, pc, loop, reloads, thread, answer>>

\* LangGraph hands a route function to a worker thread.
RouteBegins(r) ==
  /\ loop = None /\ pc[r] = "engine" /\ kind[r] = "workflow" /\ r \notin thread
  /\ MayReport(r)
  /\ thread' = thread \cup {r}
  /\ UNCHANGED <<store, durable, unmade, kind, pc, loop, reloads, answer>>

\* The thread reports whatever the loop is doing, even after the run's end.
RouteReports(r) ==
  /\ r \in thread
  /\ ReportsEvent(r, "route") \/ EventRaises(r, "route") \/ UNCHANGED store
  /\ thread' = thread \ {r}
  /\ UNCHANGED <<durable, unmade, kind, pc, loop, reloads, answer>>

EngineReturns(r) ==
  /\ loop = None /\ pc[r] = "engine" /\ r \notin thread
  /\ pc' = [pc EXCEPT ![r] = IF kind[r] = "agent" THEN "report agent" ELSE "report completed"]
  /\ loop' = r
  /\ UNCHANGED <<store, durable, unmade, kind, reloads, thread, answer>>

\* Every Exception the engine raises is told as a failure of the run.  A run
\* that has timed out may leave its route's thread behind.
EngineRaises(r) ==
  /\ loop = None /\ pc[r] = "engine"
  /\ pc' = [pc EXCEPT ![r] = "report failed"]
  /\ loop' = r
  /\ UNCHANGED <<store, durable, unmade, kind, reloads, thread, answer>>

\* The project is built again in the handler of /reload, which awaits nothing:
\* the loop runs no one else meanwhile.
ReloadBegins ==
  /\ loop = None /\ reloads < MaxReloads
  /\ loop' = Reload
  /\ reloads' = reloads + 1
  /\ UNCHANGED <<store, durable, unmade, kind, pc, thread, answer>>

ReloadEnds ==
  /\ loop = Reload
  /\ loop' = None
  /\ UNCHANGED <<store, durable, unmade, kind, pc, reloads, thread, answer>>

\* The process stops and starts again: the requests in flight are lost, and
\* with them a store in memory, or what a store on SQLite had not committed.
Restart ==
  /\ pc' = [r \in Run |-> IF pc[r] \in {"new", "answered"} THEN pc[r] ELSE "lost"]
  /\ loop' = None
  /\ thread' = {}
  /\ IF durable THEN Sqlite!Restart /\ UNCHANGED <<order, created>>
     ELSE order' = <<>> /\ record' = <<>> /\ created' = <<>> /\ UNCHANGED disk
  /\ UNCHANGED <<emitted, told, durable, unmade, kind, reloads, answer>>

AllAnswered ==
  /\ \A r \in Run : pc[r] \in {"answered", "lost"}
  /\ thread = {}
  /\ UNCHANGED vars

----------------------------------------------------------------------------
EngineEnds(r) == EngineReturns(r) \/ EngineRaises(r)

Next ==
  \/ \E r \in Run : \/ CallsStore(r) \/ StoreRaises(r) \/ Refuse(r) \/ Accept(r)
                    \/ EngineReports(r) \/ RouteBegins(r) \/ RouteReports(r)
                    \/ EngineReturns(r) \/ EngineRaises(r)
  \/ ReloadBegins \/ ReloadEnds \/ Restart \/ AllAnswered

Spec == Init /\ [][Next]_vars

\* The loop runs the handlers that are ready, a reload ends, and a route's
\* thread comes to its report.  The engine may take for ever.
ServingSpec ==
  /\ Spec /\ WF_vars(ReloadEnds)
  /\ \A r \in Run : /\ WF_vars(Accept(r)) /\ WF_vars(CallsStore(r) \/ StoreRaises(r))
                    /\ WF_vars(RouteReports(r))

----------------------------------------------------------------------------
(* Properties. *)

\* The store in memory holds the max_runs runs created last, in that order,
\* whichever requests run on, fail on a store call, or are lost with their
\* process.
KeepsTheNewest == ~durable => Store!KeepsTheNewest

\* A kept record in memory says what its run said: its status, and its events
\* in the order they were reported by the loop and by route threads, up to the
\* bound.
RecordsWhatItWasTold == ~durable => Store!RecordsWhatItWasTold

\* The records of r: what callers see now, and what they see after a restart.
Rows(r) == {rows[r] : rows \in {t \in {record, disk} : r \in DOMAIN t}}

\* The statuses of a row whose client was told of one.
MaySay(status) == IF unmade = {} THEN {status} ELSE {status, "running"}

\* What a client was told is what the records say, those callers see and those
\* on disk, and a record has ended only if the request has.  After a create has
\* raised on SQLite an uncommitted eviction may hide a row from the end of its
\* run: the row may come back running, but never with the other end.
AnswerMatchesRecord ==
  \A r \in Run : \A row \in Rows(r) :
    /\ answer[r] = "ok" => row.status \in MaySay("completed")
    /\ answer[r] = "failed" => row.status \in MaySay("failed")
    /\ answer[r] # "refused"
    /\ row.status # "running" => pc[r] \in {"answered", "lost"}

\* A timeline, seen or on disk, begins with run_started and has one end at most,
\* the one its client was told of; only a route's worker thread reports after it.
TimelineIsFramed ==
  \A r \in Run : \A row \in Rows(r) :
    LET seen == row.events
    IN /\ \A i \in DOMAIN seen : seen[i] = "run_started" <=> i = 1
       /\ \A i \in DOMAIN seen : seen[i] \in Terminal =>
            /\ Len(seen) - i <= 1
            /\ \A j \in DOMAIN seen : j > i => seen[j] = "route"
            /\ answer[r] = "ok" => seen[i] = "run_completed"
            /\ answer[r] = "failed" => seen[i] = "run_failed"

\* Every request is answered if the engine ends its run, whatever the store and
\* the engine raise and however long other runs take, unless the process stops
\* while it is served.
EveryRequestAnswered ==
  \A r \in Run : SF_vars(EngineEnds(r)) => <>(answer[r] # None \/ pc[r] = "lost")

============================================================================
