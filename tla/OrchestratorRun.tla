-------------------------- MODULE OrchestratorRun --------------------------
(***************************************************************************)
(* One run of an orchestrator workflow: OrchestratorWorkflowExecutor.run   *)
(* of app/engine/workflow_executor.py.  The specialists' MCP servers are   *)
(* connected first and stay open while the manager delegates to them.  The *)
(* manager's call is an AgentCall, in the same task, with servers of its   *)
(* own; the workflow's timeout covers that call alone.  The event sink is  *)
(* a call of the run store, and may raise instead of returning.            *)
(***************************************************************************)
EXTENDS McpStack

CONSTANT Servers   \* the sequences of MCP servers agents may declare

Server == UNION {{s[i] : i \in DOMAIN s} : s \in Servers}

ASSUME ServersAssumption == Servers \subseteq Seq(Server)

VARIABLES
  tools,       \* the servers of the specialists, in order
  pc,          \* connect, manage, close, done
  raised,      \* the exception on its way out, or none
  interrupt,   \* a cancellation of the task: none, pending or delivered
  cancelled,   \* the caller has cancelled the run
  expired,     \* the workflow's timeout has passed
  events,      \* what went to the event sink
  unreported,  \* the sink has raised
  outcome,     \* what run() returned or raised
  mLeft, mOpen, mTools, mPc, mRaised, mExpired, mOutcome   \* the manager's call

run     == <<left, open, tools, pc, raised, cancelled, expired, events, unreported, outcome>>
manager == <<mLeft, mOpen, mTools, mPc, mRaised, mExpired, mOutcome>>
vars    == <<run, interrupt, manager>>

Call == INSTANCE AgentCall WITH
  left <- mLeft, open <- mOpen, tools <- mTools, pc <- mPc, raised <- mRaised,
  expired <- mExpired, outcome <- mOutcome

\* What the manager's call may raise, told apart by the API.
ManagerErrors == {"input error", "execution error"}

Init ==
  /\ tools \in Servers
  /\ left = tools /\ open = <<>>
  /\ pc = "connect"
  /\ raised = "none"
  /\ cancelled = FALSE /\ expired = FALSE
  /\ events = <<>> /\ unreported = FALSE
  /\ outcome = "pending"
  /\ Call!Init

Leave(error) == pc' = "close" /\ raised' = error

----------------------------------------------------------------------------
(* Connecting the specialists. *)

Connects ==
  /\ pc = "connect" /\ interrupt # "pending"
  /\ Connect
  /\ UNCHANGED <<tools, pc, raised, interrupt, cancelled, expired, events, unreported, outcome, manager>>

\* A server's credential is missing or it does not connect, or a specialist
\* cannot be built: the error leaves as it is.
ConnectFails ==
  /\ pc = "connect" /\ interrupt # "pending"
  /\ Leave("connect error")
  /\ UNCHANGED <<left, open, tools, interrupt, cancelled, expired, events, unreported, outcome, manager>>

\* The cancellation arrives while a server is being connected.
Interrupted ==
  /\ pc = "connect" /\ interrupt = "pending"
  /\ interrupt' = "delivered"
  /\ \E error \in {"cancelled", "connect error"} : Leave(error)
  /\ UNCHANGED <<left, open, tools, cancelled, expired, events, unreported, outcome, manager>>

StartManager ==
  /\ pc = "connect" /\ left = <<>>
  /\ pc' = "manage"
  /\ events' = Append(events, "node_started")
  /\ UNCHANGED <<left, open, tools, raised, interrupt, cancelled, expired, unreported, outcome, manager>>

----------------------------------------------------------------------------
(* The manager's call. *)

ManagerLocal ==
  pc = "manage" /\ Call!Local /\ UNCHANGED run

ManagerConnects ==
  pc = "manage" /\ Call!ServerConnects /\ UNCHANGED run

ManagerCloses ==
  pc = "manage" /\ Call!CloseNext /\ UNCHANGED run

ManagerModelEnds ==
  pc = "manage" /\ Call!RunnerEnds /\ UNCHANGED run

\* The manager's own timeout passes.
AgentTimeoutExpires ==
  pc = "manage" /\ Call!TimeoutExpires /\ UNCHANGED run

ManagerAnswers ==
  /\ pc = "manage" /\ mOutcome = "output"
  /\ Leave("none")
  /\ events' = Append(events, "node_completed")
  /\ UNCHANGED <<left, open, tools, interrupt, cancelled, expired, unreported, outcome, manager>>

\* Seeded fault: the manager's failure is not reported.
SilentManager(error) == events

ManagerFailure(error) == Append(events, "node_failed")

ManagerFails ==
  /\ pc = "manage" /\ mOutcome \in ManagerErrors
  /\ Leave(mOutcome)
  /\ events' = ManagerFailure(mOutcome)
  /\ UNCHANGED <<left, open, tools, interrupt, cancelled, expired, unreported, outcome, manager>>

\* A call that was cancelled only by wait_for has timed out, and no event
\* tells of it; otherwise the caller's cancellation goes on.
ManagerCancelled ==
  /\ pc = "manage" /\ mOutcome = "cancelled"
  /\ Leave(IF cancelled THEN "cancelled" ELSE "timeout")
  /\ UNCHANGED <<left, open, tools, interrupt, cancelled, expired, events, unreported, outcome, manager>>

\* The sink raises, its event recorded or not: the error leaves in place of the
\* manager's call, answer or error.
SinkRaises ==
  /\ \/ pc = "connect" /\ left = <<>> /\ events' \in {events, Append(events, "node_started")}
     \/ pc = "manage" /\ mOutcome = "output"
          /\ events' \in {events, Append(events, "node_completed")}
     \/ pc = "manage" /\ mOutcome \in ManagerErrors
          /\ events' \in {events, Append(events, "node_failed")}
  /\ Leave("sink error")
  /\ unreported' = TRUE
  /\ UNCHANGED <<left, open, tools, interrupt, cancelled, expired, outcome, manager>>

\* Seeded fault: the manager is awaited without a timeout.
NoTimer == FALSE

TimerSet == pc = "manage"

\* The workflow's timeout passes: wait_for cancels the task.
TimeoutExpires ==
  /\ TimerSet /\ ~expired
  /\ Call!Cancel
  /\ expired' = TRUE
  /\ UNCHANGED <<left, open, tools, pc, raised, cancelled, events, unreported, outcome>>

----------------------------------------------------------------------------
(* The caller, and the end. *)

Awaiting == \/ pc = "connect" /\ left # <<>>
            \/ pc = "manage" /\ Call!Awaiting
            \/ pc = "close" /\ open # <<>>

CallerCancels ==
  /\ Awaiting /\ ~cancelled
  /\ cancelled' = TRUE
  /\ interrupt' = "pending"
  /\ UNCHANGED <<left, open, tools, pc, raised, expired, events, unreported, outcome, manager>>

\* An exception from a close takes the place of the one on its way out.
CloseNext ==
  /\ pc = "close" /\ CloseTop
  /\ IF interrupt = "pending"
     THEN interrupt' = "delivered" /\ raised' \in {"cancelled", "close error"}
     ELSE UNCHANGED interrupt /\ raised' \in {raised, "close error"}
  /\ UNCHANGED <<tools, pc, cancelled, expired, events, unreported, outcome, manager>>

EndOf == IF raised = "none" THEN "completed" ELSE raised

Closed ==
  /\ pc = "close" /\ AllClosed
  /\ pc' = "done"
  /\ outcome' = EndOf
  /\ UNCHANGED <<left, open, tools, raised, interrupt, cancelled, expired, events, unreported, manager>>

Ended == pc = "done" /\ UNCHANGED vars

----------------------------------------------------------------------------
Local == StartManager \/ Interrupted \/ ManagerLocal \/ ManagerAnswers \/ ManagerFails
         \/ ManagerCancelled \/ Closed

ServerConnects == Connects \/ ConnectFails \/ ManagerConnects
ServerCloses   == CloseNext \/ ManagerCloses

Next == Local \/ ServerConnects \/ ServerCloses \/ ManagerModelEnds \/ AgentTimeoutExpires
        \/ TimeoutExpires \/ SinkRaises \/ CallerCancels \/ Ended

Spec == Init /\ [][Next]_vars

\* The loop runs and servers close, or fail to.  Models may hang and servers
\* may take longer to connect than any timeout.
LoopSpec == Spec /\ WF_vars(Local) /\ WF_vars(ServerCloses)

\* Both timers fire.
TimedSpec == LoopSpec /\ WF_vars(TimeoutExpires) /\ WF_vars(AgentTimeoutExpires)

----------------------------------------------------------------------------
(* Properties. *)

\* The manager delegates only while every specialist's servers are open; its
\* own are closed before any of theirs, and none of either outlives the run,
\* whichever of them failed to connect or to close and whoever cancelled it.
ServersSpanTheRun ==
  /\ pc = "manage" => open = tools
  /\ pc # "manage" => mOpen = <<>>
  /\ pc = "done" => open = <<>>
  /\ Call!NoConnectionOutlivesCall

\* The run completes only if its manager's call returned an output and nothing
\* after it failed; and a call returns one only if nothing in it failed, not
\* even the closing of a server after the model had answered.
OutcomeIsEarned ==
  /\ outcome = "completed" => raised = "none" /\ mOutcome = "output"
  /\ outcome = "cancelled" => cancelled
  /\ outcome = "timeout" => expired /\ mOutcome = "cancelled"
  /\ Call!OutcomeIsEarned

\* What the timeline of a manager's call shows: a call that timed out or was
\* cancelled has its start and no end, whatever the documentation says of
\* failures.
ManagerTimeline ==
  CASE mOutcome = "pending"         -> <<>>
    [] mOutcome = "cancelled"       -> <<"node_started">>
    [] mOutcome = "output"          -> <<"node_started", "node_completed">>
    [] mOutcome \in ManagerErrors   -> <<"node_started", "node_failed">>

\* The timeline tells just how the manager's call ended, and the run's outcome
\* agrees with it.  Where the sink raised, only the event it raised at may be
\* missing, and the run does not complete.
TimelineTellsManager ==
  pc = "done" =>
    /\ ~unreported => events = ManagerTimeline
    /\ unreported =>
         /\ IF mOutcome = "pending" THEN events \in {<<>>, <<"node_started">>}
            ELSE events \in {<<"node_started">>, ManagerTimeline}
         /\ mOutcome # "cancelled"
         /\ outcome \in {"sink error", "close error", "cancelled"}
    /\ outcome = "completed" => events = <<"node_started", "node_completed">>
    /\ outcome \in ManagerErrors => mOutcome = outcome

\* When servers connect or fail to, the workflow's timeout ends a run whose
\* model hangs, even if the agent's timeout is longer.
WorkflowTimeoutEndsRun ==
  WF_vars(ServerConnects) /\ WF_vars(TimeoutExpires) => <>(pc = "done")

\* So does the agent's timeout, even if the workflow's is longer.
AgentTimeoutEndsRun ==
  WF_vars(ServerConnects) /\ WF_vars(AgentTimeoutExpires) => <>(pc = "done")

\* The run is capped by its timeout, as the documentation says of all runs:
\* it ends whatever it is waiting for.
CappedByTimeout == <>(pc = "done")

============================================================================
