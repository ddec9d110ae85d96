----------------------------- MODULE AgentCall -----------------------------
(***************************************************************************)
(* One call of an agent: AgentExecutor.run of app/engine/agent_executor.py *)
(* with the MCP servers it connects for the call.  The task it runs in may *)
(* be cancelled whenever it awaits something; the agent's own timeout      *)
(* covers the model's work alone.                                          *)
(*                                                                         *)
(* Cancelling a task throws CancelledError at the await it is suspended    *)
(* in, whether or not what it awaits has just ended.  The code below that  *)
(* await, the SDK or an MCP client, may turn it into an error of its own.  *)
(***************************************************************************)
EXTENDS McpStack

CONSTANT Servers   \* the sequences of MCP servers agents may declare

VARIABLES
  tools,       \* the servers of this agent's MCP tools
  pc,          \* input, connect, run, close, check, done
  raised,      \* the exception on its way out, or none
  interrupt,   \* a cancellation of the task: none, pending or delivered
  expired,     \* the agent's timeout has passed
  outcome      \* what the call returned or raised

vars == <<left, open, tools, pc, raised, interrupt, expired, outcome>>

Init ==
  /\ tools \in Servers
  /\ left = tools /\ open = <<>>
  /\ pc = "input"
  /\ raised = "none"
  /\ interrupt = "none" /\ expired = FALSE
  /\ outcome = "pending"

\* Where the task is suspended.
Awaiting == \/ pc = "connect" /\ left # <<>>
            \/ pc = "run"
            \/ pc = "close" /\ open # <<>>

Leave(error) == pc' = "close" /\ raised' = error

----------------------------------------------------------------------------
\* The agent is looked up and the input checked before anything is opened.
InputAccepted ==
  /\ pc = "input"
  /\ pc' = "connect"
  /\ UNCHANGED <<left, open, tools, raised, interrupt, expired, outcome>>

InputRefused ==
  /\ pc = "input"
  /\ pc' = "done"
  /\ outcome' = "input error"
  /\ UNCHANGED <<left, open, tools, raised, interrupt, expired>>

Connects ==
  /\ pc = "connect" /\ interrupt # "pending"
  /\ Connect
  /\ UNCHANGED <<tools, pc, raised, interrupt, expired, outcome>>

\* A credential is missing, or the server does not connect.
ConnectFails ==
  /\ pc = "connect" /\ left # <<>> /\ interrupt # "pending"
  /\ Leave("error")
  /\ UNCHANGED <<left, open, tools, interrupt, expired, outcome>>

\* The agent is built, or its prompt does not render or a tool's root is gone.
Builds ==
  /\ pc = "connect" /\ left = <<>>
  /\ pc' = "run"
  /\ UNCHANGED <<left, open, tools, raised, interrupt, expired, outcome>>

BuildFails ==
  /\ pc = "connect" /\ left = <<>>
  /\ Leave("error")
  /\ UNCHANGED <<left, open, tools, interrupt, expired, outcome>>

RunnerAnswers ==
  /\ pc = "run" /\ ~expired /\ interrupt # "pending"
  /\ Leave("none")
  /\ UNCHANGED <<left, open, tools, interrupt, expired, outcome>>

RunnerFails ==
  /\ pc = "run" /\ ~expired /\ interrupt # "pending"
  /\ Leave("error")
  /\ UNCHANGED <<left, open, tools, interrupt, expired, outcome>>

\* Seeded fault: the timer covers the closing and not the model's work.
TimerSetOnAnswer == pc = "close"

TimerSet == pc = "run"

TimeoutExpires ==
  /\ TimerSet /\ ~expired
  /\ expired' = TRUE
  /\ UNCHANGED <<left, open, tools, pc, raised, interrupt, outcome>>

\* wait_for gives up on the runner: TimeoutError, or what the runner makes of
\* being given up.
RunnerTimesOut ==
  /\ pc = "run" /\ expired /\ interrupt # "pending"
  /\ Leave("error")
  /\ UNCHANGED <<left, open, tools, interrupt, expired, outcome>>

\* The task is cancelled.
Cancel ==
  /\ Awaiting /\ interrupt # "pending"
  /\ interrupt' = "pending"
  /\ UNCHANGED <<left, open, tools, pc, raised, expired, outcome>>

\* The cancellation arrives at the await.
Interrupted ==
  /\ interrupt = "pending" /\ pc \in {"connect", "run"} /\ Awaiting
  /\ interrupt' = "delivered"
  /\ \E error \in {"cancelled", "error"} : Leave(error)
  /\ UNCHANGED <<left, open, tools, expired, outcome>>

\* The stack closes its servers one by one; an exception from a close takes
\* the place of the one on its way out.
CloseNext ==
  /\ pc = "close" /\ CloseTop
  /\ IF interrupt = "pending"
     THEN interrupt' = "delivered" /\ raised' \in {"cancelled", "error"}
     ELSE UNCHANGED interrupt /\ raised' \in {raised, "error"}
  /\ UNCHANGED <<tools, pc, expired, outcome>>

\* Seeded fault: the output is used although a later step failed.
CheckedRegardless == "check"

AfterClose == IF raised = "none" THEN "check" ELSE "done"

\* With the stack closed the exception goes on: whatever it is, it leaves as
\* AgentExecutionError, except the cancellation.
Closed ==
  /\ pc = "close" /\ AllClosed
  /\ pc' = AfterClose
  /\ outcome' = CASE pc' = "check"         -> outcome
                  [] raised = "cancelled"  -> "cancelled"
                  [] OTHER                 -> "execution error"
  /\ UNCHANGED <<left, open, tools, raised, interrupt, expired>>

\* The output is text, or fits the agent's output schema.
OutputAccepted ==
  /\ pc = "check"
  /\ pc' = "done" /\ outcome' = "output"
  /\ UNCHANGED <<left, open, tools, raised, interrupt, expired>>

OutputRefused ==
  /\ pc = "check"
  /\ pc' = "done" /\ outcome' = "execution error"
  /\ UNCHANGED <<left, open, tools, raised, interrupt, expired>>

----------------------------------------------------------------------------
\* What the task does without waiting for anyone.
Local == InputAccepted \/ InputRefused \/ Builds \/ BuildFails \/ Closed
         \/ OutputAccepted \/ OutputRefused \/ RunnerTimesOut \/ Interrupted

ServerConnects == Connects \/ ConnectFails
RunnerEnds     == RunnerAnswers \/ RunnerFails

Step == Local \/ ServerConnects \/ CloseNext \/ RunnerEnds

Next == Step \/ TimeoutExpires \/ Cancel

Spec == Init /\ [][Next]_vars

----------------------------------------------------------------------------
(* Properties. *)

\* However a call ends, and whichever of its servers failed to connect or to
\* close, no connection outlives it; and its output is checked only then.
NoConnectionOutlivesCall == pc \in {"check", "done"} => open = <<>>

\* A call returns an output only if nothing on the way failed, not even the
\* closing of a server after the model had answered, and it is cancelled only
\* if its task was.
OutcomeIsEarned ==
  /\ outcome = "output" => raised = "none" /\ left = <<>>
  /\ outcome = "cancelled" => interrupt # "none"

============================================================================
