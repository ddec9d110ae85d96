---------------------------- MODULE ParallelNode ----------------------------
(***************************************************************************)
(* One visit of a parallel node: invoke_parallel of workflow_executor.py.  *)
(* The node's coroutine makes a task per branch; the branches share a      *)
(* semaphore of max_concurrency permits.  The node awaits its tasks as its *)
(* failure policy says, and whatever happens cancels those not done and    *)
(* awaits them all before it returns or raises.  The event sink is a call  *)
(* of the run store, and may raise instead of returning.                   *)
(*                                                                         *)
(* A step is what one task does between two awaits.  A permit released to  *)
(* a waiting branch is its own at once (granted), before that task runs;   *)
(* a cancelled task learns of it when it next runs.                        *)
(***************************************************************************)
EXTENDS Integers, FiniteSets, Sequences

CONSTANTS
  Branch,          \* branches of the node
  MaxConcurrency   \* values limits.max_concurrency may take

ASSUME BranchAssumption == IsFiniteSet(Branch) /\ Cardinality(Branch) >= 2
ASSUME ConcurrencyAssumption == MaxConcurrency \subseteq Nat \ {0}

VARIABLES
  policy, limit,   \* the node's definition
  task,            \* each branch's task
  permits,         \* the semaphore's value
  cancelling,      \* tasks told to stop that have not run since
  node,            \* the node's coroutine: waiting, closing, done
  error,           \* what the coroutine is raising: a branch, or none
  outer,           \* the node itself has been cancelled
  outcome,         \* pending, completed, failed, cancelled, or unreported:
                   \* the sink raised when told of the completion
  events           \* what went to the event sink

vars == <<policy, limit, task, permits, cancelling, node, error, outer, outcome, events>>

None == "none"

ASSUME NoneAssumption == None \notin Branch

\* A task is unreported when the sink raised in it: that error is its end.
Ended   == {"completed", "failed", "unreported", "cancelled"}
Holding == {b \in Branch : task[b] \in {"granted", "running"}}
Live    == {b \in Branch : task[b] \notin Ended}
Waiters == {b \in Branch : task[b] = "queued" /\ b \notin cancelling}
Failed  == {b \in Branch : task[b] \in {"failed", "unreported"}}

Init ==
  /\ policy \in {"fail_fast", "collect_errors"}
  /\ limit \in MaxConcurrency
  /\ task = [b \in Branch |-> "created"]
  /\ permits = limit
  /\ cancelling = {}
  /\ node = "waiting"
  /\ error = None
  /\ outer = FALSE
  /\ outcome = "pending"
  /\ events = <<>>

BranchEvent(type, b) == [type |-> type, branch |-> b]
NodeCompleted == [type |-> "node_completed"]

Emit(type, b) == events' = Append(events, BranchEvent(type, b))

----------------------------------------------------------------------------
(* The branch tasks. *)

\* Semaphore.locked: nobody overtakes a branch that waits.
Locked == permits = 0 \/ Waiters # {}

\* async with semaphore: take a permit at once, or wait for one.
Acquire(b) ==
  /\ task[b] = "created" /\ b \notin cancelling
  /\ IF Locked
     THEN /\ task' = [task EXCEPT ![b] = "queued"]
          /\ UNCHANGED <<permits, events>>
     ELSE /\ task' = [task EXCEPT ![b] = "running"]
          /\ permits' = permits - 1
          /\ Emit("branch_started", b)
  /\ UNCHANGED <<policy, limit, cancelling, node, error, outer, outcome>>

Proceed(b) ==
  /\ task[b] = "granted" /\ b \notin cancelling
  /\ task' = [task EXCEPT ![b] = "running"]
  /\ Emit("branch_started", b)
  /\ UNCHANGED <<policy, limit, permits, cancelling, node, error, outer, outcome>>

\* Seeded fault: the permit goes to the semaphore and nobody is woken.
EndWithoutWakeup(b, end) == task' = [task EXCEPT ![b] = end] /\ permits' = permits + 1

\* Task b ends as end and gives back the permit it holds: to a waiting branch,
\* else to the semaphore.
EndHolding(b, end) ==
  \/ \E w \in Waiters :
       /\ task' = [task EXCEPT ![b] = end, ![w] = "granted"]
       /\ UNCHANGED permits
  \/ /\ Waiters = {}
     /\ task' = [task EXCEPT ![b] = end]
     /\ permits' = permits + 1

Completes(b) ==
  /\ task[b] = "running" /\ b \notin cancelling
  /\ EndHolding(b, "completed")
  /\ Emit("branch_completed", b)
  /\ UNCHANGED <<policy, limit, cancelling, node, error, outer, outcome>>

\* The agent fails, or its cleanup does while it is being cancelled.
Fails(b) ==
  /\ task[b] = "running"
  /\ EndHolding(b, "failed")
  /\ Emit("branch_failed", b)
  /\ cancelling' = cancelling \ {b}
  /\ UNCHANGED <<policy, limit, node, error, outer, outcome>>

\* Seeded fault: a permit granted to a branch that is cancelled is lost.
KeepsGrantedPermit(b) == task[b] = "running"

ReturnsPermit(b) == task[b] \in {"granted", "running"}

\* Seeded fault: the branch catches its cancellation as a failure.
ReportedCancel(b) == Append(events, BranchEvent("branch_failed", b))

\* CancelledError is no Exception: a cancelled branch reports nothing.
CancelEvents(b) == events

Stops(b) ==
  /\ b \in cancelling
  /\ IF ReturnsPermit(b)
     THEN EndHolding(b, "cancelled")
     ELSE task' = [task EXCEPT ![b] = "cancelled"] /\ UNCHANGED permits
  /\ cancelling' = cancelling \ {b}
  /\ events' = CancelEvents(b)
  /\ UNCHANGED <<policy, limit, node, error, outer, outcome>>

\* What task b may report when it next runs: a cancelled one only that its
\* agent's cleanup failed.
EventsDue(b) ==
  CASE task[b] = "running" ->
         {BranchEvent("branch_failed", b)}
           \cup (IF b \in cancelling THEN {} ELSE {BranchEvent("branch_completed", b)})
    [] (task[b] = "granted" \/ (task[b] = "created" /\ ~Locked)) /\ b \notin cancelling ->
         {BranchEvent("branch_started", b)}
    [] OTHER -> {}

\* The sink raises, its event recorded or not: the error ends the task and
\* leaves the semaphore's block.
SinkRaises(b) ==
  /\ \E e \in EventsDue(b) : events' \in {events, Append(events, e)}
  /\ IF task[b] = "created"
     THEN task' = [task EXCEPT ![b] = "unreported"] /\ UNCHANGED permits
     ELSE EndHolding(b, "unreported")
  /\ cancelling' = cancelling \ {b}
  /\ UNCHANGED <<policy, limit, node, error, outer, outcome>>

----------------------------------------------------------------------------
(* The node's coroutine. *)

\* Seeded fault: fail_fast waits for all of its branches.
WakesWhenAllEnded == Live = {}

\* asyncio.wait(FIRST_EXCEPTION) or gather has something to tell.
Wakes ==
  CASE policy = "fail_fast" -> outer \/ Failed # {} \/ Live = {}
    [] OTHER                -> Live = {}

\* Any failed task's error may be met first: done is a set.
MetError ==
  IF policy = "fail_fast" /\ ~outer /\ Failed # {} THEN Failed ELSE {None}

\* Seeded fault: a task that has ended is told to stop.
EveryTask == Branch

\* Seeded fault: branches that wait for a permit are forgotten.
UnfinishedRunning == {b \in Branch : task[b] = "running"}

Unfinished == Live

AllAwaited == Live = {}

\* Seeded fault: a branch's error hides the cancellation of the run.
ErrorFirstVerdict == IF error # None THEN "failed" ELSE IF outer THEN "cancelled" ELSE "completed"

Verdict == IF outer THEN "cancelled" ELSE IF error # None THEN "failed" ELSE "completed"

\* The finally block: cancel what is not done.
Close ==
  /\ node = "waiting" /\ Wakes
  /\ error' \in MetError
  /\ cancelling' = Unfinished
  /\ node' = "closing"
  /\ UNCHANGED <<policy, limit, task, permits, outer, outcome, events>>

\* ... and await every task, then raise or return.
Leave ==
  /\ node = "closing" /\ AllAwaited
  /\ node' = "done"
  /\ outcome' = Verdict
  /\ events' = IF outcome' = "completed" THEN Append(events, NodeCompleted) ELSE events
  /\ UNCHANGED <<policy, limit, task, permits, cancelling, error, outer>>

\* ... unless the sink raises when it is told of the node's completion.
LeaveUnreported ==
  /\ node = "closing" /\ AllAwaited /\ Verdict = "completed"
  /\ node' = "done"
  /\ outcome' = "unreported"
  /\ events' \in {events, Append(events, NodeCompleted)}
  /\ UNCHANGED <<policy, limit, task, permits, cancelling, error, outer>>

\* The run is cancelled.  A gather passes that on to its tasks at once and
\* still awaits them; asyncio.wait leaves them to the finally block.
OuterCancel ==
  /\ node # "done" /\ ~outer
  /\ outer' = TRUE
  /\ cancelling' = IF policy = "fail_fast" /\ node = "waiting" THEN cancelling ELSE Live
  /\ UNCHANGED <<policy, limit, task, permits, node, error, outcome, events>>

Done == node = "done" /\ UNCHANGED vars

----------------------------------------------------------------------------
LoopStep(b) == Acquire(b) \/ Proceed(b) \/ Stops(b)
Answers(b)  == Completes(b) \/ Fails(b)

Next ==
  \/ \E b \in Branch : LoopStep(b) \/ Answers(b) \/ SinkRaises(b)
  \/ Close \/ Leave \/ LeaveUnreported \/ OuterCancel \/ Done

Spec == Init /\ [][Next]_vars

\* The loop runs every task that is ready; a cancelled agent call gives up.
LoopRuns == WF_vars(Close) /\ WF_vars(Leave) /\ \A b \in Branch : WF_vars(LoopStep(b))

\* Agents may hang.
LoopSpec == Spec /\ LoopRuns

----------------------------------------------------------------------------
(* Properties. *)

TypeOK ==
  /\ policy \in {"fail_fast", "collect_errors"}
  /\ limit \in MaxConcurrency
  /\ task \in [Branch -> {"created", "queued", "granted", "running"} \cup Ended]
  /\ permits \in Int
  /\ cancelling \subseteq Live
  /\ node \in {"waiting", "closing", "done"}
  /\ error \in Branch \cup {None}
  /\ outer \in BOOLEAN
  /\ outcome \in {"pending", "completed", "failed", "cancelled", "unreported"}

\* Permits are neither lost nor made up, in whatever order branches end, fail
\* and are cancelled while they wait, hold a permit or run: so at most
\* max_concurrency agent calls are open.
PermitsConserved == permits >= 0 /\ permits + Cardinality(Holding) = limit

\* No branch waits while a permit is free.
NoLostWakeup == permits > 0 => Waiters = {}

Unreported == {b \in Branch : task[b] = "unreported"}

EventsOf(type) == {events[i].branch : i \in {j \in DOMAIN events : events[j].type = type}}

\* A branch's events are its fate, and where the sink raised they are at least
\* no other branch's and not two ends: an end is told once, after its start, and
\* the node's completion only of a node that had nothing else to do, and last.
EventsTellBranches ==
  /\ EventsOf("branch_completed") \ Unreported = {b \in Branch : task[b] = "completed"}
  /\ EventsOf("branch_failed") \ Unreported = {b \in Branch : task[b] = "failed"}
  /\ {b \in Branch : task[b] = "running"} \subseteq EventsOf("branch_started")
  /\ EventsOf("branch_completed") \cap EventsOf("branch_failed") = {}
  /\ \A i, j \in DOMAIN events : events[i] = events[j] => i = j
  /\ \A i \in DOMAIN events :
       /\ events[i].type \in {"branch_completed", "branch_failed"} =>
            \E j \in 1..(i-1) : events[j] = BranchEvent("branch_started", events[i].branch)
       /\ events[i] = NodeCompleted =>
            i = Len(events) /\ outcome \in {"completed", "unreported"}
  /\ outcome = "completed" => NodeCompleted \in {events[i] : i \in DOMAIN events}

\* No branch starts once the node is closing, not even one that was granted a
\* permit by the failure that closes it.
NothingStartsWhenClosing ==
  [][node # "waiting" => \A b \in Branch : task[b] # "running" => task'[b] # "running"]_vars

\* fail_fast: a failed branch ends the node although its siblings hang.
FailureEndsNode ==
  (policy = "fail_fast" /\ Failed # {}) ~> (node = "done")

\* The node ends when its agents answer: no branch waits for ever.
EventuallyDone == (\A b \in Branch : WF_vars(Answers(b))) => <>(node = "done")

\* The visit a run counts on.
Visit == INSTANCE NodeVisit WITH
  stopped <- outer,
  failures <- Failed,
  visit <- IF node = "done" THEN outcome ELSE "open"

VisitSpec == Visit!Spec

============================================================================
