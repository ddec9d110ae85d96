----------------------------- MODULE NodeVisit -----------------------------
(***************************************************************************)
(* What a run relies on when it visits a parallel node: the visit ends     *)
(* once, with the policy's kind of outcome, and is cancelled only on       *)
(* request.  GraphRun takes its node outcomes from here; ParallelNode      *)
(* implements it with tasks and a semaphore.                               *)
(***************************************************************************)

CONSTANT Branch

VARIABLES
  policy,     \* fail_fast or collect_errors
  stopped,    \* cancellation was requested
  failures,   \* branches whose own error, or the sink's, has escaped
  visit       \* open, or how the visit ended

Init ==
  /\ policy \in {"fail_fast", "collect_errors"}
  /\ stopped = FALSE
  /\ failures = {}
  /\ visit = "open"

BranchFails(b) ==
  /\ visit = "open" /\ b \notin failures
  /\ failures' = failures \cup {b}
  /\ UNCHANGED <<policy, stopped, visit>>

Stop ==
  /\ visit = "open" /\ ~stopped
  /\ stopped' = TRUE
  /\ UNCHANGED <<policy, failures, visit>>

\* The sink may raise when it is told of the completion.
Complete ==
  /\ visit = "open" /\ ~stopped
  /\ policy = "fail_fast" => failures = {}
  /\ visit' \in {"completed", "unreported"}
  /\ UNCHANGED <<policy, stopped, failures>>

Fail ==
  /\ visit = "open" /\ ~stopped
  /\ policy = "fail_fast" /\ failures # {}
  /\ visit' = "failed"
  /\ UNCHANGED <<policy, stopped, failures>>

Cancel ==
  /\ visit = "open" /\ stopped
  /\ visit' = "cancelled"
  /\ UNCHANGED <<policy, stopped, failures>>

Next == (\E b \in Branch : BranchFails(b)) \/ Stop \/ Complete \/ Fail \/ Cancel

Spec == Init /\ [][Next]_<<policy, stopped, failures, visit>>

============================================================================
