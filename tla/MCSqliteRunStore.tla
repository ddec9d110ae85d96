-------------------------- MODULE MCSqliteRunStore --------------------------
(***************************************************************************)
(* Instances of SqliteRunStore for TLC: three runs, one kept, with a clock *)
(* of two instants, so that runs may share their time of creation, and one *)
(* call that raises, whichever it is.                                      *)
(***************************************************************************)
EXTENDS SqliteRunStore

VARIABLE before   \* the rows the connection saw when the call under way began

StoreSymmetry == Permutations(Run)

MCInit == Init /\ before = <<>>

MCNext ==
  /\ Next
  /\ before' = IF call' = Idle THEN <<>> ELSE IF call = Idle THEN table ELSE before

MCSpec == MCInit /\ [][MCNext]_<<vars, before>>

Contents(rows) == [r \in DOMAIN rows |-> [status |-> rows[r].status, events |-> rows[r].events]]

\* A call, while it is under way, has done nothing yet.
Durable == INSTANCE DurableStore WITH
  record <- Contents(IF call = Idle THEN table ELSE before),
  disk   <- Contents(disk)

\* With its lock every call is one step for its callers, whether it returns,
\* raises at any of its statements or is stopped with the process: the store
\* RunApi relies on.
CallsAreOneStep == Durable!Spec

============================================================================
