---------------------------- MODULE DurableStore ----------------------------
(***************************************************************************)
(* The run store on SQLite as its callers see it: a call of SQLiteRunStore *)
(* (app/engine/sqlite_run_store.py) holds the lock from its first          *)
(* statement to its last, so that it is one step here, whether it returns  *)
(* or raises.  A call that returns after a write commits, and with it all  *)
(* that was left in the open transaction.  One that raises commits nothing *)
(* and may leave behind what any of its statements did, or nothing at all  *)
(* of the whole transaction.  Which rows an eviction keeps is the wall     *)
(* clock's choice.  SqliteRunStore, with its statements, implements this.  *)
(***************************************************************************)
EXTENDS Integers, FiniteSets, Sequences, Functions

CONSTANTS
  Run, Event,
  MaxRuns, MaxEvents   \* the store's bounds

VARIABLES
  record,    \* the rows as the open connection sees them
  disk       \* the rows committed

vars == <<record, disk>>

Init == record = <<>> /\ disk = <<>>

\* The rows with a new one for r.
Inserted(r) ==
  [x \in DOMAIN record \cup {r} |->
     IF x = r THEN [status |-> "running", events |-> <<>>] ELSE record[x]]

\* What an eviction may leave of rows: max_runs of them, or all if they are fewer.
Evictions(rows) ==
  IF Cardinality(DOMAIN rows) <= MaxRuns THEN {rows}
  ELSE {Restrict(rows, kept) :
          kept \in {k \in SUBSET DOMAIN rows : Cardinality(k) = MaxRuns}}

HasRoom(r) == r \in DOMAIN record /\ Len(record[r].events) < MaxEvents

Extended(r, e) == [record EXCEPT ![r].events = Append(@, e)]

Ended(r, status) == [record EXCEPT ![r].status = status]

\* A statement has left rows, and the commit succeeds.
Commit(rows) == record' = rows /\ disk' = rows

Create(r) == \E rows \in Evictions(Inserted(r)) : Commit(rows)

\* An event of a run without a row, or without room in it, is not written.
ReportEvent(r, e) == IF HasRoom(r) THEN Commit(Extended(r, e)) ELSE UNCHANGED vars

Finish(r, status) == IF r \in DOMAIN record THEN Commit(Ended(r, status)) ELSE UNCHANGED vars

\* The connection sees what some statement left, or SQLite has rolled back.
Raise(left) == record' \in {record, disk} \cup left /\ UNCHANGED disk

CreateRaises(r) == Raise({Inserted(r)} \cup Evictions(Inserted(r)))

ReportRaises(r, e) == Raise(IF HasRoom(r) THEN {Extended(r, e)} ELSE {})

FinishRaises(r, status) == Raise(IF r \in DOMAIN record THEN {Ended(r, status)} ELSE {})

\* The process stops and starts again on what was committed.
Restart == record' = disk /\ UNCHANGED disk

Next ==
  \/ \E r \in Run :
       \/ Create(r) \/ CreateRaises(r)
       \/ \E e \in Event : ReportEvent(r, e) \/ ReportRaises(r, e)
       \/ \E status \in {"completed", "failed"} : Finish(r, status) \/ FinishRaises(r, status)
  \/ Restart

Spec == Init /\ [][Next]_vars

=============================================================================
