-------------------------- MODULE SqliteRunStore --------------------------
(***************************************************************************)
(* The run store on SQLite: SQLiteRunStore of                              *)
(* app/engine/sqlite_run_store.py.  A call holds the store's lock while it *)
(* executes its statements and commits.  Any of them may raise (the disk   *)
(* is full, another process locks the file); nothing rolls back, so what   *)
(* the call has written stays in the open transaction, which the next call *)
(* to commit publishes, unless SQLite dropped it by itself.  The process   *)
(* may also stop between any two statements and start again on what was    *)
(* committed.                                                              *)
(*                                                                         *)
(* Runs are kept and listed by the wall-clock time at which create was     *)
(* called, then by rowid.  The handlers that create runs share a thread,   *)
(* so that they read the clock in the order in which they take the lock.   *)
(***************************************************************************)
EXTENDS Integers, FiniteSets, FiniteSetsExt, SequencesExt

CONSTANTS
  Run, Event, MaxRuns, MaxEvents, MaxEmitted,   \* as in RunStore
  MaxClock,          \* bound: the wall clock
  ClockStepsBack,    \* may the wall clock be set back
  MaxRaised          \* bound: calls that raise

ASSUME StoreBoundsAssumption == MaxRuns \in Nat \ {0} /\ MaxEvents \in Nat \ {0}
ASSUME ClockAssumption == MaxClock \in Nat /\ ClockStepsBack \in BOOLEAN

VARIABLES
  clock,
  table,     \* the rows as the open connection sees them
  disk,      \* the rows committed
  call,      \* the call that holds the lock, and where it is
  created, emitted, told,   \* what the callers have done, as in RunStore
  tried,     \* each run's events in the order of the calls, and their fates
  may,       \* the statuses a run's row may have, by the fates of its calls
  raised     \* the calls that raised

calls  == <<created, emitted, told>>
fates  == <<tried, may, raised>>
vars   == <<clock, table, disk, call, calls, fates>>

Idle == [op |-> "idle"]

Init ==
  /\ clock = 0
  /\ table = <<>> /\ disk = <<>>
  /\ call = Idle
  /\ created = <<>>
  /\ emitted = [r \in Run |-> <<>>]
  /\ told = [r \in Run |-> "running"]
  /\ tried = [r \in Run |-> <<>>]
  /\ may = [r \in Run |-> {"running"}]
  /\ raised = <<>>

----------------------------------------------------------------------------
\* Seeded fault: rows of the same time are listed in the order of creation.
OlderFirst(rows, x, y) ==
  \/ rows[x].createdAt < rows[y].createdAt
  \/ rows[x].createdAt = rows[y].createdAt /\ rows[x].rowid > rows[y].rowid

\* ORDER BY created_at DESC, rowid DESC: is row x listed after row y?
Older(rows, x, y) ==
  \/ rows[x].createdAt < rows[y].createdAt
  \/ rows[x].createdAt = rows[y].createdAt /\ rows[x].rowid < rows[y].rowid

Rank(rows, x) == Cardinality({y \in DOMAIN rows : Older(rows, x, y)})

\* The ids, oldest first.
Ordered(rows) ==
  [i \in 1..Cardinality(DOMAIN rows) |->
     CHOOSE x \in DOMAIN rows : Rank(rows, x) = Cardinality(DOMAIN rows) - i]

NextRowid(rows) == 1 + Max({rows[x].rowid : x \in DOMAIN rows} \cup {0})

Inserted(rows, r, at) ==
  [x \in DOMAIN rows \cup {r} |->
     IF x = r THEN [createdAt |-> at, rowid |-> NextRowid(rows), status |-> "running",
                    events |-> <<>>]
     ELSE rows[x]]

\* Seeded fault: only the row that is one too many is deleted.
EvictedOne(rows) == [x \in {y \in DOMAIN rows : Rank(rows, y) # MaxRuns} |-> rows[x]]

\* DELETE ... LIMIT -1 OFFSET max_runs.
Evicted(rows) ==
  [x \in {y \in DOMAIN rows : Rank(rows, y) < MaxRuns} |-> rows[x]]

\* The call gives up the lock without having written.
Return == call' = Idle /\ UNCHANGED <<clock, table, disk>>

\* Seeded fault: finish does not commit.
NotCommitted == IF call.op = "finish" THEN disk ELSE table

Committed == table

Commit == disk' = Committed /\ call' = Idle /\ UNCHANGED <<clock, table>>

----------------------------------------------------------------------------
(* create *)

CreateBegins(r) ==
  /\ call = Idle
  /\ r \notin ToSet(created) /\ \A i \in DOMAIN raised : raised[i] # [op |-> "create", run |-> r]
  /\ call' = [op |-> "create", run |-> r, at |-> clock, step |-> "insert"]
  /\ UNCHANGED <<clock, table, disk, calls, fates>>

CreateInserts ==
  /\ call.op = "create" /\ call.step = "insert"
  /\ table' = Inserted(table, call.run, call.at)
  /\ call' = [call EXCEPT !.step = "evict"]
  /\ UNCHANGED <<clock, disk, calls, fates>>

CreateEvicts ==
  /\ call.op = "create" /\ call.step = "evict"
  /\ table' = Evicted(table)
  /\ call' = [call EXCEPT !.step = "commit"]
  /\ UNCHANGED <<clock, disk, calls, fates>>

CreateCommits ==
  /\ call.op = "create" /\ call.step = "commit"
  /\ Commit
  /\ created' = Append(created, call.run)
  /\ UNCHANGED <<emitted, told, fates>>

----------------------------------------------------------------------------
(* event: read the record, write it back with the event, commit.           *)

EventBegins(r, e) ==
  /\ call = Idle /\ r \in ToSet(created) /\ Len(tried[r]) < MaxEmitted
  /\ call' = [op |-> "event", run |-> r, event |-> e, step |-> "write"]
  /\ UNCHANGED <<clock, table, disk, calls, fates>>

HasRoom(r) == r \in DOMAIN table /\ Len(table[r].events) < MaxEvents

EventWrites ==
  /\ call.op = "event" /\ call.step = "write" /\ HasRoom(call.run)
  /\ table' = [table EXCEPT ![call.run].events = Append(@, call.event)]
  /\ call' = [call EXCEPT !.step = "commit"]
  /\ UNCHANGED <<clock, disk, calls, fates>>

Tried(fate) == tried' = [tried EXCEPT ![call.run] = Append(@, [event |-> call.event, fate |-> fate])]

\* An event that is written and committed, or for which there is no room.
EventReturns ==
  /\ call.op = "event"
  /\ \/ call.step = "commit" /\ Commit /\ Tried("kept")
     \/ call.step = "write" /\ ~HasRoom(call.run) /\ Return /\ Tried("dropped")
  /\ emitted' = [emitted EXCEPT ![call.run] = Append(@, call.event)]
  /\ UNCHANGED <<created, told, may, raised>>

----------------------------------------------------------------------------
(* finish: read the record, write it back with the status, commit.         *)

\* A caller whose call has returned does not finish its run again.
FinishBegins(r, status) ==
  /\ call = Idle /\ r \in ToSet(created) /\ told[r] = "running"
  /\ call' = [op |-> "finish", run |-> r, status |-> status, step |-> "write"]
  /\ UNCHANGED <<clock, table, disk, calls, fates>>

FinishWrites ==
  /\ call.op = "finish" /\ call.step = "write" /\ call.run \in DOMAIN table
  /\ table' = [table EXCEPT ![call.run].status = call.status]
  /\ call' = [call EXCEPT !.step = "commit"]
  /\ UNCHANGED <<clock, disk, calls, fates>>

FinishReturns ==
  /\ call.op = "finish"
  /\ \/ call.step = "commit" /\ Commit /\ may' = [may EXCEPT ![call.run] = {call.status}]
     \/ call.step = "write" /\ call.run \notin DOMAIN table /\ Return /\ UNCHANGED may
  /\ told' = [told EXCEPT ![call.run] = call.status]
  /\ UNCHANGED <<created, emitted, tried, raised>>

----------------------------------------------------------------------------
(* Faults and the environment. *)

\* A statement or the commit raises and the call ends: the statement alone is
\* undone, or SQLite rolls the whole transaction back.
CallRaises ==
  /\ call # Idle /\ Len(raised) < MaxRaised
  /\ raised' = Append(raised, [op |-> call.op, run |-> call.run])
  /\ table' \in {table, disk}
  /\ call' = Idle
  /\ IF call.op = "event" THEN Tried("raised") ELSE UNCHANGED tried
  /\ may' = IF call.op = "finish" THEN [may EXCEPT ![call.run] = @ \cup {call.status}] ELSE may
  /\ UNCHANGED <<clock, disk, calls>>

ClockMoves ==
  /\ clock' \in 0..MaxClock
  /\ clock' > clock \/ (ClockStepsBack /\ clock' < clock)
  /\ UNCHANGED <<table, disk, call, calls, fates>>

\* The process stops, with or without a call under way; SQLite drops what was
\* not committed.
Restart ==
  /\ call # Idle \/ table # disk
  /\ table' = disk
  /\ call' = Idle
  /\ UNCHANGED <<clock, disk, calls, fates>>

Next ==
  \/ \E r \in Run : CreateBegins(r) \/ (\E e \in Event : EventBegins(r, e))
                    \/ (\E status \in {"completed", "failed"} : FinishBegins(r, status))
  \/ CreateInserts \/ CreateEvicts \/ CreateCommits
  \/ EventWrites \/ EventReturns \/ FinishWrites \/ FinishReturns
  \/ CallRaises \/ ClockMoves \/ Restart

Spec == Init /\ [][Next]_vars

----------------------------------------------------------------------------
(* Properties. *)

\* What is committed is a run store in memory that never forgets, through
\* crashes, while time goes forward and until a call first raises.
Store == INSTANCE RunStore WITH
  order  <- Ordered(disk),
  record <- [r \in DOMAIN disk |-> [status |-> disk[r].status, events |-> disk[r].events]]

StoreSpec == Store!Init /\ [][Store!Next \/ raised' # <<>>]_(Store!vars)

\* The most recent runs are kept, as the documentation says of both stores.
KeepsMostRecent == DOMAIN disk = ToSet(Store!Newest(created, MaxRuns))

\* The events of s are ones that were tried, in their order, and every one of
\* them that was kept.
TellsEvents(s, r) ==
  \E T \in SUBSET {i \in DOMAIN tried[r] : tried[r][i].fate # "dropped"} :
    /\ {i \in DOMAIN tried[r] : tried[r][i].fate = "kept"} \subseteq T
    /\ s = [i \in 1..Cardinality(T) |->
              tried[r][CHOOSE j \in T : Cardinality({k \in T : k <= j}) = i].event]

\* Whichever calls raise, and whenever the process stops, a row on disk has
\* every event and the last status whose call returned after a commit, and
\* beyond those only what calls that raised had tried to write.
ReturnedWritesSurvive ==
  \A r \in DOMAIN disk : TellsEvents(disk[r].events, r) /\ disk[r].status \in may[r]

\* Rows beyond max_runs are left by calls of create that raised, one each;
\* the next create that returns deletes them all.
BoundIsRestored ==
  /\ Cardinality(DOMAIN disk) <=
       MaxRuns + Cardinality({i \in DOMAIN raised : raised[i].op = "create"})
  /\ call.op = "create" /\ call.step = "commit" => Cardinality(DOMAIN table) <= MaxRuns

============================================================================
