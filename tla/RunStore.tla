------------------------------ MODULE RunStore ------------------------------
(***************************************************************************)
(* The bounded run store in memory: InMemoryRunStore of                    *)
(* app/engine/run_store.py.  Every operation holds the store's lock, so    *)
(* each is one step whichever thread calls it.  It is also what the        *)
(* RunRepository protocol promises, and SqliteRunStore is shown to         *)
(* implement it.                                                           *)
(*                                                                         *)
(* The variables created, emitted and told are what the callers have done, *)
(* and are there to state the properties with.                             *)
(***************************************************************************)
EXTENDS Integers, FiniteSets, SequencesExt

CONSTANTS
  Run,          \* run ids; an id is never used twice
  Event,        \* events a run may report
  MaxRuns, MaxEvents,   \* the store's bounds
  MaxEmitted    \* bound: events one run emits

VARIABLES
  order,     \* the ids kept, oldest first
  record,    \* the record of each
  created,   \* every run created, in order
  emitted,   \* every event each run reported
  told       \* how each run said it went

vars == <<order, record, created, emitted, told>>

Least(m, n) == IF m < n THEN m ELSE n

\* The last n elements of s, or all of them.
Newest(s, n) == SubSeq(s, Len(s) - Least(n, Len(s)) + 1, Len(s))

FreshRecord == [status |-> "running", events |-> <<>>]

Init ==
  /\ order = <<>>
  /\ record = <<>>
  /\ created = <<>>
  /\ emitted = [r \in Run |-> <<>>]
  /\ told = [r \in Run |-> "running"]

\* Seeded fault: the newest run makes room for itself.
OldestOrder(r) == SubSeq(Append(order, r), 1, Least(MaxRuns, Len(order) + 1))

OrderAfter(r) == Newest(Append(order, r), MaxRuns)

RecordsAfter(r) ==
  [k \in ToSet(OrderAfter(r)) |-> IF k = r THEN FreshRecord ELSE record[k]]

Create(r) ==
  /\ r \notin ToSet(created)
  /\ created' = Append(created, r)
  /\ order' = OrderAfter(r)
  /\ record' = RecordsAfter(r)
  /\ UNCHANGED <<emitted, told>>

\* Seeded fault: the oldest event makes room for the newest.
Rolling(events, e) == Newest(Append(events, e), MaxEvents)

\* An event beyond the bound is dropped.
Extended(events, e) == IF Len(events) < MaxEvents THEN Append(events, e) ELSE events

\* A run that has been evicted is not recorded any more.
ReportEvent(r, e) ==
  /\ r \in ToSet(created) /\ Len(emitted[r]) < MaxEmitted
  /\ emitted' = [emitted EXCEPT ![r] = Append(@, e)]
  /\ record' = IF r \in DOMAIN record
               THEN [record EXCEPT ![r].events = Extended(@, e)] ELSE record
  /\ UNCHANGED <<order, created, told>>

Finish(r, status) ==
  /\ r \in ToSet(created)
  /\ told' = [told EXCEPT ![r] = status]
  /\ record' = IF r \in DOMAIN record
               THEN [record EXCEPT ![r].status = status] ELSE record
  /\ UNCHANGED <<order, created, emitted>>

\* list(limit): the newest runs, newest first.
Listing(limit) == Reverse(Newest(order, limit))

Next ==
  \E r \in Run : Create(r) \/ (\E e \in Event : ReportEvent(r, e))
                 \/ (\E status \in {"completed", "failed"} : Finish(r, status))

Spec == Init /\ [][Next]_vars

----------------------------------------------------------------------------
(* Properties. *)

\* The store holds the max_runs runs created last and lists them newest
\* first, whichever of them still report events or finish.
KeepsTheNewest ==
  /\ order = Newest(created, MaxRuns)
  /\ Listing(MaxRuns) = Reverse(Newest(created, MaxRuns))
  /\ DOMAIN record = ToSet(order)

\* A kept record says what its run said: its status, and its events in the
\* order they were reported, up to the bound.
RecordsWhatItWasTold ==
  \A r \in DOMAIN record :
    /\ record[r].status = told[r]
    /\ record[r].events = SubSeq(emitted[r], 1, Least(MaxEvents, Len(emitted[r])))

============================================================================
