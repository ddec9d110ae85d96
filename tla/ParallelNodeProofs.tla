------------------------- MODULE ParallelNodeProofs -------------------------
(***************************************************************************)
(* Theorems about ParallelNode, for every finite set of branches and every *)
(* max_concurrency: permits are conserved and handed on, none of its tasks *)
(* starts while it closes, its events tell what became of them, and the    *)
(* whole implements NodeVisit.                                             *)
(***************************************************************************)
EXTENDS ParallelNode, FiniteSetTheorems, TLAPS

----------------------------------------------------------------------------
(* Types and control. *)

\* Where the coroutine is tells what it knows: while it closes every live
\* branch has been told to stop, and it raises only what fail_fast met.
Control ==
  /\ node = "waiting" => error = None
  /\ node = "closing" => Live \subseteq cancelling
  /\ node = "done" => Live = {}
  /\ node # "done" => outcome = "pending"
  /\ error # None => policy = "fail_fast" /\ error \in Failed
  /\ node = "closing" /\ policy = "fail_fast" /\ ~outer /\ error = None
       => Failed = {} /\ Live = {}

LEMMA TypedInit == Init => TypeOK /\ Control
<1>1. SUFFICES ASSUME Init PROVE TypeOK /\ Control
  OBVIOUS
<1>2. TypeOK
  <2>1. permits \in Int
    BY <1>1, ConcurrencyAssumption DEF Init
  <2>2. task \in [Branch -> {"created", "queued", "granted", "running"} \cup Ended]
    BY <1>1 DEF Init
  <2>. QED BY <1>1, <2>1, <2>2 DEF Init, TypeOK
<1>3. Control
  BY <1>1 DEF Init, Control
<1>. QED BY <1>2, <1>3

\* What the end of a task that holds a permit does to the tasks.
LEMMA EndHoldingTasks ==
  ASSUME TypeOK, NEW b \in Branch, NEW end \in Ended, EndHolding(b, end),
         task[b] \in {"granted", "running"}
  PROVE  /\ task' \in [Branch -> {"created", "queued", "granted", "running"} \cup Ended]
         /\ permits' \in Int
         /\ Live' = Live \ {b}
         /\ Failed' = IF end \in {"failed", "unreported"} THEN Failed \cup {b} ELSE Failed
         /\ \A c \in Branch : task[c] # "running" => task'[c] # "running"
<1>. USE DEF TypeOK, Live, Failed, Ended
<1>1. CASE \E w \in Waiters : /\ task' = [task EXCEPT ![b] = end, ![w] = "granted"]
                              /\ UNCHANGED permits
  <2>1. PICK w \in Waiters : task' = [task EXCEPT ![b] = end, ![w] = "granted"]
    BY <1>1
  <2>2. w \in Branch /\ task[w] = "queued" /\ w # b
    BY DEF Waiters
  <2>3. \A c \in Branch : task'[c] = IF c = w THEN "granted" ELSE IF c = b THEN end ELSE task[c]
    BY <2>1, <2>2
  <2>. QED BY <1>1, <2>1, <2>2, <2>3
<1>2. CASE task' = [task EXCEPT ![b] = end] /\ permits' = permits + 1
  <2>1. \A c \in Branch : task'[c] = IF c = b THEN end ELSE task[c]
    BY <1>2
  <2>. QED BY <1>2, <2>1
<1>. QED BY <1>1, <1>2 DEF EndHolding

\* The sink's error ends its task, and is a failure.
LEMMA SinkRaisesTasks ==
  ASSUME TypeOK, NEW b \in Branch, SinkRaises(b)
  PROVE  /\ task' \in [Branch -> {"created", "queued", "granted", "running"} \cup Ended]
         /\ permits' \in Int
         /\ b \in Live
         /\ Live' = Live \ {b}
         /\ Failed' = Failed \cup {b}
         /\ \A c \in Branch : task[c] # "running" => task'[c] # "running"
<1>1. task[b] \in {"created", "granted", "running"}
  BY DEF SinkRaises, EventsDue
<1>2. b \in Live
  BY <1>1 DEF Live, Ended
<1>3. CASE task[b] = "created"
  <2>1. task' = [task EXCEPT ![b] = "unreported"] /\ permits' = permits
    BY <1>3 DEF SinkRaises
  <2>. QED BY <1>2, <1>3, <2>1 DEF TypeOK, Live, Failed, Ended
<1>4. CASE task[b] # "created"
  <2>1. EndHolding(b, "unreported") /\ task[b] \in {"granted", "running"}
    BY <1>1, <1>4 DEF SinkRaises
  <2>. QED BY <1>2, <2>1, EndHoldingTasks DEF Ended
<1>. QED BY <1>3, <1>4

LEMMA TypedStep == TypeOK /\ Control /\ [Next]_vars => TypeOK' /\ Control'
<1>1. SUFFICES ASSUME TypeOK, Control, [Next]_vars PROVE TypeOK' /\ Control'
  OBVIOUS
<1>. USE <1>1
<1>2. ASSUME NEW b \in Branch, Acquire(b) PROVE TypeOK' /\ Control'
  <2>1. \/ task' = [task EXCEPT ![b] = "queued"] /\ permits' = permits
        \/ task' = [task EXCEPT ![b] = "running"] /\ permits' = permits - 1
    BY <1>2 DEF Acquire
  <2>2. Live' = Live /\ Failed' = Failed /\ permits' \in Int
        /\ task' \in [Branch -> {"created", "queued", "granted", "running"} \cup Ended]
    BY <1>2, <2>1 DEF Acquire, TypeOK, Live, Failed, Ended
  <2>. QED BY <1>2, <2>2 DEF Acquire, TypeOK, Control
<1>3. ASSUME NEW b \in Branch, Proceed(b) PROVE TypeOK' /\ Control'
  <2>1. Live' = Live /\ Failed' = Failed
        /\ task' \in [Branch -> {"created", "queued", "granted", "running"} \cup Ended]
    BY <1>3 DEF Proceed, TypeOK, Live, Failed, Ended
  <2>. QED BY <1>3, <2>1 DEF Proceed, TypeOK, Control
<1>4. ASSUME NEW b \in Branch, Completes(b) PROVE TypeOK' /\ Control'
  <2>1. Live' = Live \ {b} /\ Failed' = Failed /\ permits' \in Int
        /\ task' \in [Branch -> {"created", "queued", "granted", "running"} \cup Ended]
    BY <1>4, EndHoldingTasks DEF Completes, Ended
  <2>. QED BY <1>4, <2>1 DEF Completes, TypeOK, Control
<1>5. ASSUME NEW b \in Branch, Fails(b) PROVE TypeOK' /\ Control'
  <2>1. /\ Live' = Live \ {b} /\ Failed' = Failed \cup {b} /\ permits' \in Int
        /\ task' \in [Branch -> {"created", "queued", "granted", "running"} \cup Ended]
    BY <1>5, EndHoldingTasks DEF Fails, Ended
  <2>2. b \in Live
    BY <1>5 DEF Fails, Live, Ended
  <2>. QED BY <1>5, <2>1, <2>2 DEF Fails, TypeOK, Control
<1>6. ASSUME NEW b \in Branch, Stops(b) PROVE TypeOK' /\ Control'
  <2>1. /\ Live' = Live \ {b} /\ Failed' = Failed /\ permits' \in Int
        /\ task' \in [Branch -> {"created", "queued", "granted", "running"} \cup Ended]
    <3>1. CASE ReturnsPermit(b)
      BY <1>6, <3>1, EndHoldingTasks DEF Stops, ReturnsPermit, Ended
    <3>2. CASE ~ReturnsPermit(b)
      <4>1. b \in Live /\ task' = [task EXCEPT ![b] = "cancelled"] /\ permits' = permits
        BY <1>6, <3>2 DEF Stops, TypeOK
      <4>. QED BY <4>1 DEF TypeOK, Live, Failed, Ended
    <3>. QED BY <3>1, <3>2
  <2>. QED BY <1>6, <2>1 DEF Stops, TypeOK, Control
<1>11. ASSUME NEW b \in Branch, SinkRaises(b) PROVE TypeOK' /\ Control'
  <2>1. /\ Live' = Live \ {b} /\ Failed' = Failed \cup {b} /\ permits' \in Int
        /\ task' \in [Branch -> {"created", "queued", "granted", "running"} \cup Ended]
        /\ b \in Live
    BY <1>11, SinkRaisesTasks
  <2>. QED BY <1>11, <2>1 DEF SinkRaises, TypeOK, Control
<1>7. CASE Close
  <2>1. Live' = Live /\ Failed' = Failed
    BY <1>7 DEF Close, Live, Failed
  <2>2. /\ error' \in Branch \cup {None}
        /\ error' # None => policy = "fail_fast" /\ error' \in Failed
        /\ policy = "fail_fast" /\ ~outer /\ error' = None => Failed = {} /\ Live = {}
    BY <1>7, NoneAssumption DEF Close, Wakes, MetError, Failed
  <2>. QED BY <1>7, <2>1, <2>2 DEF Close, TypeOK, Control, Unfinished
<1>8. CASE Leave \/ LeaveUnreported
  <2>1. Live' = Live /\ Failed' = Failed
    BY <1>8 DEF Leave, LeaveUnreported, Live, Failed
  <2>. QED BY <1>8, <2>1 DEF Leave, LeaveUnreported, AllAwaited, Verdict, TypeOK, Control
<1>9. CASE OuterCancel
  <2>1. Live' = Live /\ Failed' = Failed
    BY <1>9 DEF OuterCancel, Live, Failed
  <2>. QED BY <1>9, <2>1 DEF OuterCancel, TypeOK, Control
<1>10. CASE UNCHANGED vars
  BY <1>10 DEF vars, TypeOK, Control, Live, Failed
<1>. QED BY <1>2, <1>3, <1>4, <1>5, <1>6, <1>7, <1>8, <1>9, <1>10, <1>11
         DEF Next, LoopStep, Answers, Done

\* Every variable of the visit keeps its type, and only live tasks are ever
\* told to stop.
THEOREM TypeCorrect == Spec => []TypeOK
<1>1. Init => TypeOK /\ Control
  BY TypedInit
<1>2. TypeOK /\ Control /\ [Next]_vars => TypeOK' /\ Control'
  BY TypedStep
<1>. QED BY <1>1, <1>2, PTL DEF Spec

\* From the moment the node begins to close, no branch starts to run.
THEOREM ClosingStartsNothing == Spec => NothingStartsWhenClosing
<1>1. TypeOK /\ Control /\ [Next]_vars =>
        [node # "waiting" => \A b \in Branch : task[b] # "running" => task'[b] # "running"]_vars
  <2>1. SUFFICES ASSUME TypeOK, Control, Next, node # "waiting", NEW b \in Branch,
                        task[b] # "running"
                 PROVE  task'[b] # "running"
    OBVIOUS
  <2>. USE <2>1
  <2>2. Live \subseteq cancelling
    BY DEF Control, TypeOK
  <2>3. ASSUME NEW c \in Branch, LoopStep(c) \/ Answers(c) PROVE task'[b] # "running"
    <3>1. ~Acquire(c) /\ ~Proceed(c)
      BY <2>2 DEF Acquire, Proceed, Live, Ended
    <3>2. CASE Completes(c)
      BY <3>2, EndHoldingTasks DEF Completes, Ended
    <3>3. CASE Fails(c)
      BY <3>3, EndHoldingTasks DEF Fails, Ended
    <3>4. CASE Stops(c) /\ ReturnsPermit(c)
      BY <3>4, EndHoldingTasks DEF Stops, ReturnsPermit, Ended
    <3>5. CASE Stops(c) /\ ~ReturnsPermit(c)
      BY <3>5 DEF Stops, TypeOK
    <3>. QED BY <2>3, <3>1, <3>2, <3>3, <3>4, <3>5 DEF LoopStep, Answers
  <2>4. CASE Close \/ Leave \/ LeaveUnreported \/ OuterCancel \/ Done
    BY <2>4 DEF Close, Leave, LeaveUnreported, OuterCancel, Done, vars
  <2>5. ASSUME NEW c \in Branch, SinkRaises(c) PROVE task'[b] # "running"
    BY <2>5, SinkRaisesTasks
  <2>. QED BY <2>3, <2>4, <2>5 DEF Next
<1>. QED BY <1>1, TypedInit, TypedStep, PTL DEF Spec, NothingStartsWhenClosing

----------------------------------------------------------------------------
(* The semaphore. *)

Permits == PermitsConserved /\ NoLostWakeup

LEMMA HoldingFinite ==
  IsFiniteSet(Holding) /\ IsFiniteSet(Holding') /\ Cardinality(Holding) \in Nat
<1>1. Holding \subseteq Branch /\ Holding' \subseteq Branch
  BY DEF Holding
<1>. QED BY <1>1, BranchAssumption, FS_Subset, FS_CardinalityType

LEMMA PermitsInit == Init => Permits
<1>1. SUFFICES ASSUME Init PROVE Permits
  OBVIOUS
<1>2. limit \in Nat \ {0} /\ permits = limit
  BY <1>1, ConcurrencyAssumption DEF Init
<1>3. Holding = {} /\ Waiters = {}
  BY <1>1 DEF Init, Holding, Waiters
<1>. QED BY <1>2, <1>3, FS_EmptySet DEF Permits, PermitsConserved, NoLostWakeup

\* A task that holds a permit ends: it stays with the branches, or is free.
LEMMA EndHoldingPermits ==
  ASSUME TypeOK, Permits, NEW b \in Branch, NEW end \in Ended, EndHolding(b, end),
         task[b] \in {"granted", "running"}, limit' = limit,
         cancelling \ {b} \subseteq cancelling'
  PROVE  Permits'
<1>1. b \in Holding /\ end \notin {"granted", "running", "queued"}
  BY DEF Holding, Ended
<1>2. permits \in Nat /\ limit \in Nat
  BY ConcurrencyAssumption DEF TypeOK, Permits, PermitsConserved
<1>3. IsFiniteSet(Holding \ {b}) /\ Cardinality(Holding \ {b}) = Cardinality(Holding) - 1
      /\ Cardinality(Holding) \in Nat
  BY <1>1, HoldingFinite, FS_RemoveElement
<1>4. CASE \E w \in Waiters : /\ task' = [task EXCEPT ![b] = end, ![w] = "granted"]
                              /\ UNCHANGED permits
  <2>1. PICK w \in Waiters : task' = [task EXCEPT ![b] = end, ![w] = "granted"]
    BY <1>4
  <2>2. w \in Branch /\ task[w] = "queued" /\ w # b /\ w \notin Holding
    BY DEF Waiters, Holding
  <2>3. \A c \in Branch : task'[c] = IF c = w THEN "granted" ELSE IF c = b THEN end ELSE task[c]
    BY <2>1, <2>2 DEF TypeOK
  <2>4. Holding' = (Holding \ {b}) \cup {w}
    BY <1>1, <2>2, <2>3 DEF Holding
  <2>5. Cardinality(Holding') = Cardinality(Holding)
    <3>1. Cardinality((Holding \ {b}) \cup {w}) = Cardinality(Holding \ {b}) + 1
      BY <1>3, <2>2, FS_AddElement
    <3>. QED BY <1>3, <2>4, <3>1
  <2>6. permits = 0
    BY <1>2, <2>1 DEF Permits, NoLostWakeup
  <2>. QED BY <1>2, <1>4, <2>5, <2>6 DEF Permits, PermitsConserved, NoLostWakeup
<1>5. CASE Waiters = {} /\ task' = [task EXCEPT ![b] = end] /\ permits' = permits + 1
  <2>1. \A c \in Branch : task'[c] = IF c = b THEN end ELSE task[c]
    BY <1>5 DEF TypeOK
  <2>2. Holding' = Holding \ {b}
    BY <1>1, <2>1 DEF Holding
  <2>3. Waiters' = {}
    BY <1>1, <1>5, <2>1 DEF Waiters
  <2>. QED BY <1>2, <1>3, <1>5, <2>2, <2>3 DEF Permits, PermitsConserved, NoLostWakeup
<1>. QED BY <1>4, <1>5 DEF EndHolding

\* A step that moves no permit and adds no waiter.
LEMMA PermitsStay ==
  ASSUME Permits, Holding' = Holding, Waiters' \subseteq Waiters,
         permits' = permits, limit' = limit
  PROVE  Permits'
BY DEF Permits, PermitsConserved, NoLostWakeup

LEMMA PermitsStep == TypeOK /\ Permits /\ [Next]_vars => Permits'
<1>1. SUFFICES ASSUME TypeOK, Permits, [Next]_vars PROVE Permits'
  OBVIOUS
<1>. USE <1>1
<1>2. ASSUME NEW b \in Branch, Acquire(b) PROVE Permits'
  <2>1. CASE Locked
    <3>1. task' = [task EXCEPT ![b] = "queued"] /\ permits' = permits /\ limit' = limit
          /\ cancelling' = cancelling /\ task[b] = "created"
      BY <1>2, <2>1 DEF Acquire
    <3>2. Holding' = Holding
      BY <3>1 DEF Holding, TypeOK
    <3>3. permits = 0
      BY <2>1, ConcurrencyAssumption DEF Locked, Permits, PermitsConserved, NoLostWakeup, TypeOK
    <3>. QED BY <3>1, <3>2, <3>3 DEF Permits, PermitsConserved, NoLostWakeup
  <2>2. CASE ~Locked
    <3>1. task' = [task EXCEPT ![b] = "running"] /\ permits' = permits - 1 /\ limit' = limit
          /\ cancelling' = cancelling /\ task[b] = "created"
      BY <1>2, <2>2 DEF Acquire
    <3>2. Holding' = Holding \cup {b} /\ b \notin Holding /\ Waiters' = Waiters
      BY <3>1 DEF Holding, Waiters, TypeOK
    <3>3. Cardinality(Holding') = Cardinality(Holding) + 1
      BY <3>2, HoldingFinite, FS_AddElement
    <3>4. permits \in Nat \ {0} /\ limit \in Nat /\ Waiters = {}
      BY <2>2, ConcurrencyAssumption DEF Locked, Permits, PermitsConserved, TypeOK
    <3>. QED BY <3>1, <3>2, <3>3, <3>4, HoldingFinite
             DEF Permits, PermitsConserved, NoLostWakeup
  <2>. QED BY <2>1, <2>2
<1>3. ASSUME NEW b \in Branch, Proceed(b) PROVE Permits'
  BY <1>3, PermitsStay DEF Proceed, TypeOK, Holding, Waiters
<1>4. ASSUME NEW b \in Branch, Completes(b) PROVE Permits'
  BY <1>4, EndHoldingPermits DEF Completes, Ended
<1>5. ASSUME NEW b \in Branch, Fails(b) PROVE Permits'
  BY <1>5, EndHoldingPermits DEF Fails, Ended
<1>6. ASSUME NEW b \in Branch, Stops(b) PROVE Permits'
  <2>1. CASE ReturnsPermit(b)
    BY <1>6, <2>1, EndHoldingPermits DEF Stops, ReturnsPermit, Ended
  <2>2. CASE ~ReturnsPermit(b)
    <3>1. task' = [task EXCEPT ![b] = "cancelled"] /\ permits' = permits /\ limit' = limit
          /\ cancelling' = cancelling \ {b}
      BY <1>6, <2>2 DEF Stops
    <3>2. \A c \in Branch : task'[c] = IF c = b THEN "cancelled" ELSE task[c]
      BY <3>1 DEF TypeOK
    <3>3. Holding' = Holding /\ Waiters' \subseteq Waiters
      BY <2>2, <3>1, <3>2 DEF Holding, Waiters, ReturnsPermit
    <3>. QED BY <3>1, <3>3, PermitsStay
  <2>. QED BY <2>1, <2>2
<1>11. ASSUME NEW b \in Branch, SinkRaises(b) PROVE Permits'
  <2>1. task[b] \in {"created", "granted", "running"}
    BY <1>11 DEF SinkRaises, EventsDue
  <2>2. CASE task[b] = "created"
    <3>1. task' = [task EXCEPT ![b] = "unreported"] /\ permits' = permits /\ limit' = limit
          /\ cancelling' = cancelling \ {b}
      BY <1>11, <2>2 DEF SinkRaises
    <3>2. \A c \in Branch : task'[c] = IF c = b THEN "unreported" ELSE task[c]
      BY <3>1 DEF TypeOK
    <3>3. Holding' = Holding /\ Waiters' \subseteq Waiters
      BY <2>2, <3>1, <3>2 DEF Holding, Waiters
    <3>. QED BY <3>1, <3>3, PermitsStay
  <2>3. CASE task[b] # "created"
    BY <1>11, <2>1, <2>3, EndHoldingPermits DEF SinkRaises, Ended
  <2>. QED BY <2>2, <2>3
<1>7. CASE Close
  BY <1>7, PermitsStay DEF Close, Holding, Waiters, Unfinished, Live, TypeOK
<1>8. CASE Leave \/ LeaveUnreported
  BY <1>8, PermitsStay DEF Leave, LeaveUnreported, Holding, Waiters
<1>9. CASE OuterCancel
  BY <1>9, PermitsStay DEF OuterCancel, Holding, Waiters, Live, TypeOK
<1>10. CASE UNCHANGED vars
  BY <1>10, PermitsStay DEF vars, Holding, Waiters
<1>. QED BY <1>2, <1>3, <1>4, <1>5, <1>6, <1>7, <1>8, <1>9, <1>10, <1>11
         DEF Next, LoopStep, Answers, Done

\* The semaphore neither loses nor makes up a permit: free permits and those
\* of the branches that hold one always add up to max_concurrency.
THEOREM PermitsAreConserved == Spec => []PermitsConserved
<1>1. Permits => PermitsConserved
  BY DEF Permits
<1>. QED BY <1>1, TypedInit, TypedStep, PermitsInit, PermitsStep, PTL DEF Spec

\* No branch waits while a permit is free.
THEOREM NoWakeupIsLost == Spec => []NoLostWakeup
<1>1. Permits => NoLostWakeup
  BY DEF Permits
<1>. QED BY <1>1, TypedInit, TypedStep, PermitsInit, PermitsStep, PTL DEF Spec

----------------------------------------------------------------------------
(* What the event sink is told. *)

\* What a branch may report.
BranchEvents ==
  {BranchEvent(type, b) : type \in {"branch_started", "branch_completed", "branch_failed"},
                          b \in Branch}
Told(e, s) == \E i \in DOMAIN s : s[i] = e

\* An end has its start before it.
StartsFirst(s) ==
  \A i \in DOMAIN s : \A b \in Branch :
    s[i] \in {BranchEvent("branch_completed", b), BranchEvent("branch_failed", b)} =>
      \E j \in 1..(i-1) : s[j] = BranchEvent("branch_started", b)

ToldOnce(s) == \A i, j \in DOMAIN s : s[i] = s[j] => i = j

\* The events and the tasks agree, branch by branch.  Of a cancelled branch
\* nothing is known: it may have run or not.  Where the sink raised the last
\* event may be there or not.
Agree(b) ==
  /\ task[b] # "unreported" =>
       /\ Told(BranchEvent("branch_completed", b), events) <=> task[b] = "completed"
       /\ Told(BranchEvent("branch_failed", b), events) <=> task[b] = "failed"
  /\ ~(/\ Told(BranchEvent("branch_completed", b), events)
       /\ Told(BranchEvent("branch_failed", b), events))
  /\ Told(BranchEvent("branch_started", b), events) => task[b] \in {"running"} \cup Ended
  /\ task[b] \in {"running", "completed", "failed"} =>
       Told(BranchEvent("branch_started", b), events)

Recorded ==
  /\ events \in Seq(BranchEvents \cup {NodeCompleted})
  /\ StartsFirst(events)
  /\ ToldOnce(events)
  /\ \A b \in Branch : Agree(b)
  /\ Told(NodeCompleted, events) =>
       /\ outcome \in {"completed", "unreported"}
       /\ events # <<>> /\ events[Len(events)] = NodeCompleted
  /\ outcome = "completed" => Told(NodeCompleted, events)

\* The events are told apart by their type and their branch.
LEMMA EventsDiffer ==
  /\ \A t, u, b, c : BranchEvent(t, b) = BranchEvent(u, c) => t = u /\ b = c
  /\ \A t, b : BranchEvent(t, b) # NodeCompleted
<1>1. ASSUME NEW t, NEW u, NEW b, NEW c, BranchEvent(t, b) = BranchEvent(u, c)
      PROVE  t = u /\ b = c
  <2>1. BranchEvent(t, b).type = t /\ BranchEvent(u, c).type = u
        /\ BranchEvent(t, b).branch = b /\ BranchEvent(u, c).branch = c
    BY DEF BranchEvent
  <2>. QED BY <1>1, <2>1
<1>2. ASSUME NEW t, NEW b PROVE BranchEvent(t, b) # NodeCompleted
  <2>1. DOMAIN BranchEvent(t, b) = {"type", "branch"} /\ DOMAIN NodeCompleted = {"type"}
    BY DEF BranchEvent, NodeCompleted
  <2>2. "branch" # "type"
    OBVIOUS
  <2>. QED BY <2>1, <2>2
<1>. QED BY <1>1, <1>2

LEMMA AppendTells ==
  ASSUME NEW S, NEW s \in Seq(S), NEW e \in S
  PROVE  /\ Append(s, e) \in Seq(S)
         /\ \A x : Told(x, Append(s, e)) <=> Told(x, s) \/ x = e
         /\ Append(s, e) # <<>> /\ Append(s, e)[Len(Append(s, e))] = e
BY DEF Told

\* An event not told before keeps every event told once.
LEMMA AppendOnce ==
  ASSUME NEW S, NEW s \in Seq(S), NEW e \in S, ToldOnce(s), ~Told(e, s)
  PROVE  ToldOnce(Append(s, e))
BY DEF Told, ToldOnce

\* A start may follow anything, an end its start.
LEMMA AppendOrdered ==
  ASSUME NEW S, NEW s \in Seq(S), NEW e \in S, StartsFirst(s),
         \A b \in Branch :
           e \in {BranchEvent("branch_completed", b), BranchEvent("branch_failed", b)} =>
             Told(BranchEvent("branch_started", b), s)
  PROVE  StartsFirst(Append(s, e))
<1>1. Append(s, e) \in Seq(S) /\ Len(Append(s, e)) = Len(s) + 1
      /\ \A i \in 1..Len(s) : Append(s, e)[i] = s[i]
      /\ Append(s, e)[Len(s) + 1] = e
  OBVIOUS
<1>2. SUFFICES ASSUME NEW i \in 1..(Len(s) + 1), NEW b \in Branch,
                      Append(s, e)[i] \in {BranchEvent("branch_completed", b),
                                           BranchEvent("branch_failed", b)}
               PROVE  \E j \in 1..(i-1) :
                        Append(s, e)[j] = BranchEvent("branch_started", b)
  BY <1>1 DEF StartsFirst
<1>3. CASE i \in 1..Len(s)
  <2>1. PICK j \in 1..(i-1) : s[j] = BranchEvent("branch_started", b)
    BY <1>1, <1>2, <1>3 DEF StartsFirst
  <2>. QED BY <1>1, <1>3, <2>1
<1>4. CASE i = Len(s) + 1
  <2>1. Told(BranchEvent("branch_started", b), s)
    BY <1>1, <1>2, <1>4
  <2>2. PICK j \in 1..Len(s) : s[j] = BranchEvent("branch_started", b)
    BY <2>1 DEF Told
  <2>. QED BY <1>1, <1>4, <2>2
<1>. QED BY <1>1, <1>3, <1>4

\* A step that reports nothing leaves what was told true of every task.
LEMMA QuietRecords ==
  ASSUME Recorded, UNCHANGED events,
         \A b \in Branch : \/ task'[b] = task[b]
                           \/ task[b] \in {"created", "queued", "granted"}
                                /\ task'[b] \in {"queued", "granted", "cancelled", "unreported"}
                           \/ task[b] = "running" /\ task'[b] \in {"cancelled", "unreported"},
         outcome' = outcome
  PROVE  Recorded'
<1>1. ASSUME NEW b \in Branch PROVE Agree(b)'
  BY <1>1 DEF Recorded, Agree, Ended
<1>. QED BY <1>1 DEF Recorded

\* Branch b reports the state its task goes to, unless the sink then raises.
LEMMA ReportRecords ==
  ASSUME Recorded, NEW b \in Branch, NEW type, outcome = "pending", outcome' = outcome,
         Emit(type, b),
         \/ type = "branch_started" /\ task[b] \in {"created", "granted"}
              /\ task'[b] \in {"running", "unreported"}
         \/ type = "branch_completed" /\ task[b] = "running"
              /\ task'[b] \in {"completed", "unreported"}
         \/ type = "branch_failed" /\ task[b] = "running"
              /\ task'[b] \in {"failed", "unreported"},
         \A c \in Branch \ {b} : \/ task'[c] = task[c]
                                 \/ task[c] = "queued" /\ task'[c] = "granted"
  PROVE  Recorded'
<1> DEFINE e == BranchEvent(type, b)
           S == BranchEvents \cup {NodeCompleted}
<1>1. events \in Seq(S) /\ e \in S /\ events' = Append(events, e)
  BY DEF Recorded, Emit, BranchEvents, BranchEvent
<1>2. \A t, c : Told(BranchEvent(t, c), events') <=>
                  Told(BranchEvent(t, c), events) \/ (t = type /\ c = b)
  BY <1>1, AppendTells, EventsDiffer
<1>3. Told(NodeCompleted, events') <=> Told(NodeCompleted, events)
  BY <1>1, AppendTells, EventsDiffer
<1>4. events' \in Seq(S)
  BY <1>1, AppendTells
<1>5. Agree(b)
  BY DEF Recorded
<1>6. ToldOnce(events')
  <2>1. ~Told(e, events)
    BY <1>5 DEF Agree, Ended
  <2>. QED BY <1>1, <2>1, AppendOnce DEF Recorded
<1>7. StartsFirst(events')
  <2>1. ASSUME NEW c \in Branch,
               e \in {BranchEvent("branch_completed", c), BranchEvent("branch_failed", c)}
        PROVE  Told(BranchEvent("branch_started", c), events)
    <3>1. c = b /\ type \in {"branch_completed", "branch_failed"}
      BY <2>1, EventsDiffer
    <3>. QED BY <1>5, <3>1 DEF Agree
  <2>. QED BY <1>1, <2>1, AppendOrdered DEF Recorded
<1>8. ASSUME NEW c \in Branch PROVE Agree(c)'
  <2>1. CASE c = b
    BY <1>2, <1>5, <2>1 DEF Agree, Ended
  <2>2. CASE c # b
    <3>1. Agree(c)
      BY DEF Recorded
    <3>. QED BY <1>2, <2>2, <3>1 DEF Agree, Ended
  <2>. QED BY <2>1, <2>2
<1>. QED BY <1>3, <1>4, <1>6, <1>7, <1>8 DEF Recorded

\* The end of a task that holds a permit: its own state, and a waiter's.
LEMMA EndHoldingFates ==
  ASSUME TypeOK, NEW b \in Branch, NEW end, EndHolding(b, end), task[b] # "queued"
  PROVE  /\ task'[b] = end
         /\ \A c \in Branch \ {b} : \/ task'[c] = task[c]
                                    \/ task[c] = "queued" /\ task'[c] = "granted"
<1>1. CASE \E w \in Waiters : task' = [task EXCEPT ![b] = end, ![w] = "granted"]
  BY <1>1 DEF TypeOK, Waiters
<1>2. CASE task' = [task EXCEPT ![b] = end]
  BY <1>2 DEF TypeOK
<1>. QED BY <1>1, <1>2 DEF EndHolding

LEMMA RecordedInit == Init => Recorded
<1>1. SUFFICES ASSUME Init PROVE Recorded
  OBVIOUS
<1>2. events = <<>> /\ \A x : ~Told(x, events)
  BY <1>1 DEF Init, Told
<1>3. ASSUME NEW b \in Branch PROVE Agree(b)
  BY <1>1, <1>2, <1>3 DEF Init, Agree
<1>. QED BY <1>1, <1>2, <1>3 DEF Init, Recorded, StartsFirst, ToldOnce

LEMMA RecordedStep == TypeOK /\ Control /\ Recorded /\ [Next]_vars => Recorded'
<1>1. SUFFICES ASSUME TypeOK, Control, Recorded, [Next]_vars PROVE Recorded'
  OBVIOUS
<1>. USE <1>1
<1>2. Live # {} => outcome = "pending"
  BY DEF Control
<1>3. ASSUME NEW b \in Branch, Acquire(b) PROVE Recorded'
  <2>1. task[b] = "created" /\ outcome' = outcome /\ outcome = "pending"
    BY <1>2, <1>3 DEF Acquire, Live, Ended
  <2>2. CASE Locked
    BY <1>3, <2>1, <2>2, QuietRecords DEF Acquire, TypeOK
  <2>3. CASE ~Locked
    BY <1>3, <2>1, <2>3, ReportRecords DEF Acquire, TypeOK
  <2>. QED BY <2>2, <2>3
<1>4. ASSUME NEW b \in Branch, Proceed(b) PROVE Recorded'
  <2>1. task[b] = "granted" /\ outcome' = outcome /\ outcome = "pending"
    BY <1>2, <1>4 DEF Proceed, Live, Ended
  <2>. QED BY <1>4, <2>1, ReportRecords DEF Proceed, TypeOK
<1>5. ASSUME NEW b \in Branch, Completes(b) PROVE Recorded'
  <2>1. task[b] = "running" /\ outcome' = outcome /\ outcome = "pending"
    BY <1>2, <1>5 DEF Completes, Live, Ended
  <2>. QED BY <1>5, <2>1, EndHoldingFates, ReportRecords DEF Completes
<1>6. ASSUME NEW b \in Branch, Fails(b) PROVE Recorded'
  <2>1. task[b] = "running" /\ outcome' = outcome /\ outcome = "pending"
    BY <1>2, <1>6 DEF Fails, Live, Ended
  <2>. QED BY <1>6, <2>1, EndHoldingFates, ReportRecords DEF Fails
<1>7. ASSUME NEW b \in Branch, Stops(b) PROVE Recorded'
  <2>1. /\ task[b] \in {"created", "queued", "granted", "running"}
        /\ outcome' = outcome /\ events' = events
    BY <1>7 DEF Stops, TypeOK, Live, CancelEvents
  <2>2. /\ task'[b] = "cancelled"
        /\ \A c \in Branch \ {b} : \/ task'[c] = task[c]
                                   \/ task[c] = "queued" /\ task'[c] = "granted"
    <3>1. CASE ReturnsPermit(b)
      BY <1>7, <3>1, EndHoldingFates DEF Stops, ReturnsPermit
    <3>2. CASE ~ReturnsPermit(b)
      BY <1>7, <3>2 DEF Stops, TypeOK
    <3>. QED BY <3>1, <3>2
  <2>. QED BY <2>1, <2>2, QuietRecords
<1>10. ASSUME NEW b \in Branch, SinkRaises(b) PROVE Recorded'
  <2>1. task[b] \in {"created", "granted", "running"} /\ outcome' = outcome
        /\ outcome = "pending"
    <3>1. b \in Live
      BY <1>10, SinkRaisesTasks
    <3>. QED BY <1>2, <1>10, <3>1 DEF SinkRaises, EventsDue
  <2>2. /\ task'[b] = "unreported"
        /\ \A c \in Branch \ {b} : \/ task'[c] = task[c]
                                   \/ task[c] = "queued" /\ task'[c] = "granted"
    <3>1. CASE task[b] = "created"
      BY <1>10, <3>1 DEF SinkRaises, TypeOK
    <3>2. CASE task[b] # "created"
      BY <1>10, <2>1, <3>2, EndHoldingFates DEF SinkRaises
    <3>. QED BY <3>1, <3>2
  <2>3. CASE events' = events
    BY <2>1, <2>2, <2>3, QuietRecords
  <2>4. CASE events' # events
    <3>1. PICK e \in EventsDue(b) : events' = Append(events, e)
      BY <1>10, <2>4 DEF SinkRaises
    <3>2. CASE task[b] = "running"
      <4>1. \E type \in {"branch_failed", "branch_completed"} : e = BranchEvent(type, b)
        BY <3>1, <3>2 DEF EventsDue
      <4>. QED BY <2>1, <2>2, <3>1, <3>2, <4>1, ReportRecords DEF Emit
    <3>3. CASE task[b] # "running"
      <4>1. e = BranchEvent("branch_started", b)
        BY <3>1, <3>3 DEF EventsDue
      <4>. QED BY <2>1, <2>2, <3>1, <3>3, <4>1, ReportRecords DEF Emit
    <3>. QED BY <3>2, <3>3
  <2>. QED BY <2>3, <2>4
<1>8. CASE Close \/ OuterCancel \/ UNCHANGED vars
  BY <1>8, QuietRecords DEF Close, OuterCancel, vars
<1>9. CASE Leave \/ LeaveUnreported
  <2>1. outcome = "pending" /\ task' = task
    BY <1>9 DEF Leave, LeaveUnreported, Control
  <2>2. ~Told(NodeCompleted, events)
    BY <2>1 DEF Recorded
  <2>3. CASE events' = Append(events, NodeCompleted)
    <3> DEFINE S == BranchEvents \cup {NodeCompleted}
    <3>1. events \in Seq(S) /\ NodeCompleted \in S
      BY DEF Recorded
    <3>2. /\ events' \in Seq(S) /\ events' # <<>> /\ events'[Len(events')] = NodeCompleted
          /\ \A x : Told(x, events') <=> Told(x, events) \/ x = NodeCompleted
      BY <2>3, <3>1, AppendTells
    <3>3. ToldOnce(events')
      BY <2>2, <2>3, <3>1, AppendOnce DEF Recorded
    <3>4. StartsFirst(events')
      BY <2>3, <3>1, EventsDiffer, AppendOrdered DEF Recorded
    <3>5. ASSUME NEW b \in Branch PROVE Agree(b)'
      BY <2>1, <3>2, <3>5, EventsDiffer DEF Recorded, Agree
    <3>6. outcome' \in {"completed", "unreported"}
      <4>1. events' # events
        BY <3>1, <2>3, <2>2, <3>2
      <4>. QED BY <1>9, <4>1 DEF Leave, LeaveUnreported
    <3>. QED BY <3>2, <3>3, <3>4, <3>5, <3>6 DEF Recorded
  <2>4. CASE events' # Append(events, NodeCompleted)
    <3>1. events' = events /\ outcome' # "completed"
      BY <1>9, <2>4 DEF Leave, LeaveUnreported
    <3>2. ASSUME NEW b \in Branch PROVE Agree(b)'
      BY <2>1, <3>1, <3>2 DEF Recorded, Agree
    <3>. QED BY <2>2, <3>1, <3>2 DEF Recorded
  <2>. QED BY <2>3, <2>4
<1>. QED BY <1>3, <1>4, <1>5, <1>6, <1>7, <1>8, <1>9, <1>10 DEF Next, LoopStep, Answers, Done

LEMMA RecordedTells == Recorded => EventsTellBranches
<1>1. SUFFICES ASSUME Recorded PROVE EventsTellBranches
  OBVIOUS
<1>2. ASSUME NEW i \in DOMAIN events
      PROVE  \/ events[i] = NodeCompleted
             \/ \E type \in {"branch_started", "branch_completed", "branch_failed"} :
                  \E b \in Branch : events[i] = BranchEvent(type, b)
  BY <1>1, <1>2 DEF Recorded, BranchEvents
<1>3. \A t, b : BranchEvent(t, b).type = t /\ BranchEvent(t, b).branch = b
  BY DEF BranchEvent
<1>4. NodeCompleted.type = "node_completed"
  BY DEF NodeCompleted
<1>5. ASSUME NEW t \in {"branch_completed", "branch_failed"}
      PROVE  EventsOf(t) = {b \in Branch : Told(BranchEvent(t, b), events)}
  BY <1>2, <1>3, <1>4 DEF EventsOf, Told
<1>6. /\ EventsOf("branch_completed") \ Unreported = {b \in Branch : task[b] = "completed"}
      /\ EventsOf("branch_failed") \ Unreported = {b \in Branch : task[b] = "failed"}
      /\ EventsOf("branch_completed") \cap EventsOf("branch_failed") = {}
  BY <1>1, <1>5 DEF Recorded, Agree, Unreported
<1>7. {b \in Branch : task[b] = "running"} \subseteq EventsOf("branch_started")
  BY <1>1, <1>3 DEF Recorded, Agree, EventsOf, Told
<1>8. ASSUME NEW i \in DOMAIN events, events[i].type \in {"branch_completed", "branch_failed"}
      PROVE  \E j \in 1..(i-1) : events[j] = BranchEvent("branch_started", events[i].branch)
  <2>1. PICK b \in Branch : events[i] \in {BranchEvent("branch_completed", b),
                                           BranchEvent("branch_failed", b)}
    BY <1>2, <1>3, <1>4, <1>8
  <2>2. events[i].branch = b
    BY <1>3, <2>1
  <2>3. PICK j \in 1..(i-1) : events[j] = BranchEvent("branch_started", b)
    BY <1>1, <2>1 DEF Recorded, StartsFirst
  <2>. QED BY <2>2, <2>3
<1>9. ASSUME NEW i \in DOMAIN events, events[i] = NodeCompleted
      PROVE  i = Len(events) /\ outcome \in {"completed", "unreported"}
  <2>1. Told(NodeCompleted, events)
    BY <1>9 DEF Told
  <2>2. Len(events) \in DOMAIN events /\ events[Len(events)] = events[i]
    BY <1>1, <1>9, <2>1 DEF Recorded
  <2>. QED BY <1>1, <1>9, <2>1, <2>2 DEF Recorded, ToldOnce
<1>10. outcome = "completed" => NodeCompleted \in {events[i] : i \in DOMAIN events}
  BY <1>1 DEF Recorded, Told
<1>. QED BY <1>1, <1>6, <1>7, <1>8, <1>9, <1>10 DEF Recorded, ToldOnce, EventsTellBranches

\* What the sink was told of a branch is what became of it, and never two ends,
\* even when the sink raises; nothing follows the node's completion.
THEOREM EventsAreTrue == Spec => []EventsTellBranches
BY TypedInit, TypedStep, RecordedInit, RecordedStep, RecordedTells, PTL DEF Spec

----------------------------------------------------------------------------
(* The visit a run counts on. *)

LEMMA VisitStep ==
  TypeOK /\ Control /\ Control' /\ [Next]_vars =>
    [Visit!Next]_<<policy, outer, Failed, IF node = "done" THEN outcome ELSE "open">>
<1> DEFINE visit == IF node = "done" THEN outcome ELSE "open"
           view  == <<policy, outer, Failed, visit>>
<1>1. SUFFICES ASSUME TypeOK, Control, Control', [Next]_vars
               PROVE  Visit!Next \/ UNCHANGED view
  OBVIOUS
<1>. USE <1>1
<1>2. ASSUME NEW b \in Branch, Acquire(b) \/ Proceed(b) PROVE UNCHANGED view
  <2>1. Failed' = Failed
    BY <1>2 DEF Acquire, Proceed, Failed, TypeOK
  <2>. QED BY <1>2, <2>1 DEF Acquire, Proceed
<1>3. ASSUME NEW b \in Branch, Completes(b) PROVE UNCHANGED view
  <2>1. Failed' = Failed
    BY <1>3, EndHoldingTasks DEF Completes, Ended
  <2>. QED BY <1>3, <2>1 DEF Completes
<1>4. ASSUME NEW b \in Branch, Fails(b) PROVE Visit!Next
  <2>1. Failed' = Failed \cup {b} /\ b \notin Failed
    BY <1>4, EndHoldingTasks DEF Fails, Failed, Ended
  <2>2. b \in Live
    BY <1>4 DEF Fails, Live, Ended
  <2>3. node # "done" /\ node' = node /\ policy' = policy /\ outer' = outer
    BY <1>4, <2>2 DEF Fails, Control
  <2>4. Visit!BranchFails(b)
    BY <2>1, <2>3 DEF Visit!BranchFails
  <2>. QED BY <2>4 DEF Visit!Next
<1>5. ASSUME NEW b \in Branch, Stops(b) PROVE UNCHANGED view
  <2>1. CASE ReturnsPermit(b)
    <3>1. Failed' = Failed
      BY <1>5, <2>1, EndHoldingTasks DEF Stops, ReturnsPermit, Ended
    <3>. QED BY <1>5, <3>1 DEF Stops
  <2>2. CASE ~ReturnsPermit(b)
    <3>1. Failed' = Failed
      BY <1>5, <2>2 DEF Stops, TypeOK, Failed, Live, Ended
    <3>. QED BY <1>5, <3>1 DEF Stops
  <2>. QED BY <2>1, <2>2
<1>6. CASE Close
  BY <1>6 DEF Close, Failed
<1>10. ASSUME NEW b \in Branch, SinkRaises(b) PROVE Visit!Next
  <2>1. Failed' = Failed \cup {b} /\ b \notin Failed /\ b \in Live
    BY <1>10, SinkRaisesTasks DEF Live, Failed, Ended
  <2>2. node # "done" /\ node' = node /\ policy' = policy /\ outer' = outer
    BY <1>10, <2>1 DEF SinkRaises, Control
  <2>3. Visit!BranchFails(b)
    BY <2>1, <2>2 DEF Visit!BranchFails
  <2>. QED BY <2>3 DEF Visit!Next
<1>11. CASE LeaveUnreported
  <2>1. /\ node = "closing" /\ node' = "done" /\ outcome' = "unreported"
        /\ policy' = policy /\ outer' = outer /\ Failed' = Failed
        /\ ~outer /\ error = None
    BY <1>11 DEF LeaveUnreported, Failed, Verdict
  <2>2. Visit!Complete
    BY <2>1 DEF Visit!Complete, Control
  <2>. QED BY <2>2 DEF Visit!Next
<1>7. CASE Leave
  <2>1. /\ node = "closing" /\ node' = "done" /\ outcome' = Verdict
        /\ policy' = policy /\ outer' = outer /\ Failed' = Failed
    BY <1>7 DEF Leave, Failed
  <2>2. CASE outer
    <3>1. Visit!Cancel
      BY <2>1, <2>2 DEF Visit!Cancel, Verdict
    <3>. QED BY <3>1 DEF Visit!Next
  <2>3. CASE ~outer /\ error # None
    <3>1. Visit!Fail
      BY <2>1, <2>3 DEF Visit!Fail, Verdict, Control
    <3>. QED BY <3>1 DEF Visit!Next
  <2>4. CASE ~outer /\ error = None
    <3>1. Visit!Complete
      BY <2>1, <2>4 DEF Visit!Complete, Verdict, Control
    <3>. QED BY <3>1 DEF Visit!Next
  <2>. QED BY <2>2, <2>3, <2>4
<1>8. CASE OuterCancel
  <2>1. node # "done" /\ node' = node /\ ~outer /\ outer' = TRUE
        /\ policy' = policy /\ Failed' = Failed
    BY <1>8 DEF OuterCancel, Failed
  <2>2. Visit!Stop
    BY <2>1 DEF Visit!Stop
  <2>. QED BY <2>2 DEF Visit!Next
<1>9. CASE UNCHANGED vars
  BY <1>9 DEF vars, Failed
<1>. QED BY <1>2, <1>3, <1>4, <1>5, <1>6, <1>7, <1>8, <1>9, <1>10, <1>11
         DEF Next, LoopStep, Answers, Done

\* ParallelNode implements NodeVisit: whatever its tasks do, the run sees a
\* visit that ends once and as its policy allows.
THEOREM ImplementsVisit == Spec => VisitSpec
<1>1. Init => Visit!Init
  BY DEF Init, Visit!Init, Failed
<1>. QED BY <1>1, TypedInit, TypedStep, VisitStep, PTL DEF Spec, VisitSpec, Visit!Spec

============================================================================
