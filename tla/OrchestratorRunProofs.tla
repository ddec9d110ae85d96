----------------------- MODULE OrchestratorRunProofs -----------------------
(***************************************************************************)
(* Theorems about OrchestratorRun and the AgentCall it is composed of, for *)
(* any servers: connections are closed in the order they depend on each    *)
(* other, outcomes are earned, and the timeline tells them.                *)
(***************************************************************************)
EXTENDS OrchestratorRun, SequenceTheorems, TLAPS

----------------------------------------------------------------------------
(* The manager's call. *)

CallTyped ==
  /\ mLeft \in Seq(Server) /\ mOpen \in Seq(Server)
  /\ mPc \in {"input", "connect", "run", "close", "check", "done"}
  /\ mRaised \in {"none", "error", "cancelled"}
  /\ interrupt \in {"none", "pending", "delivered"}
  /\ mOutcome \in {"pending", "output", "input error", "execution error", "cancelled"}

\* Its connections are open between input and check, and a call that nothing
\* has gone wrong in has connected them all.
CallStack ==
  /\ mPc \in {"input", "check", "done"} => mOpen = <<>>
  /\ mPc \in {"run", "check"} => mLeft = <<>>
  /\ mPc = "close" /\ mRaised = "none" => mLeft = <<>>

CallOutcome ==
  /\ mPc = "check" => mRaised = "none"
  /\ mPc # "done" <=> mOutcome = "pending"
  /\ mRaised = "cancelled" \/ mOutcome = "cancelled" => interrupt # "none"
  /\ mOutcome = "output" => mRaised = "none" /\ mLeft = <<>>

CallInv == CallTyped /\ CallStack /\ CallOutcome

LEMMA StackTyped ==
  ASSUME NEW S, NEW l \in Seq(S), NEW o \in Seq(S)
  PROVE  /\ l # <<>> => Append(o, Head(l)) \in Seq(S) /\ Tail(l) \in Seq(S)
         /\ o # <<>> => SubSeq(o, 1, Len(o) - 1) \in Seq(S)
<1>1. ASSUME l # <<>> PROVE Append(o, Head(l)) \in Seq(S) /\ Tail(l) \in Seq(S)
  BY <1>1, HeadTailProperties, AppendProperties
<1>2. ASSUME o # <<>> PROVE SubSeq(o, 1, Len(o) - 1) \in Seq(S)
  <2>1. Len(o) - 1 \in Int /\ \A i \in 1..Len(o) - 1 : o[i] \in S
    BY ElementOfSeq, LenProperties
  <2>. QED BY <2>1, SubSeqProperties
<1>. QED BY <1>1, <1>2

LEMMA CallInvInit == Init => CallInv
<1>1. <<>> \in Seq(Server)
  OBVIOUS
<1>. QED BY <1>1, ServersAssumption
     DEF Init, Call!Init, CallInv, CallTyped, CallStack, CallOutcome

LEMMA CallInvStep ==
  ASSUME CallInv, Call!Local \/ Call!ServerConnects \/ Call!CloseNext \/ Call!RunnerEnds
  PROVE  CallInv'
<1>. USE DEF CallInv, CallTyped, CallStack, CallOutcome, Call!Leave
<1>1. CASE Call!InputAccepted
  BY <1>1 DEF Call!InputAccepted
<1>2. CASE Call!InputRefused
  BY <1>2 DEF Call!InputRefused
<1>3. CASE Call!Builds
  BY <1>3 DEF Call!Builds
<1>4. CASE Call!BuildFails
  BY <1>4 DEF Call!BuildFails
<1>5. CASE Call!Closed
  BY <1>5 DEF Call!Closed, Call!AllClosed, Call!AfterClose
<1>6. CASE Call!OutputAccepted
  BY <1>6 DEF Call!OutputAccepted
<1>7. CASE Call!OutputRefused
  BY <1>7 DEF Call!OutputRefused
<1>8. CASE Call!RunnerTimesOut
  BY <1>8 DEF Call!RunnerTimesOut
<1>9. CASE Call!Interrupted
  BY <1>9 DEF Call!Interrupted
<1>10. CASE Call!Connects
  BY <1>10, StackTyped DEF Call!Connects, Call!Connect
<1>11. CASE Call!ConnectFails
  BY <1>11 DEF Call!ConnectFails
<1>12. CASE Call!CloseNext
  BY <1>12, StackTyped DEF Call!CloseNext, Call!CloseTop
<1>13. CASE Call!RunnerAnswers
  BY <1>13 DEF Call!RunnerAnswers
<1>14. CASE Call!RunnerFails
  BY <1>14 DEF Call!RunnerFails
<1>. QED BY <1>1, <1>2, <1>3, <1>4, <1>5, <1>6, <1>7, <1>8, <1>9, <1>10, <1>11, <1>12, <1>13,
            <1>14 DEF Call!Local, Call!ServerConnects, Call!RunnerEnds

LEMMA CallInvKept == ASSUME CallInv, UNCHANGED <<manager, interrupt>> PROVE CallInv'
BY DEF CallInv, CallTyped, CallStack, CallOutcome, manager

----------------------------------------------------------------------------
(* The run. *)

RunTyped ==
  /\ tools \in Seq(Server) /\ left \in Seq(Server) /\ open \in Seq(Server)
  /\ pc \in {"connect", "manage", "close", "done"}
  /\ raised \in {"none", "connect error", "close error", "sink error", "timeout", "cancelled"}
                 \cup ManagerErrors
  /\ cancelled \in BOOLEAN /\ expired \in BOOLEAN /\ unreported \in BOOLEAN
  /\ outcome \in {"pending", "completed", "connect error", "close error", "sink error",
                  "timeout", "cancelled"} \cup ManagerErrors

\* The specialists' servers are connected in their order, and all of them once
\* the manager is called; they are closed when its call has ended.
RunStack ==
  /\ pc \in {"connect", "manage"} => open \o left = tools
  /\ pc = "manage" => open = tools
  /\ pc = "connect" => mPc = "input"
  /\ pc \in {"close", "done"} => mPc \in {"input", "done"}
  /\ pc = "done" => open = <<>>

\* A cancellation is pending only where the task awaits something, and it is
\* the caller's unless the workflow's timeout, which runs for the manager only,
\* has passed.
Cancellation ==
  /\ interrupt = "pending" => Awaiting
  /\ interrupt # "none" => cancelled \/ expired
  /\ expired => pc # "connect"
  /\ interrupt = "pending" /\ pc = "close" => cancelled

\* What is on its way out, and what was reported, by how the manager fared.
Reported ==
  /\ pc = "connect" => events = <<>> /\ raised = "none" /\ ~unreported
  /\ pc = "manage" => events = <<"node_started">> /\ raised = "none" /\ ~unreported
  /\ unreported =>
       /\ raised \in {"sink error", "close error", "cancelled"}
       /\ \/ mOutcome = "pending" /\ events \in {<<>>, <<"node_started">>}
          \/ /\ mOutcome = "output"
             /\ events \in {<<"node_started">>, <<"node_started", "node_completed">>}
          \/ /\ mOutcome \in ManagerErrors
             /\ events \in {<<"node_started">>, <<"node_started", "node_failed">>}
  /\ pc \in {"close", "done"} /\ ~unreported =>
       \/ /\ mOutcome = "pending" /\ events = <<>>
          /\ raised \in {"connect error", "close error", "cancelled"}
       \/ /\ mOutcome = "output" /\ events = <<"node_started", "node_completed">>
          /\ raised \in {"none", "close error", "cancelled"}
       \/ /\ mOutcome \in ManagerErrors /\ events = <<"node_started", "node_failed">>
          /\ raised \in {mOutcome, "close error", "cancelled"}
       \/ /\ mOutcome = "cancelled" /\ events = <<"node_started">>
          /\ raised \in {"timeout", "close error", "cancelled"}
  /\ raised = "cancelled" => cancelled
  /\ raised = "timeout" => expired
  /\ outcome = IF pc = "done" THEN EndOf ELSE "pending"

RunInv == RunTyped /\ RunStack /\ Cancellation /\ Reported

IInv == CallInv /\ RunInv

LEMMA RunInvInit == Init => RunInv
<1>1. SUFFICES ASSUME Init PROVE RunInv
  OBVIOUS
<1>2. tools \in Seq(Server) /\ left = tools /\ open = <<>> /\ <<>> \in Seq(Server)
  BY <1>1, ServersAssumption DEF Init
<1>3. open \o left = tools
  BY <1>2, ConcatEmptySeq
<1>. QED BY <1>1, <1>2, <1>3
     DEF Init, Call!Init, RunInv, RunTyped, RunStack, Cancellation, Reported

\* A step of the manager's call leaves no cancellation pending where nothing
\* is awaited, and makes none.
LEMMA CallCancellation ==
  ASSUME CallInv, interrupt = "pending" => Call!Awaiting,
         Call!Local \/ Call!ServerConnects \/ Call!CloseNext \/ Call!RunnerEnds
  PROVE  /\ interrupt' = "pending" => Call!Awaiting'
         /\ interrupt' # "none" => interrupt # "none"
<1>. USE DEF CallInv, CallTyped, CallStack, CallOutcome, Call!Leave, Call!Awaiting
<1>1. CASE Call!InputAccepted \/ Call!InputRefused
  BY <1>1 DEF Call!InputAccepted, Call!InputRefused
<1>2. CASE Call!Builds \/ Call!BuildFails
  BY <1>2 DEF Call!Builds, Call!BuildFails
<1>3. CASE Call!Closed
  BY <1>3 DEF Call!Closed, Call!AllClosed, Call!AfterClose
<1>4. CASE Call!OutputAccepted \/ Call!OutputRefused
  BY <1>4 DEF Call!OutputAccepted, Call!OutputRefused
<1>5. CASE Call!RunnerTimesOut
  BY <1>5 DEF Call!RunnerTimesOut
<1>6. CASE Call!Interrupted
  BY <1>6 DEF Call!Interrupted
<1>7. CASE Call!Connects \/ Call!ConnectFails
  BY <1>7 DEF Call!Connects, Call!ConnectFails
<1>8. CASE Call!CloseNext
  BY <1>8 DEF Call!CloseNext
<1>9. CASE Call!RunnerAnswers \/ Call!RunnerFails
  BY <1>9 DEF Call!RunnerAnswers, Call!RunnerFails
<1>. QED BY <1>1, <1>2, <1>3, <1>4, <1>5, <1>6, <1>7, <1>8, <1>9
     DEF Call!Local, Call!ServerConnects, Call!RunnerEnds

ManagerStep == ManagerLocal \/ ManagerConnects \/ ManagerCloses \/ ManagerModelEnds

LEMMA ManagerInvStep == ASSUME IInv, ManagerStep PROVE IInv'
<1>1. /\ pc = "manage" /\ UNCHANGED run
      /\ Call!Local \/ Call!ServerConnects \/ Call!CloseNext \/ Call!RunnerEnds
  BY DEF ManagerStep, ManagerLocal, ManagerConnects, ManagerCloses, ManagerModelEnds
<1>2. CallInv'
  BY <1>1, CallInvStep DEF IInv
<1>3. /\ left' = left /\ open' = open /\ tools' = tools /\ pc' = pc /\ raised' = raised
      /\ cancelled' = cancelled /\ expired' = expired /\ events' = events /\ outcome' = outcome
      /\ unreported' = unreported
  BY <1>1 DEF run
<1>4. interrupt = "pending" => Call!Awaiting
  BY <1>1 DEF IInv, RunInv, Cancellation, Awaiting
<1>5. (interrupt' = "pending" => Call!Awaiting') /\ (interrupt' # "none" => interrupt # "none")
  BY <1>1, <1>4, CallCancellation DEF IInv
<1>6. RunTyped' /\ RunStack'
  BY <1>1, <1>3 DEF IInv, RunInv, RunTyped, RunStack
<1>7. Cancellation'
  BY <1>1, <1>3, <1>5 DEF IInv, RunInv, Cancellation, Awaiting
<1>8. Reported'
  BY <1>1, <1>3 DEF IInv, RunInv, Reported, EndOf
<1>. QED BY <1>2, <1>6, <1>7, <1>8 DEF IInv, RunInv

\* Steps that leave the manager's call and the cancellation alone.
LEMMA SecondEvent == ASSUME NEW d, NEW e PROVE Append(<<d>>, e) = <<d, e>>
<1>1. <<d>> \in Seq({d, e}) /\ Len(<<d>>) = 1 /\ <<d>>[1] = d
  OBVIOUS
<1>2. /\ Append(<<d>>, e) \in Seq({d, e}) /\ Len(Append(<<d>>, e)) = 2
      /\ Append(<<d>>, e)[1] = d /\ Append(<<d>>, e)[2] = e
  BY <1>1, AppendProperties
<1>3. <<d, e>> \in Seq({d, e}) /\ Len(<<d, e>>) = 2 /\ <<d, e>>[1] = d /\ <<d, e>>[2] = e
  OBVIOUS
<1>4. \A i \in 1..2 : Append(<<d>>, e)[i] = <<d, e>>[i]
  <2>1. \A i \in 1..2 : i = 1 \/ i = 2
    OBVIOUS
  <2>. QED BY <1>2, <1>3, <2>1, Zenon
<1>. QED BY <1>2, <1>3, <1>4, SeqEqual

LEMMA EndedManager ==
  ASSUME IInv, pc = "manage", mOutcome # "pending"
  PROVE  mPc = "done" /\ interrupt # "pending"
<1>1. mPc = "done"
  BY DEF IInv, CallInv, CallOutcome
<1>2. ~Awaiting
  BY <1>1 DEF Awaiting, Call!Awaiting
<1>. QED BY <1>1, <1>2 DEF IInv, RunInv, Cancellation

LEMMA OwnStep ==
  ASSUME IInv, Connects \/ ConnectFails \/ StartManager \/ ManagerAnswers \/ ManagerFails
               \/ SinkRaises \/ ManagerCancelled \/ Closed
  PROVE  IInv'
<1>. USE DEF IInv, RunInv, Leave, ManagerErrors
<1>1. UNCHANGED <<manager, interrupt>>
  BY DEF Connects, ConnectFails, StartManager, ManagerAnswers, ManagerFails, SinkRaises,
         ManagerCancelled, Closed
<1>2. CallInv' /\ CallInv
  BY <1>1, CallInvKept
<1>3. /\ mPc' = mPc /\ mOutcome' = mOutcome /\ interrupt' = interrupt
      /\ mOpen' = mOpen /\ mLeft' = mLeft
  BY <1>1 DEF manager
<1>4. CASE Connects
  <2>1. /\ pc = "connect" /\ left # <<>> /\ interrupt # "pending" /\ pc' = pc
        /\ open' = Append(open, Head(left)) /\ left' = Tail(left)
        /\ UNCHANGED <<tools, raised, cancelled, expired, events, unreported, outcome>>
    BY <1>4 DEF Connects, Connect
  <2>2. open' \in Seq(Server) /\ left' \in Seq(Server)
    BY <2>1, StackTyped DEF RunTyped
  <2>3. open' \o left' = open \o left
    <3>1. Head(left) \in Server /\ open \in Seq(Server) /\ left \in Seq(Server)
      BY <2>1, HeadTailProperties DEF RunTyped
    <3>2. <<Head(left)>> \in Seq(Server)
      BY <3>1
    <3>3. open' \o left' = (open \o <<Head(left)>>) \o Tail(left)
      BY <2>1, <3>1, AppendIsConcat
    <3>4. (open \o <<Head(left)>>) \o Tail(left) = open \o (<<Head(left)>> \o Tail(left))
      BY <2>1, <2>2, <3>1, <3>2, ConcatAssociative
    <3>5. <<Head(left)>> \o Tail(left) = left
      BY <2>1, <3>1
    <3>. QED BY <3>3, <3>4, <3>5
  <2>. QED BY <1>2, <1>3, <2>1, <2>2, <2>3
       DEF RunTyped, RunStack, Cancellation, Reported, Awaiting, EndOf
<1>5. CASE ConnectFails
  BY <1>2, <1>3, <1>5
     DEF ConnectFails, RunTyped, RunStack, Cancellation, Reported, Awaiting, EndOf, CallOutcome,
         CallInv
<1>6. CASE StartManager
  <2>1. open = tools
    BY <1>6, ConcatEmptySeq DEF StartManager, RunStack, RunTyped
  <2>2. interrupt # "pending"
    BY <1>6 DEF StartManager, Cancellation, Awaiting
  <2>. QED BY <1>2, <1>3, <1>6, <2>1, <2>2
       DEF StartManager, RunTyped, RunStack, Cancellation, Reported, EndOf
<1>7. CASE ManagerAnswers
  <2>1. pc = "manage" /\ mOutcome # "pending"
    BY <1>7 DEF ManagerAnswers
  <2>2. mPc = "done" /\ interrupt # "pending"
    BY <2>1, EndedManager
  <2>3. events' = <<"node_started", "node_completed">>
    <3>1. events = <<"node_started">> /\ events' = Append(events, "node_completed")
      BY <1>7, <2>1 DEF ManagerAnswers, Reported
    <3>. QED BY <3>1, SecondEvent
  <2>. QED BY <1>2, <1>3, <1>7, <2>1, <2>2, <2>3
       DEF ManagerAnswers, RunTyped, RunStack, Cancellation, Reported, EndOf
<1>8. CASE ManagerFails
  <2>1. pc = "manage" /\ mOutcome # "pending"
    BY <1>8 DEF ManagerFails
  <2>2. mPc = "done" /\ interrupt # "pending"
    BY <2>1, EndedManager
  <2>3. events' = <<"node_started", "node_failed">>
    <3>1. events = <<"node_started">> /\ events' = Append(events, "node_failed")
      BY <1>8, <2>1 DEF ManagerFails, ManagerFailure, Reported
    <3>. QED BY <3>1, SecondEvent
  <2>. QED BY <1>2, <1>3, <1>8, <2>1, <2>2, <2>3
       DEF ManagerFails, ManagerFailure, RunTyped, RunStack, Cancellation, Reported, EndOf
<1>11. CASE SinkRaises /\ pc = "connect"
  <2>1. interrupt # "pending" /\ mOutcome = "pending"
    BY <1>2, <1>11
       DEF SinkRaises, Cancellation, Awaiting, CallInv, CallOutcome, RunStack
  <2>2. events' \in {<<>>, <<"node_started">>}
    <3>1. events = <<>>
      BY <1>11 DEF Reported
    <3>2. Append(<<>>, "node_started") = <<"node_started">>
      OBVIOUS
    <3>. QED BY <1>11, <3>1, <3>2 DEF SinkRaises
  <2>. QED BY <1>2, <1>3, <1>11, <2>1, <2>2
       DEF SinkRaises, RunTyped, RunStack, Cancellation, Reported, EndOf
<1>12. CASE SinkRaises /\ pc = "manage"
  <2>1. mOutcome \in {"output"} \cup ManagerErrors
    BY <1>12 DEF SinkRaises
  <2>2. mPc = "done" /\ interrupt # "pending"
    BY <1>12, <2>1, EndedManager
  <2>3. /\ mOutcome = "output" =>
             events' \in {<<"node_started">>, <<"node_started", "node_completed">>}
        /\ mOutcome \in ManagerErrors =>
             events' \in {<<"node_started">>, <<"node_started", "node_failed">>}
    <3>1. events = <<"node_started">>
      BY <1>12 DEF Reported
    <3>. QED BY <1>12, <2>1, <3>1, SecondEvent DEF SinkRaises
  <2>. QED BY <1>2, <1>3, <1>12, <2>1, <2>2, <2>3
       DEF SinkRaises, RunTyped, RunStack, Cancellation, Reported, EndOf
<1>13. SinkRaises => pc \in {"connect", "manage"}
  BY DEF SinkRaises
<1>9. CASE ManagerCancelled
  <2>1. mPc = "done" /\ interrupt # "pending" /\ interrupt # "none"
    BY <1>2, <1>9
       DEF ManagerCancelled, CallInv, CallOutcome, Cancellation, Awaiting, Call!Awaiting
  <2>. QED BY <1>2, <1>3, <1>9, <2>1
       DEF ManagerCancelled, RunTyped, RunStack, Cancellation, Reported, EndOf
<1>10. CASE Closed
  BY <1>2, <1>3, <1>10
     DEF Closed, AllClosed, RunTyped, RunStack, Cancellation, Reported, Awaiting, EndOf
<1>. QED BY <1>4, <1>5, <1>6, <1>7, <1>8, <1>9, <1>10, <1>11, <1>12, <1>13

LEMMA CancelStep ==
  ASSUME IInv, Interrupted \/ AgentTimeoutExpires \/ TimeoutExpires \/ CallerCancels \/ CloseNext
  PROVE  IInv'
<1>. USE DEF IInv, RunInv, Leave, ManagerErrors
<1>1. CASE Interrupted
  <2>1. CallInv'
    BY <1>1 DEF Interrupted, manager, CallInv, CallTyped, CallStack, CallOutcome
  <2>. QED BY <1>1, <2>1
       DEF Interrupted, manager, RunTyped, RunStack, Cancellation, Reported, Awaiting, EndOf,
           CallInv, CallOutcome
<1>2. CASE AgentTimeoutExpires
  <2>1. CallInv'
    BY <1>2 DEF AgentTimeoutExpires, Call!TimeoutExpires, CallInv, CallTyped, CallStack, CallOutcome
  <2>. QED BY <1>2, <2>1
       DEF AgentTimeoutExpires, Call!TimeoutExpires, Call!TimerSet, run, RunTyped, RunStack,
           Cancellation, Reported, Awaiting, Call!Awaiting, EndOf
<1>3. CASE TimeoutExpires
  <2>1. CallInv'
    BY <1>3 DEF TimeoutExpires, Call!Cancel, CallInv, CallTyped, CallStack, CallOutcome
  <2>. QED BY <1>3, <2>1
       DEF TimeoutExpires, TimerSet, Call!Cancel, RunTyped, RunStack, Cancellation, Reported,
           Awaiting, Call!Awaiting, EndOf
<1>4. CASE CallerCancels
  <2>1. CallInv'
    BY <1>4 DEF CallerCancels, manager, CallInv, CallTyped, CallStack, CallOutcome
  <2>. QED BY <1>4, <2>1, ZenonT(60)
       DEF CallerCancels, manager, RunTyped, RunStack, Cancellation, Reported, Awaiting,
           Call!Awaiting, EndOf
<1>5. CASE CloseNext
  <2>1. CallInv'
    BY <1>5 DEF CloseNext, manager, CallInv, CallTyped, CallStack, CallOutcome
  <2>2. open' \in Seq(Server) /\ left' = left
    BY <1>5, StackTyped DEF CloseNext, CloseTop, RunTyped
  <2>. QED BY <1>5, <2>1, <2>2
       DEF CloseNext, manager, RunTyped, RunStack, Cancellation, Reported, Awaiting, EndOf
<1>. QED BY <1>1, <1>2, <1>3, <1>4, <1>5

LEMMA InvStep == ASSUME IInv, [Next]_vars PROVE IInv'
<1>1. CASE ManagerStep
  BY <1>1, ManagerInvStep
<1>2. CASE \/ Connects \/ ConnectFails \/ StartManager \/ ManagerAnswers \/ ManagerFails
           \/ SinkRaises \/ ManagerCancelled \/ Closed
  BY <1>2, OwnStep
<1>3. CASE Interrupted \/ AgentTimeoutExpires \/ TimeoutExpires \/ CallerCancels \/ CloseNext
  BY <1>3, CancelStep
<1>4. CASE UNCHANGED vars
  <2>1. UNCHANGED <<manager, interrupt>>
    BY <1>4 DEF vars
  <2>2. CallInv
    BY DEF IInv
  <2>3. CallInv'
    BY <2>1, <2>2, CallInvKept
  <2>4. UNCHANGED <<left, open, tools, pc, raised, cancelled, expired, events, unreported,
                    outcome, interrupt, mPc, mLeft, mOpen, mOutcome>>
    BY <1>4 DEF vars, run, manager
  <2>5. RunInv
    BY DEF IInv
  <2>6. RunTyped' /\ RunStack'
    <3>1. RunTyped'
      BY <2>4, <2>5 DEF RunInv, RunTyped
    <3>. QED BY <2>4, <2>5, <3>1 DEF RunInv, RunStack
  <2>7. Reported'
    BY <2>4, <2>5 DEF RunInv, Reported, EndOf
  <2>8. Cancellation'
    BY <2>4, <2>5 DEF RunInv, Cancellation, Awaiting, Call!Awaiting
  <2>. QED BY <2>3, <2>6, <2>7, <2>8 DEF IInv, RunInv
<1>5. CASE Ended
  BY <1>4, <1>5 DEF Ended
<1>. QED BY <1>1, <1>2, <1>3, <1>4, <1>5 DEF Next, Local, ServerConnects, ServerCloses, ManagerStep

LEMMA Invariance == Spec => []IInv
<1>1. Init => IInv
  BY CallInvInit, RunInvInit DEF IInv
<1>2. IInv /\ [Next]_vars => IInv'
  BY InvStep
<1>. QED BY <1>1, <1>2, PTL DEF Spec

----------------------------------------------------------------------------
(* Theorems. *)

\* The manager delegates only while all servers of all specialists are open,
\* its own are closed before theirs, and none outlives the run, however many
\* there are and whichever fails to connect or to close.
THEOREM ServersSpan == Spec => []ServersSpanTheRun
<1>1. IInv => ServersSpanTheRun
  BY DEF IInv, CallInv, CallStack, RunInv, RunTyped, RunStack, ServersSpanTheRun,
         Call!NoConnectionOutlivesCall
<1>. QED BY <1>1, Invariance, PTL

\* A run completes only on its manager's output, is cancelled only by its
\* caller and times out only after its timeout; and a call returns an output
\* only if nothing in it failed.
THEOREM OutcomesAreEarned == Spec => []OutcomeIsEarned
<1>1. IInv => OutcomeIsEarned
  BY DEF IInv, CallInv, CallOutcome, RunInv, Reported, EndOf, OutcomeIsEarned, ManagerErrors,
         Call!OutcomeIsEarned
<1>. QED BY <1>1, Invariance, PTL

\* The timeline of an orchestrator run tells how its manager ended, with no end
\* for a manager that timed out or was cancelled, and lacks at most the event the
\* sink raised at.
THEOREM TimelineTells == Spec => []TimelineTellsManager
<1>1. IInv => TimelineTellsManager
  <2>1. SUFFICES ASSUME IInv, pc = "done" PROVE TimelineTellsManager
    BY DEF TimelineTellsManager
  <2>2. \A e \in {<<>>, <<"node_started">>, <<"node_started", "node_failed">>} :
          e # <<"node_started", "node_completed">>
    OBVIOUS
  <2>. QED BY <2>1, <2>2 DEF IInv, CallInv, CallOutcome, RunInv, RunTyped, Reported, EndOf,
         TimelineTellsManager, ManagerTimeline, ManagerErrors
<1>. QED BY <1>1, Invariance, PTL

============================================================================
