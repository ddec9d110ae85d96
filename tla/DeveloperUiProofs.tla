-------------------------- MODULE DeveloperUiProofs --------------------------
(***************************************************************************)
(* Theorems about DeveloperUi, for any APIs and any number of submissions  *)
(* and interactions: the page tells one submission, and a trace that is    *)
(* over shows its end if that was stored.                                  *)
(***************************************************************************)
EXTENDS DeveloperUi, TLAPS

----------------------------------------------------------------------------
(* Types. *)

Number == Submission \cup {None}

\* Where the script is before it has anything to show of its submission.
Opening == {"reload", "store feedback", "load", "form", "call"}

\* Where a submission's run or its error is being recorded.
RecordingRun   == {"store run", "store request", "store url", "clear error"}
RecordingError == {"drop run", "store error", "store error url", "drop failed run",
                   "store failure", "store failure url", "store failed id"}

\* Where the page is shown.
Showing == {"list", "detail", "events", "ready"}

Session ==
  [run : Number, request : Number, url : Url \cup {None}, error : Number, failedId : Number,
   feedback : {"none", "reloaded", "failed"}]
Widgets == [url : Url, act : Act, submission : Number]
Trace   == [run : Number, finished : BOOLEAN, ended : BOOLEAN]
Page    == [run : Number, request : Number, error : Number, failedId : Number, trace : Trace]

TypeOK ==
  /\ session \in Session
  /\ at \in Opening \cup {"answer"} \cup RecordingRun \cup RecordingError \cup {"show"} \cup Showing
  /\ form \in Widgets
  /\ pending \in Widgets \cup {NoInteraction}
  /\ page \in Page
  /\ submitted \in 0..MaxSubmissions
  /\ sentTo \in [Submission -> Url \cup {None}]
  /\ life \in [Submission -> {"none", "running", "reported", "finished"}]
  /\ ends \in [Submission -> {"open", "stored", "dropped"}]
  /\ kept \subseteq Submission
  /\ interactions \in Nat
  /\ torn \in BOOLEAN

\* A form's submission has been counted, and names the API it is meant for.
Sent(f) ==
  /\ f.submission <= submitted
  /\ f.act = "submit" <=> f.submission # None
  /\ f.submission # None => sentTo[f.submission] = f.url

\* No API has seen a submission before the script sends it, and the script
\* that comes next has a later one.
Fresh ==
  /\ Sent(form)
  /\ pending # NoInteraction => Sent(pending)
  /\ pending.submission # None =>
       pending.submission > form.submission /\ life[pending.submission] = "none"
  /\ \A n \in Submission : n > submitted => life[n] = "none"
  /\ at \in Opening /\ form.submission # None => life[form.submission] = "none"

----------------------------------------------------------------------------
(* The session and the page. *)

\* Number n is of a submission, and went to url.
WentTo(n, url) == n <= submitted /\ sentTo[n] = url

\* What the session has stored is one submission: its run or its error.
OneSubmission ==
  /\ session.run # None =>
       /\ session.request = session.run /\ session.error = None
       /\ life[session.run] = "finished" /\ WentTo(session.run, session.url)
  /\ session.error # None => WentTo(session.error, session.url)

\* Between its stores the session has those of this script, and whatever it
\* had before for the others.
Stored ==
  /\ at \in {"call", "answer"} \cup RecordingRun \cup RecordingError => form.submission # None
  /\ at \in RecordingRun => life[form.submission] = "finished"
  /\ at \in RecordingRun \ {"store run"} => session.run = form.submission
  /\ at \in {"store url", "clear error"} => session.request = form.submission
  /\ at = "clear error" => session.url = form.url
  /\ at \in RecordingError \ {"drop run", "drop failed run"} => session.run = None
  /\ at \in {"store error url", "store failure url"} => session.error = form.submission
  /\ at = "store failed id" => ~torn
  /\ ~torn /\ at \notin Storing => OneSubmission

\* The page shows what the session had when it was shown, to this form's API.
Shown ==
  /\ at \notin Showing => page = Blank
  /\ ~torn =>
       /\ page.run # None =>
            /\ page.request = page.run /\ page.error = None
            /\ life[page.run] = "finished"
       /\ \A n \in {page.run, page.error} \ {None} : WentTo(n, form.url)

\* The record is read before the events are.
Traced ==
  /\ at \in {"list", "detail"} => ~page.trace.finished
  /\ at \in {"events", "ready"} /\ page.trace.finished =>
       page.trace.run # None /\ life[page.trace.run] = "finished"
  /\ TraceTellsTheEnd

IInv == TypeOK /\ Fresh /\ Stored /\ Shown /\ Traced

LEMMA BlankPage ==
  /\ Blank \in Page
  /\ Blank.run = None /\ Blank.error = None
  /\ Blank.trace \in Trace /\ ~Blank.trace.finished
BY DEF Blank, Page, Trace, Number

LEMMA InitIInv == Init => IInv
<1>1. SUFFICES ASSUME Init PROVE IInv
  OBVIOUS
<1>2. TypeOK
  <2>1. session \in Session
    BY <1>1 DEF Init, Session, Number
  <2>2. form \in Widgets
    BY <1>1 DEF Init, Widgets, Number, Act
  <2>3. page \in Page
    BY <1>1, BlankPage DEF Init
  <2>4. submitted \in 0..MaxSubmissions /\ interactions \in Nat
    BY <1>1, UiBoundsAssumption DEF Init
  <2>5. sentTo \in [Submission -> Url \cup {None}]
        /\ life \in [Submission -> {"none", "running", "reported", "finished"}]
        /\ ends \in [Submission -> {"open", "stored", "dropped"}]
    BY <1>1 DEF Init
  <2>. QED BY <1>1, <2>1, <2>2, <2>3, <2>4, <2>5 DEF Init, TypeOK, Opening
<1>3. Fresh
  BY <1>1, UiBoundsAssumption DEF Init, Fresh, Sent, NoInteraction, None, Submission
<1>4. Stored
  BY <1>1 DEF Init, Stored, OneSubmission, RecordingRun, RecordingError, None
<1>5. Shown
  BY <1>1 DEF Init, Shown, Showing, Blank, None
<1>6. Traced
  BY <1>1 DEF Init, Traced, TraceTellsTheEnd
<1>. QED BY <1>2, <1>3, <1>4, <1>5, <1>6 DEF IInv

----------------------------------------------------------------------------
(* Steps of the script that store and show nothing. *)

\* What such a step keeps, and where it goes.
Moves ==
  \/ at = "reload" /\ at' = "store feedback"
  \/ at = "store feedback" /\ at' = "load"
  \/ at = "load" /\ at' \in {"form", "ready"}
  \/ at = "form" /\ form.act = "submit" /\ at' \in {"drop run", "call"}
  \/ at = "form" /\ form.act # "submit" /\ at' = "show"
  \/ at \in {"call", "answer"} /\ at' = "drop run"
  \/ at = "answer" /\ life[form.submission] = "finished"
       /\ at' \in {"store run", "drop failed run"}

LEMMA MovesKeep ==
  ASSUME IInv, Moves, session' \in Session,
         \A key \in {"run", "request", "url", "error"} : session'[key] = session[key],
         UNCHANGED <<form, page, torn, server, user>>
  PROVE  IInv'
<1>. USE DEF IInv
<1>1. TypeOK'
  BY DEF TypeOK, Moves, server, user, Opening, RecordingRun, RecordingError, Showing
<1>2. Fresh'
  BY DEF Fresh, Sent, Moves, server, user, Opening
<1>3. Stored'
  <2>1. OneSubmission <=> OneSubmission'
    BY DEF OneSubmission, WentTo, server, user, TypeOK, Session
  <2>2. session'.run = session.run
    BY DEF TypeOK, Session
  <2>3. at \in {"form", "call", "answer"} /\ at' # "show" => form.submission # None \/ at' = "ready"
    BY DEF Fresh, Sent, Moves, Stored
  <2>. QED BY <2>1, <2>2, <2>3
       DEF Stored, Moves, server, user, RecordingRun, RecordingError, Storing
<1>4. Shown'
  BY BlankPage DEF Shown, WentTo, Moves, server, user, Showing
<1>5. Traced'
  BY BlankPage DEF Traced, TraceTellsTheEnd, Shown, Moves, Showing
<1>. QED BY <1>1, <1>2, <1>3, <1>4, <1>5

LEMMA ScriptMoves ==
  ASSUME IInv, Reload \/ StoresFeedback \/ Load \/ Form \/ NoRunIsNamed \/ Answered
  PROVE  IInv'
<1>1. UNCHANGED <<form, page, torn, server, user>>
  BY DEF Reload, StoresFeedback, Load, Form, NoRunIsNamed, Answered
<1>2. Moves
  BY DEF Moves, Reload, StoresFeedback, Load, Form, NoRunIsNamed, Answered, RefusesPayload, Go
<1>3. /\ session' \in Session
      /\ \A key \in {"run", "request", "url", "error"} : session'[key] = session[key]
  <2>1. CASE StoresFeedback
    BY <2>1 DEF StoresFeedback, Store, IInv, TypeOK, Session
  <2>2. CASE ~StoresFeedback
    BY <2>2 DEF IInv, TypeOK, Reload, Load, Form, NoRunIsNamed, Answered
  <2>. QED BY <2>1, <2>2
<1>. QED BY <1>1, <1>2, <1>3, MovesKeep

----------------------------------------------------------------------------
(* Steps of the runs. *)

\* The runs go on, and no run that is finished or not sent is touched.
RunsGoOn ==
  /\ life' \in [Submission -> {"none", "running", "reported", "finished"}]
  /\ ends' \in [Submission -> {"open", "stored", "dropped"}]
  /\ \A n \in Submission : /\ life[n] = "finished" => life'[n] = "finished" /\ ends'[n] = ends[n]
                           /\ life[n] = "none" => life'[n] = "none"
  /\ kept' \subseteq Submission

LEMMA RunsKeep ==
  ASSUME IInv, RunsGoOn, UNCHANGED <<script, user>>
  PROVE  IInv'
<1>. USE DEF IInv, script, user
<1>1. TypeOK'
  BY DEF TypeOK, RunsGoOn
<1>2. Fresh'
  <2>1. form.submission \in Number /\ pending.submission \in Number
    BY DEF TypeOK, Widgets, NoInteraction, Number
  <2>. QED BY <2>1 DEF Fresh, Sent, RunsGoOn, Number
<1>3. Stored'
  <2>1. session.run \in Number /\ form.submission \in Number
    BY DEF TypeOK, Session, Widgets
  <2>2. OneSubmission => OneSubmission'
    BY <2>1 DEF OneSubmission, WentTo, RunsGoOn, Number
  <2>. QED BY <2>1, <2>2 DEF Stored, RunsGoOn, RecordingRun, RecordingError, Number
<1>4. Shown'
  <2>1. page.run \in Number
    BY DEF TypeOK, Page
  <2>. QED BY <2>1 DEF Shown, WentTo, RunsGoOn, Number
<1>5. Traced'
  <2>1. page.trace.run \in Number
    BY DEF TypeOK, Page, Trace
  <2>. QED BY <2>1 DEF Traced, TraceTellsTheEnd, RunsGoOn, Number
<1>. QED BY <1>1, <1>2, <1>3, <1>4, <1>5

LEMMA RunStepsKeep ==
  ASSUME IInv, NEW n \in Submission, RunAdvances(n) \/ RunIsForgotten(n)
  PROVE  IInv'
<1>1. RunsGoOn
  BY DEF RunsGoOn, RunAdvances, RunIsForgotten, IInv, TypeOK
<1>. QED BY <1>1, RunsKeep DEF RunAdvances, RunIsForgotten

\* The API makes a run, of a submission nobody has seen a run of.
LEMMA AcceptedKeeps == IInv /\ Accepted => IInv'
<1>1. SUFFICES ASSUME IInv, Accepted PROVE IInv'
  OBVIOUS
<1>. USE <1>1 DEF IInv
<1>2. /\ at = "call" /\ at' = "answer"
      /\ life' = [life EXCEPT ![form.submission] = "running"]
      /\ kept' = kept \cup {form.submission}
      /\ UNCHANGED <<session, form, page, torn, ends, pending, submitted, sentTo, interactions>>
  BY DEF Accepted, Go, user
<1>3. form.submission \in Submission /\ life[form.submission] = "none"
  BY <1>2 DEF Stored, Fresh, TypeOK, Widgets, Number, Opening
<1>4. form.submission <= submitted /\ form.submission \in Nat /\ submitted \in Nat
  BY <1>3 DEF Fresh, Sent, TypeOK, Submission
<1>5. life' \in [Submission -> {"none", "running", "reported", "finished"}]
      /\ \A n \in Submission : n # form.submission => life'[n] = life[n]
  BY <1>2, <1>3 DEF TypeOK
<1>6. TypeOK'
  BY <1>2, <1>3, <1>5 DEF TypeOK
<1>7. Fresh'
  <2>1. pending.submission \in Number
    BY DEF TypeOK, Widgets, NoInteraction, Number
  <2>2. \A n \in Submission : n > submitted => n # form.submission
    BY <1>4
  <2>3. pending.submission # None => pending.submission # form.submission
    BY <1>4, <2>1 DEF Fresh, Number, Submission
  <2>. QED BY <1>2, <1>5, <2>1, <2>2, <2>3 DEF Fresh, Sent, Number, Opening
<1>8. Stored'
  <2>1. session.run \in Number
    BY DEF TypeOK, Session
  <2>2. OneSubmission => OneSubmission'
    BY <1>2, <1>3, <1>5, <2>1 DEF OneSubmission, WentTo, Number
  <2>. QED BY <1>2, <2>2 DEF Stored, RecordingRun, RecordingError, Storing
<1>9. Shown' /\ Traced'
  <2>1. page = Blank
    BY <1>2 DEF Shown, Showing
  <2>. QED BY <1>2, <2>1, BlankPage DEF Shown, Showing, Traced, TraceTellsTheEnd
<1>. QED BY <1>6, <1>7, <1>8, <1>9

----------------------------------------------------------------------------
(* Steps that store a submission. *)

\* One store, and where it goes.
StoreStep(here, there, key, x) == at = here /\ at' = there /\ Store(key, x)

LEMMA StoresKeep == IInv /\ (StoresRun \/ StoresError) => IInv'
<1>1. SUFFICES ASSUME IInv, StoresRun \/ StoresError PROVE IInv'
  OBVIOUS
<1>. USE <1>1 DEF IInv
<1>2. UNCHANGED <<form, page, server, user>>
  BY DEF StoresRun, StoresError
<1> DEFINE n == form.submission
<1>3. \/ StoreStep("store run", "store request", "run", n)
      \/ StoreStep("store request", "store url", "request", n)
      \/ StoreStep("store url", "clear error", "url", form.url)
      \/ StoreStep("clear error", "show", "error", None)
      \/ StoreStep("drop run", "store error", "run", None)
      \/ StoreStep("store error", "store error url", "error", n)
      \/ StoreStep("store error url", "show", "url", form.url)
      \/ StoreStep("drop failed run", "store failure", "run", None)
      \/ StoreStep("store failure", "store failure url", "error", n)
      \/ StoreStep("store failure url", "store failed id", "url", form.url)
      \/ StoreStep("store failed id", "show", "failedId", n)
  BY ZenonT(60) DEF StoresRun, StoresError, StoreStep, Go
<1>4. torn' \in BOOLEAN /\ (torn /\ ~torn' => at' \in {"show", "store failed id"})
      /\ (~torn => ~torn') /\ (at' = "store failed id" => ~torn')
  BY DEF StoresRun, StoresError, TypeOK, Go
<1>5. n \in Submission /\ form.url \in Url /\ WentTo(n, form.url)
  BY <1>3 DEF StoreStep, Stored, Fresh, Sent, WentTo, TypeOK, Widgets, Number,
     RecordingRun, RecordingError
<1>6. session \in Session /\ None \in Number /\ n \in Number
  BY <1>5 DEF TypeOK, Number
<1>7. session' \in Session
  BY <1>3, <1>5, <1>6 DEF StoreStep, Store, Session
<1>8. TypeOK'
  BY <1>2, <1>3, <1>4, <1>7 DEF TypeOK, StoreStep, server, user, RecordingRun, RecordingError
<1>9. Fresh'
  BY <1>2, <1>3 DEF Fresh, Sent, StoreStep, server, user, Opening
<1>10. Shown' /\ Traced'
  <2>1. page = Blank /\ at' \notin Showing
    BY <1>3 DEF Shown, StoreStep, Showing
  <2>. QED BY <1>2, <2>1, BlankPage DEF Shown, Showing, Traced, TraceTellsTheEnd
<1>11. Stored'
  <2>1. /\ n # None /\ n' = n /\ form'.url = form.url /\ life' = life
        /\ \A m, url : WentTo(m, url)' <=> WentTo(m, url)
    BY <1>2, <1>5 DEF server, user, WentTo, Submission, None
  <2>2. /\ at' \in {"call", "answer"} \cup RecordingRun \cup RecordingError
             => form'.submission # None
        /\ at' \in RecordingRun => life'[n'] = "finished"
        /\ at' \in RecordingRun \ {"store run"} => session'.run = n'
        /\ at' \in {"store url", "clear error"} => session'.request = n'
        /\ at' = "clear error" => session'.url = form'.url
    BY <1>3, <1>6, <2>1
    DEF Stored, StoreStep, Store, Session, RecordingRun, RecordingError
  <2>3. /\ at' \in RecordingError \ {"drop run", "drop failed run"} => session'.run = None
        /\ at' \in {"store error url", "store failure url"} => session'.error = n'
    BY <1>3, <1>6, <2>1
    DEF Stored, StoreStep, Store, Session, RecordingRun, RecordingError
  <2>4. ASSUME ~torn', at' \notin Storing PROVE OneSubmission'
    <3>1. CASE at = "clear error"
      <4>1. /\ session'.run = n /\ session'.request = n /\ session'.url = form.url
            /\ session'.error = None /\ life[n] = "finished"
        BY <1>3, <1>6, <3>1 DEF Stored, StoreStep, Store, Session, RecordingRun
      <4>. QED BY <1>5, <2>1, <4>1 DEF OneSubmission
    <3>2. CASE at \in {"store error url", "store failure url"}
      <4>1. session'.run = None /\ session'.error = n /\ session'.url = form.url
        BY <1>3, <1>6, <3>2 DEF Stored, StoreStep, Store, Session, RecordingError
      <4>. QED BY <1>5, <2>1, <4>1 DEF OneSubmission
    <3>3. CASE at = "store failed id"
      <4>1. session'.run = None /\ session'.error = session.error /\ session'.url = session.url
        BY <1>3, <1>6, <3>3 DEF Stored, StoreStep, Store, Session, RecordingError
      <4>2. ~torn /\ at \notin Storing
        BY <3>3 DEF Stored, Storing
      <4>. QED BY <2>1, <4>1, <4>2 DEF OneSubmission, Stored
    <3>4. CASE at \in {"drop run", "drop failed run"}
      <4>1. session'.run = None /\ session'.error = session.error /\ session'.url = session.url
        BY <1>3, <1>6, <3>4 DEF StoreStep, Store, Session
      <4>2. ~torn /\ at \notin Storing
        BY <1>3, <1>4, <2>4, <3>4 DEF StoreStep, Storing
      <4>. QED BY <2>1, <4>1, <4>2 DEF OneSubmission, Stored
    <3>. QED BY <1>3, <2>4, <3>1, <3>2, <3>3, <3>4 DEF StoreStep, Storing
  <2>5. at' = "store failed id" => ~torn'
    BY <1>4
  <2>. QED BY <2>2, <2>3, <2>4, <2>5 DEF Stored
<1>. QED BY <1>8, <1>9, <1>10, <1>11

----------------------------------------------------------------------------
(* Steps that show something. *)

LEMMA ShowsLastKeeps == IInv /\ ShowsLast => IInv'
<1>1. SUFFICES ASSUME IInv, ShowsLast PROVE IInv'
  OBVIOUS
<1>. USE <1>1 DEF IInv
<1>2. /\ at = "show" /\ at' = "list" /\ page = Blank
      /\ page' = IF ShownHere THEN WithRun(WithError(page)) ELSE page
      /\ UNCHANGED <<session, form, torn, pending, submitted, sentTo, interactions, life, ends, kept>>
  BY DEF ShowsLast, Go, Shown, Showing, server, user
<1>3. page' \in Page /\ page'.trace = Blank.trace
  BY <1>2, BlankPage DEF TypeOK, Session, Page, WithRun, WithError
<1>4. /\ page'.run # None => page'.run = session.run /\ page'.request = session.request
                             /\ ShownHere
      /\ page'.error # None => page'.error = session.error /\ ShownHere
  BY <1>2, BlankPage DEF TypeOK, Session, Page, WithRun, WithError
<1>5. TypeOK'
  BY <1>2, <1>3 DEF TypeOK, Showing
<1>6. Fresh' /\ Stored'
  BY <1>2 DEF Fresh, Sent, Stored, OneSubmission, WentTo, Opening, RecordingRun,
     RecordingError, Storing
<1>7. Shown'
  <2>1. ASSUME ~torn
        PROVE  /\ page'.run # None =>
                    /\ page'.request = page'.run /\ page'.error = None
                    /\ life[page'.run] = "finished"
               /\ \A n \in {page'.run, page'.error} \ {None} : WentTo(n, form.url)
    <3>1. OneSubmission
      BY <1>2, <2>1 DEF Stored, Storing
    <3>. QED BY <1>4, <3>1 DEF OneSubmission, ShownHere
  <2>2. \A n, url : WentTo(n, url)' <=> WentTo(n, url)
    BY <1>2 DEF WentTo
  <2>. QED BY <1>2, <2>1, <2>2 DEF Shown, Showing
<1>8. Traced'
  BY <1>2, <1>3, BlankPage DEF Traced, TraceTellsTheEnd
<1>. QED BY <1>5, <1>6, <1>7, <1>8

\* A step that touches nothing of the page but its trace.
LEMMA TraceSteps ==
  ASSUME IInv, at \in Showing, at' \in Showing, NEW trace \in Trace,
         page' = [page EXCEPT !.trace = trace],
         UNCHANGED <<session, form, torn, server, user>>
  PROVE  TypeOK' /\ Fresh' /\ Stored' /\ Shown' /\ page'.trace = trace
<1>. USE DEF IInv
<1>1. /\ page' \in Page /\ page'.trace = trace /\ page'.run = page.run
      /\ page'.request = page.request /\ page'.error = page.error
  BY DEF TypeOK, Page
<1>2. TypeOK'
  BY <1>1 DEF TypeOK, server, user
<1>3. Fresh' /\ Stored'
  BY DEF Fresh, Sent, Stored, OneSubmission, WentTo, Opening, RecordingRun,
     RecordingError, Storing, Showing, server, user
<1>4. Shown'
  BY <1>1 DEF Shown, WentTo, server, user
<1>. QED BY <1>1, <1>2, <1>3, <1>4

LEMMA ListsKeeps == IInv /\ Lists => IInv'
<1>1. SUFFICES ASSUME IInv, Lists PROVE IInv'
  OBVIOUS
<1>. USE <1>1 DEF IInv
<1>2. UNCHANGED <<session, form, torn, server, user>> /\ at = "list" /\ at \in Showing
  BY DEF Lists, Go, Showing
<1>3. ASSUME NEW n \in Listed, at' = "detail",
             page' = [page EXCEPT !.trace = [Blank.trace EXCEPT !.run = n]]
      PROVE  IInv'
  <2>1. /\ [Blank.trace EXCEPT !.run = n] \in Trace
        /\ ~[Blank.trace EXCEPT !.run = n].finished
    BY BlankPage DEF Trace, Listed, TypeOK, Number
  <2>2. TypeOK' /\ Fresh' /\ Stored' /\ Shown' /\ ~page'.trace.finished
    <3> DEFINE t == [Blank.trace EXCEPT !.run = n]
    <3> HIDE DEF t
    <3>1. t \in Trace /\ ~t.finished /\ page' = [page EXCEPT !.trace = t] /\ at' \in Showing
      BY <1>3, <2>1 DEF t, Showing
    <3>. QED BY <1>2, <3>1, TraceSteps
  <2>. QED BY <1>3, <2>2 DEF Traced, TraceTellsTheEnd
<1>4. ASSUME at' = "ready", page' = page PROVE IInv'
  <2>1. page.trace \in Trace /\ page' = [page EXCEPT !.trace = page.trace] /\ at' \in Showing
    BY <1>4 DEF TypeOK, Page, Showing
  <2>2. TypeOK' /\ Fresh' /\ Stored' /\ Shown'
    BY <1>2, <2>1, TraceSteps
  <2>. QED BY <1>2, <1>4, <2>2 DEF Traced, TraceTellsTheEnd
<1>. QED BY <1>3, <1>4 DEF Lists, Go, TraceReads, Show

LEMMA ReadsKeeps ==
  ASSUME IInv, NEW read \in {"detail", "events"}, Reads(read)
  PROVE  IInv'
<1>. USE DEF IInv
<1>1. /\ UNCHANGED <<session, form, torn, server, user>> /\ at = read /\ at \in Showing
      /\ life' = life /\ ends' = ends
  BY DEF Reads, Go, Showing, server
<1> DEFINE run == page.trace.run
           over == (life[run] = "finished")
           told == (ends[run] = "stored")
           detail == [page.trace EXCEPT !.finished = over]
           events == [page.trace EXCEPT !.ended = told]
<1>2. page.trace \in Trace /\ run \in Number /\ over \in BOOLEAN /\ told \in BOOLEAN
  BY DEF TypeOK, Page, Trace
<1>3. /\ detail \in Trace /\ detail.run = run /\ (detail.finished => life[run] = "finished")
      /\ events \in Trace /\ events.finished = page.trace.finished /\ events.run = run
      /\ (events.ended <=> ends[run] = "stored")
  <2>1. ASSUME NEW b \in BOOLEAN
        PROVE  /\ [page.trace EXCEPT !.finished = b] \in Trace
               /\ [page.trace EXCEPT !.finished = b].run = run
               /\ [page.trace EXCEPT !.finished = b].finished = b
               /\ [page.trace EXCEPT !.ended = b] \in Trace
               /\ [page.trace EXCEPT !.ended = b].run = run
               /\ [page.trace EXCEPT !.ended = b].finished = page.trace.finished
               /\ [page.trace EXCEPT !.ended = b].ended = b
    BY <1>2 DEF Trace
  <2>2. detail \in Trace /\ detail.run = run /\ detail.finished = over
    BY <1>2, <2>1
  <2>3. /\ events \in Trace /\ events.run = run /\ events.ended = told
        /\ events.finished = page.trace.finished
    BY <1>2, <2>1
  <2>. QED BY <2>2, <2>3
<1>. HIDE DEF detail, events
<1>4. CASE at' = "ready" /\ page' = [page EXCEPT !.trace = Blank.trace]
  <2>1. TypeOK' /\ Fresh' /\ Stored' /\ Shown' /\ page'.trace = Blank.trace
    BY <1>1, <1>4, BlankPage, TraceSteps DEF Showing
  <2>. QED BY <1>4, <2>1, BlankPage DEF Traced, TraceTellsTheEnd
<1>5. CASE read = "detail" /\ run \in Listed /\ at' = "events"
           /\ page' = [page EXCEPT !.trace = detail]
  <2>1. TypeOK' /\ Fresh' /\ Stored' /\ Shown' /\ page'.trace = detail
    BY <1>1, <1>3, <1>5, TraceSteps DEF Showing
  <2>2. run # None
    BY <1>5 DEF Listed, TypeOK, Submission, None
  <2>. QED BY <1>1, <1>3, <1>5, <2>1, <2>2 DEF Traced, TraceTellsTheEnd
<1>6. CASE read = "events" /\ run \in Listed /\ at' = "ready"
           /\ page' = [page EXCEPT !.trace = events]
  <2>1. TypeOK' /\ Fresh' /\ Stored' /\ Shown' /\ page'.trace = events
    BY <1>1, <1>3, <1>6, TraceSteps DEF Showing
  <2>2. page.trace.finished => run # None /\ life[run] = "finished"
    BY <1>1, <1>6 DEF Traced
  <2>. QED BY <1>1, <1>3, <1>6, <2>1, <2>2 DEF Traced, TraceTellsTheEnd
<1>7. \/ at' = "ready" /\ page' = [page EXCEPT !.trace = Blank.trace]
      \/ /\ run \in Listed
         /\ \/ read = "detail" /\ at' = "events" /\ page' = [page EXCEPT !.trace = detail]
            \/ read = "events" /\ at' = "ready" /\ page' = [page EXCEPT !.trace = events]
  <2>1. CASE read = "detail"
    BY <2>1 DEF Reads, Go, AfterRead, TraceReads, Show, detail
  <2>2. CASE read = "events"
    BY <2>2 DEF Reads, Go, AfterRead, TraceReads, Show, events
  <2>. QED BY <2>1, <2>2
<1>. QED BY <1>4, <1>5, <1>6, <1>7

----------------------------------------------------------------------------
(* Steps of the user. *)

\* A script that begins has its page blank and knows nothing yet.
LEMMA BeginsKeeps ==
  ASSUME IInv, NEW f \in Widgets, Begins(f), UNCHANGED <<session, server>>,
         pending' = NoInteraction, torn' = (torn \/ at \in Storing),
         submitted' \in 0..MaxSubmissions, submitted <= submitted',
         sentTo' \in [Submission -> Url \cup {None}],
         \A n \in Submission : n <= submitted => sentTo'[n] = sentTo[n],
         interactions' \in Nat, Sent(f)',
         f.submission # None => life[f.submission] = "none"
  PROVE  IInv'
<1>. USE DEF IInv
<1>1. at' \in {"load", "reload"} /\ form' = f /\ page' = Blank
  BY DEF Begins
<1>2. submitted \in Nat /\ submitted' \in Nat /\ session \in Session
      /\ \A n \in Number : n \in Nat /\ (n # None => n \in Submission)
  BY UiBoundsAssumption DEF TypeOK, Number, Submission, None
<1>3. TypeOK'
  BY <1>1, BlankPage DEF TypeOK, server, Opening
<1>4. Fresh'
  <2>1. pending'.submission = None
    BY DEF NoInteraction
  <2>2. \A n \in Submission : n > submitted' => life[n] = "none"
    BY <1>2 DEF Fresh, Submission
  <2>. QED BY <1>1, <2>1, <2>2 DEF Fresh, server
<1>5. Stored'
  <2>1. ASSUME OneSubmission PROVE OneSubmission'
    BY <1>2, <2>1 DEF OneSubmission, WentTo, Session, server
  <2>. QED BY <1>1, <2>1 DEF Stored, RecordingRun, RecordingError, Storing
<1>6. Shown' /\ Traced'
  BY <1>1, BlankPage DEF Shown, Traced, TraceTellsTheEnd
<1>. QED BY <1>3, <1>4, <1>5, <1>6

LEMMA StartsAgainKeeps == IInv /\ StartsAgain => IInv'
<1>1. SUFFICES ASSUME IInv, StartsAgain PROVE IInv'
  OBVIOUS
<1>2. PICK f \in Widgets : f = pending
  BY <1>1 DEF IInv, TypeOK, StartsAgain
<1>3. /\ Begins(f) /\ pending' = NoInteraction /\ torn' = (torn \/ at \in Storing)
      /\ UNCHANGED <<session, server, submitted, sentTo, interactions>>
  BY <1>1, <1>2 DEF StartsAgain
<1>4. Sent(f)' /\ (f.submission # None => life[f.submission] = "none")
  BY <1>1, <1>2, <1>3 DEF IInv, Fresh, Sent, StartsAgain
<1>5. submitted \in 0..MaxSubmissions /\ interactions \in Nat
      /\ sentTo \in [Submission -> Url \cup {None}] /\ submitted <= submitted
  BY <1>1, UiBoundsAssumption DEF IInv, TypeOK
<1>. QED BY <1>1, <1>3, <1>4, <1>5, BeginsKeeps

\* An interaction the script has yet to notice.
LEMMA PendsKeeps ==
  ASSUME IInv, NEW f \in Widgets, pending' = f, UNCHANGED <<script, server>>,
         submitted' \in 0..MaxSubmissions, submitted <= submitted',
         sentTo' \in [Submission -> Url \cup {None}],
         \A n \in Submission : n <= submitted => sentTo'[n] = sentTo[n],
         interactions' \in Nat, Sent(f)',
         f.submission # None => f.submission > submitted /\ life[f.submission] = "none"
  PROVE  IInv'
<1>. USE DEF IInv, script, server
<1>1. submitted \in Nat /\ submitted' \in Nat /\ session \in Session /\ page \in Page
      /\ form.submission \in Number
      /\ \A n \in Number : n \in Nat /\ (n # None => n \in Submission)
  BY UiBoundsAssumption DEF TypeOK, Number, Submission, None, Widgets
<1>2. TypeOK'
  BY DEF TypeOK
<1>3. Fresh'
  <2>1. Sent(form)'
    BY <1>1 DEF Fresh, Sent
  <2>2. \A n \in Submission : n > submitted' => life[n] = "none"
    BY <1>1 DEF Fresh, Submission
  <2>3. f.submission # None => f.submission > form.submission
    BY <1>1 DEF Fresh, Sent, Widgets
  <2>. QED BY <2>1, <2>2, <2>3 DEF Fresh
<1>4. \A n \in Number \ {None} : \A url : WentTo(n, url) => WentTo(n, url)'
  BY <1>1 DEF WentTo
<1>5. Stored'
  <2>1. OneSubmission => OneSubmission'
    BY <1>1, <1>4 DEF OneSubmission, Session
  <2>. QED BY <2>1 DEF Stored
<1>6. Shown' /\ Traced'
  BY <1>1, <1>4 DEF Shown, Traced, TraceTellsTheEnd, Page
<1>. QED BY <1>2, <1>3, <1>5, <1>6

LEMMA InteractsKeeps ==
  ASSUME IInv, NEW url \in Url, NEW act \in Act, Interacts(url, act)
  PROVE  IInv'
<1> DEFINE f == [url |-> url, act |-> act,
                 submission |-> IF act = "submit" THEN submitted + 1 ELSE None]
<1>. USE DEF IInv
<1>1. /\ interactions' \in Nat /\ pending = NoInteraction /\ UNCHANGED server
      /\ IF act = "submit"
         THEN /\ submitted < MaxSubmissions /\ submitted' = submitted + 1
              /\ sentTo' = [sentTo EXCEPT ![submitted'] = url]
         ELSE UNCHANGED <<submitted, sentTo>>
      /\ UNCHANGED <<session, torn>>
      /\ IF at = "ready" THEN Begins(f) /\ UNCHANGED pending
         ELSE pending' = f /\ UNCHANGED <<at, form, page>>
  BY DEF Interacts, TypeOK
<1>2. submitted \in Nat /\ submitted' \in 0..MaxSubmissions /\ submitted <= submitted'
  BY <1>1, UiBoundsAssumption DEF TypeOK
<1>3. /\ sentTo' \in [Submission -> Url \cup {None}]
      /\ \A n \in Submission : n <= submitted => sentTo'[n] = sentTo[n]
      /\ act = "submit" => submitted + 1 \in Submission /\ sentTo'[submitted + 1] = url
  <2>1. CASE act = "submit"
    <3>1. submitted + 1 \in Submission /\ \A n \in Submission : n <= submitted => n # submitted + 1
      BY <1>1, <1>2, <2>1, UiBoundsAssumption DEF Submission
    <3>2. sentTo' = [sentTo EXCEPT ![submitted + 1] = url]
      BY <1>1, <2>1
    <3>. QED BY <3>1, <3>2 DEF TypeOK
  <2>2. CASE act # "submit"
    BY <1>1, <2>2 DEF TypeOK
  <2>. QED BY <2>1, <2>2
<1>4. PICK g \in Widgets : g = f
  <2>1. (IF act = "submit" THEN submitted + 1 ELSE None) \in Number
    BY <1>3 DEF Number
  <2>. QED BY <2>1 DEF Widgets
<1>5. /\ Sent(g)'
      /\ g.submission # None => g.submission > submitted /\ life[g.submission] = "none"
  BY <1>1, <1>2, <1>3, <1>4 DEF Sent, Fresh, None
<1>6. CASE at = "ready"
  <2>1. Begins(g) /\ pending' = NoInteraction /\ torn' = (torn \/ at \in Storing)
    BY <1>1, <1>4, <1>6 DEF Storing, TypeOK
  <2>. QED BY <1>1, <1>2, <1>3, <1>5, <2>1, BeginsKeeps
<1>7. CASE at # "ready"
  BY <1>1, <1>2, <1>3, <1>4, <1>5, <1>7, PendsKeeps DEF script
<1>. QED BY <1>6, <1>7

----------------------------------------------------------------------------
LEMMA StepIInv == IInv /\ [Next]_vars => IInv'
<1>1. SUFFICES ASSUME IInv, [Next]_vars PROVE IInv'
  OBVIOUS
<1>2. CASE Script
  BY <1>1, <1>2, ScriptMoves, AcceptedKeeps, StoresKeep, ShowsLastKeeps, ListsKeeps,
     ReadsKeeps, StartsAgainKeeps DEF Script
<1>3. ASSUME NEW url \in Url, NEW act \in Act, Interacts(url, act) PROVE IInv'
  BY <1>1, <1>3, InteractsKeeps
<1>4. ASSUME NEW n \in Submission, RunAdvances(n) \/ RunIsForgotten(n) PROVE IInv'
  BY <1>1, <1>4, RunStepsKeep
<1>5. CASE UNCHANGED vars
  BY <1>1, <1>5, RunsKeep DEF vars, server, RunsGoOn, IInv, TypeOK
<1>. QED BY <1>1, <1>2, <1>3, <1>4, <1>5 DEF Next

\* Whenever the user has not cut the stores short, however the runs advance and
\* wherever the page is pointed, what it shows is one submission to this API.
THEOREM PagesTellOneSubmission == Spec => []PageTellsOneSubmission
<1>1. IInv => PageTellsOneSubmission
  BY DEF IInv, Shown, PageTellsOneSubmission, WentTo
<1>. QED BY <1>1, InitIInv, StepIInv, PTL DEF Spec

\* A trace that says its run is over shows how, if the store had room for that,
\* because its record is read before its events.
THEOREM TracesTellTheEnd == Spec => []TraceTellsTheEnd
<1>1. IInv => TraceTellsTheEnd
  BY DEF IInv, Traced
<1>. QED BY <1>1, InitIInv, StepIInv, PTL DEF Spec

=============================================================================
