----------------------------- MODULE DeveloperUi -----------------------------
(***************************************************************************)
(* The developer UI: main of app/ui/streamlit_app.py with the client of    *)
(* app/ui/client.py, as one browser session uses them against the APIs it  *)
(* is pointed at.                                                          *)
(*                                                                         *)
(* Streamlit runs the script from the top on every interaction.  Only the  *)
(* session's dict survives from one run of the script to the next.  An     *)
(* interaction that comes while the script runs stops it where it next     *)
(* uses Streamlit, which includes every access to that dict, so that the   *)
(* four stores that record a run may be cut short after any of them; a     *)
(* request under way is waited for.                                        *)
(*                                                                         *)
(* A submission of the run form is a number, which also stands for its     *)
(* request, its error and the run the API makes for it.  The APIs' runs    *)
(* advance as RunApi says, reporting their end before they are finished,   *)
(* and may be evicted or lost at any time.  The store drops events beyond  *)
(* its bound, the end among them.                                          *)
(***************************************************************************)
EXTENDS Naturals, Sequences

CONSTANTS
  Url,              \* APIs the session is pointed at
  MaxSubmissions,   \* bound: submissions of the run form
  MaxInteractions   \* bound: interactions in all

ASSUME UiBoundsAssumption == MaxSubmissions \in Nat /\ MaxInteractions \in Nat

None == 0
Submission == 1..MaxSubmissions

VARIABLES
  session,      \* st.session_state: what was stored, by key
  at,           \* where the script is
  form,         \* the widgets' values in this run of the script
  pending,      \* an interaction the script has not noticed yet
  page,         \* what the page shows
  submitted,    \* how often the form was submitted
  sentTo,       \* the API each submission was meant for
  life, ends,   \* how far each one's run is, and whether its timeline has its end
  kept,         \* which runs are on record
  interactions,
  torn          \* were the last stores cut short

script == <<session, at, form, page, torn>>
server == <<life, ends, kept>>
user   == <<pending, submitted, sentTo, interactions>>
vars   == <<script, server, user>>

Act == {"look", "reload", "submit"}

NoInteraction == [url |-> None, act |-> "none", submission |-> None]

Blank == [run |-> None, request |-> None, error |-> None, failedId |-> None,
          trace |-> [run |-> None, finished |-> FALSE, ended |-> FALSE]]

\* The script begins at the top, with what the widgets hold.
Begins(f) ==
  /\ at' = IF f.act = "reload" THEN "reload" ELSE "load"
  /\ form' = f
  /\ page' = Blank

Init ==
  /\ session = [run |-> None, request |-> None, url |-> None, error |-> None,
                failedId |-> None, feedback |-> "none"]
  /\ at = "load"
  /\ form \in [url : Url, act : {"look"}, submission : {None}]
  /\ pending = NoInteraction
  /\ page = Blank
  /\ submitted = 0
  /\ sentTo = [n \in Submission |-> None]
  /\ life = [n \in Submission |-> "none"]
  /\ ends = [n \in Submission |-> "open"]
  /\ kept = {}
  /\ interactions = 0
  /\ torn = FALSE

----------------------------------------------------------------------------
(* Steps of the script. *)

\* Where the script waits for an answer, and uses nothing of Streamlit's.
Waits == {"reload", "load", "call", "answer", "detail", "events"}

\* The script goes on from here to there, unless it has to stop here.
Go(here, there) ==
  /\ at = here /\ at' = there
  /\ here \in Waits \/ pending = NoInteraction

Store(key, x) == session' = [session EXCEPT ![key] = x]
Show(key, x)  == page' = [page EXCEPT ![key] = x]

Reload ==
  /\ Go("reload", "store feedback")
  /\ UNCHANGED <<session, form, page, torn, server, user>>

StoresFeedback ==
  /\ Go("store feedback", "load")
  /\ \E told \in {"reloaded", "failed"} : Store("feedback", told)
  /\ UNCHANGED <<form, page, torn, server, user>>

\* health, project, agents and workflow all answer, or the page ends here.
Load ==
  /\ Go("load", "form") \/ Go("load", "ready")
  /\ UNCHANGED <<session, form, page, torn, server, user>>

\* An input or a context that is not JSON, or not an object, is an error like
\* another.
RefusesPayload == Go("form", "drop run")

Form ==
  /\ IF form.act = "submit" THEN RefusesPayload \/ Go("form", "call")
     ELSE Go("form", "show")
  /\ UNCHANGED <<session, form, page, torn, server, user>>

----------------------------------------------------------------------------
(* The request that runs something. *)

\* The API makes a run for the request.
Accepted ==
  /\ Go("call", "answer")
  /\ life' = [life EXCEPT ![form.submission] = "running"]
  /\ kept' = kept \cup {form.submission}
  /\ UNCHANGED <<session, form, page, torn, ends, user>>

\* The request is refused or does not arrive, or the client gives up waiting.
NoRunIsNamed ==
  /\ Go("call", "drop run") \/ Go("answer", "drop run")
  /\ UNCHANGED <<session, form, page, torn, server, user>>

\* The API answers when the run is finished: with the run, or with an error
\* that names it.
Answered ==
  /\ Go("answer", "store run") \/ Go("answer", "drop failed run")
  /\ life[form.submission] = "finished"
  /\ UNCHANGED <<session, form, page, torn, server, user>>

\* What a run leaves in the session, in the order of the stores.
StoresRun ==
  /\ \/ Go("store run", "store request") /\ Store("run", form.submission)
     \/ Go("store request", "store url") /\ Store("request", form.submission)
     \/ Go("store url", "clear error") /\ Store("url", form.url)
     \/ Go("clear error", "show") /\ Store("error", None)
  /\ torn' = (torn /\ at' # "show")
  /\ UNCHANGED <<form, page, server, user>>

\* What an error leaves; the id is stored if the error has one.
StoresError ==
  /\ \/ Go("drop run", "store error") /\ Store("run", None)
     \/ Go("store error", "store error url") /\ Store("error", form.submission)
     \/ Go("store error url", "show") /\ Store("url", form.url)
     \/ Go("drop failed run", "store failure") /\ Store("run", None)
     \/ Go("store failure", "store failure url") /\ Store("error", form.submission)
     \/ Go("store failure url", "store failed id") /\ Store("url", form.url)
     \/ Go("store failed id", "show") /\ Store("failedId", form.submission)
  /\ torn' = (torn /\ at' \notin {"show", "store failed id"})
  /\ UNCHANGED <<form, page, server, user>>

----------------------------------------------------------------------------
(* The rest of the page. *)

\* Seeded fault: what the session has is shown whichever API it came from.
ShownAnywhere == TRUE

ShownHere == session.url = form.url

\* The page p with the last error, and the id of the run that failed.
WithError(p) ==
  IF session.error = None THEN p
  ELSE [p EXCEPT !.error = session.error, !.failedId = session.failedId]

\* The page p with the last run, and the request stored with it.
WithRun(p) ==
  IF session.run = None THEN p
  ELSE [p EXCEPT !.run = session.run, !.request = session.request]

ShowsLast ==
  /\ Go("show", "list")
  /\ page' = IF ShownHere THEN WithRun(WithError(page)) ELSE page
  /\ UNCHANGED <<session, form, torn, server, user>>

\* Seeded fault: the events are read before the record.
EventsFirst == <<"events", "detail">>

\* The requests that fetch a trace, in order.
TraceReads == <<"detail", "events">>

\* The runs the API has on record.
Listed == {n \in kept : sentTo[n] = form.url}

\* One of them is selected, if there is one and the API answers.
Lists ==
  /\ \/ \E n \in Listed :
          /\ Go("list", TraceReads[1])
          /\ Show("trace", [Blank.trace EXCEPT !.run = n])
     \/ Go("list", "ready") /\ UNCHANGED page
  /\ UNCHANGED <<session, form, torn, server, user>>

AfterRead(read) == IF read = TraceReads[1] THEN TraceReads[2] ELSE "ready"

\* The status is read from the record, the timeline from its events; a run
\* evicted in between, or an API that does not answer, leaves an error.
Reads(read) ==
  /\ \/ /\ page.trace.run \in Listed
        /\ Go(read, AfterRead(read))
        /\ Show("trace",
             IF read = "detail"
             THEN [page.trace EXCEPT !.finished = (life[page.trace.run] = "finished")]
             ELSE [page.trace EXCEPT !.ended = (ends[page.trace.run] = "stored")])
     \/ Go(read, "ready") /\ Show("trace", Blank.trace)
  /\ UNCHANGED <<session, form, torn, server, user>>

----------------------------------------------------------------------------
(* The user, and the APIs. *)

\* Positions at which a submission's stores have begun and are not done.
Storing == {"store request", "store url", "clear error", "store error", "store error url",
            "store failure", "store failure url"}

\* A widget changes or a button is pressed.
Interacts(url, act) ==
  LET f == [url |-> url, act |-> act,
            submission |-> IF act = "submit" THEN submitted + 1 ELSE None]
  IN /\ interactions < MaxInteractions /\ pending = NoInteraction
     /\ interactions' = interactions + 1
     /\ IF act = "submit"
        THEN /\ submitted < MaxSubmissions
             /\ submitted' = submitted + 1
             /\ sentTo' = [sentTo EXCEPT ![submitted'] = url]
        ELSE UNCHANGED <<submitted, sentTo>>
     /\ IF at = "ready" THEN Begins(f) /\ UNCHANGED pending
        ELSE pending' = f /\ UNCHANGED <<at, form, page>>
     /\ UNCHANGED <<session, torn, server>>

\* The script stops where it next uses Streamlit and begins again.
StartsAgain ==
  /\ pending # NoInteraction /\ at \notin Waits
  /\ Begins(pending)
  /\ pending' = NoInteraction
  /\ torn' = (torn \/ at \in Storing)
  /\ UNCHANGED <<session, submitted, sentTo, interactions, server>>

\* A run reports how it ended, which its timeline may have no room for, then
\* its record is finished.
RunAdvances(n) ==
  /\ \/ /\ life[n] = "running"
        /\ life' = [life EXCEPT ![n] = "reported"]
        /\ \E end \in {"stored", "dropped"} : ends' = [ends EXCEPT ![n] = end]
     \/ /\ life[n] = "reported"
        /\ life' = [life EXCEPT ![n] = "finished"]
        /\ UNCHANGED ends
  /\ UNCHANGED <<script, kept, user>>

RunIsForgotten(n) ==
  /\ n \in kept
  /\ kept' = kept \ {n}
  /\ UNCHANGED <<script, life, ends, user>>

Script ==
  \/ Reload \/ StoresFeedback \/ Load \/ Form \/ Accepted \/ NoRunIsNamed \/ Answered
  \/ StoresRun \/ StoresError \/ ShowsLast \/ Lists \/ Reads("detail") \/ Reads("events")
  \/ StartsAgain

Next ==
  \/ Script
  \/ \E url \in Url, act \in Act : Interacts(url, act)
  \/ \E n \in Submission : RunAdvances(n) \/ RunIsForgotten(n)

Spec == Init /\ [][Next]_vars

----------------------------------------------------------------------------
(* Properties. *)

\* Unless the user cut the stores of a submission short, the page shows one
\* submission: a run that is finished, with its own request, or an error, and
\* only while the API it went to is the one that the page is about.
PageTellsOneSubmission ==
  ~torn =>
    /\ page.run # None =>
         /\ page.request = page.run /\ page.error = None
         /\ life[page.run] = "finished"
    /\ \A n \in {page.run, page.error} \ {None} : sentTo[n] = form.url

\* When the trace's caption says that the run is over, the timeline below it
\* says how, unless the store had no room for that: the events are never older
\* than the record.
TraceTellsTheEnd ==
  at = "ready" /\ page.trace.finished =>
    (page.trace.ended <=> ends[page.trace.run] = "stored")

\* The failed run named below an error is the run that failed with it.
FailedIdIsOfTheError == ~torn /\ page.failedId # None => page.failedId = page.error

============================================================================
