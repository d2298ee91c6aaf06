------------------------------- MODULE UseHint -------------------------------
(***************************************************************************)
(* The hook behind the hint panel.  A click posts a hint job and races the *)
(* hint.ready event against a polling loop; the winner's text is shown.    *)
(* What the server does is in its caller's hands: an action that needs an  *)
(* answer takes it as a parameter.                                         *)
(*                                                                         *)
(* A request and its job have one name.  A hint is shown under its level,  *)
(* and its text is the request that fetched it; pendingLevel and error     *)
(* follow status and are left out.  A render comes between any two events  *)
(* of the browser, so the button a user clicks shows the current state.    *)
(***************************************************************************)
EXTENDS Naturals, FiniteSets

CONSTANTS
  Requests, NoRequest,
  Problems,       \* what a session and problem identify together
  Levels,         \* levels of hints, 1 .. 3 in the panel
  MaxPolls        \* polls within the 45 seconds of a loop

VARIABLES
  problem,  \* the session and problem of the last render
  mounted,  \* mountedRef
  status,   \* the status of the hook
  hints,    \* the hints shown, per level
  requests, \* the calls of requestHint: how far each is
  current,  \* whose controller abortRef and whose listener unsubRef holds
  subs      \* requests with a listener at the event source

hintVars == <<problem, mounted, status, hints, requests, current, subs>>

(* What ended a request without a hint. *)
Cause == {"limited", "refused", "failed", "unreachable", "late", "torn down", "unmounted"}

Request == [step : {"unused", "posting", "racing", "shown"} \cup Cause,
            for : Problems, level : Levels \cup {0}, aborted : BOOLEAN,
            asking : BOOLEAN, polls : 0 .. MaxPolls]

Unfinished == {r \in Requests : requests[r].step \in {"posting", "racing"}}

Shown == {level \in Levels : hints[level] # NoRequest}

(* The level the button asks for: the highest one shown plus one. *)
NextLevel == 1 + (IF Shown = {} THEN 0 ELSE CHOOSE m \in Shown : \A n \in Shown : n <= m)

(* abortRef's controller is aborted, which tells on a race that is still on. *)
Abort(r) ==
  [k \in Requests |->
     IF k = r /\ requests[k].step = "racing" THEN [requests[k] EXCEPT !.aborted = TRUE]
     ELSE requests[k]]

(* The request is settled: what its polling loop still does has no effect. *)
Settled(r, step) ==
  [requests EXCEPT ![r] = [@ EXCEPT !.step = step, !.asking = FALSE, !.polls = 0,
                                    !.aborted = FALSE]]

-----------------------------------------------------------------------------
(* A click *)

(* requestHint up to the POST.  What abortRef and unsubRef hold is torn down;
   a request whose POST is not answered yet is not among it. *)
RequestHint(r) ==
  /\ mounted /\ requests[r].step = "unused"
  /\ status # "pending" /\ NextLevel \in Levels
  /\ requests' = [Abort(current) EXCEPT
       ![r] = [@ EXCEPT !.step = "posting", !.for = problem, !.level = NextLevel]]
  /\ subs' = subs \ {current}
  /\ status' = "pending"
  /\ UNCHANGED <<problem, mounted, hints, current>>

(* The job is accepted: the listener is added and the polling loop begins. *)
Posted(r) ==
  /\ requests[r].step = "posting"
  /\ IF mounted
     THEN /\ requests' = [requests EXCEPT ![r].step = "racing", ![r].asking = TRUE]
          /\ current' = r
          /\ subs' = subs \cup {r}
     ELSE /\ requests' = Settled(r, "unmounted")
          /\ UNCHANGED <<current, subs>>
  /\ UNCHANGED <<problem, mounted, status, hints>>

FailSilently(r, cause) ==            \* mutant: a loop that gives up is not reported
  /\ requests' = Settled(r, cause)
  /\ status' = IF mounted /\ cause # "late" THEN "error" ELSE status
  /\ UNCHANGED <<problem, mounted, hints, current, subs>>

(* The catch: whatever request is the latest, the panel shows this failure. *)
Fail(r, cause) ==
  /\ requests' = Settled(r, cause)
  /\ status' = IF ~mounted THEN status
               ELSE IF cause = "limited" THEN "rate-limited" ELSE "error"
  /\ UNCHANGED <<problem, mounted, hints, current, subs>>

Refused(r) ==
  /\ requests[r].step = "posting"
  /\ \E cause \in {"limited", "refused"} : Fail(r, cause)

-----------------------------------------------------------------------------
(* The race *)

(* A path wins: what unsubRef holds is unsubscribed, the loop is aborted,
   and the text is shown, whatever problem is on the page by now. *)
Win(r, listeners) ==
  /\ requests' = Settled(r, "shown")
  /\ subs' = listeners \ {current}
  /\ IF mounted
     THEN status' = "ready" /\ hints' = [hints EXCEPT ![requests[r].level] = r]
     ELSE UNCHANGED <<status, hints>>
  /\ UNCHANGED <<problem, mounted, current>>

(* The listeners hear hint.ready for the job of r. *)
Hear(r) ==
  IF r \in subs /\ requests[r].step = "racing" THEN Win(r, subs \ {r})
  ELSE /\ subs' = subs \ {r}
       /\ UNCHANGED <<problem, mounted, status, hints, requests, current>>

PollDeadlineFirst(r, answer) ==      \* mutant: the deadline is looked at before the status
  /\ requests[r].step = "racing" /\ requests[r].asking
  /\ \/ answer = "done" /\ Win(r, subs)
     \/ answer \in {"failed", "unreachable"} /\ Fail(r, answer)
     \/ answer # "unreachable" /\ Fail(r, "late")
     \/ /\ answer = "open" /\ requests[r].polls + 1 < MaxPolls
        /\ requests' = [requests EXCEPT ![r].asking = FALSE, ![r].polls = @ + 1]
        /\ UNCHANGED <<problem, mounted, status, hints, current, subs>>

PollForever(r, answer) ==            \* mutant: no deadline
  /\ requests[r].step = "racing" /\ requests[r].asking
  /\ \/ answer = "done" /\ Win(r, subs)
     \/ answer \in {"failed", "unreachable"} /\ Fail(r, answer)
     \/ /\ answer = "open"
        /\ requests' = [requests EXCEPT ![r].asking = FALSE]
        /\ UNCHANGED <<problem, mounted, status, hints, current, subs>>

(* GET /jobs/{id} answers, or fails with its retries.  An open job is asked
   for again, unless the deadline has passed. *)
PollAnswer(r, answer) ==
  /\ requests[r].step = "racing" /\ requests[r].asking
  /\ \/ answer = "done" /\ Win(r, subs)
     \/ answer \in {"failed", "unreachable"} /\ Fail(r, answer)
     \/ answer = "open" /\ Fail(r, "late")
     \/ /\ answer = "open" /\ requests[r].polls + 1 < MaxPolls
        /\ requests' = [requests EXCEPT ![r].asking = FALSE, ![r].polls = @ + 1]
        /\ UNCHANGED <<problem, mounted, status, hints, current, subs>>

(* Two seconds later: an aborted loop throws, and its request fails. *)
PollAgain(r) ==
  /\ requests[r].step = "racing" /\ ~requests[r].asking
  /\ IF requests[r].aborted THEN Fail(r, "torn down")
     ELSE /\ requests' = [requests EXCEPT ![r].asking = TRUE]
          /\ UNCHANGED <<problem, mounted, status, hints, current, subs>>

-----------------------------------------------------------------------------
(* The component *)

(* The reset effect runs when the session or problem of the page changes. *)
ChangeProblem(p) ==
  /\ mounted /\ p # problem
  /\ problem' = p
  /\ status' = "idle"
  /\ hints' = [level \in Levels |-> NoRequest]
  /\ UNCHANGED <<mounted, requests, current, subs>>

Unmount ==
  /\ mounted
  /\ mounted' = FALSE
  /\ requests' = Abort(current)
  /\ subs' = subs \ {current}
  /\ UNCHANGED <<problem, status, hints, current>>

Init ==
  /\ problem \in Problems
  /\ mounted = TRUE
  /\ status = "idle"
  /\ hints = [level \in Levels |-> NoRequest]
  /\ requests = [r \in Requests |-> [step |-> "unused", for |-> problem, level |-> 0,
                                     aborted |-> FALSE, asking |-> FALSE, polls |-> 0]]
  /\ current = NoRequest
  /\ subs = {}

-----------------------------------------------------------------------------
(* Properties *)

(* The variables of the hook have their types. *)
TypeOK ==
  /\ problem \in Problems /\ mounted \in BOOLEAN
  /\ status \in {"idle", "pending", "ready", "rate-limited", "error"}
  /\ hints \in [Levels -> Requests \cup {NoRequest}]
  /\ requests \in [Requests -> Request]
  /\ current \in Requests \cup {NoRequest}
  /\ subs \subseteq Requests

(* While the panel says that a hint is being fetched, some request is (the
   spinner of HintPanel, which also disables the button). *)
PendingIsFetching == status = "pending" /\ mounted => Unfinished # {}

(* The spinner goes away. *)
PendingEnds == status = "pending" ~> status # "pending" \/ ~mounted
=============================================================================
