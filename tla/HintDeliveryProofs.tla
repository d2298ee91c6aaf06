------------------------- MODULE HintDeliveryProofs -------------------------
(***************************************************************************)
(* Proofs about HintDelivery, for every number of requests, problems,      *)
(* levels and polls: its types, that the spinner of the hint panel stands  *)
(* for a request under way, and that a job found done is not missed.       *)
(*                                                                         *)
(* The first two are inductive together.  Lemmas about the hook come       *)
(* first: what an action does to the requests (HookStep) is enough.        *)
(***************************************************************************)
EXTENDS HintDelivery, TLAPS

IInv == TypeOK /\ PendingIsFetching

HookOK == Hook!TypeOK /\ Hook!PendingIsFetching

ServerOK == /\ record \in [Requests -> Server!Record]
            /\ streamed \in [Requests -> Seq(Server!Event)] /\ doubled \subseteq Requests

(* Aborting a controller changes nothing but the flag of a request. *)
LEMMA AbortType ==
  ASSUME Hook!TypeOK, NEW c
  PROVE  /\ Hook!Abort(c) \in [Requests -> Hook!Request]
         /\ \A k \in Requests : Hook!Abort(c)[k].step = requests[k].step
<1>1. \A k \in Requests : requests[k] \in Hook!Request
  BY DEF Hook!TypeOK
<1>2. \A k \in Requests : [requests[k] EXCEPT !.aborted = TRUE] \in Hook!Request
  BY <1>1 DEF Hook!Request
<1> QED BY <1>1, <1>2 DEF Hook!Abort, Hook!Request

(* A settled request has its type, and the others stay as they are. *)
LEMMA SettledType ==
  ASSUME Hook!TypeOK, HintAssumption, NEW r \in Requests, NEW step \in {"shown"} \cup Hook!Cause
  PROVE  /\ Hook!Settled(r, step) \in [Requests -> Hook!Request]
         /\ \A k \in Requests \ {r} : Hook!Settled(r, step)[k] = requests[k]
<1>1. requests[r] \in Hook!Request
  BY DEF Hook!TypeOK
<1>2. 0 \in 0 .. MaxPolls
  BY DEF HintAssumption
<1>3. [requests[r] EXCEPT !.step = step, !.asking = FALSE, !.polls = 0, !.aborted = FALSE]
        \in Hook!Request
  BY <1>1, <1>2 DEF Hook!Request
<1> QED BY <1>3 DEF Hook!Settled, Hook!TypeOK

(* A failure takes the spinner away, whatever request it was of. *)
LEMMA FailInv ==
  ASSUME HookOK, HintAssumption, NEW r \in Requests, NEW cause \in Hook!Cause, Hook!Fail(r, cause)
  PROVE  HookOK'
<1>1. Hook!Settled(r, cause) \in [Requests -> Hook!Request]
  BY SettledType DEF HookOK
<1>2. Hook!TypeOK'
  BY <1>1 DEF HookOK, Hook!TypeOK, Hook!Fail
<1>3. ~(status' = "pending" /\ mounted') \/ Hook!Unfinished' # {}
  BY DEF HookOK, Hook!Fail, Hook!TypeOK
<1> QED BY <1>2, <1>3 DEF HookOK, Hook!PendingIsFetching

(* So does a hint. *)
LEMMA WinInv ==
  ASSUME HookOK, HintAssumption, NEW r \in Requests, NEW listeners \in SUBSET Requests,
         Hook!Win(r, listeners), requests[r].step = "racing"
  PROVE  HookOK'
<1>1. Hook!Settled(r, "shown") \in [Requests -> Hook!Request]
  BY SettledType DEF HookOK
<1>2. Hook!TypeOK'
  BY <1>1 DEF HookOK, Hook!TypeOK, Hook!Win
<1> QED BY <1>2 DEF HookOK, Hook!Win, Hook!PendingIsFetching

(* A click begins a request. *)
LEMMA ClickInv ==
  ASSUME HookOK, HintAssumption, NEW r \in Requests, Hook!RequestHint(r)
  PROVE  HookOK'
<1>1. Hook!TypeOK /\ problem \in Problems /\ Hook!NextLevel \in Levels
  BY DEF HookOK, Hook!TypeOK, Hook!RequestHint
<1>2. Hook!Abort(current)[r] \in Hook!Request
  BY <1>1, AbortType
<1>3. [Hook!Abort(current)[r] EXCEPT !.step = "posting", !.for = problem, !.level = Hook!NextLevel]
        \in Hook!Request
  BY <1>1, <1>2 DEF Hook!Request
<1>4. requests' \in [Requests -> Hook!Request] /\ requests'[r].step = "posting"
  BY <1>1, <1>2, <1>3, AbortType DEF Hook!RequestHint, Hook!Request
<1>5. Hook!TypeOK'
  BY <1>1, <1>4 DEF Hook!TypeOK, Hook!RequestHint
<1> QED BY <1>4, <1>5 DEF HookOK, Hook!PendingIsFetching, Hook!Unfinished

(* The POST is answered. *)
LEMMA PostedInv ==
  ASSUME HookOK, HintAssumption, NEW r \in Requests, Hook!Posted(r)
  PROVE  HookOK'
<1>1. CASE mounted
  <2>1. requests[r] \in Hook!Request
    BY DEF HookOK, Hook!TypeOK
  <2>2. requests' = [requests EXCEPT ![r] = [requests[r] EXCEPT !.step = "racing", !.asking = TRUE]]
    BY <1>1, <2>1 DEF Hook!Posted, HookOK, Hook!TypeOK, Hook!Request
  <2>3. requests' \in [Requests -> Hook!Request] /\ requests'[r].step = "racing"
    BY <2>1, <2>2 DEF HookOK, Hook!TypeOK, Hook!Request
  <2>4. Hook!TypeOK'
    BY <1>1, <2>3 DEF HookOK, Hook!TypeOK, Hook!Posted
  <2> QED BY <2>3, <2>4 DEF HookOK, Hook!PendingIsFetching, Hook!Unfinished
<1>2. CASE ~mounted
  <2>1. Hook!Settled(r, "unmounted") \in [Requests -> Hook!Request]
    BY SettledType DEF HookOK, Hook!Cause
  <2>2. Hook!TypeOK'
    BY <1>2, <2>1 DEF HookOK, Hook!TypeOK, Hook!Posted
  <2> QED BY <1>2, <2>2 DEF HookOK, Hook!PendingIsFetching, Hook!Posted
<1> QED BY <1>1, <1>2

(* A step that leaves every request where it is, and shows no new spinner. *)
LEMMA SameStepsInv ==
  ASSUME HookOK, Hook!TypeOK', mounted' => mounted, status' \in {status, "idle"},
         \A k \in Requests : requests'[k].step = requests[k].step
  PROVE  HookOK'
  BY DEF HookOK, Hook!PendingIsFetching, Hook!Unfinished

(* A poll is answered, or the next one is made. *)
LEMMA PollInv ==
  ASSUME HookOK, HintAssumption, NEW r \in Requests,
         \/ \E answer \in {Answer(r), "unreachable"} : Hook!PollAnswer(r, answer)
         \/ Hook!PollAgain(r)
  PROVE  HookOK'
<1>1. requests[r] \in Hook!Request /\ subs \in SUBSET Requests
  BY DEF HookOK, Hook!TypeOK
<1>2. ASSUME NEW cause \in {"failed", "unreachable", "late", "torn down"}, Hook!Fail(r, cause)
      PROVE  HookOK'
  BY <1>2, FailInv DEF Hook!Cause
<1>3. CASE Hook!Win(r, subs) /\ requests[r].step = "racing"
  BY <1>1, <1>3, WinInv
<1>4. ASSUME NEW asking \in BOOLEAN, NEW polls \in 0 .. MaxPolls,
             requests' = [requests EXCEPT ![r].asking = asking, ![r].polls = polls],
             UNCHANGED <<problem, mounted, status, hints, current, subs>>
      PROVE  HookOK'
  <2>1. requests' = [requests EXCEPT ![r] = [requests[r] EXCEPT !.asking = asking, !.polls = polls]]
    BY <1>1, <1>4 DEF HookOK, Hook!TypeOK, Hook!Request
  <2>2. /\ requests' \in [Requests -> Hook!Request]
        /\ \A k \in Requests : requests'[k].step = requests[k].step
    BY <1>1, <1>4, <2>1 DEF HookOK, Hook!TypeOK, Hook!Request
  <2>3. Hook!TypeOK'
    BY <1>4, <2>2 DEF HookOK, Hook!TypeOK
  <2> QED BY <1>4, <2>2, <2>3, SameStepsInv
<1>5. ASSUME NEW answer, Hook!PollAnswer(r, answer) PROVE HookOK'
  <2>1. CASE /\ requests[r].polls + 1 < MaxPolls
             /\ requests' = [requests EXCEPT ![r].asking = FALSE, ![r].polls = @ + 1]
             /\ UNCHANGED <<problem, mounted, status, hints, current, subs>>
    <3>1. requests[r].polls + 1 \in 0 .. MaxPolls
      BY <1>1, <2>1 DEF Hook!Request, HintAssumption
    <3>2. requests' = [requests EXCEPT ![r].asking = FALSE, ![r].polls = requests[r].polls + 1]
      BY <1>1, <2>1 DEF HookOK, Hook!TypeOK, Hook!Request
    <3> QED BY <2>1, <3>1, <3>2, <1>4
  <2> QED BY <1>2, <1>3, <1>5, <2>1 DEF Hook!PollAnswer
<1>6. ASSUME Hook!PollAgain(r) PROVE HookOK'
  <2>1. CASE requests[r].aborted
    BY <1>2, <1>6, <2>1 DEF Hook!PollAgain
  <2>2. CASE ~requests[r].aborted
    <3>1. requests' = [requests EXCEPT ![r].asking = TRUE, ![r].polls = requests[r].polls]
      BY <1>1, <1>6, <2>2 DEF HookOK, Hook!TypeOK, Hook!Request, Hook!PollAgain
    <3>2. requests[r].polls \in 0 .. MaxPolls
      BY <1>1 DEF Hook!Request
    <3> QED BY <1>4, <1>6, <2>2, <3>1, <3>2 DEF Hook!PollAgain
  <2> QED BY <2>1, <2>2
<1> QED BY <1>5, <1>6

(* An event is heard. *)
LEMMA HearInv ==
  ASSUME HookOK, HintAssumption, NEW r \in Requests, Hook!Hear(r)
  PROVE  HookOK'
<1>1. subs \ {r} \in SUBSET Requests
  BY DEF HookOK, Hook!TypeOK
<1>2. CASE r \in subs /\ requests[r].step = "racing"
  BY <1>1, <1>2, WinInv DEF Hook!Hear
<1>3. CASE ~(r \in subs /\ requests[r].step = "racing")
  <2>1. Hook!TypeOK'
    BY <1>1, <1>3 DEF HookOK, Hook!TypeOK, Hook!Hear
  <2> QED BY <1>3, <2>1, SameStepsInv DEF Hook!Hear
<1> QED BY <1>2, <1>3

(* The page goes on to another problem, or closes. *)
LEMMA RenderInv == HookOK /\ HintAssumption /\ Render => HookOK'
<1> SUFFICES ASSUME HookOK, HintAssumption, Render PROVE HookOK'
  OBVIOUS
<1>1. ASSUME NEW r \in Requests, Hook!RequestHint(r) PROVE HookOK'
  BY <1>1, ClickInv
<1>2. ASSUME NEW p \in Problems, Hook!ChangeProblem(p) PROVE HookOK'
  <2>1. Hook!TypeOK'
    BY <1>2 DEF HookOK, Hook!TypeOK, Hook!ChangeProblem
  <2> QED BY <1>2, <2>1, SameStepsInv DEF Hook!ChangeProblem
<1>3. ASSUME Hook!Unmount PROVE HookOK'
  <2>1. /\ Hook!Abort(current) \in [Requests -> Hook!Request]
        /\ \A k \in Requests : Hook!Abort(current)[k].step = requests[k].step
    BY AbortType DEF HookOK
  <2>2. Hook!TypeOK'
    BY <1>3, <2>1 DEF HookOK, Hook!TypeOK, Hook!Unmount
  <2> QED BY <1>3, <2>1, <2>2, SameStepsInv DEF Hook!Unmount
<1> QED BY <1>1, <1>2, <1>3 DEF Render

(* The server's side: record and stream of a job keep their types. *)
LEMMA ServerInv ==
  ASSUME ServerOK, NEW r \in Requests,
         \/ Server!Accept(r) \/ Server!Start(r) \/ Server!Double(r) \/ Server!Redo(r)
         \/ Server!Tell(r, "hint.ready")
         \/ \E result \in {"done", "failed"} : Server!Settle(r, result)
  PROVE  ServerOK'
<1>1. ASSUME NEW shown \in Server!Record, Server!Show(r, shown)
      PROVE  ServerOK'
  BY <1>1 DEF ServerOK, Server!Show
<1>2. ASSUME NEW e \in Server!Event, Server!Stream(r, e)
      PROVE  ServerOK'
  <2>1. PICK n \in 1 .. 1 : streamed' = [streamed EXCEPT ![r] = @ \o [i \in 1 .. n |-> e]]
    BY <1>2 DEF Server!Stream
  <2>2. streamed[r] \in Seq(Server!Event) /\ [i \in 1 .. n |-> e] \in Seq(Server!Event)
    BY DEF ServerOK
  <2>3. streamed[r] \o [i \in 1 .. n |-> e] \in Seq(Server!Event)
    BY <2>2
  <2> QED BY <1>2, <2>1, <2>3 DEF ServerOK, Server!Stream
<1>3. {"queued", "running", "done", "failed"} \subseteq Server!Record /\ "hint.ready" \in Server!Event
  BY DEF Server!Record, Server!Event
<1>4. CASE Server!Double(r)
  BY <1>4 DEF Server!Double, ServerOK
<1>5. CASE Server!Redo(r)
  BY <1>1, <1>2, <1>3, <1>5 DEF Server!Redo
<1> QED BY <1>1, <1>2, <1>3, <1>4, <1>5 DEF Server!Accept, Server!Start, Server!Tell, Server!Settle

LEMMA InitInv == HintAssumption /\ Init => IInv
<1> SUFFICES ASSUME HintAssumption, Init PROVE IInv
  OBVIOUS
<1>1. requests \in [Requests -> Hook!Request]
  BY DEF HintAssumption, Init, Hook!Init, Hook!Request
<1>2. HookOK
  BY <1>1 DEF Init, Hook!Init, HookOK, Hook!TypeOK, Hook!PendingIsFetching
<1>3. ServerOK
  BY DEF Init, Server!Init, ServerOK, Server!Record
<1> QED BY <1>2, <1>3 DEF IInv, HookOK, ServerOK, TypeOK, PendingIsFetching

LEMMA StepInv == HintAssumption /\ IInv /\ [Next]_vars => IInv'
<1> SUFFICES ASSUME HintAssumption, HookOK, ServerOK, [Next]_vars PROVE HookOK' /\ ServerOK'
  BY DEF IInv, HookOK, ServerOK, TypeOK, PendingIsFetching
<1>1. ASSUME UNCHANGED hookVars PROVE HookOK'
  BY <1>1 DEF HookOK, hookVars, Hook!TypeOK, Hook!PendingIsFetching, Hook!Unfinished
<1>2. ASSUME UNCHANGED serverVars PROVE ServerOK'
  BY <1>2 DEF ServerOK, serverVars
<1>3. ASSUME NEW r \in Requests, Accept(r) \/ Work(r) PROVE HookOK' /\ ServerOK'
  BY <1>1, <1>3, ServerInv DEF Accept, Work
<1>4. ASSUME NEW r \in Requests, PostEnds(r) PROVE HookOK' /\ ServerOK'
  <2>1. ASSUME Hook!Refused(r) PROVE HookOK'
    BY <2>1, FailInv DEF Hook!Refused, Hook!Cause
  <2> QED BY <1>2, <1>4, <2>1, PostedInv DEF PostEnds
<1>5. ASSUME NEW r \in Requests, Poll(r) PROVE HookOK' /\ ServerOK'
  BY <1>2, <1>5, PollInv DEF Poll
<1>6. ASSUME NEW r \in Requests, Hear(r) PROVE HookOK' /\ ServerOK'
  BY <1>2, <1>6, HearInv DEF Hear
<1>7. ASSUME Render PROVE HookOK' /\ ServerOK'
  BY <1>2, <1>7, RenderInv DEF Render
<1>8. ASSUME UNCHANGED vars PROVE HookOK' /\ ServerOK'
  BY <1>1, <1>2, <1>8 DEF vars
<1> QED BY <1>3, <1>4, <1>5, <1>6, <1>7, <1>8 DEF Next

(* The step of a request after a step of the page: only a poll ends a race
   with a failure that is the job's, or the deadline's. *)
Missed(r) ==
  /\ requests[r].step = "racing" /\ requests'[r].step \in {"failed", "late"}
  /\ record[r] = "done"

LEMMA SettledStep ==
  ASSUME Hook!TypeOK, NEW r \in Requests, NEW step
  PROVE  /\ Hook!Settled(r, step)[r].step = step
         /\ \A k \in Requests \ {r} : Hook!Settled(r, step)[k] = requests[k]
<1>1. requests[r] \in Hook!Request
  BY DEF Hook!TypeOK
<1> QED BY <1>1 DEF Hook!Settled, Hook!TypeOK, Hook!Request

LEMMA PollMissesNothing ==
  ASSUME Hook!TypeOK, NEW q \in Requests, Poll(q), NEW r \in Requests
  PROVE  ~Missed(r)
<1>1. ASSUME NEW cause, Hook!Fail(q, cause), record[q] = "done" => cause \notin {"failed", "late"}
      PROVE  ~Missed(r)
  BY <1>1, SettledStep DEF Hook!Fail, Missed
<1>2. CASE Hook!Win(q, subs)
  BY <1>2, SettledStep DEF Hook!Win, Missed
<1>3. ASSUME NEW answer \in {Answer(q), "unreachable"}, Hook!PollAnswer(q, answer)
      PROVE  ~Missed(r)
  <2>1. record[q] = "done" => answer \notin {"failed", "open"}
    BY DEF Answer, Server!Open
  <2>2. CASE Hook!Fail(q, answer) /\ answer \in {"failed", "unreachable"}
    BY <1>1, <2>1, <2>2
  <2>3. CASE Hook!Fail(q, "late") /\ answer = "open"
    BY <1>1, <2>1, <2>3
  <2>4. CASE requests' = [requests EXCEPT ![q].asking = FALSE, ![q].polls = @ + 1]
    <3>1. requests'[r].step = requests[r].step
      BY <2>4 DEF Hook!TypeOK, Hook!Request
    <3> QED BY <3>1 DEF Missed
  <2> QED BY <1>2, <1>3, <2>2, <2>3, <2>4 DEF Hook!PollAnswer
<1>4. ASSUME Hook!PollAgain(q) PROVE ~Missed(r)
  <2>1. CASE requests[q].aborted
    BY <1>1, <1>4, <2>1 DEF Hook!PollAgain
  <2>2. CASE requests' = [requests EXCEPT ![q].asking = TRUE]
    <3>1. requests'[r].step = requests[r].step
      BY <2>2 DEF Hook!TypeOK, Hook!Request
    <3> QED BY <3>1 DEF Missed
  <2> QED BY <1>4, <2>1, <2>2 DEF Hook!PollAgain
<1> QED BY <1>2, <1>3, <1>4 DEF Poll

LEMMA StepMissesNothing ==
  ASSUME Hook!TypeOK, [Next]_vars, NEW r \in Requests
  PROVE  ~Missed(r)
<1>1. ASSUME UNCHANGED requests PROVE ~Missed(r)
  BY <1>1 DEF Missed
<1>2. ASSUME NEW q \in Requests, Accept(q) \/ Work(q) PROVE ~Missed(r)
  BY <1>1, <1>2 DEF Accept, Work, hookVars
<1>3. ASSUME NEW q \in Requests, PostEnds(q) PROVE ~Missed(r)
  <2>1. requests[q].step = "posting" /\ requests[q] \in Hook!Request
    BY <1>3 DEF PostEnds, Hook!Posted, Hook!Refused, Hook!TypeOK
  <2>2. r # q => requests'[r] = requests[r]
    BY <1>3, SettledStep DEF PostEnds, Hook!Posted, Hook!Refused, Hook!Fail, Hook!TypeOK
  <2> QED BY <2>1, <2>2 DEF Missed
<1>4. ASSUME NEW q \in Requests, Poll(q) PROVE ~Missed(r)
  BY <1>4, PollMissesNothing
<1>5. ASSUME NEW q \in Requests, Hear(q) PROVE ~Missed(r)
  BY <1>1, <1>5, SettledStep DEF Hear, Hook!Hear, Hook!Win, Missed
<1>6. ASSUME Render PROVE ~Missed(r)
  <2>1. ASSUME NEW q \in Requests, Hook!RequestHint(q) PROVE ~Missed(r)
    <3>1. requests[q].step = "unused" /\ (r # q => requests'[r] = Hook!Abort(current)[r])
      BY <2>1, AbortType DEF Hook!RequestHint
    <3> QED BY <3>1, AbortType DEF Missed
  <2>2. ASSUME Hook!Unmount PROVE ~Missed(r)
    BY <2>2, AbortType DEF Hook!Unmount, Missed
  <2> QED BY <1>1, <1>6, <2>1, <2>2 DEF Render, Hook!ChangeProblem
<1>7. ASSUME UNCHANGED vars PROVE ~Missed(r)
  BY <1>1, <1>7 DEF vars, hookVars
<1> QED BY <1>2, <1>3, <1>4, <1>5, <1>6, <1>7 DEF Next

-----------------------------------------------------------------------------

THEOREM Invariance == Spec => []IInv
<1> USE HintAssumption
<1>1. Init => IInv
  BY InitInv
<1>2. IInv /\ [Next]_vars => IInv'
  BY StepInv
<1> QED BY <1>1, <1>2, PTL DEF Spec

(* The variables of page and server keep their types. *)
THEOREM TypeCorrect == Spec => []TypeOK
<1>1. IInv => TypeOK
  BY DEF IInv
<1> QED BY Invariance, <1>1, PTL

(* While the panel shows its spinner, some request is under way. *)
THEOREM SpinnerIsHonest == Spec => []PendingIsFetching
<1>1. IInv => PendingIsFetching
  BY DEF IInv
<1> QED BY Invariance, <1>1, PTL

(* A job that polling finds done is never reported as failed or late. *)
THEOREM DoneIsSeen == Spec => DoneIsNotMissed
<1>1. IInv /\ [Next]_vars =>
        [\A r \in Requests :
           requests[r].step = "racing" /\ requests'[r].step \in {"failed", "late"} =>
             record[r] # "done"]_vars
  BY StepMissesNothing DEF IInv, TypeOK, Missed
<1> QED BY Invariance, <1>1, PTL DEF Spec, DoneIsNotMissed
=============================================================================
