---------------------------- MODULE HintDelivery ----------------------------
(***************************************************************************)
(* From the click on the hint button to the text in the panel: the hook    *)
(* of one page (UseHint) against what the job queue promises               *)
(* (JobLifecycle).  The job of a request has the request's name.           *)
(*                                                                         *)
(* Between the two is the event stream (EventStream): what it published    *)
(* may reach the hook late, never or, over a leaked connection, twice, so  *)
(* here an event may be heard at any time after it was told.  The closing  *)
(* events, which the hook ignores, are not told, and of a hint that is     *)
(* told again the first telling is heard again.  A record outlives any     *)
(* race, which ends within a minute, so none expires.                      *)
(***************************************************************************)
EXTENDS Naturals, Sequences, FiniteSets

CONSTANTS
  Requests, NoRequest, Problems, Levels, MaxPolls,
  Relisted    \* requests whose job may be listed more than once

ASSUME HintAssumption ==
  /\ NoRequest \notin Requests
  /\ Levels \subseteq Nat \ {0} /\ Levels # {}
  /\ Relisted \subseteq Requests
  /\ MaxPolls \in Nat \ {0}

VARIABLES
  problem, mounted, status, hints, requests, current, subs,   \* UseHint
  record, streamed, doubled                                   \* JobLifecycle

Hook == INSTANCE UseHint
Server == INSTANCE JobLifecycle WITH Jobs <- Requests, Copies <- 1

hookVars == <<problem, mounted, status, hints, requests, current, subs>>
serverVars == <<record, streamed, doubled>>
vars == <<hookVars, serverVars>>

-----------------------------------------------------------------------------
(* The server *)

Accept(r) ==
  /\ requests[r].step = "posting"
  /\ Server!Accept(r)
  /\ UNCHANGED hookVars

Work(r) ==
  /\ \/ Server!Start(r)
     \/ r \in Relisted /\ Server!Double(r)
     \/ Server!Tell(r, "hint.ready")
     \/ Server!Redo(r) /\ streamed'[r] \in {streamed[r], <<"hint.ready">>}
     \/ \E result \in {"done", "failed"} : Server!Settle(r, result)
  /\ UNCHANGED hookVars

-----------------------------------------------------------------------------
(* The page *)

(* An answered POST: 202 once the record exists; a failure, or an answer
   that is lost, at any time. *)
PostEnds(r) ==
  /\ \/ record[r] # "none" /\ Hook!Posted(r)
     \/ Hook!Refused(r)
  /\ UNCHANGED serverVars

Answer(r) == IF record[r] \in Server!Open THEN "open" ELSE record[r]

Poll(r) ==
  /\ \/ \E answer \in {Answer(r), "unreachable"} : Hook!PollAnswer(r, answer)
     \/ Hook!PollAgain(r)
  /\ UNCHANGED serverVars

Hear(r) ==
  /\ streamed[r] # << >>
  /\ Hook!Hear(r)
  /\ UNCHANGED serverVars

Render ==
  /\ \/ \E r \in Requests : Hook!RequestHint(r)
     \/ \E p \in Problems : Hook!ChangeProblem(p)
     \/ Hook!Unmount
  /\ UNCHANGED serverVars

Init == Hook!Init /\ Server!Init

Next ==
  \/ \E r \in Requests : Accept(r) \/ Work(r) \/ PostEnds(r) \/ Poll(r) \/ Hear(r)
  \/ Render

Spec == Init /\ [][Next]_vars

(* The browser answers each POST and GET with something, and wakes a loop
   that sleeps; the server, the stream and the user owe nothing. *)
Fairness == \A r \in Requests : WF_vars(PostEnds(r)) /\ WF_vars(Poll(r))

FairSpec == Spec /\ Fairness

-----------------------------------------------------------------------------
(* Properties *)

(* The variables have their types. *)
TypeOK ==
  /\ Hook!TypeOK
  /\ record \in [Requests -> Server!Record]
  /\ streamed \in [Requests -> Seq(Server!Event)] /\ doubled \subseteq Requests

PendingIsFetching == Hook!PendingIsFetching
PendingEnds == Hook!PendingEnds

(* The panel never reports a failed or late job for a request that its own
   polling finds done, whatever became of the event and however close the
   deadline ("guaranteed-eventually-correct path"). *)
DoneIsNotMissed ==
  [][\A r \in Requests :
       requests[r].step = "racing" /\ requests'[r].step \in {"failed", "late"} =>
         record[r] # "done"]_vars
=============================================================================
