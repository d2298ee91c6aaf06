----------------------------- MODULE Onboarding -----------------------------
(***************************************************************************)
(* The onboarding funnel and the settings page in one tab: EvidenceSync    *)
(* and DiagnosticQuiz with the navigation between them.                    *)
(***************************************************************************)
EXTENDS EvidenceSync, DiagnosticQuiz

vars == <<tab, evidence, diagnosis>>

-----------------------------------------------------------------------------
(* Navigation: the page that goes takes its state with it *)

Move(p, s) ==
  /\ page' = p
  /\ LeaveEvidence
  /\ IF p = "quiz" THEN EnterQuiz ELSE LeaveQuiz(s)

(* /onboarding/sync goes on to the results without a session.              *)
Follow ==
  /\ Click /\ UNCHANGED faults
  /\ \E p \in Links(page) :
       /\ page = "sync" /\ p = "results" => canContinue
       /\ page = "results" /\ p = "quiz" => ~hasResults
       /\ Move(p, None)

(* The effect that leaves the quiz once its session is closed.             *)
Done ==
  /\ OnQuiz /\ quiz.phase = "done"
  /\ Move("results", quiz.session) /\ UNCHANGED <<clicks, faults>>

(* skipQuiz() without a session loads the results page.                    *)
SkipUnstarted ==
  /\ OnQuiz /\ MaySkipQuiz /\ quiz.session = None
  /\ Click /\ Move("results", None) /\ UNCHANGED faults

GenerateSucceeds ==
  /\ results.mutation = "pending"
  /\ Move("away", None) /\ UNCHANGED <<clicks, faults>>

(* The layout of /onboarding when the session of the user is lost.         *)
SignedOut ==
  /\ page \notin {"away", "settings"} /\ Fault
  /\ Move("away", None) /\ UNCHANGED clicks

-----------------------------------------------------------------------------
Init ==
  /\ page = "chooser" /\ clicks = 0 /\ faults = 0
  /\ EvidenceInit /\ QuizInit

(* What happens without the user.                                          *)
Progress ==
  \/ /\ \/ \E s \in Sources : ServeOrAnswer(s) \/ Process(s)
        \/ JobCompleted
     /\ UNCHANGED diagnosis
  \/ /\ \E c \in Slots : RequestSteps(c)
     /\ UNCHANGED evidence
  \/ Done \/ GenerateSucceeds

Next ==
  \/ Progress
  \/ (EvidenceClick \/ Abandon) /\ UNCHANGED diagnosis
  \/ (QuizClick \/ GenerateFails \/ \E c \in Slots : Lose(c)) /\ UNCHANGED evidence
  \/ Follow \/ SkipUnstarted \/ SignedOut

Fairness == WF_vars(Progress)
Spec == Init /\ [][Next]_vars /\ Fairness

-----------------------------------------------------------------------------
(* Properties *)

Waits == quiz.phase \in {"starting", "judge0", "skipping", "closing"} /\ OnQuiz

(* No wait is for ever: with clicks and faults that end, the quiz comes to *)
(* a page that waits for nothing, the sources of the list are done or      *)
(* failed, and the server has ended its work on each.                      *)
OnboardingSettles ==
  []<>(/\ ~Waits /\ Running = {}
       /\ \A s \in Shown : ~InFlight(source[s].status))
=============================================================================
