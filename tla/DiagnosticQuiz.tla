--------------------------- MODULE DiagnosticQuiz ---------------------------
(***************************************************************************)
(* The diagnostic quiz of /onboarding/quiz and its results: a practice     *)
(* session that the page (useQuizSession) closes after Cap questions.  The *)
(* page keeps a tally of its own by topic.  Requests do not wait for each  *)
(* other, and an answer overwrites the phase, whatever it has become.      *)
(*                                                                         *)
(* The server handles a request in one step, as in PracticeClient.         *)
(* Problems are numbers in the order the server picks them, a problem's    *)
(* topic is its number modulo Topics.  Theta, code and languages are left  *)
(* out, hints are UseHint's.                                               *)
(***************************************************************************)
EXTENDS OnboardingTab

CONSTANTS Cap,          \* QUIZ_QUESTION_CAP
          Topics,       \* QUIZ_SEED_TOPICS
          LastProblem,  \* bound: problems of the scope
          LastSession,  \* bound: sessions the server hands out
          Slots         \* bound: requests under way at a time

ASSUME QuizAssumption ==
  /\ {Cap, Topics, LastProblem, LastSession} \subseteq Nat \ {0}
  /\ Slots \subseteq Nat /\ IsFiniteSet(Slots)
  /\ Clicks <= 2 * LastSession   \* a session takes a visit and a close

VARIABLES quiz,     \* the state of the hook
          req,      \* requests under way
          sess,     \* practice_sessions on the server
          cache,    \* sessionStorage tv-practice-close:<session>
          results,  \* the results page
          graded    \* history: answers the server graded for this visit and sent

diagnosis == <<quiz, req, sess, cache, results, graded>>

None == 0
Sessions == 1 .. LastSession
Topic(p) == p % Topics
TopicNames == 0 .. Topics - 1

TopicTally == [attempts |-> 0, correct |-> 0]
NoTally == [t \in TopicNames |-> TopicTally]
INITIAL_STATE == [phase |-> "starting", session |-> None, problem |-> None, count |-> 0,
                  tally |-> NoTally, result |-> None, starting |-> FALSE,
                  error |-> FALSE]
NoAnswer == [ok |-> FALSE, sess |-> None, next |-> None, count |-> 0, correct |-> FALSE]
Free == [op |-> "none", step |-> "free", sess |-> None, prob |-> None, mine |-> FALSE,
         tally |-> NoTally, ans |-> NoAnswer]
(* `fresh`, a history: the first start of a visit that is still there made *)
(* the session, and no start resumed it.                                   *)
NoSession == [status |-> "NONE", fresh |-> FALSE, next |-> None, count |-> 0]
NotClosed == [closed |-> FALSE, total |-> 0]
NoResults == [session |-> None, mutation |-> "idle"]

-----------------------------------------------------------------------------
(* What the page offers *)

OnQuiz == page = "quiz"
isBusy == quiz.phase \in {"starting", "skipping", "closing"}
Skeleton == quiz.phase = "starting" /\ quiz.problem = None
Workspace == quiz.problem # None /\ quiz.phase # "done"
Console == Workspace /\ quiz.phase \notin {"judge0", "result"}

MaySubmit == Console /\ ~isBusy
MayContinue == Workspace /\ quiz.phase = "result"
MaySkipQuiz == Skeleton \/ (quiz.phase # "done" /\ ~isBusy)
MayRetry == quiz.phase = "error" /\ (quiz.error \/ quiz.problem = None)

QuizProgress == LET n == quiz.count IN IF n < Cap THEN n + 1 ELSE Cap
HypothesisMeter(t) ==
  CASE quiz.tally[t].attempts = 0 -> "untested"
    [] 2 * quiz.tally[t].correct >= quiz.tally[t].attempts -> "confirmed"
    [] OTHER -> "debunked"

(* A request by the first free slot.                                       *)
Idle == {c \in Slots : req[c].step = "free" /\ \A d \in Slots : d < c => req[d].step # "free"}
Request(op, step, s) ==
  \E c \in Idle : req' = [req EXCEPT ![c] =
    [Free EXCEPT !.op = op, !.step = step, !.sess = s, !.prob = quiz.problem,
                 !.mine = TRUE, !.tally = quiz.tally]]
Become(phase) == quiz' = [quiz EXCEPT !.phase = phase, !.error = FALSE]

(* startInFlight: a second start() while one is under way does nothing.    *)
start ==
  IF quiz.starting THEN UNCHANGED <<quiz, req>>
  ELSE /\ Request("start", "sent", None)
       /\ quiz' = [quiz EXCEPT !.phase = "starting", !.starting = TRUE, !.error = FALSE]

finish == Request("close", "sent", quiz.session) /\ Become("closing")

submitAnswer ==
  /\ OnQuiz /\ MaySubmit /\ Click
  /\ Request("submit", "judging", quiz.session) /\ Become("judge0")
  /\ UNCHANGED <<page, faults, sess, cache, results, graded>>

skip ==
  /\ OnQuiz /\ MaySubmit /\ Click
  /\ Request("skip", "sent", quiz.session) /\ Become("skipping")
  /\ UNCHANGED <<page, faults, sess, cache, results, graded>>

PastTheCap(n) == n > Cap  \* mutant: one question too many

AtTheCap(n) == n >= Cap

continueQuiz ==
  /\ OnQuiz /\ MayContinue
  /\ IF quiz.result = None \/ AtTheCap(quiz.count)
     THEN finish
     ELSE /\ quiz' = [quiz EXCEPT !.phase = "active", !.problem = quiz.result,
                                  !.result = None]
          /\ UNCHANGED req
  /\ UNCHANGED <<tab, sess, cache, results, graded>>

(* Without a session the browser loads the results page.                   *)
skipQuiz ==
  /\ OnQuiz /\ MaySkipQuiz /\ quiz.session # None /\ Click
  /\ finish
  /\ UNCHANGED <<page, faults, sess, cache, results, graded>>

Retry ==
  /\ OnQuiz /\ MayRetry /\ Click
  /\ start
  /\ UNCHANGED <<page, faults, sess, cache, results, graded>>

-----------------------------------------------------------------------------
(* A request under way *)

Reply(c, a) == req' = [req EXCEPT ![c].step = "answered", ![c].ans = a]

(* submitSolution() runs the code first; the verdict comes within its 30   *)
(* seconds or the submission fails.                                        *)
Judge(c) ==
  /\ req[c].step = "judging"
  /\ \/ req' = [req EXCEPT ![c].step = "sent"]
     \/ Reply(c, NoAnswer)
  /\ UNCHANGED <<tab, quiz, sess, cache, results, graded>>

Active == {s \in Sessions : sess[s].status = "ACTIVE"}
Unused == {s \in Sessions : sess[s].status = "NONE"}

(* Start resumes the ACTIVE session, whatever its scope, or makes one.     *)
Start(c) ==
  /\ UNCHANGED graded
  /\ \/ \E s \in Active :
          /\ Reply(c, [NoAnswer EXCEPT !.ok = TRUE, !.sess = s, !.next = sess[s].next])
          /\ sess' = [sess EXCEPT ![s].fresh = FALSE]
     \/ \E s \in Unused :
          /\ Active = {} /\ \A v \in Unused : s <= v
          /\ sess' = [sess EXCEPT ![s] =
               [status |-> "ACTIVE", fresh |-> req[c].mine /\ quiz.session = None,
                next |-> 1, count |-> 0]]
          /\ Reply(c, [NoAnswer EXCEPT !.ok = TRUE, !.sess = s, !.next = 1])

(* Submit and Skip record a response and choose the next problem.          *)
Record(c) ==
  LET s == req[c].sess
      n == sess[s].count + 1
      p == IF sess[s].next < LastProblem THEN sess[s].next + 1 ELSE None
      t == Topic(req[c].prob)
  IN  IF sess[s].status # "ACTIVE" THEN Reply(c, NoAnswer) /\ UNCHANGED <<sess, graded>>
      ELSE /\ sess' = [sess EXCEPT ![s].count = n, ![s].next = p]
           /\ graded' = IF req[c].op = "submit" /\ req[c].mine
                        THEN [graded EXCEPT ![t] = @ + 1] ELSE graded
           /\ \E correct \in IF req[c].op = "submit" THEN BOOLEAN ELSE {FALSE} :
                Reply(c, [ok |-> TRUE, sess |-> s, next |-> p, count |-> n, correct |-> correct])

(* Close abandons a session without responses and completes another.       *)
Close(c) ==
  LET s == req[c].sess
  IN  /\ UNCHANGED graded
      /\ IF sess[s].status # "ACTIVE" THEN Reply(c, NoAnswer) /\ UNCHANGED sess
         ELSE /\ sess' = [sess EXCEPT ![s].status =
                            IF sess[s].count = 0 THEN "ABANDONED" ELSE "COMPLETED"]
              /\ Reply(c, [NoAnswer EXCEPT !.ok = TRUE, !.sess = s, !.count = sess[s].count])

ServeQuiz(c) ==
  /\ req[c].step = "sent"
  /\ CASE req[c].op = "start" -> Start(c)
       [] req[c].op \in {"submit", "skip"} -> Record(c)
       [] req[c].op = "close" -> Close(c)
  /\ UNCHANGED <<tab, quiz, cache, results>>

(* A request fails on its way, or its answer does.                         *)
Lose(c) ==
  /\ Fault
  /\ req[c].step # "free" /\ (req[c].step = "answered" => req[c].ans.ok)
  /\ Reply(c, NoAnswer)
  /\ graded' = IF req[c].step = "answered" /\ req[c].op = "submit" /\ req[c].mine
               THEN [graded EXCEPT ![Topic(req[c].prob)] = @ - 1] ELSE graded
  /\ UNCHANGED <<page, clicks, quiz, sess, cache, results>>

-----------------------------------------------------------------------------
(* An answer arrives *)

TallyOfClick(q, tally) == tally  \* mutant: the tally as it was at the click

(* The updater works on the state it finds.                                *)
TallyNow(q, tally) == q.tally

Started(q, a) ==
  IF a.ok THEN [q EXCEPT !.phase = "active", !.session = a.sess, !.problem = a.next,
                         !.starting = FALSE]
  ELSE [q EXCEPT !.phase = "error", !.starting = FALSE, !.error = TRUE]

Submitted(q, r) ==
  LET t == Topic(r.prob)
      prev == TallyNow(q, r.tally)
  IN  IF ~r.ans.ok THEN [q EXCEPT !.phase = "active", !.error = TRUE]
      ELSE [q EXCEPT !.phase = "result", !.count = r.ans.count,
                     !.result = r.ans.next,
                     !.tally = [prev EXCEPT ![t].attempts = @ + 1,
                                            ![t].correct = @ + IF r.ans.correct THEN 1 ELSE 0]]

dismissError ==
  /\ OnQuiz /\ quiz.error /\ Click /\ quiz' = [quiz EXCEPT !.error = FALSE]
  /\ UNCHANGED <<page, faults, req, sess, cache, results, graded>>

(* An answer to a skip that ends the quiz makes its own request to close.  *)
SkipFinishes(r) == r.ans.ok /\ (r.ans.next = None \/ AtTheCap(r.ans.count))
Skipped(q, a) ==
  IF a.ok THEN [q EXCEPT !.phase = "active", !.problem = a.next, !.count = a.count]
  ELSE [q EXCEPT !.phase = "active", !.error = TRUE]

FinishedOrSilent(q, a) ==  \* mutant: a failure to close is not caught
  IF a.ok THEN [q EXCEPT !.phase = "done"] ELSE q

Finished(q, a) ==
  IF a.ok THEN [q EXCEPT !.phase = "done"] ELSE [q EXCEPT !.phase = "error", !.error = TRUE]

Settled(r) ==
  CASE r.op = "start" -> Started(quiz, r.ans)
    [] r.op = "submit" -> Submitted(quiz, r)
    [] r.op = "skip" -> IF SkipFinishes(r) THEN [quiz EXCEPT !.phase = "closing", !.error = FALSE]
                                           ELSE Skipped(quiz, r.ans)
    [] r.op = "close" -> Finished(quiz, r.ans)

(* cacheCloseResult() and a finish() after a skip run without the page too.*)
Deliver(c) ==
  LET r == req[c] IN
  /\ r.step = "answered"
  /\ quiz' = IF r.mine THEN Settled(r) ELSE quiz
  /\ req' = [req EXCEPT ![c] = IF r.op = "skip" /\ SkipFinishes(r)
               THEN [Free EXCEPT !.op = "close", !.step = "sent", !.sess = r.sess, !.mine = r.mine]
               ELSE Free]
  /\ cache' = IF r.op = "close" /\ r.ans.ok
              THEN [cache EXCEPT ![r.sess] = [closed |-> TRUE, total |-> r.ans.count]] ELSE cache
  /\ UNCHANGED <<tab, sess, results, graded>>

-----------------------------------------------------------------------------
(* The results *)

hasResults == results.session # None /\ cache[results.session].closed

(* The tiles and topics of a session, and the form below them.             *)
ResultsPage == page = "results" /\ hasResults

Generate ==
  /\ ResultsPage /\ results.mutation # "pending" /\ Click
  /\ results' = [results EXCEPT !.mutation = "pending"]
  /\ UNCHANGED <<page, faults, quiz, req, sess, cache, graded>>

GenerateFails ==
  /\ results.mutation = "pending" /\ Fault
  /\ results' = [results EXCEPT !.mutation = "error"]
  /\ UNCHANGED <<page, clicks, quiz, req, sess, cache, graded>>

-----------------------------------------------------------------------------
(* A session of /practice may be ACTIVE when the user comes to the quiz.   *)
QuizInit ==
  /\ quiz = INITIAL_STATE
  /\ req = [c \in Slots |-> Free]
  /\ \E resumed \in {NoSession, [status |-> "ACTIVE", fresh |-> FALSE, next |-> 1, count |-> 1]} :
       sess = [s \in Sessions |-> IF s = 1 THEN resumed ELSE NoSession]
  /\ cache = [s \in Sessions |-> NotClosed]
  /\ results = NoResults /\ graded = [t \in TopicNames |-> 0]

QuizClick == submitAnswer \/ skip \/ continueQuiz \/ skipQuiz \/ Retry \/ dismissError
               \/ Generate
RequestSteps(c) == Judge(c) \/ ServeQuiz(c) \/ Deliver(c)

(* A new visit starts at once; an old one leaves its requests behind.      *)
EnterQuiz ==
  /\ Request("start", "sent", None)
  /\ quiz' = [INITIAL_STATE EXCEPT !.starting = TRUE]
  /\ graded' = [t \in TopicNames |-> 0]
  /\ results' = NoResults /\ UNCHANGED <<sess, cache>>

LeaveQuiz(s) ==
  /\ quiz' = INITIAL_STATE
  /\ req' = [c \in Slots |-> [req[c] EXCEPT !.mine = FALSE]]
  /\ results' = [NoResults EXCEPT !.session = s]
  /\ graded' = [t \in TopicNames |-> 0] /\ UNCHANGED <<sess, cache>>

-----------------------------------------------------------------------------
(* Properties *)

(* The first session of a visit, unless a start resumed it, has no more    *)
(* than Cap questions, one more for each request or answer that was lost,  *)
(* however submissions, skips and closes overlap.  A later session of the  *)
(* visit can have more: requests of the first are answered into its phase. *)
CapHolds == \A s \in Sessions : sess[s].fresh => sess[s].count <= Cap + faults

(* When this visit waits for no answer, the tally of the diagnostic radar  *)
(* has counted each answer the server graded and sent, in its topic, once. *)
TallyCounts ==
  (\A c \in Slots : ~req[c].mine) => \A t \in TopicNames : quiz.tally[t].attempts = graded[t]
=============================================================================
