--------------------------- MODULE PracticeClient ---------------------------
(***************************************************************************)
(* The practice page and its summary, in one tab, against the sessions of  *)
(* the server.  The hook behind the page (usePracticeEngine) sends each    *)
(* request without waiting for the others and lets each answer overwrite   *)
(* the state, whatever the state has become.                               *)
(*                                                                         *)
(* A handler of the server reads the session first and writes it at the    *)
(* end, whatever has become of it in between; the four-hour sweeper runs   *)
(* beside them.  A handler whose answer is lost is done by the time the    *)
(* page knows.  Theta moves with the question count and is left out.  Code *)
(* is known by the problem it was written for.  Hints are UseHint's.       *)
(***************************************************************************)
EXTENDS Naturals, FiniteSets

CONSTANTS Problems, NoProblem,
          LastSession,  \* bound: sessions the server hands out
          Slots,        \* bound: requests under way at a time
          Polls,        \* polls of a verdict within its 30 seconds
          Clicks,       \* bound: clicks that send a request
          Faults        \* bound: requests or answers lost, reads and writes of the
                        \* database that fail, sessions swept

ASSUME PracticeAssumption ==
  /\ NoProblem \notin Problems /\ IsFiniteSet(Slots)
  /\ LastSession \in Nat /\ Polls \in Nat \ {0} /\ Clicks \in Nat /\ Faults \in Nat
  /\ Clicks + Faults <= 2 * LastSession   \* a session takes a start, and a close or a sweep

VARIABLES page,     \* the route the tab shows and the state of its hook
          summary,  \* the summary page
          calls,    \* the requests under way
          rows,     \* practice_sessions on the server
          cache,    \* sessionStorage tv-practice-close:<session>, its question count
          calm,     \* history: since the session was opened, see Keep
          past,     \* history: the sessions a Close has read as open, those that two
                    \* have, those that got a response after one had, those that were
                    \* left open by one
          clicks, faults

vars == <<page, summary, calls, rows, cache, calm, past, clicks, faults>>

None == 0
Sessions == 1 .. LastSession
MaybeProblem == Problems \cup {NoProblem}
Phase == {"setup", "starting", "active", "judge0", "result", "skipping",
          "exhausted", "closing", "closed", "error"}

(* SubmitResponse, and what the answers to the other requests share.       *)
NoResult == [problem |-> NoProblem, next |-> NoProblem, count |-> 0]
INITIAL_STATE == [phase |-> "setup", session |-> None, problem |-> NoProblem,
                  code |-> NoProblem, count |-> 0, result |-> NoResult]
NoAnswer == [ok |-> FALSE, sess |-> None, next |-> NoProblem, count |-> 0]
Free == [op |-> "none", step |-> "free", sess |-> None, prob |-> NoProblem,
         polls |-> 0, seen |-> 0, mine |-> FALSE, ans |-> NoAnswer]
NoRow == [status |-> "NONE", current |-> NoProblem, count |-> 0]
NotClosed == [closed |-> FALSE, total |-> 0]
NoPast == [read |-> {}, twice |-> {}, late |-> {}, spared |-> {}]
NoSummary == [session |-> None, cached |-> NotClosed, query |-> "none", total |-> 0]

Busy(f) == {c \in Slots : f[c].step # "free"}

(* The page is in step with the server as long as no two requests overlap, *)
(* none is applied without its answer arriving, no close, nor a start over *)
(* a closed session, fails, a resumed session comes with its problem, and  *)
(* the session is not swept.                                               *)
Keep(p) == calm' = (p /\ Cardinality(Busy(calls')) <= 1)

-----------------------------------------------------------------------------
(* What the page offers *)

OnPage == page.route = "practice"
StartCard == page.state.session = None \/ page.state.phase = "closed"
isBusy == page.state.phase \in {"starting", "skipping"}
Workspace == OnPage /\ ~StartCard

MayStart == OnPage /\ StartCard /\ page.state.phase # "starting"
EndSession == Workspace /\ ~isBusy
Judge0Wait == page.state.phase = "judge0"
VerdictPanel == page.state.phase = "result"
Console == Workspace /\ page.state.phase # "exhausted" /\ ~Judge0Wait /\ ~VerdictPanel
SkipProblem == Console /\ ~isBusy
SubmitSolution == Console /\ ~isBusy /\ page.state.code # NoProblem
NextProblem == Workspace /\ VerdictPanel /\ page.state.result.next # NoProblem
QuestionShown == page.state.count
ProblemShown == page.state.problem
AnswerSurface == Workspace /\ ~isBusy /\ page.state.phase # "exhausted"

(* templateFor(): a problem may have no template for the language.         *)
templateFor(p) == {p, NoProblem}

setState(s) == page' = [page EXCEPT !.state = s]

(* A click on c's button sends one request.                                *)
Send(c, op, step, phase) ==
  /\ calls[c].step = "free" /\ clicks < Clicks
  /\ clicks' = clicks + 1
  /\ calls' = [calls EXCEPT ![c] = [Free EXCEPT !.op = op, !.step = step, !.mine = TRUE,
                !.sess = page.state.session, !.prob = page.state.problem]]
  /\ setState([page.state EXCEPT !.phase = phase])
  /\ Keep(calm \/ op = "start")
  /\ UNCHANGED <<summary, rows, cache, past, faults>>

startSession(c) == MayStart /\ Send(c, "start", "sent", "starting")

submitAnswer(c) ==
  /\ SubmitSolution /\ page.state.problem # NoProblem
  /\ Send(c, "submit", "execute", "judge0")

skip(c) == SkipProblem /\ Send(c, "skip", "sent", "skipping")

endSession(c) == EndSession /\ Send(c, "close", "sent", "closing")

advanceToNext ==
  /\ NextProblem
  /\ \E code \in templateFor(page.state.result.next) :
       setState([page.state EXCEPT !.phase = "active", !.problem = page.state.result.next,
                   !.code = code, !.result = NoResult])
  /\ UNCHANGED <<summary, calls, rows, cache, calm, past, clicks, faults>>

(* Typing, Reset and another language change the code only.                *)
setCode ==
  /\ AnswerSurface
  /\ \E code \in templateFor(page.state.problem) \ {page.state.code} :
       setState([page.state EXCEPT !.code = code])
  /\ UNCHANGED <<summary, calls, rows, cache, calm, past, clicks, faults>>

-----------------------------------------------------------------------------
(* A request under way *)

Answered(c, a) == [calls EXCEPT ![c].step = "answered", ![c].ans = a]

(* submitSolution(): POST /execute is answered with a token.               *)
executeCode(c) ==
  /\ calls[c].step = "execute"
  /\ calls' = [calls EXCEPT ![c].step = "poll"]
  /\ Keep(calm) /\ UNCHANGED <<page, summary, rows, cache, past, clicks, faults>>

PollForever(c) ==  \* mutant: no deadline
  /\ calls[c].step = "poll"
  /\ calls' \in {[calls EXCEPT ![c].step = "sent"], [calls EXCEPT ![c].polls = 1 - @]}
  /\ Keep(calm) /\ UNCHANGED <<page, summary, rows, cache, past, clicks, faults>>

(* One poll: done, and the answer is submitted; open, and asked for again  *)
(* or given up once the deadline has passed.                               *)
pollVerdict(c) ==
  /\ calls[c].step = "poll"
  /\ \/ calls' = [calls EXCEPT ![c].step = "sent"]
     \/ calls[c].polls + 1 < Polls /\ calls' = [calls EXCEPT ![c].polls = @ + 1]
     \/ calls[c].polls + 1 = Polls /\ calls' = Answered(c, NoAnswer)
  /\ Keep(calm) /\ UNCHANGED <<page, summary, rows, cache, past, clicks, faults>>

Active == {s \in Sessions : rows[s].status = "ACTIVE"}
Unused == {s \in Sessions : rows[s].status = "NONE"}
Reply(s, p, n) == [ok |-> TRUE, sess |-> s, next |-> p, count |-> n]
Loaded(c, n) == [calls EXCEPT ![c].step = "loaded", ![c].seen = n]

(* Start resumes the ACTIVE session, or goes on to make one.               *)
Start(c) ==
  \/ Active = {} /\ calls' = Loaded(c, 0)
  \/ \E s \in Active : calls' = Answered(c, Reply(s, rows[s].current, 0))

(* Submit, Skip and Close go on with the session as they have read it.     *)
Admit(c) ==
  LET s == calls[c].sess
      refused == rows[s].status # "ACTIVE" \/ (calls[c].op # "close" /\ calls[c].prob = NoProblem)
  IN  calls' = IF refused THEN Answered(c, NoAnswer) ELSE Loaded(c, rows[s].count)

Read(c) ==
  IF calls[c].op = "close" /\ calls'[c].step = "loaded"
  THEN [past EXCEPT !.read = @ \cup {calls[c].sess},
                    !.twice = @ \cup (past.read \cap {calls[c].sess})]
  ELSE past

Serve(c) ==
  /\ calls[c].step = "sent"
  /\ calls[c].op = "start" => Start(c)
  /\ calls[c].op # "start" => Admit(c)
  /\ past' = Read(c)
  /\ Keep(calm) /\ UNCHANGED <<page, summary, rows, cache, clicks, faults>>

(* The problem of a resumed session cannot be read: it comes with none.    *)
Unread(c) ==
  /\ faults < Faults /\ faults' = faults + 1
  /\ calls[c].step = "sent" /\ calls[c].op = "start"
  /\ \E s \in Active : calls' = Answered(c, Reply(s, NoProblem, 0))
  /\ Keep(FALSE) /\ UNCHANGED <<page, summary, rows, cache, past, clicks>>

(* A user has one ACTIVE session: another start's makes the insert fail.   *)
Create(c) ==
  IF Active # {}
  THEN calls' = Answered(c, NoAnswer) /\ UNCHANGED rows
  ELSE \E p \in Problems, s \in Unused :
         /\ \A v \in Unused : s <= v
         /\ rows' = [rows EXCEPT ![s].status = "ACTIVE", ![s].current = p]
         /\ calls' = Answered(c, Reply(s, p, 0))

(* Submit and Skip append a response and set the next problem, whatever    *)
(* the status has become, and answer with the count they have read.        *)
AppendResponse(c) ==
  LET s == calls[c].sess IN
  \E p \in MaybeProblem \ {calls[c].prob} :
    /\ rows' = [rows EXCEPT ![s].current = p, ![s].count = @ + 1]
    /\ calls' = Answered(c, Reply(s, p, calls[c].seen + 1))

(* Close abandons a session it has read without responses and completes    *)
(* another.                                                                *)
Close(c) ==
  LET s == calls[c].sess
      n == calls[c].seen
  IN  /\ rows' = [rows EXCEPT ![s].status = IF n = 0 THEN "ABANDONED" ELSE "COMPLETED"]
      /\ calls' = Answered(c, Reply(s, NoProblem, n))

Finish(c) ==
  /\ calls[c].step = "loaded"
  /\ calls[c].op = "start" => Create(c)
  /\ calls[c].op \in {"submit", "skip"} => AppendResponse(c)
  /\ calls[c].op = "close" => Close(c)
  /\ past' = IF calls[c].op \in {"submit", "skip"}
             THEN [past EXCEPT !.late = @ \cup (past.read \cap {calls[c].sess})] ELSE past
  /\ Keep(calm) /\ UNCHANGED <<page, summary, cache, clicks, faults>>

(* The write that abandons the session fails, and Close answers all the    *)
(* same.                                                                   *)
Spare(c) ==
  /\ faults < Faults /\ faults' = faults + 1
  /\ calls[c].step = "loaded" /\ calls[c].op = "close" /\ calls[c].seen = 0
  /\ calls' = Answered(c, Reply(calls[c].sess, NoProblem, 0))
  /\ past' = [past EXCEPT !.spared = @ \cup {calls[c].sess}]
  /\ Keep(calm) /\ UNCHANGED <<page, summary, rows, cache, clicks>>

(* CleanupStale() abandons a session nobody has written for four hours.    *)
Sweep ==
  /\ faults < Faults /\ faults' = faults + 1
  /\ \E s \in Active : rows' = [rows EXCEPT ![s].status = "ABANDONED"]
  /\ calm' = FALSE /\ UNCHANGED <<page, summary, calls, cache, past, clicks>>

(* A request fails on its way, or its answer does.                         *)
Lose(c) ==
  /\ faults < Faults /\ faults' = faults + 1
  /\ calls[c].step # "free" /\ (calls[c].step = "answered" => calls[c].ans.ok)
  /\ calls' = Answered(c, NoAnswer)
  /\ Keep(calm /\ calls[c].step # "answered" /\ calls[c].op # "close"
                /\ (calls[c].op = "start" => calls[c].sess = None))
  /\ UNCHANGED <<page, summary, rows, cache, past, clicks>>

-----------------------------------------------------------------------------
(* An answer arrives: `a` is the state it leaves *)

Shown(p) == IF p = NoProblem THEN "exhausted" ELSE "active"

Started(st, a, code) ==
  [phase |-> Shown(a.next), session |-> a.sess, problem |-> a.next, code |-> code,
   count |-> 0, result |-> NoResult]

Verdict(st, call, a) ==
  [st EXCEPT !.phase = "result", !.count = a.count,
             !.result = [problem |-> call.prob, next |-> a.next, count |-> a.count]]

SkippedKeepsProblem(st, a, code) ==  \* mutant: the problem is not replaced
  [st EXCEPT !.phase = Shown(a.next), !.count = a.count]

Skipped(st, a, code) ==
  [st EXCEPT !.phase = Shown(a.next), !.problem = a.next, !.code = code, !.count = a.count]

(* The catch blocks: an error is shown, the start card stays for a start,  *)
(* and for any other request the page goes back to "active".               *)
Failed(st, op) == [st EXCEPT !.phase = IF op = "start" THEN "error" ELSE "active"]

Settled(st, call, code) ==
  LET a == call.ans IN
  IF ~a.ok THEN Failed(st, call.op)
  ELSE CASE call.op = "start" -> Started(st, a, code)
         [] call.op = "submit" -> Verdict(st, call, a)
         [] call.op = "skip" -> Skipped(st, a, code)
         [] call.op = "close" -> [st EXCEPT !.phase = "closed"]

CacheOtherSession(call) ==  \* mutant: cached under the session on the page
  IF call.op = "close" /\ call.ans.ok
  THEN [cache EXCEPT ![IF page.state.session = None THEN call.sess ELSE page.state.session]
          = [closed |-> TRUE, total |-> call.ans.count]]
  ELSE cache

(* cacheCloseResult() runs even when the page is gone.                     *)
cacheCloseResult(call) ==
  IF call.op = "close" /\ call.ans.ok
  THEN [cache EXCEPT ![call.sess] = [closed |-> TRUE, total |-> call.ans.count]] ELSE cache

Deliver(c) ==
  /\ calls[c].step = "answered"
  /\ \E code \in templateFor(calls[c].ans.next) :
       IF calls[c].mine THEN setState(Settled(page.state, calls[c], code))
       ELSE code = NoProblem /\ UNCHANGED page
  /\ cache' = cacheCloseResult(calls[c])
  /\ calls' = [calls EXCEPT ![c] = Free]
  /\ Keep(calm)
  /\ UNCHANGED <<summary, rows, past, clicks, faults>>

-----------------------------------------------------------------------------
(* Routes: what a page had under way goes on without it *)

Gone == [c \in Slots |-> [calls[c] EXCEPT !.mine = FALSE]]

Route(r) ==
  /\ page' = [route |-> r, state |-> INITIAL_STATE]
  /\ calls' = Gone
  /\ UNCHANGED <<rows, cache, calm, past, clicks, faults>>

(* The summary reads the cache once, when it opens.                        *)
OpenSummary(s) ==
  /\ Route("summary")
  /\ summary' = [NoSummary EXCEPT !.session = s, !.query = "loading",
                   !.cached = cache[s]]

(* The effect that leaves for the summary once the session is closed.      *)
Closed == OnPage /\ page.state.phase = "closed" /\ OpenSummary(page.state.session)

(* A link to a past session, from another page.                            *)
Recent == page.route = "away" /\ \E s \in Sessions \ Unused : OpenSummary(s)

(* A link out of the page, and the way back to it.                         *)
Leave == OnPage /\ clicks < Clicks /\ Route("away") /\ UNCHANGED summary
Enter == ~OnPage /\ Route("practice") /\ summary' = NoSummary

(* GET /practice/session/{id} is answered or fails.                        *)
SessionQuery ==
  /\ page.route = "summary" /\ summary.query = "loading"
  /\ \/ summary' = [summary EXCEPT !.query = "data", !.total = rows[summary.session].count]
     \/ faults < Faults /\ summary' = [summary EXCEPT !.query = "error"]
  /\ faults' = IF summary'.query = "error" THEN faults + 1 ELSE faults
  /\ UNCHANGED <<page, calls, rows, cache, calm, past, clicks>>

(* The tiles and charts of the summary, once the session is there; their   *)
(* numbers: the close result, or an estimate; the chart of the responses.  *)
StatTiles == page.route = "summary" /\ summary.query = "data"
isEstimated == ~summary.cached.closed
ThetaHistory == summary.total
totalQuestions == IF isEstimated THEN summary.total ELSE summary.cached.total

-----------------------------------------------------------------------------
Init ==
  /\ page = [route |-> "practice", state |-> INITIAL_STATE]
  /\ summary = NoSummary
  /\ calls = [c \in Slots |-> Free]
  /\ rows = [s \in Sessions |-> NoRow]
  /\ cache = [s \in Sessions |-> NotClosed]
  /\ calm = TRUE /\ past = NoPast /\ clicks = 0 /\ faults = 0

Progress(c) == executeCode(c) \/ pollVerdict(c) \/ Serve(c) \/ Finish(c) \/ Deliver(c)

Next ==
  \/ \E c \in Slots : startSession(c) \/ submitAnswer(c) \/ skip(c) \/ endSession(c)
                        \/ Progress(c) \/ Unread(c) \/ Spare(c) \/ Lose(c)
  \/ Sweep \/ advanceToNext \/ setCode \/ Closed \/ Recent \/ Leave \/ Enter \/ SessionQuery

(* The browser and the server answer every request in the end.             *)
Fairness == WF_vars(\E c \in Slots : Progress(c))
Spec == Init /\ [][Next]_vars /\ Fairness

-----------------------------------------------------------------------------
(* Properties *)

(* While no two requests overlapped and no answer was lost, no close       *)
(* failed, no session came back without its problem and none was swept, a  *)
(* page that waits for nothing shows what the server has: the current      *)
(* problem, the question count (0 until the first answer after a session   *)
(* is resumed), a verdict on the problem it shows, code for it.            *)
InStep ==
  LET st == page.state
      row == rows[st.session]
  IN  calm /\ Busy(calls) = {} /\ Workspace =>
        /\ row.status = "ACTIVE" /\ QuestionShown \in {0, row.count}
        /\ ~VerdictPanel => ProblemShown = row.current
        /\ VerdictPanel => st.result = [problem |-> ProblemShown, next |-> row.current, count |-> row.count]
        /\ st.phase = "exhausted" <=> ProblemShown = NoProblem
        /\ st.code \in {NoProblem, ProblemShown}

(* Whatever overlaps, fails, is lost or swept: a close result is of a      *)
(* session that has ended, or that Close failed to abandon; it counts the  *)
(* responses of that session, but for those recorded after a Close had     *)
(* read it, and so do the tiles of a summary, beside its charts.  A page   *)
(* that says its session is closed has a close result of it, unless two    *)
(* Closes of one session were both accepted.                               *)
ClosedIsClosed ==
  /\ \A s \in Sessions : cache[s].closed =>
       /\ rows[s].status \in {"COMPLETED", "ABANDONED"} \/ s \in past.spared
       /\ cache[s].total <= rows[s].count
       /\ s \notin past.late => cache[s].total = rows[s].count
  /\ StatTiles /\ summary.session \notin past.late => totalQuestions = ThetaHistory
  /\ past.twice = {} /\ page.state.phase = "closed" => cache[page.state.session].closed

(* No phase that waits for an answer lasts.                                *)
Waiting == isBusy \/ Judge0Wait \/ page.state.phase = "closing"
WaitingEnds == Waiting ~> ~Waiting
=============================================================================
