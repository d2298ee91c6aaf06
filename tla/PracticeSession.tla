--------------------------- MODULE PracticeSession ---------------------------
(***************************************************************************)
(* The practice engine of the backend: PracticeService (Start, Submit,     *)
(* Skip, Close), the rows it keeps in PostgreSQL and the stale-session     *)
(* sweeper.                                                                *)
(*                                                                         *)
(* An HTTP request is a goroutine.  Each of its actions is one statement   *)
(* against the database, with the pure computation that precedes it; what  *)
(* the handler read earlier is kept in `calls`, so that a request acts on  *)
(* the row as it WAS when it was loaded.  No handler opens a transaction.  *)
(*                                                                         *)
(* Abstractions.  Ability (theta) is a small ordinal: only its direction   *)
(* and its clamps matter.  `profile` stands for the psychometric document  *)
(* users.dna through its TotalSessions counter.  A session's scope is the  *)
(* same constant set for every session.  Scores choose the next problem    *)
(* among the candidates, so the choice is free here.                       *)
(***************************************************************************)
EXTENDS Naturals, Sequences, FiniteSets

CONSTANTS
  Users,             \* identities the middleware may attach to a request
  Dev,               \* "dev-user-001", the identity of an anonymous request
  Requests,          \* request goroutines
  Sessions,          \* identifiers generateID may hand out
  Problems,
  Topics,
  TopicOf,           \* the topic of a problem
  ScopeTopics,       \* topics of a session's scope
  Scope,             \* problems the whole scope (topics, sources, ratings) selects
  Modes,             \* the session modes a client asks for
  MaxTheta,          \* theta lies in 0..MaxTheta
  RemediationStreak, \* consecutive failures that trigger remediation
  AnalysisLimit,     \* error-analysis jobs allowed per user and problem
  OneTab,            \* TRUE: a user waits for an answer before the next request
  Failures,          \* TRUE: a statement may fail, a request may be cut short
  MaxRequests,       \* bound on the requests of a behaviour
  Nobody, NoSession, NoProblem

ASSUME ConstantsAssumption ==
  /\ IsFiniteSet(Requests) /\ IsFiniteSet(Sessions)
  /\ TopicOf \in [Problems -> Topics]
  /\ ScopeTopics \subseteq Topics
  /\ Scope \subseteq {p \in Problems : ScopeTopics # {} => TopicOf[p] \in ScopeTopics}
  /\ Modes \subseteq {"ADAPTIVE", "REGULAR"}
  /\ MaxTheta \in Nat
  /\ RemediationStreak \in Nat \ {0}
  /\ AnalysisLimit \in Nat
  /\ OneTab \in BOOLEAN /\ Failures \in BOOLEAN
  /\ MaxRequests \in Nat
  /\ Nobody \notin Users \cup {Dev}
  /\ NoSession \notin Sessions
  /\ NoProblem \notin Problems

VARIABLES
  sessions,          \* practice_sessions, by identifier
  attempts,          \* user_problem_stats.attempt_count
  topicStats,        \* topic_stats.attempt_count
  profile,           \* users.dna, as its TotalSessions counter
  analysisJobs,      \* error_analysis jobs pushed to jobs:llm
  regenerations,     \* roadmap_regenerate jobs pushed, each with its roadmap.updated event
  calls,             \* the request goroutines
  issued             \* requests issued so far

learner == <<attempts, topicStats, profile, analysisJobs, regenerations>>
stores == <<sessions, learner>>
vars == <<stores, calls, issued>>

-----------------------------------------------------------------------------
(* Data *)

Theta == 0 .. MaxTheta
Outcome == {"correct", "wrong", "skipped"}
Status == {"NONE", "ACTIVE", "COMPLETED", "ABANDONED"}   \* NONE: no such row yet
MaybeProblem == Problems \cup {NoProblem}

Response == [problem : Problems, by : Users, outcome : Outcome,
             before : Theta, after : Theta, number : Nat]

Row == [owner : Users \cup {Nobody}, mode : {"ADAPTIVE", "REGULAR"}, status : Status, start : Theta,
        theta : Theta, current : MaybeProblem, responses : Seq(Response),
        count : Nat, fresh : BOOLEAN]

NoRow == [owner |-> Nobody, mode |-> "ADAPTIVE", status |-> "NONE", start |-> 0,
          theta |-> 0, current |-> NoProblem, responses |-> << >>, count |-> 0, fresh |-> TRUE]

Step == {"idle", "create", "claim", "verdict", "remediate", "record", "append",
         "skip", "abandon", "tally", "profile", "stats", "finish"}

Call == [step : Step, op : {"none", "start", "submit", "skip", "close"},
         user : Users \cup {Nobody}, sess : Sessions \cup {NoSession},
         prob : MaybeProblem, row : Row, outcome : Outcome, after : Theta,
         next : MaybeProblem, dna : Nat, base : [Topics -> Nat], todo : SUBSET Topics]

Idle == [step |-> "idle", op |-> "none", user |-> Nobody, sess |-> NoSession,
         prob |-> NoProblem, row |-> NoRow, outcome |-> "skipped", after |-> 0,
         next |-> NoProblem, dna |-> 0, base |-> [t \in Topics |-> 0], todo |-> {}]

(* ComputeThetaUpdate: a correct answer raises theta and a wrong one lowers
   it, by an amount that depends on ratings and times, within the clamps. *)
ThetaOutcomes(before, correct) ==
  {t \in Theta : IF correct THEN t > before \/ (t = before /\ t = MaxTheta)
                            ELSE t < before \/ (t = before /\ t = 0)}

StreakThroughSkips(rs) ==            \* mutant: a skip does not break the run
  1 + Cardinality({i \in DOMAIN rs : \A j \in i .. Len(rs) : rs[j].outcome # "correct"})

(* ComputeStreaks for a wrong answer that follows the responses rs. *)
ConsecutiveWrong(rs) ==
  1 + Cardinality({i \in DOMAIN rs : \A j \in i .. Len(rs) : rs[j].outcome = "wrong"})

Answered(rs) == {rs[i].problem : i \in DOMAIN rs}

(* The candidate cascade of Submit and Skip: unseen in scope, else in scope,
   else in the scope's topics, else anywhere.  Every query's error is ignored. *)
NextChoices(p, rs) ==
  LET unseen    == Scope \ (Answered(rs) \cup {p})
      inTopics  == {q \in Problems : TopicOf[q] \in ScopeTopics}
      levels    == <<unseen, Scope \ {p}, inTopics \ {p}, Problems \ {p}>>
      nonEmpty  == {i \in DOMAIN levels : levels[i] # {}}
  IN  (IF nonEmpty = {} THEN {NoProblem}
       ELSE levels[CHOOSE i \in nonEmpty : \A j \in nonEmpty : i <= j])
      \cup (IF Failures THEN (Problems \ {p}) \cup {NoProblem} ELSE {})

SimilarWithSeen(p, row) ==           \* mutant: neighbours are not filtered
  {q \in Problems \ {p} : row.mode = "ADAPTIVE" /\ TopicOf[q] = TopicOf[p]}

(* FindSimilar looks for neighbours of the same topic, whatever the rest of
   the scope says; an ADAPTIVE session consults it after a wrong answer. *)
SimilarChoices(p, row) ==
  {q \in Problems \ (Answered(row.responses) \cup {p}) :
     row.mode = "ADAPTIVE" /\ TopicOf[q] = TopicOf[p]}

NoUniqueIndex(rows) == TRUE        \* mutant: sessions_user_active_idx is not unique

(* The partial unique index sessions_user_active_idx. *)
IndexHolds(rows) ==
  \A s1, s2 \in Sessions :
    /\ rows[s1].status = "ACTIVE" /\ rows[s2].status = "ACTIVE"
    /\ rows[s1].owner = rows[s2].owner
    => s1 = s2

(* checkAndClaimSession *)
NeedsClaim(row, u) == row.owner = Dev /\ u # Dev
MayAct(row, u) == row.owner = u \/ NeedsClaim(row, u) \/ u = Dev

-----------------------------------------------------------------------------
(* Requests *)

Init ==
  /\ sessions = [s \in Sessions |-> NoRow]
  /\ attempts = [u \in Users |-> [p \in Problems |-> 0]]
  /\ topicStats = [u \in Users |-> [t \in Topics |-> 0]]
  /\ profile = [u \in Users |-> 0]
  /\ analysisJobs = [u \in Users |-> [p \in Problems |-> 0]]
  /\ regenerations = [u \in Users |-> 0]
  /\ calls = [r \in Requests |-> Idle]
  /\ issued = 0

At(r, step) == calls[r].step = step
Become(r, c) == calls' = [calls EXCEPT ![r] = c]
Goto(r, step) == Become(r, [calls[r] EXCEPT !.step = step])
Return(r) == Become(r, Idle)

Issue(r, u) ==
  /\ At(r, "idle")
  /\ OneTab => \A q \in Requests : calls[q].user # u
  /\ issued < MaxRequests
  /\ issued' = issued + 1
  /\ UNCHANGED stores

(* The step a handler takes once its session is loaded and claimed. *)
FirstStep(op, row) ==
  IF op = "submit" THEN "verdict"
  ELSE IF op = "skip" THEN "skip"
  ELSE IF row.responses = << >> THEN "abandon" ELSE "tally"

(* Load the session and check ownership.  A request that the code rejects
   without touching anything is not a step. *)
Load(r, op, u, s, p) ==
  LET row == sessions[s]
      claim == NeedsClaim(row, u)
  IN  /\ row.status # "NONE"
      /\ MayAct(row, u)
      /\ row.status = "ACTIVE" \/ (claim /\ op # "skip")  \* Skip checks the status first
      /\ Become(r, [Idle EXCEPT
                      !.step = IF claim THEN "claim" ELSE FirstStep(op, row),
                      !.op = op, !.user = u, !.sess = s, !.prob = p,
                      !.row = [row EXCEPT !.owner = IF claim THEN u ELSE @]])

(* RebindUser for a session of the anonymous user; its error is ignored, and
   the unique index makes it fail when the user already has an ACTIVE session. *)
ClaimSession(r) ==
  LET c == calls[r]
      rows == [sessions EXCEPT ![c.sess].owner = c.user, ![c.sess].fresh = TRUE]
  IN  /\ At(r, "claim")
      /\ \/ IndexHolds(rows) /\ sessions' = rows
         \/ (Failures \/ ~IndexHolds(rows)) /\ UNCHANGED sessions
      /\ Become(r, IF c.row.status = "ACTIVE"
                     THEN [c EXCEPT !.step = FirstStep(c.op, c.row)] ELSE Idle)
      /\ UNCHANGED <<learner, issued>>

-----------------------------------------------------------------------------
(* Start *)

(* First problem: unseen ones of the scope if any, in either mode.  The attempt counts come
   through the "seen:" cache, exact only when nothing races or fails. *)
FirstChoices(u) ==
  LET pool   == IF Scope # {} THEN Scope
                ELSE {q \in Problems : TopicOf[q] \in ScopeTopics}
      unseen == {q \in pool : attempts[u][q] = 0}
  IN  IF unseen # {} /\ OneTab /\ ~Failures THEN unseen ELSE pool

(* An ACTIVE session is resumed, which changes nothing; otherwise the handler
   goes on to pick a problem and an identifier. *)
StartLoad(r, u, s) ==
  /\ Issue(r, u)
  /\ \A x \in Sessions : ~(sessions[x].status = "ACTIVE" /\ sessions[x].owner = u)
  /\ sessions[s].status = "NONE" /\ \A q \in Requests : calls[q].sess # s
  /\ \E p \in FirstChoices(u) :
       Become(r, [Idle EXCEPT !.step = "create", !.op = "start", !.user = u,
                              !.sess = s, !.next = p])

(* theta is what topic_stats or users held for the user. *)
StartCreate(r) ==
  /\ At(r, "create")
  /\ \E t \in Theta, m \in Modes :
       LET c == calls[r]
           rows == [sessions EXCEPT ![c.sess] =
                      [NoRow EXCEPT !.owner = c.user, !.mode = m, !.status = "ACTIVE",
                                    !.start = t, !.theta = t, !.current = c.next]]
       IN  sessions' = IF IndexHolds(rows) THEN rows ELSE sessions
  /\ Return(r)
  /\ UNCHANGED <<learner, issued>>

-----------------------------------------------------------------------------
(* Submit and Skip *)

SubmitLoad(r, u, s, p) == Issue(r, u) /\ Load(r, "submit", u, s, p)

(* The verdict, the new theta and the next problem are computed from the row
   as it was loaded; the DNA is read here and written back by Remediate. *)
SubmitVerdict(r) ==
  LET c == calls[r] IN
  /\ At(r, "verdict")
  /\ \E ok \in BOOLEAN :
       \E t \in ThetaOutcomes(c.row.theta, ok),
          q \in NextChoices(c.prob, c.row.responses)
                  \cup (IF ok THEN {} ELSE SimilarChoices(c.prob, c.row)) :
         Become(r, [c EXCEPT !.step = IF ok THEN "record" ELSE "remediate",
                             !.outcome = IF ok THEN "correct" ELSE "wrong",
                             !.after = t, !.next = q, !.dna = profile[c.user]])
  /\ UNCHANGED <<stores, issued>>

(* What a write whose error the handler ignores may leave behind. *)
BestEffort(old, new) == {new} \cup (IF Failures THEN {old} ELSE {})

(* After a wrong answer: an error-analysis job within the limit, and from
   RemediationStreak failures on, the loaded DNA is written back and a
   regeneration is requested.  The errors of these writes are ignored. *)
Remediate(r) ==
  LET c == calls[r] IN
  /\ At(r, "remediate")
  /\ IF analysisJobs[c.user][c.prob] < AnalysisLimit
       THEN analysisJobs' \in BestEffort(analysisJobs,
                                [analysisJobs EXCEPT ![c.user][c.prob] = @ + 1])
       ELSE UNCHANGED analysisJobs
  /\ IF ConsecutiveWrong(c.row.responses) >= RemediationStreak
       THEN /\ regenerations' \in BestEffort(regenerations,
                                     [regenerations EXCEPT ![c.user] = @ + 1])
            /\ profile' \in BestEffort(profile, [profile EXCEPT ![c.user] = c.dna])
       ELSE UNCHANGED <<regenerations, profile>>
  /\ Goto(r, "record")
  /\ UNCHANGED <<sessions, attempts, topicStats, issued>>

RecordFirstOnly(r) ==                \* mutant: ON CONFLICT DO NOTHING
  LET c == calls[r] IN
  /\ At(r, "record")
  /\ attempts' = [attempts EXCEPT ![c.user][c.prob] = 1]
  /\ Goto(r, "append")
  /\ UNCHANGED <<sessions, topicStats, profile, analysisJobs, regenerations, issued>>

(* RecordAttempt: one upsert of user_problem_stats. *)
RecordAttempt(r) ==
  LET c == calls[r] IN
  /\ At(r, "record")
  /\ attempts' = [attempts EXCEPT ![c.user][c.prob] = @ + 1]
  /\ Goto(r, "append")
  /\ UNCHANGED <<sessions, topicStats, profile, analysisJobs, regenerations, issued>>

AppendLoadedCount(s, resp, next) ==  \* mutant: stores the count computed by the handler
  sessions' = [sessions EXCEPT ![s].responses = Append(@, resp), ![s].count = resp.number,
                               ![s].theta = resp.after, ![s].current = next, ![s].fresh = TRUE]

AppendToLoaded(s, resp, next) ==     \* mutant: writes back the loaded list plus one
  sessions' = [sessions EXCEPT ![s].responses = Append(SubSeq(@, 1, resp.number - 1), resp),
                               ![s].count = resp.number, ![s].theta = resp.after,
                               ![s].current = next, ![s].fresh = TRUE]

(* AppendResponse is one UPDATE with no condition on the status. *)
AppendResponse(s, resp, next) ==
  sessions' = [sessions EXCEPT ![s].responses = Append(@, resp),
                               ![s].count = @ + 1,
                               ![s].theta = resp.after,
                               ![s].current = next,
                               ![s].fresh = TRUE]

NumberedFromZero(c, outcome, after) == \* mutant: the loaded count, not the next one
  [problem |-> c.prob, by |-> c.user, outcome |-> outcome,
   before |-> c.row.theta, after |-> after, number |-> c.row.count]

(* The SessionResponse record, from the row as it was loaded. *)
ResponseOf(c, outcome, after) ==
  [problem |-> c.prob, by |-> c.user, outcome |-> outcome,
   before |-> c.row.theta, after |-> after, number |-> c.row.count + 1]

SubmitAppend(r) ==
  LET c == calls[r] IN
  /\ At(r, "append")
  /\ AppendResponse(c.sess, ResponseOf(c, c.outcome, c.after), c.next)
  /\ Return(r)
  /\ UNCHANGED <<learner, issued>>

SkipLoad(r, u, s, p) == Issue(r, u) /\ Load(r, "skip", u, s, p)

(* Skip writes back the theta it loaded. *)
SkipAppend(r) ==
  LET c == calls[r] IN
  /\ At(r, "skip")
  /\ \E q \in NextChoices(c.prob, c.row.responses) :
       AppendResponse(c.sess, ResponseOf(c, "skipped", c.row.theta), q)
  /\ Return(r)
  /\ UNCHANGED <<learner, issued>>

-----------------------------------------------------------------------------
(* Close *)

CloseLoad(r, u, s) == Issue(r, u) /\ Load(r, "close", u, s, NoProblem)

(* No response was loaded: the session is abandoned. *)
CloseAbandon(r) ==
  /\ At(r, "abandon")
  /\ sessions' = [sessions EXCEPT ![calls[r].sess].status = "ABANDONED",
                                  ![calls[r].sess].fresh = TRUE]
  /\ Return(r)
  /\ UNCHANGED <<learner, issued>>

OnTopic(rs, t) == {i \in DOMAIN rs : TopicOf[rs[i].problem] = t}

(* Read the user and the existing statistics of every topic answered. *)
CloseTally(r) ==
  LET c == calls[r] IN
  /\ At(r, "tally")
  /\ Become(r, [c EXCEPT !.step = "profile",
                         !.dna = profile[c.user],
                         !.base = topicStats[c.user],
                         !.todo = {t \in Topics : OnTopic(c.row.responses, t) # {}}])
  /\ UNCHANGED <<stores, issued>>

(* UpdatePsychometrics *)
CloseProfile(r) ==
  LET c == calls[r] IN
  /\ At(r, "profile")
  /\ profile' = [profile EXCEPT ![c.user] = c.dna + 1]
  /\ Goto(r, "stats")
  /\ UNCHANGED <<sessions, attempts, topicStats, analysisJobs, regenerations, issued>>

TotalWithoutBase(c, t) ==            \* mutant: the upsert replaces the count
  Cardinality(OnTopic(c.row.responses, t))

NewTotal(c, t) == c.base[t] + Cardinality(OnTopic(c.row.responses, t))

(* One Upsert per topic, in the order of a Go map. *)
CloseStats(r, t) ==
  LET c == calls[r] IN
  /\ At(r, "stats")
  /\ t \in c.todo
  /\ topicStats' = [topicStats EXCEPT ![c.user][t] = NewTotal(c, t)]
  /\ Become(r, [c EXCEPT !.todo = @ \ {t},
                         !.step = IF c.todo = {t} THEN "finish" ELSE @])
  /\ UNCHANGED <<sessions, attempts, profile, analysisJobs, regenerations, issued>>

(* CloseSession *)
CloseFinish(r) ==
  LET c == calls[r] IN
  /\ At(r, "finish")
  /\ sessions' = [sessions EXCEPT ![c.sess].status = "COMPLETED",
                                  ![c.sess].theta = c.row.theta,
                                  ![c.sess].fresh = TRUE]
  /\ Return(r)
  /\ UNCHANGED <<learner, issued>>

-----------------------------------------------------------------------------
(* The environment and the sweeper *)

(* A statement fails, or the request's context ends: the handler returns. *)
RequestFails(r) ==
  /\ Failures
  /\ ~At(r, "idle")
  /\ Return(r)
  /\ UNCHANGED <<stores, issued>>

StaleUnanswered(s) ==                \* mutant: sweeps only sessions nobody answered in
  sessions[s].status = "ACTIVE" /\ ~sessions[s].fresh /\ sessions[s].count = 0

Stale(s) == sessions[s].status = "ACTIVE" /\ ~sessions[s].fresh

(* Four hours pass without an update of the row. *)
GrowStale(s) ==
  /\ sessions[s].status = "ACTIVE" /\ sessions[s].fresh
  /\ sessions' = [sessions EXCEPT ![s].fresh = FALSE]
  /\ UNCHANGED <<learner, calls, issued>>

CleanupStale ==
  /\ \E s \in Sessions : Stale(s)
  /\ sessions' = [s \in Sessions |->
                    IF Stale(s) THEN [sessions[s] EXCEPT !.status = "ABANDONED", !.fresh = TRUE]
                                ELSE sessions[s]]
  /\ UNCHANGED <<learner, calls, issued>>

(* A bound is used up (requests, or session identifiers) and no handler is
   running: the only states in which a behaviour may rest. *)
Quiescent ==
  /\ issued = MaxRequests \/ \A s \in Sessions : sessions[s].status # "NONE"
  /\ \A r \in Requests : At(r, "idle")
  /\ UNCHANGED vars

Proceed(r) ==
  \/ ClaimSession(r) \/ StartCreate(r)
  \/ SubmitVerdict(r) \/ Remediate(r) \/ RecordAttempt(r) \/ SubmitAppend(r)
  \/ SkipAppend(r)
  \/ CloseAbandon(r) \/ CloseTally(r) \/ CloseProfile(r) \/ CloseFinish(r)
  \/ \E t \in Topics : CloseStats(r, t)

Arrive(r) ==
  \E u \in Users, s \in Sessions :
    \/ StartLoad(r, u, s)
    \/ CloseLoad(r, u, s)
    \/ \E p \in Problems : SubmitLoad(r, u, s, p) \/ SkipLoad(r, u, s, p)

Next ==
  \/ \E r \in Requests : Arrive(r) \/ Proceed(r) \/ RequestFails(r)
  \/ \E s \in Sessions : GrowStale(s)
  \/ CleanupStale
  \/ Quiescent

(* The sweeper is a ticker of the server. *)
Fairness == WF_vars(CleanupStale)

Spec == Init /\ [][Next]_vars
FairSpec == Spec /\ Fairness

-----------------------------------------------------------------------------
(* Invariants of any interleaving *)

TypeOK ==
  /\ sessions \in [Sessions -> Row]
  /\ attempts \in [Users -> [Problems -> Nat]]
  /\ topicStats \in [Users -> [Topics -> Nat]]
  /\ profile \in [Users -> Nat]
  /\ analysisJobs \in [Users -> [Problems -> 0 .. AnalysisLimit]]
  /\ regenerations \in [Users -> Nat]
  /\ calls \in [Requests -> Call]
  /\ issued \in 0 .. MaxRequests

(* No user ever owns two ACTIVE sessions, although Start checks and inserts
   in two statements and a claim moves a session between users
   (practice_session.go 126-257, 1343-1357). *)
OneActivePerUser ==
  \A s1, s2 \in Sessions : s1 # s2 /\ sessions[s1].owner = sessions[s2].owner =>
    ~(sessions[s1].status = "ACTIVE" /\ sessions[s2].status = "ACTIVE")

(* question_count always equals the number of stored responses, although
   both are changed by requests that loaded an older row. *)
QuestionCountMatches ==
  \A s \in Sessions : sessions[s].count = Len(sessions[s].responses)

LastTheta(row) ==
  IF row.responses = << >> THEN row.start ELSE row.responses[Len(row.responses)].after

(* While a session is ACTIVE its theta is the one its last stored response
   ended with: concurrent Submits and Skips overwrite both together. *)
ActiveThetaIsLast ==
  \A s \in Sessions : sessions[s].status = "ACTIVE" => sessions[s].theta = LastTheta(sessions[s])

(* The columns a session keeps next to its history summarise that history:
   the counter and the ability are written by the UPDATE that appends the
   response, from values the handler computed on an older row
   (session_repo.go 97-124). *)
RowSummarisesHistory == QuestionCountMatches /\ ActiveThetaIsLast

(* The stored responses to p that were graded for u, over all sessions. *)
Graded(u, p) ==
  UNION {{<<s, i>> : i \in {j \in DOMAIN sessions[s].responses :
                              LET resp == sessions[s].responses[j]
                              IN  resp.by = u /\ resp.problem = p /\ resp.outcome # "skipped"}}
         : s \in Sessions}

AboutToAppend(u, p) ==
  {r \in Requests : At(r, "append") /\ calls[r].user = u /\ calls[r].prob = p}

(* The attempt table never lags behind the session history: each graded
   response, and each Submit between its two writes, was counted.  Without
   failures the two agree exactly (practice_session.go 643-652). *)
AttemptsCoverResponses ==
  \A u \in Users, p \in Problems :
    LET answered == Cardinality(Graded(u, p)) + Cardinality(AboutToAppend(u, p))
    IN  attempts[u][p] >= answered /\ (~Failures => attempts[u][p] = answered)

(* A stored response is never lost, rewritten or reordered by a racing write. *)
ResponsesOnlyGrow ==
  [][\A s \in Sessions : \A i \in DOMAIN sessions[s].responses :
       /\ i \in DOMAIN sessions'[s].responses
       /\ sessions'[s].responses[i] = sessions[s].responses[i]]_vars

(* Whatever races, a session that has been COMPLETED or ABANDONED never
   becomes ACTIVE again, so its user can start a new one. *)
NoReactivation ==
  [][\A s \in Sessions : sessions[s].status \in {"COMPLETED", "ABANDONED"} =>
                            sessions'[s].status \in {"COMPLETED", "ABANDONED"}]_vars

(* What a session has recorded, its responses and its end, no request that
   loaded it earlier can undo (practice_session.go 414, 652). *)
RecordsAreFinal == ResponsesOnlyGrow /\ NoReactivation

-----------------------------------------------------------------------------
(* What else holds when a user waits for each answer (OneTab) *)

(* The stored history is a chain: each response starts from the ability the
   one before it ended with and is numbered by its place, whatever fails and
   whenever the sweeper runs (practice_session.go 437, 545-568, 792-815). *)
HistoryIsChain ==
  \A s \in Sessions : \A i \in DOMAIN sessions[s].responses :
    LET rs == sessions[s].responses
    IN  /\ rs[i].number = i
        /\ rs[i].before = IF i = 1 THEN sessions[s].start ELSE rs[i - 1].after

Resting(u) == \A r \in Requests : calls[r].user # u

Completed(u) == {s \in Sessions : sessions[s].status = "COMPLETED" /\ sessions[s].owner = u}

(* Between requests and without failures, the profile and the topic
   statistics count every COMPLETED session, each once, and nothing of an
   ABANDONED one (practice_session.go 968-1032). *)
LedgerMatchesSessions ==
  \A u \in Users : Resting(u) =>
    /\ profile[u] = Cardinality(Completed(u))
    /\ \A t \in Topics :
         topicStats[u][t] =
           Cardinality(UNION {{<<s, i>> : i \in OnTopic(sessions[s].responses, t)}
                              : s \in Completed(u)})

(* The responses that end a run of at least RemediationStreak failures. The
   code looks back over the whole session, whatever the topics (384-407), where
   plan_backend.md 303 asks for failures "on the same topic". *)
StreakEnds(u) ==
  UNION {{<<s, i>> : i \in {j \in DOMAIN sessions[s].responses :
            /\ j >= RemediationStreak
            /\ \A k \in (j - RemediationStreak + 1) .. j :
                 sessions[s].responses[k].outcome = "wrong"}}
         : s \in {x \in Sessions : sessions[x].owner = u}}

(* Between requests and without failures, one regeneration was requested, with
   its one roadmap.updated, for every response that extends a run of failures to
   the streak or beyond, and none otherwise: skips and correct answers break the
   run (609-639). "Exactly one" (line 632, plan_backend.md 304) is thus one per
   such failure: a run longer than the streak asks again with each. *)
RemediationMatchesHistory ==
  \A u \in Users : Resting(u) => regenerations[u] = Cardinality(StreakEnds(u))

(* Without failures, a session offers a problem it already has a response to
   only when every problem of its scope has one (460-527, 726-775). *)
FreshUntilExhausted ==
  \A s \in Sessions :
    LET answered == Answered(sessions[s].responses)
    IN  sessions[s].current \in answered => Scope \subseteq answered

-----------------------------------------------------------------------------
(* Liveness, under FairSpec *)

(* A session nobody touches for four hours does not keep its user from
   starting another: it is swept unless a late request revives it. *)
StaleSessionsEnd ==
  \A s \in Sessions : sessions[s].status = "ACTIVE" /\ ~sessions[s].fresh
                          ~> sessions[s].status # "ACTIVE" \/ sessions[s].fresh
=============================================================================
