---------------------- MODULE PracticeSessionProofs ----------------------
(***************************************************************************)
(* What holds of the practice engine for any users, requests, sessions and *)
(* problems, however the requests interleave and whatever fails (IInv,     *)
(* CoverInv); and for users who wait for each answer, the history, the     *)
(* choice of problems and the counters kept beside it (InTurn,             *)
(* FreshPending, LedgerInv, RemedyInv).                                    *)
(***************************************************************************)
EXTENDS PracticeSession, TLAPS, FiniteSetTheorems, SequenceTheorems

(* What a running request knows: its user and session are real ones, and a
   step that answers a problem carries the problem. *)
CallsOK ==
  \A r \in Requests :
    /\ calls[r].step # "idle" => calls[r].user \in Users /\ calls[r].sess \in Sessions
    /\ calls[r].op \in {"submit", "skip"} => calls[r].prob \in Problems
    /\ calls[r].step \in {"verdict", "remediate", "record", "append"} => calls[r].op = "submit"
    /\ calls[r].step = "skip" => calls[r].op = "skip"

TypeInv == TypeOK /\ CallsOK

-----------------------------------------------------------------------------
(* Lemmas about the operators *)

LEMMA NoRowType == NoRow \in Row
  <1>1. << >> \in Seq(Response)
    OBVIOUS
  <1>2. 0 \in Theta
    BY ConstantsAssumption DEF Theta
  <1> QED BY <1>1, <1>2 DEF NoRow, Row, MaybeProblem, Status

LEMMA IdleType == Idle \in Call
  <1>1. 0 \in Theta
    BY ConstantsAssumption DEF Theta
  <1> QED BY <1>1, NoRowType DEF Idle, Call, Step, Outcome, MaybeProblem

LEMMA FirstOfFour ==
  ASSUME NEW S, S \subseteq 1 .. 4, S # {}
  PROVE  \E i \in S : \A j \in S : i <= j
  <1>1. CASE 1 \in S
    BY <1>1
  <1>2. CASE 1 \notin S /\ 2 \in S
    BY <1>2
  <1>3. CASE 1 \notin S /\ 2 \notin S /\ 3 \in S
    BY <1>3
  <1>4. CASE 1 \notin S /\ 2 \notin S /\ 3 \notin S
    <2>1. ASSUME NEW x \in S PROVE x = 4
      <3>1. x # 1 /\ x # 2 /\ x # 3
        BY <1>4
      <3>2. x \in 1 .. 4
        OBVIOUS
      <3> QED BY <3>1, <3>2
    <2>2. 4 \in S
      BY <2>1
    <2> QED BY <2>1, <2>2
  <1> QED BY <1>1, <1>2, <1>3, <1>4

LEMMA NextChoicesType ==
  ASSUME NEW p, NEW rs
  PROVE  NextChoices(p, rs) \subseteq MaybeProblem
  <1> DEFINE unseen == Scope \ (Answered(rs) \cup {p})
             inTopics == {q \in Problems : TopicOf[q] \in ScopeTopics}
             levels == <<unseen, Scope \ {p}, inTopics \ {p}, Problems \ {p}>>
             nonEmpty == {i \in DOMAIN levels : levels[i] # {}}
             first == CHOOSE i \in nonEmpty : \A j \in nonEmpty : i <= j
  <1>1. \A i \in DOMAIN levels : levels[i] \subseteq Problems
    BY ConstantsAssumption
  <1>2. ASSUME nonEmpty # {} PROVE first \in nonEmpty
    <2>1. nonEmpty \subseteq 1 .. 4
      OBVIOUS
    <2> HIDE DEF nonEmpty
    <2>2. \E i \in nonEmpty : \A j \in nonEmpty : i <= j
      BY <1>2, <2>1, FirstOfFour
    <2> QED BY <2>2
  <1>3. nonEmpty # {} => levels[first] \subseteq Problems
    BY <1>1, <1>2
  <1> QED BY <1>3 DEF NextChoices, MaybeProblem

LEMMA SimilarChoicesType ==
  ASSUME NEW p, NEW row
  PROVE  SimilarChoices(p, row) \subseteq MaybeProblem
  BY DEF SimilarChoices, MaybeProblem

LEMMA OnTopicFinite ==
  ASSUME NEW rs \in Seq(Response), NEW t
  PROVE  IsFiniteSet(OnTopic(rs, t)) /\ Cardinality(OnTopic(rs, t)) \in Nat
  <1>1. IsFiniteSet(1 .. Len(rs))
    BY FS_Interval
  <1>2. OnTopic(rs, t) \subseteq 1 .. Len(rs)
    BY DEF OnTopic
  <1> QED BY <1>1, <1>2, FS_Subset, FS_CardinalityType

-----------------------------------------------------------------------------
(* The type invariant *)

LEMMA InitTypeInv == Init => TypeInv
  <1> SUFFICES ASSUME Init PROVE TypeInv
    OBVIOUS
  <1>1. sessions \in [Sessions -> Row]
    BY NoRowType DEF Init
  <1>2. calls \in [Requests -> Call]
    BY IdleType DEF Init
  <1>3. CallsOK
    BY DEF Init, CallsOK, Idle
  <1> QED BY <1>1, <1>2, <1>3, ConstantsAssumption DEF Init, TypeInv, TypeOK

(* Only the caller's own entry of calls changes, so each action is answered
   for by the type of that entry. *)
LEMMA BecomeOK ==
  ASSUME NEW r \in Requests, TypeInv, NEW c \in Call, Become(r, c),
         c.step # "idle" => c.user \in Users /\ c.sess \in Sessions,
         c.op \in {"submit", "skip"} => c.prob \in Problems,
         c.step \in {"verdict", "remediate", "record", "append"} => c.op = "submit",
         c.step = "skip" => c.op = "skip"
  PROVE  calls' \in [Requests -> Call] /\ CallsOK'
  BY DEF TypeInv, TypeOK, CallsOK, Become

LEMMA ReturnOK ==
  ASSUME NEW r \in Requests, TypeInv, Return(r)
  PROVE  calls' \in [Requests -> Call] /\ CallsOK'
  BY IdleType, BecomeOK DEF Return, Idle

LEMMA GotoOK ==
  ASSUME NEW r \in Requests, TypeInv, NEW step, Goto(r, step),
         \/ step \in {"record", "append"} /\ calls[r].op = "submit"
         \/ step \in {"stats"},
         calls[r].step # "idle"
  PROVE  calls' \in [Requests -> Call] /\ CallsOK'
  <1> DEFINE c == [calls[r] EXCEPT !.step = step]
  <1>1. calls[r] \in Call
    BY DEF TypeInv, TypeOK
  <1>2. c \in Call /\ c.step = step /\ c.user = calls[r].user /\ c.sess = calls[r].sess
        /\ c.op = calls[r].op /\ c.prob = calls[r].prob
    BY <1>1 DEF Call, Step
  <1> QED BY <1>2, BecomeOK DEF Goto, TypeInv, CallsOK

LEMMA LoadOK ==
  ASSUME NEW r \in Requests, NEW op \in {"submit", "skip", "close"}, NEW u \in Users,
         NEW s \in Sessions, NEW p \in MaybeProblem, op # "close" => p \in Problems,
         TypeInv, Issue(r, u), Load(r, op, u, s, p)
  PROVE  TypeInv'
  <1> DEFINE row == sessions[s]
             claimed == [row EXCEPT !.owner = IF NeedsClaim(row, u) THEN u ELSE @]
             first == IF NeedsClaim(row, u) THEN "claim" ELSE FirstStep(op, row)
             c == [Idle EXCEPT !.step = first, !.op = op, !.user = u, !.sess = s,
                               !.prob = p, !.row = claimed]
  <1>1. claimed \in Row
    BY DEF TypeInv, TypeOK, Row
  <1>2. /\ first \in {"claim", "verdict", "skip", "abandon", "tally"}
        /\ first = "verdict" => op = "submit"
        /\ first = "skip" => op = "skip"
    BY DEF FirstStep
  <1> HIDE DEF claimed, first
  <1>3. c \in Call
    BY <1>1, <1>2, IdleType DEF Call, Step
  <1>4. c.step = first /\ c.op = op /\ c.user = u /\ c.sess = s /\ c.prob = p
    BY DEF Idle
  <1>5. Become(r, c)
    BY DEF Load, claimed, first
  <1> HIDE DEF c
  <1>6. calls' \in [Requests -> Call] /\ CallsOK'
    BY <1>2, <1>3, <1>4, <1>5, BecomeOK
  <1> QED BY <1>6, ConstantsAssumption DEF Issue, TypeInv, TypeOK, stores, learner

LEMMA StartLoadOK ==
  ASSUME NEW r \in Requests, NEW u \in Users, NEW s \in Sessions, TypeInv, StartLoad(r, u, s)
  PROVE  TypeInv'
  <1>1. PICK p \in FirstChoices(u) :
          Become(r, [Idle EXCEPT !.step = "create", !.op = "start", !.user = u,
                                 !.sess = s, !.next = p])
    BY DEF StartLoad
  <1> DEFINE c == [Idle EXCEPT !.step = "create", !.op = "start", !.user = u,
                               !.sess = s, !.next = p]
  <1>2. p \in MaybeProblem
    BY ConstantsAssumption DEF FirstChoices, MaybeProblem
  <1>3. c \in Call
    BY <1>2, IdleType DEF Call, Step
  <1>4. c.step = "create" /\ c.op = "start" /\ c.user = u /\ c.sess = s
    BY DEF Idle
  <1> HIDE DEF c
  <1>5. calls' \in [Requests -> Call] /\ CallsOK'
    BY <1>1, <1>3, <1>4, BecomeOK DEF c
  <1> QED BY <1>5, ConstantsAssumption DEF StartLoad, Issue, TypeInv, TypeOK, stores, learner

LEMMA StartCreateOK ==
  ASSUME NEW r \in Requests, TypeInv, StartCreate(r)
  PROVE  TypeInv'
  <1>1. calls[r] \in Call
    BY DEF TypeInv, TypeOK
  <1>2. PICK t \in Theta, m \in Modes :
          LET c == calls[r]
              rows == [sessions EXCEPT ![c.sess] =
                         [NoRow EXCEPT !.owner = c.user, !.mode = m, !.status = "ACTIVE",
                                       !.start = t, !.theta = t, !.current = c.next]]
          IN  sessions' = IF IndexHolds(rows) THEN rows ELSE sessions
    BY DEF StartCreate
  <1> DEFINE new == [NoRow EXCEPT !.owner = calls[r].user, !.mode = m, !.status = "ACTIVE",
                                  !.start = t, !.theta = t, !.current = calls[r].next]
  <1>3. new \in Row
    BY <1>1, NoRowType, ConstantsAssumption DEF Row, Call, Status
  <1>4. sessions' = sessions \/ sessions' = [sessions EXCEPT ![calls[r].sess] = new]
    BY <1>2
  <1> HIDE DEF new
  <1>5. sessions' \in [Sessions -> Row]
    BY <1>3, <1>4 DEF TypeInv, TypeOK
  <1>6. calls' \in [Requests -> Call] /\ CallsOK'
    BY ReturnOK DEF StartCreate
  <1> QED BY <1>5, <1>6 DEF StartCreate, TypeInv, TypeOK, learner

LEMMA ClaimSessionOK ==
  ASSUME NEW r \in Requests, TypeInv, ClaimSession(r)
  PROVE  TypeInv'
  <1> DEFINE c == calls[r]
             d == [c EXCEPT !.step = FirstStep(c.op, c.row)]
  <1>1. c \in Call
    BY DEF TypeInv, TypeOK
  <1>2. sessions' \in [Sessions -> Row]
    <2> DEFINE row == [sessions[c.sess] EXCEPT !.owner = c.user, !.fresh = TRUE]
    <2>1. c.sess \in Sessions /\ c.user \in Users
      BY DEF ClaimSession, At, TypeInv, CallsOK
    <2>2. row \in Row
      <3>1. sessions[c.sess] \in Row
        BY <2>1 DEF TypeInv, TypeOK
      <3> HIDE DEF c
      <3> QED BY <2>1, <3>1 DEF Row
    <2>3. sessions' = sessions \/ sessions' = [sessions EXCEPT ![c.sess] = row]
      BY <2>1 DEF ClaimSession, TypeInv, TypeOK
    <2> HIDE DEF row, c
    <2> QED BY <2>2, <2>3 DEF TypeInv, TypeOK
  <1>3. calls' \in [Requests -> Call] /\ CallsOK'
    <2>1. CASE Become(r, Idle)
      BY <2>1, ReturnOK DEF Return
    <2>2. CASE Become(r, d)
      <3>1. d \in Call
        BY <1>1 DEF Call, Step, FirstStep
      <3>2. d.step = FirstStep(c.op, c.row) /\ d.op = c.op /\ d.user = c.user
            /\ d.sess = c.sess /\ d.prob = c.prob
        BY <1>1 DEF Call
      <3>3. /\ d.step \in {"verdict", "remediate", "record", "append"} => c.op = "submit"
            /\ d.step = "skip" => c.op = "skip"
        BY <3>2 DEF FirstStep
      <3>4. /\ c.user \in Users /\ c.sess \in Sessions
            /\ c.op \in {"submit", "skip"} => c.prob \in Problems
        BY DEF ClaimSession, At, TypeInv, CallsOK
      <3> HIDE DEF c, d
      <3> QED BY <2>2, <3>1, <3>2, <3>3, <3>4, BecomeOK
    <2> QED BY <2>1, <2>2 DEF ClaimSession
  <1> QED BY <1>2, <1>3 DEF ClaimSession, TypeInv, TypeOK, learner

LEMMA SubmitVerdictOK ==
  ASSUME NEW r \in Requests, TypeInv, SubmitVerdict(r)
  PROVE  TypeInv'
  <1> DEFINE c == calls[r]
  <1>1. c \in Call /\ c.op = "submit" /\ c.user \in Users /\ c.sess \in Sessions
        /\ c.prob \in Problems
    BY DEF SubmitVerdict, At, TypeInv, TypeOK, CallsOK
  <1>2. PICK ok \in BOOLEAN : \E t \in ThetaOutcomes(c.row.theta, ok),
          q \in NextChoices(c.prob, c.row.responses)
                  \cup (IF ok THEN {} ELSE SimilarChoices(c.prob, c.row)) :
         Become(r, [c EXCEPT !.step = IF ok THEN "record" ELSE "remediate",
                             !.outcome = IF ok THEN "correct" ELSE "wrong",
                             !.after = t, !.next = q, !.dna = profile[c.user]])
    BY DEF SubmitVerdict
  <1>3. PICK t \in Theta, q \in MaybeProblem :
         Become(r, [c EXCEPT !.step = IF ok THEN "record" ELSE "remediate",
                             !.outcome = IF ok THEN "correct" ELSE "wrong",
                             !.after = t, !.next = q, !.dna = profile[c.user]])
    BY <1>2, NextChoicesType, SimilarChoicesType DEF ThetaOutcomes
  <1> DEFINE d == [c EXCEPT !.step = IF ok THEN "record" ELSE "remediate",
                            !.outcome = IF ok THEN "correct" ELSE "wrong",
                            !.after = t, !.next = q, !.dna = profile[c.user]]
  <1>4. profile[c.user] \in Nat
    BY <1>1 DEF TypeInv, TypeOK
  <1>5. d \in Call
    BY <1>1, <1>4 DEF Call, Step, Outcome
  <1>6. d.step \in {"record", "remediate"} /\ d.op = c.op /\ d.user = c.user /\ d.sess = c.sess
        /\ d.prob = c.prob
    BY <1>1 DEF Call
  <1>7. Become(r, d)
    BY <1>3
  <1> HIDE DEF c, d
  <1>8. calls' \in [Requests -> Call] /\ CallsOK'
    BY <1>1, <1>5, <1>6, <1>7, BecomeOK
  <1> QED BY <1>8 DEF SubmitVerdict, TypeInv, TypeOK, stores, learner

LEMMA RemediateOK ==
  ASSUME NEW r \in Requests, TypeInv, Remediate(r)
  PROVE  TypeInv'
  <1> DEFINE c == calls[r]
  <1>1. c \in Call /\ c.op = "submit" /\ c.user \in Users /\ c.prob \in Problems
    BY DEF Remediate, At, TypeInv, TypeOK, CallsOK
  <1>2. analysisJobs' \in [Users -> [Problems -> 0 .. AnalysisLimit]]
    <2> DEFINE n == analysisJobs[c.user][c.prob]
               more == [analysisJobs EXCEPT ![c.user][c.prob] = @ + 1]
    <2>1. n \in 0 .. AnalysisLimit
      BY <1>1 DEF TypeInv, TypeOK
    <2>2. n < AnalysisLimit => n + 1 \in 0 .. AnalysisLimit
      BY <2>1, ConstantsAssumption
    <2>3. n < AnalysisLimit => more \in [Users -> [Problems -> 0 .. AnalysisLimit]]
      <3> HIDE DEF c
      <3> QED BY <1>1, <2>2 DEF TypeInv, TypeOK
    <2>4. analysisJobs' = analysisJobs \/ (n < AnalysisLimit /\ analysisJobs' = more)
      BY DEF Remediate, BestEffort
    <2> QED BY <2>3, <2>4 DEF TypeInv, TypeOK
  <1>3. regenerations' \in [Users -> Nat]
    BY <1>1 DEF Remediate, BestEffort, TypeInv, TypeOK
  <1>4. c.dna \in Nat
    BY <1>1 DEF Call
  <1>5. profile' \in [Users -> Nat]
    BY <1>4 DEF Remediate, BestEffort, TypeInv, TypeOK
  <1>6. calls' \in [Requests -> Call] /\ CallsOK'
    BY <1>1, GotoOK DEF Remediate, At
  <1> QED BY <1>2, <1>3, <1>5, <1>6 DEF Remediate, TypeInv, TypeOK

LEMMA RecordAttemptOK ==
  ASSUME NEW r \in Requests, TypeInv, RecordAttempt(r)
  PROVE  TypeInv'
  <1>1. calls[r].op = "submit" /\ calls[r].user \in Users /\ calls[r].prob \in Problems
    BY DEF RecordAttempt, At, TypeInv, CallsOK
  <1>2. attempts' \in [Users -> [Problems -> Nat]]
    BY <1>1 DEF RecordAttempt, TypeInv, TypeOK
  <1>3. calls' \in [Requests -> Call] /\ CallsOK'
    BY <1>1, GotoOK DEF RecordAttempt, At
  <1> QED BY <1>2, <1>3 DEF RecordAttempt, TypeInv, TypeOK

(* Both Submit and Skip end in AppendResponse. *)
LEMMA AppendResponseType ==
  ASSUME NEW s \in Sessions, NEW resp \in Response, NEW next \in MaybeProblem,
         sessions \in [Sessions -> Row], AppendResponse(s, resp, next)
  PROVE  sessions' \in [Sessions -> Row]
  <1> DEFINE row == [sessions[s] EXCEPT !.responses = Append(@, resp), !.count = @ + 1,
                                        !.theta = resp.after, !.current = next, !.fresh = TRUE]
  <1>1. sessions[s] \in Row /\ resp.after \in Theta
    BY DEF Response
  <1>2. Append(sessions[s].responses, resp) \in Seq(Response)
    BY <1>1, AppendProperties DEF Row
  <1>3. row \in Row
    <2>1. sessions[s].count + 1 \in Nat
      BY <1>1 DEF Row
    <2> QED BY <1>1, <1>2, <2>1 DEF Row
  <1>4. sessions' = [sessions EXCEPT ![s] = row]
    BY DEF AppendResponse
  <1> HIDE DEF row
  <1> QED BY <1>3, <1>4

LEMMA ResponseOfType ==
  ASSUME NEW c \in Call, c.prob \in Problems, c.user \in Users,
         NEW outcome \in Outcome, NEW after \in Theta
  PROVE  ResponseOf(c, outcome, after) \in Response
  BY DEF ResponseOf, Response, Call, Row

LEMMA SubmitAppendOK ==
  ASSUME NEW r \in Requests, TypeInv, SubmitAppend(r)
  PROVE  TypeInv'
  <1> DEFINE c == calls[r]
  <1>1. c \in Call /\ c.user \in Users /\ c.prob \in Problems /\ c.sess \in Sessions
    BY DEF SubmitAppend, At, TypeInv, TypeOK, CallsOK
  <1>2. ResponseOf(c, c.outcome, c.after) \in Response /\ c.next \in MaybeProblem
    BY <1>1, ResponseOfType DEF Call
  <1>3. sessions' \in [Sessions -> Row]
    BY <1>1, <1>2, AppendResponseType DEF SubmitAppend, TypeInv, TypeOK
  <1>4. calls' \in [Requests -> Call] /\ CallsOK'
    BY ReturnOK DEF SubmitAppend
  <1> QED BY <1>3, <1>4 DEF SubmitAppend, TypeInv, TypeOK, learner

LEMMA SkipAppendOK ==
  ASSUME NEW r \in Requests, TypeInv, SkipAppend(r)
  PROVE  TypeInv'
  <1> DEFINE c == calls[r]
  <1>1. c \in Call /\ c.user \in Users /\ c.prob \in Problems /\ c.sess \in Sessions
    BY DEF SkipAppend, At, TypeInv, TypeOK, CallsOK
  <1>2. ResponseOf(c, "skipped", c.row.theta) \in Response
    BY <1>1, ResponseOfType DEF Call, Row, Outcome
  <1>3. PICK q \in MaybeProblem :
          AppendResponse(c.sess, ResponseOf(c, "skipped", c.row.theta), q)
    BY NextChoicesType DEF SkipAppend
  <1>4. sessions' \in [Sessions -> Row]
    BY <1>1, <1>2, <1>3, AppendResponseType DEF TypeInv, TypeOK
  <1>5. calls' \in [Requests -> Call] /\ CallsOK'
    BY ReturnOK DEF SkipAppend
  <1> QED BY <1>4, <1>5 DEF SkipAppend, TypeInv, TypeOK, learner

LEMMA CloseAbandonOK ==
  ASSUME NEW r \in Requests, TypeInv, CloseAbandon(r)
  PROVE  TypeInv'
  <1> DEFINE s == calls[r].sess
             row == [sessions[s] EXCEPT !.status = "ABANDONED", !.fresh = TRUE]
  <1>1. s \in Sessions
    BY DEF CloseAbandon, At, TypeInv, CallsOK
  <1>2. row \in Row
    <2>1. sessions[s] \in Row
      BY <1>1 DEF TypeInv, TypeOK
    <2> HIDE DEF s
    <2> QED BY <2>1 DEF Row, Status
  <1>3. sessions' = [sessions EXCEPT ![s] = row]
    BY <1>1 DEF CloseAbandon, TypeInv, TypeOK
  <1> HIDE DEF row
  <1>4. sessions' \in [Sessions -> Row]
    BY <1>2, <1>3 DEF TypeInv, TypeOK
  <1>5. calls' \in [Requests -> Call] /\ CallsOK'
    BY ReturnOK DEF CloseAbandon
  <1> QED BY <1>4, <1>5 DEF CloseAbandon, TypeInv, TypeOK, learner

LEMMA CloseTallyOK ==
  ASSUME NEW r \in Requests, TypeInv, CloseTally(r)
  PROVE  TypeInv'
  <1> DEFINE c == calls[r]
             topics == {t \in Topics : OnTopic(c.row.responses, t) # {}}
             d == [c EXCEPT !.step = "profile", !.dna = profile[c.user],
                            !.base = topicStats[c.user], !.todo = topics]
  <1>1. c \in Call /\ c.user \in Users /\ c.sess \in Sessions
        /\ (c.op \in {"submit", "skip"} => c.prob \in Problems)
    BY DEF CloseTally, At, TypeInv, TypeOK, CallsOK
  <1>2. profile[c.user] \in Nat /\ topicStats[c.user] \in [Topics -> Nat]
    BY <1>1 DEF TypeInv, TypeOK
  <1>3. topics \subseteq Topics
    OBVIOUS
  <1>4. Become(r, d)
    BY DEF CloseTally
  <1> HIDE DEF c, topics
  <1>5. d \in Call
    BY <1>1, <1>2, <1>3 DEF Call, Step
  <1>6. d.step = "profile" /\ d.op = c.op /\ d.user = c.user /\ d.sess = c.sess
        /\ d.prob = c.prob
    BY <1>1 DEF Call
  <1> HIDE DEF d
  <1>7. calls' \in [Requests -> Call] /\ CallsOK'
    BY <1>1, <1>4, <1>5, <1>6, BecomeOK
  <1> QED BY <1>7 DEF CloseTally, TypeInv, TypeOK, stores, learner

LEMMA CloseProfileOK ==
  ASSUME NEW r \in Requests, TypeInv, CloseProfile(r)
  PROVE  TypeInv'
  <1>1. calls[r] \in Call /\ calls[r].step = "profile"
    BY DEF CloseProfile, At, TypeInv, TypeOK
  <1>2. calls[r].dna + 1 \in Nat /\ calls[r].sess \in Sessions
    BY <1>1 DEF Call, TypeInv, CallsOK
  <1>3. profile' \in [Users -> Nat]
    BY <1>2 DEF CloseProfile, TypeInv, TypeOK
  <1>4. calls' \in [Requests -> Call] /\ CallsOK'
    BY <1>1, GotoOK DEF CloseProfile
  <1> QED BY <1>3, <1>4 DEF CloseProfile, TypeInv, TypeOK

LEMMA CloseStatsOK ==
  ASSUME NEW r \in Requests, NEW t \in Topics, TypeInv, CloseStats(r, t)
  PROVE  TypeInv'
  <1> DEFINE c == calls[r]
             d == [c EXCEPT !.todo = @ \ {t},
                            !.step = IF c.todo = {t} THEN "finish" ELSE @]
  <1>1. c \in Call /\ c.step = "stats" /\ c.user \in Users /\ c.sess \in Sessions
        /\ (c.op \in {"submit", "skip"} => c.prob \in Problems)
    BY DEF CloseStats, At, TypeInv, TypeOK, CallsOK
  <1>2. NewTotal(c, t) \in Nat
    <2>1. c.base[t] \in Nat /\ c.row.responses \in Seq(Response)
      BY <1>1 DEF Call, Row
    <2> HIDE DEF c
    <2> QED BY <2>1, OnTopicFinite DEF NewTotal
  <1>3. topicStats' \in [Users -> [Topics -> Nat]]
    <2>1. topicStats' = [topicStats EXCEPT ![c.user][t] = NewTotal(c, t)]
      BY DEF CloseStats
    <2> HIDE DEF c
    <2> QED BY <1>2, <2>1 DEF TypeInv, TypeOK
  <1>4. Become(r, d)
    BY DEF CloseStats
  <1> HIDE DEF c
  <1>5. d \in Call
    BY <1>1 DEF Call, Step
  <1>6. d.step \in {"stats", "finish"} /\ d.op = c.op /\ d.user = c.user /\ d.sess = c.sess
        /\ d.prob = c.prob
    BY <1>1 DEF Call
  <1> HIDE DEF d
  <1>7. calls' \in [Requests -> Call] /\ CallsOK'
    BY <1>1, <1>4, <1>5, <1>6, BecomeOK
  <1> QED BY <1>3, <1>7 DEF CloseStats, TypeInv, TypeOK

LEMMA CloseFinishOK ==
  ASSUME NEW r \in Requests, TypeInv, CloseFinish(r)
  PROVE  TypeInv'
  <1> DEFINE c == calls[r]
             row == [sessions[c.sess] EXCEPT !.status = "COMPLETED", !.theta = c.row.theta,
                                             !.fresh = TRUE]
  <1>1. c.sess \in Sessions /\ c \in Call
    BY DEF CloseFinish, At, TypeInv, TypeOK, CallsOK
  <1>2. row \in Row
    <2>1. sessions[c.sess] \in Row /\ c.row.theta \in Theta
      BY <1>1 DEF TypeInv, TypeOK, Call, Row
    <2> HIDE DEF c
    <2> QED BY <2>1 DEF Row, Status
  <1>3. sessions' = [sessions EXCEPT ![c.sess] = row]
    BY <1>1 DEF CloseFinish, TypeInv, TypeOK
  <1> HIDE DEF row
  <1>4. sessions' \in [Sessions -> Row]
    BY <1>2, <1>3 DEF TypeInv, TypeOK
  <1>5. calls' \in [Requests -> Call] /\ CallsOK'
    BY ReturnOK DEF CloseFinish
  <1> QED BY <1>4, <1>5 DEF CloseFinish, TypeInv, TypeOK, learner

LEMMA GrowStaleOK ==
  ASSUME NEW s \in Sessions, TypeInv, GrowStale(s)
  PROVE  TypeInv'
  <1>1. [sessions[s] EXCEPT !.fresh = FALSE] \in Row
    BY DEF TypeInv, TypeOK, Row
  <1>2. sessions' \in [Sessions -> Row]
    BY <1>1 DEF GrowStale, TypeInv, TypeOK
  <1> QED BY <1>2 DEF GrowStale, TypeInv, TypeOK, CallsOK, learner

LEMMA CleanupStaleOK ==
  ASSUME TypeInv, CleanupStale
  PROVE  TypeInv'
  <1>1. ASSUME NEW s \in Sessions
        PROVE  [sessions[s] EXCEPT !.status = "ABANDONED", !.fresh = TRUE] \in Row
    BY ZenonT(40) DEF TypeInv, TypeOK, Row, Status
  <1>2. sessions' \in [Sessions -> Row]
    BY <1>1 DEF CleanupStale, TypeInv, TypeOK
  <1> QED BY <1>2 DEF CleanupStale, TypeInv, TypeOK, CallsOK, learner

LEMMA StepTypeInv == TypeInv /\ [Next]_vars => TypeInv'
  <1> SUFFICES ASSUME TypeInv, [Next]_vars PROVE TypeInv'
    OBVIOUS
  <1>1. ASSUME NEW r \in Requests, Arrive(r) PROVE TypeInv'
    <2>1. PICK u \in Users, s \in Sessions :
            \/ StartLoad(r, u, s)
            \/ CloseLoad(r, u, s)
            \/ \E p \in Problems : SubmitLoad(r, u, s, p) \/ SkipLoad(r, u, s, p)
      BY <1>1 DEF Arrive
    <2>2. CASE StartLoad(r, u, s)
      BY <2>2, StartLoadOK
    <2>3. CASE CloseLoad(r, u, s)
      BY <2>3, LoadOK DEF CloseLoad, MaybeProblem
    <2>4. ASSUME NEW p \in Problems, SubmitLoad(r, u, s, p) PROVE TypeInv'
      BY <2>4, LoadOK DEF SubmitLoad, MaybeProblem
    <2>5. ASSUME NEW p \in Problems, SkipLoad(r, u, s, p) PROVE TypeInv'
      BY <2>5, LoadOK DEF SkipLoad, MaybeProblem
    <2> QED BY <2>1, <2>2, <2>3, <2>4, <2>5
  <1>2. ASSUME NEW r \in Requests, Proceed(r) PROVE TypeInv'
    BY <1>2, ClaimSessionOK, StartCreateOK, SubmitVerdictOK, RemediateOK, RecordAttemptOK,
       SubmitAppendOK, SkipAppendOK, CloseAbandonOK, CloseTallyOK, CloseProfileOK,
       CloseFinishOK, CloseStatsOK DEF Proceed
  <1>3. ASSUME NEW r \in Requests, RequestFails(r) PROVE TypeInv'
    BY <1>3, ReturnOK DEF RequestFails, TypeInv, TypeOK, stores, learner
  <1>4. CASE UNCHANGED vars
    BY <1>4 DEF TypeInv, TypeOK, CallsOK, vars, stores, learner
  <1> QED BY <1>1, <1>2, <1>3, <1>4, GrowStaleOK, CleanupStaleOK DEF Next, Quiescent

LEMMA TypeInvAlways == Spec => []TypeInv
  BY InitTypeInv, StepTypeInv, PTL DEF Spec

(* Every row, counter and running request stays within its type, for any
   constants and any interleaving: theta never leaves its clamps, and no
   request acts with an unknown user, session or problem. *)
THEOREM TypeCorrect == Spec => []TypeOK
  <1>1. TypeInv => TypeOK
    BY DEF TypeInv
  <1> QED BY <1>1, TypeInvAlways, PTL
-----------------------------------------------------------------------------
(* What a step may do to the table of sessions *)

(* The identifier a Start is about to insert belongs to no row and to no
   other request, and every other request works on a row that exists. *)
CallsMatchRows ==
  \A r \in Requests :
    /\ At(r, "create") =>
         /\ sessions[calls[r].sess].status = "NONE"
         /\ \A q \in Requests : q # r => calls[q].sess # calls[r].sess
    /\ calls[r].step \notin {"idle", "create"} => sessions[calls[r].sess].status # "NONE"

Base == TypeInv /\ CallsMatchRows

Created(s) ==
  /\ sessions[s].status = "NONE"
  /\ \E row \in Row :
       /\ row.responses = << >> /\ row.count = 0
       /\ row.theta = row.start /\ row.status = "ACTIVE"
       /\ sessions' = [sessions EXCEPT ![s] = row]
  /\ IndexHolds(sessions')

Claimed(s) ==
  /\ sessions[s].status # "NONE"
  /\ \E u \in Users : sessions' = [sessions EXCEPT ![s].owner = u, ![s].fresh = TRUE]
  /\ IndexHolds(sessions')

Appended(s) ==
  /\ sessions[s].status # "NONE"
  /\ \E resp \in Response, next \in MaybeProblem : AppendResponse(s, resp, next)

(* Sessions end, or nothing but their freshness changes. *)
OnlyEnded ==
  \A s \in Sessions :
    /\ sessions'[s].owner = sessions[s].owner
    /\ sessions'[s].responses = sessions[s].responses
    /\ sessions'[s].count = sessions[s].count
    /\ sessions'[s].start = sessions[s].start
    /\ \/ sessions'[s].status = sessions[s].status /\ sessions'[s].theta = sessions[s].theta
       \/ sessions[s].status # "NONE" /\ sessions'[s].status \in {"COMPLETED", "ABANDONED"}

SessionStep ==
  \/ OnlyEnded
  \/ \E s \in Sessions : Created(s) \/ Claimed(s) \/ Appended(s)

LEMMA UnchangedIsOnlyEnded == UNCHANGED sessions => OnlyEnded
  BY DEF OnlyEnded

LEMMA ProceedSessionStep ==
  ASSUME NEW r \in Requests, Base, Proceed(r)
  PROVE  SessionStep
  <1> DEFINE c == calls[r]
  <1>1. c \in Call /\ sessions \in [Sessions -> Row]
    BY DEF Base, TypeInv, TypeOK
  <1>2. c.step # "idle" => c.sess \in Sessions /\ c.user \in Users
    BY DEF Base, TypeInv, CallsOK
  <1>3. c.step \notin {"idle", "create"} => sessions[c.sess].status # "NONE"
    BY DEF Base, CallsMatchRows
  <1>4. CASE StartCreate(r)
    <2>1. c.sess \in Sessions /\ sessions[c.sess].status = "NONE"
      BY <1>2, <1>4 DEF StartCreate, At, Base, CallsMatchRows
    <2>2. PICK t \in Theta, m \in Modes :
            LET rows == [sessions EXCEPT ![c.sess] =
                           [NoRow EXCEPT !.owner = c.user, !.mode = m, !.status = "ACTIVE",
                                         !.start = t, !.theta = t, !.current = c.next]]
            IN  sessions' = IF IndexHolds(rows) THEN rows ELSE sessions
      BY <1>4 DEF StartCreate
    <2> DEFINE new == [NoRow EXCEPT !.owner = c.user, !.mode = m, !.status = "ACTIVE",
                                    !.start = t, !.theta = t, !.current = c.next]
               rows == [sessions EXCEPT ![c.sess] = new]
    <2>3. new \in Row
      BY <1>1, NoRowType, ConstantsAssumption DEF Row, Call, Status
    <2>4. new.responses = << >> /\ new.count = 0 /\ new.theta = new.start /\ new.status = "ACTIVE"
      BY DEF NoRow
    <2>5. UNCHANGED sessions \/ (sessions' = rows /\ IndexHolds(rows))
      BY <2>2
    <2>6. CASE sessions' = rows /\ IndexHolds(rows)
      <3>1. IndexHolds(sessions')
        BY <2>6
      <3> HIDE DEF new, c
      <3> QED BY <2>1, <2>3, <2>4, <2>6, <3>1 DEF SessionStep, Created
    <2> QED BY <2>5, <2>6, UnchangedIsOnlyEnded DEF SessionStep
  <1>5. CASE ClaimSession(r)
    <2> DEFINE rows == [sessions EXCEPT ![c.sess].owner = c.user, ![c.sess].fresh = TRUE]
    <2>1. c.sess \in Sessions /\ c.user \in Users /\ sessions[c.sess].status # "NONE"
      BY <1>2, <1>3, <1>5 DEF ClaimSession, At
    <2>2. UNCHANGED sessions \/ (sessions' = rows /\ IndexHolds(rows))
      BY <1>5 DEF ClaimSession
    <2>3. CASE sessions' = rows /\ IndexHolds(rows)
      <3>1. IndexHolds(sessions')
        BY <2>3
      <3> HIDE DEF c
      <3> QED BY <2>1, <2>3, <3>1 DEF SessionStep, Claimed
    <2> QED BY <2>2, <2>3, UnchangedIsOnlyEnded DEF SessionStep
  <1>6. CASE SubmitAppend(r)
    <2>1. c.sess \in Sessions /\ sessions[c.sess].status # "NONE"
          /\ c.user \in Users /\ c.prob \in Problems
      BY <1>2, <1>3, <1>6 DEF SubmitAppend, At, Base, TypeInv, CallsOK
    <2>2. ResponseOf(c, c.outcome, c.after) \in Response /\ c.next \in MaybeProblem
      BY <1>1, <2>1, ResponseOfType DEF Call
    <2> QED BY <1>6, <2>1, <2>2 DEF SubmitAppend, SessionStep, Appended
  <1>7. CASE SkipAppend(r)
    <2>1. c.sess \in Sessions /\ sessions[c.sess].status # "NONE"
          /\ c.user \in Users /\ c.prob \in Problems
      BY <1>2, <1>3, <1>7 DEF SkipAppend, At, Base, TypeInv, CallsOK
    <2>2. ResponseOf(c, "skipped", c.row.theta) \in Response
      BY <1>1, <2>1, ResponseOfType DEF Call, Row, Outcome
    <2>3. PICK q \in MaybeProblem :
            AppendResponse(c.sess, ResponseOf(c, "skipped", c.row.theta), q)
      BY <1>7, NextChoicesType DEF SkipAppend
    <2> QED BY <2>1, <2>2, <2>3 DEF SessionStep, Appended
  <1>8. CASE CloseAbandon(r)
    <2>1. c.sess \in Sessions /\ sessions[c.sess].status # "NONE"
      BY <1>2, <1>3, <1>8 DEF CloseAbandon, At
    <2>2. sessions' = [sessions EXCEPT ![c.sess].status = "ABANDONED", ![c.sess].fresh = TRUE]
      BY <1>8 DEF CloseAbandon
    <2> HIDE DEF c
    <2> QED BY <1>1, <2>1, <2>2 DEF SessionStep, OnlyEnded, Row
  <1>9. CASE CloseFinish(r)
    <2>1. c.sess \in Sessions /\ sessions[c.sess].status # "NONE"
      BY <1>2, <1>3, <1>9 DEF CloseFinish, At
    <2>2. sessions' = [sessions EXCEPT ![c.sess].status = "COMPLETED",
                                       ![c.sess].theta = c.row.theta,
                                       ![c.sess].fresh = TRUE]
      BY <1>9 DEF CloseFinish
    <2> HIDE DEF c
    <2> QED BY <1>1, <2>1, <2>2 DEF SessionStep, OnlyEnded, Row
  <1>10. CASE \/ SubmitVerdict(r) \/ Remediate(r) \/ RecordAttempt(r)
              \/ CloseTally(r) \/ CloseProfile(r) \/ \E t \in Topics : CloseStats(r, t)
    <2>1. UNCHANGED sessions
      BY <1>10 DEF SubmitVerdict, Remediate, RecordAttempt, CloseTally, CloseProfile,
                   CloseStats, stores
    <2> QED BY <2>1, UnchangedIsOnlyEnded DEF SessionStep
  <1> QED BY <1>4, <1>5, <1>6, <1>7, <1>8, <1>9, <1>10 DEF Proceed

LEMMA NextSessionStep == Base /\ [Next]_vars => SessionStep
  <1> SUFFICES ASSUME Base, [Next]_vars PROVE SessionStep
    OBVIOUS
  <1>0. sessions \in [Sessions -> Row]
    BY DEF Base, TypeInv, TypeOK
  <1>1. ASSUME NEW r \in Requests, Arrive(r) PROVE SessionStep
    <2>1. UNCHANGED sessions
      BY <1>1 DEF Arrive, StartLoad, CloseLoad, SubmitLoad, SkipLoad, Issue, stores
    <2> QED BY <2>1, UnchangedIsOnlyEnded DEF SessionStep
  <1>2. ASSUME NEW r \in Requests, RequestFails(r) PROVE SessionStep
    BY <1>2, UnchangedIsOnlyEnded DEF RequestFails, stores, SessionStep
  <1>3. ASSUME NEW s \in Sessions, GrowStale(s) PROVE SessionStep
    BY <1>0, <1>3 DEF GrowStale, SessionStep, OnlyEnded, Row
  <1>4. CASE CleanupStale
    BY <1>0, <1>4 DEF CleanupStale, Stale, SessionStep, OnlyEnded, Row
  <1>5. CASE UNCHANGED vars
    BY <1>5, UnchangedIsOnlyEnded DEF vars, stores, SessionStep
  <1> QED BY <1>1, <1>2, <1>3, <1>4, <1>5, ProceedSessionStep DEF Next, Quiescent
-----------------------------------------------------------------------------
(* Requests and rows stay matched *)

LEMMA InitBase == Init => Base
  BY InitTypeInv DEF Base, CallsMatchRows, Init, At, Idle

(* A row that exists goes on existing. *)
LEMMA RowsPersist ==
  ASSUME Base, SessionStep, NEW s \in Sessions, sessions[s].status # "NONE"
  PROVE  sessions'[s].status # "NONE"
  <1>1. sessions \in [Sessions -> Row]
    BY DEF Base, TypeInv, TypeOK
  <1>2. CASE OnlyEnded
    BY <1>2 DEF OnlyEnded
  <1>3. ASSUME NEW x \in Sessions, Created(x) PROVE sessions'[s].status # "NONE"
    BY <1>1, <1>3 DEF Created
  <1>4. ASSUME NEW x \in Sessions, Claimed(x) PROVE sessions'[s].status # "NONE"
    BY <1>1, <1>4 DEF Claimed, Row
  <1>5. ASSUME NEW x \in Sessions, Appended(x) PROVE sessions'[s].status # "NONE"
    BY <1>1, <1>5 DEF Appended, AppendResponse, Row
  <1> QED BY <1>2, <1>3, <1>4, <1>5 DEF SessionStep

(* A handler writes only to the row of its own session. *)
LEMMA ProceedOwnRow ==
  ASSUME NEW r \in Requests, sessions \in [Sessions -> Row], Proceed(r),
         NEW s \in Sessions, calls[r].sess # s
  PROVE  sessions'[s] = sessions[s]
  BY DEF Proceed, ClaimSession, StartCreate, SubmitVerdict, Remediate, RecordAttempt,
         SubmitAppend, SkipAppend, AppendResponse, CloseAbandon, CloseTally, CloseProfile,
         CloseStats, CloseFinish, stores

(* Only the Start that reserved an identifier can create its row. *)
LEMMA ReservedStays ==
  ASSUME Base, Next, NEW q \in Requests, At(q, "create"), At(q, "create")'
  PROVE  sessions'[calls[q].sess].status = "NONE"
  <1> DEFINE s == calls[q].sess
  <1>1. /\ s \in Sessions /\ sessions[s].status = "NONE"
        /\ \A r \in Requests : r # q => calls[r].sess # s
    BY DEF Base, TypeInv, CallsOK, CallsMatchRows, At
  <1>2. sessions \in [Sessions -> Row] /\ calls \in [Requests -> Call]
    BY DEF Base, TypeInv, TypeOK
  <1>3. ASSUME NEW r \in Requests, Proceed(r) PROVE sessions'[s].status = "NONE"
    <2>1. CASE r # q
      BY <1>1, <1>2, <1>3, <2>1, ProceedOwnRow
    <2>2. CASE r = q
      <3>1. StartCreate(q)
        BY <1>3, <2>2 DEF Proceed, At, ClaimSession, SubmitVerdict, Remediate, RecordAttempt,
           SubmitAppend, SkipAppend, CloseAbandon, CloseTally, CloseProfile, CloseStats,
           CloseFinish
      <3>2. calls'[q].step = "idle"
        BY <1>2, <3>1 DEF StartCreate, Return, Become, Idle
      <3> QED BY <3>2 DEF At
    <2> QED BY <2>1, <2>2
  <1>4. ASSUME NEW r \in Requests, Arrive(r) \/ RequestFails(r)
        PROVE  sessions'[s].status = "NONE"
    BY <1>1, <1>4 DEF Arrive, StartLoad, CloseLoad, SubmitLoad, SkipLoad, Issue, RequestFails,
                      stores
  <1>5. ASSUME NEW x \in Sessions, GrowStale(x) PROVE sessions'[s].status = "NONE"
    BY <1>1, <1>2, <1>5 DEF GrowStale
  <1>6. CASE CleanupStale
    BY <1>1, <1>2, <1>6 DEF CleanupStale, Stale
  <1>7. CASE Quiescent
    BY <1>1, <1>7 DEF Quiescent, vars, stores
  <1> QED BY <1>3, <1>4, <1>5, <1>6, <1>7 DEF Next

(* How the entry of one request changes: it goes on with its session, it
   returns, it takes on an existing session, or it reserves an identifier. *)
Continues(r) ==
  /\ calls[r].step \notin {"idle", "create"} /\ calls'[r].step \notin {"idle", "create"}
  /\ calls'[r].sess = calls[r].sess

Returned(r) == calls'[r] = Idle
Loaded(r) == /\ ~At(r, "create")' /\ UNCHANGED sessions
             /\ calls'[r].sess \in Sessions /\ sessions[calls'[r].sess].status # "NONE"
Reserved(r) == /\ At(r, "create")' /\ UNCHANGED sessions
               /\ calls'[r].sess \in Sessions /\ sessions[calls'[r].sess].status = "NONE"
               /\ \A q \in Requests : calls[q].sess # calls'[r].sess

LEMMA NextCallStep ==
  ASSUME Base, Next
  PROVE  \/ UNCHANGED calls
         \/ \E r \in Requests :
              /\ \A q \in Requests : q # r => calls'[q] = calls[q]
              /\ Continues(r) \/ Returned(r) \/ Loaded(r) \/ Reserved(r)
  <1>1. calls \in [Requests -> Call]
    BY DEF Base, TypeInv, TypeOK
  <1>2. ASSUME NEW r \in Requests, NEW c, Become(r, c)
        PROVE  calls'[r] = c /\ \A q \in Requests : q # r => calls'[q] = calls[q]
    BY <1>1, <1>2 DEF Become
  <1>3. ASSUME NEW r \in Requests, Return(r) PROVE Returned(r)
    BY <1>2, <1>3 DEF Return, Returned
  <1>4. ASSUME NEW r \in Requests, Proceed(r) \/ RequestFails(r)
        PROVE  \A q \in Requests : q # r => calls'[q] = calls[q]
    BY <1>1, <1>4 DEF Proceed, RequestFails, Return, Goto, Become, ClaimSession, StartCreate,
       SubmitVerdict, Remediate, RecordAttempt, SubmitAppend, SkipAppend, CloseAbandon,
       CloseTally, CloseProfile, CloseStats, CloseFinish
  <1>5. ASSUME NEW r \in Requests, Proceed(r) PROVE Continues(r) \/ Returned(r)
    <2>1. calls[r] \in Call
      BY <1>1
    <2>2. CASE SubmitVerdict(r)
      <3>1. calls[r].step = "verdict"
        BY <2>2 DEF SubmitVerdict, At
      <3>2. PICK ok \in BOOLEAN : \E t, q :
              Become(r, [calls[r] EXCEPT !.step = IF ok THEN "record" ELSE "remediate",
                                         !.outcome = IF ok THEN "correct" ELSE "wrong",
                                         !.after = t, !.next = q,
                                         !.dna = profile[calls[r].user]])
        BY <2>2 DEF SubmitVerdict
      <3>3. PICK t, q :
              Become(r, [calls[r] EXCEPT !.step = IF ok THEN "record" ELSE "remediate",
                                         !.outcome = IF ok THEN "correct" ELSE "wrong",
                                         !.after = t, !.next = q,
                                         !.dna = profile[calls[r].user]])
        BY <3>2
      <3> DEFINE d == [calls[r] EXCEPT !.step = IF ok THEN "record" ELSE "remediate",
                                       !.outcome = IF ok THEN "correct" ELSE "wrong",
                                       !.after = t, !.next = q,
                                       !.dna = profile[calls[r].user]]
      <3>4. d.step \in {"record", "remediate"} /\ d.sess = calls[r].sess
        BY <2>1 DEF Call
      <3>5. calls'[r] = d
        BY <1>2, <3>3
      <3> HIDE DEF d
      <3> QED BY <3>1, <3>4, <3>5 DEF Continues
    <2>3. CASE CloseTally(r)
      BY <1>1, <2>1, <2>3 DEF CloseTally, Become, Continues, At, Call
    <2>4. CASE Remediate(r) \/ RecordAttempt(r) \/ CloseProfile(r)
      BY <1>1, <2>1, <2>4 DEF Remediate, RecordAttempt, CloseProfile, Goto, Become, Continues, At, Call
    <2>5. ASSUME NEW t \in Topics, CloseStats(r, t) PROVE Continues(r)
      BY <1>1, <2>1, <2>5 DEF CloseStats, Become, Continues, At, Call
    <2>6. CASE ClaimSession(r)
      BY <1>1, <2>1, <2>6 DEF ClaimSession, Become, FirstStep, Continues, Returned, At, Call
    <2>7. CASE StartCreate(r) \/ SubmitAppend(r) \/ SkipAppend(r) \/ CloseAbandon(r)
               \/ CloseFinish(r)
      BY <1>3, <2>7 DEF StartCreate, SubmitAppend, SkipAppend, CloseAbandon, CloseFinish
    <2> QED BY <1>5, <2>2, <2>3, <2>4, <2>5, <2>6, <2>7 DEF Proceed
  <1>6. ASSUME NEW r \in Requests, NEW op \in {"submit", "skip", "close"}, NEW u \in Users,
               NEW s \in Sessions, NEW p, Issue(r, u), Load(r, op, u, s, p)
        PROVE  Loaded(r) /\ \A q \in Requests : q # r => calls'[q] = calls[q]
    <2> DEFINE row == sessions[s]
               claimed == [row EXCEPT !.owner = IF NeedsClaim(row, u) THEN u ELSE @]
               first == IF NeedsClaim(row, u) THEN "claim" ELSE FirstStep(op, row)
               c == [Idle EXCEPT !.step = first, !.op = op, !.user = u, !.sess = s,
                                 !.prob = p, !.row = claimed]
    <2>1. Become(r, c) /\ sessions[s].status # "NONE" /\ UNCHANGED sessions
      BY <1>6 DEF Load, Issue, stores
    <2>2. c.sess = s /\ c.step # "create"
      BY DEF Idle, FirstStep
    <2> HIDE DEF c
    <2> QED BY <1>2, <2>1, <2>2 DEF Loaded, At
  <1>7. ASSUME NEW r \in Requests, NEW u \in Users, NEW s \in Sessions, StartLoad(r, u, s)
        PROVE  Reserved(r) /\ \A q \in Requests : q # r => calls'[q] = calls[q]
    <2>1. PICK p : Become(r, [Idle EXCEPT !.step = "create", !.op = "start", !.user = u,
                                          !.sess = s, !.next = p])
      BY <1>7 DEF StartLoad
    <2> DEFINE c == [Idle EXCEPT !.step = "create", !.op = "start", !.user = u,
                                 !.sess = s, !.next = p]
    <2>2. c.step = "create" /\ c.sess = s
      BY DEF Idle
    <2>3. Become(r, c)
      BY <2>1
    <2>4. sessions[s].status = "NONE" /\ UNCHANGED sessions
          /\ \A q \in Requests : calls[q].sess # s
      BY <1>7 DEF StartLoad, Issue, stores
    <2> HIDE DEF c
    <2> QED BY <1>2, <2>2, <2>3, <2>4 DEF Reserved, At
  <1>8. ASSUME NEW r \in Requests, Arrive(r)
        PROVE  (Loaded(r) \/ Reserved(r)) /\ \A q \in Requests : q # r => calls'[q] = calls[q]
    BY <1>6, <1>7, <1>8 DEF Arrive, CloseLoad, SubmitLoad, SkipLoad
  <1>9. ASSUME NEW s \in Sessions, GrowStale(s) \/ CleanupStale \/ Quiescent
        PROVE  UNCHANGED calls
    BY <1>9 DEF GrowStale, CleanupStale, Quiescent, vars
  <1>10. CASE CleanupStale \/ Quiescent
    BY <1>10 DEF CleanupStale, Quiescent, vars
  <1> QED BY <1>3, <1>4, <1>5, <1>8, <1>9, <1>10 DEF Next, RequestFails

LEMMA StepBase == Base /\ [Next]_vars => Base'
  <1> SUFFICES ASSUME Base, [Next]_vars PROVE CallsMatchRows'
    BY StepTypeInv DEF Base
  <1>1. CASE UNCHANGED vars
    BY <1>1 DEF Base, CallsMatchRows, At, vars, stores
  <1>2. CASE Next
    <2> DEFINE Match(q) ==
          /\ At(q, "create") =>
               /\ sessions[calls[q].sess].status = "NONE"
               /\ \A x \in Requests : x # q => calls[x].sess # calls[q].sess
          /\ calls[q].step \notin {"idle", "create"} => sessions[calls[q].sess].status # "NONE"
    <2>1. calls \in [Requests -> Call] /\ SessionStep /\ CallsOK /\ CallsMatchRows
      BY NextSessionStep DEF Base, TypeInv, TypeOK
    <2>2. ASSUME NEW q \in Requests, calls[q].step \notin {"idle", "create"}
          PROVE  sessions'[calls[q].sess].status # "NONE"
      BY <2>1, <2>2, RowsPersist DEF CallsOK, CallsMatchRows
    <2>3. ASSUME NEW q \in Requests, At(q, "create"), At(q, "create")'
          PROVE  sessions'[calls[q].sess].status = "NONE"
      BY <1>2, <2>3, ReservedStays
    <2>4. CASE UNCHANGED calls
      BY <2>1, <2>2, <2>3, <2>4 DEF CallsMatchRows, At
    <2>5. ASSUME NEW r \in Requests, \A q \in Requests : q # r => calls'[q] = calls[q],
                 Continues(r) \/ Returned(r) \/ Loaded(r) \/ Reserved(r)
          PROVE  CallsMatchRows'
      <3> SUFFICES ASSUME NEW q \in Requests PROVE Match(q)'
        BY DEF CallsMatchRows
      <3>1. calls'[q] # calls[q] => q = r
        BY <2>5
      <3>2. calls[r].sess \in Sessions \/ At(r, "idle")
        BY <2>1 DEF CallsOK, At
      <3>3. CASE Continues(r)
        BY <2>1, <2>2, <2>3, <2>5, <3>3 DEF Continues, CallsMatchRows, At
      <3>4. CASE Returned(r)
        <4>1. calls'[r].step = "idle" /\ calls'[r].sess = NoSession
          BY <3>4 DEF Returned, Idle
        <4>2. At(q, "create")' => calls'[q].sess \in Sessions /\ calls'[q] = calls[q]
          BY <2>1, <2>5, <4>1 DEF CallsOK, At
        <4> QED BY <2>1, <2>2, <2>3, <2>5, <4>1, <4>2, ConstantsAssumption DEF CallsMatchRows, At
      <3>5. CASE Loaded(r)
        BY <2>1, <2>2, <2>3, <2>5, <3>5 DEF Loaded, CallsMatchRows, At
      <3>6. CASE Reserved(r)
        BY <2>1, <2>2, <2>3, <2>5, <3>6 DEF Reserved, CallsMatchRows, At
      <3> QED BY <2>5, <3>3, <3>4, <3>5, <3>6
    <2> QED BY <1>2, <2>4, <2>5, NextCallStep
  <1> QED BY <1>1, <1>2
-----------------------------------------------------------------------------
(* The safety invariants *)

(* A row that does not exist yet has no history. *)
NoHistoryBeforeRow ==
  \A s \in Sessions : sessions[s].status = "NONE" => sessions[s].responses = << >>

IInv ==
  /\ Base
  /\ NoHistoryBeforeRow
  /\ OneActivePerUser
  /\ QuestionCountMatches
  /\ ActiveThetaIsLast

LEMMA InitIInv == Init => IInv
  <1> SUFFICES ASSUME Init PROVE IInv
    OBVIOUS
  <1>1. Base
    BY InitBase
  <1>2. Len(<< >>) = 0
    OBVIOUS
  <1> QED BY <1>1, <1>2 DEF Init, IInv, NoHistoryBeforeRow, OneActivePerUser, QuestionCountMatches,
                            ActiveThetaIsLast, NoRow

(* What the row of one session looks like after a step. *)
LEMMA RowAfter ==
  ASSUME sessions \in [Sessions -> Row], NEW s \in Sessions, NEW x \in Sessions
  PROVE  /\ Created(x) \/ Claimed(x) \/ Appended(x) => (s # x => sessions'[s] = sessions[s])
         /\ Claimed(x) =>
              /\ sessions'[x].status = sessions[x].status
              /\ sessions'[x].responses = sessions[x].responses
              /\ sessions'[x].count = sessions[x].count
              /\ sessions'[x].start = sessions[x].start
              /\ sessions'[x].theta = sessions[x].theta
         /\ Created(x) =>
              /\ sessions'[x] \in Row
              /\ sessions'[x].responses = << >> /\ sessions'[x].count = 0
              /\ sessions'[x].theta = sessions'[x].start
              /\ sessions'[x].status = "ACTIVE"
         /\ Appended(x) => \E resp \in Response :
              /\ sessions'[x].responses = Append(sessions[x].responses, resp)
              /\ sessions'[x].count = sessions[x].count + 1
              /\ sessions'[x].theta = resp.after
              /\ sessions'[x].owner = sessions[x].owner
              /\ sessions'[x].status = sessions[x].status
  <1>1. sessions[x] \in Row
    OBVIOUS
  <1>2. Created(x) \/ Claimed(x) \/ Appended(x) => (s # x => sessions'[s] = sessions[s])
    BY DEF Created, Claimed, Appended, AppendResponse
  <1>3. ASSUME Claimed(x)
        PROVE  /\ sessions'[x].status = sessions[x].status
               /\ sessions'[x].responses = sessions[x].responses
               /\ sessions'[x].count = sessions[x].count
               /\ sessions'[x].start = sessions[x].start
               /\ sessions'[x].theta = sessions[x].theta
    BY <1>1, <1>3 DEF Claimed, Row
  <1>4. ASSUME Created(x)
        PROVE  /\ sessions'[x] \in Row
               /\ sessions'[x].responses = << >> /\ sessions'[x].count = 0
               /\ sessions'[x].theta = sessions'[x].start
               /\ sessions'[x].status = "ACTIVE"
    BY <1>4 DEF Created
  <1>5. ASSUME Appended(x)
        PROVE  \E resp \in Response :
                 /\ sessions'[x].responses = Append(sessions[x].responses, resp)
                 /\ sessions'[x].count = sessions[x].count + 1
                 /\ sessions'[x].theta = resp.after
                 /\ sessions'[x].owner = sessions[x].owner
                 /\ sessions'[x].status = sessions[x].status
    <2>1. PICK resp \in Response, next \in MaybeProblem : AppendResponse(x, resp, next)
      BY <1>5 DEF Appended
    <2> WITNESS resp \in Response
    <2> QED BY <1>1, <2>1 DEF AppendResponse, Row
  <1> QED BY <1>2, <1>3, <1>4, <1>5

LEMMA StepNoHistory ==
  ASSUME IInv, SessionStep, sessions' \in [Sessions -> Row]
  PROVE  NoHistoryBeforeRow'
  <1> SUFFICES ASSUME NEW s \in Sessions, sessions'[s].status = "NONE"
               PROVE  sessions'[s].responses = << >>
    BY DEF NoHistoryBeforeRow
  <1>1. sessions \in [Sessions -> Row] /\ Base
    BY DEF IInv, Base, TypeInv, TypeOK
  <1>2. sessions[s].status = "NONE" /\ sessions[s].responses = << >>
    BY <1>1, RowsPersist DEF IInv, NoHistoryBeforeRow
  <1>3. CASE OnlyEnded
    BY <1>2, <1>3 DEF OnlyEnded
  <1>4. ASSUME NEW x \in Sessions, Created(x) \/ Claimed(x) \/ Appended(x)
        PROVE  sessions'[s].responses = << >>
    <2>1. CASE s # x
      BY <1>1, <1>2, <1>4, <2>1, RowAfter
    <2>2. CASE s = x
      <3>1. ~Claimed(x) /\ ~Appended(x)
        BY <1>2, <2>2 DEF Claimed, Appended
      <3> QED BY <1>1, <1>4, <2>2, <3>1, RowAfter
    <2> QED BY <2>1, <2>2
  <1> QED BY <1>3, <1>4 DEF SessionStep

LEMMA StepOneActive ==
  ASSUME IInv, SessionStep, sessions' \in [Sessions -> Row]
  PROVE  OneActivePerUser'
  <1>1. sessions \in [Sessions -> Row]
    BY DEF IInv, Base, TypeInv, TypeOK
  <1>2. CASE OnlyEnded
    BY <1>2 DEF IInv, OneActivePerUser, OnlyEnded
  <1>3. ASSUME NEW x \in Sessions, Created(x) \/ Claimed(x) PROVE OneActivePerUser'
    <2>1. IndexHolds(sessions')
      BY <1>3 DEF Created, Claimed
    <2> QED BY <2>1 DEF IndexHolds, OneActivePerUser
  <1>4. ASSUME NEW x \in Sessions, Appended(x) PROVE OneActivePerUser'
    <2>1. \A s \in Sessions : /\ sessions'[s].owner = sessions[s].owner
                              /\ sessions'[s].status = sessions[s].status
      BY <1>1, <1>4, RowAfter
    <2> QED BY <2>1 DEF IInv, OneActivePerUser
  <1> QED BY <1>2, <1>3, <1>4 DEF SessionStep

LEMMA StepQuestionCount ==
  ASSUME IInv, SessionStep, sessions' \in [Sessions -> Row]
  PROVE  QuestionCountMatches'
  <1> SUFFICES ASSUME NEW s \in Sessions
               PROVE  sessions'[s].count = Len(sessions'[s].responses)
    BY DEF QuestionCountMatches
  <1>1. sessions \in [Sessions -> Row] /\ sessions[s].count = Len(sessions[s].responses)
    BY DEF IInv, Base, TypeInv, TypeOK, QuestionCountMatches
  <1>2. CASE OnlyEnded
    BY <1>1, <1>2 DEF OnlyEnded
  <1>3. ASSUME NEW x \in Sessions, Created(x) \/ Claimed(x) \/ Appended(x)
        PROVE  sessions'[s].count = Len(sessions'[s].responses)
    <2>1. CASE s # x
      BY <1>1, <1>3, <2>1, RowAfter
    <2>2. CASE s = x /\ Appended(x)
      <3>1. PICK resp \in Response :
              /\ sessions'[x].responses = Append(sessions[x].responses, resp)
              /\ sessions'[x].count = sessions[x].count + 1
        BY <1>1, <2>2, RowAfter
      <3>2. sessions[x].responses \in Seq(Response)
        BY <1>1 DEF Row
      <3>3. Len(Append(sessions[x].responses, resp)) = Len(sessions[x].responses) + 1
        BY <3>2, AppendProperties
      <3> QED BY <1>1, <2>2, <3>1, <3>3
    <2>3. CASE s = x /\ (Created(x) \/ Claimed(x))
      <3>1. Len(<< >>) = 0
        OBVIOUS
      <3> QED BY <1>1, <2>3, <3>1, RowAfter
    <2> QED BY <1>3, <2>1, <2>2, <2>3
  <1> QED BY <1>2, <1>3 DEF SessionStep

LEMMA StepActiveTheta ==
  ASSUME IInv, SessionStep, sessions' \in [Sessions -> Row]
  PROVE  ActiveThetaIsLast'
  <1> SUFFICES ASSUME NEW s \in Sessions, sessions'[s].status = "ACTIVE"
               PROVE  sessions'[s].theta = LastTheta(sessions'[s])
    BY DEF ActiveThetaIsLast
  <1>1. /\ sessions \in [Sessions -> Row]
        /\ sessions[s].status = "ACTIVE" => sessions[s].theta = LastTheta(sessions[s])
    BY DEF IInv, Base, TypeInv, TypeOK, ActiveThetaIsLast
  <1>2. CASE OnlyEnded
    BY <1>1, <1>2 DEF OnlyEnded, LastTheta
  <1>3. ASSUME NEW x \in Sessions, Created(x) \/ Claimed(x) \/ Appended(x)
        PROVE  sessions'[s].theta = LastTheta(sessions'[s])
    <2>1. CASE s # x
      BY <1>1, <1>3, <2>1, RowAfter
    <2>2. CASE s = x /\ Appended(x)
      <3>1. PICK resp \in Response :
              /\ sessions'[x].responses = Append(sessions[x].responses, resp)
              /\ sessions'[x].theta = resp.after
        BY <1>1, <2>2, RowAfter
      <3>2. sessions[x].responses \in Seq(Response)
        BY <1>1 DEF Row
      <3> DEFINE rs == Append(sessions[x].responses, resp)
      <3>3. rs # << >> /\ rs[Len(rs)] = resp
        BY <3>2, AppendProperties
      <3> QED BY <2>2, <3>1, <3>3 DEF LastTheta
    <2>3. CASE s = x /\ (Created(x) \/ Claimed(x))
      BY <1>1, <2>3, RowAfter DEF LastTheta
    <2> QED BY <1>3, <2>1, <2>2, <2>3
  <1> QED BY <1>2, <1>3 DEF SessionStep

LEMMA StepIInv == IInv /\ [Next]_vars => IInv'
  <1> SUFFICES ASSUME IInv, [Next]_vars PROVE IInv'
    OBVIOUS
  <1>1. Base' /\ SessionStep
    BY StepBase, NextSessionStep DEF IInv
  <1>2. sessions' \in [Sessions -> Row]
    BY <1>1 DEF Base, TypeInv, TypeOK
  <1> QED BY <1>1, <1>2, StepNoHistory, StepOneActive, StepQuestionCount, StepActiveTheta
          DEF IInv

LEMMA IInvAlways == Spec => []IInv
  BY InitIInv, StepIInv, PTL DEF Spec

(* However many tabs race in Start and in claims, no user ever owns two
   ACTIVE sessions. *)
THEOREM OneActiveAlways == Spec => []OneActivePerUser
  <1>1. IInv => OneActivePerUser
    BY DEF IInv
  <1> QED BY <1>1, IInvAlways, PTL

(* question_count and the stored responses never drift apart. *)
THEOREM QuestionCountAlways == Spec => []QuestionCountMatches
  <1>1. IInv => QuestionCountMatches
    BY DEF IInv
  <1> QED BY <1>1, IInvAlways, PTL

(* An ACTIVE session's ability is the one its last stored response ended
   with, whichever of the racing requests stored it. *)
THEOREM ActiveThetaAlways == Spec => []ActiveThetaIsLast
  <1>1. IInv => ActiveThetaIsLast
    BY DEF IInv
  <1> QED BY <1>1, IInvAlways, PTL

(* The counter and the ability of a row summarise its history. *)
THEOREM RowSummaryAlways == Spec => []RowSummarisesHistory
  <1>1. QuestionCountMatches /\ ActiveThetaIsLast => RowSummarisesHistory
    BY DEF RowSummarisesHistory
  <1> QED BY <1>1, QuestionCountAlways, ActiveThetaAlways, PTL

-----------------------------------------------------------------------------
(* The action properties *)

(* An ended session never becomes ACTIVE again. *)
THEOREM NeverReactivated == Spec => NoReactivation
  <1> DEFINE A == \A s \in Sessions : sessions[s].status \in {"COMPLETED", "ABANDONED"} =>
                                         sessions'[s].status \in {"COMPLETED", "ABANDONED"}
  <1>1. ASSUME IInv, [Next]_vars PROVE A
    <2> SUFFICES ASSUME NEW s \in Sessions, sessions[s].status \in {"COMPLETED", "ABANDONED"}
                 PROVE  sessions'[s].status \in {"COMPLETED", "ABANDONED"}
      OBVIOUS
    <2>1. sessions \in [Sessions -> Row] /\ SessionStep
      BY <1>1, NextSessionStep DEF IInv, Base, TypeInv, TypeOK
    <2>2. CASE OnlyEnded
      BY <2>2 DEF OnlyEnded
    <2>3. ASSUME NEW x \in Sessions, Created(x) \/ Claimed(x) \/ Appended(x)
          PROVE  sessions'[s].status = sessions[s].status
      <3>1. s = x => ~Created(x)
        BY DEF Created
      <3> QED BY <2>1, <2>3, <3>1, RowAfter
    <2> QED BY <2>1, <2>2, <2>3 DEF SessionStep
  <1> HIDE DEF A
  <1>2. IInv /\ [Next]_vars => [A]_vars
    BY <1>1
  <1>3. Spec => [][A]_vars
    BY <1>2, IInvAlways, PTL DEF Spec
  <1> QED BY <1>3 DEF NoReactivation, A

(* No racing write loses, rewrites or reorders a stored response. *)
THEOREM HistoryKept == Spec => ResponsesOnlyGrow
  <1> DEFINE A == \A s \in Sessions : \A i \in DOMAIN sessions[s].responses :
                    /\ i \in DOMAIN sessions'[s].responses
                    /\ sessions'[s].responses[i] = sessions[s].responses[i]
  <1>1. ASSUME IInv, [Next]_vars PROVE A
    <2> SUFFICES ASSUME NEW s \in Sessions, NEW i \in DOMAIN sessions[s].responses
                 PROVE  /\ i \in DOMAIN sessions'[s].responses
                        /\ sessions'[s].responses[i] = sessions[s].responses[i]
      OBVIOUS
    <2>1. sessions \in [Sessions -> Row] /\ SessionStep
      BY <1>1, NextSessionStep DEF IInv, Base, TypeInv, TypeOK
    <2>2. sessions[s].responses \in Seq(Response) /\ sessions[s].responses # << >>
      BY <2>1 DEF Row
    <2>3. sessions[s].status # "NONE"
      BY <1>1, <2>2 DEF IInv, NoHistoryBeforeRow
    <2>4. CASE OnlyEnded
      BY <2>4 DEF OnlyEnded
    <2>5. ASSUME NEW x \in Sessions, Created(x) \/ Claimed(x) \/ Appended(x)
          PROVE  /\ i \in DOMAIN sessions'[s].responses
                 /\ sessions'[s].responses[i] = sessions[s].responses[i]
      <3>1. CASE s # x \/ Claimed(x)
        BY <2>1, <2>5, <3>1, RowAfter
      <3>2. CASE s = x /\ Appended(x)
        <4>1. PICK resp \in Response :
                sessions'[s].responses = Append(sessions[s].responses, resp)
          BY <2>1, <3>2, RowAfter
        <4> QED BY <2>2, <4>1, AppendProperties
      <3>3. s = x => ~Created(x)
        BY <2>3 DEF Created
      <3> QED BY <2>5, <3>1, <3>2, <3>3
    <2> QED BY <2>1, <2>4, <2>5 DEF SessionStep
  <1> HIDE DEF A
  <1>2. IInv /\ [Next]_vars => [A]_vars
    BY <1>1
  <1>3. Spec => [][A]_vars
    BY <1>2, IInvAlways, PTL DEF Spec
  <1> QED BY <1>3 DEF ResponsesOnlyGrow, A

(* Neither a response nor the end of a session is ever undone. *)
THEOREM RecordsStay == Spec => RecordsAreFinal
  BY NeverReactivated, HistoryKept DEF RecordsAreFinal

-----------------------------------------------------------------------------
(* Sets of places: a session and positions in its history *)

Places(S, at) == UNION {{<<s, i>> : i \in at[s]} : s \in S}

LEMMA PlacesMember ==
  ASSUME NEW S, NEW at, NEW x
  PROVE  x \in Places(S, at) <=> \E s \in S : \E i \in at[s] : x = <<s, i>>
  BY DEF Places

LEMMA PlacesSame ==
  ASSUME NEW S, NEW at, NEW after, \A s \in S : after[s] = at[s]
  PROVE  Places(S, after) = Places(S, at)
  <1>1. ASSUME NEW y PROVE y \in Places(S, after) <=> y \in Places(S, at)
    <2>1. (\E s \in S : \E i \in after[s] : y = <<s, i>>)
            <=> \E s \in S : \E i \in at[s] : y = <<s, i>>
      OBVIOUS
    <2> QED BY <2>1, PlacesMember
  <1> QED BY <1>1

(* Session s gains the place i and nothing else changes. *)
Gains(S, at, after, s, i) ==
  /\ s \in S /\ i \notin at[s] /\ after[s] = at[s] \cup {i}
  /\ \A x \in S : x # s => after[x] = at[x]

LEMMA PlacesAdd ==
  ASSUME NEW S, NEW at, NEW after, NEW s, NEW i, Gains(S, at, after, s, i)
  PROVE  Places(S, after) = Places(S, at) \cup {<<s, i>>} /\ <<s, i>> \notin Places(S, at)
  <1>0. /\ s \in S /\ i \notin at[s] /\ after[s] = at[s] \cup {i}
        /\ \A x \in S : x # s => after[x] = at[x]
    BY DEF Gains
  <1>1. <<s, i>> \notin Places(S, at)
    <2>1. ASSUME NEW x \in S, NEW j \in at[x], <<s, i>> = <<x, j>> PROVE FALSE
      BY <1>0, <2>1
    <2> QED BY <2>1, PlacesMember
  <1>2. ASSUME NEW y \in Places(S, after) PROVE y \in Places(S, at) \cup {<<s, i>>}
    <2>1. PICK x \in S : \E j \in after[x] : y = <<x, j>>
      BY PlacesMember
    <2>2. PICK j \in after[x] : y = <<x, j>>
      BY <2>1
    <2>3. j \in at[x] \/ (x = s /\ j = i)
      BY <1>0, <2>2
    <2> QED BY <2>2, <2>3, PlacesMember
  <1>3. ASSUME NEW y \in Places(S, at) PROVE y \in Places(S, after)
    <2>1. PICK x \in S : \E j \in at[x] : y = <<x, j>>
      BY PlacesMember
    <2>2. PICK j \in at[x] : y = <<x, j>>
      BY <2>1
    <2>3. j \in after[x]
      BY <1>0, <2>2
    <2> QED BY <2>2, <2>3, PlacesMember
  <1>4. <<s, i>> \in Places(S, after)
    BY <1>0, PlacesMember
  <1> QED BY <1>1, <1>2, <1>3, <1>4

-----------------------------------------------------------------------------
(* The attempt table covers the histories *)

GradedAt(rows, u, p) ==
  [s \in Sessions |-> {j \in DOMAIN rows[s].responses :
                         LET resp == rows[s].responses[j]
                         IN  resp.by = u /\ resp.problem = p /\ resp.outcome # "skipped"}]

LEMMA GradedPlaces ==
  ASSUME NEW u, NEW p
  PROVE  /\ Graded(u, p) = Places(Sessions, GradedAt(sessions, u, p))
         /\ Graded(u, p)' = Places(Sessions, GradedAt(sessions', u, p))
  BY DEF Graded, Places, GradedAt

SameHistories == \A s \in Sessions : sessions'[s].responses = sessions[s].responses

LEMMA GradedSame ==
  ASSUME NEW u, NEW p, SameHistories
  PROVE  Graded(u, p)' = Graded(u, p)
  <1>1. \A s \in Sessions : GradedAt(sessions', u, p)[s] = GradedAt(sessions, u, p)[s]
    BY DEF SameHistories, GradedAt
  <1> QED BY <1>1, GradedPlaces, PlacesSame

(* One response more is one graded place more, or none. *)
LEMMA GradedAppend ==
  ASSUME sessions \in [Sessions -> Row], NEW s \in Sessions, NEW resp \in Response,
         NEW u, NEW p,
         sessions'[s].responses = Append(sessions[s].responses, resp),
         \A x \in Sessions : x # s => sessions'[x].responses = sessions[x].responses
  PROVE  IF resp.by = u /\ resp.problem = p /\ resp.outcome # "skipped"
           THEN \E x : Graded(u, p)' = Graded(u, p) \cup {x} /\ x \notin Graded(u, p)
           ELSE Graded(u, p)' = Graded(u, p)
  <1> DEFINE before == GradedAt(sessions, u, p)
             after == GradedAt(sessions', u, p)
             rs == sessions[s].responses
             n == Len(rs) + 1
             matches == resp.by = u /\ resp.problem = p /\ resp.outcome # "skipped"
  <1>1. \A x \in Sessions : x # s => after[x] = before[x]
    BY DEF GradedAt
  <1>2. rs \in Seq(Response)
    BY DEF Row
  <1>3. /\ DOMAIN sessions'[s].responses = DOMAIN rs \cup {n}
        /\ n \notin DOMAIN rs
        /\ \A i \in DOMAIN rs : sessions'[s].responses[i] = rs[i]
        /\ sessions'[s].responses[n] = resp
    BY <1>2, AppendProperties
  <1>4. before[s] = {j \in DOMAIN rs : rs[j].by = u /\ rs[j].problem = p /\ rs[j].outcome # "skipped"}
    BY DEF GradedAt
  <1>5. after[s] = {j \in DOMAIN rs \cup {n} :
                      /\ sessions'[s].responses[j].by = u
                      /\ sessions'[s].responses[j].problem = p
                      /\ sessions'[s].responses[j].outcome # "skipped"}
    BY <1>3 DEF GradedAt
  <1>6. matches => after[s] = before[s] \cup {n} /\ n \notin before[s]
    BY <1>3, <1>4, <1>5
  <1>7. ~matches => after[s] = before[s]
    BY <1>3, <1>4, <1>5
  <1> HIDE DEF before, after, n
  <1>8. CASE matches
    <2>1. Gains(Sessions, before, after, s, n)
      BY <1>1, <1>6, <1>8 DEF Gains
    <2>2. Places(Sessions, after) = Places(Sessions, before) \cup {<<s, n>>}
          /\ <<s, n>> \notin Places(Sessions, before)
      BY <2>1, PlacesAdd
    <2> QED BY <1>8, <2>2, GradedPlaces DEF before, after
  <1>9. CASE ~matches
    <2>1. Places(Sessions, after) = Places(Sessions, before)
      BY <1>1, <1>7, <1>9, PlacesSame
    <2> QED BY <1>9, <2>1, GradedPlaces DEF before, after
  <1> QED BY <1>8, <1>9

Covered(u, p) ==
  LET answered == Cardinality(Graded(u, p)) + Cardinality(AboutToAppend(u, p))
  IN  /\ IsFiniteSet(Graded(u, p))
      /\ attempts[u][p] >= answered /\ (~Failures => attempts[u][p] = answered)

(* A Submit past its verdict does not carry the outcome of a skip. *)
OutcomesKnown ==
  \A r \in Requests : calls[r].step \in {"remediate", "record", "append"} =>
                        calls[r].outcome # "skipped"

CoverInv == OutcomesKnown /\ \A u \in Users, p \in Problems : Covered(u, p)

(* What a step may do to the account of one user and problem: nothing, count
   an attempt, store the response of a counted one, or give one up. *)
AccountStep(u, p) ==
  \/ Graded(u, p)' = Graded(u, p) /\ AboutToAppend(u, p)' = AboutToAppend(u, p)
     /\ attempts'[u][p] = attempts[u][p]
  \/ \E r \in Requests \ AboutToAppend(u, p) :
       /\ Graded(u, p)' = Graded(u, p)
       /\ AboutToAppend(u, p)' = AboutToAppend(u, p) \cup {r}
       /\ attempts'[u][p] = attempts[u][p] + 1
  \/ \E r \in AboutToAppend(u, p) :
       /\ \E x : Graded(u, p)' = Graded(u, p) \cup {x} /\ x \notin Graded(u, p)
       /\ AboutToAppend(u, p)' = AboutToAppend(u, p) \ {r}
       /\ attempts'[u][p] = attempts[u][p]
  \/ \E r \in Requests :
       /\ Failures
       /\ Graded(u, p)' = Graded(u, p)
       /\ AboutToAppend(u, p)' = AboutToAppend(u, p) \ {r}
       /\ attempts'[u][p] = attempts[u][p]

LEMMA AccountKept ==
  ASSUME NEW u \in Users, NEW p \in Problems, TypeOK, Covered(u, p), AccountStep(u, p)
  PROVE  Covered(u, p)'
  <1> DEFINE G == Graded(u, p)
             A == AboutToAppend(u, p)
             G2 == Graded(u, p)'
             A2 == AboutToAppend(u, p)'
             n == attempts[u][p]
             n2 == attempts'[u][p]
  <1>1. IsFiniteSet(G) /\ IsFiniteSet(A) /\ Cardinality(G) \in Nat /\ Cardinality(A) \in Nat
    <2>1. A \subseteq Requests
      BY DEF AboutToAppend
    <2> HIDE DEF A
    <2> QED BY <2>1, ConstantsAssumption, FS_Subset, FS_CardinalityType DEF Covered
  <1>2. n \in Nat
    BY DEF TypeOK
  <1>3. n >= Cardinality(G) + Cardinality(A) /\ (~Failures => n = Cardinality(G) + Cardinality(A))
    BY DEF Covered
  <1>4. SUFFICES IsFiniteSet(G2) /\ n2 >= Cardinality(G2) + Cardinality(A2)
                 /\ (~Failures => n2 = Cardinality(G2) + Cardinality(A2))
    BY DEF Covered
  <1>5. \/ G2 = G /\ A2 = A /\ n2 = n
        \/ \E r : r \notin A /\ G2 = G /\ A2 = A \cup {r} /\ n2 = n + 1
        \/ \E r \in A : (\E x : G2 = G \cup {x} /\ x \notin G) /\ A2 = A \ {r} /\ n2 = n
        \/ \E r : Failures /\ G2 = G /\ A2 = A \ {r} /\ n2 = n
    BY DEF AccountStep
  <1> HIDE DEF G, A, G2, A2, n, n2
  <1>6. ASSUME NEW r, r \notin A, G2 = G, A2 = A \cup {r}, n2 = n + 1
        PROVE  IsFiniteSet(G2) /\ n2 >= Cardinality(G2) + Cardinality(A2)
               /\ (~Failures => n2 = Cardinality(G2) + Cardinality(A2))
    <2>1. Cardinality(A2) = Cardinality(A) + 1
      BY <1>1, <1>6, FS_AddElement
    <2> QED BY <1>1, <1>2, <1>3, <1>6, <2>1
  <1>7. ASSUME NEW r \in A, NEW x, G2 = G \cup {x}, x \notin G, A2 = A \ {r}, n2 = n
        PROVE  IsFiniteSet(G2) /\ n2 >= Cardinality(G2) + Cardinality(A2)
               /\ (~Failures => n2 = Cardinality(G2) + Cardinality(A2))
    <2>1. IsFiniteSet(G2) /\ Cardinality(G2) = Cardinality(G) + 1
      BY <1>1, <1>7, FS_AddElement
    <2>2. Cardinality(A2) = Cardinality(A) - 1
      BY <1>1, <1>7, FS_RemoveElement
    <2> QED BY <1>1, <1>2, <1>3, <1>7, <2>1, <2>2
  <1>8. ASSUME NEW r, Failures, G2 = G, A2 = A \ {r}, n2 = n
        PROVE  IsFiniteSet(G2) /\ n2 >= Cardinality(G2) + Cardinality(A2)
               /\ (~Failures => n2 = Cardinality(G2) + Cardinality(A2))
    <2>1. Cardinality(A2) = Cardinality(A) - 1 \/ Cardinality(A2) = Cardinality(A)
      BY <1>1, <1>8, FS_RemoveElement
    <2> QED BY <1>1, <1>2, <1>3, <1>8, <2>1
  <1> QED BY <1>1, <1>2, <1>3, <1>5, <1>6, <1>7, <1>8

(* Every action but the two appends leaves the histories alone. *)
LEMMA HistoriesKept ==
  ASSUME IInv, [Next]_vars, \A r \in Requests : ~SubmitAppend(r) /\ ~SkipAppend(r)
  PROVE  SameHistories
  <1>1. sessions \in [Sessions -> Row] /\ CallsOK /\ CallsMatchRows /\ NoHistoryBeforeRow
    BY DEF IInv, Base, TypeInv, TypeOK
  <1> SUFFICES ASSUME NEW s \in Sessions PROVE sessions'[s].responses = sessions[s].responses
    BY DEF SameHistories
  <1>2. CASE UNCHANGED sessions
    BY <1>2
  <1>3. ASSUME NEW r \in Requests, StartCreate(r)
        PROVE  sessions'[s].responses = sessions[s].responses
    <2>1. sessions[calls[r].sess].status = "NONE" /\ calls[r].sess \in Sessions
      BY <1>1, <1>3 DEF StartCreate, CallsMatchRows, CallsOK, At
    <2>2. sessions[calls[r].sess].responses = << >>
      BY <1>1, <2>1 DEF NoHistoryBeforeRow
    <2> QED BY <1>1, <1>3, <2>2 DEF StartCreate, NoRow
  <1>4. ASSUME NEW r \in Requests, ClaimSession(r) \/ CloseAbandon(r) \/ CloseFinish(r)
        PROVE  sessions'[s].responses = sessions[s].responses
    <2>1. CASE ClaimSession(r)
      <3> DEFINE x == calls[r].sess
                 u == calls[r].user
      <3>1. CASE sessions' = sessions
        BY <3>1
      <3>2. CASE sessions' = [sessions EXCEPT ![x].owner = u, ![x].fresh = TRUE]
        <4> HIDE DEF x, u
        <4> QED BY <1>1, <3>2 DEF Row
      <3> QED BY <2>1, <3>1, <3>2 DEF ClaimSession
    <2>2. CASE CloseAbandon(r)
      BY <1>1, <2>2 DEF CloseAbandon, Row
    <2>3. CASE CloseFinish(r)
      BY <1>1, <2>3 DEF CloseFinish, Row
    <2> QED BY <1>4, <2>1, <2>2, <2>3
  <1>5. ASSUME NEW x \in Sessions, GrowStale(x)
        PROVE  sessions'[s].responses = sessions[s].responses
    BY <1>1, <1>5 DEF GrowStale, Row
  <1>8. CASE CleanupStale
    BY <1>1, <1>8 DEF CleanupStale, Row
  <1>6. ASSUME NEW r \in Requests, Arrive(r) \/ RequestFails(r)
        PROVE  UNCHANGED sessions
    BY <1>6 DEF Arrive, StartLoad, CloseLoad, SubmitLoad, SkipLoad, Issue, RequestFails, stores
  <1>7. ASSUME NEW r \in Requests, Proceed(r)
        PROVE  sessions'[s].responses = sessions[s].responses
    BY <1>3, <1>4, <1>7 DEF Proceed, SubmitVerdict, Remediate, RecordAttempt, CloseTally,
                            CloseProfile, CloseStats, stores
  <1> QED BY <1>2, <1>5, <1>6, <1>7, <1>8 DEF Next, Quiescent, vars, stores

(* A request changes only its own entry. *)
LEMMA OthersStay ==
  ASSUME IInv, NEW r \in Requests, Arrive(r) \/ Proceed(r) \/ RequestFails(r),
         NEW q \in Requests, q # r
  PROVE  calls'[q] = calls[q]
  <1>1. calls \in [Requests -> Call]
    BY DEF IInv, Base, TypeInv, TypeOK
  <1>2. ASSUME NEW c, Become(r, c) PROVE calls'[q] = calls[q]
    BY <1>1, <1>2 DEF Become
  <1>3. CASE Arrive(r)
    <2>1. ASSUME NEW op, NEW u, NEW s, NEW p, Load(r, op, u, s, p) PROVE calls'[q] = calls[q]
      BY <1>2, <2>1 DEF Load
    <2>2. ASSUME NEW u, NEW s, StartLoad(r, u, s) PROVE calls'[q] = calls[q]
      BY <1>2, <2>2 DEF StartLoad
    <2> QED BY <1>3, <2>1, <2>2 DEF Arrive, SubmitLoad, SkipLoad, CloseLoad
  <1>4. CASE Proceed(r) \/ RequestFails(r)
    BY <1>1, <1>4 DEF Proceed, RequestFails, Return, Goto, Become, ClaimSession, StartCreate,
       SubmitVerdict, Remediate, RecordAttempt, SubmitAppend, SkipAppend, CloseAbandon,
       CloseTally, CloseProfile, CloseStats, CloseFinish
  <1> QED BY <1>3, <1>4

(* How each handler moves on. *)
LEMMA StepsTaken ==
  ASSUME IInv, NEW r \in Requests
  PROVE  /\ Arrive(r) => calls[r].step = "idle" /\ calls'[r].step \notin {"remediate", "record", "append"}
         /\ ClaimSession(r) => calls[r].step = "claim"
                               /\ calls'[r].step \notin {"remediate", "record", "append"}
         /\ SubmitVerdict(r) => calls[r].step = "verdict" /\ calls'[r].step \in {"remediate", "record"}
                                /\ calls'[r].outcome # "skipped"
         /\ Remediate(r) => calls[r].step = "remediate" /\ calls'[r] = [calls[r] EXCEPT !.step = "record"]
         /\ RecordAttempt(r) => calls[r].step = "record" /\ calls'[r] = [calls[r] EXCEPT !.step = "append"]
         /\ CloseTally(r) \/ CloseProfile(r) \/ (\E t \in Topics : CloseStats(r, t)) =>
              calls[r].step \in {"tally", "profile", "stats"}
              /\ calls'[r].step \in {"profile", "stats", "finish"}
         /\ StartCreate(r) => calls[r].step = "create" /\ calls'[r] = Idle
         /\ SubmitAppend(r) => calls[r].step = "append" /\ calls'[r] = Idle
         /\ SkipAppend(r) => calls[r].step = "skip" /\ calls'[r] = Idle
         /\ CloseAbandon(r) => calls[r].step = "abandon" /\ calls'[r] = Idle
         /\ CloseFinish(r) => calls[r].step = "finish" /\ calls'[r] = Idle
         /\ RequestFails(r) => calls'[r] = Idle
         /\ Idle.step = "idle"
  <1>1. calls \in [Requests -> Call] /\ calls[r] \in Call
    BY DEF IInv, Base, TypeInv, TypeOK
  <1>2. ASSUME NEW c, Become(r, c) PROVE calls'[r] = c
    BY <1>1, <1>2 DEF Become
  <1>4. ASSUME Arrive(r)
        PROVE  calls[r].step = "idle" /\ calls'[r].step \notin {"remediate", "record", "append"}
    <2>1. calls[r].step = "idle"
      BY <1>4 DEF Arrive, StartLoad, SubmitLoad, SkipLoad, CloseLoad, Issue, At
    <2>2. ASSUME NEW op, NEW u, NEW s, NEW p, Load(r, op, u, s, p)
          PROVE  calls'[r].step \notin {"remediate", "record", "append"}
      BY <1>1, <2>2 DEF Load, Become, FirstStep, Idle
    <2>3. ASSUME NEW u, NEW s, StartLoad(r, u, s)
          PROVE  calls'[r].step \notin {"remediate", "record", "append"}
      BY <1>1, <2>3 DEF StartLoad, Become, Idle
    <2> QED BY <1>4, <2>1, <2>2, <2>3 DEF Arrive, SubmitLoad, SkipLoad, CloseLoad
  <1>5. ClaimSession(r) => calls[r].step = "claim"
                           /\ calls'[r].step \notin {"remediate", "record", "append"}
    BY <1>1 DEF ClaimSession, Become, FirstStep, At, Idle, Call
  <1>6. ASSUME SubmitVerdict(r)
        PROVE  calls[r].step = "verdict" /\ calls'[r].step \in {"remediate", "record"}
               /\ calls'[r].outcome # "skipped"
    <2>1. PICK ok \in BOOLEAN : \E t, q :
            Become(r, [calls[r] EXCEPT !.step = IF ok THEN "record" ELSE "remediate",
                                       !.outcome = IF ok THEN "correct" ELSE "wrong",
                                       !.after = t, !.next = q, !.dna = profile[calls[r].user]])
      BY <1>6 DEF SubmitVerdict
    <2>2. PICK t, q :
            Become(r, [calls[r] EXCEPT !.step = IF ok THEN "record" ELSE "remediate",
                                       !.outcome = IF ok THEN "correct" ELSE "wrong",
                                       !.after = t, !.next = q, !.dna = profile[calls[r].user]])
      BY <2>1
    <2> DEFINE d == [calls[r] EXCEPT !.step = IF ok THEN "record" ELSE "remediate",
                                     !.outcome = IF ok THEN "correct" ELSE "wrong",
                                     !.after = t, !.next = q, !.dna = profile[calls[r].user]]
    <2>3. d.step \in {"record", "remediate"} /\ d.outcome # "skipped"
      BY <1>1 DEF Call
    <2>4. calls'[r] = d
      BY <1>2, <2>2
    <2> HIDE DEF d
    <2> QED BY <1>6, <2>3, <2>4 DEF SubmitVerdict, At
  <1>7. Remediate(r) => calls[r].step = "remediate" /\ calls'[r] = [calls[r] EXCEPT !.step = "record"]
    BY <1>2 DEF Remediate, Goto, At
  <1>8. RecordAttempt(r) => calls[r].step = "record" /\ calls'[r] = [calls[r] EXCEPT !.step = "append"]
    BY <1>2 DEF RecordAttempt, Goto, At
  <1>9. CloseTally(r) => calls[r].step = "tally" /\ calls'[r].step = "profile"
    BY <1>1 DEF CloseTally, Become, At, Call
  <1>10. CloseProfile(r) => calls[r].step = "profile" /\ calls'[r].step = "stats"
    BY <1>1 DEF CloseProfile, Goto, Become, At, Call
  <1>11. ASSUME NEW t \in Topics, CloseStats(r, t)
         PROVE  calls[r].step = "stats" /\ calls'[r].step \in {"stats", "finish"}
    BY <1>1, <1>11 DEF CloseStats, Become, At, Call
  <1>12. /\ StartCreate(r) => calls[r].step = "create" /\ calls'[r] = Idle
         /\ SubmitAppend(r) => calls[r].step = "append" /\ calls'[r] = Idle
         /\ SkipAppend(r) => calls[r].step = "skip" /\ calls'[r] = Idle
         /\ CloseAbandon(r) => calls[r].step = "abandon" /\ calls'[r] = Idle
         /\ CloseFinish(r) => calls[r].step = "finish" /\ calls'[r] = Idle
         /\ RequestFails(r) => calls'[r] = Idle
    BY <1>2 DEF StartCreate, SubmitAppend, SkipAppend, CloseAbandon, CloseFinish, RequestFails,
                Return, At
  <1>13. Idle.step = "idle"
    BY DEF Idle
  <1> QED BY <1>4, <1>5, <1>6, <1>7, <1>8, <1>9, <1>10, <1>11, <1>12, <1>13

(* What the row of a session becomes when a response is appended to it. *)
LEMMA AppendEffect ==
  ASSUME sessions \in [Sessions -> Row], NEW s \in Sessions, NEW resp, NEW next,
         AppendResponse(s, resp, next)
  PROVE  /\ sessions'[s].responses = Append(sessions[s].responses, resp)
         /\ \A x \in Sessions : x # s => sessions'[x] = sessions[x]
         /\ sessions'[s].owner = sessions[s].owner
         /\ sessions'[s].status = sessions[s].status
         /\ sessions'[s].start = sessions[s].start
         /\ sessions'[s].current = next
         /\ sessions'[s].theta = resp.after
  <1>1. sessions[s] \in Row
    OBVIOUS
  <1> QED BY <1>1 DEF AppendResponse, Row

(* The response a Submit stores, and the one a Skip stores. *)
LEMMA SubmitStores ==
  ASSUME IInv, NEW r \in Requests, SubmitAppend(r)
  PROVE  LET c == calls[r]
             resp == ResponseOf(c, c.outcome, c.after)
         IN  /\ c \in Call /\ c.sess \in Sessions /\ c.user \in Users /\ c.prob \in Problems
             /\ resp \in Response
             /\ AppendResponse(c.sess, resp, c.next)
  <1>1. calls[r] \in Call /\ calls[r].sess \in Sessions /\ calls[r].user \in Users
        /\ calls[r].prob \in Problems
    BY DEF SubmitAppend, At, IInv, Base, TypeInv, TypeOK, CallsOK
  <1>2. ResponseOf(calls[r], calls[r].outcome, calls[r].after) \in Response
    BY <1>1, ResponseOfType DEF Call
  <1> QED BY <1>1, <1>2 DEF SubmitAppend

LEMMA SkipStores ==
  ASSUME IInv, NEW r \in Requests, SkipAppend(r)
  PROVE  LET c == calls[r]
             resp == ResponseOf(c, "skipped", c.row.theta)
         IN  /\ c \in Call /\ c.sess \in Sessions /\ c.user \in Users /\ c.prob \in Problems
             /\ resp \in Response
             /\ \E q \in NextChoices(c.prob, c.row.responses) : AppendResponse(c.sess, resp, q)
  <1>1. calls[r] \in Call /\ calls[r].sess \in Sessions /\ calls[r].user \in Users
        /\ calls[r].prob \in Problems
    BY DEF SkipAppend, At, IInv, Base, TypeInv, TypeOK, CallsOK
  <1>2. ResponseOf(calls[r], "skipped", calls[r].row.theta) \in Response
    BY <1>1, ResponseOfType DEF Call, Row, Outcome
  <1> QED BY <1>1, <1>2 DEF SkipAppend

LEMMA OutcomesStep ==
  ASSUME IInv, OutcomesKnown, [Next]_vars
  PROVE  OutcomesKnown'
  <1> SUFFICES ASSUME NEW q \in Requests, calls'[q].step \in {"remediate", "record", "append"}
               PROVE  calls'[q].outcome # "skipped"
    BY DEF OutcomesKnown
  <1>1. CASE UNCHANGED calls
    BY <1>1 DEF OutcomesKnown
  <1>2. ASSUME NEW r \in Requests, Arrive(r) \/ Proceed(r) \/ RequestFails(r)
        PROVE  calls'[q].outcome # "skipped"
    <2>1. CASE q # r
      BY <1>2, <2>1, OthersStay DEF OutcomesKnown
    <2>2. CASE q = r
      <3>1. calls[r] \in Call
        BY DEF IInv, Base, TypeInv, TypeOK
      <3>2. Remediate(r) \/ RecordAttempt(r) \/ SubmitVerdict(r)
        BY <1>2, <2>2, StepsTaken DEF Proceed
      <3>3. CASE Remediate(r) \/ RecordAttempt(r)
        <4>1. calls[r].outcome # "skipped"
          BY <1>2, <3>3, StepsTaken DEF OutcomesKnown
        <4>2. calls'[r] = [calls[r] EXCEPT !.step = "record"]
              \/ calls'[r] = [calls[r] EXCEPT !.step = "append"]
          BY <1>2, <3>3, StepsTaken
        <4> QED BY <2>2, <3>1, <4>1, <4>2 DEF Call
      <3> QED BY <1>2, <2>2, <3>2, <3>3, StepsTaken
    <2> QED BY <2>1, <2>2
  <1> QED BY <1>1, <1>2 DEF Next, GrowStale, CleanupStale, Quiescent, vars

LEMMA NextAccountStep ==
  ASSUME IInv, OutcomesKnown, [Next]_vars, NEW u \in Users, NEW p \in Problems
  PROVE  AccountStep(u, p)
  <1>1. /\ sessions \in [Sessions -> Row] /\ calls \in [Requests -> Call] /\ CallsOK
        /\ attempts \in [Users -> [Problems -> Nat]]
    BY DEF IInv, Base, TypeInv, TypeOK
  (* an action that concerns no counted attempt *)
  <1>2. ASSUME SameHistories, attempts'[u][p] = attempts[u][p],
               \A q \in Requests : /\ calls'[q].step = "append" => calls'[q] = calls[q]
                                   /\ calls[q].step = "append" => calls'[q] = calls[q]
        PROVE  AccountStep(u, p)
    <2>1. Graded(u, p)' = Graded(u, p)
      BY <1>2, GradedSame
    <2>2. AboutToAppend(u, p)' = AboutToAppend(u, p)
      BY <1>2 DEF AboutToAppend, At
    <2> QED BY <1>2, <2>1, <2>2 DEF AccountStep
  <1>3. ASSUME NEW r \in Requests, RecordAttempt(r) PROVE AccountStep(u, p)
    <2>1. SameHistories
      BY <1>3 DEF RecordAttempt, SameHistories
    <2>2. /\ calls[r].step = "record"
          /\ calls'[r] = [calls[r] EXCEPT !.step = "append"]
          /\ \A q \in Requests : q # r => calls'[q] = calls[q]
      BY <1>3, StepsTaken, OthersStay DEF Proceed
    <2>3. calls'[r].step = "append" /\ calls'[r].user = calls[r].user /\ calls'[r].prob = calls[r].prob
      BY <1>1, <2>2 DEF Call
    <2>4. calls[r].user \in Users /\ calls[r].prob \in Problems
      BY <1>1, <2>2 DEF CallsOK
    <2>5. attempts' = [attempts EXCEPT ![calls[r].user][calls[r].prob] = @ + 1]
      BY <1>3 DEF RecordAttempt
    <2>6. Graded(u, p)' = Graded(u, p)
      BY <2>1, GradedSame
    <2>7. CASE u = calls[r].user /\ p = calls[r].prob
      <3>1. r \notin AboutToAppend(u, p)
            /\ AboutToAppend(u, p)' = AboutToAppend(u, p) \cup {r}
        BY <2>2, <2>3, <2>7 DEF AboutToAppend, At
      <3>2. attempts'[u][p] = attempts[u][p] + 1
        BY <1>1, <2>4, <2>5, <2>7
      <3> QED BY <2>6, <3>1, <3>2 DEF AccountStep
    <2>8. CASE ~(u = calls[r].user /\ p = calls[r].prob)
      <3>1. AboutToAppend(u, p)' = AboutToAppend(u, p)
        BY <2>2, <2>3, <2>8 DEF AboutToAppend, At
      <3>2. attempts'[u][p] = attempts[u][p]
        BY <1>1, <2>4, <2>5, <2>8
      <3> QED BY <2>6, <3>1, <3>2 DEF AccountStep
    <2> QED BY <2>7, <2>8
  <1>4. ASSUME NEW r \in Requests, SubmitAppend(r) PROVE AccountStep(u, p)
    <2> DEFINE c == calls[r]
               resp == ResponseOf(c, c.outcome, c.after)
    <2>1. /\ c.sess \in Sessions /\ resp \in Response /\ AppendResponse(c.sess, resp, c.next)
          /\ c.step = "append" /\ UNCHANGED attempts
      BY <1>4, SubmitStores DEF SubmitAppend, At, learner
    <2>2. resp.by = c.user /\ resp.problem = c.prob /\ resp.outcome # "skipped"
      BY <2>1 DEF ResponseOf, OutcomesKnown
    <2>3. /\ sessions'[c.sess].responses = Append(sessions[c.sess].responses, resp)
          /\ \A x \in Sessions : x # c.sess => sessions'[x].responses = sessions[x].responses
      <3> HIDE DEF c, resp
      <3> QED BY <1>1, <2>1, AppendEffect
    <2>4. calls'[r].step = "idle" /\ \A q \in Requests : q # r => calls'[q] = calls[q]
      BY <1>4, StepsTaken, OthersStay DEF Proceed
    <2>5. IF u = c.user /\ p = c.prob
            THEN \E x : Graded(u, p)' = Graded(u, p) \cup {x} /\ x \notin Graded(u, p)
            ELSE Graded(u, p)' = Graded(u, p)
      <3> HIDE DEF c, resp
      <3>1. IF resp.by = u /\ resp.problem = p /\ resp.outcome # "skipped"
            THEN \E x : Graded(u, p)' = Graded(u, p) \cup {x} /\ x \notin Graded(u, p)
            ELSE Graded(u, p)' = Graded(u, p)
        BY <1>1, <2>1, <2>3, GradedAppend
      <3> QED BY <2>2, <3>1
    <2>6. CASE u = c.user /\ p = c.prob
      <3>1. r \in AboutToAppend(u, p) /\ AboutToAppend(u, p)' = AboutToAppend(u, p) \ {r}
        BY <2>1, <2>4, <2>6 DEF AboutToAppend, At
      <3>2. attempts'[u][p] = attempts[u][p]
        BY <2>1
      <3> QED BY <2>5, <2>6, <3>1, <3>2 DEF AccountStep
    <2>7. CASE ~(u = c.user /\ p = c.prob)
      <3>1. AboutToAppend(u, p)' = AboutToAppend(u, p)
        BY <2>1, <2>4, <2>7 DEF AboutToAppend, At
      <3>2. attempts'[u][p] = attempts[u][p]
        BY <2>1
      <3> QED BY <2>5, <2>7, <3>1, <3>2 DEF AccountStep
    <2> QED BY <2>6, <2>7
  <1>5. ASSUME NEW r \in Requests, SkipAppend(r) PROVE AccountStep(u, p)
    <2> DEFINE c == calls[r]
               resp == ResponseOf(c, "skipped", c.row.theta)
    <2>1. PICK q \in NextChoices(c.prob, c.row.responses) : AppendResponse(c.sess, resp, q)
      BY <1>5, SkipStores
    <2>2. c.sess \in Sessions /\ resp \in Response /\ c.step = "skip" /\ UNCHANGED attempts
      BY <1>5, SkipStores DEF SkipAppend, At, learner
    <2>3. resp.outcome = "skipped"
      BY DEF ResponseOf
    <2>4. calls'[r].step = "idle" /\ \A x \in Requests : x # r => calls'[x] = calls[x]
      BY <1>5, StepsTaken, OthersStay DEF Proceed
    <2>5. Graded(u, p)' = Graded(u, p)
      <3> HIDE DEF c, resp
      <3>1. /\ sessions'[c.sess].responses = Append(sessions[c.sess].responses, resp)
            /\ \A x \in Sessions : x # c.sess => sessions'[x].responses = sessions[x].responses
        BY <1>1, <2>1, <2>2, AppendEffect
      <3> QED BY <1>1, <2>2, <2>3, <3>1, GradedAppend
    <2>6. AboutToAppend(u, p)' = AboutToAppend(u, p)
      BY <2>2, <2>4 DEF AboutToAppend, At
    <2> QED BY <2>2, <2>5, <2>6 DEF AccountStep
  <1>6. ASSUME NEW r \in Requests, RequestFails(r) PROVE AccountStep(u, p)
    <2>1. SameHistories /\ Failures /\ UNCHANGED attempts
      BY <1>6 DEF RequestFails, SameHistories, stores, learner
    <2>2. calls'[r].step = "idle" /\ \A x \in Requests : x # r => calls'[x] = calls[x]
      BY <1>6, StepsTaken, OthersStay
    <2>3. AboutToAppend(u, p)' = AboutToAppend(u, p) \ {r}
      BY <2>2 DEF AboutToAppend, At
    <2> QED BY <2>1, <2>3, GradedSame DEF AccountStep
  <1>7. ASSUME NEW r \in Requests, Arrive(r) \/ Proceed(r),
               ~RecordAttempt(r), ~SubmitAppend(r), ~SkipAppend(r), SameHistories
        PROVE  AccountStep(u, p)
    <2>1. calls[r].step # "append" /\ calls'[r].step # "append"
          /\ \A q \in Requests : q # r => calls'[q] = calls[q]
      <3>1. calls[r] \in Call
        BY <1>1
      <3>2. calls[r].step # "append" /\ calls'[r].step # "append"
        <4>1. CASE Remediate(r)
          BY <3>1, <4>1, StepsTaken DEF Call
        <4> QED BY <1>7, <4>1, StepsTaken DEF Proceed
      <3> QED BY <1>7, <3>2, OthersStay
    <2>2. UNCHANGED attempts
      BY <1>7 DEF Arrive, StartLoad, SubmitLoad, SkipLoad, CloseLoad, Issue, Proceed, ClaimSession,
         StartCreate, SubmitVerdict, Remediate, CloseAbandon, CloseTally, CloseProfile, CloseStats,
         CloseFinish, stores, learner
    <2> QED BY <1>2, <1>7, <2>1, <2>2
  <1>8. ASSUME UNCHANGED <<calls, attempts>>, SameHistories PROVE AccountStep(u, p)
    BY <1>2, <1>8
  <1>9. CASE \E r \in Requests : SubmitAppend(r) \/ SkipAppend(r)
    BY <1>4, <1>5, <1>9
  <1>10. CASE \A r \in Requests : ~SubmitAppend(r) /\ ~SkipAppend(r)
    <2>1. SameHistories
      BY <1>10, HistoriesKept
    <2>2. CASE \E r \in Requests : Arrive(r) \/ Proceed(r) \/ RequestFails(r)
      BY <1>3, <1>6, <1>7, <1>10, <2>1, <2>2
    <2>3. CASE ~\E r \in Requests : Arrive(r) \/ Proceed(r) \/ RequestFails(r)
      <3>1. UNCHANGED <<calls, attempts>>
        BY <2>3 DEF Next, GrowStale, CleanupStale, Quiescent, vars, stores, learner
      <3> QED BY <1>8, <2>1, <3>1
    <2> QED BY <2>2, <2>3
  <1> QED BY <1>9, <1>10

LEMMA InitCover == Init => CoverInv
  <1> SUFFICES ASSUME Init PROVE CoverInv
    OBVIOUS
  <1>1. OutcomesKnown
    BY DEF Init, OutcomesKnown, Idle
  <1>2. ASSUME NEW u \in Users, NEW p \in Problems PROVE Covered(u, p)
    <2>1. Graded(u, p) = {}
      <3>1. \A s \in Sessions : sessions[s].responses = << >>
        BY DEF Init, NoRow
      <3>2. \A s \in Sessions : GradedAt(sessions, u, p)[s] = {}
        BY <3>1 DEF GradedAt
      <3> QED BY <3>2, GradedPlaces, PlacesMember
    <2>2. AboutToAppend(u, p) = {}
      BY DEF Init, AboutToAppend, At, Idle
    <2>3. attempts[u][p] = 0
      BY DEF Init
    <2> QED BY <2>1, <2>2, <2>3, FS_EmptySet DEF Covered
  <1> QED BY <1>1, <1>2 DEF CoverInv

(* However requests interleave and whatever fails, the attempt table never
   lags behind the stored history, and without failures it counts exactly
   the graded responses and the Submits between their two writes. *)
THEOREM AttemptsCoverAlways == Spec => []AttemptsCoverResponses
  <1>1. IInv /\ CoverInv /\ [Next]_vars => CoverInv'
    <2> SUFFICES ASSUME IInv, CoverInv, [Next]_vars PROVE CoverInv'
      OBVIOUS
    <2>1. ASSUME NEW u \in Users, NEW p \in Problems PROVE Covered(u, p)'
      BY NextAccountStep, AccountKept DEF CoverInv, IInv, Base, TypeInv
    <2> QED BY <2>1, OutcomesStep DEF CoverInv
  <1>2. CoverInv => AttemptsCoverResponses
    BY DEF CoverInv, Covered, AttemptsCoverResponses
  <1> QED BY <1>1, <1>2, InitCover, IInvAlways, PTL DEF Spec

-----------------------------------------------------------------------------
(* Users who wait for their answers *)

(* Every user keeps to one tab and waits for each answer, and none of them
   is the anonymous one, whose requests may act on any session. *)
Patient == OneTab = TRUE /\ Dev \notin Users

Running(r) == calls[r].step \notin {"idle", "create"}

OneRequestEach ==
  \A q, r \in Requests :
    calls[q].step # "idle" /\ calls[r].step # "idle" /\ calls[q].user = calls[r].user => q = r

OwnedByUsers == \A s \in Sessions : sessions[s].status # "NONE" => sessions[s].owner \in Users

(* A running request holds the row of its session as it still is, but for
   what the sweeper does. *)
Current(r) ==
  LET c == calls[r]
      row == sessions[c.sess]
  IN  /\ c.step # "claim"
      /\ row.owner = c.user /\ row.status # "COMPLETED"
      /\ c.row.responses = row.responses
      /\ c.row.theta = LastTheta(row)
      /\ c.row.count = Len(row.responses)

InTurn ==
  /\ OneRequestEach
  /\ OwnedByUsers
  /\ \A r \in Requests : Running(r) => Current(r)

LEMMA InitInTurn == Init => InTurn
  BY DEF Init, InTurn, OneRequestEach, OwnedByUsers, Running, Idle, NoRow

(* Requests of different users work on different sessions. *)
LEMMA SessionsApart ==
  ASSUME IInv, InTurn, NEW q \in Requests, NEW r \in Requests, q # r, Running(q),
         calls[r].step # "idle"
  PROVE  calls[r].sess # calls[q].sess
  <1>1. CASE calls[r].step = "create"
    BY <1>1 DEF IInv, Base, CallsMatchRows, At
  <1>2. CASE calls[r].step # "create"
    BY <1>2 DEF InTurn, OneRequestEach, Running, Current
  <1> QED BY <1>1, <1>2

(* What a load gives a user who waits. *)
LEMMA LoadCurrent ==
  ASSUME Patient, IInv, InTurn, NEW r \in Requests, NEW op \in {"submit", "skip", "close"},
         NEW u \in Users, NEW s \in Sessions, NEW p, Issue(r, u), Load(r, op, u, s, p)
  PROVE  /\ UNCHANGED sessions
         /\ sessions[s].owner = u /\ sessions[s].status = "ACTIVE"
         /\ calls'[r].user = u /\ calls'[r].sess = s /\ calls'[r].row = sessions[s]
         /\ calls'[r].prob = p
         /\ calls'[r].step = FirstStep(op, sessions[s])
         /\ \A q \in Requests : calls[q].user # u
         /\ Current(r)'
  <1>1. sessions \in [Sessions -> Row] /\ calls \in [Requests -> Call]
    BY DEF IInv, Base, TypeInv, TypeOK
  <1>2. UNCHANGED sessions /\ \A q \in Requests : calls[q].user # u
    BY DEF Issue, Patient, stores
  <1>3. sessions[s].owner = u /\ ~NeedsClaim(sessions[s], u)
    BY DEF Load, MayAct, NeedsClaim, Patient, InTurn, OwnedByUsers
  <1>4. sessions[s].status = "ACTIVE"
    BY <1>3 DEF Load
  <1> DEFINE c == [Idle EXCEPT !.step = FirstStep(op, sessions[s]), !.op = op, !.user = u,
                               !.sess = s, !.prob = p, !.row = sessions[s]]
  <1>5. Become(r, c)
    <2>1. [sessions[s] EXCEPT !.owner = @] = sessions[s]
      BY <1>1 DEF Row
    <2> QED BY <1>3, <2>1 DEF Load
  <1>6. /\ c.user = u /\ c.sess = s /\ c.row = sessions[s] /\ c.prob = p
        /\ c.step = FirstStep(op, sessions[s])
    BY DEF Idle
  <1>7. calls'[r] = c
    BY <1>1, <1>5 DEF Become
  <1> HIDE DEF c
  <1>8. Current(r)'
    <2>1. /\ sessions[s].theta = LastTheta(sessions[s])
          /\ sessions[s].count = Len(sessions[s].responses)
      BY <1>4 DEF IInv, ActiveThetaIsLast, QuestionCountMatches
    <2>2. FirstStep(op, sessions[s]) # "claim"
      BY DEF FirstStep
    <2> QED BY <1>2, <1>3, <1>4, <1>6, <1>7, <2>1, <2>2 DEF Current
  <1> QED BY <1>2, <1>3, <1>4, <1>6, <1>7, <1>8

(* A request that goes on keeps what it loaded, and the session stays as it is. *)
LEMMA KeepsView ==
  ASSUME IInv, InTurn, NEW r \in Requests, Running(r), Proceed(r), calls'[r] # Idle
  PROVE  /\ UNCHANGED sessions
         /\ calls'[r].step \notin {"idle", "create", "claim"}
         /\ calls'[r].user = calls[r].user /\ calls'[r].sess = calls[r].sess
         /\ calls'[r].row = calls[r].row /\ calls'[r].prob = calls[r].prob
  <1>1. calls \in [Requests -> Call] /\ calls[r] \in Call
    BY DEF IInv, Base, TypeInv, TypeOK
  <1>2. SubmitVerdict(r) \/ Remediate(r) \/ RecordAttempt(r) \/ CloseTally(r) \/ CloseProfile(r)
        \/ \E t \in Topics : CloseStats(r, t)
    BY StepsTaken DEF Proceed, InTurn, Current
  <1>3. UNCHANGED sessions
    BY <1>2 DEF SubmitVerdict, Remediate, RecordAttempt, CloseTally, CloseProfile, CloseStats, stores
  <1>4. CASE SubmitVerdict(r)
    <2>1. PICK ok \in BOOLEAN : \E t, q :
            Become(r, [calls[r] EXCEPT !.step = IF ok THEN "record" ELSE "remediate",
                                       !.outcome = IF ok THEN "correct" ELSE "wrong",
                                       !.after = t, !.next = q, !.dna = profile[calls[r].user]])
      BY <1>4 DEF SubmitVerdict
    <2>2. PICK t, q :
            Become(r, [calls[r] EXCEPT !.step = IF ok THEN "record" ELSE "remediate",
                                       !.outcome = IF ok THEN "correct" ELSE "wrong",
                                       !.after = t, !.next = q, !.dna = profile[calls[r].user]])
      BY <2>1
    <2> DEFINE d == [calls[r] EXCEPT !.step = IF ok THEN "record" ELSE "remediate",
                                     !.outcome = IF ok THEN "correct" ELSE "wrong",
                                     !.after = t, !.next = q, !.dna = profile[calls[r].user]]
    <2>3. d.step \in {"record", "remediate"} /\ d.user = calls[r].user /\ d.sess = calls[r].sess
          /\ d.row = calls[r].row /\ d.prob = calls[r].prob
      BY <1>1 DEF Call
    <2>4. calls'[r] = d
      BY <1>1, <2>2 DEF Become
    <2> HIDE DEF d
    <2> QED BY <1>3, <2>3, <2>4
  <1>5. CASE CloseTally(r)
    BY <1>1, <1>3, <1>5 DEF CloseTally, Become, Call
  <1>6. CASE Remediate(r) \/ RecordAttempt(r) \/ CloseProfile(r)
    BY <1>1, <1>3, <1>6 DEF Remediate, RecordAttempt, CloseProfile, Goto, Become, Call
  <1>7. ASSUME NEW t \in Topics, CloseStats(r, t)
        PROVE  /\ calls'[r].step \in {"stats", "finish"}
               /\ calls'[r].user = calls[r].user /\ calls'[r].sess = calls[r].sess
               /\ calls'[r].row = calls[r].row /\ calls'[r].prob = calls[r].prob
    BY <1>1, <1>7 DEF CloseStats, Become, At, Call
  <1> QED BY <1>2, <1>3, <1>4, <1>5, <1>6, <1>7

(* What the environment does to the row of a session. *)
SweepsOnly ==
  /\ UNCHANGED calls
  /\ \A s \in Sessions : /\ sessions'[s].owner = sessions[s].owner
                         /\ sessions'[s].responses = sessions[s].responses
                         /\ sessions'[s].start = sessions[s].start
                         /\ sessions'[s].current = sessions[s].current
                         /\ \/ sessions'[s].status = sessions[s].status
                            \/ sessions[s].status = "ACTIVE" /\ sessions'[s].status = "ABANDONED"

LEMMA RestSweeps ==
  ASSUME IInv, [Next]_vars, ~\E r \in Requests : Arrive(r) \/ Proceed(r) \/ RequestFails(r)
  PROVE  SweepsOnly /\ UNCHANGED learner
  <1>1. sessions \in [Sessions -> Row]
    BY DEF IInv, Base, TypeInv, TypeOK
  <1>2. CASE UNCHANGED vars
    BY <1>2 DEF SweepsOnly, vars, stores, learner
  <1>3. ASSUME NEW s \in Sessions, GrowStale(s) PROVE SweepsOnly /\ UNCHANGED learner
    BY <1>1, <1>3 DEF GrowStale, SweepsOnly, Row, learner
  <1>4. CASE CleanupStale
    BY <1>1, <1>4 DEF CleanupStale, Stale, SweepsOnly, Row, learner
  <1> QED BY <1>2, <1>3, <1>4 DEF Next, Quiescent

LEMMA CurrentKept ==
  ASSUME NEW q \in Requests, Current(q), calls'[q].step # "claim",
         calls'[q].user = calls[q].user, calls'[q].sess = calls[q].sess,
         calls'[q].row = calls[q].row,
         sessions'[calls[q].sess].owner = sessions[calls[q].sess].owner,
         sessions'[calls[q].sess].responses = sessions[calls[q].sess].responses,
         sessions'[calls[q].sess].start = sessions[calls[q].sess].start,
         sessions'[calls[q].sess].status # "COMPLETED"
  PROVE  Current(q)'
  BY DEF Current, LastTheta

LEMMA CurrentStep ==
  ASSUME Patient, IInv, InTurn, [Next]_vars, NEW q \in Requests, Running(q)'
  PROVE  Current(q)'
  <1>1. /\ sessions \in [Sessions -> Row] /\ calls \in [Requests -> Call] /\ CallsOK
        /\ IInv /\ [Next]_vars
    BY DEF IInv, Base, TypeInv, TypeOK
  <1>2. CASE ~\E r \in Requests : Arrive(r) \/ Proceed(r) \/ RequestFails(r)
    <2>1. SweepsOnly
      BY <1>1, <1>2, RestSweeps
    <2>2. Running(q) /\ calls[q].sess \in Sessions /\ Current(q)
      BY <1>1, <2>1 DEF SweepsOnly, Running, CallsOK, InTurn
    <2>3. sessions'[calls[q].sess].status # "COMPLETED"
      BY <2>1, <2>2 DEF SweepsOnly, Current
    <2>4. calls'[q] = calls[q] /\ calls[q].step # "claim"
      BY <2>1, <2>2 DEF SweepsOnly, Current
    <2> QED BY <2>1, <2>2, <2>3, <2>4, CurrentKept DEF SweepsOnly
  <1>3. ASSUME NEW r \in Requests, r # q, Arrive(r) \/ Proceed(r) \/ RequestFails(r)
        PROVE  Current(q)'
    <2>1. calls'[q] = calls[q] /\ Running(q)
      BY <1>3, OthersStay DEF Running
    <2>2. Current(q) /\ calls[q].sess \in Sessions
      BY <1>1, <2>1 DEF InTurn, Running, CallsOK
    <2>3. sessions'[calls[q].sess] = sessions[calls[q].sess]
      <3>1. CASE Arrive(r) \/ RequestFails(r)
        BY <3>1 DEF Arrive, StartLoad, SubmitLoad, SkipLoad, CloseLoad, Issue, RequestFails, stores
      <3>2. CASE Proceed(r)
        <4>1. calls[r].step # "idle"
          BY <3>2, StepsTaken DEF Proceed
        <4> QED BY <1>1, <1>3, <2>1, <2>2, <3>2, <4>1, SessionsApart, ProceedOwnRow
      <3> QED BY <1>3, <3>1, <3>2
    <2> QED BY <2>1, <2>2, <2>3, CurrentKept DEF Current
  <1>4. CASE Arrive(q)
    <2>1. ASSUME NEW op \in {"submit", "skip", "close"}, NEW u \in Users, NEW s \in Sessions,
                 NEW p, Issue(q, u), Load(q, op, u, s, p)
          PROVE  Current(q)'
      BY <2>1, LoadCurrent
    <2>2. ASSUME NEW u, NEW s, StartLoad(q, u, s) PROVE FALSE
      BY <1>1, <2>2 DEF StartLoad, Become, Idle, Running
    <2> QED BY <1>4, <2>1, <2>2 DEF Arrive, SubmitLoad, SkipLoad, CloseLoad
  <1>5. CASE Proceed(q)
    <2>1. calls'[q] # Idle /\ calls[q].step # "idle"
      BY <1>5, StepsTaken DEF Running, Proceed
    <2>2. calls[q].step # "create"
      BY <1>5, <2>1, StepsTaken DEF Proceed
    <2>3. Running(q)
      BY <2>1, <2>2 DEF Running
    <2>4. Current(q)
      BY <2>3 DEF InTurn
    <2> QED BY <1>5, <2>1, <2>3, <2>4, KeepsView, CurrentKept DEF Current
  <1>6. CASE RequestFails(q)
    BY <1>6, StepsTaken DEF Running
  <1> QED BY <1>2, <1>3, <1>4, <1>5, <1>6

(* Once its row exists a session keeps its owner, unless it is claimed, and
   the ability it started with. *)
LEMMA RowKeeps ==
  ASSUME IInv, NEW r \in Requests, Proceed(r), ~StartCreate(r), ~ClaimSession(r),
         NEW s \in Sessions
  PROVE  sessions'[s].owner = sessions[s].owner /\ sessions'[s].start = sessions[s].start
  <1>1. sessions \in [Sessions -> Row] /\ sessions[s] \in Row
    BY DEF IInv, Base, TypeInv, TypeOK
  <1>2. CASE UNCHANGED sessions
    BY <1>2
  <1>3. CASE SubmitAppend(r) \/ SkipAppend(r)
    <2>1. ASSUME NEW x, NEW resp, NEW next, AppendResponse(x, resp, next)
          PROVE  sessions'[s].owner = sessions[s].owner /\ sessions'[s].start = sessions[s].start
      BY <1>1, <2>1 DEF AppendResponse, Row
    <2> QED BY <1>3, <2>1 DEF SubmitAppend, SkipAppend
  <1>4. CASE CloseAbandon(r)
    BY <1>1, <1>4 DEF CloseAbandon, Row
  <1>5. CASE CloseFinish(r)
    BY <1>1, <1>5 DEF CloseFinish, Row
  <1> QED BY <1>2, <1>3, <1>4, <1>5 DEF Proceed, SubmitVerdict, Remediate, RecordAttempt,
          CloseTally, CloseProfile, CloseStats, stores

LEMMA InTurnStep ==
  ASSUME Patient, IInv, InTurn, [Next]_vars
  PROVE  InTurn'
  <1>1. /\ sessions \in [Sessions -> Row] /\ calls \in [Requests -> Call] /\ CallsOK
    BY DEF IInv, Base, TypeInv, TypeOK
  <1>2. ASSUME NEW q \in Requests, NEW r \in Requests, calls'[q].step # "idle",
               calls'[r].step # "idle", calls'[q].user = calls'[r].user
        PROVE  q = r
    <2>1. CASE ~\E x \in Requests : Arrive(x) \/ Proceed(x) \/ RequestFails(x)
      BY <1>2, <2>1, RestSweeps DEF SweepsOnly, InTurn, OneRequestEach
    <2>2. ASSUME NEW x \in Requests, Arrive(x)
          PROVE  q = r
      <3>1. /\ \A y \in Requests : calls[y].user # calls'[x].user
            /\ \A y \in Requests : y # x => calls'[y] = calls[y]
        <4>1. ASSUME NEW u \in Users, NEW s, StartLoad(x, u, s)
              PROVE  calls'[x].user = u /\ \A y \in Requests : calls[y].user # u
          BY <1>1, <4>1 DEF StartLoad, Issue, Become, Idle, Patient
        <4>2. ASSUME NEW op \in {"submit", "skip", "close"}, NEW u \in Users, NEW s \in Sessions,
                     NEW p, Issue(x, u), Load(x, op, u, s, p)
              PROVE  calls'[x].user = u /\ \A y \in Requests : calls[y].user # u
          BY <4>2, LoadCurrent
        <4>3. \A y \in Requests : calls[y].user # calls'[x].user
          BY <2>2, <4>1, <4>2 DEF Arrive, SubmitLoad, SkipLoad, CloseLoad
        <4> QED BY <2>2, <4>3, OthersStay
      <3> QED BY <1>2, <3>1 DEF InTurn, OneRequestEach
    <2>3. ASSUME NEW x \in Requests, Proceed(x) \/ RequestFails(x)
          PROVE  q = r
      <3>1. \A y \in Requests : y # x => calls'[y] = calls[y]
        BY <2>3, OthersStay
      <3>2. calls'[x].step # "idle" => calls[x].step # "idle" /\ calls'[x].user = calls[x].user
        <4>1. CASE RequestFails(x)
          BY <4>1, StepsTaken
        <4>2. ASSUME Proceed(x), calls'[x].step # "idle"
              PROVE  calls[x].step # "idle" /\ calls'[x].user = calls[x].user
          <5>1. calls[x].step # "idle" /\ calls[x].step # "create" /\ calls'[x] # Idle
            BY <4>2, StepsTaken DEF Proceed
          <5> QED BY <4>2, <5>1, KeepsView DEF Running
        <4> QED BY <2>3, <4>1, <4>2
      <3> QED BY <1>2, <3>1, <3>2 DEF InTurn, OneRequestEach
    <2> QED BY <2>1, <2>2, <2>3
  <1>3. ASSUME NEW s \in Sessions, sessions'[s].status # "NONE"
        PROVE  sessions'[s].owner \in Users
    <2>1. CASE UNCHANGED sessions
      BY <1>3, <2>1 DEF InTurn, OwnedByUsers
    <2>2. CASE SweepsOnly
      BY <1>3, <2>2 DEF SweepsOnly, InTurn, OwnedByUsers
    <2>3. ASSUME NEW r \in Requests, Proceed(r)
          PROVE  sessions'[s].owner \in Users
      <3>1. CASE calls[r].sess # s
        BY <1>1, <1>3, <2>3, <3>1, ProceedOwnRow DEF InTurn, OwnedByUsers
      <3>2. CASE calls[r].sess = s /\ StartCreate(r)
        <4>1. calls[r].user \in Users
          BY <1>1, <3>2 DEF StartCreate, At, CallsOK
        <4> QED BY <1>1, <1>3, <3>2, <4>1 DEF StartCreate, NoRow, InTurn, OwnedByUsers
      <3>3. CASE calls[r].sess = s /\ ~StartCreate(r)
        <4>1. calls[r].step # "idle" /\ calls[r].step # "create" /\ ~ClaimSession(r)
          <5>1. calls[r].step # "idle" /\ calls[r].step # "create"
            BY <2>3, <3>3, StepsTaken DEF Proceed
          <5> QED BY <5>1, StepsTaken DEF InTurn, Running, Current
        <4>2. Current(r) /\ calls[r].user \in Users
          BY <1>1, <4>1 DEF InTurn, Running, CallsOK
        <4>3. sessions'[s].owner = sessions[s].owner
          BY <2>3, <3>3, <4>1, RowKeeps
        <4> QED BY <3>3, <4>2, <4>3 DEF Current
      <3> QED BY <3>1, <3>2, <3>3
    <2>4. CASE \E r \in Requests : Arrive(r) \/ RequestFails(r)
      <3>1. UNCHANGED sessions
        BY <2>4 DEF Arrive, StartLoad, SubmitLoad, SkipLoad, CloseLoad, Issue, RequestFails, stores
      <3> QED BY <2>1, <3>1
    <2> QED BY <2>2, <2>3, <2>4, RestSweeps
  <1> QED BY <1>2, <1>3, CurrentStep DEF InTurn, OneRequestEach, OwnedByUsers

LEMMA InTurnAlways ==
  ASSUME Patient
  PROVE  Spec => []InTurn
  <1>1. IInv /\ InTurn /\ [Next]_vars => InTurn'
    BY InTurnStep
  <1> QED BY <1>1, InitInTurn, IInvAlways, PTL DEF Spec

-----------------------------------------------------------------------------
(* The history of a user who waits *)

(* A step that stores no response leaves what a history says, and what is
   offered after it, as they are. *)
LEMMA QuietRows ==
  ASSUME IInv, [Next]_vars, \A r \in Requests : ~SubmitAppend(r) /\ ~SkipAppend(r),
         NEW s \in Sessions, sessions'[s].responses # << >>
  PROVE  /\ sessions'[s].responses = sessions[s].responses
         /\ sessions'[s].start = sessions[s].start
         /\ sessions'[s].current = sessions[s].current
  <1>1. sessions \in [Sessions -> Row] /\ sessions[s] \in Row
    BY DEF IInv, Base, TypeInv, TypeOK
  <1>2. sessions'[s].responses = sessions[s].responses
    BY HistoriesKept DEF SameHistories
  <1>3. CASE UNCHANGED sessions
    BY <1>3
  <1>4. CASE ~\E r \in Requests : Arrive(r) \/ Proceed(r) \/ RequestFails(r)
    BY <1>4, RestSweeps DEF SweepsOnly
  <1>5. ASSUME NEW r \in Requests, StartCreate(r)
        PROVE  sessions'[s] = sessions[s]
    <2>1. sessions[s].status # "NONE"
      BY <1>2 DEF IInv, NoHistoryBeforeRow
    <2>2. sessions[calls[r].sess].status = "NONE"
      BY <1>5 DEF IInv, Base, CallsMatchRows, StartCreate
    <2>3. calls[r].sess # s
      BY <2>1, <2>2
    <2>4. Proceed(r)
      BY <1>5 DEF Proceed
    <2> QED BY <1>1, <2>3, <2>4, ProceedOwnRow
  <1>6. ASSUME NEW r \in Requests, ClaimSession(r) \/ CloseAbandon(r) \/ CloseFinish(r)
        PROVE  sessions'[s].start = sessions[s].start /\ sessions'[s].current = sessions[s].current
    <2>1. CASE ClaimSession(r)
      <3> DEFINE c == calls[r]
      <3>1. \/ UNCHANGED sessions
            \/ sessions' = [sessions EXCEPT ![c.sess].owner = c.user, ![c.sess].fresh = TRUE]
        BY <2>1 DEF ClaimSession
      <3> HIDE DEF c
      <3> QED BY <1>1, <3>1, SMTT(30) DEF Row
    <2>2. CASE CloseAbandon(r)
      BY <1>1, <2>2 DEF CloseAbandon, Row
    <2>3. CASE CloseFinish(r)
      BY <1>1, <2>3 DEF CloseFinish, Row
    <2> QED BY <1>6, <2>1, <2>2, <2>3
  <1>7. ASSUME NEW r \in Requests, Arrive(r) \/ RequestFails(r) PROVE UNCHANGED sessions
    BY <1>7 DEF Arrive, StartLoad, SubmitLoad, SkipLoad, CloseLoad, Issue, RequestFails, stores
  <1>8. ASSUME NEW r \in Requests, Proceed(r)
        PROVE  sessions'[s].start = sessions[s].start /\ sessions'[s].current = sessions[s].current
    BY <1>5, <1>6, <1>8 DEF Proceed, SubmitVerdict, Remediate, RecordAttempt, CloseTally,
                            CloseProfile, CloseStats, stores
  <1> QED BY <1>2, <1>3, <1>4, <1>7, <1>8

(* The response a waiting user's request stores continues the history that
   is in the row. *)
LEMMA StoredInTurn ==
  ASSUME IInv, InTurn, NEW r \in Requests, SubmitAppend(r) \/ SkipAppend(r)
  PROVE  LET c == calls[r] IN
         /\ c.sess \in Sessions /\ c.user \in Users /\ c.prob \in Problems
         /\ Running(r) /\ Current(r)
         /\ \A x \in Sessions : x # c.sess => sessions'[x] = sessions[x]
         /\ \E resp \in Response :
              /\ resp.problem = c.prob /\ resp.by = c.user
              /\ resp.number = Len(sessions[c.sess].responses) + 1
              /\ resp.before = LastTheta(sessions[c.sess])
              /\ resp.outcome = IF At(r, "append") THEN c.outcome ELSE "skipped"
              /\ sessions'[c.sess].responses = Append(sessions[c.sess].responses, resp)
         /\ sessions'[c.sess].start = sessions[c.sess].start
         /\ sessions'[c.sess].owner = sessions[c.sess].owner
         /\ sessions'[c.sess].status = sessions[c.sess].status
         /\ At(r, "append") => sessions'[c.sess].current = c.next
         /\ ~At(r, "append") => sessions'[c.sess].current \in NextChoices(c.prob, c.row.responses)
  <1> DEFINE c == calls[r]
  <1>1. sessions \in [Sessions -> Row]
    BY DEF IInv, Base, TypeInv, TypeOK
  <1>2. Running(r) /\ Current(r)
    BY DEF SubmitAppend, SkipAppend, At, Running, InTurn
  <1>0. PICK resp \in Response : \E next :
          /\ c.sess \in Sessions /\ c.user \in Users /\ c.prob \in Problems
          /\ \E after : resp = ResponseOf(c, IF At(r, "append") THEN c.outcome ELSE "skipped", after)
          /\ AppendResponse(c.sess, resp, next)
          /\ IF At(r, "append") THEN next = c.next ELSE next \in NextChoices(c.prob, c.row.responses)
    <2>1. CASE SubmitAppend(r)
      <3>1. At(r, "append")
        BY <2>1 DEF SubmitAppend
      <3> QED BY <2>1, <3>1, SubmitStores
    <2>2. CASE SkipAppend(r)
      <3>1. ~At(r, "append")
        BY <2>2 DEF SkipAppend, At
      <3> QED BY <2>2, <3>1, SkipStores
    <2> QED BY <2>1, <2>2
  <1>3. PICK next :
          /\ c.sess \in Sessions /\ c.user \in Users /\ c.prob \in Problems
          /\ \E after : resp = ResponseOf(c, IF At(r, "append") THEN c.outcome ELSE "skipped", after)
          /\ AppendResponse(c.sess, resp, next)
          /\ IF At(r, "append") THEN next = c.next ELSE next \in NextChoices(c.prob, c.row.responses)
    BY <1>0
  <1>4. /\ resp.problem = c.prob /\ resp.by = c.user /\ resp.number = c.row.count + 1
        /\ resp.before = c.row.theta
        /\ resp.outcome = IF At(r, "append") THEN c.outcome ELSE "skipped"
    BY <1>3 DEF ResponseOf
  <1>5. c.row.count = Len(sessions[c.sess].responses) /\ c.row.theta = LastTheta(sessions[c.sess])
    BY <1>2 DEF Current
  <1>6. /\ sessions'[c.sess].responses = Append(sessions[c.sess].responses, resp)
        /\ \A x \in Sessions : x # c.sess => sessions'[x] = sessions[x]
        /\ sessions'[c.sess].start = sessions[c.sess].start
        /\ sessions'[c.sess].owner = sessions[c.sess].owner
        /\ sessions'[c.sess].status = sessions[c.sess].status
        /\ sessions'[c.sess].current = next
    <2> HIDE DEF c
    <2> QED BY <1>1, <1>3, AppendEffect
  <1>7. \E x \in Response :
          /\ x.problem = c.prob /\ x.by = c.user
          /\ x.number = Len(sessions[c.sess].responses) + 1
          /\ x.before = LastTheta(sessions[c.sess])
          /\ x.outcome = IF At(r, "append") THEN c.outcome ELSE "skipped"
          /\ sessions'[c.sess].responses = Append(sessions[c.sess].responses, x)
    <2> HIDE DEF c
    <2> QED BY <1>4, <1>5, <1>6
  <1> QED BY <1>2, <1>3, <1>6, <1>7

ChainOf(row) ==
  \A i \in DOMAIN row.responses :
    LET rs == row.responses
    IN  /\ rs[i].number = i
        /\ rs[i].before = IF i = 1 THEN row.start ELSE rs[i - 1].after

LEMMA ChainAppend ==
  ASSUME NEW row \in Row, NEW new, NEW resp \in Response, ChainOf(row),
         new.start = row.start, new.responses = Append(row.responses, resp),
         resp.number = Len(row.responses) + 1, resp.before = LastTheta(row)
  PROVE  ChainOf(new)
  <1> DEFINE rs == row.responses
             n == Len(rs) + 1
  <1>1. rs \in Seq(Response)
    BY DEF Row
  <1>2. /\ DOMAIN new.responses = 1 .. n
        /\ \A i \in 1 .. Len(rs) : new.responses[i] = rs[i]
        /\ new.responses[n] = resp
    BY <1>1, AppendProperties
  <1>3. Len(rs) \in Nat /\ DOMAIN rs = 1 .. Len(rs)
    BY <1>1
  <1> SUFFICES ASSUME NEW i \in 1 .. n
               PROVE  /\ new.responses[i].number = i
                      /\ new.responses[i].before = IF i = 1 THEN new.start ELSE new.responses[i - 1].after
    BY <1>2 DEF ChainOf
  <1>4. CASE i \in 1 .. Len(rs)
    <2>1. rs[i].number = i /\ rs[i].before = IF i = 1 THEN row.start ELSE rs[i - 1].after
      BY <1>3, <1>4 DEF ChainOf
    <2>2. i # 1 => i - 1 \in 1 .. Len(rs)
      BY <1>3, <1>4
    <2> QED BY <1>2, <1>4, <2>1, <2>2
  <1>5. CASE i = n
    <2>1. Len(rs) = 0 => rs = << >>
      BY <1>1, EmptySeq
    <2>2. Len(rs) # 0 => rs # << >>
      OBVIOUS
    <2>3. resp.before = IF n = 1 THEN row.start ELSE rs[n - 1].after
      BY <1>3, <2>1, <2>2 DEF LastTheta
    <2>4. n # 1 => n - 1 \in 1 .. Len(rs)
      BY <1>3
    <2> QED BY <1>2, <1>5, <2>3, <2>4
  <1> QED BY <1>3, <1>4, <1>5

LEMMA ChainStep ==
  ASSUME Patient, IInv, InTurn, HistoryIsChain, [Next]_vars
  PROVE  HistoryIsChain'
  <1>1. sessions \in [Sessions -> Row] /\ \A s \in Sessions : ChainOf(sessions[s])
    BY DEF IInv, Base, TypeInv, TypeOK, HistoryIsChain, ChainOf
  <1>2. SUFFICES ASSUME NEW s \in Sessions PROVE ChainOf(sessions'[s])
    BY DEF HistoryIsChain, ChainOf
  <1>3. ASSUME NEW r \in Requests, SubmitAppend(r) \/ SkipAppend(r)
        PROVE  ChainOf(sessions'[s])
    <2>1. CASE s # calls[r].sess
      BY <1>1, <1>3, <2>1, StoredInTurn
    <2>2. CASE s = calls[r].sess
      <3>1. PICK resp \in Response :
              /\ resp.number = Len(sessions[s].responses) + 1
              /\ resp.before = LastTheta(sessions[s])
              /\ sessions'[s].responses = Append(sessions[s].responses, resp)
        BY <1>3, <2>2, StoredInTurn
      <3>2. sessions'[s].start = sessions[s].start
        BY <1>3, <2>2, StoredInTurn
      <3> QED BY <1>1, <3>1, <3>2, ChainAppend
    <2> QED BY <2>1, <2>2
  <1>4. CASE \A r \in Requests : ~SubmitAppend(r) /\ ~SkipAppend(r)
    <2>1. CASE sessions'[s].responses = << >>
      BY <2>1 DEF ChainOf
    <2>2. CASE sessions'[s].responses # << >>
      <3>1. sessions'[s].responses = sessions[s].responses /\ sessions'[s].start = sessions[s].start
        BY <1>4, <2>2, QuietRows
      <3> QED BY <1>1, <3>1 DEF ChainOf
    <2> QED BY <2>1, <2>2
  <1> QED BY <1>3, <1>4

(* As long as every user waits for the answer to each request, the stored
   history is a chain, whatever fails and whenever the sweeper runs: each
   response is numbered by its place and starts from the ability the one
   before it ended with. *)
THEOREM ChainAlways ==
  ASSUME Patient
  PROVE  Spec => []HistoryIsChain
  <1>1. Init => HistoryIsChain
    BY DEF Init, HistoryIsChain, NoRow
  <1>2. IInv /\ InTurn /\ HistoryIsChain /\ [Next]_vars => HistoryIsChain'
    BY ChainStep
  <1> QED BY <1>1, <1>2, InTurnAlways, IInvAlways, PTL DEF Spec

-----------------------------------------------------------------------------
(* What is offered next *)

LEMMA NextIsFresh ==
  ASSUME Failures = FALSE, NEW p, NEW rs, NEW q \in NextChoices(p, rs),
         q \in Answered(rs) \cup {p}
  PROVE  Scope \subseteq Answered(rs) \cup {p}
  <1> DEFINE unseen == Scope \ (Answered(rs) \cup {p})
             inTopics == {x \in Problems : TopicOf[x] \in ScopeTopics}
             levels == <<unseen, Scope \ {p}, inTopics \ {p}, Problems \ {p}>>
             nonEmpty == {i \in DOMAIN levels : levels[i] # {}}
             first == CHOOSE i \in nonEmpty : \A j \in nonEmpty : i <= j
  <1>1. SUFFICES ASSUME unseen # {} PROVE FALSE
    OBVIOUS
  <1>2. 1 \in nonEmpty /\ nonEmpty \subseteq 1 .. 4
    BY <1>1
  <1>3. q \in levels[first]
    BY <1>2 DEF NextChoices
  <1>4. levels[1] = unseen
    OBVIOUS
  <1>5. first = 1
    <2> HIDE DEF nonEmpty
    <2>1. 1 \in nonEmpty /\ \A j \in nonEmpty : 1 <= j
      BY <1>2
    <2>2. first \in nonEmpty /\ \A j \in nonEmpty : first <= j
      BY <2>1
    <2> HIDE DEF first
    <2>3. first \in 1 .. 4 /\ first <= 1
      BY <1>2, <2>1, <2>2
    <2> QED BY <2>3
  <1> HIDE DEF first, levels
  <1>6. q \in unseen
    BY <1>3, <1>4, <1>5
  <1> QED BY <1>6

(* Nothing answered is offered while the scope has something unanswered. *)
Offers(answered, q) == q \in answered => Scope \subseteq answered

LEMMA ChoicesOffer ==
  ASSUME Failures = FALSE, NEW p, NEW row,
         NEW q \in NextChoices(p, row.responses) \cup SimilarChoices(p, row)
  PROVE  Offers(Answered(row.responses) \cup {p}, q)
  BY NextIsFresh DEF Offers, SimilarChoices

FreshPending ==
  \A r \in Requests : calls[r].step \in {"remediate", "record", "append"} =>
    Offers(Answered(calls[r].row.responses) \cup {calls[r].prob}, calls[r].next)

LEMMA PendingStep ==
  ASSUME Failures = FALSE, IInv, InTurn, FreshPending, [Next]_vars
  PROVE  FreshPending'
  <1> SUFFICES ASSUME NEW q \in Requests, calls'[q].step \in {"remediate", "record", "append"}
               PROVE  Offers(Answered(calls'[q].row.responses) \cup {calls'[q].prob}, calls'[q].next)
    BY DEF FreshPending, Offers
  <1>1. calls \in [Requests -> Call] /\ calls[q] \in Call
    BY DEF IInv, Base, TypeInv, TypeOK
  <1>2. CASE calls'[q] = calls[q]
    BY <1>2 DEF FreshPending
  <1>3. CASE ~\E r \in Requests : Arrive(r) \/ Proceed(r) \/ RequestFails(r)
    BY <1>2, <1>3, RestSweeps DEF SweepsOnly
  <1>4. CASE SubmitVerdict(q)
    <2> DEFINE c == calls[q]
    <2>1. PICK ok \in BOOLEAN :
            \E t \in ThetaOutcomes(c.row.theta, ok),
               x \in NextChoices(c.prob, c.row.responses)
                       \cup (IF ok THEN {} ELSE SimilarChoices(c.prob, c.row)) :
              Become(q, [c EXCEPT !.step = IF ok THEN "record" ELSE "remediate",
                                  !.outcome = IF ok THEN "correct" ELSE "wrong",
                                  !.after = t, !.next = x, !.dna = profile[c.user]])
      BY <1>4 DEF SubmitVerdict
    <2>2. PICK t \in Theta, x \in NextChoices(c.prob, c.row.responses) \cup SimilarChoices(c.prob, c.row) :
              Become(q, [c EXCEPT !.step = IF ok THEN "record" ELSE "remediate",
                                  !.outcome = IF ok THEN "correct" ELSE "wrong",
                                  !.after = t, !.next = x, !.dna = profile[c.user]])
      BY <2>1 DEF ThetaOutcomes
    <2>3. Offers(Answered(c.row.responses) \cup {c.prob}, x)
      BY ChoicesOffer
    <2>4. calls'[q].next = x /\ calls'[q].row = c.row /\ calls'[q].prob = c.prob
      BY <1>1, <2>2 DEF Become, Call
    <2> QED BY <2>3, <2>4
  <1>5. CASE Remediate(q) \/ RecordAttempt(q)
    <2>1. \/ calls'[q] = [calls[q] EXCEPT !.step = "record"] /\ calls[q].step = "remediate"
          \/ calls'[q] = [calls[q] EXCEPT !.step = "append"] /\ calls[q].step = "record"
      BY <1>5, StepsTaken
    <2>2. calls'[q].next = calls[q].next /\ calls'[q].row = calls[q].row /\ calls'[q].prob = calls[q].prob
          /\ calls[q].step \in {"remediate", "record"}
      BY <1>1, <2>1 DEF Call
    <2> QED BY <2>2 DEF FreshPending
  <1>6. CASE (Arrive(q) \/ Proceed(q) \/ RequestFails(q))
             /\ ~SubmitVerdict(q) /\ ~Remediate(q) /\ ~RecordAttempt(q)
    BY <1>6, StepsTaken DEF Proceed
  <1> QED BY <1>2, <1>3, <1>4, <1>5, <1>6, OthersStay

LEMMA FreshStep ==
  ASSUME Failures = FALSE, IInv, InTurn, FreshPending, FreshUntilExhausted, [Next]_vars
  PROVE  FreshUntilExhausted'
  <1> SUFFICES ASSUME NEW s \in Sessions
               PROVE  Offers(Answered(sessions'[s].responses), sessions'[s].current)
    BY DEF FreshUntilExhausted, Offers
  <1>1. /\ sessions \in [Sessions -> Row]
        /\ Offers(Answered(sessions[s].responses), sessions[s].current)
    BY DEF IInv, Base, TypeInv, TypeOK, FreshUntilExhausted, Offers
  <1>2. ASSUME NEW r \in Requests, SubmitAppend(r) \/ SkipAppend(r)
        PROVE  Offers(Answered(sessions'[s].responses), sessions'[s].current)
    <2> DEFINE c == calls[r]
    <2>1. CASE s # c.sess
      BY <1>1, <1>2, <2>1, StoredInTurn
    <2>2. CASE s = c.sess
      <3>1. PICK resp \in Response : /\ resp.problem = c.prob
                                     /\ sessions'[s].responses = Append(sessions[s].responses, resp)
        BY <1>2, <2>2, StoredInTurn
      <3>2. Answered(sessions'[s].responses) = Answered(sessions[s].responses) \cup {c.prob}
        <4> DEFINE rs == sessions[s].responses
        <4>1. rs \in Seq(Response)
          BY <1>1 DEF Row
        <4>2. /\ DOMAIN Append(rs, resp) = DOMAIN rs \cup {Len(rs) + 1}
              /\ \A i \in DOMAIN rs : Append(rs, resp)[i] = rs[i]
              /\ Append(rs, resp)[Len(rs) + 1] = resp
          BY <4>1, AppendProperties
        <4> QED BY <3>1, <4>2 DEF Answered
      <3>3. c.row.responses = sessions[s].responses
        BY <1>2, <2>2, StoredInTurn DEF Current
      <3>4. CASE At(r, "append")
        <4>1. sessions'[s].current = c.next
          BY <1>2, <2>2, <3>4, StoredInTurn
        <4> QED BY <3>2, <3>3, <3>4, <4>1 DEF FreshPending, At
      <3>5. CASE ~At(r, "append")
        <4>1. sessions'[s].current \in NextChoices(c.prob, c.row.responses)
          BY <1>2, <2>2, <3>5, StoredInTurn
        <4> QED BY <3>2, <3>3, <4>1, NextIsFresh DEF Offers
      <3> QED BY <3>4, <3>5
    <2> QED BY <2>1, <2>2
  <1>3. CASE \A r \in Requests : ~SubmitAppend(r) /\ ~SkipAppend(r)
    <2>1. CASE sessions'[s].responses = << >>
      BY <2>1 DEF Answered, Offers
    <2>2. CASE sessions'[s].responses # << >>
      BY <1>1, <1>3, <2>2, QuietRows
    <2> QED BY <2>1, <2>2
  <1> QED BY <1>2, <1>3

(* Without failures, and as long as every user waits for each answer, a
   session offers a problem again only when its whole scope is answered. *)
THEOREM FreshAlways ==
  ASSUME Patient, Failures = FALSE
  PROVE  Spec => []FreshUntilExhausted
  <1>1. Init => FreshPending /\ FreshUntilExhausted
    BY DEF Init, FreshPending, FreshUntilExhausted, Idle, NoRow, Answered
  <1>2. IInv /\ InTurn /\ FreshPending /\ FreshUntilExhausted /\ [Next]_vars
          => (FreshPending /\ FreshUntilExhausted)'
    BY PendingStep, FreshStep
  <1> QED BY <1>1, <1>2, InTurnAlways, IInvAlways, PTL DEF Spec

-----------------------------------------------------------------------------
(* The ledger of a user who waits *)

TopicPlaces(rows, t) == [s \in Sessions |-> OnTopic(rows[s].responses, t)]

(* The responses on topic t in the COMPLETED sessions of u. *)
Counted(u, t) == Places(Completed(u), TopicPlaces(sessions, t))

LEMMA CountedPlaces ==
  ASSUME NEW u, NEW t
  PROVE  Counted(u, t) = UNION {{<<s, i>> : i \in OnTopic(sessions[s].responses, t)} : s \in Completed(u)}
  <1>1. Completed(u) \subseteq Sessions
    BY DEF Completed
  <1>2. \A s \in Completed(u) : TopicPlaces(sessions, t)[s] = OnTopic(sessions[s].responses, t)
    BY <1>1 DEF TopicPlaces
  <1> QED BY <1>2 DEF Counted, Places

AnsweredTopics(rs) == {t \in Topics : OnTopic(rs, t) # {}}

Closing(r) == calls[r].step \in {"stats", "finish"}

(* The ledger counts the COMPLETED sessions. *)
Settled(u) ==
  /\ profile[u] = Cardinality(Completed(u))
  /\ \A t \in Topics : topicStats[u][t] = Cardinality(Counted(u, t))

(* A Close between its first write and its last has counted its session in
   the profile, and its answers on the topics it is done with. *)
MidClose(r, u) ==
  LET c == calls[r]
  IN  /\ profile[u] = Cardinality(Completed(u)) + 1
      /\ \A t \in Topics :
           /\ c.base[t] = Cardinality(Counted(u, t))
           /\ topicStats[u][t] = Cardinality(Counted(u, t))
                 + (IF t \in c.todo THEN 0 ELSE Cardinality(OnTopic(c.row.responses, t)))
      /\ c.step = "finish" => c.todo = {}

HoldsLedger(r) ==
  LET c == calls[r] IN
  /\ c.step = "remediate" => c.dna = profile[c.user]
  /\ c.step = "profile" => /\ c.dna = profile[c.user] /\ c.base = topicStats[c.user]
                           /\ c.todo = AnsweredTopics(c.row.responses)
  /\ Closing(r) => \A u \in Users : c.user = u => MidClose(r, u)

LedgerInv ==
  /\ \A u \in Users, t \in Topics : IsFiniteSet(Counted(u, t))
  /\ \A u \in Users : (\A r \in Requests : Closing(r) => calls[r].user # u) => Settled(u)
  /\ \A r \in Requests : HoldsLedger(r)

LEMMA CompletedFinite ==
  ASSUME NEW u
  PROVE  IsFiniteSet(Completed(u)) /\ Cardinality(Completed(u)) \in Nat
  <1>1. Completed(u) \subseteq Sessions
    BY DEF Completed
  <1> QED BY <1>1, ConstantsAssumption, FS_Subset, FS_CardinalityType

LEMMA InitLedger == Init => LedgerInv
  <1> SUFFICES ASSUME Init PROVE LedgerInv
    OBVIOUS
  <1>1. ASSUME NEW u \in Users
        PROVE  Completed(u) = {} /\ \A t \in Topics : Counted(u, t) = {}
    <2>1. Completed(u) = {}
      BY DEF Init, Completed, NoRow
    <2> QED BY <2>1, PlacesMember DEF Counted
  <1>2. ASSUME NEW u \in Users PROVE Settled(u)
    BY <1>1, FS_EmptySet DEF Init, Settled
  <1>3. ASSUME NEW r \in Requests PROVE HoldsLedger(r)
    BY DEF Init, HoldsLedger, Closing, Idle
  <1> QED BY <1>1, <1>2, <1>3, FS_EmptySet DEF LedgerInv

(* Which sessions are COMPLETED, and what they hold, stays. *)
CompletedStay ==
  \A s \in Sessions :
    sessions[s].status = "COMPLETED" \/ sessions'[s].status = "COMPLETED" =>
      /\ sessions'[s].status = sessions[s].status
      /\ sessions'[s].owner = sessions[s].owner
      /\ sessions'[s].responses = sessions[s].responses

LEMMA CountsStay ==
  ASSUME CompletedStay, NEW u
  PROVE  Completed(u)' = Completed(u) /\ \A t : Counted(u, t)' = Counted(u, t)
  <1>1. Completed(u)' = Completed(u)
    BY DEF CompletedStay, Completed
  <1>2. ASSUME NEW t PROVE Counted(u, t)' = Counted(u, t)
    <2>1. \A s \in Completed(u) : TopicPlaces(sessions', t)[s] = TopicPlaces(sessions, t)[s]
      BY DEF CompletedStay, Completed, TopicPlaces
    <2>2. Places(Completed(u), TopicPlaces(sessions', t)) = Places(Completed(u), TopicPlaces(sessions, t))
      BY <2>1, PlacesSame
    <2>3. Counted(u, t)' = Places(Completed(u)', TopicPlaces(sessions', t))
      BY DEF Counted, TopicPlaces
    <2> QED BY <1>1, <2>2, <2>3 DEF Counted
  <1> QED BY <1>1, <1>2

(* Only the last write of a Close completes a session. *)
LEMMA CompletedStayStep ==
  ASSUME Patient, IInv, InTurn, [Next]_vars, \A r \in Requests : ~CloseFinish(r)
  PROVE  CompletedStay
  <1>1. sessions \in [Sessions -> Row] /\ CallsOK
    BY DEF IInv, Base, TypeInv, TypeOK
  <1>2. CASE UNCHANGED sessions
    BY <1>2 DEF CompletedStay
  <1>3. CASE ~\E r \in Requests : Arrive(r) \/ Proceed(r) \/ RequestFails(r)
    BY <1>3, RestSweeps DEF SweepsOnly, CompletedStay
  <1>4. ASSUME NEW r \in Requests, SubmitAppend(r) \/ SkipAppend(r) PROVE CompletedStay
    <2>1. sessions[calls[r].sess].status # "COMPLETED"
      BY <1>4, StoredInTurn DEF Current
    <2> QED BY <1>4, <2>1, StoredInTurn DEF CompletedStay
  <1>5. ASSUME NEW r \in Requests, CloseAbandon(r) PROVE CompletedStay
    <2>1. Running(r) /\ Current(r) /\ calls[r].sess \in Sessions
      BY <1>1, <1>5, StepsTaken DEF Running, InTurn, CallsOK
    <2>2. sessions[calls[r].sess].status # "COMPLETED"
      BY <2>1 DEF Current
    <2>3. sessions'[calls[r].sess].status # "COMPLETED"
      BY <1>1, <1>5, <2>1 DEF CloseAbandon, Row
    <2>4. \A s \in Sessions : s # calls[r].sess => sessions'[s] = sessions[s]
      BY <1>1, <1>5, ProceedOwnRow DEF Proceed
    <2> QED BY <2>2, <2>3, <2>4 DEF CompletedStay
  <1>6. ASSUME NEW r \in Requests, StartCreate(r) PROVE CompletedStay
    <2>1. calls[r].sess \in Sessions /\ sessions[calls[r].sess].status = "NONE"
      BY <1>1, <1>6, StepsTaken DEF IInv, Base, CallsMatchRows, CallsOK, StartCreate
    <2>2. sessions'[calls[r].sess].status # "COMPLETED"
      BY <1>1, <1>6, <2>1 DEF StartCreate, NoRow
    <2>3. \A s \in Sessions : s # calls[r].sess => sessions'[s] = sessions[s]
      BY <1>1, <1>6, ProceedOwnRow DEF Proceed
    <2> QED BY <2>1, <2>2, <2>3 DEF CompletedStay
  <1>7. ASSUME NEW r \in Requests PROVE ~ClaimSession(r)
    <2>1. ~(Running(r) /\ calls[r].step = "claim")
      BY DEF InTurn, Current
    <2> QED BY <2>1, StepsTaken DEF Running
  <1>8. ASSUME NEW r \in Requests, Arrive(r) \/ RequestFails(r) PROVE UNCHANGED sessions
    BY <1>8 DEF Arrive, StartLoad, SubmitLoad, SkipLoad, CloseLoad, Issue, RequestFails, stores
  <1>9. ASSUME NEW r \in Requests, Proceed(r) PROVE CompletedStay
    BY <1>2, <1>4, <1>5, <1>6, <1>7, <1>9 DEF Proceed, SubmitVerdict, Remediate, RecordAttempt,
       CloseTally, CloseProfile, CloseStats, stores
  <1> QED BY <1>2, <1>3, <1>8, <1>9

(* A step that writes neither the profile nor the statistics keeps the
   ledger, provided what the acting request now holds is right. *)
LEMMA LedgerQuiet ==
  ASSUME LedgerInv, CompletedStay, UNCHANGED <<profile, topicStats>>, NEW r \in Requests,
         \A q \in Requests : q # r => calls'[q] = calls[q],
         ~Closing(r), ~Closing(r)', HoldsLedger(r)'
  PROVE  LedgerInv'
  <1>1. \A u : Completed(u)' = Completed(u) /\ \A t : Counted(u, t)' = Counted(u, t)
    BY CountsStay
  <1>2. ASSUME NEW u \in Users, NEW t \in Topics PROVE IsFiniteSet(Counted(u, t))'
    BY <1>1 DEF LedgerInv
  <1>3. ASSUME NEW u \in Users, \A q \in Requests : Closing(q)' => calls'[q].user # u
        PROVE  Settled(u)'
    <2>1. \A q \in Requests : Closing(q) => calls[q].user # u
      BY <1>3 DEF Closing
    <2>2. Settled(u)
      BY <2>1 DEF LedgerInv
    <2> QED BY <1>1, <2>2 DEF Settled
  <1>4. ASSUME NEW q \in Requests, q # r PROVE HoldsLedger(q)'
    <2>1. calls'[q] = calls[q] /\ HoldsLedger(q)
      BY <1>4 DEF LedgerInv
    <2>2. ASSUME NEW u \in Users, calls'[q].user = u, Closing(q)' PROVE MidClose(q, u)'
      <3>1. MidClose(q, u)
        BY <2>1, <2>2 DEF HoldsLedger, Closing
      <3> QED BY <1>1, <2>1, <3>1 DEF MidClose
    <2> QED BY <2>1, <2>2 DEF HoldsLedger
  <1> QED BY <1>2, <1>3, <1>4 DEF LedgerInv

(* A write for one user leaves the ledgers of the others, and what their
   requests hold of them, as they are. *)
LEMMA LedgerWrite ==
  ASSUME LedgerInv, NEW r \in Requests, NEW v \in Users, calls[r].user = v,
         \A q \in Requests : q # r => /\ calls'[q] = calls[q]
                                      /\ calls[q].step # "idle" => calls[q].user # v,
         \A u \in Users : u # v => /\ profile'[u] = profile[u] /\ topicStats'[u] = topicStats[u]
                                   /\ Completed(u)' = Completed(u)
                                   /\ \A t \in Topics : Counted(u, t)' = Counted(u, t),
         \A q \in Requests : calls[q].step # "idle" => calls[q].user \in Users,
         \A t \in Topics : IsFiniteSet(Counted(v, t))',
         Settled(v)' \/ (Closing(r)' /\ calls'[r].user = v),
         ~Closing(r)' \/ calls'[r].user = v,
         HoldsLedger(r)'
  PROVE  LedgerInv'
  <1>1. ASSUME NEW u \in Users, NEW t \in Topics PROVE IsFiniteSet(Counted(u, t))'
    BY DEF LedgerInv
  <1>2. ASSUME NEW u \in Users, \A x \in Requests : Closing(x)' => calls'[x].user # u
        PROVE  Settled(u)'
    <2>1. CASE u = v
      BY <1>2, <2>1
    <2>2. CASE u # v
      <3>1. ASSUME NEW x \in Requests, Closing(x) PROVE calls[x].user # u
        <4>1. CASE x = r
          BY <2>2, <4>1
        <4>2. CASE x # r
          <5>1. calls'[x] = calls[x]
            BY <4>2
          <5>2. Closing(x)'
            BY <3>1, <5>1 DEF Closing
          <5> QED BY <1>2, <5>1, <5>2
        <4> QED BY <4>1, <4>2
      <3>2. Settled(u)
        BY <3>1 DEF LedgerInv
      <3>3. /\ profile'[u] = profile[u] /\ topicStats'[u] = topicStats[u]
            /\ Completed(u)' = Completed(u)
            /\ \A t \in Topics : Counted(u, t)' = Counted(u, t)
        BY <2>2
      <3> QED BY <3>2, <3>3 DEF Settled
    <2> QED BY <2>1, <2>2
  <1>3. ASSUME NEW q \in Requests, q # r PROVE HoldsLedger(q)'
    <2>1. calls'[q] = calls[q] /\ HoldsLedger(q) /\ (calls[q].step # "idle" => calls[q].user # v)
      BY <1>3 DEF LedgerInv
    <2>2. calls[q].step # "idle" => profile'[calls[q].user] = profile[calls[q].user]
                                    /\ topicStats'[calls[q].user] = topicStats[calls[q].user]
      BY <2>1
    <2>3. ASSUME NEW w \in Users, calls'[q].user = w, Closing(q)' PROVE MidClose(q, w)'
      <3>1. MidClose(q, w) /\ w # v
        BY <2>1, <2>3 DEF HoldsLedger, Closing
      <3> QED BY <2>1, <3>1 DEF MidClose
    <2> QED BY <2>1, <2>2, <2>3 DEF HoldsLedger
  <1> QED BY <1>1, <1>2, <1>3 DEF LedgerInv

(* One step is of one request. *)
LEMMA OnlyActor ==
  ASSUME IInv, NEW r \in Requests, CloseProfile(r) \/ \E t \in Topics : CloseStats(r, t),
         \A q \in Requests : q # r => calls'[q] = calls[q]
  PROVE  \A q \in Requests : ~CloseFinish(q)
  <1>1. ASSUME NEW q \in Requests, CloseFinish(q) PROVE FALSE
    <2>1. calls[q].step = "finish" /\ calls'[q] = Idle /\ Idle.step = "idle"
      BY <1>1, StepsTaken
    <2>2. q = r
      BY <2>1
    <2> QED BY <2>1, <2>2, StepsTaken
  <1> QED BY <1>1

(* A column of places, and the sets it is added to. *)
Joins(D, C, s, T) ==
  /\ IsFiniteSet(C) /\ IsFiniteSet(T)
  /\ D = C \cup ({s} \X T) /\ C \cap ({s} \X T) = {}

LEMMA JoinColumn ==
  ASSUME NEW C, NEW D, NEW s, NEW T, Joins(D, C, s, T)
  PROVE  IsFiniteSet(D) /\ Cardinality(D) = Cardinality(C) + Cardinality(T)
  <1> USE DEF Joins
  <1>1. IsFiniteSet({s}) /\ Cardinality({s}) = 1
    BY FS_Singleton
  <1>2. Cardinality(C) \in Nat /\ Cardinality(T) \in Nat
    BY FS_CardinalityType
  <1>3. IsFiniteSet({s} \X T) /\ Cardinality({s} \X T) = 1 * Cardinality(T)
    BY <1>1, FS_Product
  <1>4. /\ IsFiniteSet(D)
        /\ Cardinality(D) = Cardinality(C) + Cardinality({s} \X T) - Cardinality({})
    BY <1>3, FS_Union
  <1> QED BY <1>2, <1>3, <1>4, FS_EmptySet

(* Only the session s of v is completed. *)
Completes(s, v) ==
  /\ \A u \in Users : u # v => Completed(u)' = Completed(u)
  /\ Completed(v)' = Completed(v) \cup {s}
  /\ s \notin Completed(v)
  /\ sessions[s].owner = v
  /\ \A y \in Sessions : y # s => sessions'[y] = sessions[y]

LEMMA CountedGains ==
  ASSUME NEW x, NEW s \in Sessions, NEW v \in Users, Completes(s, v)
  PROVE  /\ \A u \in Users : u # v => Counted(u, x)' = Counted(u, x)
         /\ Counted(v, x)' = Counted(v, x) \cup ({s} \X OnTopic(sessions'[s].responses, x))
         /\ Counted(v, x) \cap ({s} \X OnTopic(sessions'[s].responses, x)) = {}
  <1> DEFINE before == TopicPlaces(sessions, x)
             after == TopicPlaces(sessions', x)
             column == OnTopic(sessions'[s].responses, x)
  <1> USE DEF Completes
  <1>1. \A u : Counted(u, x) = Places(Completed(u), before)
    BY DEF Counted
  <1>2. \A u : Counted(u, x)' = Places(Completed(u)', after)
    BY DEF Counted, TopicPlaces
  <1>3. (\A y \in Sessions : y # s => after[y] = before[y]) /\ after[s] = column
    BY DEF TopicPlaces
  <1>4. \A u : Completed(u) \subseteq Sessions
    BY DEF Completed
  <1> HIDE DEF before, after, column
  <1>5. ASSUME NEW u \in Users, u # v PROVE Counted(u, x)' = Counted(u, x)
    <2>1. s \notin Completed(u)
      BY <1>5 DEF Completed
    <2>2. \A y \in Completed(u) : after[y] = before[y]
      BY <1>3, <1>4, <2>1
    <2> QED BY <1>1, <1>2, <1>5, <2>2, PlacesSame
  <1>6. ASSUME NEW y PROVE y \in Counted(v, x)' <=> y \in Counted(v, x) \/ y \in {s} \X column
    <2>1. y \in Counted(v, x)' <=> \E z \in Completed(v) \cup {s} : \E i \in after[z] : y = <<z, i>>
      BY <1>2, PlacesMember
    <2>2. y \in Counted(v, x) <=> \E z \in Completed(v) : \E i \in before[z] : y = <<z, i>>
      BY <1>1, PlacesMember
    <2>3. y \in {s} \X column <=> \E i \in column : y = <<s, i>>
      OBVIOUS
    <2>4. \A z \in Completed(v) : after[z] = before[z]
      BY <1>3, <1>4
    <2> QED BY <1>3, <2>1, <2>2, <2>3, <2>4
  <1>7. ASSUME NEW y \in Counted(v, x), y \in {s} \X column PROVE FALSE
    <2>1. PICK z \in Completed(v) : \E i \in before[z] : y = <<z, i>>
      BY <1>1, <1>7, PlacesMember
    <2> QED BY <1>7, <2>1
  <1> QED BY <1>5, <1>6, <1>7 DEF column

LEMMA LedgerStep ==
  ASSUME Patient, Failures = FALSE, IInv, InTurn, LedgerInv, [Next]_vars
  PROVE  LedgerInv'
  <1>1. /\ sessions \in [Sessions -> Row] /\ calls \in [Requests -> Call] /\ CallsOK
        /\ profile \in [Users -> Nat] /\ topicStats \in [Users -> [Topics -> Nat]]
    BY DEF IInv, Base, TypeInv, TypeOK
  <1>2. CASE ~\E r \in Requests : Arrive(r) \/ Proceed(r) \/ RequestFails(r)
    <2>1. UNCHANGED <<calls, profile, topicStats>>
      BY <1>2, RestSweeps DEF SweepsOnly, learner
    <2>2. CompletedStay
      BY <1>2, StepsTaken, CompletedStayStep DEF Proceed
    <2>3. \A u : Completed(u)' = Completed(u) /\ \A t : Counted(u, t)' = Counted(u, t)
      BY <2>2, CountsStay
    <2>4. ASSUME NEW u \in Users PROVE Settled(u) => Settled(u)'
      BY <2>1, <2>3 DEF Settled
    <2>5. ASSUME NEW q \in Requests PROVE HoldsLedger(q)'
      <3>1. HoldsLedger(q)
        BY DEF LedgerInv
      <3>2. ASSUME NEW u \in Users, MidClose(q, u) PROVE MidClose(q, u)'
        BY <2>1, <2>3, <3>2 DEF MidClose
      <3> QED BY <2>1, <3>1, <3>2 DEF HoldsLedger, Closing
    <2>6. \A u \in Users, t \in Topics : IsFiniteSet(Counted(u, t))'
      BY <2>3 DEF LedgerInv
    <2> QED BY <2>1, <2>4, <2>5, <2>6 DEF LedgerInv, Closing
  (* what the acting request holds when it does not write the ledger *)
  <1>3. ASSUME NEW r \in Requests, Arrive(r) \/ Proceed(r),
               ~CloseProfile(r), ~CloseFinish(r), \A t \in Topics : ~CloseStats(r, t)
        PROVE  LedgerInv'
    <2>1. \A q \in Requests : q # r => calls'[q] = calls[q]
      BY <1>3, OthersStay
    <2>2. \A q \in Requests : ~CloseFinish(q)
      <3>1. ASSUME NEW q \in Requests, CloseFinish(q) PROVE q = r
        <4>1. calls[q].step = "finish" /\ calls'[q] = Idle /\ Idle.step = "idle"
          BY <3>1, StepsTaken
        <4>2. calls'[q] # calls[q]
          BY <4>1
        <4> QED BY <2>1, <4>2
      <3> QED BY <1>3, <3>1
    <2>3. CompletedStay
      BY <2>2, CompletedStayStep
    <2>4. UNCHANGED <<profile, topicStats>>
      <3>1. CASE Remediate(r)
        <4>1. calls[r].step = "remediate" /\ calls[r].user \in Users
          BY <1>1, <3>1, StepsTaken DEF CallsOK
        <4>2. calls[r].dna = profile[calls[r].user]
          BY <4>1 DEF LedgerInv, HoldsLedger
        <4>3. UNCHANGED profile
          BY <1>1, <3>1, <4>1, <4>2 DEF Remediate, BestEffort
        <4> QED BY <3>1, <4>3 DEF Remediate
      <3> QED BY <1>3, <3>1 DEF Arrive, StartLoad, SubmitLoad, SkipLoad, CloseLoad, Issue, Proceed,
              ClaimSession, StartCreate, SubmitVerdict, RecordAttempt, SubmitAppend, SkipAppend,
              CloseAbandon, CloseTally, stores, learner
    <2>5. ~Closing(r) /\ ~Closing(r)' /\ HoldsLedger(r)'
      <3>1. CASE Arrive(r)
        <4>1. calls[r].step = "idle"
          BY <3>1, StepsTaken
        <4>2. calls'[r].step \notin {"remediate", "profile", "stats", "finish"}
          <5>1. ASSUME NEW op, NEW u, NEW s, NEW p, Load(r, op, u, s, p)
                PROVE  calls'[r].step \notin {"remediate", "profile", "stats", "finish"}
            BY <1>1, <5>1 DEF Load, Become, FirstStep, Idle
          <5>2. ASSUME NEW u, NEW s, StartLoad(r, u, s)
                PROVE  calls'[r].step \notin {"remediate", "profile", "stats", "finish"}
            BY <1>1, <5>2 DEF StartLoad, Become, Idle
          <5> QED BY <3>1, <5>1, <5>2 DEF Arrive, SubmitLoad, SkipLoad, CloseLoad
        <4> QED BY <4>1, <4>2 DEF Closing, HoldsLedger
      <3>2. CASE SubmitVerdict(r)
        <4> DEFINE c == calls[r]
        <4>1. PICK ok \in BOOLEAN : \E t, q :
                Become(r, [c EXCEPT !.step = IF ok THEN "record" ELSE "remediate",
                                    !.outcome = IF ok THEN "correct" ELSE "wrong",
                                    !.after = t, !.next = q, !.dna = profile[c.user]])
          BY <3>2 DEF SubmitVerdict
        <4>2. PICK t, q :
                Become(r, [c EXCEPT !.step = IF ok THEN "record" ELSE "remediate",
                                    !.outcome = IF ok THEN "correct" ELSE "wrong",
                                    !.after = t, !.next = q, !.dna = profile[c.user]])
          BY <4>1
        <4>3. c.step = "verdict"
          BY <3>2, StepsTaken
        <4> DEFINE d == [c EXCEPT !.step = IF ok THEN "record" ELSE "remediate",
                                  !.outcome = IF ok THEN "correct" ELSE "wrong",
                                  !.after = t, !.next = q, !.dna = profile[c.user]]
        <4>4. d.step \in {"record", "remediate"} /\ d.dna = profile[c.user] /\ d.user = c.user
          BY <1>1 DEF Call
        <4>5. calls'[r] = d
          BY <1>1, <4>2 DEF Become
        <4> HIDE DEF d
        <4> QED BY <2>4, <4>3, <4>4, <4>5 DEF Closing, HoldsLedger
      <3>3. CASE CloseTally(r)
        <4> DEFINE c == calls[r]
                   d == [c EXCEPT !.step = "profile", !.dna = profile[c.user],
                                  !.base = topicStats[c.user],
                                  !.todo = AnsweredTopics(c.row.responses)]
        <4>1. calls'[r] = d
          BY <1>1, <3>3 DEF CloseTally, Become, AnsweredTopics
        <4>2. /\ d.step = "profile" /\ d.user = c.user /\ d.row = c.row /\ d.dna = profile[c.user]
              /\ d.base = topicStats[c.user] /\ d.todo = AnsweredTopics(c.row.responses)
          <5>1. c \in Call
            BY <1>1
          <5> HIDE DEF c
          <5> QED BY <5>1 DEF Call
        <4>3. c.step = "tally"
          BY <3>3 DEF CloseTally, At
        <4> HIDE DEF d
        <4> QED BY <2>4, <4>1, <4>2, <4>3 DEF Closing, HoldsLedger, AnsweredTopics
      <3>4. CASE Remediate(r) \/ RecordAttempt(r)
        <4>1. calls[r].step \in {"remediate", "record"} /\ calls'[r].step \in {"record", "append"}
          BY <1>1, <3>4 DEF Remediate, RecordAttempt, Goto, Become, At, Call
        <4> QED BY <4>1 DEF Closing, HoldsLedger
      <3>5. CASE StartCreate(r) \/ SubmitAppend(r) \/ SkipAppend(r) \/ CloseAbandon(r)
        <4>1. calls[r].step \in {"create", "append", "skip", "abandon"} /\ calls'[r].step = "idle"
          BY <3>5, StepsTaken
        <4> QED BY <4>1 DEF Closing, HoldsLedger
      <3>6. ~ClaimSession(r)
        BY StepsTaken DEF InTurn, Running, Current
      <3> QED BY <1>3, <3>1, <3>2, <3>3, <3>4, <3>5, <3>6 DEF Proceed
    <2> QED BY <2>1, <2>3, <2>4, <2>5, LedgerQuiet
  (* the three writes of a Close *)
  <1>4. ASSUME NEW r \in Requests,
               CloseProfile(r) \/ CloseFinish(r) \/ \E t \in Topics : CloseStats(r, t)
        PROVE  LedgerInv'
    <2> DEFINE c == calls[r]
               rs == c.row.responses
    <2>1. /\ c.user \in Users /\ c.sess \in Sessions /\ Running(r) /\ Current(r) /\ Proceed(r)
          /\ c.step \in {"profile", "stats", "finish"}
      <3>1. c.step \in {"profile", "stats", "finish"} /\ Proceed(r)
        BY <1>4 DEF CloseProfile, CloseStats, CloseFinish, At, Proceed
      <3> QED BY <1>1, <3>1 DEF CallsOK, Running, InTurn
    <2>2. PICK v \in Users : c.user = v
      BY <2>1
    <2>3. \A q \in Requests : q # r => /\ calls'[q] = calls[q]
                                       /\ calls[q].step # "idle" => calls[q].user # v
      <3>1. ASSUME NEW q \in Requests, q # r PROVE calls'[q] = calls[q]
        BY <2>1, <3>1, OthersStay
      <3>2. ASSUME NEW q \in Requests, q # r, calls[q].step # "idle" PROVE calls[q].user # v
        BY <2>1, <2>2, <3>2 DEF InTurn, OneRequestEach
      <3> QED BY <3>1, <3>2
    <2>4. \A q \in Requests : calls[q].step # "idle" => calls[q].user \in Users
      BY <1>1 DEF CallsOK
    <2>5. \A t \in Topics : IsFiniteSet(Counted(v, t)) /\ Cardinality(Counted(v, t)) \in Nat
      BY FS_CardinalityType DEF LedgerInv
    <2>6. Cardinality(Completed(v)) \in Nat
      BY CompletedFinite
    <2>7. rs = sessions[c.sess].responses /\ rs \in Seq(Response)
      BY <1>1, <2>1 DEF Current, Row
    <2>8. \A t \in Topics : Cardinality(OnTopic(rs, t)) \in Nat /\ IsFiniteSet(OnTopic(rs, t))
      BY <2>7, OnTopicFinite
    <2>9. CASE CloseProfile(r)
      <3>1. c.step = "profile" /\ calls'[r] = [c EXCEPT !.step = "stats"]
            /\ profile' = [profile EXCEPT ![c.user] = c.dna + 1] /\ UNCHANGED topicStats
        BY <1>1, <2>9 DEF CloseProfile, At, Goto, Become
      <3>2. CompletedStay
        <4>1. \A q \in Requests : q # r => calls'[q] = calls[q]
          BY <2>3
        <4>2. \A q \in Requests : ~CloseFinish(q)
          BY <2>9, <4>1, OnlyActor
        <4> QED BY <4>2, CompletedStayStep
      <3>3. \A u : Completed(u)' = Completed(u) /\ \A t : Counted(u, t)' = Counted(u, t)
        BY <3>2, CountsStay
      <3>4. Settled(v)
        <4>1. ~Closing(r)
          BY <3>1 DEF Closing
        <4>2. ASSUME NEW q \in Requests, q # r, Closing(q) PROVE calls[q].user # v
          <5>1. calls[q].step # "idle"
            BY <4>2 DEF Closing
          <5> QED BY <2>3, <4>2, <5>1
        <4>3. \A q \in Requests : Closing(q) => calls[q].user # v
          BY <4>1, <4>2
        <4> QED BY <4>3 DEF LedgerInv
      <3>5. c.dna = profile[v] /\ c.base = topicStats[v] /\ c.todo = AnsweredTopics(rs)
        BY <2>2, <3>1 DEF LedgerInv, HoldsLedger
      <3>6. /\ calls'[r].step = "stats" /\ calls'[r].user = v /\ calls'[r].base = c.base
            /\ calls'[r].todo = c.todo /\ calls'[r].row = c.row
        <4>1. c \in Call
          BY <1>1
        <4> HIDE DEF c
        <4> QED BY <2>2, <3>1, <4>1 DEF Call
      <3>7. profile'[v] = profile[v] + 1 /\ \A u \in Users : u # v => profile'[u] = profile[u]
        BY <1>1, <2>2, <3>1, <3>5
      <3>8. MidClose(r, v)'
        <4>1. profile'[v] = Cardinality(Completed(v)') + 1
          BY <3>3, <3>4, <3>7 DEF Settled
        <4>2. ASSUME NEW t \in Topics
              PROVE  /\ calls'[r].base[t] = Cardinality(Counted(v, t)')
                     /\ topicStats'[v][t] = Cardinality(Counted(v, t)')
                           + (IF t \in calls'[r].todo THEN 0
                              ELSE Cardinality(OnTopic(calls'[r].row.responses, t)))
          <5>1. topicStats[v][t] = Cardinality(Counted(v, t))
            BY <3>4 DEF Settled
          <5>2. t \notin c.todo => Cardinality(OnTopic(rs, t)) = 0
            BY <3>5, FS_EmptySet DEF AnsweredTopics
          <5> QED BY <2>5, <3>1, <3>3, <3>5, <3>6, <5>1, <5>2
        <4> QED BY <3>6, <4>1, <4>2 DEF MidClose
      <3>9. HoldsLedger(r)'
        BY <3>6, <3>8 DEF HoldsLedger
      <3> QED BY <2>2, <2>3, <2>4, <2>5, <3>1, <3>3, <3>6, <3>7, <3>9, LedgerWrite DEF Closing
    <2>10. ASSUME NEW t \in Topics, CloseStats(r, t) PROVE LedgerInv'
      <3>1. /\ c.step = "stats" /\ t \in c.todo
            /\ calls'[r] = [c EXCEPT !.todo = @ \ {t}, !.step = IF c.todo = {t} THEN "finish" ELSE @]
            /\ topicStats' = [topicStats EXCEPT ![c.user][t] = NewTotal(c, t)]
            /\ UNCHANGED profile
        BY <1>1, <2>10 DEF CloseStats, At, Become
      <3>2. CompletedStay
        <4>1. \A q \in Requests : q # r => calls'[q] = calls[q]
          BY <2>3
        <4>2. \A q \in Requests : ~CloseFinish(q)
          BY <2>10, <4>1, OnlyActor
        <4> QED BY <4>2, CompletedStayStep
      <3>3. \A u : Completed(u)' = Completed(u) /\ \A x : Counted(u, x)' = Counted(u, x)
        BY <3>2, CountsStay
      <3>4. MidClose(r, v)
        BY <2>2, <3>1 DEF LedgerInv, HoldsLedger, Closing
      <3>5. /\ calls'[r].step = IF c.todo = {t} THEN "finish" ELSE "stats"
            /\ calls'[r].user = v /\ calls'[r].base = c.base
            /\ calls'[r].todo = c.todo \ {t} /\ calls'[r].row = c.row
        <4>1. c \in Call
          BY <1>1
        <4> HIDE DEF c
        <4> QED BY <2>2, <3>1, <4>1 DEF Call
      <3>6. /\ topicStats'[v][t] = c.base[t] + Cardinality(OnTopic(rs, t))
            /\ \A x \in Topics : x # t => topicStats'[v][x] = topicStats[v][x]
            /\ \A u \in Users : u # v => topicStats'[u] = topicStats[u]
        <4>1. NewTotal(c, t) = c.base[t] + Cardinality(OnTopic(rs, t))
          BY DEF NewTotal
        <4> HIDE DEF c, rs
        <4> QED BY <1>1, <2>2, <3>1, <4>1
      <3>7. MidClose(r, v)'
        <4>1. profile'[v] = Cardinality(Completed(v)') + 1
          BY <3>1, <3>3, <3>4 DEF MidClose
        <4>2. ASSUME NEW x \in Topics
              PROVE  /\ calls'[r].base[x] = Cardinality(Counted(v, x)')
                     /\ topicStats'[v][x] = Cardinality(Counted(v, x)')
                           + (IF x \in calls'[r].todo THEN 0
                              ELSE Cardinality(OnTopic(calls'[r].row.responses, x)))
          BY <3>3, <3>4, <3>5, <3>6 DEF MidClose
        <4> QED BY <3>5, <4>1, <4>2 DEF MidClose
      <3>8. HoldsLedger(r)'
        BY <3>5, <3>7 DEF HoldsLedger
      <3> QED BY <2>2, <2>3, <2>4, <2>5, <3>1, <3>3, <3>5, <3>6, <3>8, LedgerWrite DEF Closing
    <2>11. CASE CloseFinish(r)
      <3> DEFINE s == c.sess
      <3>1. /\ c.step = "finish" /\ calls'[r] = Idle /\ Idle.step = "idle"
            /\ UNCHANGED <<profile, topicStats>>
        BY <2>11, StepsTaken DEF CloseFinish, learner
      <3>2. MidClose(r, v) /\ c.todo = {}
        BY <2>2, <3>1 DEF LedgerInv, HoldsLedger, Closing, MidClose
      <3>3. /\ sessions'[s].status = "COMPLETED" /\ sessions'[s].owner = v
            /\ sessions'[s].responses = rs
            /\ sessions[s].status # "COMPLETED" /\ sessions[s].owner = v
            /\ \A x \in Sessions : x # s => sessions'[x] = sessions[x]
        <4>1. sessions' = [sessions EXCEPT ![s].status = "COMPLETED", ![s].theta = c.row.theta,
                                           ![s].fresh = TRUE]
          BY <2>11 DEF CloseFinish
        <4>2. sessions[s] \in Row /\ sessions[s].owner = v /\ sessions[s].status # "COMPLETED"
              /\ sessions[s].responses = rs
          BY <1>1, <2>1, <2>2, <2>7 DEF Current
        <4> HIDE DEF c, rs
        <4> QED BY <1>1, <2>1, <4>1, <4>2 DEF Row
      <3>4. /\ \A u \in Users : u # v => Completed(u)' = Completed(u)
            /\ Completed(v)' = Completed(v) \cup {s} /\ s \notin Completed(v)
        <4> HIDE DEF c, rs
        <4> QED BY <2>1, <3>3 DEF Completed
      <3>5. ASSUME NEW x
            PROVE  /\ \A u \in Users : u # v => Counted(u, x)' = Counted(u, x)
                   /\ Counted(v, x)' = Counted(v, x) \cup ({s} \X OnTopic(rs, x))
                   /\ Counted(v, x) \cap ({s} \X OnTopic(rs, x)) = {}
        <4>1. Completes(s, v)
          BY <3>3, <3>4 DEF Completes
        <4> HIDE DEF c, s, rs
        <4>2. c.sess \in Sessions /\ s = c.sess
          BY <2>1 DEF s
        <4> QED BY <3>3, <4>1, <4>2, CountedGains
      <3>6. Settled(v)'
        <4>1. Cardinality(Completed(v)') = Cardinality(Completed(v)) + 1
          BY <3>4, CompletedFinite, FS_AddElement
        <4>2. ASSUME NEW x \in Topics
              PROVE  /\ IsFiniteSet(Counted(v, x)')
                     /\ Cardinality(Counted(v, x)') = Cardinality(Counted(v, x)) + Cardinality(OnTopic(rs, x))
          <5>1. Joins(Counted(v, x)', Counted(v, x), s, OnTopic(rs, x))
            BY <2>5, <2>8, <3>5 DEF Joins
          <5> QED BY <5>1, JoinColumn
        <4> QED BY <3>1, <3>2, <4>1, <4>2 DEF Settled, MidClose
      <3>7. \A x \in Topics : IsFiniteSet(Counted(v, x))'
        <4>1. ASSUME NEW x \in Topics PROVE IsFiniteSet(Counted(v, x))'
          <5>1. Joins(Counted(v, x)', Counted(v, x), s, OnTopic(rs, x))
            BY <2>5, <2>8, <3>5 DEF Joins
          <5> QED BY <5>1, JoinColumn
        <4> QED BY <4>1
      <3>8. HoldsLedger(r)' /\ ~Closing(r)'
        BY <3>1 DEF HoldsLedger, Closing
      <3> QED BY <2>2, <2>3, <2>4, <3>1, <3>4, <3>5, <3>6, <3>7, <3>8, LedgerWrite
    <2> QED BY <1>4, <2>9, <2>10, <2>11
  <1> QED BY <1>2, <1>3, <1>4 DEF RequestFails

(* Without failures, and as long as users wait: between requests the profile
   and the topic statistics count every COMPLETED session of the user, each
   once, and nothing of an abandoned one. *)
THEOREM LedgerAlways ==
  ASSUME Patient, Failures = FALSE
  PROVE  Spec => []LedgerMatchesSessions
  <1>1. IInv /\ InTurn /\ LedgerInv /\ [Next]_vars => LedgerInv'
    BY LedgerStep
  <1>2. TypeOK /\ LedgerInv => LedgerMatchesSessions
    <2> SUFFICES ASSUME LedgerInv, NEW u \in Users, Resting(u)
                 PROVE  /\ profile[u] = Cardinality(Completed(u))
                        /\ \A t \in Topics :
                             topicStats[u][t] =
                               Cardinality(UNION {{<<s, i>> : i \in OnTopic(sessions[s].responses, t)}
                                                  : s \in Completed(u)})
      BY DEF LedgerMatchesSessions
    <2>1. Settled(u)
      BY DEF LedgerInv, Resting
    <2> QED BY <2>1, CountedPlaces DEF Settled
  <1> QED BY <1>1, <1>2, InitLedger, TypeCorrect, InTurnAlways, IInvAlways, PTL DEF Spec

-----------------------------------------------------------------------------
(* The regenerations requested for a user who waits *)

(* A wrong answer after rs ends a run of at least k failures exactly when the
   last k - 1 responses of rs are failures too. *)
LEMMA RunLength ==
  ASSUME NEW rs \in Seq(Response), NEW k \in Nat \ {0}
  PROVE  ConsecutiveWrong(rs) >= k
           <=> /\ Len(rs) + 1 >= k
               /\ \A i \in (Len(rs) - k + 2) .. Len(rs) : rs[i].outcome = "wrong"
  <1> DEFINE L == Len(rs)
             W == {i \in DOMAIN rs : \A j \in i .. Len(rs) : rs[j].outcome = "wrong"}
             tail == (L - k + 2) .. L
  <1>1. L \in Nat /\ DOMAIN rs = 1 .. L /\ k \in Nat /\ k >= 1
    OBVIOUS
  <1>2. /\ IsFiniteSet(1 .. L) /\ Cardinality(1 .. L) = L
        /\ IsFiniteSet(tail) /\ Cardinality(tail) = k - 1
    <2>1. IsFiniteSet(1 .. L) /\ Cardinality(1 .. L) = IF 1 <= L THEN L - 1 + 1 ELSE 0
      BY <1>1, FS_Interval
    <2>2. L - k + 2 \in Int /\ L \in Int
      BY <1>1
    <2>3. /\ IsFiniteSet(tail)
          /\ Cardinality(tail) = IF L - k + 2 <= L THEN L - (L - k + 2) + 1 ELSE 0
      BY <2>2, FS_Interval
    <2> QED BY <1>1, <2>1, <2>3
  <1>3. W \subseteq 1 .. L
    BY <1>1
  <1>4. IsFiniteSet(W) /\ Cardinality(W) \in Nat /\ Cardinality(W) <= L
    BY <1>2, <1>3, FS_Subset, FS_CardinalityType
  <1>5. ConsecutiveWrong(rs) = 1 + Cardinality(W)
    BY DEF ConsecutiveWrong
  <1>6. ASSUME L + 1 >= k, \A i \in tail : rs[i].outcome = "wrong"
        PROVE  Cardinality(W) >= k - 1
    <2>1. ASSUME NEW i \in tail PROVE i \in W
      <3>1. i \in 1 .. L
        BY <1>1, <1>6
      <3>2. \A j \in i .. L : j \in tail
        BY <1>1
      <3> QED BY <1>1, <1>6, <3>1, <3>2
    <2>2. tail \subseteq W
      BY <2>1
    <2> HIDE DEF tail, W
    <2> QED BY <1>1, <1>2, <1>4, <2>2, FS_Subset, FS_CardinalityType
  <1>7. ASSUME Cardinality(W) >= k - 1, NEW i \in tail PROVE rs[i].outcome = "wrong"
    <2>1. L + 1 >= k /\ i \in 1 .. L
      BY <1>1, <1>4, <1>7
    <2>2. SUFFICES ASSUME rs[i].outcome # "wrong" PROVE FALSE
      OBVIOUS
    <2>3. W \subseteq (i + 1) .. L
      BY <1>1, <2>1, <2>2
    <2>4. IsFiniteSet((i + 1) .. L) /\ Cardinality((i + 1) .. L) = L - i
      <3>1. i \in Int /\ i + 1 \in Int /\ L \in Int /\ i <= L
        BY <1>1, <2>1
      <3>2. \A a, b \in Int : /\ IsFiniteSet(a .. b)
                              /\ Cardinality(a .. b) = IF a > b THEN 0 ELSE b - a + 1
        BY FS_Interval
      <3>3. PICK a \in Int : a = i + 1
        BY <3>1
      <3>4. IsFiniteSet(a .. L) /\ Cardinality(a .. L) = IF a > L THEN 0 ELSE L - a + 1
        BY <3>1, <3>2
      <3> HIDE DEF L
      <3>5. (IF a > L THEN 0 ELSE L - a + 1) = L - i
        BY <3>1, <3>3
      <3> QED BY <3>3, <3>4, <3>5
    <2>5. Cardinality(W) <= L - i
      <3> HIDE DEF W
      <3> QED BY <2>3, <2>4, FS_Subset
    <2>6. L - i <= k - 2
      BY <1>1, <1>7
    <2> HIDE DEF W
    <2> QED BY <1>1, <1>4, <1>7, <2>1, <2>5, <2>6
  <1>8. Cardinality(W) >= k - 1 => L + 1 >= k
    <2> HIDE DEF W
    <2> QED BY <1>1, <1>4
  <1> HIDE DEF W
  <1>9. 1 + Cardinality(W) >= k <=> Cardinality(W) >= k - 1
    BY <1>1, <1>4
  <1> QED BY <1>5, <1>6, <1>7, <1>8, <1>9

StreakPositions(rs) ==
  {j \in DOMAIN rs : /\ j >= RemediationStreak
                     /\ \A k \in (j - RemediationStreak + 1) .. j : rs[k].outcome = "wrong"}

Extends(rs, outcome) == outcome = "wrong" /\ ConsecutiveWrong(rs) >= RemediationStreak

LEMMA StreakAppend ==
  ASSUME NEW rs \in Seq(Response), NEW resp \in Response
  PROVE  /\ Len(rs) + 1 \notin StreakPositions(rs)
         /\ StreakPositions(Append(rs, resp)) =
              IF Extends(rs, resp.outcome) THEN StreakPositions(rs) \cup {Len(rs) + 1}
                                           ELSE StreakPositions(rs)
  <1> DEFINE L == Len(rs)
             new == Append(rs, resp)
             R == RemediationStreak
  <1>1. /\ L \in Nat /\ DOMAIN rs = 1 .. L /\ DOMAIN new = 1 .. (L + 1)
        /\ \A i \in 1 .. L : new[i] = rs[i]
        /\ new[L + 1] = resp
    BY AppendProperties
  <1>2. R \in Nat \ {0}
    BY ConstantsAssumption
  <1> HIDE DEF new, L, R
  <1>3. ASSUME NEW j \in 1 .. L PROVE j \in StreakPositions(new) <=> j \in StreakPositions(rs)
    <2>1. ASSUME j >= R, NEW k \in (j - R + 1) .. j PROVE new[k] = rs[k]
      <3>1. k \in 1 .. L
        BY <1>1, <1>2, <2>1
      <3> QED BY <1>1, <3>1
    <2>2. j \in DOMAIN new /\ j \in DOMAIN rs
      BY <1>1
    <2>3. j >= R => ((\A k \in (j - R + 1) .. j : new[k].outcome = "wrong")
                       <=> \A k \in (j - R + 1) .. j : rs[k].outcome = "wrong")
      BY <2>1
    <2> QED BY <2>2, <2>3 DEF StreakPositions, R
  <1>4. L + 1 \in StreakPositions(new) <=> Extends(rs, resp.outcome)
    <2> DEFINE m == L + 1
    <2>1. Extends(rs, resp.outcome)
            <=> /\ resp.outcome = "wrong" /\ L + 1 >= R
                /\ \A i \in (L - R + 2) .. L : rs[i].outcome = "wrong"
      BY <1>2, RunLength DEF Extends, L, R
    <2>2. m \in Nat /\ m = L + 1 /\ m \in DOMAIN new
      BY <1>1
    <2> HIDE DEF m
    <2>3. m \in StreakPositions(new)
            <=> m >= R /\ \A i \in (m - R + 1) .. m : new[i].outcome = "wrong"
      BY <2>2 DEF StreakPositions, R
    <2>4. ASSUME m >= R
          PROVE  (\A i \in (m - R + 1) .. m : new[i].outcome = "wrong")
                   <=> /\ resp.outcome = "wrong"
                       /\ \A i \in (L - R + 2) .. L : rs[i].outcome = "wrong"
      <3>1. ASSUME NEW i PROVE i \in (m - R + 1) .. m <=> i \in (L - R + 2) .. L \/ i = m
        BY <1>1, <1>2, <2>2
      <3>2. \A i \in (L - R + 2) .. L : new[i] = rs[i]
        BY <1>1, <1>2, <2>2, <2>4
      <3> QED BY <1>1, <2>2, <3>1, <3>2
    <2> QED BY <2>1, <2>2, <2>3, <2>4
  <1>5. \A j : j \in 1 .. (L + 1) <=> j \in 1 .. L \/ j = L + 1
    BY <1>1
  <1>6. L + 1 \notin StreakPositions(rs)
    BY <1>1 DEF StreakPositions
  <1>7. \A j : j \in StreakPositions(new) => j \in 1 .. (L + 1)
    BY <1>1 DEF StreakPositions
  <1>8. \A j : j \in StreakPositions(rs) => j \in 1 .. L
    BY <1>1 DEF StreakPositions
  <1>9. StreakPositions(new) = IF Extends(rs, resp.outcome) THEN StreakPositions(rs) \cup {L + 1}
                                                            ELSE StreakPositions(rs)
    <2>1. ASSUME NEW j PROVE j \in StreakPositions(new)
                               <=> j \in StreakPositions(rs) \/ (j = L + 1 /\ Extends(rs, resp.outcome))
      <3>1. CASE j \in 1 .. L
        BY <1>1, <1>3, <3>1
      <3>2. CASE j = L + 1
        BY <1>4, <1>6, <3>2
      <3>3. CASE j \notin 1 .. (L + 1)
        BY <1>5, <1>7, <1>8, <3>3
      <3> QED BY <1>5, <3>1, <3>2, <3>3
    <2>2. CASE Extends(rs, resp.outcome)
      BY <2>1, <2>2
    <2>3. CASE ~Extends(rs, resp.outcome)
      BY <2>1, <2>3
    <2> QED BY <2>2, <2>3
  <1> QED BY <1>6, <1>9 DEF new, L

StreakAt(rows, u) ==
  [s \in Sessions |-> IF rows[s].owner = u THEN StreakPositions(rows[s].responses) ELSE {}]

LEMMA StreakPlaces ==
  ASSUME NEW u
  PROVE  /\ StreakEnds(u) = Places(Sessions, StreakAt(sessions, u))
         /\ StreakEnds(u)' = Places(Sessions, StreakAt(sessions', u))
  <1>1. ASSUME NEW y PROVE y \in StreakEnds(u) <=> y \in Places(Sessions, StreakAt(sessions, u))
    <2>1. y \in StreakEnds(u)
            <=> \E s \in {x \in Sessions : sessions[x].owner = u} :
                  \E i \in StreakPositions(sessions[s].responses) : y = <<s, i>>
      BY DEF StreakEnds, StreakPositions
    <2>2. y \in Places(Sessions, StreakAt(sessions, u))
            <=> \E s \in Sessions : \E i \in StreakAt(sessions, u)[s] : y = <<s, i>>
      BY PlacesMember
    <2>3. \A s \in Sessions : StreakAt(sessions, u)[s] =
            IF sessions[s].owner = u THEN StreakPositions(sessions[s].responses) ELSE {}
      BY DEF StreakAt
    <2> QED BY <2>1, <2>2, <2>3
  <1>2. ASSUME NEW y PROVE y \in StreakEnds(u)' <=> y \in Places(Sessions, StreakAt(sessions', u))
    <2>1. y \in StreakEnds(u)'
            <=> \E s \in {x \in Sessions : sessions'[x].owner = u} :
                  \E i \in StreakPositions(sessions'[s].responses) : y = <<s, i>>
      BY DEF StreakEnds, StreakPositions
    <2>2. y \in Places(Sessions, StreakAt(sessions', u))
            <=> \E s \in Sessions : \E i \in StreakAt(sessions', u)[s] : y = <<s, i>>
      BY PlacesMember
    <2>3. \A s \in Sessions : StreakAt(sessions', u)[s] =
            IF sessions'[s].owner = u THEN StreakPositions(sessions'[s].responses) ELSE {}
      BY DEF StreakAt
    <2> QED BY <2>1, <2>2, <2>3
  <1> QED BY <1>1, <1>2

(* The Submits of u that asked for a regeneration and have not yet stored the
   response it is for. *)
Owing(u) ==
  {r \in Requests : /\ calls[r].user = u /\ calls[r].step \in {"record", "append"}
                    /\ Extends(calls[r].row.responses, calls[r].outcome)}

Requested(u) ==
  /\ IsFiniteSet(StreakEnds(u))
  /\ regenerations[u] = Cardinality(StreakEnds(u)) + Cardinality(Owing(u))

RemedyInv ==
  /\ \A r \in Requests : calls[r].step = "remediate" => calls[r].outcome = "wrong"
  /\ \A u \in Users : Requested(u)

(* What a step may do to the account of one user: nothing, request a
   regeneration, or store the response it was requested for. *)
RemedyStep(u) ==
  \/ /\ StreakEnds(u)' = StreakEnds(u) /\ Owing(u)' = Owing(u)
     /\ regenerations'[u] = regenerations[u]
  \/ \E r \in Requests \ Owing(u) :
       /\ StreakEnds(u)' = StreakEnds(u) /\ Owing(u)' = Owing(u) \cup {r}
       /\ regenerations'[u] = regenerations[u] + 1
  \/ \E r \in Owing(u) : \E x :
       /\ x \notin StreakEnds(u) /\ StreakEnds(u)' = StreakEnds(u) \cup {x}
       /\ Owing(u)' = Owing(u) \ {r}
       /\ regenerations'[u] = regenerations[u]

LEMMA OwingFinite ==
  ASSUME NEW u
  PROVE  IsFiniteSet(Owing(u)) /\ Cardinality(Owing(u)) \in Nat
  <1>1. Owing(u) \subseteq Requests
    BY DEF Owing
  <1> QED BY <1>1, ConstantsAssumption, FS_Subset, FS_CardinalityType

LEMMA RemedyKept ==
  ASSUME NEW u \in Users, Requested(u), RemedyStep(u)
  PROVE  Requested(u)'
  <1> DEFINE E == StreakEnds(u)
             O == Owing(u)
             E2 == StreakEnds(u)'
             O2 == Owing(u)'
             n == regenerations[u]
             n2 == regenerations'[u]
  <1>1. /\ IsFiniteSet(E) /\ IsFiniteSet(O) /\ Cardinality(E) \in Nat /\ Cardinality(O) \in Nat
        /\ n = Cardinality(E) + Cardinality(O)
    BY OwingFinite, FS_CardinalityType DEF Requested
  <1>2. SUFFICES IsFiniteSet(E2) /\ n2 = Cardinality(E2) + Cardinality(O2)
    BY DEF Requested
  <1>3. \/ E2 = E /\ O2 = O /\ n2 = n
        \/ \E r : r \notin O /\ E2 = E /\ O2 = O \cup {r} /\ n2 = n + 1
        \/ \E r \in O : (\E x : E2 = E \cup {x} /\ x \notin E) /\ O2 = O \ {r} /\ n2 = n
    BY DEF RemedyStep
  <1> HIDE DEF E, O, E2, O2, n, n2
  <1>4. ASSUME NEW r, r \notin O, E2 = E, O2 = O \cup {r}, n2 = n + 1
        PROVE  IsFiniteSet(E2) /\ n2 = Cardinality(E2) + Cardinality(O2)
    <2>1. Cardinality(O2) = Cardinality(O) + 1
      BY <1>1, <1>4, FS_AddElement
    <2> QED BY <1>1, <1>4, <2>1
  <1>5. ASSUME NEW r \in O, NEW x, E2 = E \cup {x}, x \notin E, O2 = O \ {r}, n2 = n
        PROVE  IsFiniteSet(E2) /\ n2 = Cardinality(E2) + Cardinality(O2)
    <2>1. IsFiniteSet(E2) /\ Cardinality(E2) = Cardinality(E) + 1
      BY <1>1, <1>5, FS_AddElement
    <2>2. Cardinality(O2) = Cardinality(O) - 1
      BY <1>1, <1>5, FS_RemoveElement
    <2> QED BY <1>1, <1>5, <2>1, <2>2
  <1> QED BY <1>1, <1>3, <1>4, <1>5

(* Histories that stay with their owners end the same runs. *)
SameStreaks ==
  \A s \in Sessions :
    \/ sessions'[s].owner = sessions[s].owner /\ sessions'[s].responses = sessions[s].responses
    \/ sessions'[s].responses = << >> /\ sessions[s].responses = << >>

LEMMA StreaksSame ==
  ASSUME SameStreaks, NEW u
  PROVE  StreakEnds(u)' = StreakEnds(u)
  <1>1. StreakPositions(<< >>) = {}
    BY DEF StreakPositions
  <1>2. \A s \in Sessions : StreakAt(sessions', u)[s] = StreakAt(sessions, u)[s]
    BY <1>1 DEF SameStreaks, StreakAt
  <1> QED BY <1>2, StreakPlaces, PlacesSame

(* Every action of a waiting user but the two appends leaves the runs alone. *)
LEMMA StreaksKept ==
  ASSUME Patient, IInv, InTurn, [Next]_vars, \A r \in Requests : ~SubmitAppend(r) /\ ~SkipAppend(r)
  PROVE  SameStreaks
  <1>1. /\ sessions \in [Sessions -> Row] /\ SameHistories
    BY HistoriesKept DEF IInv, Base, TypeInv, TypeOK
  <1>2. CASE UNCHANGED sessions
    BY <1>2 DEF SameStreaks
  <1>3. CASE ~\E r \in Requests : Arrive(r) \/ Proceed(r) \/ RequestFails(r)
    BY <1>3, RestSweeps DEF SweepsOnly, SameStreaks
  <1>4. CASE \E r \in Requests : Arrive(r) \/ RequestFails(r)
    <2>1. UNCHANGED sessions
      BY <1>4 DEF Arrive, StartLoad, SubmitLoad, SkipLoad, CloseLoad, Issue, RequestFails, stores
    <2> QED BY <1>2, <2>1
  <1>5. ASSUME NEW r \in Requests, StartCreate(r) PROVE SameStreaks
    <2>1. calls[r].sess \in Sessions /\ sessions[calls[r].sess].status = "NONE"
      BY <1>5, StepsTaken DEF IInv, Base, TypeInv, CallsMatchRows, CallsOK, StartCreate
    <2>2. sessions[calls[r].sess].responses = << >>
      BY <2>1 DEF IInv, NoHistoryBeforeRow
    <2>3. \A s \in Sessions : s # calls[r].sess => sessions'[s] = sessions[s]
      BY <1>5, ProceedOwnRow DEF Proceed, IInv, Base, TypeInv, TypeOK
    <2> QED BY <1>1, <2>1, <2>2, <2>3 DEF SameStreaks, SameHistories
  <1>6. ASSUME NEW r \in Requests PROVE ~ClaimSession(r)
    <2>1. ~(Running(r) /\ calls[r].step = "claim")
      BY DEF InTurn, Current
    <2> QED BY <2>1, StepsTaken DEF Running
  <1>7. ASSUME NEW r \in Requests, Proceed(r), ~StartCreate(r) PROVE SameStreaks
    BY <1>1, <1>6, <1>7, RowKeeps DEF SameStreaks, SameHistories
  <1> QED BY <1>3, <1>4, <1>5, <1>7

(* A request that is not between its verdict and its response owes nothing. *)
LEMMA OwingSame ==
  ASSUME NEW u, NEW r \in Requests, \A q \in Requests : q # r => calls'[q] = calls[q],
         (r \in Owing(u))' <=> r \in Owing(u)
  PROVE  Owing(u)' = Owing(u)
  <1>1. ASSUME NEW q \in Requests, q # r PROVE (q \in Owing(u))' <=> q \in Owing(u)
    <2>1. calls'[q] = calls[q]
      BY <1>1
    <2> QED BY <2>1 DEF Owing
  <1>2. Owing(u) \subseteq Requests /\ (Owing(u) \subseteq Requests)'
    BY DEF Owing
  <1>3. \A q : q \in Owing(u)' <=> q \in Owing(u)
    BY <1>1, <1>2
  <1> QED BY <1>3

LEMMA VerdictTaken ==
  ASSUME IInv, NEW r \in Requests, SubmitVerdict(r)
  PROVE  \/ calls'[r].step = "record" /\ calls'[r].outcome = "correct"
         \/ calls'[r].step = "remediate" /\ calls'[r].outcome = "wrong"
  <1>1. calls \in [Requests -> Call] /\ calls[r] \in Call
    BY DEF IInv, Base, TypeInv, TypeOK
  <1>2. PICK ok \in BOOLEAN : \E t, q :
          Become(r, [calls[r] EXCEPT !.step = IF ok THEN "record" ELSE "remediate",
                                     !.outcome = IF ok THEN "correct" ELSE "wrong",
                                     !.after = t, !.next = q, !.dna = profile[calls[r].user]])
    BY DEF SubmitVerdict
  <1>3. PICK t, q :
          Become(r, [calls[r] EXCEPT !.step = IF ok THEN "record" ELSE "remediate",
                                     !.outcome = IF ok THEN "correct" ELSE "wrong",
                                     !.after = t, !.next = q, !.dna = profile[calls[r].user]])
    BY <1>2
  <1> DEFINE d == [calls[r] EXCEPT !.step = IF ok THEN "record" ELSE "remediate",
                                   !.outcome = IF ok THEN "correct" ELSE "wrong",
                                   !.after = t, !.next = q, !.dna = profile[calls[r].user]]
  <1>4. \/ d.step = "record" /\ d.outcome = "correct"
        \/ d.step = "remediate" /\ d.outcome = "wrong"
    BY <1>1 DEF Call
  <1>5. calls'[r] = d
    BY <1>1, <1>3 DEF Become
  <1> HIDE DEF d
  <1> QED BY <1>4, <1>5

(* The two appends: the response stored is the one a regeneration was
   requested for, or ends no run. *)
LEMMA AppendRemedies ==
  ASSUME Patient, IInv, InTurn, NEW r \in Requests, SubmitAppend(r) \/ SkipAppend(r),
         NEW u \in Users
  PROVE  RemedyStep(u)
  <1> DEFINE c == calls[r]
             s == c.sess
             rs == sessions[s].responses
             n == Len(rs) + 1
             before == StreakAt(sessions, u)
             after == StreakAt(sessions', u)
  <1>1. PICK resp \in Response :
          /\ s \in Sessions /\ sessions[s].owner = c.user /\ sessions'[s].owner = c.user
          /\ c.row.responses = rs /\ rs \in Seq(Response)
          /\ resp.outcome = IF At(r, "append") THEN c.outcome ELSE "skipped"
          /\ sessions'[s].responses = Append(rs, resp)
          /\ \A x \in Sessions : x # s => sessions'[x] = sessions[x]
    <2>1. /\ s \in Sessions /\ Current(r) /\ sessions'[s].owner = sessions[s].owner
          /\ \A x \in Sessions : x # s => sessions'[x] = sessions[x]
          /\ \E resp \in Response :
               /\ resp.outcome = IF At(r, "append") THEN c.outcome ELSE "skipped"
               /\ sessions'[s].responses = Append(rs, resp)
      BY StoredInTurn
    <2>2. sessions[s] \in Row
      BY <2>1 DEF IInv, Base, TypeInv, TypeOK
    <2>3. rs \in Seq(Response)
      BY <2>2 DEF Row
    <2>4. sessions[s].owner = c.user /\ c.row.responses = rs
      BY <2>1 DEF Current
    <2> HIDE DEF c, s, rs
    <2> QED BY <2>1, <2>3, <2>4
  <1>2. /\ calls'[r].step = "idle" /\ \A q \in Requests : q # r => calls'[q] = calls[q]
    <2>1. Proceed(r)
      BY DEF Proceed
    <2> QED BY <2>1, StepsTaken, OthersStay
  <1>3. regenerations' = regenerations
    BY DEF SubmitAppend, SkipAppend, learner
  <1>4. c.step \in {"append", "skip"} /\ (At(r, "append") <=> c.step = "append")
    BY DEF SubmitAppend, SkipAppend, At
  <1>5. r \in Owing(u) <=> c.user = u /\ Extends(rs, resp.outcome)
    <2>1. r \in Owing(u) <=> /\ c.user = u /\ c.step \in {"record", "append"}
                             /\ Extends(c.row.responses, c.outcome)
      BY DEF Owing
    <2>2. c.step = "skip" => ~Extends(rs, resp.outcome)
      BY <1>1, <1>4 DEF Extends
    <2> HIDE DEF c, rs
    <2> QED BY <1>1, <1>4, <2>1, <2>2
  <1>6. Owing(u)' = Owing(u) \ {r}
    <2>1. ASSUME NEW q \in Requests, q # r PROVE (q \in Owing(u))' <=> q \in Owing(u)
      <3>1. calls'[q] = calls[q]
        BY <1>2, <2>1
      <3> QED BY <3>1 DEF Owing
    <2>2. (r \notin Owing(u))'
      BY <1>2 DEF Owing
    <2>3. Owing(u) \subseteq Requests /\ (Owing(u) \subseteq Requests)'
      BY DEF Owing
    <2>4. \A q : q \in Owing(u)' <=> q \in Owing(u) /\ q # r
      BY <2>1, <2>2, <2>3
    <2> QED BY <2>4
  <1>7. \A x \in Sessions : x # s => after[x] = before[x]
    BY <1>1 DEF StreakAt
  <1>8. /\ before[s] = IF c.user = u THEN StreakPositions(rs) ELSE {}
        /\ after[s] = IF c.user = u THEN StreakPositions(Append(rs, resp)) ELSE {}
    BY <1>1 DEF StreakAt
  <1>9. /\ n \notin StreakPositions(rs)
        /\ StreakPositions(Append(rs, resp)) =
             IF Extends(rs, resp.outcome) THEN StreakPositions(rs) \cup {n} ELSE StreakPositions(rs)
    BY <1>1, StreakAppend
  <1>10. s \in Sessions
    BY <1>1
  <1>11. /\ StreakEnds(u) = Places(Sessions, before)
         /\ StreakEnds(u)' = Places(Sessions, after)
    BY StreakPlaces
  <1> HIDE DEF c, s, rs, n, before, after
  <1>12. CASE r \in Owing(u)
    <2>1. Gains(Sessions, before, after, s, n)
      BY <1>5, <1>7, <1>8, <1>9, <1>10, <1>12 DEF Gains
    <2>2. StreakEnds(u)' = StreakEnds(u) \cup {<<s, n>>} /\ <<s, n>> \notin StreakEnds(u)
      BY <1>11, <2>1, PlacesAdd
    <2> QED BY <1>3, <1>6, <1>12, <2>2 DEF RemedyStep
  <1>13. CASE r \notin Owing(u)
    <2>1. after[s] = before[s]
      BY <1>5, <1>8, <1>9, <1>13
    <2>2. \A x \in Sessions : after[x] = before[x]
      BY <1>7, <2>1
    <2>3. StreakEnds(u)' = StreakEnds(u)
      BY <1>11, <2>2, PlacesSame
    <2> QED BY <1>3, <1>6, <1>13, <2>3 DEF RemedyStep
  <1> QED BY <1>12, <1>13

LEMMA NextRemedyStep ==
  ASSUME Patient, Failures = FALSE, IInv, InTurn, RemedyInv, [Next]_vars, NEW u \in Users
  PROVE  RemedyStep(u)
  <1>1. /\ calls \in [Requests -> Call] /\ CallsOK /\ regenerations \in [Users -> Nat]
    BY DEF IInv, Base, TypeInv, TypeOK
  <1>2. CASE \E r \in Requests : SubmitAppend(r) \/ SkipAppend(r)
    BY <1>2, AppendRemedies
  <1>3. CASE \A r \in Requests : ~SubmitAppend(r) /\ ~SkipAppend(r)
    <2>1. StreakEnds(u)' = StreakEnds(u)
      BY <1>3, StreaksKept, StreaksSame
    <2>2. CASE ~\E r \in Requests : Arrive(r) \/ Proceed(r) \/ RequestFails(r)
      <3>1. UNCHANGED <<calls, regenerations>>
        BY <2>2, RestSweeps DEF SweepsOnly, learner
      <3>2. Owing(u)' = Owing(u)
        BY <3>1 DEF Owing
      <3> QED BY <2>1, <3>1, <3>2 DEF RemedyStep
    <2>3. ASSUME NEW r \in Requests, Remediate(r) PROVE RemedyStep(u)
      <3> DEFINE c == calls[r]
      <3>1. /\ c.step = "remediate" /\ calls'[r] = [c EXCEPT !.step = "record"]
            /\ \A q \in Requests : q # r => calls'[q] = calls[q]
        BY <2>3, StepsTaken, OthersStay DEF Proceed
      <3>2. c \in Call /\ c.user \in Users /\ c.outcome = "wrong"
        BY <1>1, <3>1 DEF CallsOK, RemedyInv
      <3>3. /\ calls'[r].step = "record" /\ calls'[r].user = c.user
            /\ calls'[r].outcome = "wrong" /\ calls'[r].row = c.row
        <4> HIDE DEF c
        <4> QED BY <3>1, <3>2 DEF Call
      <3>4. regenerations' = IF Extends(c.row.responses, "wrong")
                               THEN [regenerations EXCEPT ![c.user] = @ + 1] ELSE regenerations
        BY <2>3 DEF Remediate, BestEffort, Extends
      <3>5. r \notin Owing(u)
            /\ ((r \in Owing(u))' <=> c.user = u /\ Extends(c.row.responses, "wrong"))
        BY <3>1, <3>3 DEF Owing
      <3> HIDE DEF c
      <3>6. CASE c.user = u /\ Extends(c.row.responses, "wrong")
        <4>1. regenerations'[u] = regenerations[u] + 1
          BY <1>1, <3>4, <3>6
        <4>2. ASSUME NEW q \in Requests, q # r PROVE (q \in Owing(u))' <=> q \in Owing(u)
          <5>1. calls'[q] = calls[q]
            BY <3>1, <4>2
          <5> QED BY <5>1 DEF Owing
        <4>3. Owing(u) \subseteq Requests /\ (Owing(u) \subseteq Requests)'
          BY DEF Owing
        <4>4. \A q : q \in Owing(u)' <=> q \in Owing(u) \/ q = r
          BY <3>5, <3>6, <4>2, <4>3
        <4>5. Owing(u)' = Owing(u) \cup {r}
          BY <4>4
        <4> QED BY <2>1, <3>5, <4>1, <4>5 DEF RemedyStep
      <3>7. CASE ~(c.user = u /\ Extends(c.row.responses, "wrong"))
        <4>1. regenerations'[u] = regenerations[u]
          BY <1>1, <3>2, <3>4, <3>7
        <4>2. Owing(u)' = Owing(u)
          BY <3>1, <3>5, <3>7, OwingSame
        <4> QED BY <2>1, <4>1, <4>2 DEF RemedyStep
      <3> QED BY <3>6, <3>7
    <2>4. ASSUME NEW r \in Requests, Arrive(r) \/ Proceed(r), ~Remediate(r) PROVE RemedyStep(u)
      <3>1. ~ClaimSession(r)
        BY StepsTaken DEF InTurn, Running, Current
      <3>2. UNCHANGED regenerations
        BY <1>3, <2>4, <3>1 DEF Arrive, StartLoad, SubmitLoad, SkipLoad, CloseLoad, Issue, Proceed,
           StartCreate, SubmitVerdict, RecordAttempt, CloseAbandon, CloseTally, CloseProfile,
           CloseStats, CloseFinish, stores, learner
      <3>3. \A q \in Requests : q # r => calls'[q] = calls[q]
        BY <2>4, OthersStay
      <3>4. (r \in Owing(u))' <=> r \in Owing(u)
        <4>1. CASE RecordAttempt(r)
          <5>1. /\ calls[r].step = "record" /\ calls'[r] = [calls[r] EXCEPT !.step = "append"]
                /\ calls[r] \in Call
            BY <1>1, <4>1, StepsTaken
          <5>2. /\ calls'[r].step = "append" /\ calls'[r].user = calls[r].user
                /\ calls'[r].row = calls[r].row /\ calls'[r].outcome = calls[r].outcome
            BY <5>1 DEF Call
          <5> QED BY <5>1, <5>2 DEF Owing
        <4>2. CASE SubmitVerdict(r)
          <5>1. calls[r].step = "verdict"
            BY <4>2, StepsTaken
          <5> QED BY <4>2, <5>1, VerdictTaken DEF Owing, Extends
        <4>3. CASE ~RecordAttempt(r) /\ ~SubmitVerdict(r)
          <5>1. calls[r].step \notin {"record", "append"} /\ calls'[r].step \notin {"record", "append"}
            BY <1>3, <2>4, <3>1, <4>3, StepsTaken DEF Proceed
          <5> QED BY <5>1 DEF Owing
        <4> QED BY <4>1, <4>2, <4>3
      <3>5. Owing(u)' = Owing(u)
        BY <3>3, <3>4, OwingSame
      <3> QED BY <2>1, <3>2, <3>5 DEF RemedyStep
    <2> QED BY <2>2, <2>3, <2>4 DEF RequestFails
  <1> QED BY <1>2, <1>3

LEMMA InitRemedy == Init => RemedyInv
  <1> SUFFICES ASSUME Init PROVE RemedyInv
    OBVIOUS
  <1>1. ASSUME NEW u \in Users PROVE Requested(u)
    <2>1. StreakEnds(u) = {}
      <3>1. \A s \in Sessions : sessions[s].responses = << >>
        BY DEF Init, NoRow
      <3>2. \A s \in Sessions : StreakAt(sessions, u)[s] = {}
        BY <3>1 DEF StreakAt, StreakPositions
      <3> QED BY <3>2, StreakPlaces, PlacesMember
    <2>2. Owing(u) = {} /\ regenerations[u] = 0
      BY DEF Init, Owing, Idle
    <2> QED BY <2>1, <2>2, FS_EmptySet DEF Requested
  <1> QED BY <1>1 DEF Init, RemedyInv, Idle

LEMMA RemediateWrong ==
  ASSUME IInv, RemedyInv, [Next]_vars, NEW q \in Requests, calls'[q].step = "remediate"
  PROVE  calls'[q].outcome = "wrong"
  <1>1. CASE UNCHANGED calls
    BY <1>1 DEF RemedyInv
  <1>2. ASSUME NEW r \in Requests, Arrive(r) \/ Proceed(r) \/ RequestFails(r)
        PROVE  calls'[q].outcome = "wrong"
    <2>1. CASE q # r
      BY <1>2, <2>1, OthersStay DEF RemedyInv
    <2>2. CASE q = r
      <3>1. calls[r] \in Call
        BY DEF IInv, Base, TypeInv, TypeOK
      <3>2. ~Remediate(r) /\ ~RecordAttempt(r)
        BY <2>2, <3>1, StepsTaken DEF Call
      <3>3. SubmitVerdict(r)
        BY <1>2, <2>2, <3>2, StepsTaken DEF Proceed
      <3> QED BY <2>2, <3>3, VerdictTaken
    <2> QED BY <2>1, <2>2
  <1> QED BY <1>1, <1>2 DEF Next, GrowStale, CleanupStale, Quiescent, vars

(* Without failures, and as long as users wait: between requests one
   regeneration was requested for every response that ends a run of at least
   RemediationStreak failures, whatever their topics, and none otherwise: a run
   longer than that asks once for each failure beyond. *)
THEOREM RemediationAlways ==
  ASSUME Patient, Failures = FALSE
  PROVE  Spec => []RemediationMatchesHistory
  <1>1. IInv /\ InTurn /\ RemedyInv /\ [Next]_vars => RemedyInv'
    <2> SUFFICES ASSUME IInv, InTurn, RemedyInv, [Next]_vars PROVE RemedyInv'
      OBVIOUS
    <2>1. ASSUME NEW u \in Users PROVE Requested(u)'
      BY <2>1, NextRemedyStep, RemedyKept DEF RemedyInv
    <2> QED BY <2>1, RemediateWrong DEF RemedyInv
  <1>2. TypeOK /\ RemedyInv => RemediationMatchesHistory
    <2> SUFFICES ASSUME TypeOK, RemedyInv, NEW u \in Users, Resting(u)
                 PROVE  regenerations[u] = Cardinality(StreakEnds(u))
      BY DEF RemediationMatchesHistory
    <2>1. Owing(u) = {}
      BY DEF Resting, Owing
    <2>2. Cardinality(StreakEnds(u)) \in Nat
      BY FS_CardinalityType DEF RemedyInv, Requested
    <2> QED BY <2>1, <2>2, FS_EmptySet DEF RemedyInv, Requested
  <1>3. IInv => TypeOK
    BY DEF IInv, Base, TypeInv
  <1> QED BY <1>1, <1>2, <1>3, InitRemedy, IInvAlways, InTurnAlways, PTL DEF Spec
=============================================================================
