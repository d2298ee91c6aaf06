------------------------ MODULE PracticeClientProofs ------------------------
(* Proofs about the practice page and its summary, for any problems,         *)
(* sessions, requests, clicks and faults: closed is closed (PageInv), and a  *)
(* page used one click at a time is in step with the server (CalmOK).        *)
EXTENDS PracticeClient, FiniteSetTheorems, TLAPS

-----------------------------------------------------------------------------
(* Types *)

MaybeSession == Sessions \cup {None}
Result == [problem : MaybeProblem, next : MaybeProblem, count : Nat]
State == [phase : Phase, session : MaybeSession, problem : MaybeProblem,
          code : MaybeProblem, count : Nat, result : Result]
Answer == [ok : BOOLEAN, sess : MaybeSession, next : MaybeProblem, count : Nat]
Call == [op : {"none", "start", "submit", "skip", "close"},
         step : {"free", "execute", "poll", "sent", "loaded", "answered"},
         sess : MaybeSession, prob : MaybeProblem, polls : Nat, seen : Nat,
         mine : BOOLEAN, ans : Answer]
SessionRow == [status : {"NONE", "ACTIVE", "COMPLETED", "ABANDONED"},
               current : MaybeProblem, count : Nat]
Cached == [closed : BOOLEAN, total : Nat]
Past == [read : SUBSET Sessions, twice : SUBSET Sessions, late : SUBSET Sessions,
         spared : SUBSET Sessions]
Summary == [session : MaybeSession, cached : Cached,
            query : {"none", "loading", "data", "error"}, total : Nat]

Types ==
  /\ page \in [route : {"practice", "summary", "away"}, state : State]
  /\ summary \in Summary
  /\ calls \in [Slots -> Call]
  /\ rows \in [Sessions -> SessionRow]
  /\ cache \in [Sessions -> Cached]
  /\ past \in Past

-----------------------------------------------------------------------------
(* The invariant *)

Done(s) == rows[s].status \in {"COMPLETED", "ABANDONED"} \/ s \in past.spared

(* A Close that has read session `s` with `n` responses.                     *)
Counted(s, n) == /\ s \in past.read /\ n <= rows[s].count
                 /\ s \notin past.late => n = rows[s].count

Starts(q) == q.mine /\ q.op = "start"
Shut(q) == q.op = "close" /\ q.step = "answered" /\ q.ans.ok
Accepted(q) == Shut(q) \/ (q.op = "close" /\ q.step = "loaded")
CountOf(q) == IF q.step = "loaded" THEN q.seen ELSE q.ans.count

(* A request `q` of a page whose hook is in state `st`.                      *)
CallOK(q, st) ==
  /\ q.op = "none" => q.step = "free"
  /\ q.op \in {"submit", "skip", "close"} =>
       q.sess \in Sessions /\ (q.mine => st.session \in Sessions)
  /\ q.op = "start" /\ q.step = "answered" /\ q.ans.ok => q.ans.sess \in Sessions
  /\ Accepted(q) => Counted(q.sess, CountOf(q))
  /\ Shut(q) => Done(q.sess)
CallsOK == \A c \in Slots : CallOK(calls[c], page.state)

CacheOK == \A s \in Sessions : cache[s].closed => Done(s) /\ Counted(s, cache[s].total)
SummaryOK ==
  /\ page.state.phase = "closed" => page.state.session \in Sessions
  /\ page.route = "summary" => summary.session \in Sessions
  /\ summary.cached.closed =>
       /\ summary.session \in Sessions /\ Counted(summary.session, summary.cached.total)
       /\ summary.query = "data" /\ summary.session \notin past.late =>
            summary.total = rows[summary.session].count

(* While no two Closes of a session are accepted: a close of another session *)
(* than the page's is of one that is cached as closed, so it cannot succeed  *)
(* any more; while a start is under way the page has no session, or one that *)
(* is closed, and does not say so.                                           *)
Order(q, st) ==
  /\ q.mine /\ q.op = "close" => q.sess = st.session \/ cache[q.sess].closed
  /\ Starts(q) => /\ st.session = None \/ cache[st.session].closed
                  /\ st.phase = "starting" \/ (st.session # None /\ st.phase # "closed")
  /\ Accepted(q) => ~cache[q.sess].closed

(* A page has one start under way, and a session is closed once.             *)
Unique ==
  \A c, d \in Slots : c # d =>
    /\ ~(Starts(calls[c]) /\ Starts(calls[d]))
    /\ ~(Accepted(calls[c]) /\ Accepted(calls[d]) /\ calls[c].sess = calls[d].sess)

PageOK == page.state.phase = "closed" =>
            page.state.session \in Sessions /\ cache[page.state.session].closed

Ordered == past.twice = {} =>
             Unique /\ PageOK /\ \A c \in Slots : Order(calls[c], page.state)

PageInv == Types /\ CallsOK /\ CacheOK /\ SummaryOK /\ Ordered

LEMMA Constants ==
  /\ INITIAL_STATE \in State /\ INITIAL_STATE.phase = "setup" /\ INITIAL_STATE.session = None
  /\ NoAnswer \in Answer /\ ~NoAnswer.ok /\ NoResult \in Result
  /\ Free \in Call /\ Free.op = "none" /\ ~Free.mine /\ Free.step = "free"
  /\ NoRow \in SessionRow /\ NoRow.status = "NONE"
  /\ NotClosed \in Cached /\ ~NotClosed.closed
  /\ NoSummary \in Summary /\ NoSummary.session = None /\ NoSummary.cached = NotClosed
  /\ NoSummary.query = "none" /\ NoPast \in Past /\ None \notin Sessions
  BY DEF INITIAL_STATE, State, NoAnswer, Answer, NoResult, Result, Free, Call, NoRow, SessionRow,
         NotClosed, Cached, NoSummary, Summary, MaybeSession, MaybeProblem, None, Phase, Sessions,
         NoPast, Past

LEMMA InitPage == Init => PageInv
  <1> SUFFICES ASSUME Init PROVE PageInv
    OBVIOUS
  <1>1. Types
    BY Constants DEF Init, Types
  <1>2. CallsOK /\ CacheOK /\ SummaryOK
    BY Constants DEF Init, CallsOK, CallOK, Accepted, Shut, CacheOK, SummaryOK
  <1>3. Ordered
    BY Constants DEF Init, Ordered, Unique, Order, Starts, Accepted, Shut, PageOK
  <1> QED
    BY <1>1, <1>2, <1>3 DEF PageInv

-----------------------------------------------------------------------------
(* Clicks *)

LEMMA SendOK ==
  ASSUME PageInv, NEW c \in Slots, NEW op, NEW step, NEW phase, Send(c, op, step, phase),
         step \in {"execute", "sent"},
         \/ op = "start" /\ MayStart /\ phase = "starting"
         \/ op \in {"submit", "skip", "close"} /\ Workspace /\ phase \in Phase \ {"closed"}
  PROVE  PageInv'
  <1> DEFINE q == [Free EXCEPT !.op = op, !.step = step, !.mine = TRUE,
                     !.sess = page.state.session, !.prob = page.state.problem]
             st == [page.state EXCEPT !.phase = phase]
  <1>0. Types /\ CallsOK /\ CacheOK /\ SummaryOK /\ Ordered
    BY DEF PageInv
  <1>1. page.state \in State /\ phase \in Phase
    BY <1>0 DEF Types, Phase
  <1>2. st \in State /\ st.phase = phase /\ st.session = page.state.session
    BY <1>1 DEF State
  <1>3. page' = [page EXCEPT !.state = st] /\ calls' = [calls EXCEPT ![c] = q]
        /\ UNCHANGED <<summary, rows, cache, past>>
    BY DEF Send, setState
  <1>4. page'.state = st /\ page'.route = page.route
    BY <1>0, <1>3 DEF Types
  <1>5. q.op = op /\ q.step = step /\ q.mine /\ q.sess = page.state.session
    BY DEF Free
  <1>6. q \in Call
    BY <1>1, Constants DEF Call, State
  <1>7. Types'
    BY <1>0, <1>2, <1>3, <1>6 DEF Types
  <1>8. \A d \in Slots : calls'[d] = IF d = c THEN q ELSE calls[d]
    BY <1>0, <1>3 DEF Types
  <1> HIDE DEF q, st
  <1>9. past.twice = {} /\ op = "start" =>
          /\ page.state.session = None \/ cache[page.state.session].closed
          /\ \A d \in Slots : ~Starts(calls[d])
    BY <1>0 DEF MayStart, StartCard, PageOK, Ordered, Order, Starts
  <1>10. op # "start" => page.state.session \in Sessions /\ page.state.session # None
    BY <1>1 DEF Workspace, StartCard, State, MaybeSession
  <1>11. ~Accepted(q) /\ (Starts(q) <=> op = "start")
    BY <1>5 DEF Accepted, Shut, Starts
  <1>12. ASSUME NEW d \in Slots PROVE CallOK(calls[d], page.state)'
    <2>1. CASE d = c
      BY <1>2, <1>3, <1>4, <1>5, <1>8, <1>10, <1>11, <2>1 DEF CallOK, Accepted, Shut
    <2>2. CASE d # c
      <3>1. CallOK(calls[d], page.state) /\ calls'[d] = calls[d]
        BY <1>0, <1>8, <2>2 DEF CallsOK
      <3> QED
        BY <1>2, <1>3, <1>4, <3>1 DEF CallOK, Accepted, Shut, Counted, CountOf, Done
    <2> QED
      BY <2>1, <2>2
  <1>13. CacheOK' /\ SummaryOK'
    BY <1>0, <1>2, <1>3, <1>4 DEF CacheOK, SummaryOK, Counted, Done
  <1>14. Ordered'
    <2> SUFFICES ASSUME past.twice = {}
                 PROVE  Unique' /\ PageOK' /\ \A d \in Slots : Order(calls[d], page.state)'
      BY <1>3 DEF Ordered
    <2>1. Unique /\ PageOK /\ \A d \in Slots : Order(calls[d], page.state)
      BY <1>0 DEF Ordered
    <2>2. Unique'
      BY <1>8, <1>9, <1>11, <2>1 DEF Unique, Starts, Accepted, Shut
    <2>3. PageOK'
      BY <1>2, <1>3, <1>4 DEF PageOK
    <2>4. ASSUME NEW d \in Slots PROVE Order(calls[d], page.state)'
      <3>1. CASE d = c
        BY <1>2, <1>3, <1>4, <1>5, <1>8, <1>9, <1>11, <3>1 DEF Order, Starts, Accepted, Shut
      <3>2. CASE d # c
        <4>1. Order(calls[d], page.state) /\ calls'[d] = calls[d]
          BY <1>8, <2>1, <3>2
        <4> QED
          BY <1>2, <1>3, <1>4, <1>9, <1>10, <4>1 DEF Order, Starts, Accepted, Shut
      <3> QED
        BY <3>1, <3>2
    <2> QED
      BY <2>2, <2>3, <2>4
  <1> QED
    BY <1>7, <1>12, <1>13, <1>14 DEF PageInv, CallsOK

LEMMA ClickOK ==
  ASSUME PageInv, NEW c \in Slots,
         startSession(c) \/ submitAnswer(c) \/ skip(c) \/ endSession(c)
  PROVE  PageInv'
  <1>1. CASE startSession(c)
    BY <1>1, SendOK DEF startSession
  <1>2. CASE submitAnswer(c)
    BY <1>2, SendOK DEF submitAnswer, SubmitSolution, Console, Phase
  <1>3. CASE skip(c)
    BY <1>3, SendOK DEF skip, SkipProblem, Console, Phase
  <1>4. CASE endSession(c)
    BY <1>4, SendOK DEF endSession, EndSession, Phase
  <1> QED
    BY <1>1, <1>2, <1>3, <1>4

(* The page goes on to the next problem, or its code changes.                *)
LEMMA EditOK ==
  ASSUME PageInv, advanceToNext \/ setCode
  PROVE  PageInv'
  <1>0. Types /\ CallsOK /\ CacheOK /\ SummaryOK /\ Ordered
    BY DEF PageInv
  <1>1. page.state \in State /\ page.state.result \in Result
    BY <1>0 DEF Types, State
  <1>2. UNCHANGED <<summary, calls, rows, cache, past>>
    BY DEF advanceToNext, setCode
  <1>3. \A p \in MaybeProblem : templateFor(p) \subseteq MaybeProblem
    BY DEF templateFor, MaybeProblem
  <1>4. \E st \in State : /\ page' = [page EXCEPT !.state = st]
                          /\ st.session = page.state.session
                          /\ st.phase = page.state.phase \/ (st.phase = "active" /\ Workspace)
    <2>1. CASE advanceToNext
      <3>1. PICK code \in templateFor(page.state.result.next) :
              setState([page.state EXCEPT !.phase = "active", !.problem = page.state.result.next,
                          !.code = code, !.result = NoResult])
        BY <2>1 DEF advanceToNext
      <3>2. Workspace /\ code \in MaybeProblem
        BY <1>1, <1>3, <2>1, <3>1 DEF advanceToNext, NextProblem, Result
      <3> DEFINE st == [page.state EXCEPT !.phase = "active", !.problem = page.state.result.next,
                          !.code = code, !.result = NoResult]
      <3>3. st \in State /\ st.session = page.state.session /\ st.phase = "active"
        BY <1>1, <3>2, Constants DEF State, Result, Phase
      <3>4. page' = [page EXCEPT !.state = st]
        BY <3>1 DEF setState
      <3> QED
        BY <3>2, <3>3, <3>4
    <2>2. CASE setCode
      <3>1. PICK code \in templateFor(page.state.problem) :
              setState([page.state EXCEPT !.code = code])
        BY <2>2 DEF setCode
      <3>2. code \in MaybeProblem
        BY <1>1, <1>3, <3>1 DEF State
      <3> DEFINE st == [page.state EXCEPT !.code = code]
      <3>3. st \in State /\ st.session = page.state.session /\ st.phase = page.state.phase
        BY <1>1, <3>2 DEF State
      <3>4. page' = [page EXCEPT !.state = st]
        BY <3>1 DEF setState
      <3> QED
        BY <3>3, <3>4
    <2> QED
      BY <2>1, <2>2
  <1>5. PICK st \in State : /\ page' = [page EXCEPT !.state = st]
                            /\ st.session = page.state.session
                            /\ st.phase = page.state.phase \/ (st.phase = "active" /\ Workspace)
    BY <1>4
  <1>6. page'.state = st /\ page'.route = page.route
    BY <1>0, <1>5 DEF Types
  <1>7. Types'
    BY <1>0, <1>2, <1>5 DEF Types
  <1>8. CallsOK' /\ CacheOK' /\ SummaryOK'
    BY <1>0, <1>2, <1>5, <1>6 DEF CallsOK, CallOK, Accepted, Shut, Counted, CountOf, Done,
                                  CacheOK, SummaryOK
  <1>9. Ordered'
    BY <1>0, <1>2, <1>5, <1>6 DEF Ordered, Unique, Order, Starts, Accepted, Shut, PageOK,
                                  Workspace, StartCard
  <1> QED
    BY <1>7, <1>8, <1>9 DEF PageInv

-----------------------------------------------------------------------------
(* Requests *)

(* What a step of the server never takes back.                               *)
Grows ==
  /\ \A s \in Sessions :
       /\ Done(s) => Done(s)'
       /\ s \in past.read => s \in past'.read
       /\ s \in past.late => s \in past'.late
       /\ rows[s].count <= rows'[s].count
       /\ s \in past.read /\ s \notin past'.late => rows'[s].count = rows[s].count
  /\ past'.twice = {} => past.twice = {}

LEMMA CountedGrows ==
  ASSUME Types, Types', Grows, NEW s \in Sessions, NEW n \in Nat, Counted(s, n)
  PROVE  Counted(s, n)'
  <1>1. rows[s].count \in Nat /\ rows'[s].count \in Nat
    BY DEF Types, SessionRow
  <1> QED
    BY <1>1 DEF Grows, Counted

LEMMA CountGrows ==
  ASSUME Types, Types', CallsOK, CacheOK, SummaryOK, Grows, UNCHANGED <<page, summary, cache>>
  PROVE  /\ CacheOK' /\ SummaryOK'
         /\ \A c \in Slots : calls'[c] = calls[c] => CallOK(calls[c], page.state)'
  <1>1. CacheOK'
    <2> SUFFICES ASSUME NEW s \in Sessions, cache[s].closed
                 PROVE  Done(s)' /\ Counted(s, cache[s].total)'
      BY DEF CacheOK
    <2>1. Done(s) /\ Counted(s, cache[s].total) /\ cache[s].total \in Nat
      BY DEF CacheOK, Types, Cached
    <2>2. Counted(s, cache[s].total)'
      <3>1. \A n \in Nat : Counted(s, n) => Counted(s, n)'
        BY CountedGrows
      <3> QED
        BY <2>1, <3>1 DEF Counted
    <2> QED
      BY <2>1, <2>2 DEF Grows
  <1>2. SummaryOK'
    <2> SUFFICES ASSUME summary.cached.closed
                 PROVE  LET s == summary.session IN
                        /\ s \in Sessions /\ Counted(s, summary.cached.total)'
                        /\ summary.query = "data" /\ s \notin past'.late =>
                             summary.total = rows'[s].count
      BY DEF SummaryOK
    <2> DEFINE s == summary.session
    <2>1. /\ s \in Sessions /\ Counted(s, summary.cached.total) /\ summary.cached.total \in Nat
          /\ summary.query = "data" /\ s \notin past.late => summary.total = rows[s].count
      BY DEF SummaryOK, Types, Summary, Cached
    <2>2. Counted(s, summary.cached.total)'
      <3>1. \A n \in Nat : Counted(s, n) => Counted(s, n)'
        BY <2>1, CountedGrows
      <3> QED
        BY <2>1, <3>1 DEF Counted
    <2>3. s \in past.read
      BY <2>1 DEF Counted
    <2> QED
      BY <2>1, <2>2, <2>3 DEF Grows
  <1>3. ASSUME NEW c \in Slots, calls'[c] = calls[c] PROVE CallOK(calls[c], page.state)'
    <2> DEFINE q == calls[c]
    <2>1. CallOK(q, page.state) /\ q \in Call /\ CountOf(q) \in Nat
      BY DEF CallsOK, Types, Call, CountOf, Answer
    <2>2. Accepted(q) => q.sess \in Sessions /\ Counted(q.sess, CountOf(q))
      BY <2>1 DEF CallOK, Accepted, Shut
    <2>3. Accepted(q) => /\ q.sess \in past'.read /\ CountOf(q) <= rows'[q.sess].count
                         /\ q.sess \notin past'.late => CountOf(q) = rows'[q.sess].count
      <3>1. \A s \in Sessions, n \in Nat : Counted(s, n) => Counted(s, n)'
        BY CountedGrows
      <3>2. \A s \in Sessions, n \in Nat : Counted(s, n) =>
              /\ s \in past'.read /\ n <= rows'[s].count
              /\ s \notin past'.late => n = rows'[s].count
        BY <3>1 DEF Counted
      <3> HIDE DEF q
      <3> QED
        BY <2>1, <2>2, <3>2
    <2>4. Shut(q) => q.sess \in Sessions /\ Done(q.sess)
      BY <2>1 DEF CallOK, Shut
    <2>5. Shut(q) => rows'[q.sess].status \in {"COMPLETED", "ABANDONED"} \/ q.sess \in past'.spared
      BY <2>4 DEF Grows, Done
    <2> HIDE DEF q
    <2>6. calls'[c] = q /\ page'.state = page.state
      BY <1>3 DEF q
    <2> QED
      BY <2>1, <2>3, <2>5, <2>6 DEF CallOK, Accepted, Shut, Counted, CountOf, Done
  <1> QED
    BY <1>1, <1>2, <1>3

(* A step of c's request, which becomes `q`, that the page has no part in.   *)
LEMMA StepOK ==
  ASSUME PageInv, NEW c \in Slots, NEW q \in Call, calls' = [calls EXCEPT ![c] = q],
         q.op = calls[c].op, q.sess = calls[c].sess, q.mine = calls[c].mine,
         calls[c].step # "free", Types', Grows, UNCHANGED <<page, summary, cache>>,
         q.op = "start" /\ q.step = "answered" /\ q.ans.ok => q.ans.sess \in Sessions,
         Accepted(q) => Counted(q.sess, CountOf(q))', Shut(q) => Done(q.sess)',
         past'.twice = {} /\ Accepted(q) => Accepted(calls[c]) \/ q.sess \notin past.read
  PROVE  PageInv'
  <1>0. Types /\ CallsOK /\ CacheOK /\ SummaryOK /\ Ordered
    BY DEF PageInv
  <1>1. \A d \in Slots : calls'[d] = IF d = c THEN q ELSE calls[d]
    BY <1>0 DEF Types
  <1>2. CacheOK' /\ SummaryOK'
        /\ \A d \in Slots : calls'[d] = calls[d] => CallOK(calls[d], page.state)'
    BY <1>0, CountGrows
  <1>3. CallOK(calls[c], page.state)'
    <2>1. CallOK(calls[c], page.state)
      BY <1>0 DEF CallsOK
    <2>2. calls'[c] = q /\ page' = page
      BY <1>1
    <2>3. q.op = "none" => FALSE
      BY <2>1 DEF CallOK
    <2> QED
      BY <2>1, <2>2, <2>3 DEF CallOK, Accepted, Shut, CountOf, Counted, Done
  <1>4. CallsOK'
    BY <1>1, <1>2, <1>3 DEF CallsOK
  <1>5. Ordered'
    <2> SUFFICES ASSUME past'.twice = {}
                 PROVE  Unique' /\ PageOK' /\ \A d \in Slots : Order(calls[d], page.state)'
      BY DEF Ordered
    <2>1. Unique /\ PageOK /\ \A d \in Slots : Order(calls[d], page.state)
      BY <1>0 DEF Ordered, Grows
    <2>2. Accepted(q) => q.sess \in Sessions
      BY <1>0 DEF CallsOK, CallOK, Accepted, Shut
    <2>3. \A d \in Slots : Accepted(calls[d]) => calls[d].sess \in past.read
      BY <1>0 DEF CallsOK, CallOK, Counted
    <2>4. \A s \in Sessions : cache[s].closed => s \in past.read
      BY <1>0 DEF CacheOK, Counted
    <2>5. Unique'
      BY <1>1, <2>1, <2>3 DEF Unique, Starts, Accepted, Shut
    <2>6. PageOK'
      BY <2>1 DEF PageOK
    <2>7. Accepted(q) => ~cache[q.sess].closed
      BY <2>1, <2>2, <2>4 DEF Order
    <2>8. ASSUME NEW d \in Slots PROVE Order(calls[d], page.state)'
      BY <1>1, <2>1, <2>7 DEF Order, Starts, Accepted, Shut
    <2> QED
      BY <2>5, <2>6, <2>8
  <1> QED
    BY <1>2, <1>4, <1>5 DEF PageInv

LEMMA StillGrows == ASSUME Types, UNCHANGED <<rows, past>> PROVE Grows
  BY DEF Grows, Done, Types, SessionRow

LEMMA RefusedOK ==
  ASSUME PageInv, NEW c \in Slots, calls[c].step # "free", calls' = Answered(c, NoAnswer),
         UNCHANGED <<page, summary, rows, cache, past>>
  PROVE  PageInv'
  <1> DEFINE q == [calls[c] EXCEPT !.step = "answered", !.ans = NoAnswer]
  <1>1. calls[c] \in Call /\ calls \in [Slots -> Call] /\ Types
    BY DEF PageInv, Types
  <1>2. calls' = [calls EXCEPT ![c] = q]
    BY <1>1 DEF Answered
  <1>3. q \in Call /\ q.op = calls[c].op /\ q.sess = calls[c].sess /\ q.mine = calls[c].mine
        /\ ~q.ans.ok /\ q.step = "answered"
    BY <1>1, Constants DEF Call
  <1> HIDE DEF q
  <1>4. ~Accepted(q) /\ ~Shut(q) /\ Types' /\ Grows
    BY <1>1, <1>2, <1>3, StillGrows DEF Accepted, Shut, Types
  <1> QED
    BY <1>2, <1>3, <1>4, StepOK

LEMMA JudgeOK ==
  ASSUME PageInv, NEW c \in Slots, executeCode(c) \/ pollVerdict(c) \/ Lose(c)
  PROVE  PageInv'
  <1>1. calls[c] \in Call /\ calls \in [Slots -> Call] /\ Types
    BY DEF PageInv, Types
  <1>2. UNCHANGED <<page, summary, rows, cache, past>> /\ calls[c].step # "free"
    BY DEF executeCode, pollVerdict, Lose
  <1>3. Grows
    BY <1>1, <1>2, StillGrows
  <1>4. ASSUME NEW st \in {"poll", "sent"}, calls' = [calls EXCEPT ![c].step = st]
        PROVE  PageInv'
    <2> DEFINE q == [calls[c] EXCEPT !.step = st]
    <2>1. calls' = [calls EXCEPT ![c] = q]
      BY <1>1, <1>4
    <2>2. q \in Call /\ q.op = calls[c].op /\ q.sess = calls[c].sess /\ q.mine = calls[c].mine
          /\ q.step # "answered" /\ q.step # "loaded"
      BY <1>1 DEF Call
    <2> HIDE DEF q
    <2>3. ~Accepted(q) /\ ~Shut(q) /\ Types'
      BY <1>1, <1>2, <2>1, <2>2 DEF Accepted, Shut, Types
    <2> QED
      BY <1>2, <1>3, <2>1, <2>2, <2>3, StepOK
  <1>5. ASSUME calls[c].step = "poll", calls' = [calls EXCEPT ![c].polls = @ + 1]
        PROVE  PageInv'
    <2> DEFINE q == [calls[c] EXCEPT !.polls = @ + 1]
    <2>1. calls' = [calls EXCEPT ![c] = q]
      BY <1>1, <1>5
    <2>2. q \in Call /\ q.op = calls[c].op /\ q.sess = calls[c].sess /\ q.mine = calls[c].mine
          /\ q.step # "answered" /\ q.step # "loaded"
      BY <1>1, <1>5 DEF Call
    <2> HIDE DEF q
    <2>3. ~Accepted(q) /\ ~Shut(q) /\ Types'
      BY <1>1, <1>2, <2>1, <2>2 DEF Accepted, Shut, Types
    <2> QED
      BY <1>2, <1>3, <2>1, <2>2, <2>3, StepOK
  <1> QED
    BY <1>2, <1>4, <1>5, RefusedOK DEF executeCode, pollVerdict, Lose

-----------------------------------------------------------------------------
(* The server *)

LEMMA ReplyIs ==
  ASSUME NEW s \in Sessions, NEW p \in MaybeProblem, NEW n \in Nat
  PROVE  Reply(s, p, n) \in Answer /\ Reply(s, p, n).sess = s /\ Reply(s, p, n).count = n
         /\ Reply(s, p, n).ok /\ Reply(s, p, n).next = p
  BY DEF Reply, Answer, MaybeSession

LEMMA AnsweredIs ==
  ASSUME Types, NEW c \in Slots, NEW a \in Answer, calls' = Answered(c, a)
  PROVE  \E q \in Call : /\ calls' = [calls EXCEPT ![c] = q] /\ q.step = "answered" /\ q.ans = a
                         /\ q.op = calls[c].op /\ q.sess = calls[c].sess
                         /\ q.prob = calls[c].prob /\ q.mine = calls[c].mine
  <1> DEFINE q == [calls[c] EXCEPT !.step = "answered", !.ans = a]
  <1>1. calls[c] \in Call /\ calls \in [Slots -> Call]
    BY DEF Types
  <1>2. calls' = [calls EXCEPT ![c] = q]
    BY <1>1 DEF Answered
  <1>3. /\ q \in Call /\ q.step = "answered" /\ q.op = calls[c].op /\ q.sess = calls[c].sess
        /\ q.prob = calls[c].prob /\ q.mine = calls[c].mine /\ q.ans = a
    BY <1>1 DEF Call
  <1> HIDE DEF q
  <1> QED
    BY <1>2, <1>3

LEMMA LoadedIs ==
  ASSUME Types, NEW c \in Slots, NEW n \in Nat, calls' = Loaded(c, n)
  PROVE  \E q \in Call : /\ calls' = [calls EXCEPT ![c] = q] /\ q.step = "loaded" /\ q.seen = n
                         /\ q.op = calls[c].op /\ q.sess = calls[c].sess
                         /\ q.prob = calls[c].prob /\ q.mine = calls[c].mine
  <1> DEFINE q == [calls[c] EXCEPT !.step = "loaded", !.seen = n]
  <1>1. calls[c] \in Call /\ calls \in [Slots -> Call]
    BY DEF Types
  <1>2. calls' = [calls EXCEPT ![c] = q]
    BY <1>1 DEF Loaded
  <1>3. /\ q \in Call /\ q.step = "loaded" /\ q.op = calls[c].op /\ q.sess = calls[c].sess
        /\ q.prob = calls[c].prob /\ q.mine = calls[c].mine /\ q.seen = n
    BY <1>1 DEF Call
  <1> HIDE DEF q
  <1> QED
    BY <1>2, <1>3

LEMMA ServeStarts ==
  ASSUME PageInv, NEW c \in Slots, calls[c].step = "sent", calls[c].op = "start",
         \/ calls' = Loaded(c, 0)
         \/ \E s \in Sessions, p \in MaybeProblem : calls' = Answered(c, Reply(s, p, 0)),
         UNCHANGED <<page, summary, rows, cache, past>>
  PROVE  PageInv'
  <1>1. Types /\ Grows
    BY StillGrows DEF PageInv
  <1>2. PICK q \in Call : /\ calls' = [calls EXCEPT ![c] = q] /\ q.op = calls[c].op
                          /\ q.sess = calls[c].sess /\ q.mine = calls[c].mine
                          /\ q.step = "loaded" \/ (q.step = "answered" /\ q.ans.sess \in Sessions)
    <2>1. CASE calls' = Loaded(c, 0)
      BY <1>1, <2>1, LoadedIs
    <2>2. ASSUME NEW s \in Sessions, NEW p \in MaybeProblem, calls' = Answered(c, Reply(s, p, 0))
          PROVE  \E q \in Call : /\ calls' = [calls EXCEPT ![c] = q] /\ q.op = calls[c].op
                                 /\ q.sess = calls[c].sess /\ q.mine = calls[c].mine
                                 /\ q.step = "answered" /\ q.ans.sess \in Sessions
      <3>1. Reply(s, p, 0) \in Answer /\ Reply(s, p, 0).sess = s
        BY ReplyIs
      <3> QED
        BY <1>1, <2>2, <3>1, AnsweredIs
    <2> QED
      BY <2>1, <2>2
  <1>3. ~Accepted(q) /\ ~Shut(q) /\ Types'
    BY <1>1, <1>2 DEF Accepted, Shut, Types
  <1> QED
    BY <1>1, <1>2, <1>3, StepOK

LEMMA ServeOK ==
  ASSUME PageInv, NEW c \in Slots, Serve(c) \/ Unread(c)
  PROVE  PageInv'
  <1>0. Types /\ calls[c] \in Call /\ CallOK(calls[c], page.state) /\ calls[c].step = "sent"
        /\ UNCHANGED <<page, summary, rows, cache>>
    BY DEF PageInv, Types, CallsOK, Serve, Unread
  <1>1. \A s \in Active : s \in Sessions /\ rows[s].current \in MaybeProblem
    BY <1>0 DEF Active, Types, SessionRow
  <1>2. CASE calls[c].op = "start"
    <2>1. CASE Serve(c)
      <3>1. past' = past
        BY <1>2, <2>1 DEF Serve, Read
      <3> QED
        BY <1>0, <1>1, <1>2, <2>1, <3>1, ServeStarts DEF Serve, Start
    <2>2. CASE Unread(c)
      <3>1. past' = past /\ NoProblem \in MaybeProblem
        BY <2>2 DEF Unread, MaybeProblem
      <3> QED
        BY <1>0, <1>1, <1>2, <2>2, <3>1, ServeStarts DEF Unread
    <2> QED
      BY <2>1, <2>2
  <1>3. CASE calls[c].op # "start"
    <2> DEFINE s == calls[c].sess
    <2>1. Serve(c) /\ Admit(c) /\ past' = Read(c) /\ s \in Sessions
      BY <1>0, <1>3 DEF Serve, Unread, CallOK, Call
    <2>2. CASE calls' = Answered(c, NoAnswer)
      <3>1. PICK q \in Call : /\ calls' = [calls EXCEPT ![c] = q] /\ q.step = "answered"
        BY <1>0, <2>2, AnsweredIs, Constants
      <3>2. calls'[c].step # "loaded"
        BY <1>0, <3>1 DEF Types
      <3>3. past' = past
        BY <2>1, <3>2 DEF Read
      <3> QED
        BY <1>0, <2>2, <3>3, RefusedOK
    <2>3. CASE calls' = Loaded(c, rows[s].count)
      <3>1. rows[s].count \in Nat
        BY <1>0, <2>1 DEF Types, SessionRow
      <3>2. PICK q \in Call :
              /\ calls' = [calls EXCEPT ![c] = q] /\ q.step = "loaded" /\ q.seen = rows[s].count
              /\ q.op = calls[c].op /\ q.sess = s /\ q.mine = calls[c].mine
        <4>1. PICK n \in Nat : n = rows[s].count
          BY <3>1
        <4>2. calls' = Loaded(c, n)
          BY <2>3, <4>1
        <4> QED
          BY <1>0, <4>1, <4>2, LoadedIs, SMTT(30)
      <3>3. calls'[c] = q
        BY <1>0, <3>2 DEF Types
      <3>4. past' = IF q.op = "close" THEN [past EXCEPT !.read = @ \cup {s},
                                              !.twice = @ \cup (past.read \cap {s})] ELSE past
        BY <2>1, <3>2, <3>3 DEF Read
      <3>5. past \in Past /\ past' \in Past
        <4>1. past \in Past
          BY <1>0 DEF Types
        <4>2. ASSUME NEW u \in Sessions
              PROVE  [past EXCEPT !.read = @ \cup {u},
                        !.twice = @ \cup (past.read \cap {u})] \in Past
          BY <4>1 DEF Past
        <4>3. CASE q.op = "close"
          BY <2>1, <3>4, <4>1, <4>2, <4>3
        <4>4. CASE q.op # "close"
          BY <3>4, <4>1, <4>4
        <4> QED
          BY <4>1, <4>3, <4>4
      <3>6. /\ past.read \subseteq past'.read /\ past'.late = past.late /\ past'.spared = past.spared
            /\ q.op = "close" => s \in past'.read /\ past'.twice = past.twice \cup (past.read \cap {s})
            /\ q.op # "close" => past' = past
        BY <3>4, <3>5 DEF Past
      <3>7. Types'
        BY <1>0, <3>2, <3>5 DEF Types
      <3>8. Grows
        BY <1>0, <3>6 DEF Grows, Done, Types, SessionRow
      <3>9. Accepted(q) => Counted(q.sess, CountOf(q))'
        <4>1. past.read \subseteq Sessions /\ rows[s].count <= rows[s].count
          BY <3>1, <3>5 DEF Past
        <4>2. Accepted(q) => s \in past'.read /\ CountOf(q) = rows'[s].count
          BY <1>0, <3>2, <3>6 DEF Accepted, Shut, CountOf
        <4> QED
          BY <1>0, <3>2, <4>1, <4>2 DEF Counted, CountOf
      <3>10. ~Shut(q)
        BY <3>2 DEF Shut
      <3>11. past'.twice = {} /\ Accepted(q) => q.sess \notin past.read
        BY <3>2, <3>6 DEF Accepted, Shut
      <3>12. ~(q.op = "start")
        BY <1>3, <3>2
      <3> QED
        BY <1>0, <3>2, <3>7, <3>8, <3>9, <3>10, <3>11, <3>12, StepOK
    <2> QED
      BY <2>1, <2>2, <2>3 DEF Admit
  <1> QED
    BY <1>2, <1>3

LEMMA FinishOK ==
  ASSUME PageInv, NEW c \in Slots, Finish(c) \/ Spare(c)
  PROVE  PageInv'
  <1> DEFINE r == calls[c]  s == r.sess
  <1>0. /\ Types /\ r \in Call /\ CallOK(r, page.state) /\ r.step = "loaded"
        /\ UNCHANGED <<page, summary, cache>> /\ past \in Past
        /\ rows \in [Sessions -> SessionRow]
    BY DEF PageInv, Types, CallsOK, Finish, Spare
  <1>1. CASE Finish(c) /\ r.op = "start"
    <2>1. Create(c) /\ past' = past
      BY <1>1 DEF Finish
    <2>2. CASE calls' = Answered(c, NoAnswer) /\ UNCHANGED rows
      BY <1>0, <2>1, <2>2, RefusedOK
    <2>3. ASSUME NEW p \in Problems, NEW t \in Unused,
                 rows' = [rows EXCEPT ![t].status = "ACTIVE", ![t].current = p],
                 calls' = Answered(c, Reply(t, p, 0))
          PROVE  PageInv'
      <3>1. t \in Sessions /\ rows[t].status = "NONE" /\ p \in MaybeProblem
        BY DEF Unused, MaybeProblem
      <3>2. PICK q \in Call : /\ calls' = [calls EXCEPT ![c] = q] /\ q.step = "answered"
                              /\ q.ans = Reply(t, p, 0) /\ q.op = r.op /\ q.sess = r.sess
                              /\ q.mine = r.mine
        BY <1>0, <2>3, <3>1, ReplyIs, AnsweredIs
      <3>3. /\ rows' \in [Sessions -> SessionRow]
            /\ \A u \in Sessions : rows'[u].count = rows[u].count
            /\ \A u \in Sessions : u # t => rows'[u] = rows[u]
        BY <1>0, <2>3, <3>1 DEF SessionRow
      <3>4. Types'
        BY <1>0, <2>1, <2>3, <3>2, <3>3 DEF Types
      <3>5. q.ans.sess \in Sessions /\ ~Accepted(q) /\ ~Shut(q)
        BY <1>1, <3>1, <3>2, ReplyIs DEF Accepted, Shut
      <3>6. Grows
        BY <1>0, <2>1, <3>1, <3>3 DEF Grows, Done, SessionRow
      <3> HIDE DEF r
      <3> QED
        BY <1>0, <3>2, <3>4, <3>5, <3>6, StepOK DEF r
    <2> QED
      BY <2>1, <2>2, <2>3 DEF Create
  <1>2. CASE Finish(c) /\ r.op \in {"submit", "skip"}
    <2>1. AppendResponse(c) /\ past' = [past EXCEPT !.late = @ \cup (past.read \cap {s})]
          /\ s \in Sessions
      BY <1>0, <1>2 DEF Finish, CallOK
    <2>2. PICK p \in MaybeProblem :
            /\ rows' = [rows EXCEPT ![s].current = p, ![s].count = @ + 1]
            /\ calls' = Answered(c, Reply(s, p, r.seen + 1))
      BY <2>1 DEF AppendResponse
    <2>3. PICK a \in Answer : calls' = Answered(c, a)
      <3>1. PICK n \in Nat : n = r.seen + 1
        BY <1>0 DEF Call
      <3> HIDE DEF r
      <3> QED
        BY <2>1, <2>2, <3>1, ReplyIs
    <2>4. PICK q \in Call : /\ calls' = [calls EXCEPT ![c] = q] /\ q.step = "answered"
                            /\ q.op = r.op /\ q.sess = r.sess /\ q.mine = r.mine
      BY <1>0, <2>3, AnsweredIs
    <2>5. /\ rows' \in [Sessions -> SessionRow]
          /\ \A u \in Sessions : rows'[u].status = rows[u].status
          /\ \A u \in Sessions : rows'[u].count = IF u = s THEN rows[u].count + 1 ELSE rows[u].count
      BY <1>0, <2>1, <2>2 DEF SessionRow
    <2>6. /\ past' \in Past /\ past'.read = past.read /\ past'.spared = past.spared
          /\ past'.twice = past.twice /\ past'.late = past.late \cup (past.read \cap {s})
      BY <1>0, <2>1 DEF Past
    <2>7. Types'
      BY <1>0, <2>4, <2>5, <2>6 DEF Types
    <2>8. Grows
      BY <1>0, <2>1, <2>5, <2>6 DEF Grows, Done, SessionRow
    <2>9. ~Accepted(q) /\ ~Shut(q) /\ q.op # "start"
      BY <1>2, <2>4 DEF Accepted, Shut
    <2> HIDE DEF r
    <2> QED
      BY <1>0, <2>4, <2>7, <2>8, <2>9, StepOK DEF r
  <1>3. CASE r.op = "close"
    <2>1. s \in Sessions /\ Counted(s, r.seen) /\ r.seen \in Nat /\ NoProblem \in MaybeProblem
      BY <1>0, <1>3 DEF CallOK, Accepted, CountOf, Call, MaybeProblem
    <2>2. calls' = Answered(c, Reply(s, NoProblem, r.seen))
      BY <1>3 DEF Finish, Close, Spare
    <2>3. PICK q \in Call : /\ calls' = [calls EXCEPT ![c] = q] /\ q.step = "answered"
                            /\ q.ans.count = r.seen
                            /\ q.op = r.op /\ q.sess = r.sess /\ q.mine = r.mine
      <3>1. PICK a \in Answer : calls' = Answered(c, a) /\ a.count = r.seen
        <4> HIDE DEF r
        <4> QED
          BY <2>1, <2>2, ReplyIs
      <3> QED
        BY <1>0, <3>1, AnsweredIs
    <2>4. /\ rows' \in [Sessions -> SessionRow]
          /\ \A u \in Sessions : rows'[u].count = rows[u].count
          /\ \A u \in Sessions : u # s => rows'[u].status = rows[u].status
          /\ past' \in Past /\ past.spared \subseteq past'.spared
          /\ past'.read = past.read /\ past'.twice = past.twice /\ past'.late = past.late
          /\ rows'[s].status \in {"COMPLETED", "ABANDONED"}
               \/ (rows'[s].status = rows[s].status /\ s \in past'.spared)
      <3>1. CASE Finish(c)
        <4>1. rows' = [rows EXCEPT ![s].status = IF r.seen = 0 THEN "ABANDONED" ELSE "COMPLETED"]
              /\ past' = past
          BY <1>3, <3>1 DEF Finish, Close
        <4> QED
          BY <1>0, <2>1, <4>1 DEF SessionRow
      <3>2. CASE Spare(c)
        <4>1. rows' = rows /\ past' = [past EXCEPT !.spared = @ \cup {s}]
          BY <3>2 DEF Spare
        <4> QED
          BY <1>0, <2>1, <4>1 DEF Past
      <3> QED
        BY <3>1, <3>2
    <2>5. Types'
      BY <1>0, <2>3, <2>4 DEF Types
    <2>6. Grows
      BY <1>0, <2>1, <2>4 DEF Grows, Done, SessionRow
    <2>7. q.sess = s /\ CountOf(q) = r.seen
      BY <2>3 DEF CountOf
    <2>8. Counted(q.sess, CountOf(q))' /\ Done(q.sess)'
      <3>1. /\ s \in past'.read /\ r.seen <= rows'[s].count
            /\ s \notin past'.late => r.seen = rows'[s].count
            /\ rows'[s].status \in {"COMPLETED", "ABANDONED"} \/ s \in past'.spared
        BY <2>1, <2>4 DEF Counted
      <3> HIDE DEF r
      <3> QED
        BY <2>7, <3>1, <2>3 DEF Counted, Done, CountOf
    <2>9. Accepted(r) /\ q.op # "start"
      BY <1>0, <1>3, <2>3 DEF Accepted
    <2> HIDE DEF r
    <2> QED
      BY <1>0, <2>3, <2>5, <2>6, <2>8, <2>9, StepOK DEF r
  <1> QED
    BY <1>0, <1>1, <1>2, <1>3 DEF Call, CallOK, Spare

LEMMA SweepOK ==
  ASSUME PageInv, Sweep
  PROVE  PageInv'
  <1>0. Types /\ CallsOK /\ CacheOK /\ SummaryOK /\ Ordered /\ rows \in [Sessions -> SessionRow]
    BY DEF PageInv, Types
  <1>1. PICK s \in Active : rows' = [rows EXCEPT ![s].status = "ABANDONED"]
    BY DEF Sweep
  <1>2. UNCHANGED <<page, summary, calls, cache, past>>
    BY DEF Sweep
  <1>3. /\ rows' \in [Sessions -> SessionRow]
        /\ \A u \in Sessions : rows'[u].count = rows[u].count
        /\ \A u \in Sessions : rows'[u].status \in {"ABANDONED", rows[u].status}
    BY <1>0, <1>1 DEF SessionRow, Active
  <1>4. Types' /\ Grows
    BY <1>0, <1>2, <1>3 DEF Types, Grows, Done, SessionRow
  <1>5. CacheOK' /\ SummaryOK' /\ CallsOK'
    BY <1>0, <1>2, <1>4, CountGrows DEF CallsOK
  <1>6. Ordered'
    BY <1>0, <1>2 DEF Ordered, Unique, Order, Starts, Accepted, Shut, PageOK
  <1> QED
    BY <1>4, <1>5, <1>6 DEF PageInv

-----------------------------------------------------------------------------
(* Answers *)

(* What an answer makes of the page: it says closed only after a close that  *)
(* succeeded, and the session changes only by a start that did.              *)
LEMMA SettledIs ==
  ASSUME NEW st \in State, NEW q \in Call, NEW code \in MaybeProblem, q.op # "none"
  PROVE  LET t == Settled(st, q, code) IN
         /\ t \in State
         /\ IF q.op = "start" /\ q.ans.ok
            THEN t.session = q.ans.sess /\ t.phase \in {"active", "exhausted"}
            ELSE /\ t.session = st.session
                 /\ t.phase = "closed" <=> q.op = "close" /\ q.ans.ok
                 /\ t.phase # "starting"
  <1>1. q.ans \in Answer /\ q.ans.ok \in BOOLEAN /\ q.prob \in MaybeProblem
        /\ q.op \in {"start", "submit", "skip", "close"}
    BY DEF Call, Answer
  <1>2. CASE ~q.ans.ok
    BY <1>1, <1>2 DEF Settled, Failed, State, Phase
  <1>3. CASE q.ans.ok /\ q.op = "start"
    BY <1>1, <1>3, Constants DEF Settled, Started, Shown, State, Answer, Phase, Result
  <1>4. CASE q.ans.ok /\ q.op = "submit"
    BY <1>1, <1>4 DEF Settled, Verdict, State, Answer, Phase, Result
  <1>5. CASE q.ans.ok /\ q.op = "skip"
    BY <1>1, <1>5 DEF Settled, Skipped, Shown, State, Answer, Phase
  <1>6. CASE q.ans.ok /\ q.op = "close"
    BY <1>1, <1>6 DEF Settled, State, Phase
  <1> QED
    BY <1>1, <1>2, <1>3, <1>4, <1>5, <1>6

LEMMA DeliverOK ==
  ASSUME PageInv, NEW c \in Slots, Deliver(c)
  PROVE  PageInv'
  <1> DEFINE q == calls[c]  st == page.state  t == page'.state
  <1>0. Types /\ CallsOK /\ CacheOK /\ SummaryOK /\ Ordered
    BY DEF PageInv
  <1>1. q \in Call /\ st \in State /\ q.step = "answered" /\ CallOK(q, st)
    BY <1>0 DEF Types, CallsOK, Deliver
  <1>2. \A d \in Slots : calls'[d] = IF d = c THEN Free ELSE calls[d]
    BY <1>0 DEF Types, Deliver
  <1>3. UNCHANGED <<summary, rows, past>> /\ cache' = cacheCloseResult(q)
    BY DEF Deliver
  <1>4. Shut(q) => /\ q.sess \in Sessions /\ q.ans.count \in Nat /\ Done(q.sess)
                      /\ Counted(q.sess, q.ans.count) /\ Accepted(q)
    BY <1>1 DEF Shut, CallOK, Accepted, CountOf, Call, Answer
  <1>5. \A s \in Sessions : cache'[s] = IF Shut(q) /\ s = q.sess
                                      THEN [closed |-> TRUE, total |-> q.ans.count] ELSE cache[s]
    BY <1>0, <1>1, <1>3, <1>4 DEF Types, cacheCloseResult, Shut
  <1>6. Types' /\ page'.route = page.route
        /\ IF q.mine THEN \E code \in MaybeProblem : t = Settled(st, q, code) ELSE t = st
    <2>1. q.op # "none"
      BY <1>1 DEF CallOK
    <2>2. calls' \in [Slots -> Call]
      BY <1>0, Constants DEF Types, Deliver
    <2>3. cache' \in [Sessions -> Cached]
      BY <1>0, <1>3, <1>4, <1>1 DEF Types, Cached, cacheCloseResult, Shut
    <2>4. PICK code \in templateFor(q.ans.next) :
            IF q.mine THEN setState(Settled(st, q, code)) ELSE UNCHANGED page
      BY DEF Deliver
    <2>5. code \in MaybeProblem
      BY <1>1, <2>4 DEF templateFor, MaybeProblem, Call, Answer
    <2>6. Settled(st, q, code) \in State
      BY <1>1, <2>1, <2>5, SettledIs
    <2>7. CASE q.mine
      <3>1. page' = [page EXCEPT !.state = Settled(st, q, code)]
        BY <2>4, <2>7 DEF setState
      <3> HIDE DEF q, st
      <3>2. page'.state = Settled(st, q, code) /\ page'.route = page.route
        BY <1>0, <3>1 DEF Types
      <3> QED
        BY <1>0, <1>3, <2>2, <2>3, <2>5, <2>6, <2>7, <3>1, <3>2 DEF Types, t
    <2>8. CASE ~q.mine
      BY <1>0, <1>3, <2>2, <2>3, <2>4, <2>8 DEF Types
    <2> QED
      BY <2>7, <2>8
  <1>7. IF Starts(q) /\ q.ans.ok
        THEN t.session \in Sessions /\ t.phase \in {"active", "exhausted"}
        ELSE /\ t.session = st.session
             /\ q.mine /\ q.op = "close" /\ q.ans.ok => t.phase = "closed"
             /\ t.phase = "closed" => (q.mine /\ q.op = "close" /\ q.ans.ok) \/ st.phase = "closed"
             /\ t.phase # "closed" \/ q.mine \/ t = st
    BY <1>1, <1>6, SettledIs DEF CallOK, Starts
  <1>8. \A s \in Sessions : cache[s].closed => cache'[s].closed
    BY <1>5
  <1> HIDE DEF q, st, t
  <1>9. CacheOK' /\ SummaryOK'
    <2>1. CacheOK'
      <3> SUFFICES ASSUME NEW s \in Sessions, cache'[s].closed
                   PROVE  Done(s) /\ Counted(s, cache'[s].total)
        BY <1>3 DEF CacheOK, Done, Counted
      <3> QED
        BY <1>0, <1>4, <1>5 DEF CacheOK
    <2>2. t.phase = "closed" => t.session \in Sessions
      BY <1>0, <1>1, <1>7 DEF SummaryOK, CallOK, Shut, st
    <2> QED
      BY <1>0, <1>3, <1>6, <2>1, <2>2 DEF SummaryOK, Counted, t
  <1>10. ASSUME NEW d \in Slots PROVE CallOK(calls[d], page.state)'
    <2>1. CASE d = c
      BY <1>2, <2>1, Constants DEF CallOK, Accepted, Shut
    <2>2. CASE d # c
      <3>1. CallOK(calls[d], st) /\ calls'[d] = calls[d]
        BY <1>0, <1>2, <2>2 DEF CallsOK, st
      <3>2. st.session \in Sessions => t.session \in Sessions
        BY <1>7
      <3> QED
        BY <1>3, <3>1, <3>2 DEF CallOK, Accepted, Shut, Counted, CountOf, Done, t
    <2> QED
      BY <2>1, <2>2
  <1>11. Ordered'
    <2> SUFFICES ASSUME past.twice = {}
                 PROVE  Unique' /\ PageOK' /\ \A d \in Slots : Order(calls[d], page.state)'
      BY <1>3 DEF Ordered
    <2>1. Unique /\ PageOK /\ \A d \in Slots : Order(calls[d], page.state)
      BY <1>0 DEF Ordered
    <2>2. Order(q, st)
      BY <2>1 DEF q, st
    <2>3. q.mine /\ Shut(q) => q.sess = st.session
      BY <1>4, <2>2 DEF Order, Shut
    <2>4. Unique'
      BY <1>2, <2>1, Constants DEF Unique, Starts, Accepted, Shut
    <2>5. PageOK'
      <3>1. SUFFICES ASSUME t.phase = "closed"
                     PROVE  t.session \in Sessions /\ cache'[t.session].closed
        BY DEF PageOK, t
      <3>2. t.session = st.session /\ ((q.mine /\ Shut(q)) \/ st.phase = "closed")
        BY <1>1, <1>7, <3>1 DEF Shut
      <3>3. CASE q.mine /\ Shut(q)
        BY <1>4, <1>5, <2>3, <3>2, <3>3
      <3>4. CASE st.phase = "closed"
        BY <2>1, <1>8, <3>2, <3>4 DEF PageOK, st
      <3> QED
        BY <3>2, <3>3, <3>4
    <2>6. ASSUME NEW d \in Slots PROVE Order(calls[d], page.state)'
      <3>1. CASE d = c
        BY <1>2, <3>1, Constants DEF Order, Starts, Accepted, Shut
      <3> DEFINE p == calls[d]
      <3>2. ASSUME d # c
            PROVE  /\ CallOK(p, st) /\ Order(p, st) /\ calls'[d] = p /\ ~(Starts(p) /\ Starts(q))
                   /\ ~(Accepted(p) /\ Accepted(q) /\ p.sess = q.sess)
        BY <1>0, <1>2, <2>1, <3>2 DEF CallsOK, Unique, q, st
      <3> HIDE DEF p
      <3>3. CASE d # c
        <4>1. p.op \in {"submit", "skip", "close"} =>
                p.sess \in Sessions /\ (p.mine => st.session \in Sessions)
          BY <3>2, <3>3 DEF CallOK
        <4>2. p.mine /\ p.op = "close" => p.sess = t.session \/ cache'[p.sess].closed
          <5>1. CASE Starts(q) /\ q.ans.ok
            BY <2>2, <1>8, <3>2, <3>3, <4>1, <5>1, Constants DEF Order
          <5>2. CASE ~(Starts(q) /\ q.ans.ok)
            BY <1>7, <1>8, <3>2, <3>3, <4>1, <5>2 DEF Order
          <5> QED
            BY <5>1, <5>2
        <4>3. Starts(p) => /\ t.session = None \/ cache'[t.session].closed
                           /\ t.phase = "starting" \/ (t.session # None /\ t.phase # "closed")
          <5> SUFFICES ASSUME Starts(p)
                       PROVE  /\ t.session = None \/ cache'[t.session].closed
                              /\ t.phase = "starting" \/ (t.session # None /\ t.phase # "closed")
            OBVIOUS
          <5>1. t.session = st.session /\ ~Starts(q)
            BY <1>7, <3>2, <3>3
          <5>2. t.session = None \/ cache'[t.session].closed
            BY <1>1, <1>8, <3>2, <3>3, <5>1 DEF Order, State, MaybeSession
          <5>3. CASE q.mine
            <6>1. q.op \in {"submit", "skip", "close"}
              BY <1>1, <5>1, <5>3 DEF CallOK, Starts, Call
            <6>2. st.session \in Sessions /\ st.session # None
              BY <1>1, <5>3, <6>1, Constants DEF CallOK
            <6>3. ~Shut(q)
              BY <1>4, <2>2, <2>3, <3>2, <3>3, <5>3, <6>2 DEF Order
            <6> QED
              BY <1>1, <1>7, <3>2, <3>3, <5>1, <5>2, <5>3, <6>2, <6>3 DEF Order, Shut
          <5>4. CASE ~q.mine
            BY <1>6, <3>2, <3>3, <5>1, <5>2, <5>4 DEF Order
          <5> QED
            BY <5>3, <5>4
        <4>4. Accepted(p) => ~cache'[p.sess].closed
          BY <1>4, <1>5, <3>2, <3>3, <4>1 DEF Order, Accepted, Shut
        <4> QED
          BY <3>2, <3>3, <4>2, <4>3, <4>4 DEF Order, Starts, Accepted, Shut, t
      <3> QED
        BY <3>1, <3>3
    <2> QED
      BY <2>4, <2>5, <2>6
  <1> QED
    BY <1>6, <1>9, <1>10, <1>11 DEF PageInv, CallsOK

-----------------------------------------------------------------------------
(* Routes *)

LEMMA RouteOK ==
  ASSUME PageInv, NEW r \in {"practice", "summary", "away"}, Route(r), Types', SummaryOK'
  PROVE  PageInv'
  <1>0. Types /\ CallsOK /\ CacheOK /\ Ordered
    BY DEF PageInv
  <1>1. page'.state = INITIAL_STATE /\ UNCHANGED <<rows, cache, past>>
        /\ \A d \in Slots : calls'[d] = [calls[d] EXCEPT !.mine = FALSE]
    BY DEF Route, Gone
  <1>2. \A d \in Slots :
          /\ calls[d] \in Call /\ CallOK(calls[d], page.state) /\ ~calls'[d].mine
          /\ calls'[d].op = calls[d].op /\ calls'[d].step = calls[d].step
          /\ calls'[d].seen = calls[d].seen
          /\ calls'[d].ans = calls[d].ans /\ calls'[d].sess = calls[d].sess
    BY <1>0, <1>1 DEF Types, CallsOK, Call
  <1>3. CallsOK'
    BY <1>1, <1>2 DEF CallsOK, CallOK, Accepted, Shut, Counted, CountOf, Done
  <1>4. CacheOK'
    BY <1>0, <1>1 DEF CacheOK, Counted, Done
  <1>5. Ordered'
    <2> SUFFICES ASSUME past.twice = {}
                 PROVE  Unique' /\ PageOK' /\ \A d \in Slots : Order(calls[d], page.state)'
      BY <1>1 DEF Ordered
    <2>1. Unique /\ \A d \in Slots : Order(calls[d], page.state)
      BY <1>0 DEF Ordered
    <2> QED
      BY <1>1, <1>2, <2>1, Constants DEF Unique, PageOK, Order, Starts, Accepted, Shut
  <1> QED
    BY <1>3, <1>4, <1>5 DEF PageInv

LEMMA RouteTypes ==
  ASSUME Types, NEW r \in {"practice", "summary", "away"}, Route(r), summary' \in Summary
  PROVE  Types' /\ page'.route = r /\ page'.state = INITIAL_STATE /\ UNCHANGED <<rows, past>>
  <1>1. calls' \in [Slots -> Call]
    BY ZenonT(40) DEF Types, Route, Gone, Call
  <1> QED
    BY <1>1, Constants DEF Types, Route

LEMMA OpenSummaryOK ==
  ASSUME PageInv, NEW s \in Sessions, OpenSummary(s)
  PROVE  PageInv'
  <1>0. Types /\ CacheOK /\ cache[s] \in Cached
    BY DEF PageInv, Types
  <1>1. Route("summary")
        /\ summary' = [session |-> s, cached |-> cache[s], query |-> "loading", total |-> 0]
    BY DEF OpenSummary, NoSummary
  <1>2. Types' /\ UNCHANGED <<rows, past>> /\ page'.state = INITIAL_STATE
    BY <1>0, <1>1, RouteTypes DEF MaybeSession, Summary
  <1>3. SummaryOK'
    BY <1>0, <1>1, <1>2, Constants DEF SummaryOK, CacheOK, Counted
  <1> QED
    BY <1>1, <1>2, <1>3, RouteOK

LEMMA TravelOK ==
  ASSUME PageInv, Closed \/ Recent \/ Leave \/ Enter
  PROVE  PageInv'
  <1>0. Types /\ SummaryOK
    BY DEF PageInv
  <1>1. CASE Closed
    BY <1>0, <1>1, OpenSummaryOK DEF Closed, SummaryOK
  <1>2. CASE Recent
    BY <1>2, OpenSummaryOK DEF Recent
  <1>3. CASE Leave
    <2>1. /\ Types' /\ page'.route = "away" /\ page'.state = INITIAL_STATE
          /\ UNCHANGED <<rows, past, summary>>
      BY <1>0, <1>3, RouteTypes DEF Leave, Types
    <2>2. SummaryOK'
      BY <1>0, <2>1, Constants DEF SummaryOK, Counted
    <2> QED
      BY <1>3, <2>1, <2>2, RouteOK DEF Leave
  <1>4. CASE Enter
    <2>1. /\ Types' /\ page'.route = "practice" /\ summary' = NoSummary
          /\ page'.state = INITIAL_STATE
      BY <1>0, <1>4, RouteTypes, Constants DEF Enter
    <2>2. SummaryOK'
      BY <2>1, Constants DEF SummaryOK
    <2> QED
      BY <1>4, <2>1, <2>2, RouteOK DEF Enter
  <1> QED
    BY <1>1, <1>2, <1>3, <1>4

LEMMA QueryOK ==
  ASSUME PageInv, SessionQuery
  PROVE  PageInv'
  <1>0. Types /\ CallsOK /\ CacheOK /\ SummaryOK /\ Ordered
    BY DEF PageInv
  <1>1. summary.session \in Sessions /\ UNCHANGED <<page, calls, rows, cache, past>>
    BY <1>0 DEF SessionQuery, SummaryOK
  <1>2. rows[summary.session].count \in Nat
    BY <1>0, <1>1 DEF Types, SessionRow
  <1>3. summary'.session = summary.session /\ summary'.cached = summary.cached
        /\ (summary'.query = "data" => summary'.total = rows[summary.session].count)
        /\ Types'
    BY <1>0, <1>1, <1>2 DEF Types, Summary, SessionQuery
  <1>4. CallsOK' /\ CacheOK' /\ SummaryOK'
    BY <1>0, <1>1, <1>3 DEF CallsOK, CallOK, Accepted, Shut, Counted, CountOf, Done, CacheOK,
                            SummaryOK
  <1>5. Ordered'
    BY <1>0, <1>1 DEF Ordered, Unique, Order, Starts, Accepted, Shut, PageOK
  <1> QED
    BY <1>3, <1>4, <1>5 DEF PageInv

-----------------------------------------------------------------------------
(* Every step, and the theorem *)

LEMMA NextPage == PageInv /\ [Next]_vars => PageInv'
  <1> SUFFICES ASSUME PageInv, [Next]_vars PROVE PageInv'
    OBVIOUS
  <1>1. CASE Next
    <2>1. CASE advanceToNext \/ setCode
      BY <2>1, EditOK
    <2>2. CASE Closed \/ Recent \/ Leave \/ Enter
      BY <2>2, TravelOK
    <2>3. CASE SessionQuery
      BY <2>3, QueryOK
    <2>4. CASE Sweep
      BY <2>4, SweepOK
    <2>5. CASE \E c \in Slots : startSession(c) \/ submitAnswer(c) \/ skip(c) \/ endSession(c)
                                 \/ Progress(c) \/ Unread(c) \/ Spare(c) \/ Lose(c)
      BY <2>5, ClickOK, JudgeOK, ServeOK, FinishOK, DeliverOK DEF Progress
    <2> QED
      BY <1>1, <2>1, <2>2, <2>3, <2>4, <2>5 DEF Next
  <1>2. CASE UNCHANGED vars
    <2>1. UNCHANGED <<page, summary, calls, rows, cache, past>>
      BY <1>2 DEF vars
    <2>2. Types' /\ CallsOK' /\ CacheOK' /\ SummaryOK'
      BY <2>1 DEF PageInv, Types, CallsOK, CallOK, Accepted, Shut, Counted, CountOf, Done, CacheOK,
                  SummaryOK
    <2>3. Ordered'
      BY <2>1 DEF PageInv, Ordered, Unique, Order, Starts, Accepted, Shut, PageOK
    <2> QED
      BY <2>2, <2>3 DEF PageInv
  <1> QED
    BY <1>1, <1>2

LEMMA ClosedImplied == PageInv => ClosedIsClosed
  <1> SUFFICES ASSUME PageInv PROVE ClosedIsClosed
    OBVIOUS
  <1>0. Types /\ CacheOK /\ SummaryOK /\ Ordered
    BY DEF PageInv
  <1>1. StatTiles /\ summary.session \notin past.late => totalQuestions = ThetaHistory
    <2> SUFFICES ASSUME StatTiles, summary.session \notin past.late, summary.cached.closed
                 PROVE  summary.cached.total = summary.total
      BY <1>0 DEF totalQuestions, ThetaHistory, isEstimated, Types, Summary, Cached
    <2> QED
      BY <1>0 DEF SummaryOK, Counted, StatTiles
  <1>2. past.twice = {} /\ page.state.phase = "closed" => cache[page.state.session].closed
    BY <1>0 DEF Ordered, PageOK
  <1> QED
    BY <1>0, <1>1, <1>2 DEF CacheOK, Done, Counted, ClosedIsClosed

(* Whatever overlaps, fails, is lost or swept: a close result is of a        *)
(* session that has ended, or that Close failed to abandon; it counts the    *)
(* responses of that session, but for those recorded after a Close had read  *)
(* it, and so do the tiles of a summary, beside its charts; and a page that  *)
(* says its session is closed has a close result of it, unless two Closes of *)
(* one session were both accepted (practice_session.go Close,                *)
(* use-practice-engine.ts, session-cache.ts, the summary page).              *)
THEOREM ClosedStaysClosed == Spec => []ClosedIsClosed
  <1>1. Spec => []PageInv
    BY InitPage, NextPage, PTL DEF Spec
  <1> QED
    BY <1>1, ClosedImplied, PTL

-----------------------------------------------------------------------------
(* The page in step with the server *)

(* What a page that waits for nothing shows of the session it has open.      *)
Agrees(st) ==
  LET row == rows[st.session]
  IN  /\ row.status = "ACTIVE" /\ st.count \in {0, row.count}
      /\ st.phase # "result" => st.problem = row.current
      /\ st.phase = "result" =>
           st.result = [problem |-> st.problem, next |-> row.current, count |-> row.count]
      /\ st.phase = "exhausted" <=> st.problem = NoProblem
      /\ st.code \in {NoProblem, st.problem}

Opened(st) == st.session # None /\ st.phase # "closed"

(* The one request under way, of a page whose hook is in state `st`.  A      *)
(* start is answered with what its session has, and makes one only if there  *)
(* is none; a Submit or Skip is of the problem shown, which is the server's  *)
(* until it has been answered; a close is of a session that is open until it *)
(* has been.                                                                 *)
StartHolds(q, st) ==
  /\ q.sess = st.session
  /\ st.session # None => st.phase = "starting"
  /\ q.step = "loaded" => Active = {}
  /\ q.step = "answered" =>
       IF q.ans.ok THEN rows[q.ans.sess].status = "ACTIVE" /\ q.ans.next = rows[q.ans.sess].current
                   ELSE st.session = None
RecordHolds(q, st) ==
  /\ q.sess = st.session /\ rows[st.session].status = "ACTIVE"
  /\ st.phase = IF q.op = "submit" THEN "judge0" ELSE "skipping"
  /\ q.prob = st.problem /\ st.problem # NoProblem /\ st.code \in {NoProblem, st.problem}
  /\ q.step = "loaded" => q.seen = rows[st.session].count
  /\ IF q.step = "answered" /\ q.ans.ok
     THEN q.ans.next = rows[st.session].current /\ q.ans.count = rows[st.session].count
     ELSE st.problem = rows[st.session].current /\ st.count \in {0, rows[st.session].count}
CloseHolds(q, st) ==
  /\ q.sess = st.session /\ st.phase = "closing"
  /\ IF q.step = "answered" THEN q.ans.ok ELSE rows[st.session].status = "ACTIVE"
Holds(q, st) ==
  /\ q.step \in {"execute", "poll"} => q.op = "submit"
  /\ ~q.mine => st.session = None
  /\ q.mine /\ q.op = "start" => StartHolds(q, st)
  /\ q.mine /\ q.op \in {"submit", "skip"} => RecordHolds(q, st)
  /\ q.mine /\ q.op = "close" => CloseHolds(q, st)

CalmOK == calm =>
  /\ \A c, d \in Slots : calls[c].step # "free" /\ calls[d].step # "free" => c = d
  /\ \A c \in Slots : calls[c].step # "free" => Holds(calls[c], page.state)
  /\ (\A c \in Slots : calls[c].step = "free") /\ Opened(page.state) => Agrees(page.state)

LEMMA InitCalm == Init => CalmOK
  BY Constants DEF Init, CalmOK, Opened

(* Two requests under way are too many.                                      *)
LEMMA FewBusy ==
  ASSUME NEW f, Cardinality(Busy(f)) <= 1, NEW c \in Slots, NEW d \in Slots,
         f[c].step # "free", f[d].step # "free"
  PROVE  c = d
  <1> SUFFICES ASSUME c # d PROVE FALSE
    OBVIOUS
  <1>1. IsFiniteSet(Busy(f)) /\ Cardinality(Busy(f)) \in Nat
    <2>1. Busy(f) \subseteq Slots
      BY DEF Busy
    <2> QED
      BY <2>1, PracticeAssumption, FS_Subset, FS_CardinalityType
  <1>2. c \in Busy(f) /\ d \in Busy(f)
    BY DEF Busy
  <1>3. IsFiniteSet({c}) /\ Cardinality({c}) = 1
    BY FS_Singleton
  <1>4. IsFiniteSet({c} \cup {d}) /\ Cardinality({c} \cup {d}) = 2
    <2>1. d \notin {c}
      OBVIOUS
    <2>2. /\ IsFiniteSet({c} \cup {d})
          /\ Cardinality({c} \cup {d}) = IF d \in {c} THEN Cardinality({c}) ELSE Cardinality({c}) + 1
      BY <1>3, FS_AddElement
    <2> QED
      BY <1>3, <2>1, <2>2
  <1>5. Cardinality({c} \cup {d}) <= Cardinality(Busy(f))
    BY <1>1, <1>2, FS_Subset
  <1> QED
    BY <1>1, <1>4, <1>5

(* After a step of c's request that leaves the page calm, no other request   *)
(* is under way.                                                             *)
LEMMA AloneIs ==
  ASSUME Types, NEW c \in Slots, NEW q \in Call, NEW p \in BOOLEAN, Keep(p), calm',
         calls' = [calls EXCEPT ![c] = q], q.step # "free"
  PROVE  /\ p /\ calls'[c] = q
         /\ \A d \in Slots : d # c => calls'[d].step = "free" /\ calls[d].step = "free"
  <1>1. p /\ Cardinality(Busy(calls')) <= 1
    BY DEF Keep
  <1>2. calls'[c] = q /\ \A d \in Slots : d # c => calls'[d] = calls[d]
    BY DEF Types
  <1>3. ASSUME NEW d \in Slots, d # c PROVE calls'[d].step = "free"
    <2>1. SUFFICES ASSUME calls'[d].step # "free" PROVE FALSE
      OBVIOUS
    <2>2. calls'[c].step # "free" /\ Cardinality(Busy(calls')) <= 1
      BY <1>1, <1>2
    <2>3. c = d
      BY <2>1, <2>2, FewBusy
    <2> QED
      BY <1>3, <2>3
  <1> QED
    BY <1>1, <1>2, <1>3

LEMMA CalmOne ==
  ASSUME NEW c \in Slots, calls'[c].step # "free", Holds(calls[c], page.state)',
         \A d \in Slots : d # c => calls'[d].step = "free"
  PROVE  CalmOK'
  BY DEF CalmOK

LEMMA SendCalm ==
  ASSUME PageInv, CalmOK, NEW c \in Slots, NEW op, NEW step, NEW phase, Send(c, op, step, phase),
         step \in {"execute", "sent"}, step = "execute" => op = "submit",
         \/ op = "start" /\ MayStart /\ phase = "starting"
         \/ op = "submit" /\ Console /\ page.state.problem # NoProblem /\ phase = "judge0"
         \/ op = "skip" /\ Console /\ phase = "skipping"
         \/ op = "close" /\ Workspace /\ phase = "closing"
  PROVE  CalmOK'
  <1> SUFFICES ASSUME calm' PROVE CalmOK'
    BY DEF CalmOK
  <1> DEFINE st == page.state
  <1>1. Types /\ st \in State
    BY DEF PageInv, Types
  <1>2. PICK q \in Call : /\ q.op = op /\ q.step = step /\ q.mine
                          /\ q.sess = st.session /\ q.prob = st.problem
                          /\ calls' = [calls EXCEPT ![c] = q]
    <2> DEFINE q == [Free EXCEPT !.op = op, !.step = step, !.mine = TRUE,
                       !.sess = page.state.session, !.prob = page.state.problem]
    <2>1. q \in Call /\ q.op = op /\ q.step = step /\ q.mine /\ q.sess = st.session
          /\ q.prob = st.problem
      BY <1>1, Constants DEF Call, State, Free
    <2>2. calls' = [calls EXCEPT ![c] = q]
      BY DEF Send
    <2> HIDE DEF q
    <2> QED
      BY <2>1, <2>2
  <1>3. PICK t \in State : /\ t.session = st.session /\ t.problem = st.problem /\ t.code = st.code
                           /\ t.count = st.count /\ t.phase = phase
                           /\ page'.state = t
    <2> DEFINE t == [st EXCEPT !.phase = phase]
    <2>1. /\ t.session = st.session /\ t.problem = st.problem /\ t.code = st.code
          /\ t.count = st.count /\ t.phase = phase /\ t \in State
      BY <1>1 DEF State, Phase
    <2>2. page' = [page EXCEPT !.state = t]
      BY DEF Send, setState
    <2>3. page'.state = t
      BY <1>1, <2>2 DEF Types
    <2> HIDE DEF t
    <2> QED
      BY <2>1, <2>3
  <1>4. calls[c].step = "free" /\ Keep(calm \/ op = "start") /\ rows' = rows
    BY DEF Send
  <1>5. /\ (calm \/ op = "start") /\ calls'[c] = q
        /\ \A d \in Slots : d # c => calls'[d].step = "free" /\ calls[d].step = "free"
    <2>1. (calm \/ op = "start") \in BOOLEAN
      OBVIOUS
    <2> QED
      BY <1>1, <1>2, <1>4, <2>1, AloneIs
  <1>6. ASSUME op # "start" PROVE Agrees(st) /\ st.session # None
    <2>1. Opened(st) /\ st.session # None
      BY <1>6 DEF Console, Workspace, StartCard, Opened
    <2>2. \A d \in Slots : calls[d].step = "free"
      BY <1>4, <1>5
    <2> QED
      BY <1>5, <1>6, <2>1, <2>2 DEF CalmOK
  <1>7. Holds(calls[c], page.state)'
    <2>1. CASE op = "start"
      BY <1>2, <1>3, <1>5, <2>1 DEF Holds, StartHolds
    <2>2. CASE op \in {"submit", "skip"}
      <3>1. st.phase # "result" /\ st.phase # "exhausted"
        BY <2>2 DEF Console, VerdictPanel
      <3>2. RecordHolds(calls[c], page.state)'
        BY <1>2, <1>3, <1>4, <1>5, <1>6, <2>2, <3>1 DEF RecordHolds, Agrees
      <3> QED
        BY <1>2, <1>3, <1>5, <2>2, <3>2 DEF Holds
    <2>3. CASE op = "close"
      BY <1>2, <1>3, <1>4, <1>5, <1>6, <2>3 DEF Holds, CloseHolds, Agrees
    <2> QED
      BY <2>1, <2>2, <2>3
  <1> QED
    BY <1>2, <1>5, <1>7, CalmOne

LEMMA ClickCalm ==
  ASSUME PageInv, CalmOK, NEW c \in Slots,
         startSession(c) \/ submitAnswer(c) \/ skip(c) \/ endSession(c)
  PROVE  CalmOK'
  <1>1. CASE startSession(c)
    BY <1>1, SendCalm DEF startSession
  <1>2. CASE submitAnswer(c)
    BY <1>2, SendCalm DEF submitAnswer, SubmitSolution
  <1>3. CASE skip(c)
    BY <1>3, SendCalm DEF skip, SkipProblem
  <1>4. CASE endSession(c)
    BY <1>4, SendCalm DEF endSession, EndSession
  <1> QED
    BY <1>1, <1>2, <1>3, <1>4

(* A step of c's request that the server has no part in.                     *)
LEMMA StepCalm ==
  ASSUME PageInv, CalmOK, NEW c \in Slots, NEW q \in Call, NEW p \in BOOLEAN, Keep(p),
         p => calm, calls[c].step # "free",
         calls' = [calls EXCEPT ![c] = q], UNCHANGED <<page, rows>>,
         q.op = calls[c].op, q.sess = calls[c].sess, q.prob = calls[c].prob, q.mine = calls[c].mine,
         q.step # "free", q.step \in {"execute", "poll"} => q.op = "submit",
         \/ q.step \notin {"answered", "loaded"} /\ calls[c].step # "answered"
         \/ /\ q.step = "answered" /\ ~q.ans.ok
            /\ p => calls[c].step # "answered" /\ q.op # "close" /\ (q.op = "start" => q.sess = None)
  PROVE  CalmOK'
  <1> SUFFICES ASSUME calm' PROVE CalmOK'
    BY DEF CalmOK
  <1>1. /\ p /\ calls'[c] = q
        /\ \A d \in Slots : d # c => calls'[d].step = "free" /\ calls[d].step = "free"
    BY AloneIs DEF PageInv
  <1>2. Holds(calls[c], page.state)
    BY <1>1 DEF CalmOK
  <1>3. Holds(calls[c], page.state)'
    BY <1>1, <1>2 DEF Holds, StartHolds, RecordHolds, CloseHolds
  <1> QED
    BY <1>1, <1>3, CalmOne

LEMMA JudgeCalm ==
  ASSUME PageInv, CalmOK, NEW c \in Slots, executeCode(c) \/ pollVerdict(c) \/ Lose(c)
  PROVE  CalmOK'
  <1> SUFFICES ASSUME calm' PROVE CalmOK'
    BY DEF CalmOK
  <1>1. calls[c] \in Call /\ calls \in [Slots -> Call] /\ calls[c].step # "free" /\ calm \in BOOLEAN
    <2>1. calm
      BY DEF executeCode, pollVerdict, Lose, Keep
    <2> QED
      BY <2>1 DEF PageInv, Types, executeCode, pollVerdict, Lose
  <1>2. UNCHANGED <<page, rows>>
    BY DEF executeCode, pollVerdict, Lose
  <1>3. ASSUME Keep(calm), calls[c].step \in {"execute", "poll"},
               NEW st \in {"poll", "sent"}, calls' = [calls EXCEPT ![c].step = st]
        PROVE  CalmOK'
    <2>1. PICK q \in Call : /\ calls' = [calls EXCEPT ![c] = q] /\ q.step = st
                            /\ q.op = calls[c].op /\ q.sess = calls[c].sess
                            /\ q.prob = calls[c].prob /\ q.mine = calls[c].mine
      <3> DEFINE q == [calls[c] EXCEPT !.step = st]
      <3>1. calls' = [calls EXCEPT ![c] = q]
        BY <1>1, <1>3
      <3>2. /\ q \in Call /\ q.step = st /\ q.op = calls[c].op /\ q.sess = calls[c].sess
            /\ q.prob = calls[c].prob /\ q.mine = calls[c].mine
        BY <1>1 DEF Call
      <3> HIDE DEF q
      <3> QED
        BY <3>1, <3>2
    <2>2. q.op = "submit"
      BY <1>1, <1>3, <2>1 DEF CalmOK, Keep, Holds
    <2>3. q.step # "free" /\ q.step # "answered" /\ calls[c].step # "answered"
      BY <1>3, <2>1
    <2> QED
      BY <1>1, <1>2, <1>3, <2>1, <2>2, <2>3, StepCalm
  <1>4. ASSUME Keep(calm), calls[c].step = "poll", calls' = [calls EXCEPT ![c].polls = @ + 1]
        PROVE  CalmOK'
    <2>1. PICK q \in Call : /\ calls' = [calls EXCEPT ![c] = q] /\ q.step = "poll"
                            /\ q.op = calls[c].op /\ q.sess = calls[c].sess
                            /\ q.prob = calls[c].prob /\ q.mine = calls[c].mine
      <3> DEFINE q == [calls[c] EXCEPT !.polls = @ + 1]
      <3>1. calls' = [calls EXCEPT ![c] = q]
        BY <1>1, <1>4
      <3>2. /\ q \in Call /\ q.step = "poll" /\ q.op = calls[c].op /\ q.sess = calls[c].sess
            /\ q.prob = calls[c].prob /\ q.mine = calls[c].mine
        BY <1>1, <1>4 DEF Call
      <3> HIDE DEF q
      <3> QED
        BY <3>1, <3>2
    <2>2. q.op = "submit"
      BY <1>1, <1>4, <2>1 DEF CalmOK, Keep, Holds
    <2> QED
      BY <1>1, <1>2, <1>4, <2>1, <2>2, StepCalm
  <1>5. ASSUME NEW p \in BOOLEAN, Keep(p), calls' = Answered(c, NoAnswer),
               p => /\ calm /\ calls[c].step # "answered" /\ calls[c].op # "close"
                    /\ calls[c].op = "start" => calls[c].sess = None
        PROVE  CalmOK'
    <2>1. PICK q \in Call : /\ calls' = [calls EXCEPT ![c] = q] /\ q.step = "answered"
                            /\ ~q.ans.ok /\ q.op = calls[c].op /\ q.sess = calls[c].sess
                            /\ q.prob = calls[c].prob /\ q.mine = calls[c].mine
      <3> DEFINE q == [calls[c] EXCEPT !.step = "answered", !.ans = NoAnswer]
      <3>1. calls' = [calls EXCEPT ![c] = q]
        BY <1>1, <1>5 DEF Answered
      <3>2. /\ q \in Call /\ q.step = "answered" /\ q.op = calls[c].op /\ q.sess = calls[c].sess
            /\ q.prob = calls[c].prob /\ q.mine = calls[c].mine /\ ~q.ans.ok
        BY <1>1, Constants DEF Call
      <3> HIDE DEF q
      <3> QED
        BY <3>1, <3>2
    <2> QED
      BY <1>1, <1>2, <1>5, <2>1, StepCalm
  <1>6. CASE executeCode(c)
    BY <1>3, <1>6 DEF executeCode
  <1>7. CASE pollVerdict(c)
    <2>1. calls[c].op = "submit" /\ calls[c].step = "poll" /\ Keep(calm)
      BY <1>1, <1>7 DEF pollVerdict, CalmOK, Keep, Holds
    <2> QED
      BY <1>1, <1>3, <1>4, <1>5, <1>7, <2>1 DEF pollVerdict
  <1>8. CASE Lose(c)
    <2> DEFINE p == calm /\ calls[c].step # "answered" /\ calls[c].op # "close"
                      /\ (calls[c].op = "start" => calls[c].sess = None)
    <2>1. Keep(p) /\ calls' = Answered(c, NoAnswer) /\ p \in BOOLEAN
      BY <1>1, <1>8 DEF Lose
    <2> QED
      BY <1>5, <2>1
  <1> QED
    BY <1>6, <1>7, <1>8

(* The one request of a page in step, once the server has dealt with it.     *)
LEMMA DealtCalm ==
  ASSUME PageInv, CalmOK, NEW c \in Slots, NEW q \in Call, calls[c].step # "free",
         calls' = [calls EXCEPT ![c] = q], Keep(calm), UNCHANGED page,
         q.step \in {"loaded", "answered"},
         calm /\ Holds(calls[c], page.state) => Holds(q, page.state)'
  PROVE  CalmOK'
  <1> SUFFICES ASSUME calm' PROVE CalmOK'
    BY DEF CalmOK
  <1>1. calm /\ Types
    BY DEF Keep, PageInv
  <1>2. /\ calls'[c] = q
        /\ \A d \in Slots : d # c => calls'[d].step = "free" /\ calls[d].step = "free"
    BY <1>1, AloneIs
  <1>3. Holds(calls[c], page.state)
    BY <1>1 DEF CalmOK
  <1>4. Holds(calls[c], page.state)'
    BY <1>1, <1>2, <1>3 DEF Holds, StartHolds, RecordHolds, CloseHolds
  <1> QED
    BY <1>2, <1>4, CalmOne

LEMMA ServeCalm ==
  ASSUME PageInv, CalmOK, NEW c \in Slots, Serve(c)
  PROVE  CalmOK'
  <1> DEFINE st == page.state
             r == calls[c]
  <1>1. /\ Types /\ r \in Call /\ st \in State /\ CallOK(r, st) /\ r.step = "sent" /\ Keep(calm)
        /\ UNCHANGED <<page, rows>> /\ page'.state = st
    BY DEF PageInv, Types, CallsOK, Serve
  <1>2. CASE r.op = "start"
    <2>1. CASE Active = {} /\ calls' = Loaded(c, 0)
      <3>1. PICK q \in Call : /\ calls' = [calls EXCEPT ![c] = q] /\ q.step = "loaded"
                              /\ q.op = r.op /\ q.sess = r.sess /\ q.mine = r.mine
        BY <1>1, <2>1, LoadedIs
      <3>2. Active' = {}
        BY <1>1, <2>1 DEF Active
      <3>3. Holds(r, st) => Holds(q, page.state)'
        BY <1>1, <1>2, <3>1, <3>2 DEF Holds, StartHolds
      <3> QED
        BY <1>1, <3>1, <3>3, DealtCalm
    <2>2. CASE \E s \in Active : calls' = Answered(c, Reply(s, rows[s].current, 0))
      <3>1. PICK s \in Active : calls' = Answered(c, Reply(s, rows[s].current, 0))
        BY <2>2
      <3>2. s \in Sessions /\ rows[s].status = "ACTIVE" /\ rows[s].current \in MaybeProblem
        BY <1>1 DEF Active, Types, SessionRow
      <3>3. PICK a \in Answer : calls' = Answered(c, a) /\ a.ok /\ a.sess = s /\ a.next = rows[s].current
        BY <3>1, <3>2, ReplyIs
      <3>4. PICK q \in Call : /\ calls' = [calls EXCEPT ![c] = q] /\ q.step = "answered" /\ q.ans = a
                              /\ q.op = r.op /\ q.sess = r.sess /\ q.mine = r.mine
        BY <1>1, <3>3, AnsweredIs
      <3>5. Holds(r, st) => Holds(q, page.state)'
        BY <1>1, <1>2, <3>2, <3>3, <3>4 DEF Holds, StartHolds
      <3> QED
        BY <1>1, <3>4, <3>5, DealtCalm
    <2> QED
      BY <1>2, <2>1, <2>2 DEF Serve, Start
  <1>3. CASE r.op # "start"
    <2>1. Admit(c) /\ r.sess \in Sessions
      BY <1>1, <1>3 DEF Serve, CallOK, Call
    <2>2. CASE /\ calls' = Answered(c, NoAnswer)
               /\ rows[r.sess].status # "ACTIVE" \/ (r.op # "close" /\ r.prob = NoProblem)
      <3>1. PICK q \in Call : /\ calls' = [calls EXCEPT ![c] = q] /\ q.step = "answered"
                              /\ q.op = r.op /\ q.sess = r.sess /\ q.mine = r.mine
        BY <1>1, <2>2, AnsweredIs, Constants
      <3>2. r.op \in {"submit", "skip", "close"}
        BY <1>1, <1>3 DEF Call, CallOK
      <3>3. Holds(r, st) => ~r.mine
        BY <1>1, <2>2, <3>2 DEF Holds, RecordHolds, CloseHolds
      <3>4. Holds(r, st) => Holds(q, page.state)'
        BY <1>1, <3>1, <3>3 DEF Holds
      <3> QED
        BY <1>1, <3>1, <3>4, DealtCalm
    <2>3. CASE calls' = Loaded(c, rows[r.sess].count)
      <3>1. PICK n \in Nat : n = rows[r.sess].count
        BY <1>1, <2>1 DEF Types, SessionRow
      <3>2. PICK q \in Call : /\ calls' = [calls EXCEPT ![c] = q] /\ q.step = "loaded" /\ q.seen = n
                              /\ q.op = r.op /\ q.sess = r.sess /\ q.mine = r.mine /\ q.prob = r.prob
        <4>1. calls' = Loaded(c, n)
          BY <2>3, <3>1
        <4> QED
          BY <1>1, <4>1, LoadedIs
      <3> HIDE DEF r
      <3>3. Holds(r, st) => Holds(q, page.state)'
        BY <1>1, <1>3, <3>1, <3>2 DEF Holds, RecordHolds, CloseHolds
      <3> QED
        BY <1>1, <3>2, <3>3, DealtCalm DEF r
    <2> QED
      BY <2>1, <2>2, <2>3 DEF Admit
  <1> QED
    BY <1>2, <1>3

LEMMA FinishCalm ==
  ASSUME PageInv, CalmOK, NEW c \in Slots, Finish(c) \/ Spare(c)
  PROVE  CalmOK'
  <1> DEFINE st == page.state
             r == calls[c]
  <1>1. /\ Types /\ r \in Call /\ st \in State /\ CallOK(r, st) /\ r.step = "loaded" /\ Keep(calm)
        /\ UNCHANGED page /\ page'.state = st /\ rows \in [Sessions -> SessionRow]
    BY DEF PageInv, Types, CallsOK, Finish, Spare
  <1>2. CASE Finish(c) /\ r.op = "start"
    <2>1. CASE calls' = Answered(c, NoAnswer) /\ Active # {}
      <3>1. PICK q \in Call : /\ calls' = [calls EXCEPT ![c] = q] /\ q.step = "answered"
                              /\ q.op = r.op /\ q.sess = r.sess /\ q.mine = r.mine
        BY <1>1, <2>1, AnsweredIs, Constants
      <3>2. Holds(r, st) => ~r.mine
        BY <1>1, <1>2, <2>1 DEF Holds, StartHolds
      <3>3. Holds(r, st) => Holds(q, page.state)'
        BY <1>1, <3>1, <3>2 DEF Holds
      <3> QED
        BY <1>1, <3>1, <3>3, DealtCalm
    <2>2. ASSUME NEW p \in Problems, NEW s \in Unused,
                 rows' = [rows EXCEPT ![s].status = "ACTIVE", ![s].current = p],
                 calls' = Answered(c, Reply(s, p, 0))
          PROVE  CalmOK'
      <3>1. s \in Sessions /\ p \in MaybeProblem
        BY DEF Unused, MaybeProblem
      <3>2. rows'[s].status = "ACTIVE" /\ rows'[s].current = p
        BY <1>1, <2>2, <3>1 DEF SessionRow
      <3>3. PICK a \in Answer : calls' = Answered(c, a) /\ a.ok /\ a.sess = s /\ a.next = p
        BY <2>2, <3>1, ReplyIs
      <3>4. PICK q \in Call : /\ calls' = [calls EXCEPT ![c] = q] /\ q.step = "answered" /\ q.ans = a
                              /\ q.op = r.op /\ q.sess = r.sess /\ q.mine = r.mine
        BY <1>1, <3>3, AnsweredIs
      <3>5. Holds(r, st) => Holds(q, page.state)'
        BY <1>1, <1>2, <3>2, <3>3, <3>4 DEF Holds, StartHolds
      <3> QED
        BY <1>1, <3>4, <3>5, DealtCalm
    <2> QED
      BY <1>2, <2>1, <2>2 DEF Finish, Create
  <1>3. CASE Finish(c) /\ r.op \in {"submit", "skip"}
    <2> DEFINE s == r.sess
    <2>1. PICK p \in MaybeProblem, n \in Nat :
            /\ n = r.seen + 1
            /\ rows' = [rows EXCEPT ![s].current = p, ![s].count = @ + 1]
            /\ calls' = Answered(c, Reply(s, p, n))
      <3>1. PICK p \in MaybeProblem \ {r.prob} :
              /\ rows' = [rows EXCEPT ![s].current = p, ![s].count = @ + 1]
              /\ calls' = Answered(c, Reply(s, p, r.seen + 1))
        BY <1>3 DEF Finish, AppendResponse
      <3>2. r.seen + 1 \in Nat
        BY <1>1 DEF Call
      <3> QED
        BY <3>1, <3>2
    <2>2. s \in Sessions
      BY <1>1, <1>3 DEF CallOK
    <2>3. /\ rows'[s].status = rows[s].status /\ rows'[s].current = p
          /\ rows'[s].count = rows[s].count + 1
      BY <1>1, <2>1, <2>2 DEF SessionRow
    <2>4. PICK a \in Answer : calls' = Answered(c, a) /\ a.ok /\ a.next = p /\ a.count = n
      <3> HIDE DEF r
      <3> QED
        BY <2>1, <2>2, ReplyIs
    <2>5. PICK q \in Call : /\ calls' = [calls EXCEPT ![c] = q] /\ q.step = "answered" /\ q.ans = a
                            /\ q.op = r.op /\ q.sess = r.sess /\ q.mine = r.mine /\ q.prob = r.prob
      BY <1>1, <2>4, AnsweredIs
    <2> HIDE DEF r
    <2>6. Holds(r, st) => Holds(q, page.state)'
      <3> SUFFICES ASSUME Holds(r, st), r.mine PROVE RecordHolds(q, page.state)'
        BY <1>1, <1>3, <2>5 DEF Holds
      <3>1. RecordHolds(r, st) /\ r.sess = st.session
        BY <1>3 DEF Holds, RecordHolds
      <3> QED
        BY <1>1, <2>1, <2>3, <2>4, <2>5, <3>1 DEF RecordHolds
    <2> QED
      BY <1>1, <2>5, <2>6, DealtCalm DEF r
  <1>4. CASE r.op = "close"
    <2>1. r.sess \in Sessions /\ r.seen \in Nat /\ NoProblem \in MaybeProblem
      BY <1>1, <1>4 DEF CallOK, Call, MaybeProblem
    <2>2. calls' = Answered(c, Reply(r.sess, NoProblem, r.seen))
      BY <1>4 DEF Finish, Close, Spare
    <2>3. PICK a \in Answer : calls' = Answered(c, a) /\ a.ok
      <3> HIDE DEF r
      <3> QED
        BY <2>1, <2>2, ReplyIs
    <2>4. PICK q \in Call : /\ calls' = [calls EXCEPT ![c] = q] /\ q.step = "answered" /\ q.ans = a
                            /\ q.op = r.op /\ q.sess = r.sess /\ q.mine = r.mine
      BY <1>1, <2>3, AnsweredIs
    <2>5. Holds(r, st) => Holds(q, page.state)'
      BY <1>1, <1>4, <2>3, <2>4 DEF Holds, CloseHolds
    <2> QED
      BY <1>1, <2>4, <2>5, DealtCalm
  <1> QED
    BY <1>1, <1>2, <1>3, <1>4 DEF Call, CallOK, Spare

(* An answer leaves the page with what the server has.                       *)
LEMMA SettledCalm ==
  ASSUME Types, NEW q \in Call, NEW st \in State, q.mine, Holds(q, st), CallOK(q, st),
         q.step = "answered", NEW code \in templateFor(q.ans.next),
         NEW t, t = Settled(st, q, code), Opened(t)
  PROVE  Agrees(t)
  <1> DEFINE a == q.ans
  <1>1. /\ a.ok \in BOOLEAN /\ code \in {a.next, NoProblem}
        /\ q.op \in {"start", "submit", "skip", "close"}
    BY DEF Call, Answer, CallOK, templateFor
  <1>2. CASE q.op = "start"
    <2>1. CASE a.ok
      <3>1. /\ t.phase = Shown(a.next) /\ t.session = a.sess /\ t.problem = a.next
            /\ t.code = code /\ t.count = 0
        BY <1>2, <2>1 DEF Settled, Started
      <3>2. rows[a.sess].status = "ACTIVE" /\ a.next = rows[a.sess].current
        BY <1>2, <2>1 DEF Holds, StartHolds
      <3> QED
        BY <1>1, <3>1, <3>2 DEF Agrees, Shown
    <2>2. CASE ~a.ok
      <3>1. t.session = st.session
        BY <2>2 DEF Settled, Failed, State
      <3> QED
        BY <1>2, <2>2, <3>1 DEF Holds, StartHolds, Opened
    <2> QED
      BY <2>1, <2>2
  <1>3. CASE q.op \in {"submit", "skip"}
    <2>1. RecordHolds(q, st)
      BY <1>3 DEF Holds
    <2>2. CASE ~a.ok
      <3>1. /\ t.phase = "active" /\ t.session = st.session /\ t.problem = st.problem
            /\ t.code = st.code /\ t.count = st.count
        BY <1>3, <2>2 DEF Settled, Failed, State
      <3> QED
        BY <2>1, <2>2, <3>1 DEF RecordHolds, Agrees
    <2>3. CASE a.ok /\ q.op = "submit"
      <3>1. /\ t.phase = "result" /\ t.session = st.session /\ t.problem = st.problem
            /\ t.code = st.code /\ t.count = a.count
            /\ t.result = [problem |-> q.prob, next |-> a.next, count |-> a.count]
        BY <2>3 DEF Settled, Verdict, State
      <3> QED
        BY <2>1, <2>3, <3>1 DEF RecordHolds, Agrees
    <2>4. CASE a.ok /\ q.op = "skip"
      <3>1. /\ t.phase = Shown(a.next) /\ t.session = st.session /\ t.problem = a.next
            /\ t.code = code /\ t.count = a.count
        BY <2>4 DEF Settled, Skipped, State
      <3> QED
        BY <1>1, <2>1, <2>4, <3>1 DEF RecordHolds, Agrees, Shown
    <2> QED
      BY <1>1, <1>3, <2>2, <2>3, <2>4
  <1>4. CASE q.op = "close"
    <2>1. a.ok
      BY <1>4 DEF Holds, CloseHolds
    <2>2. t.phase = "closed"
      BY <1>4, <2>1 DEF Settled, State
    <2> QED
      BY <2>2 DEF Opened
  <1> QED
    BY <1>1, <1>2, <1>3, <1>4

LEMMA DeliverCalm ==
  ASSUME PageInv, CalmOK, NEW c \in Slots, Deliver(c)
  PROVE  CalmOK'
  <1> SUFFICES ASSUME calm' PROVE CalmOK'
    BY DEF CalmOK
  <1> DEFINE q == calls[c]
             st == page.state
  <1>1. /\ Types /\ q \in Call /\ st \in State /\ CallOK(q, st)
        /\ page \in [route : {"practice", "summary", "away"}, state : State]
        /\ calls \in [Slots -> Call]
    BY DEF PageInv, Types, CallsOK
  <1>2. calm /\ q.step = "answered" /\ rows' = rows /\ calls' = [calls EXCEPT ![c] = Free]
    BY DEF Deliver, Keep
  <1>3. /\ Holds(q, st)
        /\ \A d \in Slots : d # c => calls[d].step = "free"
    BY <1>2 DEF CalmOK
  <1>4. \A d \in Slots : calls'[d].step = "free"
    <2> TAKE d \in Slots
    <2>1. calls'[d] = IF d = c THEN Free ELSE calls[d]
      BY <1>1, <1>2
    <2> QED
      BY <1>3, <2>1, Constants
  <1>5. Opened(page'.state) => Agrees(page'.state)
    <2>1. SUFFICES ASSUME Opened(page'.state) PROVE Agrees(page'.state)
      OBVIOUS
    <2>2. CASE q.mine
      <3>1. PICK code \in templateFor(q.ans.next) : setState(Settled(st, q, code))
        BY <2>2 DEF Deliver
      <3>2. page'.state = Settled(st, q, code)
        BY <1>1, <3>1 DEF setState
      <3> QED
        BY <1>1, <1>2, <1>3, <2>1, <2>2, <3>2, SettledCalm
    <2>3. CASE ~q.mine
      <3>1. page' = page
        BY <2>3 DEF Deliver
      <3> QED
        BY <1>3, <2>1, <2>3, <3>1 DEF Holds, Opened
    <2> QED
      BY <2>2, <2>3
  <1>6. Opened(page.state)' => Agrees(page.state)'
    BY <1>2, <1>5 DEF Opened, Agrees
  <1> QED
    BY <1>4, <1>6 DEF CalmOK

(* While the page goes on or its code changes no request is under way.       *)
LEMMA EditCalm ==
  ASSUME PageInv, CalmOK, advanceToNext \/ setCode
  PROVE  CalmOK'
  <1> SUFFICES ASSUME calm' PROVE CalmOK'
    BY DEF CalmOK
  <1> DEFINE st == page.state
  <1>1. /\ Types /\ CallsOK /\ st \in State /\ page \in [route : {"practice", "summary", "away"}, state : State]
    BY DEF PageInv, Types
  <1>2. calm /\ rows' = rows /\ calls' = calls /\ Workspace
    BY DEF advanceToNext, setCode, NextProblem, AnswerSurface
  <1>3. Opened(st)
    BY <1>2 DEF Workspace, StartCard, Opened
  <1>4. CASE advanceToNext
    <2>1. st.phase = "result" /\ st.result.next # NoProblem
      BY <1>4 DEF advanceToNext, NextProblem, VerdictPanel
    <2>2. ASSUME NEW c \in Slots PROVE calls[c].step = "free"
      <3>1. SUFFICES ASSUME calls[c].step # "free" PROVE FALSE
        OBVIOUS
      <3>2. Holds(calls[c], st) /\ calls[c] \in Call /\ CallOK(calls[c], st)
        BY <1>1, <1>2, <3>1 DEF CalmOK, Types, CallsOK
      <3> QED
        BY <1>3, <2>1, <3>1, <3>2 DEF Holds, StartHolds, RecordHolds, CloseHolds, Opened, Call, CallOK
    <2>3. Agrees(st)
      BY <1>2, <1>3, <2>2 DEF CalmOK
    <2>4. PICK code \in templateFor(st.result.next) :
            setState([st EXCEPT !.phase = "active", !.problem = st.result.next,
                        !.code = code, !.result = NoResult])
      BY <1>4 DEF advanceToNext
    <2>5. PICK t : /\ page'.state = t /\ t.phase = "active" /\ t.problem = st.result.next
                   /\ t.code = code /\ t.session = st.session /\ t.count = st.count
      <3> DEFINE t == [st EXCEPT !.phase = "active", !.problem = st.result.next,
                         !.code = code, !.result = NoResult]
      <3>1. /\ t.phase = "active" /\ t.problem = st.result.next
            /\ t.code = code /\ t.session = st.session /\ t.count = st.count
        BY <1>1 DEF State
      <3>2. page'.state = t
        BY <1>1, <2>4 DEF setState
      <3> HIDE DEF t
      <3> QED
        BY <3>1, <3>2
    <2>6. code \in {st.result.next, NoProblem} /\ st.result.next = rows[st.session].current
      BY <2>1, <2>3 DEF templateFor, Agrees
    <2>7. Agrees(page.state)'
      BY <1>2, <2>1, <2>3, <2>5, <2>6 DEF Agrees
    <2> QED
      BY <1>2, <2>2, <2>7 DEF CalmOK
  <1>5. CASE setCode
    <2>1. PICK code \in templateFor(st.problem) : setState([st EXCEPT !.code = code])
      BY <1>5 DEF setCode
    <2>2. PICK t : /\ page'.state = t /\ t.phase = st.phase /\ t.problem = st.problem
                   /\ t.code = code /\ t.session = st.session /\ t.count = st.count
                   /\ t.result = st.result
      <3> DEFINE t == [st EXCEPT !.code = code]
      <3>1. /\ t.phase = st.phase /\ t.problem = st.problem /\ t.code = code
            /\ t.session = st.session /\ t.count = st.count /\ t.result = st.result
        BY <1>1 DEF State
      <3>2. page'.state = t
        BY <1>1, <2>1 DEF setState
      <3> HIDE DEF t
      <3> QED
        BY <3>1, <3>2
    <2>3. code \in {st.problem, NoProblem}
      BY <2>1 DEF templateFor
    <2>4. ASSUME NEW c \in Slots, calls[c].step # "free" PROVE Holds(calls[c], page.state)'
      <3>1. Holds(calls[c], st)
        BY <1>2, <2>4 DEF CalmOK
      <3> QED
        BY <1>2, <2>2, <2>3, <3>1 DEF Holds, StartHolds, RecordHolds, CloseHolds, Active
    <2>5. Agrees(st) => Agrees(page.state)'
      BY <1>2, <2>2, <2>3 DEF Agrees
    <2> QED
      BY <1>2, <1>3, <2>4, <2>5 DEF CalmOK
  <1> QED
    BY <1>4, <1>5

(* A page that has just been opened has no session.                          *)
LEMMA RouteCalm ==
  ASSUME PageInv, CalmOK, NEW r, Route(r)
  PROVE  CalmOK'
  <1> SUFFICES ASSUME calm' PROVE CalmOK'
    BY DEF CalmOK
  <1>1. calm /\ page'.state = INITIAL_STATE /\ calls' = Gone /\ rows' = rows
    BY DEF Route
  <1>2. ASSUME NEW c \in Slots
        PROVE  /\ calls'[c].step = calls[c].step /\ calls'[c].op = calls[c].op /\ ~calls'[c].mine
    <2>1. calls[c] \in Call
      BY DEF PageInv, Types
    <2>2. calls'[c] = [calls[c] EXCEPT !.mine = FALSE]
      BY <1>1 DEF Gone
    <2> QED
      BY <2>1, <2>2 DEF Call
  <1>3. ~Opened(page.state)' /\ page'.state.session = None
    BY <1>1, Constants DEF Opened
  <1>4. ASSUME NEW c \in Slots, calls'[c].step # "free" PROVE Holds(calls[c], page.state)'
    <2>1. Holds(calls[c], page.state)
      BY <1>1, <1>2, <1>4 DEF CalmOK
    <2> QED
      BY <1>2, <1>3, <2>1 DEF Holds
  <1> QED
    BY <1>1, <1>2, <1>3, <1>4 DEF CalmOK

LEMMA StayCalm ==
  ASSUME CalmOK, UNCHANGED <<page, calls, rows, calm>>
  PROVE  CalmOK'
  BY DEF CalmOK, Holds, StartHolds, RecordHolds, CloseHolds, Opened, Agrees, Active

LEMMA CalmNext == PageInv /\ CalmOK /\ [Next]_vars => CalmOK'
  <1> SUFFICES ASSUME PageInv, CalmOK, [Next]_vars PROVE CalmOK'
    OBVIOUS
  <1>1. CASE \E c \in Slots : startSession(c) \/ submitAnswer(c) \/ skip(c) \/ endSession(c)
    BY <1>1, ClickCalm
  <1>2. CASE \E c \in Slots : executeCode(c) \/ pollVerdict(c) \/ Lose(c)
    BY <1>2, JudgeCalm
  <1>3. CASE \E c \in Slots : Serve(c) \/ Finish(c) \/ Spare(c)
    BY <1>3, ServeCalm, FinishCalm
  <1>4. CASE \E c \in Slots : Deliver(c)
    BY <1>4, DeliverCalm
  <1>5. CASE advanceToNext \/ setCode
    BY <1>5, EditCalm
  <1>6. CASE Closed \/ Recent \/ Leave \/ Enter
    BY <1>6, RouteCalm DEF Closed, Recent, OpenSummary, Leave, Enter
  <1>9. CASE Sweep \/ \E c \in Slots : Unread(c)
    BY <1>9 DEF Sweep, Unread, Keep, CalmOK
  <1>7. CASE SessionQuery
    BY <1>7, StayCalm DEF SessionQuery
  <1>8. CASE UNCHANGED vars
    BY <1>8, StayCalm DEF vars
  <1> QED
    BY <1>1, <1>2, <1>3, <1>4, <1>5, <1>6, <1>7, <1>8, <1>9 DEF Next, Progress

LEMMA CalmImplied == CalmOK => InStep
  <1> SUFFICES ASSUME CalmOK, calm, Busy(calls) = {}, Workspace
               PROVE  Agrees(page.state)
    BY DEF InStep, Agrees, QuestionShown, VerdictPanel, ProblemShown
  <1>1. \A c \in Slots : calls[c].step = "free"
    BY DEF Busy
  <1>2. Opened(page.state)
    BY DEF Workspace, StartCard, Opened
  <1> QED
    BY <1>1, <1>2 DEF CalmOK

(* While no two requests overlapped, nothing decisive was lost, no session   *)
(* came back without its problem and none was swept, a page that waits for   *)
(* nothing shows what the server has: a Start resumed or made the session,   *)
(* every verdict or skip carried the next problem and the count, and nothing *)
(* else moves the session (use-practice-engine.ts, practice_session.go).     *)
THEOREM StaysInStep == Spec => []InStep
  <1>1. Init => PageInv /\ CalmOK
    BY InitPage, InitCalm
  <1>2. PageInv /\ CalmOK /\ [Next]_vars => (PageInv /\ CalmOK)'
    BY NextPage, CalmNext
  <1>3. PageInv /\ CalmOK => InStep
    BY CalmImplied
  <1> QED
    BY <1>1, <1>2, <1>3, PTL DEF Spec
=============================================================================
