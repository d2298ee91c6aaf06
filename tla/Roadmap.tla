------------------------------ MODULE Roadmap ------------------------------
(***************************************************************************)
(* The pages that show the roadmap, in one tab, over RoadmapService: the   *)
(* dashboard, /roadmap, /roadmap/node/[nodeId] and /tutorial/[id] observe  *)
(* one cached query, complete nodes, and fetch it again.  The results page *)
(* of the onboarding, among the pages that are "away", generates a new     *)
(* roadmap.  The practice service publishes roadmap.updated when the user  *)
(* keeps failing, here or on another device, and the query is fetched      *)
(* again; the other event that would refresh it, node.unlocked, is never   *)
(* published.                                                              *)
(***************************************************************************)
EXTENDS RoadmapService

CONSTANTS Clicks,     \* bound: what the user does in this tab
          Elsewhere,  \* bound: what happens on another device or in another tab
          Curated     \* whether tutorials come from the list in service.go

ASSUME ClicksAssumption == Clicks \in Nat /\ Elsewhere \in Nat /\ Curated \in BOOLEAN

VARIABLES route,       \* the page, its node, and whether its tutorial is gone
          query,       \* the ["roadmap"] query
          busy,        \* the buttons of the page: free, in a call, refetching
          transition,  \* /roadmap: the cards that play their moment
          timer,       \* /roadmap: the timeout that ends it
          clicks,      \* those made here, and what happened elsewhere
          claimed      \* history: nodes confirmed as completed to a page

tab == <<route, query, busy, transition, timer, clicks, claimed>>
vars == <<service, tab>>

NoNode == <<0, 0, 0>>
Route(at, n) == [at |-> at, node |-> n, lost |-> FALSE]
NO_TRANSITION == [mastered |-> 0, unlocked |-> 0, section |-> FALSE]
NoData == NoAnswer
Click == clicks.here < Clicks /\ clicks' = [clicks EXCEPT !.here = @ + 1]
Happens == clicks.elsewhere < Elsewhere /\ clicks' = [clicks EXCEPT !.elsewhere = @ + 1]

Observes(rt) == rt.at # "away"
Free(rq) == {r \in Slots : rq[r].op = "none"}
First(S) == CHOOSE r \in S : \A s \in S : r <= s

-----------------------------------------------------------------------------
(* The query: one fetch at a time; a fetch for data already shown can be   *)
(* dropped for a newer one, whose request the server serves all the same   *)

Fetch(q, rq) ==
  LET r == First(Free(rq)) IN
  [q |-> [q EXCEPT !.fetch = r, !.tries = 0, !.error = @ /\ q.data # NoData],
   rq |-> [rq EXCEPT ![r] = Request("get", "roadmap", "query", NoNode)]]

(* mutant: a fetch under way is joined.                                    *)
Join(q, rq) == IF q.fetch # 0 THEN [q |-> q, rq |-> rq] ELSE Fetch(q, rq)
Refetch(q, rq) ==
  IF q.fetch = 0 THEN Fetch(q, rq)
  ELSE IF q.data = NoData THEN [q |-> q, rq |-> rq]
  ELSE Fetch(q, [rq EXCEPT ![q.fetch].owner = "nobody"])

(* A page comes: it fetches when there is nothing, or nothing fresh.       *)
Mount(rt, q, rq) ==
  /\ route' = rt /\ busy' = "no" /\ transition' = NO_TRANSITION /\ timer' = FALSE
  /\ LET left == [r \in Slots |-> IF rq[r].owner = "page"
                                  THEN [rq[r] EXCEPT !.owner = "gone"] ELSE rq[r]]
         started == Fetch(q, left) IN
     \/ /\ Observes(rt) /\ q.fetch = 0 /\ Free(left) # {}
        /\ query' = started.q /\ req' = started.rq
     \/ /\ Observes(rt) => q.fetch # 0 \/ (q.data # NoData /\ ~q.invalid)
        /\ query' = q /\ req' = left

-----------------------------------------------------------------------------
(* What the pages show *)

Shown(n) ==
  LET d == query.data IN
  IF d.ok /\ d.gen = n[1] /\ d.phase = n[2] /\ n[3] \in DOMAIN d.status
  THEN d.status[n[3]] ELSE "absent"
NodeOf(j) == <<query.data.gen, query.data.phase, j>>

Panel(shown) ==
  IF query.error THEN "error" ELSE IF query.data = NoData THEN "skeleton" ELSE shown

Found(n) == Shown(n) # "absent"
Locked(n) == Shown(n) = "locked"

RoadmapView == Panel("section")
NodeDetailView ==
  Panel(IF ~Found(route.node) THEN "missing" ELSE IF Locked(route.node) THEN "locked" ELSE "node")
TutorialReader ==
  Panel(IF route.lost \/ ~Found(route.node) THEN "missing" ELSE "tutorial")
Dashboard == Panel("section")

(* A card links to its node unless it is locked.                           *)
NodeCard(j) == query.data.status[j] # "locked" \/ transition.unlocked = j

pickActiveNode ==
  LET unlocked == {j \in DOMAIN query.data.status : query.data.status[j] = "unlocked"} IN
  IF unlocked # {} THEN First(unlocked) ELSE 1
PrimaryActionBanner ==
  IF Dashboard # "section" \/ query.data.status = <<>> THEN {}
  ELSE {j \in {pickActiveNode} : query.data.status[j] # "locked"}

Cards ==
  CASE route.at = "roadmap" /\ RoadmapView = "section" ->
         {j \in DOMAIN query.data.status : NodeCard(j)}
    [] route.at = "dashboard" -> PrimaryActionBanner
    [] OTHER -> {}

Links ==
  {Route(at, NoNode) : at \in {"away", "dashboard", "roadmap"} \ {route.at}}
  \cup {Route("node", NodeOf(j)) : j \in Cards}
  \cup {Route(at, route.node) : at \in
          CASE route.at = "node" /\ NodeDetailView = "node" -> {"tutorial"}
            [] route.at = "tutorial" /\ TutorialReader = "tutorial" -> {"node"}
            [] OTHER -> {}}

-----------------------------------------------------------------------------
(* Clicks *)

Visit ==
  /\ Click /\ \E rt \in Links : Mount(rt, query, req)
  /\ UNCHANGED <<ur, built, rule, progress, faults, earned, short, undone, claimed>>

(* Mark Complete and Test Out; the tutorial's button asks for no status.   *)
MayComplete ==
  /\ busy = "no"
  /\ \/ route.at = "node" /\ NodeDetailView = "node" /\ ~isNodeSettled(Shown(route.node))
     \/ route.at = "tutorial" /\ TutorialReader = "tutorial"
Complete ==
  /\ Click /\ MayComplete /\ Free(req) # {}
  /\ req' = [req EXCEPT ![First(Free(req))] = Request("settle", "settle", "page", route.node)]
  /\ busy' = "call"
  /\ UNCHANGED <<ur, built, rule, progress, faults, earned, short, undone, route, query,
                 transition, timer, claimed>>

Retry ==
  /\ Click /\ Observes(route) /\ query.error /\ Free(req) # {}
  /\ LET f == Refetch(query, req) IN
     query' = f.q /\ req' = f.rq
  /\ UNCHANGED <<ur, built, rule, progress, faults, earned, short, undone, route, busy,
                 transition, timer, claimed>>

(* A node that a page could show as open: the first of a section needs no  *)
(* progress row for that.                                                  *)
Open(n) ==
  \/ progress[n] = "unlocked"
  \/ /\ progress[n] = "none" /\ n[3] = 1
     /\ n[1] \in DOMAIN built /\ n[2] \in DOMAIN built[n[1]] /\ built[n[1]][n[2]] > 0

(* The same user on another device reads the roadmap, or completes a node. *)
OtherDevice ==
  /\ Happens /\ Free(req) # {} /\ ur # NoRoadmap
  /\ \/ req' = [req EXCEPT ![First(Free(req))] = Request("get", "roadmap", "nobody", NoNode)]
     \/ \E n \in Nodes :
          /\ Open(n)
          /\ req' = [req EXCEPT ![First(Free(req))] = Request("settle", "settle", "nobody", n)]
  /\ UNCHANGED <<ur, built, rule, progress, faults, earned, short, undone, route, query, busy,
                 transition, timer, claimed>>

(* Generate, on the results page, while a template is left to build.       *)
Builders == {r \in Slots : req[r].at = "template" \/ (req[r].at = "roadmap" /\ ur = NoRoadmap)}
Generate ==
  /\ Click /\ route.at = "away" /\ Free(req) # {}
  /\ \A r \in Slots : req[r].op # "generate"
  /\ Len(built) + Cardinality(Builders) < Generations
  /\ req' = [req EXCEPT ![First(Free(req))] = Request("generate", "template", "page", NoNode)]
  /\ UNCHANGED <<ur, built, rule, progress, faults, earned, short, undone, route, query, busy,
                 transition, timer, claimed>>

(* Answers to problems, in another tab or elsewhere, fail once too often,  *)
(* and roadmap.updated comes to this tab: nothing changes where there is   *)
(* no data to refresh and a fetch is under way, or nobody to fetch for.    *)
Updated ==
  /\ Happens /\ Free(req) # {}
  /\ query.data # NoData \/ (Observes(route) /\ query.fetch = 0)
  /\ LET q == [query EXCEPT !.invalid = TRUE]
         f == IF Observes(route) THEN Refetch(q, req) ELSE [q |-> q, rq |-> req] IN
     query' = f.q /\ req' = f.rq
  /\ UNCHANGED <<ur, built, rule, progress, faults, earned, short, undone, route, busy,
                 transition, timer, claimed>>

-----------------------------------------------------------------------------
(* Answers *)

diffRoadmap(prev, next) ==
  LET both == IF prev.gen = next.gen /\ prev.phase = next.phase
              THEN DOMAIN prev.status \cap DOMAIN next.status ELSE {}
      mastered == {j \in both : ~isNodeSettled(prev.status[j]) /\ isNodeSettled(next.status[j])}
      unlocked == {j \in both : prev.status[j] = "locked" /\ next.status[j] # "locked"} IN
  IF prev = NoData THEN NO_TRANSITION
  ELSE [mastered |-> IF mastered = {} THEN 0 ELSE First(mastered),
        unlocked |-> IF unlocked = {} THEN 0 ELSE First(unlocked),
        section |-> <<prev.gen, prev.phase>> # <<next.gen, next.phase>>]

(* The effect of /roadmap on new data; its cleanup has cleared the timer.  *)
Animate(d) ==
  LET next == diffRoadmap(query.data, d) IN
  IF route.at # "roadmap" \/ (d = query.data /\ ~Curated)
  THEN UNCHANGED <<transition, timer>>
  ELSE /\ timer' = (next # NO_TRANSITION)
       /\ transition' = IF next = NO_TRANSITION THEN transition ELSE next

(* The tutorials of the list get new ids with every answer.                *)
Loaded(r) ==
  /\ query.fetch = r /\ req[r].at = "answered" /\ req[r].answer.ok
  /\ query' = [query EXCEPT !.data = req[r].answer, !.error = FALSE, !.invalid = FALSE,
                            !.fetch = 0, !.tries = 0]
  /\ Animate(req[r].answer)
  /\ route' = [route EXCEPT !.lost = @ \/ (route.at = "tutorial" /\ Curated)]
  /\ busy' = IF busy = "refetch" THEN "no" ELSE busy
  /\ req' = [req EXCEPT ![r] = NoRequest]
  /\ UNCHANGED <<ur, built, rule, progress, faults, earned, short, undone, clicks, claimed>>

(* mutant: a failed fetch is tried for ever.                               *)
AlwaysRetry(failureCount) == TRUE
MayRetry(failureCount) == failureCount < 2
LoadFails(r) ==
  /\ query.fetch = r /\ req[r].at = "answered" /\ ~req[r].answer.ok
  /\ IF MayRetry(query.tries)
     THEN /\ query' = [query EXCEPT !.tries = IF @ < 2 THEN @ + 1 ELSE @]
          /\ req' = [req EXCEPT ![r] = Request("get", "roadmap", "query", NoNode)]
          /\ UNCHANGED busy
     ELSE /\ query' = [query EXCEPT !.error = TRUE, !.fetch = 0, !.tries = 0]
          /\ req' = [req EXCEPT ![r] = NoRequest]
          /\ busy' = IF busy = "refetch" THEN "no" ELSE busy
  /\ UNCHANGED <<ur, built, rule, progress, faults, earned, short, undone, route, transition,
                 timer, clicks, claimed>>

(* A confirmed completion invalidates the query, and a page that waits for *)
(* it waits for the fetch too; it need not be there any more.              *)
Completed(r) ==
  /\ req[r].op = "settle" /\ req[r].owner # "nobody" /\ req[r].at = "answered" /\ req[r].answer.ok
  /\ claimed' = IF Observes(route) THEN claimed \cup {req[r].node} ELSE claimed
  /\ LET q == [query EXCEPT !.invalid = TRUE]  rq == [req EXCEPT ![r] = NoRequest]
         f == IF Observes(route) THEN Refetch(q, rq) ELSE [q |-> q, rq |-> rq] IN
     /\ query' = f.q /\ req' = f.rq
  /\ busy' = IF req[r].owner = "page" THEN "refetch" ELSE busy
  /\ UNCHANGED <<ur, built, rule, progress, faults, earned, short, undone, route, transition,
                 timer, clicks>>

CompleteFails(r) ==
  /\ req[r].op = "settle" /\ req[r].owner # "nobody" /\ req[r].at = "answered" /\ ~req[r].answer.ok
  /\ busy' = IF req[r].owner = "page" THEN "no" ELSE busy
  /\ req' = [req EXCEPT ![r] = NoRequest]
  /\ UNCHANGED <<ur, built, rule, progress, faults, earned, short, undone, route, query,
                 transition, timer, clicks, claimed>>

(* A generated roadmap takes the user to /roadmap from any page, and what  *)
(* is cached is not invalidated.                                           *)
Generated(r) ==
  /\ req[r].op = "generate" /\ req[r].at = "answered"
  /\ IF req[r].answer.ok /\ route.at # "roadmap"
     THEN Mount(Route("roadmap", NoNode), query, [req EXCEPT ![r] = NoRequest])
     ELSE /\ req' = [req EXCEPT ![r] = NoRequest]
          /\ UNCHANGED <<route, query, busy, transition, timer>>
  /\ UNCHANGED <<ur, built, rule, progress, faults, earned, short, undone, clicks, claimed>>

(* The answer of a fetch that was dropped.                                 *)
Dropped(r) ==
  /\ req[r].owner = "nobody" /\ req[r].at = "answered"
  /\ req' = [req EXCEPT ![r] = NoRequest]
  /\ UNCHANGED <<ur, built, rule, progress, faults, earned, short, undone, tab>>

TimerFires ==
  /\ timer /\ timer' = FALSE /\ transition' = NO_TRANSITION
  /\ UNCHANGED <<service, route, query, busy, clicks, claimed>>

-----------------------------------------------------------------------------
Init ==
  /\ ServiceInit
  /\ route = IF ur = NoRoadmap THEN Route("away", NoNode) ELSE Route("node", <<1, 1, 1>>)
  /\ busy = "no" /\ clicks = [here |-> 0, elsewhere |-> 0] /\ claimed = {}
  /\ query = [data |-> IF ur = NoRoadmap THEN NoData
                       ELSE Section(1, 1, Size[1], progress, FALSE),
              error |-> FALSE, invalid |-> FALSE, fetch |-> 0, tries |-> 0]
  /\ transition = NO_TRANSITION /\ timer = FALSE

(* What happens without the user.                                          *)
Progress ==
  \/ \E r \in Slots :
       \/ Serve(r) /\ UNCHANGED tab
       \/ Loaded(r) \/ LoadFails(r) \/ Completed(r) \/ CompleteFails(r)
       \/ Generated(r) \/ Dropped(r)
  \/ TimerFires

Next ==
  \/ Progress \/ Visit \/ Complete \/ Retry \/ Generate \/ OtherDevice \/ Updated
  \/ \E r \in Slots : Fail(r) /\ UNCHANGED tab

Fairness == WF_vars(Progress)
Spec == Init /\ [][Next]_vars /\ Fairness

-----------------------------------------------------------------------------
(* Properties *)

(* A node whose completion was confirmed to a page that shows the roadmap  *)
(* is shown as settled once nothing is being fetched, whatever was in      *)
(* flight when it was completed - unless a late upsert took it back, or    *)
(* the rows were not read in full.  After a fetch that failed, nothing is  *)
(* said.                                                                   *)
CompletedShows ==
  query.fetch = 0 /\ ~query.error /\ ~query.data.blind =>
    \A n \in claimed \ undone : Shown(n) \in {"mastered", "absent"}

(* No wait is for ever: with clicks and faults that end, every request is  *)
(* answered, a fetch that keeps failing is given up, and the buttons of a  *)
(* page that completed a node come back.                                   *)
RoadmapSettles ==
  []<>((\A r \in Slots : req[r].op = "none") /\ busy = "no" /\ ~timer)
=============================================================================
