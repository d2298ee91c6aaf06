----------------------------- MODULE SolveClient -----------------------------
(***************************************************************************)
(* The problem bank and the solve page of one problem, in one tab.  The    *)
(* bank is read through React Query: a filter and a page are a key, and    *)
(* while a key has no answer the page shows the last answer it had, greyed *)
(* out.  The solve page mounts an editor whose code is kept in             *)
(* localStorage for each language and which is dropped, with its requests  *)
(* under way, when another tab of the page or the layout takes its place.  *)
(*                                                                         *)
(* The bank does not change, so an answer is a key.  A filter stands for   *)
(* the search text and the three selects together.  A request that fails   *)
(* has used its retries.  Hints are UseHint's.                             *)
(***************************************************************************)
EXTENDS Integers, FiniteSets

CONSTANTS Filters, AllProblems, \* AllProblems: the filter that is not one
          PagesOf,     \* pages of problems that match a filter
          Languages, DefaultLanguage,
          Codes, Starter, NoCode,
          Slots,       \* bound: editor requests under way, a set of numbers
          Polls,       \* polls of a verdict within its 30 seconds
          Clicks,      \* bound: what the user does
          Faults       \* bound: requests or answers that are lost

ASSUME SolveAssumption ==
  /\ AllProblems \in Filters /\ PagesOf \in [Filters -> Nat]
  /\ DefaultLanguage \in Languages /\ Starter \in Codes /\ NoCode \notin Codes
  /\ Slots \subseteq Nat /\ Polls \in Nat \ {0} /\ Clicks \in Nat /\ Faults \in Nat

VARIABLES route,    \* the page the tab is on, and whether its URL names a session
          list,     \* the bank's filter and page, and what it last had to show
          query,    \* the answers of /problems/search by key
          scrape,   \* the dialog that reads a problem from its URL
          preview,  \* the problem the preview dialog shows
          solve,    \* the solve page: its problem, its layout, its tab
          ed,       \* the editor panel
          drafts,   \* localStorage tv:solve-draft:<problem>:<language>
          flows,    \* requests of editor panels, mounted or not
          world,    \* whether localStorage works and the problem has samples
          typed,    \* history: the code last typed or reset, by language
          clicks, faults

bank == <<list, query, scrape, preview>>
editor == <<ed, drafts, flows, typed>>
vars == <<route, bank, solve, editor, world, clicks, faults>>

-----------------------------------------------------------------------------
(* The bank *)

PageCount == {0} \cup UNION {1 .. PagesOf[f] : f \in Filters}
Keys == Filters \X PageCount
NoKey == <<AllProblems, -1>>
Key(l) == <<l.filter, l.page>>

(* What is shown: the answer of the key, else the last answer as a         *)
(* placeholder, else the skeleton.                                         *)
Latest(l, q) == IF q[Key(l)] = "ok" THEN Key(l) ELSE l.last
ErrorPanel == query[Key(list)] = "error"
Problems(k) == k # NoKey /\ k[2] < PagesOf[k[1]]
EmptyPanel == ~ErrorPanel /\ list.last # NoKey /\ ~Problems(list.last)
Listed == ~ErrorPanel /\ Problems(list.last)

OnBank == route.page = "bank" /\ preview = "none" /\ ~scrape.open
Click == clicks < Clicks /\ clicks' = clicks + 1

(* useQuery() asks for a key that has no answer.                           *)
Ask(q, k) == IF q[k] = "ok" THEN q ELSE [q EXCEPT ![k] = "pending"]

Show(l, q) == query' = q /\ list' = [l EXCEPT !.last = Latest(l, q)]

FilterKeepsPage(f, typing) ==  \* mutant: the offset is not reset
  LET l == [list EXCEPT !.filter = f, !.typing = typing, !.hasty = FALSE]
  IN  Show(l, Ask(query, Key(l)))

(* One render asks for the old page of the new filter, then the effect     *)
(* resets the offset.                                                      *)
FilterChanged(f, typing) ==
  LET l == [list EXCEPT !.filter = f, !.page = 0, !.typing = typing, !.hasty = FALSE]
  IN  Show(l, Ask(Ask(query, <<f, list.page>>), Key(l)))

SelectFilter ==
  /\ OnBank /\ Click
  /\ \E f \in Filters \ {list.filter} : FilterChanged(f, list.typing)
  /\ UNCHANGED <<route, scrape, preview, solve, editor, world, faults>>

Type ==
  /\ OnBank /\ ~list.typing /\ Click
  /\ list' = [list EXCEPT !.typing = TRUE]
  /\ UNCHANGED <<route, query, scrape, preview, solve, editor, world, faults>>

(* clearFilters(): the selects at once, the text when its timer ends.      *)
clearFilters ==
  /\ OnBank /\ list.filter # AllProblems /\ Click
  /\ FilterChanged(AllProblems, FALSE) \/ \E f \in Filters : FilterChanged(f, TRUE)
  /\ UNCHANGED <<route, scrape, preview, solve, editor, world, faults>>

useDebouncedValue ==
  /\ route.page = "bank" /\ list.typing
  /\ \E f \in Filters : IF f = list.filter THEN Show([list EXCEPT !.typing = FALSE], query)
                                           ELSE FilterChanged(f, FALSE)
  /\ UNCHANGED <<route, scrape, preview, solve, editor, world, clicks, faults>>

(* The total and the buttons are those of the answer shown.                *)
totalPages == PagesOf[list.last[1]]
Turn(page) ==
  LET l == [list EXCEPT !.page = page, !.hasty = @ \/ list.last[1] # list.filter]
  IN  Show(l, Ask(query, Key(l)))

NextPage ==
  /\ OnBank /\ Listed /\ list.page + 1 < totalPages /\ Click
  /\ Turn(list.page + 1)
  /\ UNCHANGED <<route, scrape, preview, solve, editor, world, faults>>

PreviousPage ==
  /\ OnBank /\ Listed /\ totalPages > 1 /\ list.page > 0 /\ Click
  /\ Turn(list.page - 1)
  /\ UNCHANGED <<route, scrape, preview, solve, editor, world, faults>>

Refetch ==
  /\ OnBank /\ ErrorPanel /\ Click
  /\ Show(list, Ask(query, Key(list)))
  /\ UNCHANGED <<route, scrape, preview, solve, editor, world, faults>>

searchProblems(k) ==
  /\ query[k] = "pending"
  /\ \/ /\ Show(list, [query EXCEPT ![k] = "ok"]) /\ UNCHANGED faults
     \/ /\ faults < Faults /\ faults' = faults + 1
        /\ Show(list, [query EXCEPT ![k] = "error"])
  /\ UNCHANGED <<route, scrape, preview, solve, editor, world, clicks>>

-----------------------------------------------------------------------------
(* The scrape dialog and the preview *)

OpenScrape ==
  /\ OnBank /\ Click /\ scrape' = [scrape EXCEPT !.open = TRUE]
  /\ UNCHANGED <<route, list, query, preview, solve, editor, world, faults>>

SubmitUrl ==
  /\ scrape.open /\ scrape.mutation # "pending" /\ Click
  /\ scrape' = [scrape EXCEPT !.mutation = "pending"]
  /\ UNCHANGED <<route, list, query, preview, solve, editor, world, faults>>

(* Closing resets the mutation; its request goes on.                       *)
CloseScrape ==
  /\ scrape.open /\ Click
  /\ scrape' = [open |-> FALSE, mutation |-> "idle",
                left |-> scrape.left + (IF scrape.mutation = "pending" THEN 1 ELSE 0)]
  /\ UNCHANGED <<route, list, query, preview, solve, editor, world, faults>>

(* An answer closes the dialog and opens the preview, also the answer to a *)
(* request whose dialog was closed.  handleScraped() looks for the problem *)
(* in the answer shown.                                                    *)
handleScraped ==
  /\ \/ scrape.mutation = "pending" /\ scrape' = [scrape EXCEPT !.open = FALSE, !.mutation = "done"]
     \/ scrape.left > 0 /\ scrape' = [scrape EXCEPT !.open = FALSE, !.left = @ - 1]
  /\ preview' \in {"unsaved"} \cup (IF Listed THEN {"saved"} ELSE {})
  /\ UNCHANGED <<route, list, query, solve, editor, world, clicks, faults>>

ScrapeFails ==
  /\ faults < Faults /\ faults' = faults + 1
  /\ \/ scrape.mutation = "pending" /\ scrape' = [scrape EXCEPT !.mutation = "error"]
     \/ scrape.left > 0 /\ scrape' = [scrape EXCEPT !.left = @ - 1]
  /\ UNCHANGED <<route, list, query, preview, solve, editor, world, clicks>>

OpenPreview ==
  /\ OnBank /\ Listed /\ Click /\ preview' = "saved"
  /\ UNCHANGED <<route, list, query, scrape, solve, editor, world, faults>>

ClosePreview ==
  /\ preview # "none" /\ Click /\ preview' = "none"
  /\ UNCHANGED <<route, list, query, scrape, solve, editor, world, faults>>

-----------------------------------------------------------------------------
(* The solve page *)

QueuedOnly(e) == e.phase \in {"queued", "processing"}  \* mutant: not while it is recorded

isSubmitBusy(e) == e.phase \in {"queued", "processing", "submitting"}

NoEditor == [mounted |-> FALSE, lang |-> DefaultLanguage, code |-> NoCode, run |-> "idle",
             phase |-> "idle", recorded |-> FALSE, lost |-> FALSE]
Free == [step |-> "free", polls |-> 0, mine |-> FALSE]

(* The editor is on the page in the split layout or under its tab.         *)
EditorShown(s) == s.problem = "ok" /\ (s.split \/ s.tab = "editor")

DraftOfProblem(l) == drafts[DefaultLanguage]  \* mutant: one draft for all languages

readDraft(l) == drafts[l]
writeDraft(l, c) == IF world.storage THEN [drafts EXCEPT ![l] = c] ELSE drafts
CodeOf(l) == IF readDraft(l) = NoCode THEN Starter ELSE readDraft(l)
NewEditor == [NoEditor EXCEPT !.mounted = TRUE, !.code = CodeOf(DefaultLanguage)]

(* The page changes; an editor that is not the one shown is dropped.       *)
Become(s, same) ==
  /\ solve' = s
  /\ ed' = IF ~EditorShown(s) THEN NoEditor ELSE IF same /\ ed.mounted THEN ed ELSE NewEditor
  /\ flows' = [i \in Slots |-> [flows[i] EXCEPT !.mine = @ /\ ed'.mounted /\ same]]
  /\ UNCHANGED <<drafts, typed>>

(* A card and a preview of a problem that is in the bank link to its page. *)
SolveProblem ==
  /\ route.page = "bank" /\ ~scrape.open /\ Click
  /\ preview = "saved" \/ (preview = "none" /\ Listed)
  /\ route' = [page |-> "solve", session |-> FALSE]
  /\ list' = [filter |-> AllProblems, page |-> 0, last |-> NoKey, typing |-> FALSE, hasty |-> FALSE]
  /\ scrape' = [open |-> FALSE, mutation |-> "idle", left |-> 0] /\ preview' = "none"
  /\ Become([solve EXCEPT !.problem = IF @ = "kept" THEN "ok" ELSE "pending", !.tab = "problem"], FALSE)
  /\ UNCHANGED <<query, world, faults>>

BackToProblems ==
  /\ route.page = "solve" /\ Click
  /\ route' = [page |-> "bank", session |-> FALSE]
  /\ Show(list, Ask(query, Key(list)))
  /\ Become([solve EXCEPT !.problem = IF @ = "ok" THEN "kept" ELSE @], FALSE)
  /\ UNCHANGED <<scrape, preview, world, faults>>

(* findProblemById() reads ten pages of a hundred: a problem beyond them   *)
(* is not found.                                                           *)
findProblemById ==
  /\ solve.problem = "pending"
  /\ \/ Become([solve EXCEPT !.problem = IF route.page = "solve" THEN "ok" ELSE "kept"], TRUE)
        /\ UNCHANGED faults
     \/ Become([solve EXCEPT !.problem = "absent"], TRUE) /\ UNCHANGED faults
     \/ /\ faults < Faults /\ faults' = faults + 1
        /\ Become([solve EXCEPT !.problem = "error"], TRUE)
  /\ UNCHANGED <<route, bank, world, clicks>>

TryAgain ==
  /\ route.page = "solve" /\ solve.problem = "error" /\ Click
  /\ Become([solve EXCEPT !.problem = "pending"], TRUE)
  /\ UNCHANGED <<route, bank, world, faults>>

SetMobileTab ==
  /\ route.page = "solve" /\ solve.problem = "ok" /\ ~solve.split /\ Click
  /\ \E t \in {"problem", "editor"} \ {solve.tab} : Become([solve EXCEPT !.tab = t], TRUE)
  /\ UNCHANGED <<route, bank, world, faults>>

(* The window crosses 1024 pixels: another tree is mounted.                *)
useMediaQuery ==
  /\ route.page = "solve" /\ Click
  /\ Become([solve EXCEPT !.split = ~@], FALSE)
  /\ UNCHANGED <<route, bank, world, faults>>

-----------------------------------------------------------------------------
(* The editor panel *)

Edit(c) ==
  /\ ed' = [ed EXCEPT !.code = c]
  /\ drafts' = writeDraft(ed.lang, c)
  /\ typed' = [typed EXCEPT ![ed.lang] = c]
  /\ UNCHANGED <<route, bank, solve, flows, world, faults>>

setCode == ed.mounted /\ Click /\ \E c \in Codes \ {ed.code} : Edit(c)

isDirty == ed.code # Starter

(* Reset, once the dialog is confirmed.                                    *)
ResetDialog == ed.mounted /\ isDirty
resetToTemplate == ResetDialog /\ Click /\ Edit(Starter)

LanguageSwitcher == ed.mounted /\ ed.run # "running" /\ ~isSubmitBusy(ed)
setLanguageKey ==
  /\ LanguageSwitcher /\ Click
  /\ \E l \in Languages \ {ed.lang} : ed' = [ed EXCEPT !.lang = l, !.code = CodeOf(l)]
  /\ UNCHANGED <<route, bank, solve, drafts, flows, world, typed, faults>>

(* The buttons above the editor.                                           *)
RunButton == ed.mounted /\ ed.run # "running"
SubmitButton == ed.mounted /\ route.session /\ ~isSubmitBusy(ed)

(* The tabs below it: what the panel says of a run, and of a submission.   *)
ResultsPanel == ed.run
SubmitPanel == IF isSubmitBusy(ed) THEN "judging" ELSE ed.phase

(* The first free slot takes a request.                                    *)
Send(i, step) ==
  /\ flows[i].step = "free" /\ \A j \in Slots : j < i => flows[j].step # "free"
  /\ flows' = [flows EXCEPT ![i] = [step |-> step, polls |-> 0, mine |-> TRUE]]

handleRun(i) ==
  /\ RunButton /\ Click
  /\ IF world.samples THEN ed' = [ed EXCEPT !.run = "running"] /\ Send(i, "batch")
                      ELSE ed' = [ed EXCEPT !.run = "error"] /\ UNCHANGED flows
  /\ UNCHANGED <<route, bank, solve, drafts, world, typed, faults>>

handleSubmit(i) ==
  /\ SubmitButton /\ Click
  /\ ed' = [ed EXCEPT !.phase = "queued", !.recorded = FALSE, !.lost = FALSE]
  /\ Send(i, "execute")
  /\ UNCHANGED <<route, bank, solve, drafts, world, typed, faults>>

(* A step of i's request: setState on an unmounted panel does nothing.     *)
Step(i, f, e) ==
  /\ flows' = [flows EXCEPT ![i] = f]
  /\ ed' = IF flows[i].mine THEN e ELSE ed
  /\ UNCHANGED <<route, bank, solve, drafts, world, typed, clicks>>

executeBatch(i) ==
  /\ flows[i].step = "batch" /\ UNCHANGED faults
  /\ Step(i, Free, [ed EXCEPT !.run = "done"])

executeCode(i) ==
  /\ flows[i].step = "execute" /\ UNCHANGED faults
  /\ Step(i, [flows[i] EXCEPT !.step = "poll"], ed)

PollWithoutDeadline(i) ==  \* mutant: the deadline is never looked at
  LET f == flows[i] IN
  /\ f.step = "poll" /\ UNCHANGED faults
  /\ \/ Step(i, [f EXCEPT !.step = "submit"], [ed EXCEPT !.phase = "submitting"])
     \/ \E p \in {"queued", "processing"} :
          Step(i, [f EXCEPT !.polls = 1 - @], [ed EXCEPT !.phase = p])

(* One poll: done and submitted, or waiting and asked again in 600 ms, or  *)
(* given up once 30 seconds have passed.                                   *)
getVerdict(i) ==
  LET f == flows[i] IN
  /\ f.step = "poll" /\ UNCHANGED faults
  /\ \/ Step(i, [f EXCEPT !.step = "submit"], [ed EXCEPT !.phase = "submitting"])
     \/ /\ f.polls < Polls
        /\ \E p \in {"queued", "processing"} :
             Step(i, [f EXCEPT !.polls = @ + 1], [ed EXCEPT !.phase = p])
     \/ Step(i, Free, [ed EXCEPT !.phase = "error"])

(* POST /practice/submit: the server records, then the answer arrives.     *)
submitPracticeAnswer(i) ==
  /\ UNCHANGED faults
  /\ \/ /\ flows[i].step = "submit"
        /\ Step(i, [flows[i] EXCEPT !.step = "recorded"], [ed EXCEPT !.recorded = TRUE])
     \/ /\ flows[i].step = "recorded"
        /\ Step(i, Free, [ed EXCEPT !.phase = "done"])

(* A request is lost before the server acts on it, or its answer after.    *)
FlowFails(i) ==
  /\ flows[i].step # "free" /\ faults < Faults /\ faults' = faults + 1
  /\ Step(i, Free, IF flows[i].step = "batch" THEN [ed EXCEPT !.run = "error"]
                   ELSE [ed EXCEPT !.phase = "error", !.lost = flows[i].step = "recorded"])

-----------------------------------------------------------------------------

(* The bank, or the solve page by a URL that names a session.              *)
Init ==
  /\ list = [filter |-> AllProblems, page |-> 0, last |-> NoKey, typing |-> FALSE, hasty |-> FALSE]
  /\ scrape = [open |-> FALSE, mutation |-> "idle", left |-> 0] /\ preview = "none"
  /\ \E split \in BOOLEAN, onBank \in BOOLEAN :
       /\ route = [page |-> IF onBank THEN "bank" ELSE "solve", session |-> ~onBank]
       /\ query = [k \in Keys |-> IF onBank /\ k = <<AllProblems, 0>> THEN "pending" ELSE "none"]
       /\ solve = [problem |-> IF onBank THEN "none" ELSE "pending", split |-> split, tab |-> "problem"]
  /\ world \in [storage : BOOLEAN, samples : BOOLEAN]
  /\ ed = NoEditor /\ flows = [i \in Slots |-> Free]
  /\ drafts = [l \in Languages |-> NoCode] /\ typed = [l \in Languages |-> Starter]
  /\ clicks = 0 /\ faults = 0

Browse ==
  \/ SelectFilter \/ Type \/ clearFilters \/ NextPage \/ PreviousPage \/ Refetch
  \/ OpenScrape \/ SubmitUrl \/ CloseScrape \/ OpenPreview \/ ClosePreview
  \/ SolveProblem \/ BackToProblems \/ TryAgain \/ SetMobileTab \/ useMediaQuery
Work ==
  \/ setCode \/ resetToTemplate \/ setLanguageKey
  \/ \E i \in Slots : handleRun(i) \/ handleSubmit(i)
Fail == ScrapeFails \/ \E i \in Slots : FlowFails(i)
Progress ==
  \/ useDebouncedValue \/ handleScraped \/ findProblemById
  \/ \E k \in Keys : searchProblems(k)
  \/ \E i \in Slots : executeBatch(i) \/ executeCode(i) \/ getVerdict(i) \/ submitPracticeAnswer(i)

Next == Browse \/ Work \/ Fail \/ Progress

(* Timers run and a request is answered.                                   *)
Fairness == WF_vars(Progress)
Spec == Init /\ [][Next]_vars /\ Fairness

-----------------------------------------------------------------------------

(* "No problems match those filters" is said of an answer only if none     *)
(* does, however filters and pages are changed, unless the answer is kept  *)
(* as a placeholder for another query, or the reader turned the            *)
(* greyed-out pages of another filter (page.tsx 54-72, 205-219).           *)
EmptyMeansNone ==
  route.page = "bank" /\ EmptyPanel /\ list.last = Key(list) /\ ~list.hasty =>
    PagesOf[list.filter] = 0

(* While localStorage works, the editor shows the code last typed for its  *)
(* language, whichever languages, tabs, layouts and pages came between     *)
(* (use-code-drafts.ts 71-102).                                            *)
DraftsKept == ed.mounted /\ world.storage => ed.code = typed[ed.lang]

Mine(steps) == {i \in Slots : flows[i].mine /\ flows[i].step \in steps}
One(phases, steps) ==
  Cardinality(Mine(steps)) = IF ed.phase \in phases THEN 1 ELSE 0

(* The panel says it runs or judges exactly while one request of its own   *)
(* does, not one of a panel dropped before, and says done or failed of     *)
(* what the server did or did not record (editor-panel.tsx 81-121).        *)
PanelIsHonest ==
  ed.mounted =>
    /\ Mine({"batch"}) # {} <=> ResultsPanel = "running"
    /\ One({"queued", "processing"}, {"execute", "poll"})
    /\ One({"submitting"}, {"submit", "recorded"})
    /\ SubmitPanel = "done" => ed.recorded
    /\ SubmitPanel = "error" /\ ~ed.lost => ~ed.recorded

Waiting ==
  \/ solve.problem = "pending" \/ scrape.mutation = "pending"
  \/ ResultsPanel = "running" \/ SubmitPanel = "judging"

(* The user is not left waiting for a problem, a scrape, a run or a        *)
(* verdict (use-submit-flow.ts 107-123).                                   *)
WaitingEnds == Waiting ~> ~Waiting
=============================================================================
