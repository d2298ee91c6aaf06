--------------------------- MODULE RoadmapService ---------------------------
(***************************************************************************)
(* The roadmap of one user on the server: the templates built for the user *)
(* row by row, the row that names the current one and its current section, *)
(* the progress of each node, and the requests that read and write them.   *)
(* Nothing is read and written in one transaction: reading the roadmap     *)
(* also builds it, moves it to the next section and unlocks nodes, and the *)
(* statements of two requests interleave.                                  *)
(*                                                                         *)
(* "tested_out" is "mastered" here: no test of the code tells them apart.  *)
(* One step are the statements nothing comes between to a difference: the  *)
(* roadmap's row and the phases of its template, which only grow; the      *)
(* nodes of a section just reached, its upserts and the rows read back for *)
(* the answer.                                                             *)
(*                                                                         *)
(* The repository never looks at rows.Err(): a read that is cut short is a *)
(* shorter list and no error.                                              *)
(***************************************************************************)
EXTENDS Integers, FiniteSets, Sequences

CONSTANTS Slots,        \* bound: requests at a time
          Generations,  \* bound: templates built
          Size,         \* the number of topics of each section
          Replies,      \* what the model's reply makes of the rules
          Faults        \* bound: statements, answers and servers that fail

ASSUME RoadmapAssumption ==
  /\ Slots \subseteq Nat \ {0} /\ IsFiniteSet(Slots)
  /\ Generations \in Nat \ {0} /\ Faults \in Nat
  /\ Size \in Seq(Nat \ {0}) /\ Size # <<>>
  /\ Replies \subseteq {"default", "open", "gated"}

VARIABLES ur,        \* user_roadmaps: the template and the current phase
          built,     \* the phases of each template: their numbers of nodes
          rule,      \* how a template came about and unlocks its nodes
          progress,  \* user_roadmap_node_progress
          req,       \* the requests
          faults,
          earned,    \* history: sections that were settled in full
          short,     \* history: sections left on a list of nodes cut short
          undone     \* history: settled nodes that a late upsert took back

service == <<ur, built, rule, progress, req, faults, earned, short, undone>>

Phases == DOMAIN Size
Nodes == UNION {{<<g, p, n>> : n \in 1..Size[p]} : g \in 1..Generations, p \in Phases}
NoPhase == <<0, 0>>
NoRoadmap == [template |-> 0, phase |-> NoPhase]
NoRows == [n \in Nodes |-> "none"]
NoAnswer == [ok |-> FALSE, gen |-> 0, phase |-> 0, status |-> <<>>, blind |-> FALSE]
isNodeSettled(st) == st = "mastered"

(* A request: who waits for it, the next statement `at`, and what it has   *)
(* read so far, which nothing keeps from changing.                         *)
Request(op, at, owner, n) ==
  [op |-> op, at |-> at, owner |-> owner, node |-> n,
   ur |-> NoRoadmap, phases |-> 0, rows |-> NoRows, blind |-> FALSE,
   spot |-> <<0, 0>>, answer |-> NoAnswer]
NoRequest == Request("none", "idle", "nobody", <<0, 0, 0>>)

(* Each statement that fails is a fault, and a server that stops is one.   *)
Spend(k) == faults + k <= Faults /\ faults' = faults + k
Fault == Spend(1)
Cost(fails) == IF fails THEN 1 ELSE 0
EarnedNow(b, rows) ==
  {s \in (1..Len(b)) \X Phases :
     LET size == b[s[1]][s[2]] IN
     s[2] < Len(b[s[1]]) /\ size > 0 /\ \A n \in 1..size : isNodeSettled(rows[<<s[1], s[2], n>>])}
Remember == earned' = earned \cup EarnedNow(built', progress')

(* Settled nodes that the upserts of this step took back.                  *)
TakeBack ==
  undone' = undone \cup {n \in Nodes : isNodeSettled(progress[n]) /\ ~isNodeSettled(progress'[n])}

(* What a read of the progress rows may return when it fails or is cut     *)
(* short: some rows, in no order.  Of template g, the others are not used. *)
SomeRows(g, rows) ==
  {[n \in Nodes |-> IF n \in S THEN rows[n] ELSE "none"] :
     S \in SUBSET {n \in Nodes : n[1] = g /\ rows[n] # "none"}}

Respond(r, a) ==
  req' = [req EXCEPT ![r] =
    [Request(@.op, "answered", @.owner, @.node) EXCEPT !.answer = a]]

-----------------------------------------------------------------------------
(* Building a template: initializeDefaultRoadmap, and Generate with a      *)
(* reply that is "open" (no prerequisites), "gated", or no use ("default") *)

CreateTemplate(r) ==
  /\ req[r].at = "template" /\ Len(built) < Generations
  /\ \E k \in IF req[r].op = "generate" THEN Replies ELSE {"default"} :
       rule' = Append(rule, k)
  /\ built' = Append(built, <<>>)
  /\ ur' = [template |-> Len(built'), phase |-> NoPhase]
  /\ req' = [req EXCEPT ![r].at = "build", ![r].spot = <<1, 0>>,
                        ![r].ur = [template |-> Len(built'), phase |-> NoPhase]]
  /\ UNCHANGED <<progress, faults, earned, short, undone>>

NextSpot(p, j) == IF j < Size[p] THEN <<p, j + 1>> ELSE <<p + 1, 0>>

CreatePhase(r) ==
  LET g == req[r].ur.template  p == req[r].spot[1] IN
  /\ req[r].at = "build" /\ req[r].spot[2] = 0 /\ p \in Phases
  /\ built' = [built EXCEPT ![g] = Append(@, 0)]
  /\ req' = [req EXCEPT ![r].spot = <<p, 1>>]
  /\ UNCHANGED <<ur, rule, progress, faults, short, undone>> /\ Remember

(* The j-th topic of the p-th section: first its node, which readers see   *)
(* and the user can complete at once ...                                   *)
CreateNode(r) ==
  LET g == req[r].ur.template  p == req[r].spot[1] IN
  /\ req[r].at = "build" /\ req[r].spot[2] > 0
  /\ built' = [built EXCEPT ![g][p] = @ + 1]
  /\ req' = [req EXCEPT ![r].at = "row"]
  /\ UNCHANGED <<ur, rule, progress, faults, short, undone>> /\ Remember

(* ... then its progress row, an upsert that does not look at what is      *)
(* there.  Its error is ignored.                                           *)
CreateUserNodeProgress(r) ==
  LET g == req[r].ur.template  p == req[r].spot[1]  j == req[r].spot[2]
      node == <<g, p, built[g][p]>>
      open == p = 1 /\ (j = 1 \/ rule[g] = "open") IN
  /\ req[r].at = "row"
  /\ \/ /\ progress' = [progress EXCEPT ![node] = IF open THEN "unlocked" ELSE "locked"]
        /\ UNCHANGED faults
     \/ Fault /\ UNCHANGED progress
  /\ TakeBack
  /\ req' = [req EXCEPT ![r].at = "build", ![r].spot = NextSpot(p, j)]
  /\ UNCHANGED <<ur, built, rule, earned, short>>

(* A topic of the reply that the graph does not know is left out.          *)
SkipNode(r) ==
  LET p == req[r].spot[1]  j == req[r].spot[2] IN
  /\ req[r].at = "build" /\ j > 0 /\ rule[req[r].ur.template] # "default"
  /\ req' = [req EXCEPT ![r].spot = NextSpot(p, j)]
  /\ UNCHANGED <<ur, built, rule, progress, faults, earned, short, undone>>

(* The last statement: the first phase of this template becomes current,   *)
(* whatever template the row names by now.                                 *)
UpdateUserRoadmapPhase(r) ==
  /\ req[r].at = "build" /\ req[r].spot[1] \notin Phases
  /\ ur' = [ur EXCEPT !.phase = <<req[r].ur.template, 1>>]
  /\ req' = [req EXCEPT ![r].at = "roadmap", ![r].spot = <<0, 0>>, ![r].ur = NoRoadmap]
  /\ UNCHANGED <<built, rule, progress, faults, earned, short, undone>>

-----------------------------------------------------------------------------
(* Reading the roadmap: GetCurrentRoadmap *)

GetUserRoadmap(r) ==
  /\ req[r].at = "roadmap" /\ ur = NoRoadmap
  /\ req' = [req EXCEPT ![r].at = "template"]
  /\ UNCHANGED <<ur, built, rule, progress, faults, earned, short, undone>>

(* The row and the phases of its template, or the first m of them.  A      *)
(* current phase that is not among them is taken for the first; the error  *)
(* of the write is ignored.                                                *)
GetTemplatePhases(r) ==
  LET g == ur.template IN
  /\ req[r].at = "roadmap" /\ ur # NoRoadmap
  /\ \E m \in 1..Len(built[g]), wrote \in BOOLEAN :
       LET known == ur.phase[1] = g /\ ur.phase[2] <= m
           read == IF known THEN ur ELSE [ur EXCEPT !.phase = <<g, 1>>] IN
       /\ known => wrote
       /\ Spend(Cost(m < Len(built[g])) + Cost(~wrote))
       /\ ur' = IF wrote THEN read ELSE ur
       /\ req' = [req EXCEPT ![r].at = "progress", ![r].phases = m, ![r].ur = read]
  /\ UNCHANGED <<built, rule, progress, earned, short, undone>>

NoPhasesFound(r) ==
  /\ req[r].at = "roadmap" /\ ur # NoRoadmap
  /\ Spend(Cost(built[ur.template] # <<>>))
  /\ Respond(r, [NoAnswer EXCEPT !.ok = req[r].op = "generate"])
  /\ UNCHANGED <<ur, built, rule, progress, earned, short, undone>>

(* Rows that cannot be read are taken for no rows.                         *)
GetUserNodeProgresses(r) ==
  /\ req[r].at = "progress"
  /\ \/ req' = [req EXCEPT ![r].at = "nodes", ![r].rows = progress] /\ UNCHANGED faults
     \/ /\ \E rows \in SomeRows(req[r].ur.template, progress) :
             req' = [req EXCEPT ![r].at = "nodes", ![r].rows = rows, ![r].blind = TRUE]
        /\ Fault
  /\ UNCHANGED <<ur, built, rule, progress, earned, short, undone>>

(* mutant: a node without a progress row does not count.                   *)
AllMasteredOrMissing(rows, g, p, n) ==
  n > 0 /\ \A j \in 1..n : rows[<<g, p, j>>] = "none" \/ isNodeSettled(rows[<<g, p, j>>])
AllMastered(rows, g, p, n) ==
  n > 0 /\ \A j \in 1..n : isNodeSettled(rows[<<g, p, j>>])

Section(g, p, n, rows, blind) ==
  [ok |-> TRUE, gen |-> g, phase |-> p, blind |-> blind,
   status |-> [j \in 1..n |-> IF rows[<<g, p, j>>] # "none" THEN rows[<<g, p, j>>]
                              ELSE IF j = 1 THEN "unlocked" ELSE "locked"]]

(* The nodes of the current section, or the first m of them; a list that   *)
(* is settled throughout gives way to the next section, and the error of   *)
(* the write is ignored.                                                   *)
GetPhaseNodes(r) ==
  LET g == req[r].ur.template  p == req[r].ur.phase[2]  n == built[g][p] IN
  /\ req[r].at = "nodes"
  /\ \E m \in 0..n :
       IF AllMastered(req[r].rows, g, p, m) /\ p < req[r].phases
       THEN /\ req' = [req EXCEPT ![r].at = "unlock", ![r].ur.phase = <<g, p + 1>>]
            /\ \/ ur' = [ur EXCEPT !.phase = <<g, p + 1>>] /\ Spend(Cost(m < n))
               \/ ur' = ur /\ Spend(Cost(m < n) + 1)
            /\ short' = IF m < n THEN short \cup {<<g, p>>} ELSE short
       ELSE /\ Respond(r, Section(g, p, m, req[r].rows, req[r].blind))
            /\ Spend(Cost(m < n)) /\ UNCHANGED <<ur, short>>
  /\ UNCHANGED <<built, rule, progress, earned, undone>>

(* The nodes of the section just reached, the first m of them or none, and *)
(* their upserts, decided by the rows read before it was: a node settled   *)
(* in the meantime is taken back.  Some upserts may fail, or the rows not  *)
(* be read back in full: no error is looked at.                            *)
UnlockSection(r) ==
  LET g == req[r].ur.template  p == req[r].ur.phase[2]  n == built[g][p] IN
  /\ req[r].at = "unlock"
  /\ \E m \in 0..n :
       LET free == IF rule[g] = "gated" THEN {1} ELSE 1..m
           locked == {j \in free \cap 1..m : req[r].rows[<<g, p, j>>] \in {"none", "locked"}} IN
       \E S \in SUBSET locked, lost \in BOOLEAN :
         /\ Spend(Cost(m < n) + Cost(S # locked) + Cost(lost))
         /\ progress' = [x \in Nodes |->
              IF x[1] = g /\ x[2] = p /\ x[3] \in S THEN "unlocked" ELSE progress[x]]
         /\ TakeBack
         /\ \E rows \in IF lost THEN SomeRows(g, progress') ELSE {progress'} :
              Respond(r, Section(g, p, m, rows, lost))
  /\ UNCHANGED <<ur, built, rule, earned, short>>

-----------------------------------------------------------------------------
(* CompleteNode and TestOut.  The row is made or updated, whichever it     *)
(* needs; the call of Unlock looks a roadmap up by the wrong id and finds  *)
(* none, so no other node changes.                                         *)

CompleteNode(r) ==
  /\ req[r].at = "settle" /\ ur # NoRoadmap
  /\ progress' = [progress EXCEPT ![req[r].node] = "mastered"]
  /\ Respond(r, [NoAnswer EXCEPT !.ok = TRUE])
  /\ UNCHANGED <<ur, built, rule, faults, short, undone>> /\ Remember

(* A statement fails, the server stops or the answer is lost; where nobody *)
(* waits, only a request that writes is told from a slow one.  The reads   *)
(* that follow Generate may fail: it is answered as a success.             *)
Fail(r) ==
  /\ \/ req[r].at \in {"template", "build", "row", "unlock", "settle"}
     \/ /\ req[r].at \notin {"idle", "answered"} \/ req[r].answer.ok
        /\ req[r].owner # "nobody"
  /\ Fault
  /\ \E ok \in BOOLEAN :
       /\ ok => req[r].op = "generate" /\ req[r].at \in {"roadmap", "progress", "nodes", "unlock"}
       /\ Respond(r, [NoAnswer EXCEPT !.ok = ok])
  /\ UNCHANGED <<ur, built, rule, progress, earned, short, undone>>

Serve(r) ==
  \/ CreateTemplate(r) \/ CreatePhase(r) \/ CreateNode(r)
  \/ CreateUserNodeProgress(r) \/ SkipNode(r) \/ UpdateUserRoadmapPhase(r) \/ GetUserRoadmap(r) \/ GetTemplatePhases(r)
  \/ NoPhasesFound(r) \/ GetUserNodeProgresses(r) \/ GetPhaseNodes(r)
  \/ UnlockSection(r) \/ CompleteNode(r)

(* A new user, or one whose default roadmap was built at an earlier visit. *)
ServiceInit ==
  /\ \/ ur = NoRoadmap /\ built = <<>> /\ rule = <<>> /\ progress = NoRows
     \/ /\ ur = [template |-> 1, phase |-> <<1, 1>>]
        /\ built = <<Size>> /\ rule = <<"default">>
        /\ progress = [n \in Nodes |-> IF n[1] # 1 THEN "none"
                                      ELSE IF n = <<1, 1, 1>> THEN "unlocked" ELSE "locked"]
  /\ req = [r \in Slots |-> NoRequest] /\ faults = 0
  /\ earned = {} /\ short = {} /\ undone = {}

-----------------------------------------------------------------------------
(* Properties *)

(* The section the row names, as the next read will take it.               *)
CurrentSection == IF ur.phase[1] = ur.template THEN ur.phase[2] ELSE 1

(* A section is reached by settling the ones before it: whatever requests  *)
(* overlap while templates are built, replaced, read and moved on, every   *)
(* section before the current one was at some instant complete and         *)
(* settled, node by node - or was left on a read of its nodes that was cut *)
(* short, whose error the repository drops.                                *)
SectionsEarned ==
  \A p \in 1..(CurrentSection - 1) : <<ur.template, p>> \in earned \cup short
=============================================================================
