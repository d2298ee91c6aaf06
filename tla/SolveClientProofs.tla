-------------------------- MODULE SolveClientProofs --------------------------
(* Proofs about the problem bank and the solve page, for any filters, pages,  *)
(* languages, codes and bounds.                                              *)
EXTENDS SolveClient, FiniteSetTheorems, TLAPS

-----------------------------------------------------------------------------
(* Types of the editor *)

Drafts == Codes \cup {NoCode}
Editor ==
  [mounted : BOOLEAN, lang : Languages, code : Drafts,
   run : {"idle", "running", "done", "error"},
   phase : {"idle", "queued", "processing", "submitting", "done", "error"},
   recorded : BOOLEAN, lost : BOOLEAN]
Flow == [step : {"free", "batch", "execute", "poll", "submit", "recorded"},
         polls : Nat, mine : BOOLEAN]

EditorTypes ==
  /\ ed \in Editor
  /\ drafts \in [Languages -> Drafts] /\ typed \in [Languages -> Codes]
  /\ flows \in [Slots -> Flow]

-----------------------------------------------------------------------------
(* The editor's code *)

(* What is stored for each language is what was typed, and the editor, when *)
(* it is on the page, has it.                                               *)
CodeInv ==
  /\ world.storage => \A l \in Languages : typed[l] = CodeOf(l)
  /\ DraftsKept

LEMMA CodeOfType ==
  ASSUME EditorTypes, NEW l \in Languages
  PROVE  CodeOf(l) \in Codes
  BY SolveAssumption DEF EditorTypes, CodeOf, readDraft, Drafts

LEMMA NewEditorType ==
  ASSUME EditorTypes
  PROVE  /\ NoEditor \in Editor /\ NewEditor \in Editor
         /\ NewEditor = [NoEditor EXCEPT !.mounted = TRUE, !.code = CodeOf(DefaultLanguage)]
  BY CodeOfType, SolveAssumption DEF NoEditor, NewEditor, Editor, Drafts

(* The steps that leave the code, the drafts and the history alone.         *)
SameCode ==
  /\ ed'.mounted = ed.mounted /\ ed'.lang = ed.lang /\ ed'.code = ed.code
  /\ UNCHANGED <<drafts, typed, world>>

LEMMA SameCodeOK ==
  ASSUME CodeInv, SameCode
  PROVE  CodeInv'
  BY DEF CodeInv, SameCode, DraftsKept, CodeOf, readDraft

LEMMA EditOK ==
  ASSUME EditorTypes, CodeInv, NEW c \in Codes, Edit(c)
  PROVE  CodeInv' /\ drafts' \in [Languages -> Drafts] /\ typed' \in [Languages -> Codes]
         /\ ed' \in Editor
  <1>1. /\ ed' = [ed EXCEPT !.code = c] /\ ed' \in Editor
        /\ drafts' = IF world.storage THEN [drafts EXCEPT ![ed.lang] = c] ELSE drafts
        /\ typed' = [typed EXCEPT ![ed.lang] = c] /\ world' = world
    BY DEF Edit, writeDraft, EditorTypes, Editor, Drafts
  <1>2. ed.lang \in Languages /\ ed'.lang = ed.lang /\ ed'.code = c /\ c # NoCode
    BY <1>1, SolveAssumption DEF EditorTypes, Editor
  <1>3. drafts' \in [Languages -> Drafts] /\ typed' \in [Languages -> Codes]
    BY <1>1, <1>2 DEF EditorTypes, Drafts
  <1>4. world.storage => \A l \in Languages : typed'[l] = IF drafts'[l] = NoCode THEN Starter ELSE drafts'[l]
    BY <1>1, <1>2 DEF EditorTypes, CodeInv, CodeOf, readDraft
  <1>5. typed'[ed'.lang] = c
    BY <1>1, <1>2 DEF EditorTypes
  <1> QED BY <1>1, <1>2, <1>3, <1>4, <1>5 DEF CodeInv, DraftsKept, CodeOf, readDraft

LEMMA BecomeCodeOK ==
  ASSUME EditorTypes, CodeInv, NEW s, NEW same \in BOOLEAN, Become(s, same), world' = world
  PROVE  CodeInv' /\ ed' \in Editor
  <1>1. ed' = NoEditor \/ ed' = ed \/ ed' = NewEditor
    BY DEF Become
  <1>2. /\ drafts' = drafts /\ typed' = typed
        /\ ~NoEditor.mounted
        /\ NewEditor.lang = DefaultLanguage /\ NewEditor.code = CodeOf(DefaultLanguage)
    BY NewEditorType DEF Become, NoEditor, NewEditor
  <1> QED BY <1>1, <1>2, NewEditorType, SolveAssumption
          DEF CodeInv, DraftsKept, CodeOf, readDraft, EditorTypes

-----------------------------------------------------------------------------
(* The editor's requests *)

(* One request if the panel says so, none otherwise.                        *)
Single(S, on) == IF on THEN \E i \in Slots : S = {i} ELSE S = {}

PanelInv ==
  /\ Single(Mine({"batch"}), ed.run = "running")
  /\ Single(Mine({"execute", "poll"}), ed.phase \in {"queued", "processing"})
  /\ Single(Mine({"submit", "recorded"}), ed.phase = "submitting")
  /\ \A i \in Slots : flows[i].mine =>
       /\ flows[i].step \in {"execute", "poll", "submit"} => ~ed.recorded
       /\ flows[i].step = "recorded" => ed.recorded
  /\ ed.phase = "done" => ed.recorded
  /\ ed.phase = "error" /\ ~ed.lost => ~ed.recorded
  /\ ~ed.mounted => \A i \in Slots : ~flows[i].mine

LEMMA PanelImplied == PanelInv => PanelIsHonest
  <1> SUFFICES ASSUME PanelInv PROVE PanelIsHonest
    OBVIOUS
  <1>1. Cardinality({}) = 0 /\ \A i \in Slots : Cardinality({i}) = 1
    BY FS_EmptySet, FS_Singleton
  <1>2. One({"queued", "processing"}, {"execute", "poll"})
    BY <1>1 DEF PanelInv, Single, One
  <1>3. One({"submitting"}, {"submit", "recorded"})
    BY <1>1 DEF PanelInv, Single, One
  <1>4. Mine({"batch"}) # {} <=> ResultsPanel = "running"
    BY DEF PanelInv, Single, ResultsPanel
  <1>5. /\ SubmitPanel = "done" => ed.phase = "done"
        /\ SubmitPanel = "error" => ed.phase = "error"
    BY DEF SubmitPanel
  <1> QED BY <1>2, <1>3, <1>4, <1>5 DEF PanelIsHonest, PanelInv

LEMMA MineAfter ==
  ASSUME EditorTypes, NEW i \in Slots, NEW f \in Flow, flows' = [flows EXCEPT ![i] = f], NEW S
  PROVE  Mine(S)' = IF f.mine /\ f.step \in S THEN Mine(S) \cup {i} ELSE Mine(S) \ {i}
  BY DEF Mine, EditorTypes

(* A step that leaves the requests and what the panel says of them alone.   *)
LEMMA SamePanelOK ==
  ASSUME PanelInv, UNCHANGED flows, ed'.run = ed.run, ed'.phase = ed.phase,
         ed'.recorded = ed.recorded, ed'.lost = ed.lost, ed'.mounted = ed.mounted
  PROVE  PanelInv'
  BY DEF PanelInv, Mine, Single

LEMMA BecomePanelOK ==
  ASSUME EditorTypes, PanelInv, NEW s, NEW same \in BOOLEAN, Become(s, same)
  PROVE  PanelInv' /\ flows' \in [Slots -> Flow]
  <1>1. flows' = [i \in Slots |-> [flows[i] EXCEPT !.mine = @ /\ ed'.mounted /\ same]]
    BY DEF Become
  <1>2. flows' \in [Slots -> Flow]
    <2>1. \A i \in Slots : flows[i] \in Flow
      BY DEF EditorTypes
    <2>2. \A i \in Slots : (flows[i].mine /\ ed'.mounted /\ same) \in BOOLEAN
      OBVIOUS
    <2> QED BY <1>1, <2>1, <2>2 DEF Flow
  <1>3. CASE ed' = ed /\ ed.mounted /\ same
    <2>1. \A i \in Slots : flows'[i] = flows[i]
      BY <1>1, <1>3 DEF EditorTypes, Flow
    <2>2. flows' = flows
      BY <1>2, <2>1 DEF EditorTypes
    <2> QED BY <1>2, <1>3, <2>2, SamePanelOK
  <1>4. CASE ~(ed' = ed /\ ed.mounted /\ same)
    <2>1. /\ ed' = NoEditor \/ ed' = NewEditor
          /\ same => ~ed.mounted \/ ~ed'.mounted
      BY <1>4 DEF Become, NoEditor
    <2>2. ed'.run = "idle" /\ ed'.phase = "idle"
      BY <2>1, NewEditorType DEF NoEditor
    <2>3. \A i \in Slots : ~flows'[i].mine
      <3> SUFFICES ASSUME NEW i \in Slots PROVE ~flows'[i].mine
        OBVIOUS
      <3>1. flows'[i].mine = (flows[i].mine /\ ed'.mounted /\ same)
        BY <1>1 DEF EditorTypes, Flow
      <3> QED BY <2>1, <3>1 DEF PanelInv
    <2>4. \A S : Mine(S)' = {}
      BY <2>3 DEF Mine
    <2> QED BY <1>2, <2>2, <2>3, <2>4 DEF PanelInv, Single
  <1> QED BY <1>3, <1>4

LEMMA SendMine ==
  ASSUME EditorTypes, NEW i \in Slots, NEW step \in {"batch", "execute"}, Send(i, step), NEW S
  PROVE  /\ flows' \in [Slots -> Flow]
         /\ Mine(S)' = IF step \in S THEN Mine(S) \cup {i} ELSE Mine(S) \ {i}
         /\ \A j \in Slots : flows'[j] = IF j = i THEN [step |-> step, polls |-> 0, mine |-> TRUE]
                                                  ELSE flows[j]
         /\ flows[i].step = "free"
  <1> DEFINE f == [step |-> step, polls |-> 0, mine |-> TRUE]
  <1>1. f \in Flow /\ flows' = [flows EXCEPT ![i] = f] /\ f.mine /\ f.step = step
    <2>1. flows' = [flows EXCEPT ![i] = f]
      BY DEF Send
    <2>2. f \in Flow
      BY DEF Flow
    <2> QED BY <2>1, <2>2
  <1> HIDE DEF f
  <1>2. Mine(S)' = IF step \in S THEN Mine(S) \cup {i} ELSE Mine(S) \ {i}
    BY <1>1, MineAfter
  <1>3. \A j \in Slots : flows'[j] = IF j = i THEN f ELSE flows[j]
    BY <1>1 DEF EditorTypes
  <1>4. flows' \in [Slots -> Flow] /\ flows[i].step = "free"
    BY <1>1 DEF EditorTypes, Send
  <1> QED BY <1>2, <1>3, <1>4 DEF f

LEMMA RunOK ==
  ASSUME EditorTypes, PanelInv, NEW i \in Slots, handleRun(i)
  PROVE  PanelInv' /\ EditorTypes' /\ SameCode
  <1>1. CASE ~world.samples
    <2>1. ed' = [ed EXCEPT !.run = "error"] /\ flows' = flows /\ ed.run # "running"
      BY <1>1 DEF handleRun, RunButton
    <2>2. Mine({"batch"}) = {}
      BY <2>1 DEF PanelInv, Single
    <2>3. \A S : Mine(S)' = Mine(S)
      BY <2>1 DEF Mine
    <2> QED BY <2>1, <2>2, <2>3 DEF PanelInv, Single, EditorTypes, Editor, SameCode, handleRun
  <1>2. CASE world.samples
    <2>1. /\ ed' = [ed EXCEPT !.run = "running"] /\ Send(i, "batch")
          /\ ed.run # "running" /\ ed.mounted
      BY <1>2 DEF handleRun, RunButton
    <2>2. \A S : Mine(S)' = IF "batch" \in S THEN Mine(S) \cup {i} ELSE Mine(S) \ {i}
      BY <2>1, SendMine
    <2>3. \A S \in {{"execute", "poll"}, {"submit", "recorded"}} : Mine(S)' = Mine(S)
      BY <2>1, <2>2, SendMine DEF Mine
    <2>4. Mine({"batch"})' = {i}
      BY <2>1, <2>2 DEF PanelInv, Single
    <2>5. /\ flows' \in [Slots -> Flow]
          /\ \A j \in Slots : j # i => flows'[j] = flows[j]
          /\ flows'[i].step = "batch"
      BY <2>1, SendMine
    <2>6. ed' \in Editor /\ ed'.run = "running" /\ ed'.phase = ed.phase /\ ed'.lost = ed.lost
          /\ ed'.recorded = ed.recorded /\ ed'.mounted = ed.mounted
          /\ ed'.lang = ed.lang /\ ed'.code = ed.code
      BY <2>1 DEF EditorTypes, Editor
    <2>7. PanelInv'
      BY <2>1, <2>3, <2>4, <2>5, <2>6 DEF PanelInv, Single
    <2> QED BY <2>5, <2>6, <2>7 DEF EditorTypes, SameCode, handleRun
  <1> QED BY <1>1, <1>2

LEMMA SubmitOK ==
  ASSUME EditorTypes, PanelInv, NEW i \in Slots, handleSubmit(i)
  PROVE  PanelInv' /\ EditorTypes' /\ SameCode
  <1>1. /\ ed' = [ed EXCEPT !.phase = "queued", !.recorded = FALSE, !.lost = FALSE]
        /\ Send(i, "execute") /\ ed.mounted
        /\ ed.phase \notin {"queued", "processing", "submitting"}
    BY DEF handleSubmit, SubmitButton, isSubmitBusy
  <1>2. \A S : Mine(S)' = IF "execute" \in S THEN Mine(S) \cup {i} ELSE Mine(S) \ {i}
    BY <1>1, SendMine
  <1>3. \A S \in {{"batch"}, {"submit", "recorded"}} : Mine(S)' = Mine(S)
    BY <1>1, <1>2, SendMine DEF Mine
  <1>4. Mine({"execute", "poll"})' = {i} /\ Mine({"submit", "recorded"}) = {}
    BY <1>1, <1>2 DEF PanelInv, Single
  <1>5. /\ flows' \in [Slots -> Flow]
        /\ \A j \in Slots : j # i => flows'[j] = flows[j]
        /\ flows'[i].step = "execute"
    BY <1>1, SendMine
  <1>6. ed' \in Editor /\ ed'.phase = "queued" /\ ed'.run = ed.run /\ ~ed'.lost
        /\ ~ed'.recorded /\ ed'.mounted = ed.mounted
        /\ ed'.lang = ed.lang /\ ed'.code = ed.code
    BY <1>1 DEF EditorTypes, Editor
  <1>7. \A j \in Slots : flows'[j].mine => flows'[j].step # "recorded"
    BY <1>4, <1>5 DEF Mine
  <1>8. PanelInv'
    BY <1>1, <1>3, <1>4, <1>5, <1>6, <1>7 DEF PanelInv, Single
  <1> QED BY <1>5, <1>6, <1>8 DEF EditorTypes, SameCode, handleSubmit

(* A request's step leaves the panel alone if the panel was dropped.        *)
LEMMA StrangerOK ==
  ASSUME EditorTypes, PanelInv, NEW i \in Slots, NEW f \in Flow, NEW e, Step(i, f, e),
         ~flows[i].mine, ~f.mine
  PROVE  PanelInv' /\ EditorTypes' /\ SameCode
  <1>1. flows' = [flows EXCEPT ![i] = f] /\ ed' = ed
    BY DEF Step
  <1>2. \A S : Mine(S)' = Mine(S)
    BY <1>1, MineAfter DEF Mine
  <1>3. \A j \in Slots : flows'[j].mine => flows'[j] = flows[j]
    BY <1>1 DEF EditorTypes
  <1> QED BY <1>1, <1>2, <1>3 DEF PanelInv, Single, EditorTypes, SameCode, Step

(* What a step of a request makes of the panel's state, by its result.      *)
LEMMA StepType ==
  ASSUME EditorTypes, NEW i \in Slots, NEW f \in Flow, NEW e \in Editor, Step(i, f, e),
         e.mounted = ed.mounted, e.lang = ed.lang, e.code = ed.code
  PROVE  EditorTypes' /\ SameCode
  BY DEF Step, EditorTypes, SameCode

LEMMA BatchOK ==
  ASSUME EditorTypes, PanelInv, NEW i \in Slots, flows[i].step = "batch",
         NEW run \in {"done", "error"}, Step(i, Free, [ed EXCEPT !.run = run])
  PROVE  PanelInv' /\ EditorTypes' /\ SameCode
  <1> DEFINE e == [ed EXCEPT !.run = run]
  <1>1. Free \in Flow /\ ~Free.mine /\ Free.step = "free" /\ e \in Editor /\ ed \in Editor
    BY DEF Free, Flow, EditorTypes, Editor
  <1>2. /\ e.run = run /\ e.phase = ed.phase /\ e.recorded = ed.recorded /\ e.lost = ed.lost
        /\ e.mounted = ed.mounted /\ e.lang = ed.lang /\ e.code = ed.code
    BY <1>1 DEF Editor
  <1>3. Step(i, Free, e)
    OBVIOUS
  <1> HIDE DEF e
  <1>4. CASE ~flows[i].mine
    BY <1>1, <1>3, <1>4, StrangerOK
  <1>5. CASE flows[i].mine
    <2>1. flows' = [flows EXCEPT ![i] = Free] /\ ed' = e
      BY <1>3, <1>5 DEF Step
    <2>2. \A S : Mine(S)' = Mine(S) \ {i}
      BY <1>1, <2>1, MineAfter
    <2>3. i \in Mine({"batch"}) /\ i \notin Mine({"execute", "poll"}) /\ i \notin Mine({"submit", "recorded"})
      BY <1>5 DEF Mine
    <2>4. Mine({"batch"})' = {}
      BY <2>2, <2>3 DEF PanelInv, Single
    <2>5. \A j \in Slots : flows'[j].mine => flows'[j] = flows[j]
      BY <1>1, <2>1 DEF EditorTypes
    <2>6. Mine({"execute", "poll"})' = Mine({"execute", "poll"})
          /\ Mine({"submit", "recorded"})' = Mine({"submit", "recorded"})
      BY <2>2, <2>3
    <2>7. PanelInv'
      BY <1>2, <2>1, <2>4, <2>5, <2>6 DEF PanelInv, Single
    <2> QED BY <1>1, <1>2, <1>3, <2>7, StepType
  <1> QED BY <1>4, <1>5

(* What a request that judges a submission may leave behind: the panel's    *)
(* phase is that of its next step, or its end.                              *)
Judging == {"execute", "poll", "submit", "recorded"}
Match(f, e) ==
  /\ f.step \in {"execute", "poll"} <=> e.phase \in {"queued", "processing"}
  /\ f.step \in {"submit", "recorded"} <=> e.phase = "submitting"
  /\ f.step \in {"execute", "poll", "submit"} => ~e.recorded
  /\ f.step = "recorded" => e.recorded
  /\ e.phase = "done" => e.recorded
  /\ e.phase = "error" /\ ~e.lost => ~e.recorded
SameRest(e) == /\ e.mounted = ed.mounted /\ e.run = ed.run
               /\ e.lang = ed.lang /\ e.code = ed.code

LEMMA JudgeOK ==
  ASSUME EditorTypes, PanelInv, NEW i \in Slots, NEW f \in Flow, NEW e \in Editor,
         Step(i, f, e), flows[i].step \in Judging, f.step \in Judging \cup {"free"},
         f.mine = (flows[i].mine /\ f.step # "free"),
         flows[i].mine => Match(f, e), SameRest(e)
  PROVE  PanelInv' /\ EditorTypes' /\ SameCode
  <1>1. CASE ~flows[i].mine
    BY <1>1, StrangerOK
  <1>2. CASE flows[i].mine
    <2>1. flows' = [flows EXCEPT ![i] = f] /\ ed' = e /\ Match(f, e)
      BY <1>2 DEF Step
    <2>2. \A j \in Slots : flows[j].mine /\ flows[j].step \in Judging => j = i
      <3>1. i \in Mine({"execute", "poll"}) \/ i \in Mine({"submit", "recorded"})
        BY <1>2 DEF Mine, Judging
      <3>2. \/ Mine({"execute", "poll"}) = {i} /\ Mine({"submit", "recorded"}) = {}
            \/ Mine({"submit", "recorded"}) = {i} /\ Mine({"execute", "poll"}) = {}
        BY <3>1 DEF PanelInv, Single
      <3>3. SUFFICES ASSUME NEW j \in Slots, flows[j].mine, flows[j].step \in Judging
                     PROVE  j = i
        OBVIOUS
      <3>4. j \in Mine({"execute", "poll"}) \/ j \in Mine({"submit", "recorded"})
        BY <3>3 DEF Mine, Judging
      <3> QED BY <3>2, <3>4
    <2>3. /\ flows'[i] = f
          /\ \A j \in Slots : j # i => flows'[j] = flows[j]
      BY <2>1 DEF EditorTypes
    <2>4. Mine({"batch"})' = Mine({"batch"})
      BY <2>3 DEF Mine, Judging
    <2>5. /\ Mine({"execute", "poll"})' = IF f.step \in {"execute", "poll"} THEN {i} ELSE {}
          /\ Mine({"submit", "recorded"})' = IF f.step \in {"submit", "recorded"} THEN {i} ELSE {}
      <3>1. \A S \in SUBSET Judging : Mine(S)' = IF f.step \in S THEN {i} ELSE {}
        BY <1>2, <2>2, <2>3 DEF Mine, Judging
      <3> QED BY <3>1 DEF Judging
    <2>6. \A j \in Slots : flows'[j].mine =>
            /\ flows'[j].step \in {"execute", "poll", "submit"} => ~e.recorded
            /\ flows'[j].step = "recorded" => e.recorded
      <3> SUFFICES ASSUME NEW j \in Slots, flows'[j].mine, flows'[j].step \in Judging
                   PROVE  j = i
        BY <2>1, <2>3 DEF Match, Judging
      <3> QED BY <2>2, <2>3
    <2>7. PanelInv'
      <3>1. e.run = ed.run /\ e.mounted = ed.mounted /\ ed.mounted
        BY <1>2 DEF SameRest, PanelInv
      <3>2. /\ Single(Mine({"batch"})', e.run = "running")
            /\ Single(Mine({"execute", "poll"})', e.phase \in {"queued", "processing"})
            /\ Single(Mine({"submit", "recorded"})', e.phase = "submitting")
        BY <2>1, <2>4, <2>5, <3>1 DEF PanelInv, Single, Match
      <3> QED BY <2>1, <2>6, <3>1, <3>2 DEF PanelInv, Single, Match
    <2> QED BY <2>7, StepType DEF SameRest
  <1> QED BY <1>1, <1>2

(* The panel's phase while a request of its own judges a submission.        *)
LEMMA PhaseOfMine ==
  ASSUME PanelInv, NEW i \in Slots, flows[i].mine
  PROVE  /\ flows[i].step \in {"execute", "poll"} =>
              ed.phase \in {"queued", "processing"} /\ ~ed.recorded
         /\ flows[i].step \in {"submit", "recorded"} => ed.phase = "submitting"
         /\ flows[i].step = "submit" => ~ed.recorded
         /\ flows[i].step = "recorded" => ed.recorded
  BY DEF PanelInv, Single, Mine

LEMMA ExecuteOK ==
  ASSUME EditorTypes, PanelInv, NEW i \in Slots, executeCode(i)
  PROVE  PanelInv' /\ EditorTypes' /\ SameCode
  <1>1. flows[i] \in Flow /\ flows[i].step = "execute" /\ ed \in Editor
    BY DEF EditorTypes, executeCode
  <1>2. PICK f : f = [flows[i] EXCEPT !.step = "poll"]
    OBVIOUS
  <1>3. f \in Flow /\ f.step = "poll" /\ f.mine = flows[i].mine
    BY <1>1, <1>2 DEF Flow
  <1>4. Step(i, f, ed)
    BY <1>2 DEF executeCode
  <1>5. flows[i].mine => Match(f, ed)
    BY <1>1, <1>3, PhaseOfMine DEF Match
  <1>6. /\ flows[i].step \in Judging /\ f.step \in Judging \cup {"free"}
        /\ f.mine = (flows[i].mine /\ f.step # "free") /\ SameRest(ed)
    BY <1>1, <1>3 DEF Judging, SameRest, Flow
  <1> QED BY <1>1, <1>3, <1>4, <1>5, <1>6, JudgeOK

LEMMA VerdictOK ==
  ASSUME EditorTypes, PanelInv, NEW i \in Slots, getVerdict(i)
  PROVE  PanelInv' /\ EditorTypes' /\ SameCode
  <1>1. flows[i] \in Flow /\ flows[i].step = "poll" /\ ed \in Editor
    BY DEF EditorTypes, getVerdict
  <1>2. flows[i].mine => ~ed.recorded
    BY <1>1, PhaseOfMine
  <1>3. CASE Step(i, [flows[i] EXCEPT !.step = "submit"], [ed EXCEPT !.phase = "submitting"])
    <2>1. PICK f, e : f = [flows[i] EXCEPT !.step = "submit"] /\ e = [ed EXCEPT !.phase = "submitting"]
      OBVIOUS
    <2>2. /\ f \in Flow /\ f.step = "submit" /\ f.mine = flows[i].mine
          /\ e \in Editor /\ e.phase = "submitting" /\ e.recorded = ed.recorded /\ SameRest(e)
      BY <1>1, <2>1 DEF Flow, Editor, SameRest
    <2>3. Step(i, f, e)
      BY <1>3, <2>1
    <2> QED BY <1>1, <1>2, <2>2, <2>3, JudgeOK DEF Judging, Match, Flow
  <1>4. CASE /\ flows[i].polls < Polls
             /\ \E p \in {"queued", "processing"} :
                  Step(i, [flows[i] EXCEPT !.polls = @ + 1], [ed EXCEPT !.phase = p])
    <2>1. PICK p \in {"queued", "processing"} :
            Step(i, [flows[i] EXCEPT !.polls = @ + 1], [ed EXCEPT !.phase = p])
      BY <1>4
    <2>2. PICK f, e : f = [flows[i] EXCEPT !.polls = @ + 1] /\ e = [ed EXCEPT !.phase = p]
      OBVIOUS
    <2>3. /\ f \in Flow /\ f.step = "poll" /\ f.mine = flows[i].mine
          /\ e \in Editor /\ e.phase = p /\ e.recorded = ed.recorded /\ SameRest(e)
      BY <1>1, <2>2 DEF Flow, Editor, SameRest
    <2>4. Step(i, f, e)
      BY <2>1, <2>2
    <2> QED BY <1>1, <1>2, <2>3, <2>4, JudgeOK DEF Judging, Match, Flow
  <1>5. CASE Step(i, Free, [ed EXCEPT !.phase = "error"])
    <2>1. PICK e : e = [ed EXCEPT !.phase = "error"]
      OBVIOUS
    <2>2. /\ Free \in Flow /\ Free.step = "free" /\ ~Free.mine
          /\ e \in Editor /\ e.phase = "error" /\ e.recorded = ed.recorded /\ SameRest(e)
      BY <1>1, <2>1 DEF Free, Flow, Editor, SameRest
    <2>3. Step(i, Free, e)
      BY <1>5, <2>1
    <2> QED BY <1>1, <1>2, <2>2, <2>3, JudgeOK DEF Judging, Match, Free
  <1> QED BY <1>3, <1>4, <1>5 DEF getVerdict

LEMMA SubmitAnswerOK ==
  ASSUME EditorTypes, PanelInv, NEW i \in Slots, submitPracticeAnswer(i)
  PROVE  PanelInv' /\ EditorTypes' /\ SameCode
  <1>1. flows[i] \in Flow /\ ed \in Editor
    BY DEF EditorTypes
  <1>2. CASE /\ flows[i].step = "submit"
             /\ Step(i, [flows[i] EXCEPT !.step = "recorded"], [ed EXCEPT !.recorded = TRUE])
    <2>1. PICK f, e : f = [flows[i] EXCEPT !.step = "recorded"] /\ e = [ed EXCEPT !.recorded = TRUE]
      OBVIOUS
    <2>2. /\ f \in Flow /\ f.step = "recorded" /\ f.mine = flows[i].mine
          /\ e \in Editor /\ e.phase = ed.phase /\ e.recorded /\ SameRest(e)
      BY <1>1, <2>1 DEF Flow, Editor, SameRest
    <2>3. Step(i, f, e)
      BY <1>2, <2>1
    <2>4. flows[i].mine => ed.phase = "submitting"
      BY <1>2, PhaseOfMine
    <2> QED BY <1>1, <1>2, <2>2, <2>3, <2>4, JudgeOK DEF Judging, Match, Flow
  <1>3. CASE flows[i].step = "recorded" /\ Step(i, Free, [ed EXCEPT !.phase = "done"])
    <2>1. PICK e : e = [ed EXCEPT !.phase = "done"]
      OBVIOUS
    <2>2. /\ Free \in Flow /\ Free.step = "free" /\ ~Free.mine
          /\ e \in Editor /\ e.phase = "done" /\ e.recorded = ed.recorded /\ SameRest(e)
      BY <1>1, <2>1 DEF Free, Flow, Editor, SameRest
    <2>3. Step(i, Free, e)
      BY <1>3, <2>1
    <2>4. flows[i].mine => ed.recorded
      BY <1>3, PhaseOfMine
    <2> QED BY <1>1, <1>3, <2>2, <2>3, <2>4, JudgeOK DEF Judging, Match, Free
  <1> QED BY <1>2, <1>3 DEF submitPracticeAnswer

LEMMA FlowFailsOK ==
  ASSUME EditorTypes, PanelInv, NEW i \in Slots, FlowFails(i)
  PROVE  PanelInv' /\ EditorTypes' /\ SameCode
  <1>1. flows[i] \in Flow /\ ed \in Editor /\ flows[i].step # "free"
    BY DEF EditorTypes, FlowFails
  <1>2. CASE flows[i].step = "batch"
    <2>1. Step(i, Free, [ed EXCEPT !.run = "error"])
      BY <1>2 DEF FlowFails
    <2> QED BY <1>2, <2>1, BatchOK
  <1>3. CASE flows[i].step # "batch"
    <2>1. PICK e : e = [ed EXCEPT !.phase = "error", !.lost = flows[i].step = "recorded"]
      OBVIOUS
    <2>2. /\ Free \in Flow /\ Free.step = "free" /\ ~Free.mine
          /\ e \in Editor /\ e.phase = "error" /\ e.recorded = ed.recorded
          /\ e.lost = (flows[i].step = "recorded") /\ SameRest(e)
      <3>1. (flows[i].step = "recorded") \in BOOLEAN
        OBVIOUS
      <3> QED BY <1>1, <2>1, <3>1 DEF Free, Flow, Editor, SameRest
    <2>3. Step(i, Free, e)
      BY <1>3, <2>1 DEF FlowFails
    <2>4. flows[i].step \in Judging
      BY <1>1, <1>3 DEF Flow, Judging
    <2>5. flows[i].mine => Match(Free, e)
      BY <2>2, <2>4, PhaseOfMine DEF Match, Judging
    <2>6. Free.step \in Judging \cup {"free"} /\ Free.mine = (flows[i].mine /\ Free.step # "free")
      BY <2>2 DEF Free
    <2> QED BY <2>2, <2>3, <2>4, <2>5, <2>6, JudgeOK
  <1> QED BY <1>2, <1>3

-----------------------------------------------------------------------------
(* The editor through every step *)

EditorInv == EditorTypes /\ CodeInv /\ PanelInv

LEMMA InitEditor == Init => EditorInv
  <1> SUFFICES ASSUME Init PROVE EditorInv
    OBVIOUS
  <1>1. NoEditor \in Editor /\ Free \in Flow /\ ~Free.mine
    BY SolveAssumption DEF NoEditor, Editor, Drafts, Free, Flow
  <1>2. EditorTypes
    BY <1>1, SolveAssumption DEF Init, EditorTypes, Drafts
  <1>3. CodeInv
    BY <1>2 DEF Init, CodeInv, DraftsKept, CodeOf, readDraft, NoEditor
  <1>4. \A S : Mine(S) = {}
    BY <1>1 DEF Init, Mine
  <1>5. PanelInv
    BY <1>1, <1>4 DEF Init, PanelInv, Single, NoEditor
  <1> QED BY <1>2, <1>3, <1>5 DEF EditorInv

LEMMA EditStep ==
  ASSUME EditorInv, NEW c \in Codes, Edit(c)
  PROVE  EditorInv'
  <1>1. CodeInv' /\ EditorTypes'
    BY EditOK DEF EditorInv, EditorTypes, Edit
  <1>2. PanelInv'
    <2>1. ed' = [ed EXCEPT !.code = c] /\ flows' = flows /\ ed \in Editor
      BY DEF Edit, EditorInv, EditorTypes
    <2> QED BY <2>1, SamePanelOK DEF EditorInv, Editor
  <1> QED BY <1>1, <1>2 DEF EditorInv

LEMMA BecomeStep ==
  ASSUME EditorInv, NEW s, NEW same \in BOOLEAN, Become(s, same), world' = world
  PROVE  EditorInv'
  <1>1. CodeInv' /\ ed' \in Editor
    BY BecomeCodeOK DEF EditorInv
  <1>2. PanelInv' /\ flows' \in [Slots -> Flow]
    BY BecomePanelOK DEF EditorInv
  <1> QED BY <1>1, <1>2 DEF EditorInv, EditorTypes, Become

LEMMA LanguageStep ==
  ASSUME EditorInv, setLanguageKey
  PROVE  EditorInv'
  <1>1. PICK l \in Languages : ed' = [ed EXCEPT !.lang = l, !.code = CodeOf(l)]
    BY DEF setLanguageKey
  <1>2. /\ ed \in Editor /\ CodeOf(l) \in Codes
        /\ UNCHANGED <<drafts, typed, flows, world>>
    BY CodeOfType DEF EditorInv, EditorTypes, setLanguageKey
  <1>3. /\ ed' \in Editor /\ ed'.lang = l /\ ed'.code = CodeOf(l)
        /\ ed'.run = ed.run /\ ed'.phase = ed.phase /\ ed'.recorded = ed.recorded
        /\ ed'.lost = ed.lost /\ ed'.mounted = ed.mounted
    BY <1>1, <1>2 DEF Editor, Drafts
  <1>4. CodeInv'
    BY <1>2, <1>3 DEF EditorInv, CodeInv, DraftsKept, CodeOf, readDraft
  <1>5. PanelInv'
    BY <1>2, <1>3, SamePanelOK DEF EditorInv
  <1> QED BY <1>2, <1>3, <1>4, <1>5 DEF EditorInv, EditorTypes

LEMMA SlotStep ==
  ASSUME EditorInv, NEW i \in Slots,
         handleRun(i) \/ handleSubmit(i) \/ executeBatch(i) \/ executeCode(i)
           \/ getVerdict(i) \/ submitPracticeAnswer(i) \/ FlowFails(i)
  PROVE  EditorInv'
  <1>1. SUFFICES PanelInv' /\ EditorTypes' /\ SameCode
    BY SameCodeOK DEF EditorInv
  <1> USE DEF EditorInv
  <1>2. CASE handleRun(i) BY <1>2, RunOK
  <1>3. CASE handleSubmit(i) BY <1>3, SubmitOK
  <1>4. CASE executeBatch(i)
    <2>1. flows[i].step = "batch" /\ Step(i, Free, [ed EXCEPT !.run = "done"])
      BY <1>4 DEF executeBatch
    <2> QED BY <2>1, BatchOK
  <1>5. CASE executeCode(i) BY <1>5, ExecuteOK
  <1>6. CASE getVerdict(i) BY <1>6, VerdictOK
  <1>7. CASE submitPracticeAnswer(i) BY <1>7, SubmitAnswerOK
  <1>8. CASE FlowFails(i) BY <1>8, FlowFailsOK
  <1> QED BY <1>2, <1>3, <1>4, <1>5, <1>6, <1>7, <1>8

(* The steps of the page that remount the editor or drop it.                *)
LEMMA PageStep ==
  ASSUME EditorInv,
         SolveProblem \/ BackToProblems \/ findProblemById \/ TryAgain
           \/ SetMobileTab \/ useMediaQuery
  PROVE  EditorInv'
  <1>1. world' = world
    BY DEF SolveProblem, BackToProblems, findProblemById, TryAgain, SetMobileTab, useMediaQuery
  <1>2. CASE SolveProblem
    <2>1. PICK s : s = [solve EXCEPT !.problem = IF @ = "kept" THEN "ok" ELSE "pending",
                                     !.tab = "problem"]
      OBVIOUS
    <2>2. Become(s, FALSE)
      BY <1>2, <2>1 DEF SolveProblem
    <2> QED BY <1>1, <2>2, BecomeStep
  <1>3. CASE BackToProblems
    <2>1. PICK s : s = [solve EXCEPT !.problem = IF @ = "ok" THEN "kept" ELSE @]
      OBVIOUS
    <2>2. Become(s, FALSE)
      BY <1>3, <2>1 DEF BackToProblems
    <2> QED BY <1>1, <2>2, BecomeStep
  <1>4. CASE findProblemById
    <2>1. PICK p : Become([solve EXCEPT !.problem = p], TRUE)
      BY <1>4 DEF findProblemById
    <2>2. PICK s : s = [solve EXCEPT !.problem = p]
      OBVIOUS
    <2>3. Become(s, TRUE)
      BY <2>1, <2>2
    <2> QED BY <1>1, <2>3, BecomeStep
  <1>5. CASE TryAgain
    <2>1. PICK s : s = [solve EXCEPT !.problem = "pending"]
      OBVIOUS
    <2>2. Become(s, TRUE)
      BY <1>5, <2>1 DEF TryAgain
    <2> QED BY <1>1, <2>2, BecomeStep
  <1>6. CASE SetMobileTab
    <2>1. PICK t : Become([solve EXCEPT !.tab = t], TRUE)
      BY <1>6 DEF SetMobileTab
    <2>2. PICK s : s = [solve EXCEPT !.tab = t]
      OBVIOUS
    <2>3. Become(s, TRUE)
      BY <2>1, <2>2
    <2> QED BY <1>1, <2>3, BecomeStep
  <1>7. CASE useMediaQuery
    <2>1. PICK s : s = [solve EXCEPT !.split = ~@]
      OBVIOUS
    <2>2. Become(s, FALSE)
      BY <1>7, <2>1 DEF useMediaQuery
    <2> QED BY <1>1, <2>2, BecomeStep
  <1> QED BY <1>2, <1>3, <1>4, <1>5, <1>6, <1>7

LEMMA QuietStep ==
  ASSUME EditorInv, UNCHANGED <<editor, world>>
  PROVE  EditorInv'
  <1>1. UNCHANGED <<ed, drafts, flows, typed, world>>
    BY DEF editor
  <1> QED BY <1>1 DEF EditorInv, EditorTypes, CodeInv, DraftsKept, CodeOf, readDraft,
                      PanelInv, Mine, Single

LEMMA NextEditor ==
  ASSUME EditorInv, [Next]_vars
  PROVE  EditorInv'
  <1>1. CASE Browse
    <2>1. CASE SolveProblem \/ BackToProblems \/ TryAgain \/ SetMobileTab \/ useMediaQuery
      BY <2>1, PageStep
    <2>2. CASE \/ SelectFilter \/ Type \/ clearFilters \/ NextPage \/ PreviousPage \/ Refetch
               \/ OpenScrape \/ SubmitUrl \/ CloseScrape \/ OpenPreview \/ ClosePreview
      <3>1. UNCHANGED <<editor, world>>
        BY <2>2 DEF SelectFilter, Type, clearFilters, NextPage, PreviousPage, Refetch,
                    OpenScrape, SubmitUrl, CloseScrape, OpenPreview, ClosePreview
      <3> QED BY <3>1, QuietStep
    <2> QED BY <1>1, <2>1, <2>2 DEF Browse
  <1>2. CASE Work
    <2>1. CASE setCode
      BY <2>1, EditStep DEF setCode
    <2>2. CASE resetToTemplate
      BY <2>2, EditStep, SolveAssumption DEF resetToTemplate
    <2>3. CASE setLanguageKey
      BY <2>3, LanguageStep
    <2> QED BY <1>2, <2>1, <2>2, <2>3, SlotStep DEF Work
  <1>3. CASE Fail
    <2>1. CASE ScrapeFails
      BY <2>1, QuietStep DEF ScrapeFails
    <2> QED BY <1>3, <2>1, SlotStep DEF Fail
  <1>4. CASE Progress
    <2>1. CASE findProblemById
      BY <2>1, PageStep
    <2>2. CASE useDebouncedValue \/ handleScraped \/ \E k \in Keys : searchProblems(k)
      BY <2>2, QuietStep DEF useDebouncedValue, handleScraped, searchProblems
    <2> QED BY <1>4, <2>1, <2>2, SlotStep DEF Progress
  <1>5. CASE UNCHANGED vars
    BY <1>5, QuietStep DEF vars
  <1> QED BY <1>1, <1>2, <1>3, <1>4, <1>5 DEF Next

(* The editor's state keeps its types, whatever the user does.              *)
THEOREM EditorTypeCorrect == Spec => []EditorTypes
  <1>1. EditorInv => EditorTypes
    BY DEF EditorInv
  <1> QED BY InitEditor, NextEditor, <1>1, PTL DEF Spec

(* No switch of language, tab, layout or page loses what was typed while    *)
(* localStorage works (use-code-drafts.ts 71-102).                          *)
THEOREM DraftsAlwaysKept == Spec => []DraftsKept
  <1>1. EditorInv => DraftsKept
    BY DEF EditorInv, CodeInv
  <1> QED BY InitEditor, NextEditor, <1>1, PTL DEF Spec

(* The panel speaks of its own request alone, however many requests of      *)
(* panels dropped before are still under way (editor-panel.tsx 81-121).     *)
THEOREM PanelAlwaysHonest == Spec => []PanelIsHonest
  <1>1. EditorInv => PanelIsHonest
    BY PanelImplied DEF EditorInv
  <1> QED BY InitEditor, NextEditor, <1>1, PTL DEF Spec

-----------------------------------------------------------------------------
(* The bank's page *)

Lists == [filter : Filters, page : Nat, last : Filters \X Int, typing : BOOLEAN, hasty : BOOLEAN]

(* A page of the filter itself is one that has problems, or the first.      *)
OnPage(l) == l.hasty \/ l.page = 0 \/ l.page < PagesOf[l.filter]
BankInv == list \in Lists /\ OnPage(list)

LEMMA ShowOK ==
  ASSUME NEW l \in Lists, NEW q, Show(l, q), OnPage(l)
  PROVE  BankInv'
  <1>1. list' = [l EXCEPT !.last = Latest(l, q)]
    BY DEF Show
  <1>2. Key(l) \in Filters \X Int
    BY DEF Key, Lists
  <1>3. Latest(l, q) \in Filters \X Int
    BY <1>2 DEF Latest, Lists
  <1> QED BY <1>1, <1>3 DEF BankInv, Lists, OnPage

LEMMA FilterChangedOK ==
  ASSUME BankInv, NEW f \in Filters, NEW typing \in BOOLEAN, FilterChanged(f, typing)
  PROVE  BankInv'
  <1> DEFINE l == [list EXCEPT !.filter = f, !.page = 0, !.typing = typing, !.hasty = FALSE]
  <1>1. l \in Lists /\ OnPage(l)
    BY DEF BankInv, Lists, OnPage
  <1>2. Show(l, Ask(Ask(query, <<f, list.page>>), Key(l)))
    BY DEF FilterChanged
  <1> HIDE DEF l
  <1> QED BY <1>1, <1>2, ShowOK

(* A page is turned by one, and only within the pages of the answer shown.  *)
LEMMA TurnOK ==
  ASSUME BankInv, NEW page \in Nat, Turn(page),
         list.last[1] = list.filter /\ ~list.hasty => page = 0 \/ page < PagesOf[list.filter]
  PROVE  BankInv'
  <1> DEFINE l == [list EXCEPT !.page = page, !.hasty = @ \/ list.last[1] # list.filter]
  <1>1. l \in Lists /\ OnPage(l)
    <2>1. (list.hasty \/ list.last[1] # list.filter) \in BOOLEAN
      OBVIOUS
    <2>2. /\ l.page = page /\ l.filter = list.filter
          /\ l.hasty = (list.hasty \/ list.last[1] # list.filter)
      BY DEF BankInv, Lists
    <2>3. l \in Lists
      BY <2>1 DEF BankInv, Lists
    <2> QED BY <2>2, <2>3 DEF OnPage
  <1>2. Show(l, Ask(query, Key(l)))
    BY DEF Turn
  <1> HIDE DEF l
  <1> QED BY <1>1, <1>2, ShowOK

LEMMA InitBank == Init => BankInv
  BY SolveAssumption DEF Init, BankInv, Lists, OnPage, NoKey

LEMMA NextBank ==
  ASSUME BankInv, [Next]_vars
  PROVE  BankInv'
  <1>1. list \in Lists /\ OnPage(list)
    BY DEF BankInv
  <1>2. CASE UNCHANGED list
    BY <1>2 DEF BankInv, OnPage
  <1>3. CASE SelectFilter
    <2>1. list.typing \in BOOLEAN
      BY <1>1 DEF Lists
    <2> QED BY <1>3, <2>1, FilterChangedOK DEF SelectFilter
  <1>4. CASE Type
    BY <1>1, <1>4 DEF Type, BankInv, Lists, OnPage
  <1>5. CASE clearFilters
    BY <1>5, FilterChangedOK, SolveAssumption DEF clearFilters
  <1>6. CASE useDebouncedValue
    <2>1. CASE Show([list EXCEPT !.typing = FALSE], query)
      <3>1. [list EXCEPT !.typing = FALSE] \in Lists /\ OnPage([list EXCEPT !.typing = FALSE])
        BY <1>1 DEF Lists, OnPage
      <3> QED BY <2>1, <3>1, ShowOK
    <2>2. CASE \E f \in Filters : FilterChanged(f, FALSE)
      BY <2>2, FilterChangedOK
    <2> QED BY <1>6, <2>1, <2>2 DEF useDebouncedValue
  <1>7. CASE NextPage
    <2>1. Turn(list.page + 1) /\ list.page + 1 < PagesOf[list.last[1]] /\ list.page + 1 \in Nat
      BY <1>1, <1>7 DEF NextPage, totalPages, Lists
    <2> QED BY <2>1, TurnOK
  <1>8. CASE PreviousPage
    <2>1. /\ Turn(list.page - 1) /\ list.page - 1 \in Nat
          /\ ~list.hasty => list.page < PagesOf[list.filter]
      BY <1>1, <1>8 DEF PreviousPage, Lists, OnPage
    <2>2. list.page \in Nat /\ PagesOf[list.filter] \in Nat
      BY <1>1, SolveAssumption DEF Lists
    <2> QED BY <2>1, <2>2, TurnOK
  <1>9. CASE Refetch
    BY <1>1, <1>9, ShowOK DEF Refetch
  <1>10. CASE SolveProblem
    BY <1>10, SolveAssumption DEF SolveProblem, BankInv, Lists, OnPage, NoKey
  <1>11. CASE BackToProblems
    BY <1>1, <1>11, ShowOK DEF BackToProblems
  <1>12. CASE \E k \in Keys : searchProblems(k)
    BY <1>1, <1>12, ShowOK DEF searchProblems
  <1>13. CASE OpenScrape \/ SubmitUrl \/ CloseScrape \/ OpenPreview \/ ClosePreview
              \/ handleScraped \/ ScrapeFails
    BY <1>2, <1>13 DEF OpenScrape, SubmitUrl, CloseScrape, OpenPreview, ClosePreview,
                       handleScraped, ScrapeFails
  <1>14. CASE TryAgain \/ SetMobileTab \/ useMediaQuery \/ findProblemById
    BY <1>2, <1>14 DEF TryAgain, SetMobileTab, useMediaQuery, findProblemById, bank
  <1>15. CASE Work
    BY <1>2, <1>15 DEF Work, setCode, resetToTemplate, Edit, setLanguageKey,
                       handleRun, handleSubmit, bank
  <1>16. CASE \E i \in Slots : \/ FlowFails(i) \/ executeBatch(i) \/ executeCode(i)
                               \/ getVerdict(i) \/ submitPracticeAnswer(i)
    BY <1>2, <1>16 DEF FlowFails, executeBatch, executeCode, getVerdict,
                       submitPracticeAnswer, Step, bank
  <1>17. CASE UNCHANGED vars
    BY <1>2, <1>17 DEF vars, bank
  <1> QED BY <1>3, <1>4, <1>5, <1>6, <1>7, <1>8, <1>9, <1>10, <1>11, <1>12, <1>13,
             <1>14, <1>15, <1>16, <1>17 DEF Next, Browse, Fail, Progress

(* "No problems match", said of an answer that is the filter's own and no    *)
(* placeholder, is true of the filter it is shown for, unless pages of       *)
(* another filter's answer were turned (page.tsx 54-72, 205-219).            *)
THEOREM EmptyAlwaysMeansNone == Spec => []EmptyMeansNone
  <1>1. BankInv => EmptyMeansNone
    <2> SUFFICES ASSUME BankInv, EmptyPanel, list.last = Key(list), ~list.hasty
                 PROVE  PagesOf[list.filter] = 0
      BY DEF EmptyMeansNone
    <2>1. list.page = 0 \/ list.page < PagesOf[list.filter]
      BY DEF BankInv, OnPage
    <2>2. ~(list.page < PagesOf[list.filter])
      BY DEF EmptyPanel, Problems, Key
    <2>3. PagesOf[list.filter] \in Nat
      BY SolveAssumption DEF BankInv, Lists
    <2> QED BY <2>1, <2>2, <2>3
  <1> QED BY InitBank, NextBank, <1>1, PTL DEF Spec
=============================================================================
