---------------------------- MODULE EvidenceSync ----------------------------
(***************************************************************************)
(* The evidence a user brings: the list of sources on /onboarding/sync,    *)
(* the connector card of /settings, the requests behind them and the       *)
(* server's evidence service, which works in a goroutine after it has      *)
(* answered.  The page is never told when a source is done: it takes any   *)
(* job's completion for it, or six seconds.                                *)
(*                                                                         *)
(* A source is a slot used once.  A status update and the statement before *)
(* it are one step: nobody reads the row between them.                     *)
(***************************************************************************)
EXTENDS OnboardingTab

CONSTANTS Sources, Uploads  \* bound: sources added, the files among them

ASSUME SourcesAssumption == Sources \subseteq Nat /\ Uploads \subseteq Sources

VARIABLES source,  \* the page's list
          call,    \* the request of a source
          row,     \* evidence_sources and the goroutine working on it
          object,  \* the uploaded object
          jobs,    \* background jobs whose completion is still to come
          card,    \* the connector card of /settings, and localStorage
          hurt     \* history: the server's work was cut short or misreported

evidence == <<source, call, row, object, jobs, card, hurt>>

(* `mine`: the page that added the source is still there, and lists it.    *)
NoSource == [from |-> "none", mine |-> FALSE, status |-> "none", timer |-> FALSE]
NoCall == [op |-> "none", at |-> "none"]
NoRow == [status |-> "none", key |-> FALSE, extract |-> FALSE, step |-> "idle"]
InFlight(st) == st \in {"pending", "fetching", "processing"}
Shown == {s \in Sources : source[s].mine /\ source[s].from = "sync"}

-----------------------------------------------------------------------------
(* The page *)

NotAdded == {s \in Sources : source[s].from = "none"}
nextSourceId(S) == {s \in S \cap NotAdded : \A t \in S \cap NotAdded : s <= t}

Add(S, status, op) ==
  /\ Click
  /\ \E s \in nextSourceId(S) :
       /\ source' = [source EXCEPT ![s] =
            [from |-> page, mine |-> TRUE, status |-> status, timer |-> FALSE]]
       /\ call' = [call EXCEPT ![s] = [op |-> op, at |-> "sent"]]
  /\ UNCHANGED <<page, faults, row, object, jobs, hurt>>

addConnector ==
  page = "sync" /\ Add(Sources \ Uploads, "fetching", "connect") /\ UNCHANGED card

addUpload ==
  page = "sync" /\ Add(Uploads, "pending", "url") /\ UNCHANGED card

(* The form of the card, gone once a record is shown.                      *)
ConnectorForm ==
  /\ page = "settings" /\ ~card.shown /\ ~card.pending
  /\ Add(Sources \ Uploads, "fetching", "connect")
  /\ card' = [card EXCEPT !.pending = TRUE]

handleDisconnect ==
  /\ page = "settings" /\ card.shown /\ Click
  /\ card' = [stored |-> FALSE, shown |-> FALSE, pending |-> FALSE]
  /\ UNCHANGED <<page, faults, source, call, row, object, jobs, hurt>>

removeSource ==
  /\ page = "sync" /\ Click
  /\ \E s \in Shown : source' = [source EXCEPT ![s].mine = FALSE, ![s].timer = FALSE]
  /\ UNCHANGED <<page, faults, call, row, object, jobs, card, hurt>>

ResolveAll ==  \* mutant: whatever their status
  [s \in Sources |-> IF source[s].mine
                     THEN [source[s] EXCEPT !.status = "done", !.timer = FALSE]
                     ELSE source[s]]

(* Every source in flight is taken for done.                               *)
Resolved == [s \in Sources |->
  [source[s] EXCEPT !.timer = FALSE,
                    !.status = IF InFlight(@) /\ source[s].mine THEN "done" ELSE @]]

(* job.completed of any job; with another page nobody listens.             *)
JobCompleted ==
  /\ jobs > 0 /\ jobs' = jobs - 1
  /\ source' = IF page = "sync" THEN Resolved ELSE source
  /\ UNCHANGED <<tab, call, row, object, card, hurt>>

scheduleAssumedDone(s) ==
  /\ source[s].timer
  /\ source' = [source EXCEPT ![s].timer = FALSE,
                              ![s].status = IF InFlight(@) THEN "done" ELSE @]
  /\ UNCHANGED <<tab, call, row, object, jobs, card, hurt>>

summary == [total |-> Cardinality(Shown),
            failed |-> Cardinality({s \in Shown : source[s].status = "failed"})]
canContinue == summary.total > summary.failed

-----------------------------------------------------------------------------
(* The request of a source *)

Following(op) == CASE op = "url" -> "put" [] op = "put" -> "confirm" [] OTHER -> "ended"

Accepted(s) == call[s].op = "confirm" => row[s].status = "pending" /\ row[s].key

(* StartConnectorSource, GeneratePresignedUpload, the PUT to the store,    *)
(* ConfirmUpload.                                                          *)
Effect(s) ==
  CASE call[s].op = "connect" ->
         row' = [row EXCEPT ![s] = [NoRow EXCEPT !.status = "pending", !.step = "mark"]]
         /\ UNCHANGED object
    [] call[s].op = "url" ->
         row' = [row EXCEPT ![s] = [NoRow EXCEPT !.status = "pending", !.key = TRUE]]
         /\ UNCHANGED object
    [] call[s].op = "put" -> object' = [object EXCEPT ![s] = "stored"] /\ UNCHANGED row
    [] call[s].op = "confirm" -> row' = [row EXCEPT ![s].step = "mark"] /\ UNCHANGED object

Serve(s) ==
  /\ call[s].at = "sent"
  /\ \/ /\ Accepted(s) /\ Effect(s) /\ call' = [call EXCEPT ![s].at = "ok"] /\ UNCHANGED faults
     \/ /\ call' = [call EXCEPT ![s].at = "bad"]
        /\ \/ ~Accepted(s) /\ UNCHANGED <<row, object, faults>>
           \/ Fault /\ UNCHANGED <<row, object>>          \* the request is lost
           \/ Fault /\ Accepted(s) /\ Effect(s)           \* its answer is
  /\ UNCHANGED <<page, clicks, source, jobs, card, hurt>>

(* updateSource() finds nothing once the source was removed or its page    *)
(* left; the next request is sent all the same.                            *)
updateSource(s, status, timer) ==
  source' = IF source[s].mine
            THEN [source EXCEPT ![s].status = status, ![s].timer = timer] ELSE source

Answered(s) ==
  LET op == call[s].op
  IN  /\ call[s].at = "ok"
      /\ call' = [call EXCEPT ![s] = IF Following(op) = "ended" THEN [op |-> "ended", at |-> "none"]
                                     ELSE [op |-> Following(op), at |-> "sent"]]
      /\ IF Following(op) = "ended" THEN updateSource(s, "processing", TRUE) ELSE UNCHANGED source
      /\ card' = IF source[s].from # "settings" THEN card
                 ELSE [stored |-> TRUE, shown |-> card.shown \/ source[s].mine,
                       pending |-> card.pending /\ ~source[s].mine]
      /\ UNCHANGED <<tab, row, object, jobs, hurt>>

Refused(s) ==
  /\ call[s].at = "bad"
  /\ call' = [call EXCEPT ![s] = [op |-> "failed", at |-> "none"]]
  /\ updateSource(s, "failed", FALSE)
  /\ card' = IF source[s].from = "settings" /\ source[s].mine
             THEN [card EXCEPT !.pending = FALSE] ELSE card
  /\ UNCHANGED <<tab, row, object, jobs, hurt>>

-----------------------------------------------------------------------------
(* The server: processConnector and processUpload, in their goroutine *)

Running == {s \in Sources : row[s].step \notin {"idle", "ended"}}

PurgeOnSuccess(s) ==  \* mutant: no deferred deletion after a failure
  IF s \in Uploads /\ row[s].step = "enqueue" THEN "purge" ELSE "ended"

(* What is deferred: the deletion of the object.                           *)
Deferred(s) == IF s \in Uploads THEN "purge" ELSE "ended"

(* The row is left as `r` by the statement before.  An error is ignored.   *)
UpdateSourceStatus(s, r, status) ==
  \/ row' = [row EXCEPT ![s] = [r EXCEPT !.status = status]] /\ UNCHANGED <<faults, hurt>>
  \/ Fault /\ row' = [row EXCEPT ![s] = r] /\ hurt' = [hurt EXCEPT ![s] = TRUE]

Mark(s) ==
  /\ row[s].step = "mark"
  /\ UpdateSourceStatus(s, [row[s] EXCEPT !.step = "get"], "fetching")
  /\ UNCHANGED <<page, clicks, source, call, object, jobs, card>>

(* The platform may refuse; the store has the object or fails.             *)
Fetch(s) ==
  /\ row[s].step = "get"
  /\ \/ /\ s \in Uploads => object[s] = "stored"
        /\ UpdateSourceStatus(s, [row[s] EXCEPT !.step = "extract"], "processing")
     \/ UpdateSourceStatus(s, [row[s] EXCEPT !.step = Deferred(s)], "failed")
  /\ UNCHANGED <<page, clicks, source, call, object, jobs, card>>

CreateExtract(s) ==
  /\ row[s].step = "extract"
  /\ \/ UpdateSourceStatus(s, [row[s] EXCEPT !.step = "enqueue", !.extract = TRUE], "done")
     \/ /\ Fault /\ UNCHANGED hurt
        /\ row' = [row EXCEPT ![s].step = Deferred(s), ![s].status = "failed"]
  /\ UNCHANGED <<page, clicks, source, call, object, jobs, card>>

EnqueueHypothesisGeneration(s) ==
  /\ row[s].step = "enqueue"
  /\ row' = [row EXCEPT ![s].step = Deferred(s)]
  /\ \/ jobs' = jobs + 1 /\ UNCHANGED faults
     \/ Fault /\ UNCHANGED jobs
  /\ UNCHANGED <<page, clicks, source, call, object, card, hurt>>

(* The key is cleared even when the object was not deleted.                *)
Purge(s) ==
  /\ row[s].step = "purge"
  /\ \/ /\ object' = [object EXCEPT ![s] = "gone"]
        /\ row' = [row EXCEPT ![s].step = "ended", ![s].key = FALSE]
        /\ UNCHANGED <<faults, hurt>>
     \/ /\ Fault /\ hurt' = [hurt EXCEPT ![s] = TRUE]
        /\ \/ row' = [row EXCEPT ![s].step = "ended", ![s].key = FALSE] /\ UNCHANGED object
           \/ /\ object' = [object EXCEPT ![s] = "gone"]
              /\ row' = [row EXCEPT ![s].step = "ended"]
  /\ UNCHANGED <<page, clicks, source, call, jobs, card>>

(* The server restarts, or the five minutes of one context are over, which *)
(* fails every statement left, the deletion included.                      *)
Abandon ==
  /\ Fault
  /\ \E S \in {Running} \cup {{s} : s \in Running} :
       /\ S # {}
       /\ row' = [s \in Sources |-> IF s \in S THEN [row[s] EXCEPT !.step = "ended"] ELSE row[s]]
       /\ hurt' = [s \in Sources |-> hurt[s] \/ s \in S]
  /\ UNCHANGED <<page, clicks, source, call, object, jobs, card>>

-----------------------------------------------------------------------------
EvidenceInit ==
  /\ source = [s \in Sources |-> NoSource] /\ call = [s \in Sources |-> NoCall]
  /\ row = [s \in Sources |-> NoRow] /\ object = [s \in Sources |-> "none"]
  /\ jobs \in {0, 1}  \* a hint or a roadmap may be under way
  /\ card = [stored |-> FALSE, shown |-> FALSE, pending |-> FALSE]
  /\ hurt = [s \in Sources |-> FALSE]

EvidenceClick == addConnector \/ addUpload \/ ConnectorForm \/ handleDisconnect \/ removeSource
ServeOrAnswer(s) == Serve(s) \/ Answered(s) \/ Refused(s) \/ scheduleAssumedDone(s)
Process(s) == Mark(s) \/ Fetch(s) \/ CreateExtract(s) \/ EnqueueHypothesisGeneration(s) \/ Purge(s)

(* The page goes: its list and the card go with it, the requests go on.    *)
LeaveEvidence ==
  /\ source' = [s \in Sources |-> [source[s] EXCEPT !.mine = FALSE, !.timer = FALSE]]
  /\ card' = [card EXCEPT !.shown = FALSE, !.pending = FALSE]
  /\ UNCHANGED <<call, row, object, jobs, hurt>>

-----------------------------------------------------------------------------
(* Properties *)

(* Whatever the guesses of the page and the events of other jobs, a source *)
(* of the list is shown as failed exactly when one of its own requests     *)
(* failed.                                                                 *)
FailureStays == \A s \in Shown : source[s].status = "failed" <=> call[s].op = "failed"

(* "Zero residual MinIO objects": when the work on a source has ended,     *)
(* unless it was cut short, the row says how, a source that is done has    *)
(* its extract, and neither the object nor its key is left.                *)
NothingResidual ==
  \A s \in Sources : row[s].step = "ended" /\ ~hurt[s] =>
    /\ row[s].status \in {"done", "failed"}
    /\ row[s].status = "done" => row[s].extract
    /\ object[s] # "stored" /\ ~row[s].key
=============================================================================
