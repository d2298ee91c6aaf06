-------------------------- MODULE OnboardingProofs --------------------------
(* Proofs about the evidence a user brings and about the quiz, for any       *)
(* sources, uploads, questions, requests, clicks and faults: the failures    *)
(* and leftovers of sources (EvidenceInv), then the cap and the tally of the *)
(* quiz (QuizInv), each with the navigation beside it.                       *)
EXTENDS Onboarding, FiniteSetTheorems, TLAPS

-----------------------------------------------------------------------------
(* Types *)

Source == [from : Pages \cup {"none"}, mine : BOOLEAN, timer : BOOLEAN,
           status : {"none", "pending", "fetching", "processing", "done", "failed"}]
Call == [op : {"none", "connect", "url", "put", "confirm", "ended", "failed"},
         at : {"none", "sent", "ok", "bad"}]
EvidenceRow == [status : {"none", "pending", "fetching", "processing", "done", "failed"},
                key : BOOLEAN, extract : BOOLEAN,
                step : {"idle", "mark", "get", "extract", "enqueue", "purge", "ended"}]

EvidenceTypes ==
  /\ source \in [Sources -> Source]
  /\ call \in [Sources -> Call]
  /\ row \in [Sources -> EvidenceRow]
  /\ object \in [Sources -> {"none", "stored", "gone"}]
  /\ hurt \in [Sources -> BOOLEAN]

-----------------------------------------------------------------------------
(* What holds of one source *)

(* The page and the request: a failure shown is a failure of the request.   *)
PageSide(s) ==
  /\ source[s].mine => (source[s].status = "failed" <=> call[s].op = "failed")
  /\ call[s].at # "none" => call[s].op \in {"connect", "url", "put", "confirm"}
  /\ source[s].from = "none" => call[s].op = "none" /\ row[s].step = "idle"

(* The request and the server's work: an object is stored before the work   *)
(* on it begins, and only a file has one.                                   *)
RequestSide(s) ==
  /\ call[s].op \in {"url", "put", "confirm"} => s \in Uploads
  /\ call[s].op \in {"url", "put"} \/ (call[s].op = "confirm" /\ call[s].at = "sent") =>
       row[s].step = "idle"
  /\ row[s].key \/ object[s] = "stored" => s \in Uploads

(* The server's work: what each step leaves for the next.                   *)
ServerSide(s) ==
  ~hurt[s] =>
    /\ row[s].step = "enqueue" => row[s].status = "done" /\ row[s].extract
    /\ row[s].step \in {"purge", "ended"} =>
         row[s].status \in {"done", "failed"} /\ (row[s].status = "done" => row[s].extract)
    /\ row[s].step = "ended" => object[s] # "stored" /\ ~row[s].key

SourceInv(s) == PageSide(s) /\ RequestSide(s) /\ ServerSide(s)
EvidenceInv == EvidenceTypes /\ \A s \in Sources : SourceInv(s)

LEMMA Constants ==
  /\ NoSource \in Source /\ NoCall \in Call /\ NoRow \in EvidenceRow
  /\ ~NoSource.mine /\ NoSource.from = "none"
  /\ NoCall.op = "none" /\ NoCall.at = "none"
  /\ NoRow.step = "idle" /\ ~NoRow.key
  BY DEF NoSource, NoCall, NoRow, Source, Call, EvidenceRow, Pages

LEMMA InitEvidence == Init => EvidenceInv
  BY Constants DEF Init, EvidenceInit, EvidenceInv, EvidenceTypes, SourceInv, PageSide,
                   RequestSide, ServerSide

LEMMA EvidenceStutter ==
  ASSUME EvidenceInv, UNCHANGED <<source, call, row, object, hurt>>
  PROVE  EvidenceInv'
  BY DEF EvidenceInv, EvidenceTypes, SourceInv, PageSide, RequestSide, ServerSide

-----------------------------------------------------------------------------
(* The page's steps *)

LEMMA AddOK ==
  ASSUME EvidenceInv, page \in {"sync", "settings"},
         NEW S \in SUBSET Sources, NEW status \in {"pending", "fetching"},
         NEW op \in {"connect", "url"}, op = "url" => S \subseteq Uploads, Add(S, status, op)
  PROVE  EvidenceInv'
  <1>1. PICK t \in nextSourceId(S) :
          /\ source' = [source EXCEPT ![t] =
               [from |-> page, mine |-> TRUE, status |-> status, timer |-> FALSE]]
          /\ call' = [call EXCEPT ![t] = [op |-> op, at |-> "sent"]]
    BY DEF Add
  <1>2. t \in S /\ t \in Sources /\ source[t].from = "none"
    BY <1>1 DEF nextSourceId, NotAdded
  <1>3. row' = row /\ object' = object /\ hurt' = hurt
    BY DEF Add
  <1>4. EvidenceTypes'
    BY <1>1, <1>2, <1>3 DEF EvidenceInv, EvidenceTypes, Source, Call, Pages
  <1>5. /\ source'[t].from # "none" /\ source'[t].status = status /\ call'[t].op = op
        /\ call'[t].at = "sent"
        /\ \A s \in Sources \ {t} : source'[s] = source[s] /\ call'[s] = call[s]
    BY <1>1, <1>2 DEF EvidenceInv, EvidenceTypes
  <1>6. \A s \in Sources : SourceInv(s)'
    <2> SUFFICES ASSUME NEW s \in Sources PROVE SourceInv(s)'
      OBVIOUS
    <2>1. SourceInv(s)
      BY DEF EvidenceInv
    <2>2. CASE s = t
      BY <1>2, <1>3, <1>5, <2>1, <2>2 DEF SourceInv, PageSide, RequestSide, ServerSide
    <2>3. CASE s # t
      BY <1>3, <1>5, <2>1, <2>3 DEF SourceInv, PageSide, RequestSide, ServerSide
    <2> QED BY <2>2, <2>3
  <1> QED BY <1>4, <1>6 DEF EvidenceInv

(* The steps that change what the page shows of its sources and nothing     *)
(* else: guesses that one in flight is done, and pages or sources that go.  *)
LEMMA ShownOK ==
  ASSUME EvidenceInv, UNCHANGED <<call, row, object, hurt>>,
         source' \in [Sources -> Source],
         \A s \in Sources : /\ source'[s].from = source[s].from
                            /\ source'[s].mine => source[s].mine
                            /\ \/ source'[s].status = source[s].status
                               \/ InFlight(source[s].status) /\ source'[s].status = "done"
  PROVE  EvidenceInv'
  <1>1. EvidenceTypes'
    BY DEF EvidenceInv, EvidenceTypes
  <1>2. \A s \in Sources : SourceInv(s)'
    BY DEF EvidenceInv, SourceInv, PageSide, RequestSide, ServerSide, InFlight
  <1> QED BY <1>1, <1>2 DEF EvidenceInv

LEMMA PageOK ==
  ASSUME EvidenceInv,
         EvidenceClick \/ JobCompleted \/ LeaveEvidence
           \/ \E s \in Sources : scheduleAssumedDone(s)
  PROVE  EvidenceInv'
  <1>1. source \in [Sources -> Source]
    BY DEF EvidenceInv, EvidenceTypes
  <1>2. CASE addConnector \/ addUpload \/ ConnectorForm
    <2>1. Sources \ Uploads \in SUBSET Sources /\ Uploads \in SUBSET Sources
      BY SourcesAssumption
    <2>2. \/ page \in {"sync", "settings"} /\ Add(Sources \ Uploads, "fetching", "connect")
          \/ page \in {"sync", "settings"} /\ Add(Uploads, "pending", "url")
      BY <1>2 DEF addConnector, addUpload, ConnectorForm
    <2> QED BY <2>1, <2>2, AddOK
  <1>3. CASE handleDisconnect
    BY <1>3, EvidenceStutter DEF handleDisconnect
  <1>4. CASE removeSource
    <2>1. PICK t \in Shown : source' = [source EXCEPT ![t].mine = FALSE, ![t].timer = FALSE]
      BY <1>4 DEF removeSource
    <2>2. UNCHANGED <<call, row, object, hurt>>
      BY <1>4 DEF removeSource
    <2>3. source' \in [Sources -> Source]
      BY <1>1, <2>1 DEF Source
    <2>4. \A s \in Sources : /\ source'[s].from = source[s].from
                             /\ source'[s].mine => source[s].mine
                             /\ source'[s].status = source[s].status
      BY <1>1, <2>1 DEF Source
    <2> QED BY <2>2, <2>3, <2>4, ShownOK
  <1>5. CASE JobCompleted
    <2>1. UNCHANGED <<call, row, object, hurt>> /\ source' \in {source, Resolved}
      BY <1>5 DEF JobCompleted
    <2>2. Resolved \in [Sources -> Source]
      BY <1>1 DEF Resolved, Source
    <2>3. \A s \in Sources : /\ Resolved[s].from = source[s].from
                             /\ Resolved[s].mine = source[s].mine
                             /\ \/ Resolved[s].status = source[s].status
                                \/ InFlight(source[s].status) /\ Resolved[s].status = "done"
      BY <1>1 DEF Resolved, Source
    <2>4. CASE source' = source
      BY <2>1, <2>4, EvidenceStutter
    <2>5. CASE source' = Resolved
      BY <2>1, <2>2, <2>3, <2>5, ShownOK
    <2> QED BY <2>1, <2>4, <2>5
  <1>6. CASE LeaveEvidence
    <2>1. UNCHANGED <<call, row, object, hurt>>
      BY <1>6 DEF LeaveEvidence
    <2>2. source' = [s \in Sources |-> [source[s] EXCEPT !.mine = FALSE, !.timer = FALSE]]
      BY <1>6 DEF LeaveEvidence
    <2>3. source' \in [Sources -> Source]
      BY <1>1, <2>2 DEF Source
    <2>4. \A s \in Sources : /\ source'[s].from = source[s].from
                             /\ source'[s].mine => source[s].mine
                             /\ source'[s].status = source[s].status
      BY <1>1, <2>2 DEF Source
    <2> QED BY <2>1, <2>3, <2>4, ShownOK
  <1>7. CASE \E s \in Sources : scheduleAssumedDone(s)
    <2>1. PICK t \in Sources : scheduleAssumedDone(t)
      BY <1>7
    <2>2. /\ UNCHANGED <<call, row, object, hurt>>
          /\ source' = [source EXCEPT ![t].timer = FALSE,
                                      ![t].status = IF InFlight(@) THEN "done" ELSE @]
      BY <2>1 DEF scheduleAssumedDone
    <2>3. source' \in [Sources -> Source]
      BY <1>1, <2>2, ZenonT(40) DEF Source
    <2>4. \A s \in Sources : /\ source'[s].from = source[s].from
                             /\ source'[s].mine => source[s].mine
                             /\ \/ source'[s].status = source[s].status
                                \/ InFlight(source[s].status) /\ source'[s].status = "done"
      BY <1>1, <2>2 DEF Source
    <2> QED BY <2>2, <2>3, <2>4, ShownOK
  <1> QED BY <1>2, <1>3, <1>4, <1>5, <1>6, <1>7 DEF EvidenceClick

-----------------------------------------------------------------------------
(* The requests of a source *)

(* A step of one source: its invariant is all there is to show.             *)
LEMMA OneSource ==
  ASSUME EvidenceInv, NEW t \in Sources, EvidenceTypes',
         \A s \in Sources \ {t} : /\ source'[s] = source[s] /\ call'[s] = call[s]
                                  /\ row'[s] = row[s] /\ object'[s] = object[s]
                                  /\ hurt'[s] = hurt[s],
         SourceInv(t)'
  PROVE  EvidenceInv'
  <1> SUFFICES ASSUME NEW s \in Sources, s # t PROVE SourceInv(s)'
    BY DEF EvidenceInv
  <1> QED BY DEF EvidenceInv, SourceInv, PageSide, RequestSide, ServerSide

LEMMA EffectOK ==
  ASSUME EvidenceInv, NEW t \in Sources, call[t].at = "sent", Effect(t),
         NEW at \in {"ok", "bad"}, call' = [call EXCEPT ![t].at = at],
         UNCHANGED <<source, hurt>>
  PROVE  EvidenceInv'
  <1>1. EvidenceTypes /\ SourceInv(t)
    BY DEF EvidenceInv
  <1>2. call[t].op \in {"connect", "url", "put", "confirm"}
    BY <1>1 DEF SourceInv, PageSide
  <1>3. /\ call'[t].op = call[t].op /\ call'[t].at = at
        /\ call' \in [Sources -> Call]
        /\ \A s \in Sources \ {t} : call'[s] = call[s]
    BY <1>1 DEF EvidenceTypes, Call
  <1>4. CASE call[t].op = "connect"
    <2>1. row' = [row EXCEPT ![t] = [NoRow EXCEPT !.status = "pending", !.step = "mark"]]
          /\ object' = object
      BY <1>4 DEF Effect
    <2>2. /\ row'[t].step = "mark" /\ ~row'[t].key /\ row' \in [Sources -> EvidenceRow]
          /\ \A s \in Sources \ {t} : row'[s] = row[s]
      BY <1>1, <2>1, Constants DEF EvidenceTypes, EvidenceRow, NoRow
    <2>3. SourceInv(t)'
      BY <1>1, <1>3, <1>4, <2>1, <2>2 DEF SourceInv, PageSide, RequestSide, ServerSide
    <2> QED BY <1>1, <1>3, <2>1, <2>2, <2>3, OneSource DEF EvidenceTypes
  <1>5. CASE call[t].op = "url"
    <2>1. row' = [row EXCEPT ![t] = [NoRow EXCEPT !.status = "pending", !.key = TRUE]]
          /\ object' = object
      BY <1>5 DEF Effect
    <2>2. /\ row'[t].step = "idle" /\ row' \in [Sources -> EvidenceRow]
          /\ \A s \in Sources \ {t} : row'[s] = row[s]
      BY <1>1, <2>1, Constants DEF EvidenceTypes, EvidenceRow, NoRow
    <2>3. SourceInv(t)'
      BY <1>1, <1>3, <1>5, <2>1, <2>2 DEF SourceInv, PageSide, RequestSide, ServerSide
    <2> QED BY <1>1, <1>3, <2>1, <2>2, <2>3, OneSource DEF EvidenceTypes
  <1>6. CASE call[t].op = "put"
    <2>1. object' = [object EXCEPT ![t] = "stored"] /\ row' = row
      BY <1>6 DEF Effect
    <2>2. /\ object' \in [Sources -> {"none", "stored", "gone"}]
          /\ \A s \in Sources \ {t} : object'[s] = object[s]
      BY <1>1, <2>1 DEF EvidenceTypes
    <2>3. SourceInv(t)'
      BY <1>1, <1>3, <1>6, <2>1, <2>2 DEF SourceInv, PageSide, RequestSide, ServerSide
    <2> QED BY <1>1, <1>3, <2>1, <2>2, <2>3, OneSource DEF EvidenceTypes
  <1>7. CASE call[t].op = "confirm"
    <2>1. row' = [row EXCEPT ![t].step = "mark"] /\ object' = object
      BY <1>7 DEF Effect
    <2>2. /\ row'[t].step = "mark" /\ row' \in [Sources -> EvidenceRow] /\ row'[t].key = row[t].key
          /\ \A s \in Sources \ {t} : row'[s] = row[s]
      BY <1>1, <2>1 DEF EvidenceTypes, EvidenceRow
    <2>3. SourceInv(t)'
      BY <1>1, <1>3, <1>7, <2>1, <2>2 DEF SourceInv, PageSide, RequestSide, ServerSide
    <2> QED BY <1>1, <1>3, <2>1, <2>2, <2>3, OneSource DEF EvidenceTypes
  <1> QED BY <1>2, <1>4, <1>5, <1>6, <1>7

LEMMA ServeOK ==
  ASSUME EvidenceInv, NEW t \in Sources, Serve(t)
  PROVE  EvidenceInv'
  <1>1. call[t].at = "sent" /\ UNCHANGED <<source, hurt>>
    BY DEF Serve
  <1>2. PICK at \in {"ok", "bad"} : call' = [call EXCEPT ![t].at = at]
    BY DEF Serve
  <1>3. CASE Effect(t)
    BY <1>1, <1>2, <1>3, EffectOK
  <1>4. CASE UNCHANGED <<row, object>>
    <2>1. EvidenceTypes /\ SourceInv(t)
      BY DEF EvidenceInv
    <2>2. /\ call'[t].op = call[t].op /\ call'[t].at = at
          /\ call' \in [Sources -> Call]
          /\ \A s \in Sources \ {t} : call'[s] = call[s]
      BY <1>2, <2>1 DEF EvidenceTypes, Call
    <2>3. SourceInv(t)'
      BY <1>1, <1>4, <2>1, <2>2 DEF SourceInv, PageSide, RequestSide, ServerSide
    <2> QED BY <1>1, <1>4, <2>1, <2>2, <2>3, OneSource DEF EvidenceTypes
  <1> QED BY <1>3, <1>4 DEF Serve

LEMMA UpdateSourceType ==
  ASSUME EvidenceTypes, NEW t \in Sources, NEW status \in {"processing", "failed"},
         NEW timer \in BOOLEAN, updateSource(t, status, timer)
  PROVE  /\ source' \in [Sources -> Source]
         /\ \A s \in Sources \ {t} : source'[s] = source[s]
         /\ source'[t].from = source[t].from /\ source'[t].mine = source[t].mine
         /\ source[t].mine => source'[t].status = status
  <1>1. CASE source[t].mine
    <2>1. source' = [source EXCEPT ![t].status = status, ![t].timer = timer]
      BY <1>1 DEF updateSource
    <2> QED BY <1>1, <2>1 DEF EvidenceTypes, Source
  <1>2. CASE ~source[t].mine
    BY <1>2 DEF EvidenceTypes, updateSource
  <1> QED BY <1>1, <1>2

LEMMA AnsweredOK ==
  ASSUME EvidenceInv, NEW t \in Sources, Answered(t)
  PROVE  EvidenceInv'
  <1>1. EvidenceTypes /\ SourceInv(t) /\ call[t].at = "ok"
    BY DEF EvidenceInv, Answered
  <1>2. UNCHANGED <<row, object, hurt>>
    BY DEF Answered
  <1>3. call[t].op \in {"connect", "url", "put", "confirm"}
    BY <1>1 DEF SourceInv, PageSide
  <1>4. CASE call[t].op \in {"url", "put"}
    <2>1. /\ call' = [call EXCEPT ![t] = [op |-> Following(call[t].op), at |-> "sent"]]
          /\ source' = source
          /\ Following(call[t].op) \in {"put", "confirm"}
      BY <1>4 DEF Answered, Following
    <2>2. /\ call'[t].op \in {"put", "confirm"} /\ call'[t].at = "sent"
          /\ call' \in [Sources -> Call]
          /\ \A s \in Sources \ {t} : call'[s] = call[s]
      BY <1>1, <2>1 DEF EvidenceTypes, Call
    <2>3. SourceInv(t)'
      BY <1>1, <1>2, <1>4, <2>1, <2>2 DEF SourceInv, PageSide, RequestSide, ServerSide
    <2> QED BY <1>1, <1>2, <2>1, <2>2, <2>3, OneSource DEF EvidenceTypes
  <1>5. CASE call[t].op \in {"connect", "confirm"}
    <2>1. /\ call' = [call EXCEPT ![t] = [op |-> "ended", at |-> "none"]]
          /\ updateSource(t, "processing", TRUE)
      BY <1>5 DEF Answered, Following
    <2>2. /\ call'[t].op = "ended" /\ call'[t].at = "none"
          /\ call' \in [Sources -> Call]
          /\ \A s \in Sources \ {t} : call'[s] = call[s]
      BY <1>1, <2>1 DEF EvidenceTypes, Call
    <2>3. /\ source' \in [Sources -> Source]
          /\ \A s \in Sources \ {t} : source'[s] = source[s]
          /\ source'[t].from = source[t].from /\ source'[t].mine = source[t].mine
          /\ source[t].mine => source'[t].status = "processing"
      BY <1>1, <2>1, UpdateSourceType
    <2>4. SourceInv(t)'
      BY <1>1, <1>2, <1>5, <2>2, <2>3 DEF SourceInv, PageSide, RequestSide, ServerSide
    <2> QED BY <1>1, <1>2, <2>2, <2>3, <2>4, OneSource DEF EvidenceTypes
  <1> QED BY <1>3, <1>4, <1>5

LEMMA RefusedOK ==
  ASSUME EvidenceInv, NEW t \in Sources, Refused(t)
  PROVE  EvidenceInv'
  <1>1. EvidenceTypes /\ SourceInv(t) /\ call[t].at = "bad"
    BY DEF EvidenceInv, Refused
  <1>2. /\ UNCHANGED <<row, object, hurt>>
        /\ call' = [call EXCEPT ![t] = [op |-> "failed", at |-> "none"]]
        /\ updateSource(t, "failed", FALSE)
    BY DEF Refused
  <1>3. /\ call'[t].op = "failed" /\ call'[t].at = "none"
        /\ call' \in [Sources -> Call]
        /\ \A s \in Sources \ {t} : call'[s] = call[s]
    BY <1>1, <1>2 DEF EvidenceTypes, Call
  <1>4. /\ source' \in [Sources -> Source]
        /\ \A s \in Sources \ {t} : source'[s] = source[s]
        /\ source'[t].from = source[t].from /\ source'[t].mine = source[t].mine
        /\ source[t].mine => source'[t].status = "failed"
    BY <1>1, <1>2, UpdateSourceType
  <1>5. SourceInv(t)'
    BY <1>1, <1>2, <1>3, <1>4 DEF SourceInv, PageSide, RequestSide, ServerSide
  <1> QED BY <1>1, <1>2, <1>3, <1>4, <1>5, OneSource DEF EvidenceTypes

-----------------------------------------------------------------------------
(* The server's work *)

(* A step of the work on one source: its row becomes `r`, and nothing of    *)
(* the page or its request changes.                                         *)
LEMMA WorkOK ==
  ASSUME EvidenceInv, NEW t \in Sources, NEW r \in EvidenceRow, NEW h \in BOOLEAN,
         row' = [row EXCEPT ![t] = r], hurt' = [hurt EXCEPT ![t] = h],
         object' \in [Sources -> {"none", "stored", "gone"}],
         \A s \in Sources \ {t} : object'[s] = object[s],
         UNCHANGED <<source, call>>,
         row[t].step \notin {"idle", "ended"}, r.key => row[t].key,
         object'[t] = "stored" => object[t] = "stored",
         ~h => /\ r.step = "enqueue" => r.status = "done" /\ r.extract
               /\ r.step \in {"purge", "ended"} =>
                    r.status \in {"done", "failed"} /\ (r.status = "done" => r.extract)
               /\ r.step = "ended" => object'[t] # "stored" /\ ~r.key
  PROVE  EvidenceInv'
  <1>1. EvidenceTypes /\ SourceInv(t)
    BY DEF EvidenceInv
  <1>2. /\ row'[t] = r /\ hurt'[t] = h
        /\ \A s \in Sources \ {t} : row'[s] = row[s] /\ hurt'[s] = hurt[s]
        /\ EvidenceTypes'
    BY <1>1 DEF EvidenceTypes
  <1>3. SourceInv(t)'
    BY <1>1, <1>2 DEF SourceInv, PageSide, RequestSide, ServerSide
  <1> QED BY <1>2, <1>3, OneSource

(* UpdateSourceStatus leaves the row as it was asked to, or harm.           *)
LEMMA UpdateOK ==
  ASSUME EvidenceInv, NEW t \in Sources, NEW r \in EvidenceRow,
         NEW status \in {"fetching", "processing", "done", "failed"},
         UpdateSourceStatus(t, r, status), UNCHANGED <<source, call, object>>,
         row[t].step \notin {"idle", "ended"}, r.key => row[t].key,
         r.step = "enqueue" => status = "done" /\ r.extract,
         r.step \in {"purge", "ended"} => status = "failed",
         r.step = "ended" => t \notin Uploads
  PROVE  EvidenceInv'
  <1>1. EvidenceTypes /\ SourceInv(t)
    BY DEF EvidenceInv
  <1>2. r.step = "ended" => object[t] # "stored" /\ ~r.key
    BY <1>1 DEF SourceInv, RequestSide
  <1>3. CASE row' = [row EXCEPT ![t] = [r EXCEPT !.status = status]] /\ UNCHANGED <<faults, hurt>>
    <2>1. PICK q : q = [r EXCEPT !.status = status]
      OBVIOUS
    <2>2. /\ q \in EvidenceRow /\ q.status = status /\ q.step = r.step /\ q.key = r.key
          /\ q.extract = r.extract
      BY <2>1 DEF EvidenceRow
    <2>3. row' = [row EXCEPT ![t] = q] /\ hurt' = [hurt EXCEPT ![t] = hurt[t]]
      BY <1>1, <1>3, <2>1 DEF EvidenceTypes
    <2>4. hurt[t] \in BOOLEAN
      BY <1>1 DEF EvidenceTypes
    <2> QED BY <1>1, <1>2, <2>2, <2>3, <2>4, WorkOK DEF EvidenceTypes
  <1>4. CASE row' = [row EXCEPT ![t] = r] /\ hurt' = [hurt EXCEPT ![t] = TRUE]
    BY <1>1, <1>4, WorkOK DEF EvidenceTypes
  <1> QED BY <1>3, <1>4 DEF UpdateSourceStatus

LEMMA DeferredIs ==
  ASSUME NEW t \in Sources
  PROVE  Deferred(t) = IF t \in Uploads THEN "purge" ELSE "ended"
  BY DEF Deferred

LEMMA ProcessOK ==
  ASSUME EvidenceInv, NEW t \in Sources, Process(t)
  PROVE  EvidenceInv'
  <1>1. EvidenceTypes /\ SourceInv(t) /\ row[t] \in EvidenceRow
    BY DEF EvidenceInv, EvidenceTypes
  <1>2. CASE Mark(t)
    <2>1. PICK r : r = [row[t] EXCEPT !.step = "get"]
      OBVIOUS
    <2>2. r \in EvidenceRow /\ r.step = "get" /\ r.key = row[t].key
      BY <1>1, <2>1 DEF EvidenceRow
    <2>3. UpdateSourceStatus(t, r, "fetching") /\ UNCHANGED <<source, call, object>>
          /\ row[t].step = "mark"
      BY <1>2, <2>1 DEF Mark
    <2> QED BY <2>2, <2>3, UpdateOK
  <1>3. CASE Fetch(t)
    <2>1. row[t].step = "get" /\ UNCHANGED <<source, call, object>>
      BY <1>3 DEF Fetch
    <2>2. CASE UpdateSourceStatus(t, [row[t] EXCEPT !.step = "extract"], "processing")
      <3>1. PICK r : r = [row[t] EXCEPT !.step = "extract"]
        OBVIOUS
      <3>2. r \in EvidenceRow /\ r.step = "extract" /\ r.key = row[t].key
        BY <1>1, <3>1 DEF EvidenceRow
      <3>3. UpdateSourceStatus(t, r, "processing")
        BY <2>2, <3>1
      <3> QED BY <2>1, <3>2, <3>3, UpdateOK
    <2>3. CASE UpdateSourceStatus(t, [row[t] EXCEPT !.step = Deferred(t)], "failed")
      <3>1. PICK r : r = [row[t] EXCEPT !.step = Deferred(t)]
        OBVIOUS
      <3>2. /\ r \in EvidenceRow /\ r.key = row[t].key
            /\ r.step = IF t \in Uploads THEN "purge" ELSE "ended"
        BY <1>1, <3>1, DeferredIs DEF EvidenceRow
      <3>3. UpdateSourceStatus(t, r, "failed")
        BY <2>3, <3>1
      <3> QED BY <2>1, <3>2, <3>3, UpdateOK
    <2> QED BY <1>3, <2>2, <2>3 DEF Fetch
  <1>4. CASE CreateExtract(t)
    <2>1. row[t].step = "extract" /\ UNCHANGED <<source, call, object>>
      BY <1>4 DEF CreateExtract
    <2>2. CASE UpdateSourceStatus(t, [row[t] EXCEPT !.step = "enqueue", !.extract = TRUE], "done")
      <3>1. PICK r : r = [row[t] EXCEPT !.step = "enqueue", !.extract = TRUE]
        OBVIOUS
      <3>2. r \in EvidenceRow /\ r.step = "enqueue" /\ r.key = row[t].key /\ r.extract
        BY <1>1, <3>1 DEF EvidenceRow
      <3>3. UpdateSourceStatus(t, r, "done")
        BY <2>2, <3>1
      <3> QED BY <2>1, <3>2, <3>3, UpdateOK
    <2>3. CASE /\ hurt' = hurt
               /\ row' = [row EXCEPT ![t].step = Deferred(t), ![t].status = "failed"]
      <3>1. PICK r : r = [row[t] EXCEPT !.step = Deferred(t), !.status = "failed"]
        OBVIOUS
      <3>2. /\ r \in EvidenceRow /\ r.key = row[t].key /\ r.status = "failed"
            /\ r.step = IF t \in Uploads THEN "purge" ELSE "ended"
        BY <1>1, <3>1, DeferredIs DEF EvidenceRow
      <3>3. row' = [row EXCEPT ![t] = r]
        BY <1>1, <2>3, <3>1 DEF EvidenceTypes, EvidenceRow
      <3>4. hurt' = [hurt EXCEPT ![t] = hurt[t]] /\ hurt[t] \in BOOLEAN
        BY <1>1, <2>3 DEF EvidenceTypes
      <3>5. r.step = "ended" => object[t] # "stored" /\ ~r.key
        BY <1>1, <3>2 DEF SourceInv, RequestSide
      <3> QED BY <1>1, <2>1, <3>2, <3>3, <3>4, <3>5, WorkOK DEF EvidenceTypes
    <2> QED BY <1>4, <2>2, <2>3 DEF CreateExtract
  <1>5. CASE EnqueueHypothesisGeneration(t)
    <2>1. /\ row[t].step = "enqueue" /\ UNCHANGED <<source, call, object, hurt>>
          /\ row' = [row EXCEPT ![t].step = Deferred(t)]
      BY <1>5 DEF EnqueueHypothesisGeneration
    <2>2. PICK r : r = [row[t] EXCEPT !.step = Deferred(t)]
      OBVIOUS
    <2>3. /\ r \in EvidenceRow /\ r.key = row[t].key /\ r.status = row[t].status
          /\ r.extract = row[t].extract
          /\ r.step = IF t \in Uploads THEN "purge" ELSE "ended"
      BY <1>1, <2>2, DeferredIs DEF EvidenceRow
    <2>4. row' = [row EXCEPT ![t] = r]
      BY <1>1, <2>1, <2>2 DEF EvidenceTypes, EvidenceRow
    <2>5. hurt' = [hurt EXCEPT ![t] = hurt[t]] /\ hurt[t] \in BOOLEAN
      BY <1>1, <2>1 DEF EvidenceTypes
    <2>6. r.step = "ended" => object[t] # "stored" /\ ~r.key
      BY <1>1, <2>3 DEF SourceInv, RequestSide
    <2>7. ~hurt[t] => r.status = "done" /\ r.extract
      BY <1>1, <2>1, <2>3 DEF SourceInv, ServerSide
    <2>8. /\ object' \in [Sources -> {"none", "stored", "gone"}]
          /\ \A s \in Sources \ {t} : object'[s] = object[s]
      BY <1>1, <2>1 DEF EvidenceTypes
    <2>9. /\ r.step # "enqueue"
          /\ object'[t] = object[t] /\ row[t].step \notin {"idle", "ended"}
      BY <2>1, <2>3
    <2>10. /\ UNCHANGED <<source, call>> /\ (r.key => row[t].key)
           /\ object'[t] = "stored" => object[t] = "stored"
           /\ ~hurt[t] =>
                /\ r.step = "enqueue" => r.status = "done" /\ r.extract
                /\ r.step \in {"purge", "ended"} =>
                     r.status \in {"done", "failed"} /\ (r.status = "done" => r.extract)
                /\ r.step = "ended" => object'[t] # "stored" /\ ~r.key
      BY <2>1, <2>3, <2>6, <2>7, <2>9
    <2> QED BY <2>3, <2>4, <2>5, <2>8, <2>9, <2>10, WorkOK
  <1>6. CASE Purge(t)
    <2>1. row[t].step = "purge" /\ UNCHANGED <<source, call>>
      BY <1>6 DEF Purge
    <2>2. CASE /\ object' = [object EXCEPT ![t] = "gone"] /\ hurt' = hurt
               /\ row' = [row EXCEPT ![t].step = "ended", ![t].key = FALSE]
      <3>1. PICK r : r = [row[t] EXCEPT !.step = "ended", !.key = FALSE]
        OBVIOUS
      <3>2. /\ r \in EvidenceRow /\ ~r.key /\ r.step = "ended" /\ r.status = row[t].status
            /\ r.extract = row[t].extract
        BY <1>1, <3>1 DEF EvidenceRow
      <3>3. row' = [row EXCEPT ![t] = r]
        BY <1>1, <2>2, <3>1 DEF EvidenceTypes, EvidenceRow
      <3>4. hurt' = [hurt EXCEPT ![t] = hurt[t]] /\ hurt[t] \in BOOLEAN
        BY <1>1, <2>2 DEF EvidenceTypes
      <3>5. /\ object' \in [Sources -> {"none", "stored", "gone"}] /\ object'[t] = "gone"
            /\ \A s \in Sources \ {t} : object'[s] = object[s]
        BY <1>1, <2>2 DEF EvidenceTypes
      <3>6. ~hurt[t] => r.status \in {"done", "failed"} /\ (r.status = "done" => r.extract)
        BY <1>1, <2>1, <3>2 DEF SourceInv, ServerSide
      <3> QED BY <2>1, <3>2, <3>3, <3>4, <3>5, <3>6, WorkOK
    <2>3. CASE /\ hurt' = [hurt EXCEPT ![t] = TRUE] /\ object' = object
               /\ row' = [row EXCEPT ![t].step = "ended", ![t].key = FALSE]
      <3>1. PICK r : r = [row[t] EXCEPT !.step = "ended", !.key = FALSE]
        OBVIOUS
      <3>2. r \in EvidenceRow /\ ~r.key
        BY <1>1, <3>1 DEF EvidenceRow
      <3>3. row' = [row EXCEPT ![t] = r]
        BY <1>1, <2>3, <3>1 DEF EvidenceTypes, EvidenceRow
      <3>4. /\ object' \in [Sources -> {"none", "stored", "gone"}] /\ object'[t] = object[t]
            /\ \A s \in Sources \ {t} : object'[s] = object[s]
        BY <1>1, <2>3 DEF EvidenceTypes
      <3>5. PICK h \in BOOLEAN : h /\ hurt' = [hurt EXCEPT ![t] = h]
        BY <2>3
      <3>6. row[t].step \notin {"idle", "ended"} /\ (r.key => row[t].key)
        BY <2>1, <3>2
      <3> QED BY <2>1, <3>2, <3>3, <3>4, <3>5, <3>6, WorkOK
    <2>4. CASE /\ hurt' = [hurt EXCEPT ![t] = TRUE]
               /\ object' = [object EXCEPT ![t] = "gone"]
               /\ row' = [row EXCEPT ![t].step = "ended"]
      <3>1. PICK r : r = [row[t] EXCEPT !.step = "ended"]
        OBVIOUS
      <3>2. r \in EvidenceRow /\ r.key = row[t].key
        BY <1>1, <3>1 DEF EvidenceRow
      <3>3. row' = [row EXCEPT ![t] = r]
        BY <1>1, <2>4, <3>1 DEF EvidenceTypes, EvidenceRow
      <3>4. /\ object' \in [Sources -> {"none", "stored", "gone"}] /\ object'[t] = "gone"
            /\ \A s \in Sources \ {t} : object'[s] = object[s]
        BY <1>1, <2>4 DEF EvidenceTypes
      <3> QED BY <2>1, <2>4, <3>2, <3>3, <3>4, WorkOK, ZenonT(40)
    <2> QED BY <1>6, <2>2, <2>3, <2>4 DEF Purge
  <1> QED BY <1>2, <1>3, <1>4, <1>5, <1>6 DEF Process

(* A restart ends the work on several sources, and it shows.                *)
LEMMA AbandonOK ==
  ASSUME EvidenceInv, Abandon
  PROVE  EvidenceInv'
  <1>1. PICK S \in {Running} \cup {{s} : s \in Running} :
          /\ row' = [s \in Sources |-> IF s \in S THEN [row[s] EXCEPT !.step = "ended"] ELSE row[s]]
          /\ hurt' = [s \in Sources |-> hurt[s] \/ s \in S]
    BY DEF Abandon
  <1>2. UNCHANGED <<source, call, object>> /\ S \subseteq Running
    BY <1>1 DEF Abandon
  <1>3. EvidenceTypes'
    <2>1. row' \in [Sources -> EvidenceRow]
      BY <1>1 DEF EvidenceInv, EvidenceTypes, EvidenceRow
    <2>2. hurt' \in [Sources -> BOOLEAN]
      BY <1>1 DEF EvidenceInv, EvidenceTypes
    <2> QED BY <1>2, <2>1, <2>2 DEF EvidenceInv, EvidenceTypes
  <1>4. \A s \in Sources : SourceInv(s)'
    <2> SUFFICES ASSUME NEW s \in Sources PROVE SourceInv(s)'
      OBVIOUS
    <2>1. SourceInv(s) /\ row[s] \in EvidenceRow
      BY DEF EvidenceInv, EvidenceTypes
    <2>2. CASE s \in S
      <3>1. /\ row'[s].key = row[s].key /\ hurt'[s]
            /\ row[s].step \notin {"idle", "ended"}
        BY <1>1, <1>2, <2>1, <2>2 DEF Running, EvidenceRow
      <3> QED BY <1>2, <2>1, <3>1 DEF SourceInv, PageSide, RequestSide, ServerSide
    <2>3. CASE s \notin S
      <3>1. row'[s] = row[s] /\ (~hurt'[s] => ~hurt[s])
        BY <1>1, <2>3 DEF EvidenceInv, EvidenceTypes
      <3> QED BY <1>2, <2>1, <3>1 DEF SourceInv, PageSide, RequestSide, ServerSide
    <2> QED BY <2>2, <2>3
  <1> QED BY <1>3, <1>4 DEF EvidenceInv

-----------------------------------------------------------------------------
LEMMA NextEvidence ==
  ASSUME EvidenceInv, [Next]_vars
  PROVE  EvidenceInv'
  <1>1. CASE \E s \in Sources : ServeOrAnswer(s) \/ Process(s)
    <2>1. PICK s \in Sources : ServeOrAnswer(s) \/ Process(s)
      BY <1>1
    <2> QED BY <2>1, ServeOK, AnsweredOK, RefusedOK, PageOK, ProcessOK DEF ServeOrAnswer
  <1>2. CASE JobCompleted \/ EvidenceClick
    BY <1>2, PageOK
  <1>3. CASE Abandon
    BY <1>3, AbandonOK
  <1>4. CASE Done \/ GenerateSucceeds \/ Follow \/ SkipUnstarted \/ SignedOut
    <2>1. LeaveEvidence
      BY <1>4 DEF Done, GenerateSucceeds, Follow, SkipUnstarted, SignedOut, Move
    <2> QED BY <2>1, PageOK
  <1>5. CASE UNCHANGED evidence
    BY <1>5, EvidenceStutter DEF evidence
  <1>6. CASE UNCHANGED vars
    BY <1>6, EvidenceStutter DEF vars, evidence
  <1> QED BY <1>1, <1>2, <1>3, <1>4, <1>5, <1>6 DEF Next, Progress

(* The page shows a source as failed exactly when its own request failed,   *)
(* whatever completions of other jobs arrive (use-evidence-sync.ts 89-160). *)
THEOREM FailureAlwaysStays == Spec => []FailureStays
  <1>1. EvidenceInv => FailureStays
    BY DEF EvidenceInv, SourceInv, PageSide, FailureStays, Shown
  <1> QED BY InitEvidence, NextEvidence, <1>1, PTL DEF Spec

(* No object, key or missing extract is left when the work on a source ends *)
(* without being cut short (service.go 84-123, 176-222).                    *)
THEOREM NothingLeft == Spec => []NothingResidual
  <1>1. EvidenceInv => NothingResidual
    BY DEF EvidenceInv, SourceInv, ServerSide, NothingResidual
  <1> QED BY InitEvidence, NextEvidence, <1>1, PTL DEF Spec

-----------------------------------------------------------------------------
(* The quiz: types *)

MaybeSession == Sessions \cup {None}
Tallies == [TopicNames -> [attempts : Nat, correct : Nat]]
QuizState ==
  [phase : {"starting", "active", "judge0", "result", "skipping", "closing", "done", "error"},
   session : MaybeSession, problem : Nat, count : Nat, tally : Tallies, result : Nat,
   starting : BOOLEAN, error : BOOLEAN]
QuizAnswer == [ok : BOOLEAN, sess : MaybeSession, next : Nat, count : Nat, correct : BOOLEAN]
QuizCall == [op : {"none", "start", "submit", "skip", "close"},
             step : {"free", "judging", "sent", "answered"},
             sess : MaybeSession, prob : Nat, mine : BOOLEAN, tally : Tallies, ans : QuizAnswer]
QuizSession == [status : {"NONE", "ACTIVE", "COMPLETED", "ABANDONED"},
                fresh : BOOLEAN, next : Nat, count : Nat]

QuizTypes ==
  /\ quiz \in QuizState
  /\ req \in [Slots -> QuizCall]
  /\ sess \in [Sessions -> QuizSession]
  /\ graded \in [TopicNames -> Int]
  /\ faults \in Nat

-----------------------------------------------------------------------------
(* The quiz: requests and sessions *)

Known(s) == s \in Sessions /\ sess[s].status # "NONE"

(* A request and the visit it is of.  A session that a start made for the    *)
(* visit and none resumed is the only one the visit's requests are of.       *)
RequestOK(c) ==
  LET r == req[c] IN
  /\ r.step = "free" => r.op = "none" /\ ~r.mine
  /\ r.op = "none" => r.step = "free"
  /\ r.step = "judging" => r.op = "submit"
  /\ r.mine => page = "quiz"
  /\ r.op \in {"submit", "skip", "close"} => Known(r.sess)
  /\ r.op \in {"submit", "skip", "close"} /\ r.mine =>
       quiz.session # None /\ (sess[quiz.session].fresh => r.sess = quiz.session)
  /\ r.op = "start" /\ r.mine => quiz.starting
  /\ r.op = "start" /\ r.step = "answered" /\ r.ans.ok =>
       Known(r.ans.sess) /\ (r.mine /\ sess[r.ans.sess].fresh => quiz.session = None)

MyStart(c) == req[c].op = "start" /\ req[c].mine
OneStart == \A c, d \in Slots : MyStart(c) /\ MyStart(d) => c = d
HookOK ==
  /\ quiz.problem # None => quiz.session # None
  /\ quiz.session # None => Known(quiz.session)
  /\ \A s \in Sessions : sess[s].fresh => sess[s].status # "NONE"

VisitInv == QuizTypes /\ (\A c \in Slots : RequestOK(c)) /\ OneStart /\ HookOK

(* What no step does to a session: it is not unmade, nor fresh again.        *)
SessionsKeep == \A s \in Sessions : sess[s].status # "NONE" =>
                  sess'[s].status # "NONE" /\ (sess'[s].fresh => sess[s].fresh)

LEMMA QuizConstants ==
  /\ INITIAL_STATE \in QuizState /\ INITIAL_STATE.session = None /\ INITIAL_STATE.problem = None
  /\ INITIAL_STATE.phase = "starting"
  /\ \A t \in TopicNames : INITIAL_STATE.tally[t].attempts = 0
  /\ NoAnswer \in QuizAnswer /\ ~NoAnswer.ok /\ NoTally \in Tallies
  /\ Free \in QuizCall /\ Free.op = "none" /\ Free.step = "free" /\ ~Free.mine
  /\ NoSession \in QuizSession /\ ~NoSession.fresh /\ NoSession.status = "NONE"
  /\ None \notin Sessions /\ None \in Nat
  /\ \A p \in Nat : Topic(p) \in TopicNames
  <1>1. None \notin Sessions /\ None \in Nat
    BY DEF None, Sessions
  <1>2. TopicTally \in [attempts : Nat, correct : Nat] /\ TopicTally.attempts = 0
    BY DEF TopicTally
  <1>3. NoTally \in Tallies /\ \A t \in TopicNames : NoTally[t].attempts = 0
    BY <1>2 DEF NoTally, Tallies
  <1>4. NoAnswer \in QuizAnswer /\ ~NoAnswer.ok
    BY <1>1 DEF NoAnswer, QuizAnswer, MaybeSession
  <1>5. /\ INITIAL_STATE \in QuizState /\ INITIAL_STATE.session = None
        /\ INITIAL_STATE.problem = None /\ INITIAL_STATE.phase = "starting"
        /\ INITIAL_STATE.tally = NoTally
    BY <1>1, <1>3 DEF INITIAL_STATE, QuizState, MaybeSession
  <1>6. Free \in QuizCall /\ Free.op = "none" /\ Free.step = "free" /\ ~Free.mine
    BY <1>1, <1>3, <1>4 DEF Free, QuizCall, MaybeSession
  <1>7. NoSession \in QuizSession /\ ~NoSession.fresh /\ NoSession.status = "NONE"
    BY <1>1 DEF NoSession, QuizSession
  <1>8. \A p \in Nat : Topic(p) \in TopicNames
    BY QuizAssumption DEF Topic, TopicNames
  <1> QED
    BY <1>1, <1>3, <1>4, <1>5, <1>6, <1>7, <1>8

LEMMA InitVisit == Init => VisitInv
  <1> SUFFICES ASSUME Init PROVE VisitInv
    OBVIOUS
  <1>1. /\ quiz = INITIAL_STATE /\ req = [c \in Slots |-> Free] /\ faults = 0
        /\ graded = [t \in TopicNames |-> 0]
    BY DEF Init, QuizInit
  <1>2. PICK q \in QuizSession :
          /\ ~q.fresh
          /\ sess = [s \in Sessions |-> IF s = 1 THEN q ELSE NoSession]
    <2>1. [status |-> "ACTIVE", fresh |-> FALSE, next |-> 1, count |-> 1] \in QuizSession
      BY DEF QuizSession
    <2> QED
      BY <2>1, QuizConstants DEF Init, QuizInit
  <1>3. QuizTypes
    BY <1>1, <1>2, QuizConstants DEF QuizTypes
  <1>4. \A s \in Sessions : ~sess[s].fresh
    BY <1>2, QuizConstants
  <1> QED
    BY <1>1, <1>3, <1>4, QuizConstants DEF VisitInv, RequestOK, OneStart, MyStart, HookOK

(* A request that a step leaves alone.                                       *)
LEMMA OtherRequest ==
  ASSUME VisitInv, NEW d \in Slots, req'[d] = req[d], page' = page,
         quiz'.session = quiz.session, quiz.starting => quiz'.starting, SessionsKeep
  PROVE  RequestOK(d)'
  <1>1. RequestOK(d) /\ req[d] \in QuizCall /\ quiz \in QuizState /\ HookOK
    BY DEF VisitInv, QuizTypes
  <1> QED
    BY <1>1 DEF RequestOK, Known, SessionsKeep, HookOK

(* A step of one slot, of a visit that goes on with its session.             *)
LEMMA OneRequest ==
  ASSUME VisitInv, NEW c \in Slots, NEW r \in QuizCall, req' = [req EXCEPT ![c] = r],
         page' = page, QuizTypes', quiz'.session = quiz.session,
         quiz.starting => quiz'.starting, SessionsKeep,
         RequestOK(c)', HookOK',
         MyStart(c)' => MyStart(c) \/ ~quiz.starting
  PROVE  VisitInv'
  <1>1. /\ \A d \in Slots : d # c => req'[d] = req[d]
        /\ \A d \in Slots : RequestOK(d)
    BY DEF VisitInv, QuizTypes
  <1>2. \A d \in Slots : RequestOK(d)'
    BY <1>1, OtherRequest
  <1>3. OneStart'
    BY <1>1 DEF VisitInv, OneStart, MyStart, RequestOK
  <1> QED
    BY <1>2, <1>3 DEF VisitInv

-----------------------------------------------------------------------------
(* The quiz: what can still be asked *)

(* A request whose answer returns the page of session `s` to its console: a  *)
(* submission or skip that is refused or below the cap, a close or a start   *)
(* that failed, the start that made the session.                             *)
Reopens(c, s) ==
  LET r == req[c] IN
  \/ /\ r.op \in {"submit", "skip"} /\ r.sess = s
     /\ r.step = "answered" => ~r.ans.ok \/ r.ans.count < Cap
  \/ r.op = "close" /\ r.sess = s /\ r.step = "answered" /\ ~r.ans.ok
  \/ /\ r.op = "start" /\ r.step = "answered"
     /\ IF r.ans.ok THEN r.ans.sess = s ELSE r.mine /\ quiz.session = s
Open(s) == /\ quiz.session = s
           /\ \/ quiz.phase \in {"active", "error"}
              \/ quiz.phase = "result" /\ quiz.count < Cap
Bit(b) == IF b THEN 1 ELSE 0
Turns(s) == Cardinality({c \in Slots : Reopens(c, s)}) + Bit(Open(s))

(* Without faults a visit has one turn: the page's, or a request's.  Each    *)
(* fault can add one, and a session at the cap has used one up.              *)
Live(s) == sess[s].fresh /\ sess[s].status = "ACTIVE"
CapFor(s) ==
  /\ sess[s].fresh => sess[s].count <= Cap + faults
  /\ Live(s) => Turns(s) <= 1 + faults /\ sess[s].count + Turns(s) <= Cap + faults
CapOK == \A s \in Sessions : CapFor(s)

LEMMA InitCap == Init => CapOK
  <1> SUFFICES ASSUME Init, NEW s \in Sessions PROVE ~sess[s].fresh
    BY DEF CapOK, CapFor, Live
  <1> QED
    BY QuizConstants DEF Init, QuizInit

LEMMA SlotsFinite ==
  ASSUME NEW S \in SUBSET Slots
  PROVE  IsFiniteSet(S) /\ Cardinality(S) \in Nat
  BY QuizAssumption, FS_Subset, FS_CardinalityType

LEMMA Recount ==
  ASSUME NEW A \in SUBSET Slots, NEW B \in SUBSET Slots, NEW c \in Slots,
         \A d \in B : d # c => d \in A
  PROVE  /\ Cardinality(A) \in Nat /\ Cardinality(B) \in Nat
         /\ Cardinality(B) + Bit(c \in A) <= Cardinality(A) + Bit(c \in B)
  <1>1. ASSUME NEW S \in SUBSET Slots
        PROVE  /\ IsFiniteSet(S) /\ Cardinality(S) \in Nat
               /\ S \ {c} \in SUBSET Slots /\ Cardinality(S \ {c}) \in Nat
               /\ Cardinality(S) = Cardinality(S \ {c}) + Bit(c \in S)
    <2>1. S \ {c} \in SUBSET Slots
      OBVIOUS
    <2>2. IsFiniteSet(S) /\ Cardinality(S) \in Nat /\ Cardinality(S \ {c}) \in Nat
      BY <2>1, SlotsFinite
    <2>3. Cardinality(S \ {c}) = IF c \in S THEN Cardinality(S) - 1 ELSE Cardinality(S)
      BY <2>2, FS_RemoveElement
    <2> QED
      BY <2>1, <2>2, <2>3 DEF Bit
  <1>2. Cardinality(B \ {c}) <= Cardinality(A \ {c})
    <2>1. B \ {c} \subseteq A \ {c}
      OBVIOUS
    <2>2. IsFiniteSet(A \ {c})
      BY SlotsFinite
    <2> QED
      BY <2>1, <2>2, FS_Subset
  <1>3. /\ Cardinality(A) \in Nat /\ Cardinality(A \ {c}) \in Nat
        /\ Cardinality(A) = Cardinality(A \ {c}) + Bit(c \in A)
    BY <1>1
  <1>4. /\ Cardinality(B) \in Nat /\ Cardinality(B \ {c}) \in Nat
        /\ Cardinality(B) = Cardinality(B \ {c}) + Bit(c \in B)
    BY <1>1
  <1> QED
    BY <1>2, <1>3, <1>4 DEF Bit

LEMMA TurnsStep ==
  ASSUME NEW c \in Slots, NEW s,
         \A d \in Slots : d # c /\ Reopens(d, s)' => Reopens(d, s)
  PROVE  /\ Turns(s) \in Nat /\ Turns(s)' \in Nat
         /\ Turns(s)' + Bit(Reopens(c, s)) + Bit(Open(s))
              <= Turns(s) + Bit(Reopens(c, s)') + Bit(Open(s)')
  <1>1. PICK A \in SUBSET Slots : A = {d \in Slots : Reopens(d, s)}
    OBVIOUS
  <1>2. PICK B \in SUBSET Slots : B = {d \in Slots : Reopens(d, s)'}
    OBVIOUS
  <1>3. /\ Cardinality(A) \in Nat /\ Cardinality(B) \in Nat
        /\ Cardinality(B) + Bit(c \in A) <= Cardinality(A) + Bit(c \in B)
    BY <1>1, <1>2, Recount
  <1>4. Turns(s) = Cardinality(A) + Bit(Open(s)) /\ Turns(s)' = Cardinality(B) + Bit(Open(s)')
    BY <1>1, <1>2 DEF Turns, Bit
  <1>5. Bit(c \in A) = Bit(Reopens(c, s)) /\ Bit(c \in B) = Bit(Reopens(c, s)')
    BY <1>1, <1>2 DEF Bit
  <1> QED
    BY <1>3, <1>4, <1>5 DEF Bit

LEMMA TurnsSame ==
  ASSUME NEW s, \A d \in Slots : Reopens(d, s)' => Reopens(d, s), Open(s)' => Open(s)
  PROVE  Turns(s) \in Nat /\ Turns(s)' \in Nat /\ Turns(s)' <= Turns(s)
  <1>1. PICK A \in SUBSET Slots : A = {d \in Slots : Reopens(d, s)}
    OBVIOUS
  <1>2. PICK B \in SUBSET Slots : B = {d \in Slots : Reopens(d, s)'}
    OBVIOUS
  <1>3. Cardinality(A) \in Nat /\ Cardinality(B) \in Nat /\ Cardinality(B) <= Cardinality(A)
    <2>1. B \subseteq A
      BY <1>1, <1>2
    <2> QED
      BY <2>1, SlotsFinite, FS_Subset
  <1>4. Turns(s) = Cardinality(A) + Bit(Open(s)) /\ Turns(s)' = Cardinality(B) + Bit(Open(s)')
    BY <1>1, <1>2 DEF Turns, Bit
  <1> QED
    BY <1>3, <1>4 DEF Bit

(* A step that leaves `s` alone, and gives no turn but for a fault.          *)
LEMMA CapSame ==
  ASSUME VisitInv, CapOK, NEW s \in Sessions, sess'[s] = sess[s],
         NEW k \in {0, 1}, faults' = faults + k,
         Live(s) => Turns(s) \in Nat /\ Turns(s)' \in Nat /\ Turns(s)' <= Turns(s) + k
  PROVE  CapFor(s)'
  <1>1. /\ faults \in Nat /\ sess[s].count \in Nat /\ Cap \in Nat /\ Live(s)' = Live(s)
        /\ sess[s].fresh => sess[s].count <= Cap + faults
        /\ Live(s) => Turns(s) <= 1 + faults /\ sess[s].count + Turns(s) <= Cap + faults
    BY QuizAssumption DEF VisitInv, QuizTypes, QuizSession, CapOK, CapFor, Live
  <1>2. /\ sess'[s].fresh => sess'[s].count <= Cap + faults'
        /\ Live(s)' => Turns(s)' <= 1 + faults' /\ sess'[s].count + Turns(s)' <= Cap + faults'
    BY <1>1
  <1> QED
    BY <1>2 DEF CapFor

(* Such a step of one slot.                                                  *)
LEMMA CapOne ==
  ASSUME VisitInv, CapOK, NEW s \in Sessions, sess'[s] = sess[s],
         NEW k \in {0, 1}, faults' = faults + k,
         NEW c \in Slots, NEW r \in QuizCall, req' = [req EXCEPT ![c] = r],
         quiz'.session = quiz.session,
         Live(s) => Bit(Reopens(c, s)') + Bit(Open(s)') <= Bit(Reopens(c, s)) + Bit(Open(s)) + k
  PROVE  CapFor(s)'
  <1>1. \A d \in Slots : d # c => req'[d] = req[d]
    BY DEF VisitInv, QuizTypes
  <1>2. ASSUME Live(s) PROVE Turns(s) \in Nat /\ Turns(s)' \in Nat /\ Turns(s)' <= Turns(s) + k
    <2>1. \A d \in Slots : d # c /\ Reopens(d, s)' => Reopens(d, s)
      BY <1>1 DEF Reopens
    <2>2. /\ Turns(s) \in Nat /\ Turns(s)' \in Nat
          /\ Turns(s)' + Bit(Reopens(c, s)) + Bit(Open(s))
               <= Turns(s) + Bit(Reopens(c, s)') + Bit(Open(s)')
      BY <2>1, TurnsStep
    <2> QED
      BY <1>2, <2>2 DEF Bit
  <1> QED
    BY <1>2, CapSame

-----------------------------------------------------------------------------
(* The quiz: the tally *)

(* A graded answer of this visit that is on its way.                         *)
OnItsWay(c, t) ==
  LET r == req[c] IN
  r.mine /\ r.op = "submit" /\ r.step = "answered" /\ r.ans.ok /\ Topic(r.prob) = t
TallyOK == \A t \in TopicNames :
  graded[t] = quiz.tally[t].attempts + Cardinality({c \in Slots : OnItsWay(c, t)})

QuizInv == VisitInv /\ CapOK /\ TallyOK

LEMMA NoneOnTheirWay ==
  ASSUME NEW t, \A c \in Slots : ~OnItsWay(c, t)
  PROVE  Cardinality({c \in Slots : OnItsWay(c, t)}) = 0
  <1>1. {c \in Slots : OnItsWay(c, t)} = {}
    OBVIOUS
  <1> QED
    BY <1>1, FS_EmptySet

LEMMA InitTally == Init => TallyOK
  <1> SUFFICES ASSUME Init, NEW t \in TopicNames
               PROVE  graded[t] = quiz.tally[t].attempts + Cardinality({c \in Slots : OnItsWay(c, t)})
    BY DEF TallyOK
  <1>1. graded[t] = 0 /\ quiz.tally[t].attempts = 0
    BY QuizConstants DEF Init, QuizInit
  <1>2. \A c \in Slots : ~OnItsWay(c, t)
    BY QuizConstants DEF Init, QuizInit, OnItsWay
  <1> QED
    BY <1>1, <1>2, NoneOnTheirWay

LEMMA TallyType ==
  ASSUME QuizTypes, NEW t \in TopicNames
  PROVE  quiz.tally[t].attempts \in Nat /\ graded[t] \in Int
  BY DEF QuizTypes, QuizState, Tallies

(* A step of one slot.                                                       *)
LEMMA TallyOne ==
  ASSUME VisitInv, QuizTypes', TallyOK, NEW c \in Slots, NEW r \in QuizCall,
         req' = [req EXCEPT ![c] = r],
         \A t \in TopicNames :
           graded'[t] + Bit(OnItsWay(c, t)) + quiz.tally[t].attempts
             = graded[t] + Bit(OnItsWay(c, t)') + quiz'.tally[t].attempts
  PROVE  TallyOK'
  <1> SUFFICES ASSUME NEW t \in TopicNames
               PROVE  graded'[t] = quiz'.tally[t].attempts + Cardinality({d \in Slots : OnItsWay(d, t)'})
    BY DEF TallyOK
  <1>1. PICK A \in SUBSET Slots : A = {d \in Slots : OnItsWay(d, t)}
    OBVIOUS
  <1>2. PICK B \in SUBSET Slots : B = {d \in Slots : OnItsWay(d, t)'}
    OBVIOUS
  <1>3. \A d \in Slots : d # c => (d \in A <=> d \in B)
    <2>1. \A d \in Slots : d # c => req'[d] = req[d]
      BY DEF VisitInv, QuizTypes
    <2> QED
      BY <1>1, <1>2, <2>1 DEF OnItsWay
  <1>4. /\ Cardinality(A) \in Nat /\ Cardinality(B) \in Nat
        /\ Cardinality(B) + Bit(c \in A) = Cardinality(A) + Bit(c \in B)
    <2>1. /\ Cardinality(A) \in Nat /\ Cardinality(B) \in Nat
          /\ Cardinality(B) + Bit(c \in A) <= Cardinality(A) + Bit(c \in B)
      BY <1>3, Recount
    <2>2. Cardinality(A) + Bit(c \in B) <= Cardinality(B) + Bit(c \in A)
      BY <1>3, Recount
    <2> QED
      BY <2>1, <2>2 DEF Bit
  <1>5. Bit(c \in A) = Bit(OnItsWay(c, t)) /\ Bit(c \in B) = Bit(OnItsWay(c, t)')
    BY <1>1, <1>2 DEF Bit
  <1>6. graded[t] = quiz.tally[t].attempts + Cardinality(A)
    BY <1>1 DEF TallyOK
  <1>7. /\ quiz.tally[t].attempts \in Nat /\ graded[t] \in Int
        /\ quiz'.tally[t].attempts \in Nat /\ graded'[t] \in Int
    <2>1. quiz'.tally[t].attempts \in Nat /\ graded'[t] \in Int
      BY DEF QuizTypes, QuizState, Tallies
    <2> QED
      BY <2>1, TallyType DEF VisitInv
  <1>8. graded'[t] = quiz'.tally[t].attempts + Cardinality(B)
    BY <1>4, <1>5, <1>6, <1>7 DEF Bit
  <1> QED
    BY <1>2, <1>8

-----------------------------------------------------------------------------
(* The quiz: the page's steps *)

(* The page sends a request.                                                 *)
LEMMA SendOK ==
  ASSUME QuizInv, page = "quiz", UNCHANGED <<page, faults, sess, graded>>,
         NEW op \in {"start", "submit", "skip", "close"}, NEW step \in {"judging", "sent"},
         step = "judging" => op = "submit",
         NEW s0 \in MaybeSession, Request(op, step, s0),
         NEW t \in QuizState, quiz' = t, t.session = quiz.session, t.problem = quiz.problem,
         t.tally = quiz.tally, quiz.starting => t.starting,
         \/ op = "start" /\ ~quiz.starting /\ t.starting /\ t.phase = "starting"
         \/ /\ op = "close" /\ s0 = quiz.session /\ s0 # None
            /\ t.phase = "closing"
         \/ /\ op \in {"submit", "skip"} /\ s0 = quiz.session /\ s0 # None
            /\ quiz.phase \in {"active", "error"} /\ t.phase \in {"judge0", "skipping"}
  PROVE  QuizInv'
  <1>1. VisitInv /\ CapOK /\ TallyOK /\ QuizTypes /\ HookOK /\ quiz \in QuizState
    BY DEF QuizInv, VisitInv, QuizTypes
  <1>2. PICK c \in Idle : req' = [req EXCEPT ![c] =
          [Free EXCEPT !.op = op, !.step = step, !.sess = s0, !.prob = quiz.problem,
                       !.mine = TRUE, !.tally = quiz.tally]]
    BY DEF Request
  <1>3. c \in Slots /\ req[c].step = "free" /\ req[c].op = "none" /\ ~req[c].mine
    BY <1>1, <1>2 DEF Idle, VisitInv, RequestOK
  <1>4. PICK r \in QuizCall : /\ req' = [req EXCEPT ![c] = r] /\ r.op = op /\ r.step = step
                              /\ r.sess = s0 /\ r.mine
    <2> DEFINE r == [Free EXCEPT !.op = op, !.step = step, !.sess = s0, !.prob = quiz.problem,
                       !.mine = TRUE, !.tally = quiz.tally]
    <2>1. r \in QuizCall /\ r.op = op /\ r.step = step /\ r.sess = s0 /\ r.mine
      BY <1>1, QuizConstants DEF QuizCall, QuizState
    <2>2. req' = [req EXCEPT ![c] = r]
      BY <1>2
    <2> HIDE DEF r
    <2> QED
      BY <2>1, <2>2
  <1>5. req'[c] = r
    BY <1>1, <1>3, <1>4 DEF QuizTypes
  <1>6. QuizTypes'
    BY <1>1, <1>3, <1>4 DEF QuizTypes
  <1>7. VisitInv'
    <2>1. SessionsKeep
      BY DEF SessionsKeep
    <2>2. HookOK'
      BY <1>1 DEF HookOK, Known
    <2>3. RequestOK(c)'
      BY <1>1, <1>4, <1>5 DEF RequestOK, Known, HookOK
    <2>4. MyStart(c)' => ~quiz.starting
      BY <1>4, <1>5 DEF MyStart
    <2> QED
      BY <1>1, <1>3, <1>4, <1>6, <2>1, <2>2, <2>3, <2>4, OneRequest
  <1>8. CapOK'
    <2>1. ASSUME NEW s \in Sessions
          PROVE  CapFor(s)'
      <3>1. Bit(Reopens(c, s)') + Bit(Open(s)') <= Bit(Reopens(c, s)) + Bit(Open(s)) + 0
        BY <1>3, <1>4, <1>5 DEF Reopens, Open, Bit
      <3>2. faults' = faults + 0 /\ sess'[s] = sess[s]
        BY <1>1 DEF QuizTypes
      <3> QED
        BY <1>1, <1>3, <1>4, <3>1, <3>2, CapOne
    <2> QED
      BY <2>1 DEF CapOK
  <1>9. TallyOK'
    <2>1. ASSUME NEW n \in TopicNames
          PROVE  graded'[n] + Bit(OnItsWay(c, n)) + quiz.tally[n].attempts
                   = graded[n] + Bit(OnItsWay(c, n)') + quiz'.tally[n].attempts
      BY <1>3, <1>4, <1>5 DEF OnItsWay, Bit
    <2> QED
      BY <1>1, <1>3, <1>4, <1>6, <2>1, TallyOne
  <1> QED
    BY <1>7, <1>8, <1>9 DEF QuizInv

(* The page goes on without a request.                                       *)
LEMMA GoOnOK ==
  ASSUME QuizInv, UNCHANGED <<page, faults, req, sess, graded>>,
         NEW t \in QuizState, quiz' = t, t.session = quiz.session, t.tally = quiz.tally,
         t.starting = quiz.starting, t.count = quiz.count,
         \/ t.phase = quiz.phase /\ t.problem = quiz.problem
         \/ quiz.phase = "result" /\ quiz.count < Cap /\ quiz.problem # None
  PROVE  QuizInv'
  <1>1. VisitInv /\ CapOK /\ TallyOK /\ QuizTypes /\ HookOK
    BY DEF QuizInv, VisitInv
  <1>2. VisitInv'
    BY <1>1 DEF VisitInv, QuizTypes, RequestOK, Known, OneStart, MyStart, HookOK
  <1>3. CapOK'
    <2>1. ASSUME NEW s \in Sessions
          PROVE  CapFor(s)'
      <3>1. \A d \in Slots : Reopens(d, s)' => Reopens(d, s)
        BY DEF Reopens
      <3>2. Open(s)' => Open(s)
        BY DEF Open
      <3>3. Turns(s) \in Nat /\ Turns(s)' \in Nat /\ Turns(s)' <= Turns(s)
        BY <3>1, <3>2, TurnsSame
      <3>4. faults' = faults + 0 /\ sess'[s] = sess[s] /\ Turns(s)' <= Turns(s) + 0
        BY <1>1, <3>3 DEF QuizTypes
      <3> QED
        BY <1>1, <3>3, <3>4, CapSame
    <2> QED
      BY <2>1 DEF CapOK
  <1>4. TallyOK'
    BY <1>1 DEF TallyOK, OnItsWay
  <1> QED
    BY <1>2, <1>3, <1>4 DEF QuizInv

LEMMA BecomeIs ==
  ASSUME QuizTypes, NEW phase \in {"judge0", "skipping", "closing"}, Become(phase)
  PROVE  \E t \in QuizState :
           /\ quiz' = t /\ t.session = quiz.session /\ t.problem = quiz.problem
           /\ t.tally = quiz.tally /\ t.starting = quiz.starting /\ t.phase = phase
  <1>1. quiz \in QuizState
    BY DEF QuizTypes
  <1> DEFINE t == [quiz EXCEPT !.phase = phase, !.error = FALSE]
  <1>2. /\ t \in QuizState /\ t.session = quiz.session /\ t.problem = quiz.problem
        /\ t.tally = quiz.tally /\ t.starting = quiz.starting /\ t.phase = phase
    BY <1>1 DEF QuizState
  <1>3. quiz' = t
    BY DEF Become
  <1> HIDE DEF t
  <1> QED
    BY <1>2, <1>3

LEMMA FinishOK ==
  ASSUME QuizInv, page = "quiz", quiz.session # None, finish,
         UNCHANGED <<page, faults, sess, graded>>
  PROVE  QuizInv'
  <1>1. QuizTypes /\ quiz.session \in MaybeSession
    BY DEF QuizInv, VisitInv, QuizTypes, QuizState
  <1>2. Request("close", "sent", quiz.session) /\ Become("closing")
    BY DEF finish
  <1>3. PICK t \in QuizState :
           /\ quiz' = t /\ t.session = quiz.session /\ t.problem = quiz.problem
           /\ t.tally = quiz.tally /\ t.starting = quiz.starting /\ t.phase = "closing"
    BY <1>1, <1>2, BecomeIs
  <1> QED
    BY <1>1, <1>2, <1>3, SendOK

LEMMA StartOK ==
  ASSUME QuizInv, page = "quiz", start, UNCHANGED <<page, faults, sess, graded>>
  PROVE  QuizInv'
  <1>1. QuizTypes /\ quiz \in QuizState /\ quiz.starting \in BOOLEAN
    BY DEF QuizInv, VisitInv, QuizTypes, QuizState
  <1>2. CASE quiz.starting
    <2>1. UNCHANGED <<quiz, req>>
      BY <1>2 DEF start
    <2> QED
      BY <1>1, <2>1, GoOnOK
  <1>3. CASE ~quiz.starting
    <2> DEFINE t == [quiz EXCEPT !.phase = "starting", !.starting = TRUE, !.error = FALSE]
    <2>1. Request("start", "sent", None) /\ quiz' = t
      BY <1>3 DEF start
    <2>2. /\ t \in QuizState /\ t.session = quiz.session /\ t.problem = quiz.problem
          /\ t.tally = quiz.tally /\ t.starting /\ t.phase = "starting"
      BY <1>1 DEF QuizState
    <2>3. None \in MaybeSession
      BY DEF MaybeSession
    <2> HIDE DEF t
    <2> QED
      BY <1>3, <2>1, <2>2, <2>3, SendOK
  <1> QED
    BY <1>1, <1>2, <1>3

LEMMA QuizClickOK ==
  ASSUME QuizInv, QuizClick
  PROVE  QuizInv'
  <1>1. /\ QuizTypes /\ HookOK /\ quiz \in QuizState /\ quiz.session \in MaybeSession
        /\ quiz.count \in Nat /\ quiz.result \in Nat
    BY DEF QuizInv, VisitInv, QuizTypes, QuizState
  <1>2. CASE submitAnswer \/ skip
    <2>1. /\ page = "quiz" /\ UNCHANGED <<page, faults, sess, graded>>
          /\ quiz.session # None /\ quiz.phase \in {"active", "error"}
      BY <1>1, <1>2 DEF submitAnswer, skip, OnQuiz, MaySubmit, Console, Workspace, isBusy, HookOK,
                        QuizState
    <2>2. PICK op \in {"submit", "skip"}, step \in {"judging", "sent"}, phase \in {"judge0", "skipping"} :
            (step = "judging" => op = "submit") /\ Request(op, step, quiz.session) /\ Become(phase)
      BY <1>2 DEF submitAnswer, skip
    <2>3. PICK t \in QuizState :
             /\ quiz' = t /\ t.session = quiz.session /\ t.problem = quiz.problem
             /\ t.tally = quiz.tally /\ t.starting = quiz.starting /\ t.phase = phase
      BY <1>1, <2>2, BecomeIs
    <2> QED
      BY <1>1, <2>1, <2>2, <2>3, SendOK
  <1>3. CASE continueQuiz
    <2>1. /\ page = "quiz" /\ UNCHANGED <<page, faults, sess, graded>>
          /\ quiz.problem # None /\ quiz.phase = "result" /\ quiz.session # None
      BY <1>1, <1>3 DEF continueQuiz, OnQuiz, MayContinue, Workspace, HookOK, tab
    <2>2. CASE finish
      BY <2>1, <2>2, FinishOK
    <2>3. CASE ~(quiz.result = None \/ AtTheCap(quiz.count))
      <3> DEFINE t == [quiz EXCEPT !.phase = "active", !.problem = quiz.result, !.result = None]
      <3>1. quiz' = t /\ req' = req
        BY <1>3, <2>3 DEF continueQuiz
      <3>2. /\ t \in QuizState /\ t.session = quiz.session /\ t.tally = quiz.tally
            /\ t.starting = quiz.starting /\ t.count = quiz.count
        BY <1>1, QuizConstants DEF QuizState
      <3>3. quiz.count < Cap
        BY <1>1, <2>3, QuizAssumption DEF AtTheCap
      <3> HIDE DEF t
      <3> QED
        BY <2>1, <3>1, <3>2, <3>3, GoOnOK
    <2> QED
      BY <1>3, <2>2, <2>3 DEF continueQuiz
  <1>4. CASE skipQuiz
    BY <1>4, FinishOK DEF skipQuiz, OnQuiz
  <1>5. CASE Retry
    BY <1>5, StartOK DEF Retry, OnQuiz
  <1>6. CASE dismissError
    <2> DEFINE t == [quiz EXCEPT !.error = FALSE]
    <2>1. quiz' = t /\ UNCHANGED <<page, faults, req, sess, graded>>
      BY <1>6 DEF dismissError
    <2>2. /\ t \in QuizState /\ t.session = quiz.session /\ t.tally = quiz.tally
          /\ t.starting = quiz.starting /\ t.count = quiz.count
          /\ t.phase = quiz.phase /\ t.problem = quiz.problem
      BY <1>1 DEF QuizState
    <2> HIDE DEF t
    <2> QED
      BY <2>1, <2>2, GoOnOK
  <1>7. CASE Generate
    <2>1. quiz' = quiz /\ UNCHANGED <<page, faults, req, sess, graded>>
      BY <1>7 DEF Generate
    <2> QED
      BY <1>1, <2>1, GoOnOK
  <1> QED
    BY <1>2, <1>3, <1>4, <1>5, <1>6, <1>7 DEF QuizClick

-----------------------------------------------------------------------------
(* The quiz: answers *)

LEMMA ReplyIs ==
  ASSUME QuizTypes, NEW c \in Slots, NEW a \in QuizAnswer, Reply(c, a)
  PROVE  \E q \in QuizCall :
           /\ req' = [req EXCEPT ![c] = q] /\ req'[c] = q /\ q.step = "answered" /\ q.ans = a
           /\ q.op = req[c].op /\ q.sess = req[c].sess /\ q.prob = req[c].prob
           /\ q.mine = req[c].mine
  <1> DEFINE q == [req[c] EXCEPT !.step = "answered", !.ans = a]
  <1>1. req[c] \in QuizCall /\ req \in [Slots -> QuizCall]
    BY DEF QuizTypes
  <1>2. /\ q \in QuizCall /\ q.step = "answered" /\ q.ans = a /\ q.op = req[c].op
        /\ q.sess = req[c].sess /\ q.prob = req[c].prob /\ q.mine = req[c].mine
    BY <1>1 DEF QuizCall
  <1>3. req' = [req EXCEPT ![c] = q] /\ req'[c] = q
    BY <1>1 DEF Reply
  <1> HIDE DEF q
  <1> QED
    BY <1>2, <1>3

(* A request fails: for a fault, or as the server or the judge refuses it.   *)
LEMMA RefuseOK ==
  ASSUME QuizInv, NEW c \in Slots, req[c].step # "free", Reply(c, NoAnswer),
         req[c].step = "answered" => req[c].ans.ok,
         UNCHANGED <<page, quiz, sess>>, NEW k \in {0, 1}, faults' = faults + k,
         graded' = IF req[c].step = "answered" /\ req[c].op = "submit" /\ req[c].mine
                   THEN [graded EXCEPT ![Topic(req[c].prob)] = @ - 1] ELSE graded,
         \/ k = 1
         \/ req[c].op \in {"submit", "skip"} /\ req[c].step # "answered"
         \/ req[c].op = "close" /\ sess[req[c].sess].status # "ACTIVE"
  PROVE  QuizInv'
  <1>1. /\ VisitInv /\ CapOK /\ TallyOK /\ QuizTypes /\ HookOK /\ RequestOK(c)
        /\ req[c] \in QuizCall
    BY DEF QuizInv, VisitInv, QuizTypes
  <1>2. PICK q \in QuizCall :
           /\ req' = [req EXCEPT ![c] = q] /\ req'[c] = q /\ q.step = "answered" /\ q.ans = NoAnswer
           /\ q.op = req[c].op /\ q.sess = req[c].sess /\ q.prob = req[c].prob
           /\ q.mine = req[c].mine
    BY <1>1, QuizConstants, ReplyIs
  <1>3. ~q.ans.ok
    BY <1>2, QuizConstants
  <1>4. graded' \in [TopicNames -> Int]
    <2>1. PICK n \in TopicNames : n = Topic(req[c].prob)
      BY <1>1, QuizConstants DEF QuizCall
    <2>2. graded \in [TopicNames -> Int]
      BY <1>1 DEF QuizTypes
    <2>3. PICK i \in Int : i = graded[n] - 1
      BY <2>2
    <2>4. graded' = graded \/ graded' = [graded EXCEPT ![n] = i]
      BY <2>1, <2>3
    <2> QED
      BY <2>2, <2>4
  <1>5. QuizTypes'
    BY <1>1, <1>2, <1>4 DEF QuizTypes
  <1>6. VisitInv'
    <2>1. SessionsKeep /\ HookOK'
      BY <1>1 DEF SessionsKeep, HookOK, Known
    <2>2. RequestOK(c)'
      BY <1>1, <1>2, <1>3 DEF RequestOK, Known
    <2>3. MyStart(c)' => MyStart(c)
      BY <1>2 DEF MyStart
    <2> QED
      BY <1>1, <1>2, <1>5, <2>1, <2>2, <2>3, OneRequest
  <1>7. CapOK'
    <2>1. ASSUME NEW s \in Sessions PROVE CapFor(s)'
      <3>1. ASSUME Live(s)
            PROVE  Bit(Reopens(c, s)') + Bit(Open(s)') <= Bit(Reopens(c, s)) + Bit(Open(s)) + k
        <4>1. Open(s)' = Open(s)
          BY DEF Open
        <4>2. k = 1 \/ (Reopens(c, s)' => Reopens(c, s))
          BY <1>1, <1>2, <1>3, <3>1 DEF Reopens, Live
        <4> QED
          BY <4>1, <4>2 DEF Bit
      <3> QED
        BY <1>1, <1>2, <3>1, CapOne
    <2> QED
      BY <2>1 DEF CapOK
  <1>8. TallyOK'
    <2>1. ASSUME NEW n \in TopicNames
          PROVE  graded'[n] + Bit(OnItsWay(c, n)) + quiz.tally[n].attempts
                   = graded[n] + Bit(OnItsWay(c, n)') + quiz'.tally[n].attempts
      <3>1. quiz.tally[n].attempts \in Nat /\ graded[n] \in Int
        BY <1>1, TallyType
      <3>2. ~OnItsWay(c, n)'
        BY <1>2, <1>3 DEF OnItsWay
      <3>3. graded'[n] = graded[n] - Bit(OnItsWay(c, n))
        BY <1>1, <3>1 DEF OnItsWay, Bit, QuizTypes
      <3> QED
        BY <3>1, <3>2, <3>3 DEF Bit
    <2> QED
      BY <1>1, <1>2, <1>5, <2>1, TallyOne
  <1> QED
    BY <1>6, <1>7, <1>8 DEF QuizInv

LEMMA LoseOK ==
  ASSUME QuizInv, NEW c \in Slots, Lose(c)
  PROVE  QuizInv'
  <1>1. faults' = faults + 1 /\ UNCHANGED <<page, quiz, sess>>
    BY DEF Lose, Fault
  <1> QED
    BY <1>1, RefuseOK DEF Lose

LEMMA JudgeOK ==
  ASSUME QuizInv, NEW c \in Slots, Judge(c)
  PROVE  QuizInv'
  <1>1. /\ VisitInv /\ CapOK /\ TallyOK /\ QuizTypes /\ HookOK /\ RequestOK(c)
        /\ req[c] \in QuizCall /\ req \in [Slots -> QuizCall]
    BY DEF QuizInv, VisitInv, QuizTypes
  <1>2. req[c].op = "submit" /\ req[c].step = "judging" /\ UNCHANGED <<page, quiz, sess, graded, faults>>
    BY <1>1 DEF Judge, RequestOK, tab
  <1>3. faults' = faults + 0
    BY <1>1, <1>2 DEF QuizTypes
  <1>4. CASE Reply(c, NoAnswer)
    BY <1>2, <1>3, <1>4, RefuseOK
  <1>5. CASE req' = [req EXCEPT ![c].step = "sent"]
    <2>1. PICK q \in QuizCall :
             /\ req' = [req EXCEPT ![c] = q] /\ req'[c] = q /\ q.step = "sent"
             /\ q.op = req[c].op /\ q.sess = req[c].sess /\ q.mine = req[c].mine
      <3> DEFINE q == [req[c] EXCEPT !.step = "sent"]
      <3>1. /\ q \in QuizCall /\ q.step = "sent" /\ q.op = req[c].op
            /\ q.sess = req[c].sess /\ q.mine = req[c].mine
        BY <1>1 DEF QuizCall
      <3>2. req' = [req EXCEPT ![c] = q] /\ req'[c] = q
        BY <1>1, <1>5
      <3> HIDE DEF q
      <3> QED
        BY <3>1, <3>2
    <2>2. QuizTypes'
      BY <1>1, <1>2, <2>1 DEF QuizTypes
    <2>3. VisitInv'
      <3>1. SessionsKeep /\ HookOK'
        BY <1>1, <1>2 DEF SessionsKeep, HookOK, Known
      <3>2. RequestOK(c)'
        BY <1>1, <1>2, <2>1 DEF RequestOK, Known
      <3>3. MyStart(c)' => MyStart(c)
        BY <2>1 DEF MyStart
      <3> QED
        BY <1>1, <1>2, <2>1, <2>2, <3>1, <3>2, <3>3, OneRequest
    <2>4. CapOK'
      <3>1. ASSUME NEW s \in Sessions PROVE CapFor(s)'
        <4>1. Bit(Reopens(c, s)') + Bit(Open(s)') <= Bit(Reopens(c, s)) + Bit(Open(s)) + 0
          BY <1>2, <2>1 DEF Reopens, Open, Bit
        <4> QED
          BY <1>1, <1>2, <1>3, <2>1, <4>1, CapOne
      <3> QED
        BY <3>1 DEF CapOK
    <2>5. TallyOK'
      <3>1. ASSUME NEW n \in TopicNames
            PROVE  graded'[n] + Bit(OnItsWay(c, n)) + quiz.tally[n].attempts
                     = graded[n] + Bit(OnItsWay(c, n)') + quiz'.tally[n].attempts
        BY <1>2, <2>1 DEF OnItsWay, Bit
      <3> QED
        BY <1>1, <2>1, <2>2, <3>1, TallyOne
    <2> QED
      BY <2>3, <2>4, <2>5 DEF QuizInv
  <1> QED
    BY <1>4, <1>5 DEF Judge

(* The server answers: `q` is the request with its answer `a`, `v` the       *)
(* session it was about, and `w` what became of it.                          *)
LEMMA ServedVisit ==
  ASSUME QuizInv, NEW c \in Slots, req[c].step = "sent", NEW a \in QuizAnswer, Reply(c, a),
         UNCHANGED <<page, quiz, faults>>, graded' \in [TopicNames -> Int],
         NEW v \in Sessions, NEW w \in QuizSession, sess' = [sess EXCEPT ![v] = w],
         w.status # "NONE", sess[v].status # "NONE" => (w.fresh => sess[v].fresh),
         req[c].op = "start" /\ a.ok => a.sess = v /\ (w.fresh => quiz.session = None)
  PROVE  VisitInv'
  <1>1. /\ VisitInv /\ QuizTypes /\ HookOK /\ RequestOK(c) /\ req[c] \in QuizCall
        /\ quiz \in QuizState
    BY DEF QuizInv, VisitInv, QuizTypes
  <1>2. PICK q \in QuizCall :
           /\ req' = [req EXCEPT ![c] = q] /\ req'[c] = q /\ q.step = "answered" /\ q.ans = a
           /\ q.op = req[c].op /\ q.sess = req[c].sess /\ q.prob = req[c].prob
           /\ q.mine = req[c].mine
    BY <1>1, ReplyIs
  <1>3. \A s \in Sessions : sess'[s] = IF s = v THEN w ELSE sess[s]
    BY <1>1 DEF QuizTypes
  <1>4. QuizTypes'
    BY <1>1, <1>2 DEF QuizTypes
  <1>5. SessionsKeep
    BY <1>3 DEF SessionsKeep
  <1>6. HookOK'
    BY <1>1, <1>3 DEF HookOK, Known
  <1>7. RequestOK(c)'
    BY <1>1, <1>2, <1>3, <1>5 DEF RequestOK, Known, HookOK, SessionsKeep
  <1>8. MyStart(c)' => MyStart(c)
    BY <1>2 DEF MyStart
  <1> QED
    BY <1>1, <1>2, <1>4, <1>5, <1>6, <1>7, <1>8, OneRequest

(* An answer about `v` changes the turns of no other session.                *)
LEMMA ServedCap ==
  ASSUME QuizInv, NEW c \in Slots, req[c].step = "sent", NEW a \in QuizAnswer, Reply(c, a),
         UNCHANGED <<page, quiz, faults>>, a.ok,
         NEW v \in Sessions, NEW s \in Sessions, s # v, sess'[s] = sess[s],
         IF req[c].op = "start" THEN a.sess = v ELSE req[c].sess = v
  PROVE  CapFor(s)'
  <1>1. VisitInv /\ CapOK /\ QuizTypes
    BY DEF QuizInv, VisitInv
  <1>2. PICK q \in QuizCall :
           /\ req' = [req EXCEPT ![c] = q] /\ req'[c] = q /\ q.step = "answered" /\ q.ans = a
           /\ q.op = req[c].op /\ q.sess = req[c].sess /\ q.prob = req[c].prob
           /\ q.mine = req[c].mine
    BY <1>1, ReplyIs
  <1>3. Bit(Reopens(c, s)') + Bit(Open(s)') <= Bit(Reopens(c, s)) + Bit(Open(s)) + 0
    BY <1>2 DEF Reopens, Open, Bit
  <1>4. faults' = faults + 0
    BY <1>1 DEF QuizTypes
  <1> QED
    BY <1>1, <1>2, <1>3, <1>4, CapOne

(* An answer that is not a graded one.                                       *)
LEMMA ServedTally ==
  ASSUME QuizInv, NEW c \in Slots, req[c].step = "sent", NEW a \in QuizAnswer, Reply(c, a),
         UNCHANGED <<quiz, graded>>, QuizTypes', req[c].op # "submit" \/ ~req[c].mine
  PROVE  TallyOK'
  <1>1. VisitInv /\ TallyOK /\ QuizTypes
    BY DEF QuizInv, VisitInv
  <1>2. PICK q \in QuizCall :
           /\ req' = [req EXCEPT ![c] = q] /\ req'[c] = q /\ q.step = "answered" /\ q.ans = a
           /\ q.op = req[c].op /\ q.sess = req[c].sess /\ q.prob = req[c].prob
           /\ q.mine = req[c].mine
    BY <1>1, ReplyIs
  <1>3. ASSUME NEW n \in TopicNames
        PROVE  graded'[n] + Bit(OnItsWay(c, n)) + quiz.tally[n].attempts
                 = graded[n] + Bit(OnItsWay(c, n)') + quiz'.tally[n].attempts
    BY <1>2 DEF OnItsWay, Bit
  <1> QED
    BY <1>1, <1>2, <1>3, TallyOne

LEMMA StartServed ==
  ASSUME QuizInv, NEW c \in Slots, req[c].step = "sent", req[c].op = "start", Start(c),
         UNCHANGED <<page, quiz, faults>>
  PROVE  QuizInv'
  <1>1. /\ VisitInv /\ CapOK /\ TallyOK /\ QuizTypes /\ HookOK /\ graded' = graded
        /\ graded' \in [TopicNames -> Int]
    BY DEF QuizInv, VisitInv, Start, QuizTypes
  <1>2. CASE \E s \in Active :
               /\ Reply(c, [NoAnswer EXCEPT !.ok = TRUE, !.sess = s, !.next = sess[s].next])
               /\ sess' = [sess EXCEPT ![s].fresh = FALSE]
    <2>1. PICK s \in Active :
               /\ Reply(c, [NoAnswer EXCEPT !.ok = TRUE, !.sess = s, !.next = sess[s].next])
               /\ sess' = [sess EXCEPT ![s].fresh = FALSE]
      BY <1>2
    <2>2. s \in Sessions /\ sess[s].status = "ACTIVE" /\ sess[s] \in QuizSession
      BY <1>1 DEF Active, QuizTypes
    <2>3. PICK a \in QuizAnswer : a.ok /\ a.sess = s /\ Reply(c, a)
      <3> DEFINE a == [NoAnswer EXCEPT !.ok = TRUE, !.sess = s, !.next = sess[s].next]
      <3>1. a \in QuizAnswer /\ a.ok /\ a.sess = s
        BY <2>2, QuizConstants DEF QuizAnswer, QuizSession, MaybeSession
      <3>2. Reply(c, a)
        BY <2>1
      <3> HIDE DEF a
      <3> QED
        BY <3>1, <3>2
    <2>4. PICK w \in QuizSession : /\ sess' = [sess EXCEPT ![s] = w] /\ ~w.fresh
                                   /\ w.status = "ACTIVE"
      <3> DEFINE w == [sess[s] EXCEPT !.fresh = FALSE]
      <3>1. w \in QuizSession /\ ~w.fresh /\ w.status = "ACTIVE"
        BY <2>2 DEF QuizSession
      <3>2. sess' = [sess EXCEPT ![s] = w]
        BY <1>1, <2>1, <2>2 DEF QuizTypes
      <3> HIDE DEF w
      <3> QED
        BY <3>1, <3>2
    <2>5. VisitInv'
      BY <1>1, <2>2, <2>3, <2>4, ServedVisit
    <2>6. ASSUME NEW u \in Sessions PROVE CapFor(u)'
      <3>1. sess'[u] = IF u = s THEN w ELSE sess[u]
        BY <1>1, <2>2, <2>4 DEF QuizTypes
      <3>2. CASE u = s
        BY <2>4, <3>1, <3>2 DEF CapFor, Live
      <3>3. CASE u # s
        BY <2>2, <2>3, <3>1, <3>3, ServedCap
      <3> QED
        BY <3>2, <3>3
    <2>7. TallyOK'
      BY <1>1, <2>3, <2>5, ServedTally DEF VisitInv
    <2> QED
      BY <2>5, <2>6, <2>7 DEF QuizInv, CapOK
  <1>3. CASE \E s \in Unused :
               /\ Active = {} /\ \A v \in Unused : s <= v
               /\ sess' = [sess EXCEPT ![s] =
                    [status |-> "ACTIVE", fresh |-> req[c].mine /\ quiz.session = None,
                     next |-> 1, count |-> 0]]
               /\ Reply(c, [NoAnswer EXCEPT !.ok = TRUE, !.sess = s, !.next = 1])
    <2>1. PICK s \in Unused :
               /\ sess' = [sess EXCEPT ![s] =
                    [status |-> "ACTIVE", fresh |-> req[c].mine /\ quiz.session = None,
                     next |-> 1, count |-> 0]]
               /\ Reply(c, [NoAnswer EXCEPT !.ok = TRUE, !.sess = s, !.next = 1])
      BY <1>3
    <2>2. s \in Sessions /\ sess[s].status = "NONE"
      BY DEF Unused
    <2>3. PICK a \in QuizAnswer : a.ok /\ a.sess = s /\ Reply(c, a)
      <3> DEFINE a == [NoAnswer EXCEPT !.ok = TRUE, !.sess = s, !.next = 1]
      <3>1. a \in QuizAnswer /\ a.ok /\ a.sess = s
        BY <2>2, QuizConstants DEF QuizAnswer, MaybeSession
      <3>2. Reply(c, a)
        BY <2>1
      <3> HIDE DEF a
      <3> QED
        BY <3>1, <3>2
    <2>4. PICK w \in QuizSession : /\ sess' = [sess EXCEPT ![s] = w]
                                   /\ w.fresh => quiz.session = None
                                   /\ w.status = "ACTIVE" /\ w.count = 0
      <3> DEFINE w == [status |-> "ACTIVE", fresh |-> req[c].mine /\ quiz.session = None,
                       next |-> 1, count |-> 0]
      <3>1. req[c].mine \in BOOLEAN
        BY <1>1 DEF QuizTypes, QuizCall
      <3>2. w \in QuizSession /\ (w.fresh => quiz.session = None) /\ w.status = "ACTIVE" /\ w.count = 0
        BY <3>1 DEF QuizSession
      <3>3. sess' = [sess EXCEPT ![s] = w]
        BY <2>1
      <3> HIDE DEF w
      <3> QED
        BY <3>2, <3>3
    <2>5. VisitInv'
      BY <1>1, <2>2, <2>3, <2>4, ServedVisit
    <2>6. ASSUME NEW u \in Sessions PROVE CapFor(u)'
      <3>1. sess'[u] = IF u = s THEN w ELSE sess[u]
        BY <1>1, <2>2, <2>4 DEF QuizTypes
      <3>2. CASE u = s
        <4>1. SUFFICES ASSUME w.fresh
                       PROVE  Turns(s)' \in Nat /\ Turns(s)' <= 1
          <5>1. Cap \in Nat \ {0} /\ faults \in Nat /\ faults' = faults
            BY <1>1, QuizAssumption DEF QuizTypes
          <5> QED
            BY <2>4, <3>1, <3>2, <4>1, <5>1 DEF CapFor, Live
        <4>2. quiz'.session = None /\ s # None
          BY <2>2, <2>4, <4>1, QuizConstants
        <4>3. ~Open(s)'
          BY <4>2 DEF Open
        <4>4. \A d \in Slots : d # c => ~Reopens(d, s)'
          <5> TAKE d \in Slots
          <5> SUFFICES ASSUME d # c PROVE ~Reopens(d, s)'
            OBVIOUS
          <5>1. RequestOK(d) /\ req'[d] = req[d]
            BY <1>1, <2>3 DEF VisitInv, Reply, QuizTypes
          <5> QED
            BY <2>2, <4>2, <5>1 DEF Reopens, RequestOK, Known
        <4>5. PICK B \in SUBSET Slots : B = {d \in Slots : Reopens(d, s)'}
          OBVIOUS
        <4>6. Cardinality(B) \in Nat /\ Cardinality(B) <= 1
          <5>1. B \subseteq {c}
            BY <4>4, <4>5
          <5>2. IsFiniteSet({c}) /\ Cardinality({c}) = 1
            BY FS_Singleton
          <5> QED
            BY <5>1, <5>2, SlotsFinite, FS_Subset
        <4>7. Turns(s)' = Cardinality(B) + Bit(Open(s)')
          BY <4>5 DEF Turns, Bit
        <4> QED
          BY <4>3, <4>6, <4>7 DEF Bit
      <3>3. CASE u # s
        BY <2>2, <2>3, <3>1, <3>3, ServedCap
      <3> QED
        BY <3>2, <3>3
    <2>7. TallyOK'
      BY <1>1, <2>3, <2>5, ServedTally DEF VisitInv
    <2> QED
      BY <2>5, <2>6, <2>7 DEF QuizInv, CapOK
  <1> QED
    BY <1>2, <1>3 DEF Start

LEMMA RecordServed ==
  ASSUME QuizInv, NEW c \in Slots, req[c].step = "sent", req[c].op \in {"submit", "skip"}, Record(c),
         UNCHANGED <<page, quiz, faults>>
  PROVE  QuizInv'
  <1>1. /\ VisitInv /\ CapOK /\ TallyOK /\ QuizTypes /\ HookOK /\ req[c] \in QuizCall
        /\ graded \in [TopicNames -> Int] /\ faults \in Nat /\ faults' = faults + 0
    BY DEF QuizInv, VisitInv, QuizTypes
  <1>2. PICK s \in Sessions : s = req[c].sess /\ sess[s] \in QuizSession
    BY <1>1 DEF VisitInv, RequestOK, Known, QuizTypes
  <1>3. CASE sess[s].status # "ACTIVE"
    <2>1. Reply(c, NoAnswer) /\ UNCHANGED <<sess, graded>>
      BY <1>2, <1>3 DEF Record
    <2> QED
      BY <1>1, <1>2, <1>3, <2>1, RefuseOK
  <1>4. CASE sess[s].status = "ACTIVE"
    <2>1. PICK n \in Nat : n = sess[s].count + 1
      BY <1>2 DEF QuizSession
    <2>2. PICK p \in Nat : p = IF sess[s].next < LastProblem THEN sess[s].next + 1 ELSE None
      BY <1>2, QuizConstants DEF QuizSession
    <2>3. PICK t \in TopicNames : t = Topic(req[c].prob)
      BY <1>1, QuizConstants DEF QuizCall
    <2>4. /\ sess' = [sess EXCEPT ![s].count = n, ![s].next = p]
          /\ graded' = IF req[c].op = "submit" /\ req[c].mine
                       THEN [graded EXCEPT ![t] = @ + 1] ELSE graded
          /\ \E correct \in IF req[c].op = "submit" THEN BOOLEAN ELSE {FALSE} :
               Reply(c, [ok |-> TRUE, sess |-> s, next |-> p, count |-> n, correct |-> correct])
      BY <1>2, <1>4, <2>1, <2>2, <2>3 DEF Record
    <2>5. PICK a \in QuizAnswer : a.ok /\ a.count = n /\ Reply(c, a)
      <3>1. PICK correct \in BOOLEAN :
              Reply(c, [ok |-> TRUE, sess |-> s, next |-> p, count |-> n, correct |-> correct])
        BY <2>4
      <3> DEFINE a == [ok |-> TRUE, sess |-> s, next |-> p, count |-> n, correct |-> correct]
      <3>2. a \in QuizAnswer /\ a.ok /\ a.count = n
        BY <1>2 DEF QuizAnswer, MaybeSession
      <3>3. Reply(c, a)
        BY <3>1
      <3> HIDE DEF a
      <3> QED
        BY <3>2, <3>3
    <2>6. PICK w \in QuizSession : /\ sess' = [sess EXCEPT ![s] = w] /\ w.status = "ACTIVE"
                                   /\ w.fresh = sess[s].fresh /\ w.count = n
      <3> DEFINE w == [sess[s] EXCEPT !.count = n, !.next = p]
      <3>1. /\ w \in QuizSession /\ w.status = "ACTIVE" /\ w.fresh = sess[s].fresh /\ w.count = n
        BY <1>2, <1>4 DEF QuizSession
      <3>2. sess' = [sess EXCEPT ![s] = w]
        BY <1>1, <1>2, <2>4 DEF QuizTypes
      <3> HIDE DEF w
      <3> QED
        BY <3>1, <3>2
    <2>7. PICK q \in QuizCall :
             /\ req' = [req EXCEPT ![c] = q] /\ req'[c] = q /\ q.step = "answered" /\ q.ans = a
             /\ q.op = req[c].op /\ q.sess = req[c].sess /\ q.prob = req[c].prob
             /\ q.mine = req[c].mine
      BY <1>1, <2>5, ReplyIs
    <2>8. graded' \in [TopicNames -> Int]
      <3>1. graded' \in {graded, [graded EXCEPT ![t] = graded[t] + 1]}
        BY <2>4
      <3> QED
        BY <1>1, <3>1
    <2>9. VisitInv'
      BY <1>1, <1>2, <1>4, <2>5, <2>6, <2>8, ServedVisit
    <2>10. ASSUME NEW u \in Sessions PROVE CapFor(u)'
      <3>1. sess'[u] = IF u = s THEN w ELSE sess[u]
        BY <1>1, <1>2, <2>6 DEF QuizTypes
      <3>2. CASE u # s
        BY <1>2, <2>5, <3>1, <3>2, ServedCap
      <3>3. CASE u = s
        <4>1. SUFFICES ASSUME sess[s].fresh
                       PROVE  /\ n <= Cap + faults
                              /\ Turns(s)' <= 1 + faults /\ n + Turns(s)' <= Cap + faults
          BY <1>1, <2>6, <3>1, <3>3, <4>1 DEF CapFor, Live
        <4>2. Turns(s) <= 1 + faults /\ sess[s].count + Turns(s) <= Cap + faults
          BY <1>2, <1>1, <1>4, <4>1 DEF CapOK, CapFor, Live
        <4>3. /\ Turns(s) \in Nat /\ Turns(s)' \in Nat
              /\ Turns(s)' + Bit(Reopens(c, s)) + Bit(Open(s))
                   <= Turns(s) + Bit(Reopens(c, s)') + Bit(Open(s)')
          <5>1. \A d \in Slots : d # c /\ Reopens(d, s)' => Reopens(d, s)
            BY <1>1, <2>7 DEF QuizTypes, Reopens
          <5> QED
            BY <5>1, TurnsStep
        <4>4. Open(s)' = Open(s)
          BY <2>7 DEF Open
        <4>5. Reopens(c, s)
          BY <1>2 DEF Reopens
        <4>6. Reopens(c, s)' => n < Cap
          BY <2>5, <2>7 DEF Reopens
        <4>7. Cap \in Nat /\ sess[s].count \in Nat
          BY <1>2, QuizAssumption DEF QuizSession
        <4>8. Turns(s)' + 1 <= Turns(s) + (IF n < Cap THEN 1 ELSE 0)
          BY <4>3, <4>4, <4>5, <4>6, <4>7 DEF Bit
        <4> QED
          BY <1>1, <2>1, <4>2, <4>3, <4>7, <4>8
      <3> QED
        BY <3>2, <3>3
    <2>11. TallyOK'
      <3>1. ASSUME NEW m \in TopicNames
            PROVE  graded'[m] + Bit(OnItsWay(c, m)) + quiz.tally[m].attempts
                     = graded[m] + Bit(OnItsWay(c, m)') + quiz'.tally[m].attempts
        <4>1. quiz.tally[m].attempts \in Nat /\ graded[m] \in Int
          BY <1>1, TallyType
        <4>2. ~OnItsWay(c, m)
          BY DEF OnItsWay
        <4>3. graded'[m] = graded[m] + Bit(OnItsWay(c, m)')
          BY <1>1, <2>3, <2>4, <2>5, <2>7, <4>1 DEF OnItsWay, Bit
        <4> QED
          BY <4>1, <4>2, <4>3 DEF Bit
      <3>2. QuizTypes'
        BY <2>9 DEF VisitInv
      <3> QED
        BY <1>1, <2>7, <3>1, <3>2, TallyOne
    <2> QED
      BY <2>9, <2>10, <2>11 DEF QuizInv, CapOK
  <1> QED
    BY <1>3, <1>4

LEMMA CloseServed ==
  ASSUME QuizInv, NEW c \in Slots, req[c].step = "sent", req[c].op = "close", Close(c),
         UNCHANGED <<page, quiz, faults>>
  PROVE  QuizInv'
  <1>1. /\ VisitInv /\ CapOK /\ TallyOK /\ QuizTypes /\ HookOK /\ req[c] \in QuizCall
        /\ graded' = graded /\ graded \in [TopicNames -> Int] /\ faults' = faults + 0
    BY DEF QuizInv, VisitInv, QuizTypes, Close
  <1>2. PICK s \in Sessions : s = req[c].sess /\ sess[s] \in QuizSession
    BY <1>1 DEF VisitInv, RequestOK, Known, QuizTypes
  <1>3. CASE sess[s].status # "ACTIVE"
    <2>1. Reply(c, NoAnswer) /\ UNCHANGED sess
      BY <1>2, <1>3 DEF Close
    <2> QED
      BY <1>1, <1>2, <1>3, <2>1, RefuseOK
  <1>4. CASE sess[s].status = "ACTIVE"
    <2>1. PICK st \in {"ABANDONED", "COMPLETED"} : sess' = [sess EXCEPT ![s].status = st]
      BY <1>2, <1>4 DEF Close
    <2>2. PICK a \in QuizAnswer : a.ok /\ Reply(c, a)
      <3> DEFINE a == [NoAnswer EXCEPT !.ok = TRUE, !.sess = s, !.count = sess[s].count]
      <3>1. a \in QuizAnswer /\ a.ok
        BY <1>2, QuizConstants DEF QuizAnswer, QuizSession, MaybeSession
      <3>2. Reply(c, a)
        BY <1>2, <1>4 DEF Close
      <3> HIDE DEF a
      <3> QED
        BY <3>1, <3>2
    <2>3. PICK w \in QuizSession : /\ sess' = [sess EXCEPT ![s] = w] /\ w.status = st
                                   /\ w.fresh = sess[s].fresh /\ w.count = sess[s].count
      <3> DEFINE w == [sess[s] EXCEPT !.status = st]
      <3>1. w \in QuizSession /\ w.status = st /\ w.fresh = sess[s].fresh /\ w.count = sess[s].count
        BY <1>2 DEF QuizSession
      <3>2. sess' = [sess EXCEPT ![s] = w]
        BY <1>1, <1>2, <2>1 DEF QuizTypes
      <3> HIDE DEF w
      <3> QED
        BY <3>1, <3>2
    <2>4. VisitInv'
      BY <1>1, <1>2, <2>2, <2>3, ServedVisit
    <2>5. ASSUME NEW u \in Sessions PROVE CapFor(u)'
      <3>1. sess'[u] = IF u = s THEN w ELSE sess[u]
        BY <1>1, <1>2, <2>3 DEF QuizTypes
      <3>2. CASE u # s
        BY <1>2, <2>2, <3>1, <3>2, ServedCap
      <3>3. CASE u = s
        BY <1>1, <1>2, <2>3, <3>1, <3>3 DEF CapOK, CapFor, Live
      <3> QED
        BY <3>2, <3>3
    <2>6. TallyOK'
      BY <1>1, <2>2, <2>4, ServedTally DEF VisitInv
    <2> QED
      BY <2>4, <2>5, <2>6 DEF QuizInv, CapOK
  <1> QED
    BY <1>3, <1>4

LEMMA ServeQuizOK ==
  ASSUME QuizInv, NEW c \in Slots, ServeQuiz(c)
  PROVE  QuizInv'
  <1>1. req[c].step = "sent" /\ UNCHANGED <<page, quiz, faults>>
    BY DEF ServeQuiz, tab
  <1>2. req[c] \in QuizCall /\ RequestOK(c)
    BY DEF QuizInv, VisitInv, QuizTypes
  <1>3. CASE req[c].op = "start"
    BY <1>1, <1>3, StartServed DEF ServeQuiz
  <1>4. CASE req[c].op \in {"submit", "skip"}
    BY <1>1, <1>4, RecordServed DEF ServeQuiz
  <1>5. CASE req[c].op = "close"
    BY <1>1, <1>5, CloseServed DEF ServeQuiz
  <1> QED
    BY <1>1, <1>2, <1>3, <1>4, <1>5 DEF QuizCall, RequestOK

-----------------------------------------------------------------------------
(* The quiz: an answer arrives *)

(* What is left of a request: nothing, or after a skip that ends the quiz    *)
(* the request to close the same session.                                    *)
LEMMA LeftIs ==
  ASSUME QuizTypes, NEW c \in Slots, req[c].step = "answered", Deliver(c)
  PROVE  \E q \in QuizCall :
           /\ req' = [req EXCEPT ![c] = q] /\ req'[c] = q
           /\ \/ q = Free
              \/ /\ req[c].op = "skip" /\ q.op = "close" /\ q.step = "sent"
                 /\ q.sess = req[c].sess /\ q.mine = req[c].mine
  <1>1. req[c] \in QuizCall /\ req \in [Slots -> QuizCall]
    BY DEF QuizTypes
  <1>2. CASE req[c].op = "skip" /\ SkipFinishes(req[c])
    <2> DEFINE q == [Free EXCEPT !.op = "close", !.step = "sent", !.sess = req[c].sess,
                                 !.mine = req[c].mine]
    <2>1. /\ q \in QuizCall /\ q.op = "close" /\ q.step = "sent"
          /\ q.sess = req[c].sess /\ q.mine = req[c].mine
      BY <1>1, QuizConstants DEF QuizCall
    <2>2. req' = [req EXCEPT ![c] = q] /\ req'[c] = q
      BY <1>1, <1>2 DEF Deliver
    <2> HIDE DEF q
    <2> QED
      BY <1>2, <2>1, <2>2
  <1>3. CASE ~(req[c].op = "skip" /\ SkipFinishes(req[c]))
    BY <1>1, <1>3, QuizConstants DEF Deliver
  <1> QED
    BY <1>2, <1>3

LEMMA SettledIs ==
  ASSUME NEW r \in QuizCall, r.op \in {"submit", "skip", "close"}, QuizTypes
  PROVE  \E t \in QuizState :
           /\ t = Settled(r) /\ t.session = quiz.session /\ t.starting = quiz.starting
           /\ t.problem = quiz.problem \/ r.op = "skip"
           /\ r.op = "submit" /\ r.ans.ok => t.phase = "result" /\ t.count = r.ans.count
           /\ r.op = "close" /\ r.ans.ok => t.phase = "done"
           /\ r.op = "skip" /\ r.ans.ok /\ r.ans.count >= Cap => t.phase = "closing"
           /\ \A n \in TopicNames : t.tally[n].attempts = quiz.tally[n].attempts +
                Bit(r.op = "submit" /\ r.ans.ok /\ Topic(r.prob) = n)
  <1>1. /\ quiz \in QuizState /\ r.ans \in QuizAnswer /\ r.ans.ok \in BOOLEAN
        /\ r.ans.next \in Nat /\ r.ans.count \in Nat
        /\ \A n \in TopicNames : quiz.tally[n].attempts \in Nat
    BY DEF QuizTypes, QuizCall, QuizAnswer, QuizState, Tallies
  <1>2. CASE r.op = "submit"
    <2>1. CASE r.ans.ok
      <3>1. PICK n \in TopicNames : n = Topic(r.prob)
        BY QuizConstants DEF QuizCall
      <3>2. PICK e \in Nat : e = IF r.ans.correct THEN 1 ELSE 0
        OBVIOUS
      <3>3. PICK y \in Tallies :
              /\ y = [quiz.tally EXCEPT ![n].attempts = @ + 1, ![n].correct = @ + e]
              /\ \A m \in TopicNames : y[m].attempts = quiz.tally[m].attempts + Bit(n = m)
        <4> DEFINE y == [quiz.tally EXCEPT ![n].attempts = @ + 1, ![n].correct = @ + e]
        <4>1. /\ quiz.tally \in [TopicNames -> [attempts : Nat, correct : Nat]]
              /\ quiz.tally[n].attempts + 1 \in Nat /\ quiz.tally[n].correct + e \in Nat
          BY <1>1 DEF QuizState, Tallies
        <4>2. y \in Tallies
          BY <4>1 DEF Tallies
        <4>3. \A m \in TopicNames : y[m].attempts =
                IF n = m THEN quiz.tally[m].attempts + 1 ELSE quiz.tally[m].attempts
          BY <4>1
        <4>4. \A m \in TopicNames : y[m].attempts = quiz.tally[m].attempts + Bit(n = m)
          BY <1>1, <4>3 DEF Bit
        <4> HIDE DEF y
        <4> QED
          BY <4>2, <4>4 DEF y
      <3> DEFINE t == [quiz EXCEPT !.phase = "result", !.count = r.ans.count,
                                   !.result = r.ans.next, !.tally = y]
      <3>4. /\ t \in QuizState /\ t.session = quiz.session /\ t.starting = quiz.starting
            /\ t.problem = quiz.problem /\ t.phase = "result" /\ t.count = r.ans.count
            /\ t.tally = y
        BY <1>1 DEF QuizState
      <3>5. t = Settled(r)
        BY <1>2, <2>1, <3>1, <3>2, <3>3 DEF Settled, Submitted, TallyNow
      <3> HIDE DEF t
      <3>6. \A m \in TopicNames : t.tally[m].attempts = quiz.tally[m].attempts +
                Bit(r.op = "submit" /\ r.ans.ok /\ Topic(r.prob) = m)
        BY <1>2, <2>1, <3>1, <3>3, <3>4 DEF Bit
      <3> QED
        BY <1>2, <3>4, <3>5, <3>6
    <2>2. CASE ~r.ans.ok
      <3> DEFINE t == [quiz EXCEPT !.phase = "active", !.error = TRUE]
      <3>1. /\ t \in QuizState /\ t.session = quiz.session /\ t.starting = quiz.starting
            /\ t.problem = quiz.problem /\ t.tally = quiz.tally
        BY <1>1 DEF QuizState
      <3>2. t = Settled(r)
        BY <1>2, <2>2 DEF Settled, Submitted
      <3> HIDE DEF t
      <3> QED
        BY <1>1, <1>2, <2>2, <3>1, <3>2 DEF Bit
    <2> QED
      BY <1>1, <2>1, <2>2
  <1>3. CASE r.op = "skip"
    <2>1. CASE SkipFinishes(r)
      <3> DEFINE t == [quiz EXCEPT !.phase = "closing", !.error = FALSE]
      <3>1. /\ t \in QuizState /\ t.session = quiz.session /\ t.starting = quiz.starting
            /\ t.tally = quiz.tally /\ t.phase = "closing"
        BY <1>1 DEF QuizState
      <3>2. t = Settled(r)
        BY <1>3, <2>1 DEF Settled
      <3> HIDE DEF t
      <3> QED
        BY <1>1, <1>3, <3>1, <3>2 DEF Bit
    <2>2. CASE ~SkipFinishes(r)
      <3>1. PICK t \in QuizState : /\ t = Skipped(quiz, r.ans) /\ t.session = quiz.session
                                   /\ t.starting = quiz.starting /\ t.tally = quiz.tally
        <4> DEFINE t == Skipped(quiz, r.ans)
        <4>1. /\ t \in QuizState /\ t.session = quiz.session /\ t.starting = quiz.starting
              /\ t.tally = quiz.tally
          BY <1>1 DEF Skipped, QuizState
        <4> HIDE DEF t
        <4> QED
          BY <4>1 DEF t
      <3>2. t = Settled(r) /\ ~(r.ans.ok /\ r.ans.count >= Cap)
        BY <1>3, <2>2, <3>1 DEF Settled, SkipFinishes, AtTheCap
      <3> QED
        BY <1>1, <1>3, <3>1, <3>2 DEF Bit
    <2> QED
      BY <2>1, <2>2
  <1>4. CASE r.op = "close"
    <2>1. PICK t \in QuizState : /\ t = Finished(quiz, r.ans) /\ t.session = quiz.session
                                 /\ t.starting = quiz.starting /\ t.tally = quiz.tally
                                 /\ t.problem = quiz.problem
                                 /\ r.ans.ok => t.phase = "done"
      <3> DEFINE t == Finished(quiz, r.ans)
      <3>1. /\ t \in QuizState /\ t.session = quiz.session /\ t.starting = quiz.starting
            /\ t.tally = quiz.tally /\ t.problem = quiz.problem
            /\ r.ans.ok => t.phase = "done"
        BY <1>1 DEF Finished, QuizState
      <3> HIDE DEF t
      <3> QED
        BY <3>1 DEF t
    <2>2. t = Settled(r)
      BY <1>4, <2>1 DEF Settled
    <2> QED
      BY <1>1, <1>4, <2>1, <2>2 DEF Bit
  <1> QED
    BY <1>2, <1>3, <1>4

LEMMA RecordDelivered ==
  ASSUME QuizInv, NEW c \in Slots, Deliver(c), req[c].op \in {"submit", "skip", "close"}
  PROVE  QuizInv'
  <1>1. /\ VisitInv /\ CapOK /\ TallyOK /\ QuizTypes /\ HookOK /\ req[c] \in QuizCall
        /\ RequestOK(c) /\ quiz \in QuizState
    BY DEF QuizInv, VisitInv, QuizTypes
  <1>2. /\ req[c].step = "answered" /\ UNCHANGED <<page, faults, sess, graded>>
        /\ faults' = faults + 0
    BY <1>1 DEF Deliver, tab, QuizTypes
  <1>3. PICK q \in QuizCall :
           /\ req' = [req EXCEPT ![c] = q] /\ req'[c] = q
           /\ \/ q = Free
              \/ /\ req[c].op = "skip" /\ q.op = "close" /\ q.step = "sent"
                 /\ q.sess = req[c].sess /\ q.mine = req[c].mine
    BY <1>1, <1>2, LeftIs
  <1>4. PICK t \in QuizState :
           /\ quiz' = t /\ t.session = quiz.session /\ t.starting = quiz.starting
           /\ ~req[c].mine => t = quiz
           /\ req[c].mine =>
                /\ req[c].op = "submit" /\ req[c].ans.ok => t.phase = "result" /\ t.count = req[c].ans.count
                /\ req[c].op = "close" /\ req[c].ans.ok => t.phase = "done"
                /\ req[c].op = "skip" /\ req[c].ans.ok /\ req[c].ans.count >= Cap => t.phase = "closing"
                /\ \A n \in TopicNames : t.tally[n].attempts = quiz.tally[n].attempts +
                     Bit(req[c].op = "submit" /\ req[c].ans.ok /\ Topic(req[c].prob) = n)
           /\ t.problem = quiz.problem \/ (req[c].mine /\ req[c].op = "skip")
    <2>1. CASE req[c].mine
      <3>1. quiz' = Settled(req[c])
        BY <2>1 DEF Deliver
      <3> QED
        BY <1>1, <2>1, <3>1, SettledIs
    <2>2. CASE ~req[c].mine
      <3>1. quiz' = quiz
        BY <2>2 DEF Deliver
      <3> QED
        BY <1>1, <2>2, <3>1
    <2> QED
      BY <2>1, <2>2
  <1>5. QuizTypes'
    BY <1>1, <1>2, <1>3, <1>4 DEF QuizTypes
  <1>6. VisitInv'
    <2>1. SessionsKeep
      BY <1>2 DEF SessionsKeep
    <2>2. HookOK'
      BY <1>1, <1>2, <1>4 DEF HookOK, Known, RequestOK
    <2>3. RequestOK(c)'
      BY <1>1, <1>2, <1>3, <1>4, QuizConstants DEF RequestOK, Known
    <2>4. ~MyStart(c)'
      BY <1>3, QuizConstants DEF MyStart
    <2> QED
      BY <1>1, <1>2, <1>3, <1>4, <1>5, <2>1, <2>2, <2>3, <2>4, OneRequest
  <1>7. CapOK'
    <2>1. ASSUME NEW s \in Sessions PROVE CapFor(s)'
      <3>1. ASSUME Live(s)
            PROVE  Bit(Reopens(c, s)') + Bit(Open(s)') <= Bit(Reopens(c, s)) + Bit(Open(s)) + 0
        <4>1. ~Reopens(c, s)'
          BY <1>3, QuizConstants DEF Reopens
        <4>2. Open(s)' => Open(s) \/ Reopens(c, s)
          <5>1. CASE ~req[c].mine
            BY <1>4, <5>1 DEF Open
          <5>2. CASE req[c].mine
            <6>1. SUFFICES ASSUME Open(s)' PROVE Reopens(c, s)
              OBVIOUS
            <6>2. quiz.session = s /\ req[c].sess = s
              BY <1>1, <1>4, <3>1, <5>2, <6>1 DEF Open, RequestOK, Live
            <6>3. /\ t.phase \in {"active", "error"} \/ (t.phase = "result" /\ t.count < Cap)
                  /\ req[c].ans.count \in Nat /\ Cap \in Nat
              BY <1>1, <1>4, <6>1, QuizAssumption DEF Open, QuizCall, QuizAnswer
            <6> QED
              BY <1>2, <1>4, <5>2, <6>2, <6>3 DEF Reopens
          <5> QED
            BY <5>1, <5>2
        <4> QED
          BY <4>1, <4>2 DEF Bit
      <3>2. sess'[s] = sess[s]
        BY <1>2
      <3> QED
        BY <1>1, <1>2, <1>3, <1>4, <3>1, <3>2, CapOne
    <2> QED
      BY <2>1 DEF CapOK
  <1>8. TallyOK'
    <2>1. ASSUME NEW n \in TopicNames
          PROVE  graded'[n] + Bit(OnItsWay(c, n)) + quiz.tally[n].attempts
                   = graded[n] + Bit(OnItsWay(c, n)') + quiz'.tally[n].attempts
      <3>1. quiz.tally[n].attempts \in Nat /\ graded[n] \in Int
        BY <1>1, TallyType
      <3>2. ~OnItsWay(c, n)'
        BY <1>3, QuizConstants DEF OnItsWay
      <3>3. quiz'.tally[n].attempts = quiz.tally[n].attempts + Bit(OnItsWay(c, n))
        <4>1. CASE req[c].mine
          <5>1. Bit(OnItsWay(c, n)) = Bit(req[c].op = "submit" /\ req[c].ans.ok /\ Topic(req[c].prob) = n)
            BY <1>2, <4>1 DEF OnItsWay, Bit
          <5> QED
            BY <1>4, <4>1, <5>1
        <4>2. CASE ~req[c].mine
          BY <1>4, <3>1, <4>2 DEF OnItsWay, Bit
        <4> QED
          BY <4>1, <4>2
      <3> QED
        BY <1>2, <3>1, <3>2, <3>3 DEF Bit
    <2> QED
      BY <1>1, <1>3, <1>5, <2>1, TallyOne
  <1> QED
    BY <1>6, <1>7, <1>8 DEF QuizInv

LEMMA StartDelivered ==
  ASSUME QuizInv, NEW c \in Slots, Deliver(c), req[c].op = "start"
  PROVE  QuizInv'
  <1>1. /\ VisitInv /\ CapOK /\ TallyOK /\ QuizTypes /\ HookOK /\ req[c] \in QuizCall
        /\ RequestOK(c) /\ quiz \in QuizState /\ req[c].ans \in QuizAnswer
        /\ req[c].ans.next \in Nat /\ req[c].ans.sess \in MaybeSession
        /\ req[c].ans.ok \in BOOLEAN /\ req[c].mine \in BOOLEAN
    BY DEF QuizInv, VisitInv, QuizTypes, QuizCall, QuizAnswer
  <1>2. /\ req[c].step = "answered" /\ UNCHANGED <<page, faults, sess, graded>>
        /\ faults' = faults + 0
    BY <1>1 DEF Deliver, tab, QuizTypes
  <1>3. PICK q \in QuizCall : req' = [req EXCEPT ![c] = q] /\ req'[c] = q /\ q = Free
    BY <1>1, <1>2, LeftIs
  <1>4. PICK t \in QuizState :
           /\ quiz' = t /\ t.tally = quiz.tally
           /\ ~req[c].mine => t = quiz
           /\ req[c].mine /\ ~req[c].ans.ok => t.session = quiz.session /\ t.problem = quiz.problem
           /\ req[c].mine /\ req[c].ans.ok => t.session = req[c].ans.sess /\ t.phase = "active"
    <2>1. CASE ~req[c].mine
      BY <1>1, <2>1 DEF Deliver
    <2>2. CASE req[c].mine /\ ~req[c].ans.ok
      <3> DEFINE t == [quiz EXCEPT !.phase = "error", !.starting = FALSE, !.error = TRUE]
      <3>1. /\ t \in QuizState /\ t.session = quiz.session /\ t.problem = quiz.problem
            /\ t.tally = quiz.tally
        BY <1>1 DEF QuizState
      <3>2. quiz' = t
        BY <2>2 DEF Deliver, Settled, Started
      <3> HIDE DEF t
      <3> QED
        BY <2>2, <3>1, <3>2
    <2>3. CASE req[c].mine /\ req[c].ans.ok
      <3> DEFINE t == [quiz EXCEPT !.phase = "active", !.session = req[c].ans.sess,
                                   !.problem = req[c].ans.next, !.starting = FALSE]
      <3>1. /\ t \in QuizState /\ t.session = req[c].ans.sess /\ t.phase = "active"
            /\ t.tally = quiz.tally
        BY <1>1 DEF QuizState
      <3>2. quiz' = t
        BY <2>3 DEF Deliver, Settled, Started
      <3> HIDE DEF t
      <3> QED
        BY <2>3, <3>1, <3>2
    <2> QED
      BY <1>1, <2>1, <2>2, <2>3
  <1>5. QuizTypes'
    BY <1>1, <1>2, <1>3, <1>4 DEF QuizTypes
  <1>6. \A d \in Slots : d # c => req'[d] = req[d] /\ RequestOK(d)
    BY <1>1, <1>3 DEF VisitInv, QuizTypes
  <1>7. req[c].mine => \A d \in Slots : d # c => ~MyStart(d)
    BY <1>1 DEF VisitInv, OneStart, MyStart
  <1>8. VisitInv'
    <2>1. HookOK'
      BY <1>1, <1>2, <1>4, QuizConstants DEF HookOK, Known, RequestOK
    <2>2. RequestOK(c)'
      BY <1>2, <1>3, QuizConstants DEF RequestOK
    <2>3. ASSUME NEW d \in Slots, d # c PROVE RequestOK(d)'
      <3>1. RequestOK(d) /\ req'[d] = req[d]
        BY <1>6, <2>3
      <3>2. CASE ~req[c].mine
        BY <1>2, <1>4, <3>1, <3>2 DEF RequestOK, Known
      <3>3. CASE req[c].mine /\ ~req[c].ans.ok
        BY <1>2, <1>4, <1>7, <2>3, <3>1, <3>3 DEF RequestOK, Known, MyStart
      <3>4. CASE req[c].mine /\ req[c].ans.ok
        <4>1. Known(req[c].ans.sess) /\ (sess[req[c].ans.sess].fresh => quiz.session = None)
          BY <1>1, <1>2, <3>4 DEF RequestOK
        <4>2. req[c].ans.sess # None
          BY <4>1, QuizConstants DEF Known
        <4> QED
          BY <1>2, <1>4, <1>7, <2>3, <3>1, <3>4, <4>1, <4>2 DEF RequestOK, Known, MyStart
      <3> QED
        BY <1>1, <3>2, <3>3, <3>4
    <2>4. OneStart'
      BY <1>1, <1>3, <1>6, QuizConstants DEF VisitInv, OneStart, MyStart
    <2> QED
      BY <1>5, <2>1, <2>2, <2>3, <2>4 DEF VisitInv
  <1>9. CapOK'
    <2>1. ASSUME NEW s \in Sessions PROVE CapFor(s)'
      <3>1. sess'[s] = sess[s]
        BY <1>2
      <3>2. ~Reopens(c, s)'
        BY <1>3, QuizConstants DEF Reopens
      <3>3. CASE ~req[c].mine \/ ~req[c].ans.ok
        <4>1. t.session = quiz.session
          BY <1>1, <1>4, <3>3
        <4>2. Open(s)' => Open(s) \/ Reopens(c, s)
          BY <1>1, <1>2, <1>4, <3>3 DEF Open, Reopens
        <4>3. Bit(Reopens(c, s)') + Bit(Open(s)') <= Bit(Reopens(c, s)) + Bit(Open(s)) + 0
          BY <3>2, <4>2 DEF Bit
        <4> QED
          BY <1>1, <1>2, <1>3, <1>4, <3>1, <4>1, <4>3, CapOne
      <3>4. CASE req[c].mine /\ req[c].ans.ok
        <4>1. \A d \in Slots : d # c /\ Reopens(d, s)' => Reopens(d, s)
          BY <1>6, <1>7, <3>4 DEF Reopens, MyStart
        <4>2. /\ Turns(s) \in Nat /\ Turns(s)' \in Nat
              /\ Turns(s)' + Bit(Reopens(c, s)) + Bit(Open(s))
                   <= Turns(s) + Bit(Reopens(c, s)') + Bit(Open(s)')
          BY <4>1, TurnsStep
        <4>3. Open(s)' => Reopens(c, s)
          BY <1>2, <1>4, <3>4 DEF Open, Reopens
        <4>4. Turns(s)' <= Turns(s) + 0
          BY <3>2, <4>2, <4>3 DEF Bit
        <4> QED
          BY <1>1, <1>2, <3>1, <4>2, <4>4, CapSame
      <3> QED
        BY <1>1, <3>3, <3>4
    <2> QED
      BY <2>1 DEF CapOK
  <1>10. TallyOK'
    <2>1. ASSUME NEW n \in TopicNames
          PROVE  graded'[n] + Bit(OnItsWay(c, n)) + quiz.tally[n].attempts
                   = graded[n] + Bit(OnItsWay(c, n)') + quiz'.tally[n].attempts
      BY <1>2, <1>3, <1>4, QuizConstants DEF OnItsWay, Bit
    <2> QED
      BY <1>1, <1>3, <1>5, <2>1, TallyOne
  <1> QED
    BY <1>8, <1>9, <1>10 DEF QuizInv

LEMMA DeliverOK ==
  ASSUME QuizInv, NEW c \in Slots, Deliver(c)
  PROVE  QuizInv'
  <1>1. req[c] \in QuizCall /\ RequestOK(c) /\ req[c].step = "answered"
    BY DEF QuizInv, VisitInv, QuizTypes, Deliver
  <1>2. req[c].op \in {"start", "submit", "skip", "close"}
    BY <1>1 DEF QuizCall, RequestOK
  <1> QED
    BY <1>2, StartDelivered, RecordDelivered

-----------------------------------------------------------------------------
(* The quiz: the page comes and goes *)

LEMMA LeaveQuizOK ==
  ASSUME QuizInv, NEW s0, LeaveQuiz(s0), NEW k \in {0, 1}, faults' = faults + k
  PROVE  QuizInv'
  <1>1. /\ VisitInv /\ CapOK /\ TallyOK /\ QuizTypes /\ HookOK /\ faults \in Nat
    BY DEF QuizInv, VisitInv, QuizTypes
  <1>2. /\ quiz' = INITIAL_STATE /\ sess' = sess /\ graded' = [t \in TopicNames |-> 0]
        /\ quiz'.session = None /\ quiz'.problem = None
    BY QuizConstants DEF LeaveQuiz
  <1>3. req' \in [Slots -> QuizCall]
    BY <1>1, ZenonT(40) DEF LeaveQuiz, QuizTypes, QuizCall
  <1>4. ASSUME NEW d \in Slots
        PROVE  /\ ~req'[d].mine /\ req'[d].op = req[d].op /\ req'[d].step = req[d].step
               /\ req'[d].sess = req[d].sess /\ req'[d].ans = req[d].ans
               /\ RequestOK(d)
    BY <1>1 DEF LeaveQuiz, QuizTypes, QuizCall, VisitInv
  <1>5. QuizTypes'
    BY <1>1, <1>2, <1>3, QuizConstants DEF QuizTypes
  <1>6. VisitInv'
    <2>1. \A d \in Slots : RequestOK(d)'
      BY <1>2, <1>4 DEF RequestOK, Known
    <2>2. OneStart'
      BY <1>4 DEF OneStart, MyStart
    <2>3. HookOK'
      BY <1>1, <1>2 DEF HookOK
    <2> QED
      BY <1>5, <2>1, <2>2, <2>3 DEF VisitInv
  <1>7. ASSUME NEW s \in Sessions PROVE CapFor(s)'
    <2>1. \A d \in Slots : Reopens(d, s)' => Reopens(d, s)
      BY <1>4 DEF Reopens
    <2>2. ~Open(s)'
      BY <1>2, QuizConstants DEF Open
    <2>3. Turns(s) \in Nat /\ Turns(s)' \in Nat /\ Turns(s)' <= Turns(s)
      BY <2>1, <2>2, TurnsSame
    <2>4. sess'[s] = sess[s] /\ Turns(s)' <= Turns(s) + k
      BY <1>2, <2>3
    <2> QED
      BY <1>1, <2>3, <2>4, CapSame
  <1>8. ASSUME NEW t \in TopicNames
        PROVE  graded'[t] = quiz'.tally[t].attempts + Cardinality({d \in Slots : OnItsWay(d, t)'})
    <2>1. \A d \in Slots : ~OnItsWay(d, t)'
      BY <1>4 DEF OnItsWay
    <2>2. PICK B \in SUBSET Slots : B = {d \in Slots : OnItsWay(d, t)'}
      OBVIOUS
    <2>3. B = {} /\ graded'[t] = 0 /\ quiz'.tally[t].attempts = 0
      BY <1>2, <2>1, <2>2, QuizConstants
    <2>4. Cardinality(B) = 0
      BY <2>3, FS_EmptySet
    <2> QED
      BY <2>2, <2>3, <2>4
  <1> QED
    BY <1>6, <1>7, <1>8 DEF QuizInv, CapOK, TallyOK

LEMMA EnterQuizOK ==
  ASSUME QuizInv, page # "quiz", page' = "quiz", EnterQuiz, faults' = faults
  PROVE  QuizInv'
  <1>1. /\ VisitInv /\ CapOK /\ TallyOK /\ QuizTypes /\ HookOK /\ faults' = faults + 0
    BY DEF QuizInv, VisitInv, QuizTypes
  <1>2. PICK t \in QuizState : /\ quiz' = t /\ t.session = None /\ t.problem = None /\ t.starting
                               /\ t.tally = INITIAL_STATE.tally
    <2> DEFINE t == [INITIAL_STATE EXCEPT !.starting = TRUE]
    <2>1. /\ t \in QuizState /\ t.session = None /\ t.problem = None /\ t.starting
          /\ t.tally = INITIAL_STATE.tally
      BY QuizConstants DEF QuizState
    <2>2. quiz' = t
      BY DEF EnterQuiz
    <2> HIDE DEF t
    <2> QED
      BY <2>1, <2>2
  <1>3. sess' = sess /\ graded' = [n \in TopicNames |-> 0]
    BY DEF EnterQuiz
  <1>4. PICK c \in Idle : req' = [req EXCEPT ![c] =
          [Free EXCEPT !.op = "start", !.step = "sent", !.sess = None, !.prob = quiz.problem,
                       !.mine = TRUE, !.tally = quiz.tally]]
    BY DEF EnterQuiz, Request
  <1>5. c \in Slots
    BY <1>4 DEF Idle
  <1>6. PICK r \in QuizCall : req' = [req EXCEPT ![c] = r] /\ r.op = "start" /\ r.step = "sent"
    <2> DEFINE r == [Free EXCEPT !.op = "start", !.step = "sent", !.sess = None, !.prob = quiz.problem,
                       !.mine = TRUE, !.tally = quiz.tally]
    <2>1. r \in QuizCall /\ r.op = "start" /\ r.step = "sent"
      BY <1>1, QuizConstants DEF QuizCall, QuizState, QuizTypes, MaybeSession
    <2>2. req' = [req EXCEPT ![c] = r]
      BY <1>4
    <2> HIDE DEF r
    <2> QED
      BY <2>1, <2>2
  <1>7. /\ req'[c] = r
        /\ \A d \in Slots : d # c => req'[d] = req[d] /\ RequestOK(d) /\ ~req[d].mine
    BY <1>1, <1>5, <1>6 DEF QuizTypes, VisitInv, RequestOK
  <1>8. QuizTypes'
    BY <1>1, <1>2, <1>3, <1>5, <1>6 DEF QuizTypes
  <1>9. VisitInv'
    <2>1. RequestOK(c)'
      BY <1>2, <1>6, <1>7 DEF RequestOK
    <2>2. \A d \in Slots : d # c => RequestOK(d)'
      BY <1>3, <1>7 DEF RequestOK, Known
    <2>3. OneStart'
      BY <1>7 DEF OneStart, MyStart
    <2>4. HookOK'
      BY <1>1, <1>2, <1>3 DEF HookOK
    <2> QED
      BY <1>8, <2>1, <2>2, <2>3, <2>4 DEF VisitInv
  <1>10. ASSUME NEW s \in Sessions PROVE CapFor(s)'
    <2>1. \A d \in Slots : Reopens(d, s)' => Reopens(d, s)
      BY <1>6, <1>7 DEF Reopens
    <2>2. ~Open(s)'
      BY <1>2, QuizConstants DEF Open
    <2>3. Turns(s) \in Nat /\ Turns(s)' \in Nat /\ Turns(s)' <= Turns(s)
      BY <2>1, <2>2, TurnsSame
    <2>4. sess'[s] = sess[s] /\ Turns(s)' <= Turns(s) + 0
      BY <1>3, <2>3
    <2> QED
      BY <1>1, <2>3, <2>4, CapSame
  <1>11. ASSUME NEW n \in TopicNames
         PROVE  graded'[n] = quiz'.tally[n].attempts + Cardinality({d \in Slots : OnItsWay(d, n)'})
    <2>1. \A d \in Slots : ~OnItsWay(d, n)'
      BY <1>6, <1>7 DEF OnItsWay
    <2>2. PICK B \in SUBSET Slots : B = {d \in Slots : OnItsWay(d, n)'}
      OBVIOUS
    <2>3. B = {} /\ graded'[n] = 0 /\ quiz'.tally[n].attempts = 0
      BY <1>2, <1>3, <2>1, <2>2, QuizConstants
    <2>4. Cardinality(B) = 0
      BY <2>3, FS_EmptySet
    <2> QED
      BY <2>2, <2>3, <2>4
  <1> QED
    BY <1>9, <1>10, <1>11 DEF QuizInv, CapOK, TallyOK

(* What happens to the evidence, and on other pages, is no step of the quiz, *)
(* but its faults count.                                                     *)
LEMMA BesideQuiz ==
  ASSUME QuizInv, UNCHANGED <<page, quiz, req, sess, graded>>, NEW k \in {0, 1}, faults' = faults + k
  PROVE  QuizInv'
  <1>1. VisitInv /\ CapOK /\ TallyOK /\ faults \in Nat
    BY DEF QuizInv, VisitInv, QuizTypes
  <1>2. VisitInv'
    BY <1>1 DEF VisitInv, QuizTypes, RequestOK, Known, OneStart, MyStart, HookOK
  <1>3. ASSUME NEW s \in Sessions PROVE CapFor(s)'
    <2>1. \A d \in Slots : Reopens(d, s)' => Reopens(d, s)
      BY DEF Reopens
    <2>2. Open(s)' => Open(s)
      BY DEF Open
    <2>3. Turns(s) \in Nat /\ Turns(s)' \in Nat /\ Turns(s)' <= Turns(s)
      BY <2>1, <2>2, TurnsSame
    <2>4. sess'[s] = sess[s] /\ Turns(s)' <= Turns(s) + k
      BY <2>3
    <2> QED
      BY <1>1, <2>3, <2>4, CapSame
  <1>4. TallyOK'
    BY <1>1 DEF TallyOK, OnItsWay
  <1> QED
    BY <1>2, <1>3, <1>4 DEF QuizInv, CapOK

LEMMA EvidenceTab ==
  ASSUME \/ \E s \in Sources : ServeOrAnswer(s) \/ Process(s)
         \/ JobCompleted \/ EvidenceClick \/ Abandon
  PROVE  page' = page /\ (faults' = faults \/ faults' = faults + 1)
  <1>1. CASE JobCompleted \/ EvidenceClick \/ Abandon
    BY <1>1 DEF JobCompleted, EvidenceClick, addConnector, addUpload, ConnectorForm, Add,
                handleDisconnect, removeSource, Abandon, Fault, tab
  <1>2. ASSUME NEW s \in Sources, ServeOrAnswer(s)
        PROVE  page' = page /\ (faults' = faults \/ faults' = faults + 1)
    BY <1>2 DEF ServeOrAnswer, Serve, Answered, Refused, scheduleAssumedDone, Fault, tab
  <1>3. ASSUME NEW s \in Sources, Process(s)
        PROVE  page' = page /\ (faults' = faults \/ faults' = faults + 1)
    BY <1>3 DEF Process, Mark, Fetch, CreateExtract, EnqueueHypothesisGeneration, Purge,
                UpdateSourceStatus, Fault, tab
  <1> QED
    BY <1>1, <1>2, <1>3

LEMMA MoveOK ==
  ASSUME QuizInv, NEW p, NEW s0, Move(p, s0), NEW k \in {0, 1}, faults' = faults + k,
         p = "quiz" => page # "quiz" /\ k = 0
  PROVE  QuizInv'
  <1>1. faults \in Nat /\ page' = p
    BY DEF QuizInv, VisitInv, QuizTypes, Move
  <1>2. CASE p = "quiz"
    BY <1>1, <1>2, EnterQuizOK DEF Move
  <1>3. CASE p # "quiz"
    BY <1>3, LeaveQuizOK DEF Move
  <1> QED
    BY <1>2, <1>3

LEMMA NextQuiz ==
  ASSUME QuizInv, [Next]_vars
  PROVE  QuizInv'
  <1>0. faults \in Nat
    BY DEF QuizInv, VisitInv, QuizTypes
  <1>1. CASE /\ \/ \E s \in Sources : ServeOrAnswer(s) \/ Process(s)
                \/ JobCompleted \/ EvidenceClick \/ Abandon
             /\ UNCHANGED diagnosis
    <2>1. page' = page /\ (faults' = faults \/ faults' = faults + 1)
      BY <1>1, EvidenceTab
    <2>2. PICK k \in {0, 1} : faults' = faults + k
      BY <1>0, <2>1
    <2> QED
      BY <1>1, <2>1, <2>2, BesideQuiz DEF diagnosis
  <1>2. CASE \E c \in Slots : RequestSteps(c)
    BY <1>2, JudgeOK, ServeQuizOK, DeliverOK DEF RequestSteps
  <1>3. CASE \E c \in Slots : Lose(c)
    BY <1>3, LoseOK
  <1>4. CASE QuizClick
    BY <1>4, QuizClickOK
  <1>5. CASE GenerateFails
    <2>1. UNCHANGED <<page, quiz, req, sess, graded>> /\ faults' = faults + 1
      BY <1>5 DEF GenerateFails, Fault
    <2> QED
      BY <2>1, BesideQuiz
  <1>6. CASE Follow
    <2>1. PICK p \in Links(page) : Move(p, None)
      BY <1>6 DEF Follow
    <2>2. faults' = faults + 0
      BY <1>0, <1>6 DEF Follow
    <2>3. p = "quiz" => page # "quiz"
      BY <2>1 DEF Links
    <2> QED
      BY <2>1, <2>2, <2>3, MoveOK
  <1>7. CASE Done \/ SkipUnstarted \/ GenerateSucceeds
    <2>1. PICK p \in {"results", "away"}, s0 \in {quiz.session, None} : Move(p, s0)
      BY <1>7 DEF Done, SkipUnstarted, GenerateSucceeds
    <2>2. faults' = faults + 0
      BY <1>0, <1>7 DEF Done, SkipUnstarted, GenerateSucceeds
    <2> QED
      BY <2>1, <2>2, MoveOK
  <1>8. CASE SignedOut
    <2>1. Move("away", None) /\ faults' = faults + 1
      BY <1>8 DEF SignedOut, Fault
    <2> QED
      BY <2>1, MoveOK
  <1>9. CASE UNCHANGED vars
    <2>1. UNCHANGED <<page, quiz, req, sess, graded>> /\ faults' = faults + 0
      BY <1>0, <1>9 DEF vars, tab, diagnosis
    <2> QED
      BY <2>1, BesideQuiz
  <1> QED
    BY <1>1, <1>2, <1>3, <1>4, <1>5, <1>6, <1>7, <1>8, <1>9 DEF Next, Progress

LEMMA InitQuizInv == Init => QuizInv
  BY InitVisit, InitCap, InitTally DEF QuizInv

(* The cap of the diagnostic holds for the first session of a visit however  *)
(* its submissions, skips and closes overlap: a visit has one turn to ask    *)
(* for a question, and each fault can add one (use-quiz-session.ts 143-306). *)
THEOREM CapAlwaysHolds == Spec => []CapHolds
  <1>1. QuizInv => CapHolds
    BY DEF QuizInv, CapOK, CapFor, CapHolds
  <1> QED
    BY InitQuizInv, NextQuiz, <1>1, PTL DEF Spec

(* Each graded answer of the visit is in the tally or on its way, so that a  *)
(* page that waits for none has counted each once, in its topic.             *)
THEOREM TallyAlwaysCounts == Spec => []TallyCounts
  <1>1. QuizInv => TallyCounts
    <2>1. SUFFICES ASSUME QuizInv, \A c \in Slots : ~req[c].mine, NEW t \in TopicNames
                   PROVE  quiz.tally[t].attempts = graded[t]
      BY DEF TallyCounts
    <2>2. \A c \in Slots : ~OnItsWay(c, t)
      BY <2>1 DEF OnItsWay
    <2>3. graded[t] = quiz.tally[t].attempts + 0
      BY <2>1, <2>2, NoneOnTheirWay DEF QuizInv, TallyOK
    <2>4. quiz.tally[t].attempts \in Nat
      BY <2>1, TallyType DEF QuizInv, VisitInv
    <2> QED
      BY <2>3, <2>4
  <1> QED
    BY InitQuizInv, NextQuiz, <1>1, PTL DEF Spec
=============================================================================
