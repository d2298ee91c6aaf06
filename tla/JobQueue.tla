------------------------------ MODULE JobQueue ------------------------------
(***************************************************************************)
(* Background jobs: the job records and lists in Redis, the HTTP handlers  *)
(* that post jobs, the worker pool of every server process and the         *)
(* per-user event stream.                                                  *)
(*                                                                         *)
(* LPUSH at one end and BRPOP at the other make each list a FIFO queue.    *)
(* One action is one Redis command, except that the limiter's script and   *)
(* the SET of a fresh key, and a worker's GET and SET of one record, are   *)
(* taken together: the first two concern the request alone, and the SET    *)
(* puts the worker's status over whatever was written since its GET.       *)
(*                                                                         *)
(* The client library sends a command whose reply is lost again, so that   *)
(* an id may be listed, an event told, a token taken and an id popped more *)
(* than once; of a SET that is sent again, the last one is the action.     *)
(* A user has one practice session, whose bucket of hints is not refilled  *)
(* (a token takes 2.4 hours).  Requests for a session of somebody else are *)
(* refused before they change anything and are left out.                   *)
(***************************************************************************)
EXTENDS Naturals, Sequences, FiniteSets

CONSTANTS
  Jobs, Users, Workers,
  Types,          \* job types in use: "hint" and "hypothesis_generation"
  Registered,     \* types the worker pool has a processor for
  TypeOf, OwnerOf,
  PollsFor,       \* the type a worker goroutine polls
  HasSession,     \* the hint jobs whose request names an existing session
  HintBudget,     \* capacity of the hint bucket of a session
  Failures,       \* TRUE: a Redis or PostgreSQL command may fail
  Resends,        \* times the client library sends a command again
  Crashes,        \* TRUE: a server process may stop
  Expires,        \* TRUE: the 24 hours of a record may pass
  NoJob

ASSUME QueueAssumption ==
  /\ Registered \subseteq Types
  /\ TypeOf \in [Jobs -> Types] /\ OwnerOf \in [Jobs -> Users]
  /\ PollsFor \in [Workers -> Registered]
  /\ HasSession \subseteq Jobs
  /\ HintBudget \in Nat
  /\ Resends \in Nat
  /\ Failures \in BOOLEAN /\ Crashes \in BOOLEAN /\ Expires \in BOOLEAN
  /\ NoJob \notin Jobs

VARIABLES
  post,       \* the request that posts a job
  budget,     \* hint tokens left to a user
  record,     \* the keys job:<id>
  queues,     \* the lists queue:<type>, head first to be popped
  workers,    \* the polling goroutines
  listening,  \* users whose stream is subscribed
  streamed,   \* events that went to the owner's stream, per job
  pushed,     \* history: times the id of a job was listed
  started     \* history: times a job was given to its processor

history == <<pushed, started>>
vars == <<post, budget, record, queues, workers, listening, streamed, history>>

Lifecycle == INSTANCE JobLifecycle WITH Copies <- 1 + Resends,
                                        doubled <- {j \in Jobs : pushed[j] > 1}

-----------------------------------------------------------------------------
(* Data *)

Worker == [step : {"idle", "popped", "running", "processed", "announced"},
           job : Jobs \cup {NoJob}, result : {"none", "done", "failed"}]

Polling == [step |-> "idle", job |-> NoJob, result |-> "none"]

Holds(w, j) == workers[w].job = j

IsHint(j) == TypeOf[j] = "hint"

(* The hint processor falls back to a canned text and never returns an error. *)
ResultsOf(type) == IF type = "hint" THEN {"done"} ELSE {"done", "failed"}

(* Whether a SET takes effect, and whether its caller is told. *)
Writes == {[times |-> 1, ok |-> TRUE]}
          \cup (IF Failures THEN [times : {0, 1}, ok : {FALSE}] ELSE {})

(* How often an LPUSH does. *)
Pushes == [times : 1 .. 1 + Resends, ok : {TRUE}]
          \cup (IF Failures THEN [times : 0 .. 1 + Resends, ok : {FALSE}] ELSE {})

Set(j, status, write) ==
  record' = IF write.times = 0 THEN record ELSE [record EXCEPT ![j] = status]

LPush(j, write) ==
  /\ queues' = [queues EXCEPT ![TypeOf[j]] = @ \o [i \in 1 .. write.times |-> j]]
  /\ pushed' = [pushed EXCEPT ![j] = @ + write.times]

PublishBoth(j, event) ==             \* mutant: a failure follows what was told
  streamed' = [streamed EXCEPT ![j] = @ \o <<event, "job.failed">>]

(* PublishEvent: heard by a subscribed stream, lost otherwise; no error is looked at. *)
PublishEvent(j, event) ==
  \/ /\ listening[OwnerOf[j]]
     /\ \E n \in 1 .. 1 + Resends :
          streamed' = [streamed EXCEPT ![j] = @ \o [i \in 1 .. n |-> event]]
  \/ /\ ~listening[OwnerOf[j]] \/ Failures
     /\ UNCHANGED streamed

-----------------------------------------------------------------------------
(* Posting a job *)

TakeTokenOffByOne(u) ==              \* mutant: tokens >= 0 is enough
  \/ budget' = [budget EXCEPT ![u] = IF @ > 0 THEN @ - 1 ELSE @]
  \/ Failures /\ UNCHANGED budget

(* The bucket's script; an error of it lets the request through. *)
TakeToken(u) ==
  \E n \in 0 .. 1 + Resends :
    /\ n <= budget[u] /\ (n > 0 \/ Failures)
    /\ budget' = [budget EXCEPT ![u] = @ - n]

(* The last script that was sent finds no token. *)
HintLimited(j) ==
  /\ post[j] = "unused" /\ IsHint(j)
  /\ budget[OwnerOf[j]] <= Resends
  /\ budget' = [budget EXCEPT ![OwnerOf[j]] = 0]
  /\ post' = [post EXCEPT ![j] = "limited"]
  /\ UNCHANGED <<record, queues, workers, listening, streamed, history>>

(* Without a session row there is no session object, and the code that
   builds the input dereferences it: the request dies after taking a token. *)
HintPanics(j) ==
  /\ post[j] = "unused" /\ IsHint(j)
  /\ j \notin HasSession \/ Failures
  /\ TakeToken(OwnerOf[j])
  /\ post' = [post EXCEPT ![j] = "refused"]
  /\ UNCHANGED <<record, queues, workers, listening, streamed, history>>

(* RequestHint up to the SET, whose error is ignored. *)
StoreHint(j) ==
  /\ post[j] = "unused" /\ IsHint(j)
  /\ j \in HasSession
  /\ TakeToken(OwnerOf[j])
  /\ \E write \in Writes : Set(j, "queued", write)
  /\ post' = [post EXCEPT ![j] = "stored"]
  /\ UNCHANGED <<queues, workers, listening, streamed, history>>

(* Enqueue up to the SET; its error ends the call. *)
StoreJob(j) ==
  /\ post[j] = "unused" /\ ~IsHint(j)
  /\ \E write \in Writes :
       /\ Set(j, "queued", write)
       /\ post' = [post EXCEPT ![j] = IF write.ok THEN "stored" ELSE "refused"]
  /\ UNCHANGED <<budget, queues, workers, listening, streamed, history>>

(* The LPUSH.  RequestHint ignores its error, Enqueue returns it. *)
Push(j) ==
  /\ post[j] = "stored"
  /\ \E write \in Pushes :
       /\ LPush(j, write)
       /\ post' = [post EXCEPT ![j] = IF write.ok \/ IsHint(j) THEN "returned" ELSE "refused"]
  /\ UNCHANGED <<budget, record, workers, listening, streamed, started>>

-----------------------------------------------------------------------------
(* pollQueue *)

PeekOnly(w) ==                       \* mutant: the id is read but not removed
  LET queue == queues[PollsFor[w]] IN
  /\ workers[w].step = "idle" /\ queue # << >>
  /\ workers' = [workers EXCEPT ![w].step = "popped", ![w].job = Head(queue)]
  /\ UNCHANGED <<post, budget, record, queues, listening, streamed, history>>

(* BRPOP; when its reply is lost the id is gone and the worker polls again. *)
Pop(w) ==
  LET queue == queues[PollsFor[w]] IN
  /\ workers[w].step = "idle" /\ queue # << >>
  /\ queues' = [queues EXCEPT ![PollsFor[w]] = Tail(queue)]
  /\ \/ workers' = [workers EXCEPT ![w].step = "popped", ![w].job = Head(queue)]
     \/ (Failures \/ Resends > 0) /\ UNCHANGED workers
  /\ UNCHANGED <<post, budget, record, listening, streamed, history>>

(* GetJob fails: the job is dropped. *)
Drop(w) ==
  /\ workers[w].step = "popped"
  /\ record[workers[w].job] \in {"none", "gone"} \/ Failures
  /\ workers' = [workers EXCEPT ![w] = Polling]
  /\ UNCHANGED <<post, budget, record, queues, listening, streamed, history>>

(* The record becomes running, an error ignored, and the processor is called. *)
Begin(w) ==
  LET j == workers[w].job IN
  /\ workers[w].step = "popped"
  /\ record[j] \notin {"none", "gone"}
  /\ \E write \in Writes : Set(j, "running", write)
  /\ started' = [started EXCEPT ![j] = @ + 1]
  /\ workers' = [workers EXCEPT ![w].step = "running"]
  /\ UNCHANGED <<post, budget, queues, listening, streamed, pushed>>

(* The processor, ended by its timeout at the latest.  The one for hints
   publishes hint.ready as its last act. *)
Process(w) ==
  LET j == workers[w].job IN
  /\ workers[w].step = "running"
  /\ IF IsHint(j) THEN PublishEvent(j, "hint.ready") ELSE UNCHANGED streamed
  /\ \E result \in ResultsOf(TypeOf[j]) :
       workers' = [workers EXCEPT ![w].step = "processed", ![w].result = result]
  /\ UNCHANGED <<post, budget, record, queues, listening, history>>

Announce(w) ==
  LET worker == workers[w] IN
  /\ worker.step = "processed"
  /\ PublishEvent(worker.job, IF worker.result = "done" THEN "job.completed" ELSE "job.failed")
  /\ workers' = [workers EXCEPT ![w].step = "announced"]
  /\ UNCHANGED <<post, budget, record, queues, listening, history>>

FinishUnsaved(w) ==                  \* mutant: the last UpdateJob is missing
  /\ workers[w].step = "announced"
  /\ workers' = [workers EXCEPT ![w] = Polling]
  /\ UNCHANGED <<post, budget, record, queues, listening, streamed, history>>

(* The final UpdateJob, its error ignored; then the worker polls again. *)
Finish(w) ==
  LET worker == workers[w] IN
  /\ worker.step = "announced"
  /\ \E write \in Writes : Set(worker.job, worker.result, write)
  /\ workers' = [workers EXCEPT ![w] = Polling]
  /\ UNCHANGED <<post, budget, queues, listening, streamed, history>>

-----------------------------------------------------------------------------
(* The environment *)

(* A server process stops and comes back: nothing remembers the job its
   worker had popped. *)
Restart(w) ==
  /\ Crashes
  /\ workers[w].step # "idle"
  /\ workers' = [workers EXCEPT ![w] = Polling]
  /\ UNCHANGED <<post, budget, record, queues, listening, streamed, history>>

(* ... and a request it was serving is never answered. *)
Interrupt(j) ==
  /\ Crashes
  /\ post[j] = "stored"
  /\ post' = [post EXCEPT ![j] = "refused"]
  /\ UNCHANGED <<budget, record, queues, workers, listening, streamed, history>>

(* A record lives 24 hours after its last write, a worker holds it for
   minutes: it expires while it waits, or after the worker let it go. *)
Expire(j) ==
  /\ Expires
  /\ record[j] \notin {"none", "gone"}
  /\ post[j] # "stored" /\ \A w \in Workers : ~Holds(w, j)
  /\ record' = [record EXCEPT ![j] = "gone"]
  /\ UNCHANGED <<post, budget, queues, workers, listening, streamed, history>>

Subscribe(u) ==
  /\ ~listening[u]
  /\ listening' = [listening EXCEPT ![u] = TRUE]
  /\ UNCHANGED <<post, budget, record, queues, workers, streamed, history>>

Disconnect(u) ==
  /\ listening[u]
  /\ listening' = [listening EXCEPT ![u] = FALSE]
  /\ UNCHANGED <<post, budget, record, queues, workers, streamed, history>>

-----------------------------------------------------------------------------

Init ==
  /\ post = [j \in Jobs |-> "unused"]
  /\ budget = [u \in Users |-> HintBudget]
  /\ record = [j \in Jobs |-> "none"]
  /\ queues = [t \in Types |-> << >>]
  /\ workers = [w \in Workers |-> Polling]
  /\ listening = [u \in Users |-> FALSE]
  /\ streamed = [j \in Jobs |-> << >>]
  /\ pushed = [j \in Jobs |-> 0] /\ started = [j \in Jobs |-> 0]

Post(j) == HintLimited(j) \/ HintPanics(j) \/ StoreHint(j) \/ StoreJob(j)

Work(w) == Pop(w) \/ Drop(w) \/ Begin(w) \/ Process(w) \/ Announce(w) \/ Finish(w)

Next ==
  \/ \E j \in Jobs : Post(j) \/ Push(j) \/ Interrupt(j) \/ Expire(j)
  \/ \E w \in Workers : Work(w) \/ Restart(w)
  \/ \E u \in Users : Subscribe(u) \/ Disconnect(u)

Spec == Init /\ [][Next]_vars

(* A handler that stored a job goes on to push it, and the polling loops
   never stop.  Posting, subscribing and faults owe nothing. *)
Fairness ==
  /\ \A j \in Jobs : WF_vars(Push(j))
  /\ \A w \in Workers : WF_vars(Work(w))

FairSpec == Spec /\ Fairness

-----------------------------------------------------------------------------
(* Properties *)

(* The variables have their types; a list holds ids of its own type only. *)
TypeOK ==
  /\ post \in [Jobs -> {"unused", "limited", "refused", "stored", "returned"}]
  /\ budget \in [Users -> 0 .. HintBudget]
  /\ record \in [Jobs -> Lifecycle!Record]
  /\ queues \in [Types -> Seq(Jobs)]
  /\ workers \in [Workers -> Worker]
  /\ listening \in [Users -> BOOLEAN]
  /\ streamed \in [Jobs -> Seq(Lifecycle!Event)]
  /\ pushed \in [Jobs -> Nat] /\ started \in [Jobs -> Nat]

(* Over all replicas and whatever fails, a job is processed at most once for
   each time its id was listed, and its LPUSH lists it once, unless the
   client library sends it again (lists and BRPOP of the worker). *)
OneProcessing == \A j \in Jobs : started[j] <= pushed[j] /\ pushed[j] <= 1 + Resends

InQueue(j) == {i \in DOMAIN queues[TypeOf[j]] : queues[TypeOf[j]][i] = j}

Holders(j, steps) == {w \in Workers : Holds(w, j) /\ workers[w].step \in steps}

(* While nothing fails, the record of a job says where its id is: a queued
   job is in exactly one place from which it will be taken up, and a running
   one is in the hands of exactly one worker. *)
NothingLost ==
  \A j \in Jobs :
    /\ record[j] = "queued" <=> post[j] = "stored" \/ InQueue(j) # {} \/ Holders(j, {"popped"}) # {}
    /\ record[j] = "running" <=> Holders(j, {"running", "processed", "announced"}) # {}
    /\ Cardinality(InQueue(j)) + Cardinality({w \in Workers : Holds(w, j)}) <= 1

(* The hints accepted for a session and the tokens left never exceed the
   bucket, unless the limiter's script fails (RequestHint's rate limit). *)
HintsLimited ==
  \A u \in Users :
    Cardinality({j \in Jobs : OwnerOf[j] = u /\ IsHint(j) /\ post[j] \in {"stored", "returned"}})
      + budget[u] <= HintBudget

(* The queue, its workers and their faults implement the life of a job that
   a client may rely on (JobLifecycle). *)
ImplementsLifecycle == Lifecycle!Spec

(* A job of a registered type whose request was answered is settled for
   good in the end (polling loop of the worker). *)
HintsFinish ==
  \A j \in Jobs : post[j] = "returned" /\ TypeOf[j] \in Registered
                    ~> [](record[j] \in {"done", "failed"})
=============================================================================
