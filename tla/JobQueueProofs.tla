--------------------------- MODULE JobQueueProofs ---------------------------
(***************************************************************************)
(* Proofs about JobQueue for every value of the constants, whatever fails  *)
(* and however often a command is sent again: its types, that a job is     *)
(* processed at most once for each time its id was listed, and that the    *)
(* queue implements JobLifecycle; when nothing fails, that no job is lost; *)
(* and when no command fails, that hints keep to their bucket.             *)
(*                                                                         *)
(* The inductive invariant says where the id of a job that was listed once *)
(* can be (Placement) and what its record and stream can show there        *)
(* (Progress), what holds of the others too (Kinds), and counts the ids    *)
(* that are still to be taken up (Counts).  RecordsSay adds that, without  *)
(* faults, the record tells where the id is, and BucketInv counts the      *)
(* hints accepted against the tokens that are left.                        *)
(***************************************************************************)
EXTENDS JobQueue, TLAPS, SequenceTheorems, FiniteSetTheorems

Queued(j) == \E i \in DOMAIN queues[TypeOf[j]] : queues[TypeOf[j]][i] = j

Free(j) == ~Queued(j) /\ \A w \in Workers : ~Holds(w, j)

(* The id was listed once at most. *)
Single(j) == pushed[j] <= 1

(* A worker holds a job exactly while it is not polling. *)
IdleHoldsNothing == \A w \in Workers : workers[w].step = "idle" <=> workers[w].job = NoJob

TypeInv == TypeOK /\ IdleHoldsNothing

OnItsList == \A t \in Types : \A i \in DOMAIN queues[t] : TypeOf[queues[t][i]] = t

ListedOnce == \A t \in Types : \A i, k \in DOMAIN queues[t] :
                Single(queues[t][i]) /\ queues[t][i] = queues[t][k] => i = k

HeldOnce == \A v, w \in Workers :
              workers[v].job = workers[w].job =>
                v = w \/ workers[v].job = NoJob \/ ~Single(workers[v].job)

(* The request did not push the id yet. *)
Unpushed == {"unused", "limited", "stored"}

(* An id that was listed once is on its type's list, or with one worker, or
   nowhere. *)
Placement ==
  /\ OnItsList /\ ListedOnce /\ HeldOnce
  /\ \A j \in Jobs : post[j] \in Unpushed => Free(j) /\ pushed[j] = 0
  /\ \A j \in Jobs : Single(j) /\ Queued(j) => \A w \in Workers : ~Holds(w, j)

Told(j) == Lifecycle!Told(j)

Unstarted(j) == record[j] \in {"none", "queued", "gone"} /\ Told(j) = {}

(* What is known of the job a worker holds, by the worker's step. *)
HeldOK(w) ==
  LET worker == workers[w]  j == worker.job IN
  /\ worker.step = "popped" => Unstarted(j)
  /\ worker.step \in {"running", "processed", "announced"} => record[j] \in Lifecycle!Open
  /\ worker.step = "running" => Told(j) = {}
  /\ worker.step \in {"processed", "announced"} => worker.result \in {"done", "failed"}
  /\ worker.step = "processed" => Told(j) \subseteq (IF worker.result = "done" THEN {"hint.ready"} ELSE {})
  /\ worker.step = "announced" => Told(j) \subseteq Lifecycle!Agrees(worker.result)

Progress ==
  /\ \A j \in Jobs : post[j] \in {"unused", "limited"} => record[j] = "none"
  /\ \A j \in Jobs : post[j] \in Unpushed => record[j] # "gone"
  /\ \A j \in Jobs : post[j] \in Unpushed \/ (Single(j) /\ Queued(j)) => Unstarted(j)
  /\ \A w \in Workers : Single(workers[w].job) => HeldOK(w)

(* Hints never fail, and only they are told as hints. *)
KindOK(j) ==
  IF IsHint(j) THEN record[j] # "failed" /\ "job.failed" \notin Told(j)
  ELSE "hint.ready" \notin Told(j)

(* The record of a job at work can be written, and its result is a proper one. *)
AtWork(w) ==
  LET worker == workers[w] IN
  /\ worker.step \in {"running", "processed", "announced"} =>
       record[worker.job] \notin {"none", "gone"}
  /\ worker.step \in {"processed", "announced"} => worker.result \in ResultsOf(TypeOf[worker.job])

Kinds == (\A j \in Jobs : KindOK(j)) /\ (\A w \in Workers : AtWork(w))

(* The ids of a job that are still to be taken up, and the times one was. *)
Taken(j) == Holders(j, {"popped"})

Count(j) ==
  /\ IsFiniteSet(Taken(j))
  /\ started[j] + Cardinality(InQueue(j)) + Cardinality(Taken(j)) <= pushed[j]
  /\ pushed[j] <= 1 + Resends

Counts == \A j \in Jobs : Count(j)

IInv == TypeInv /\ Placement /\ Progress /\ Kinds /\ Counts

-----------------------------------------------------------------------------
(* Types *)

LEMMA PushesType ==
  ASSUME NEW write \in Pushes
  PROVE  write.times \in 0 .. 1 + Resends
  <1>1. Resends \in Nat
    BY QueueAssumption
  <1>2. CASE write \in [times : 0 .. 1 + Resends, ok : {FALSE}]
    BY <1>2
  <1>3. CASE write \in [times : 1 .. 1 + Resends, ok : {TRUE}]
    BY <1>1, <1>3
  <1> QED BY <1>2, <1>3 DEF Pushes

LEMMA SetType ==
  ASSUME NEW j \in Jobs, NEW status \in Lifecycle!Record, NEW write, TypeOK, Set(j, status, write)
  PROVE  record' \in [Jobs -> Lifecycle!Record]
  BY DEF TypeOK, Set

(* A sequence followed by copies of one element. *)
LEMMA CopiesFollow ==
  ASSUME NEW S, NEW seq \in Seq(S), NEW x \in S, NEW n \in Nat
  PROVE  LET longer == seq \o [i \in 1 .. n |-> x] IN
         /\ longer \in Seq(S) /\ DOMAIN longer = 1 .. Len(seq) + n
         /\ \A i \in 1 .. Len(seq) + n : longer[i] = IF i <= Len(seq) THEN seq[i] ELSE x
  <1> DEFINE copies == [i \in 1 .. n |-> x]
  <1>1. copies \in Seq(S) /\ Len(copies) = n /\ \A i \in 1 .. n : copies[i] = x
    OBVIOUS
  <1> HIDE DEF copies
  <1>2. /\ seq \o copies \in Seq(S) /\ Len(seq \o copies) = Len(seq) + n
        /\ \A i \in 1 .. Len(seq) + n :
             (seq \o copies)[i] = IF i <= Len(seq) THEN seq[i] ELSE copies[i - Len(seq)]
    BY <1>1, ConcatProperties
  <1>3. \A i \in 1 .. Len(seq) + n : ~(i <= Len(seq)) => i - Len(seq) \in 1 .. n
    BY LenProperties
  <1> QED BY <1>1, <1>2, <1>3, LenProperties DEF copies

LEMMA LPushType ==
  ASSUME NEW j \in Jobs, NEW write \in Pushes, TypeOK, LPush(j, write)
  PROVE  queues' \in [Types -> Seq(Jobs)] /\ pushed' \in [Jobs -> Nat]
  <1>1. write.times \in Nat
    BY PushesType, QueueAssumption
  <1>2. queues[TypeOf[j]] \o [i \in 1 .. write.times |-> j] \in Seq(Jobs)
    <2>1. queues[TypeOf[j]] \in Seq(Jobs)
      BY QueueAssumption DEF TypeOK
    <2> QED BY <1>1, <2>1, CopiesFollow
  <1>3. pushed' \in [Jobs -> Nat]
    BY <1>1 DEF LPush, TypeOK
  <1> DEFINE longer == queues[TypeOf[j]] \o [i \in 1 .. write.times |-> j]
  <1>4. queues' = [queues EXCEPT ![TypeOf[j]] = longer]
    BY DEF LPush
  <1> HIDE DEF longer
  <1>5. longer \in Seq(Jobs)
    BY <1>2 DEF longer
  <1> QED BY <1>3, <1>4, <1>5 DEF TypeOK

(* What an event that is published adds to the stream. *)
LEMMA PublishEffect ==
  ASSUME NEW j \in Jobs, NEW event \in Lifecycle!Event, TypeOK, PublishEvent(j, event)
  PROVE  /\ streamed' \in [Jobs -> Seq(Lifecycle!Event)]
         /\ \A x \in Jobs \ {j} : streamed'[x] = streamed[x] /\ Told(x)' = Told(x)
         /\ Told(j)' \in {Told(j), Told(j) \cup {event}}
         /\ streamed' = streamed
            \/ \E n \in 1 .. 1 + Resends :
                 streamed' = [streamed EXCEPT ![j] = @ \o [i \in 1 .. n |-> event]]
  <1>1. streamed \in [Jobs -> Seq(Lifecycle!Event)] /\ streamed[j] \in Seq(Lifecycle!Event)
    BY DEF TypeOK
  <1>2. CASE streamed' = streamed
    BY <1>1, <1>2 DEF Told, Lifecycle!Told
  <1>3. ASSUME NEW n \in 1 .. 1 + Resends,
               streamed' = [streamed EXCEPT ![j] = @ \o [i \in 1 .. n |-> event]]
        PROVE  /\ streamed' \in [Jobs -> Seq(Lifecycle!Event)]
               /\ \A x \in Jobs \ {j} : streamed'[x] = streamed[x] /\ Told(x)' = Told(x)
               /\ Told(j)' = Told(j) \cup {event}
    <2> DEFINE longer == streamed[j] \o [i \in 1 .. n |-> event]
    <2>1. n \in Nat /\ n >= 1
      BY QueueAssumption
    <2>2. /\ longer \in Seq(Lifecycle!Event) /\ DOMAIN longer = 1 .. Len(streamed[j]) + n
          /\ \A i \in 1 .. Len(streamed[j]) + n :
               longer[i] = IF i <= Len(streamed[j]) THEN streamed[j][i] ELSE event
      BY <1>1, <2>1, CopiesFollow
    <2> HIDE DEF longer
    <2>3. streamed' = [streamed EXCEPT ![j] = longer]
      BY <1>3 DEF longer
    <2>4. {longer[i] : i \in DOMAIN longer} = {streamed[j][i] : i \in DOMAIN streamed[j]} \cup {event}
      <3>1. DOMAIN streamed[j] = 1 .. Len(streamed[j]) /\ Len(streamed[j]) \in Nat
        BY <1>1
      <3>2. ASSUME NEW i \in DOMAIN streamed[j]
            PROVE  i \in DOMAIN longer /\ longer[i] = streamed[j][i]
        BY <2>1, <2>2, <3>1
      <3>3. Len(streamed[j]) + 1 \in DOMAIN longer /\ longer[Len(streamed[j]) + 1] = event
        BY <2>1, <2>2, <3>1
      <3>4. ASSUME NEW i \in DOMAIN longer
            PROVE  longer[i] = event \/ (i \in DOMAIN streamed[j] /\ longer[i] = streamed[j][i])
        BY <2>1, <2>2, <3>1
      <3> QED BY <3>2, <3>3, <3>4
    <2>5. streamed'[j] = longer /\ \A x \in Jobs \ {j} : streamed'[x] = streamed[x]
      BY <1>1, <2>3
    <2>6. Told(j)' = Told(j) \cup {event}
      BY <2>4, <2>5 DEF Told, Lifecycle!Told
    <2>7. \A x \in Jobs \ {j} : Told(x)' = Told(x)
      BY <2>5 DEF Told, Lifecycle!Told
    <2>8. streamed' \in [Jobs -> Seq(Lifecycle!Event)]
      BY <1>1, <2>2, <2>3
    <2> QED BY <2>5, <2>6, <2>7, <2>8
  <1> QED BY <1>2, <1>3 DEF PublishEvent

LEMMA PublishType ==
  ASSUME NEW j \in Jobs, NEW event \in Lifecycle!Event, TypeOK, PublishEvent(j, event)
  PROVE  streamed' \in [Jobs -> Seq(Lifecycle!Event)]
  BY PublishEffect

LEMMA TakeTokenType ==
  ASSUME NEW u \in Users, TypeOK, TakeToken(u)
  PROVE  budget' \in [Users -> 0 .. HintBudget]
  <1>1. budget \in [Users -> 0 .. HintBudget] /\ HintBudget \in Nat
    BY QueueAssumption DEF TypeOK
  <1>2. PICK n \in 0 .. 1 + Resends : n <= budget[u] /\ budget' = [budget EXCEPT ![u] = @ - n]
    BY DEF TakeToken
  <1>3. n \in Nat /\ budget[u] - n \in 0 .. HintBudget
    BY <1>1, <1>2, QueueAssumption
  <1> QED BY <1>1, <1>2, <1>3

LEMMA PollingType == Polling \in Worker
  BY DEF Polling, Worker

(* Posting, pushing and the environment *)
LEMMA JobStepType ==
  ASSUME NEW j \in Jobs, TypeOK, Post(j) \/ Push(j) \/ Interrupt(j) \/ Expire(j)
  PROVE  TypeOK'
  <1> USE DEF TypeOK, history
  <1>0. {"queued", "gone"} \subseteq Lifecycle!Record /\ OwnerOf[j] \in Users
    BY QueueAssumption DEF Lifecycle!Record
  <1>1. CASE HintLimited(j)
    BY <1>0, <1>1, QueueAssumption DEF HintLimited
  <1>2. CASE HintPanics(j)
    BY <1>0, <1>2, TakeTokenType DEF HintPanics
  <1>3. CASE StoreHint(j)
    BY <1>0, <1>3, TakeTokenType, SetType DEF StoreHint
  <1>4. CASE StoreJob(j)
    <2>1. record' \in [Jobs -> Lifecycle!Record]
      BY <1>0, <1>4, SetType DEF StoreJob
    <2> QED BY <1>4, <2>1 DEF StoreJob
  <1>5. CASE Push(j)
    <2>1. queues' \in [Types -> Seq(Jobs)] /\ pushed' \in [Jobs -> Nat]
      BY <1>5, LPushType DEF Push
    <2> QED BY <1>5, <2>1 DEF Push
  <1>6. CASE Interrupt(j)
    BY <1>6 DEF Interrupt
  <1>7. CASE Expire(j)
    BY <1>0, <1>7 DEF Expire
  <1> QED BY <1>1, <1>2, <1>3, <1>4, <1>5, <1>6, <1>7 DEF Post

LEMMA WorkerStepType ==
  ASSUME NEW w \in Workers, TypeInv, Work(w) \/ Restart(w)
  PROVE  TypeInv'
  <1> DEFINE worker == workers[w]
  <1> USE DEF TypeInv, TypeOK, IdleHoldsNothing, history
  <1>0. /\ worker \in Worker
        /\ worker.step # "idle" => worker.job \in Jobs
        /\ PollsFor[w] \in Types
    BY QueueAssumption DEF Worker
  <1>1. CASE Pop(w)
    <2>1. queues[PollsFor[w]] \in Seq(Jobs) /\ queues[PollsFor[w]] # << >>
      BY <1>0, <1>1 DEF Pop
    <2>2. Head(queues[PollsFor[w]]) \in Jobs /\ Tail(queues[PollsFor[w]]) \in Seq(Jobs)
      BY <2>1
    <2>3. [worker EXCEPT !.step = "popped", !.job = Head(queues[PollsFor[w]])] \in Worker
      BY <1>0, <2>2 DEF Worker
    <2>4. workers' \in [Workers -> Worker]
      BY <1>1, <2>3 DEF Pop
    <2>5. workers'[w].step = "idle" <=> workers'[w].job = NoJob
      BY <1>0, <1>1, <2>2, QueueAssumption DEF Pop, Worker
    <2>6. \A v \in Workers : v # w => workers'[v] = workers[v]
      BY <1>1 DEF Pop
    <2> QED BY <1>1, <2>2, <2>4, <2>5, <2>6 DEF Pop
  <1>2. CASE Drop(w)
    BY <1>2, PollingType DEF Drop, Polling
  <1>3. CASE Begin(w)
    <2>1. worker.job \in Jobs
      BY <1>0, <1>3 DEF Begin
    <2>2. record' \in [Jobs -> Lifecycle!Record]
      BY <1>3, <2>1, SetType DEF Begin, Lifecycle!Record
    <2>3. workers' \in [Workers -> Worker]
      BY <1>0, <1>3 DEF Begin, Worker
    <2>4. started' \in [Jobs -> Nat]
      BY <1>3, <2>1 DEF Begin
    <2> QED BY <1>3, <2>2, <2>3, <2>4 DEF Begin
  <1>4. CASE Process(w)
    <2>1. worker.job \in Jobs
      BY <1>0, <1>4 DEF Process
    <2>2. streamed' \in [Jobs -> Seq(Lifecycle!Event)]
      BY <1>4, <2>1, PublishType DEF Process, Lifecycle!Event
    <2>3. workers' \in [Workers -> Worker]
      <3>1. PICK result \in ResultsOf(TypeOf[worker.job]) :
              workers' = [workers EXCEPT ![w].step = "processed", ![w].result = result]
        BY <1>4 DEF Process
      <3>2. result \in {"none", "done", "failed"}
        BY DEF ResultsOf
      <3>3. [worker EXCEPT !.step = "processed", !.result = result] \in Worker
        BY <1>0, <3>2 DEF Worker
      <3> QED BY <3>1, <3>3
    <2> QED BY <1>4, <2>2, <2>3 DEF Process
  <1>5. CASE Announce(w)
    <2>1. worker.job \in Jobs
      BY <1>0, <1>5 DEF Announce
    <2>2. streamed' \in [Jobs -> Seq(Lifecycle!Event)]
      BY <1>5, <2>1, PublishType DEF Announce, Lifecycle!Event
    <2>3. workers' \in [Workers -> Worker]
      BY <1>0, <1>5 DEF Announce, Worker
    <2> QED BY <1>5, <2>2, <2>3 DEF Announce
  <1>6. CASE Finish(w)
    <2>1. worker.job \in Jobs
      BY <1>0, <1>6 DEF Finish
    <2>2. worker.result \in Lifecycle!Record \/ worker.result = "none"
      BY <1>0 DEF Worker, Lifecycle!Record
    <2>3. worker.result \in Lifecycle!Record
      BY <2>2 DEF Lifecycle!Record
    <2>4. record' \in [Jobs -> Lifecycle!Record]
      BY <1>6, <2>1, <2>3, SetType DEF Finish
    <2> QED BY <1>6, <2>4, PollingType DEF Finish, Polling
  <1>7. CASE Restart(w)
    BY <1>7, PollingType DEF Restart, Polling
  <1> QED BY <1>1, <1>2, <1>3, <1>4, <1>5, <1>6, <1>7 DEF Work

LEMMA TypeInit == Init => TypeInv
  <1>1. \A t \in Types : << >> \in Seq(Jobs)
    OBVIOUS
  <1>2. "none" \in Lifecycle!Record /\ << >> \in Seq(Lifecycle!Event)
    BY DEF Lifecycle!Record
  <1>3. ASSUME Init PROVE TypeOK
    <2>1. budget \in [Users -> 0 .. HintBudget]
      BY <1>3, QueueAssumption DEF Init
    <2>2. streamed \in [Jobs -> Seq(Lifecycle!Event)] /\ record \in [Jobs -> Lifecycle!Record]
      BY <1>2, <1>3 DEF Init
    <2> QED BY <1>1, <1>3, <2>1, <2>2, PollingType DEF Init, TypeOK
  <1>4. Init => IdleHoldsNothing
    BY DEF Init, IdleHoldsNothing, Polling
  <1> QED BY <1>3, <1>4 DEF TypeInv

LEMMA TypeStep == TypeInv /\ [Next]_vars => TypeInv'
  <1> SUFFICES ASSUME TypeInv, [Next]_vars PROVE TypeInv'
    OBVIOUS
  <1>1. ASSUME NEW j \in Jobs, Post(j) \/ Push(j) \/ Interrupt(j) \/ Expire(j) PROVE TypeInv'
    <2>1. TypeOK'
      BY <1>1, JobStepType DEF TypeInv
    <2>2. UNCHANGED workers
      BY <1>1 DEF Post, HintLimited, HintPanics, StoreHint, StoreJob, Push, Interrupt, Expire
    <2> QED BY <2>1, <2>2 DEF TypeInv, IdleHoldsNothing
  <1>2. ASSUME NEW w \in Workers, Work(w) \/ Restart(w) PROVE TypeInv'
    BY <1>2, WorkerStepType
  <1>3. ASSUME NEW u \in Users, Subscribe(u) \/ Disconnect(u) PROVE TypeInv'
    BY <1>3 DEF Subscribe, Disconnect, TypeInv, TypeOK, IdleHoldsNothing, history
  <1>4. CASE UNCHANGED vars
    BY <1>4 DEF vars, TypeInv, TypeOK, IdleHoldsNothing, history
  <1> QED BY <1>1, <1>2, <1>3, <1>4 DEF Next

(* Types: for all values of the constants and whatever fails (JobQueue). *)
THEOREM TypeCorrect == Spec => []TypeOK
  <1>1. TypeInv => TypeOK
    BY DEF TypeInv
  <1> QED BY <1>1, TypeInit, TypeStep, PTL DEF Spec

-----------------------------------------------------------------------------
(* Where the ids are *)

(* The lists after an id that was free is pushed. *)
LEMMA PushLists ==
  ASSUME NEW j \in Jobs, NEW write \in Pushes, TypeOK, LPush(j, write)
  PROVE  LET t == TypeOf[j]  queue == queues[t]  longer == queues'[t] IN
         /\ t \in Types /\ queue \in Seq(Jobs) /\ write.times \in Nat
         /\ DOMAIN queue = 1 .. Len(queue) /\ Len(queue) \in Nat
         /\ DOMAIN longer = 1 .. Len(queue) + write.times
         /\ \A i \in DOMAIN longer : longer[i] = IF i <= Len(queue) THEN queue[i] ELSE j
         /\ \A u \in Types \ {t} : queues'[u] = queues[u]
         /\ pushed'[j] = pushed[j] + write.times
         /\ \A x \in Jobs \ {j} : pushed'[x] = pushed[x]
  <1> DEFINE t == TypeOf[j]  queue == queues[t]  longer == queue \o [i \in 1 .. write.times |-> j]
  <1>1. t \in Types /\ queue \in Seq(Jobs) /\ write.times \in Nat
    BY PushesType, QueueAssumption DEF TypeOK
  <1>2. /\ DOMAIN longer = 1 .. Len(queue) + write.times
        /\ \A i \in 1 .. Len(queue) + write.times : longer[i] = IF i <= Len(queue) THEN queue[i] ELSE j
    BY <1>1, CopiesFollow
  <1>3. queues' = [queues EXCEPT ![t] = longer]
    BY DEF LPush
  <1>4. pushed'[j] = pushed[j] + write.times /\ \A x \in Jobs \ {j} : pushed'[x] = pushed[x]
    BY DEF LPush, TypeOK
  <1> HIDE DEF longer, queue
  <1>5. queues'[t] = longer /\ \A u \in Types \ {t} : queues'[u] = queues[u]
    BY <1>1, <1>3 DEF TypeOK
  <1>6. DOMAIN queue = 1 .. Len(queue) /\ Len(queue) \in Nat
    BY <1>1
  <1> QED BY <1>1, <1>2, <1>4, <1>5, <1>6 DEF queue

(* An id that was free is at the end of its list after the push, or nowhere. *)
LEMMA PushPlaces ==
  ASSUME NEW j \in Jobs, NEW write \in Pushes,
         TypeOK, Placement, Free(j), pushed[j] = 0, LPush(j, write)
  PROVE  /\ OnItsList' /\ ListedOnce'
         /\ \A x \in Jobs : Queued(x)' => Queued(x) \/ x = j
         /\ \A x \in Jobs \ {j} : pushed'[x] = pushed[x]
  <1> DEFINE t == TypeOf[j]  queue == queues[t]
  <1>1. /\ t \in Types /\ queue \in Seq(Jobs) /\ write.times \in Nat
        /\ DOMAIN queue = 1 .. Len(queue) /\ Len(queue) \in Nat
        /\ DOMAIN queues'[t] = 1 .. Len(queue) + write.times
        /\ \A i \in DOMAIN queues'[t] : queues'[t][i] = IF i <= Len(queue) THEN queue[i] ELSE j
        /\ \A u \in Types \ {t} : queues'[u] = queues[u]
        /\ pushed'[j] = write.times /\ \A x \in Jobs \ {j} : pushed'[x] = pushed[x]
    BY PushLists
  <1>2. \A i \in DOMAIN queue : queue[i] # j /\ queue[i] \in Jobs
    BY <1>1 DEF Free, Queued
  <1> HIDE DEF queue
  <1>3. \A i \in DOMAIN queues'[t] : (i \in DOMAIN queue /\ queues'[t][i] = queue[i])
                                     \/ (i > Len(queue) /\ queues'[t][i] = j)
    BY <1>1
  <1>4. OnItsList'
    <2>1. \A i \in DOMAIN queue : TypeOf[queue[i]] = t
      BY <1>1 DEF Placement, OnItsList, queue
    <2> QED BY <1>1, <1>3, <2>1 DEF Placement, OnItsList
  <1>5. ListedOnce'
    <2>1. ASSUME NEW u \in Types, NEW i \in DOMAIN queues'[u], NEW k \in DOMAIN queues'[u],
                 pushed'[queues'[u][i]] <= 1, queues'[u][i] = queues'[u][k]
          PROVE  i = k
      <3>1. CASE u # t
        <4>1. queues'[u] = queues[u]
          BY <1>1, <3>1
        <4>2. queues[u][i] \in Jobs /\ TypeOf[queues[u][i]] = u
          BY <2>1, <4>1 DEF Placement, OnItsList, TypeOK
        <4>3. Single(queues[u][i])
          BY <1>1, <2>1, <3>1, <4>1, <4>2 DEF Single
        <4> QED BY <2>1, <4>1, <4>3 DEF Placement, ListedOnce
      <3>2. CASE u = t /\ i \in DOMAIN queue /\ queues'[t][i] = queue[i]
        <4>1. k \in DOMAIN queue /\ queue[k] = queue[i] /\ queue[i] \in Jobs \ {j}
          BY <1>2, <1>3, <2>1, <3>2
        <4>2. Single(queue[i])
          BY <1>1, <2>1, <3>2, <4>1 DEF Single
        <4> QED BY <1>1, <3>2, <4>1, <4>2 DEF Placement, ListedOnce, queue
      <3>3. CASE u = t /\ i > Len(queue) /\ queues'[t][i] = j
        <4>1. k > Len(queue)
          BY <1>2, <1>3, <2>1, <3>3
        <4>2. write.times <= 1
          BY <1>1, <2>1, <3>3 DEF Single
        <4> QED BY <1>1, <2>1, <3>3, <4>1, <4>2
      <3> QED BY <1>3, <2>1, <3>1, <3>2, <3>3
    <2> QED BY <2>1 DEF ListedOnce, Single
  <1>6. ASSUME NEW x \in Jobs, Queued(x)' PROVE Queued(x) \/ x = j
    <2>1. PICK i \in DOMAIN queues'[TypeOf[x]] : queues'[TypeOf[x]][i] = x
      BY <1>6 DEF Queued
    <2>2. CASE TypeOf[x] = t /\ x # j
      <3>1. i \in DOMAIN queue /\ queue[i] = x
        BY <1>3, <2>1, <2>2
      <3> QED BY <2>2, <3>1 DEF Queued, queue
    <2>3. CASE TypeOf[x] # t
      <3>1. queues'[TypeOf[x]] = queues[TypeOf[x]]
        BY <1>1, <2>3, QueueAssumption
      <3> QED BY <2>1, <3>1 DEF Queued
    <2> QED BY <2>2, <2>3
  <1> QED BY <1>1, <1>4, <1>5, <1>6

(* The popped id was on the list and is there no longer. *)
LEMMA PopPlaces ==
  ASSUME NEW w \in Workers, TypeOK, Placement, Pop(w)
  PROVE  /\ Head(queues[PollsFor[w]]) \in Jobs /\ Queued(Head(queues[PollsFor[w]]))
         /\ OnItsList' /\ ListedOnce'
         /\ \A x \in Jobs : Queued(x)' => Queued(x)
         /\ \A x \in Jobs : x = Head(queues[PollsFor[w]]) /\ Single(x) => ~Queued(x)'
         /\ pushed' = pushed
  <1> DEFINE t == PollsFor[w]  queue == queues[t]
  <1>1. t \in Types /\ queue \in Seq(Jobs) /\ queue # << >>
    BY QueueAssumption DEF TypeOK, Pop
  <1>2. /\ queues' = [queues EXCEPT ![t] = Tail(queue)] /\ queues \in [Types -> Seq(Jobs)]
        /\ pushed' = pushed
    BY DEF Pop, TypeOK, history
  <1> HIDE DEF t
  <1>3. Head(queue) \in Jobs /\ Head(queue) = queue[1] /\ 1 \in DOMAIN queue
    BY <1>1
  <1>4. TypeOf[Head(queue)] = t
    BY <1>1, <1>3 DEF Placement, OnItsList
  <1>5. Queued(Head(queue))
    BY <1>3, <1>4 DEF Queued
  <1>6. \A i \in DOMAIN Tail(queue) : i + 1 \in DOMAIN queue /\ Tail(queue)[i] = queue[i + 1]
    BY <1>1
  <1>7. OnItsList'
    BY <1>1, <1>2, <1>6 DEF Placement, OnItsList
  <1>8. \A i \in DOMAIN Tail(queue) : i \in Nat /\ i # 0
    BY <1>1
  <1>9. ListedOnce'
    <2>1. ASSUME NEW i \in DOMAIN Tail(queue), NEW k \in DOMAIN Tail(queue),
                 Single(Tail(queue)[i]), Tail(queue)[i] = Tail(queue)[k]
          PROVE  i = k
      <3>1. i + 1 = k + 1
        BY <1>1, <1>6, <2>1 DEF Placement, ListedOnce
      <3> QED BY <1>8, <3>1
    <2> QED BY <1>1, <1>2, <2>1 DEF Placement, ListedOnce, Single
  <1>10. ASSUME NEW x \in Jobs, Queued(x)' PROVE Queued(x) /\ (x = Head(queue) => ~Single(x))
    <2>1. PICK i \in DOMAIN queues'[TypeOf[x]] : queues'[TypeOf[x]][i] = x
      BY <1>10 DEF Queued
    <2>2. CASE TypeOf[x] = t
      <3>1. queues'[t] = Tail(queue)
        BY <1>1, <1>2
      <3>2. i + 1 \in DOMAIN queue /\ queue[i + 1] = x
        BY <1>6, <2>1, <2>2, <3>1
      <3>3. i + 1 # 1
        BY <1>8, <2>1, <2>2, <3>1
      <3>4. ASSUME x = Head(queue), Single(x) PROVE FALSE
        <4>1. queues[t][i + 1] = x /\ queues[t][1] = x
          BY <1>3, <3>2, <3>4
        <4> QED BY <1>1, <1>3, <3>2, <3>3, <3>4, <4>1 DEF Placement, ListedOnce
      <3> QED BY <1>1, <2>2, <3>2, <3>4 DEF Queued
    <2>3. CASE TypeOf[x] # t
      BY <1>1, <1>2, <1>4, <2>1, <2>3 DEF Queued
    <2> QED BY <2>2, <2>3
  <1> QED BY <1>2, <1>3, <1>5, <1>7, <1>9, <1>10 DEF t

(* Steps that move no id: workers keep or drop what they hold. *)
LEMMA PlacementFrame ==
  ASSUME TypeOK, Placement, queues' = queues, pushed' = pushed,
         \A x \in Jobs : post'[x] \in Unpushed => post[x] \in Unpushed,
         \A v \in Workers : workers'[v].job \in {workers[v].job, NoJob}
  PROVE  Placement'
  <1>1. OnItsList' /\ ListedOnce'
    BY DEF Placement, OnItsList, ListedOnce, Single
  <1>2. \A x \in Jobs : Queued(x)' = Queued(x)
    BY DEF Queued
  <1>3. HeldOnce'
    BY DEF Placement, HeldOnce, Single
  <1>4. \A x \in Jobs, v \in Workers : Holds(v, x)' => Holds(v, x)
    BY QueueAssumption DEF Holds
  <1>5. \A x \in Jobs : Free(x) => Free(x)'
    BY <1>2, <1>4 DEF Free
  <1> QED BY <1>1, <1>2, <1>3, <1>4, <1>5 DEF Placement, Single

LEMMA PlacementStep ==
  ASSUME TypeInv, Placement, [Next]_vars
  PROVE  Placement'
  <1> USE DEF TypeInv
  <1>1. ASSUME NEW j \in Jobs, Post(j) \/ Interrupt(j) \/ Expire(j) PROVE Placement'
    <2>1. queues' = queues /\ workers' = workers /\ pushed' = pushed
      BY <1>1 DEF history, Post, HintLimited, HintPanics, StoreHint, StoreJob, Interrupt, Expire
    <2>2. \A x \in Jobs : post'[x] \in Unpushed => post[x] \in Unpushed
      BY <1>1 DEF Post, HintLimited, HintPanics, StoreHint, StoreJob, Interrupt, Expire, TypeOK, Unpushed
    <2> QED BY <2>1, <2>2, PlacementFrame
  <1>2. ASSUME NEW j \in Jobs, Push(j) PROVE Placement'
    <2>1. PICK write \in Pushes :
            /\ LPush(j, write)
            /\ post' = [post EXCEPT ![j] = IF write.ok \/ IsHint(j) THEN "returned" ELSE "refused"]
      BY <1>2 DEF Push
    <2>2. Free(j) /\ pushed[j] = 0 /\ workers' = workers
      BY <1>2 DEF Push, Placement, Unpushed
    <2>3. /\ OnItsList' /\ ListedOnce'
          /\ \A x \in Jobs : Queued(x)' => Queued(x) \/ x = j
          /\ \A x \in Jobs \ {j} : pushed'[x] = pushed[x]
      BY <2>1, <2>2, PushPlaces
    <2>4. post'[j] \notin Unpushed /\ \A x \in Jobs : x # j => post'[x] = post[x]
      BY <2>1 DEF TypeOK, Unpushed
    <2>5. \A x \in Jobs, v \in Workers : Holds(v, x)' = Holds(v, x)
      BY <2>2 DEF Holds
    <2>6. HeldOnce'
      <3>1. ASSUME NEW v \in Workers PROVE workers[v].job \in Jobs \ {j} \/ workers[v].job = NoJob
        BY <2>2 DEF Free, Holds, TypeOK, Worker
      <3> QED BY <2>2, <2>3, <3>1 DEF Placement, HeldOnce, Single
    <2>7. \A x \in Jobs : post'[x] \in Unpushed => Free(x)' /\ pushed'[x] = 0
      BY <2>3, <2>4, <2>5 DEF Placement, Free
    <2>8. \A x \in Jobs : Single(x)' /\ Queued(x)' => \A v \in Workers : ~Holds(v, x)'
      <3>1. ASSUME NEW x \in Jobs, Single(x)', Queued(x)'
            PROVE  \A v \in Workers : ~Holds(v, x)
        <4>1. CASE x = j
          BY <2>2, <4>1 DEF Free
        <4>2. CASE x # j
          BY <2>3, <3>1, <4>2 DEF Placement, Single
        <4> QED BY <4>1, <4>2
      <3> QED BY <2>5, <3>1
    <2> QED BY <2>3, <2>6, <2>7, <2>8 DEF Placement
  <1>3. ASSUME NEW w \in Workers, Pop(w) PROVE Placement'
    <2> DEFINE first == Head(queues[PollsFor[w]])
    <2>1. /\ first \in Jobs /\ Queued(first) /\ OnItsList' /\ ListedOnce'
          /\ \A x \in Jobs : Queued(x)' => Queued(x)
          /\ \A x \in Jobs : x = first /\ Single(x) => ~Queued(x)'
          /\ pushed' = pushed
      BY <1>3, PopPlaces
    <2>2. post' = post /\ \A v \in Workers : v # w => workers'[v] = workers[v]
      BY <1>3 DEF Pop, TypeOK
    <2>3. workers'[w].job \in {first, NoJob}
      BY <1>3 DEF Pop, TypeOK, IdleHoldsNothing, Worker
    <2> HIDE DEF first
    <2>4. Single(first) => \A v \in Workers : workers[v].job # first
      BY <2>1 DEF Placement, Holds
    <2>5. HeldOnce'
      <3>1. ASSUME NEW u \in Workers, NEW v \in Workers, workers'[u].job = workers'[v].job
            PROVE  u = v \/ workers'[u].job = NoJob \/ ~Single(workers'[u].job)
        <4>1. CASE u # w /\ v # w
          BY <2>2, <3>1, <4>1 DEF Placement, HeldOnce
        <4>2. CASE u = w \/ v = w
          BY <2>2, <2>3, <2>4, <3>1, <4>2
        <4> QED BY <4>1, <4>2
      <3> QED BY <2>1, <3>1 DEF HeldOnce, Single
    <2>6. \A x \in Jobs, v \in Workers : Holds(v, x)' => Holds(v, x) \/ x = first
      BY <2>2, <2>3, QueueAssumption DEF Holds
    <2>7. \A x \in Jobs : post'[x] \in Unpushed => Free(x)' /\ pushed'[x] = 0
      BY <2>1, <2>2, <2>6 DEF Placement, Free
    <2>8. \A x \in Jobs : Single(x)' /\ Queued(x)' => \A v \in Workers : ~Holds(v, x)'
      BY <2>1, <2>6 DEF Placement, Single
    <2> QED BY <2>1, <2>5, <2>7, <2>8 DEF Placement
  <1>4. ASSUME NEW w \in Workers,
               Drop(w) \/ Begin(w) \/ Process(w) \/ Announce(w) \/ Finish(w) \/ Restart(w)
        PROVE  Placement'
    <2>1. queues' = queues /\ post' = post /\ pushed' = pushed
      BY <1>4 DEF history, Drop, Begin, Process, Announce, Finish, Restart
    <2>2. \A v \in Workers : workers'[v].job \in {workers[v].job, NoJob}
      <3>1. \A v \in Workers : workers[v] \in Worker
        BY DEF TypeOK
      <3>2. workers \in [Workers -> Worker]
        BY DEF TypeOK
      <3>3. CASE Drop(w) \/ Finish(w) \/ Restart(w)
        BY <3>2, <3>3 DEF Drop, Finish, Restart, Polling
      <3>4. CASE Begin(w) \/ Announce(w)
        BY <3>1, <3>2, <3>4 DEF Begin, Announce, Worker
      <3>5. CASE Process(w)
        BY <3>1, <3>2, <3>5 DEF Process, Worker
      <3> QED BY <1>4, <3>3, <3>4, <3>5
    <2> QED BY <2>1, <2>2, PlacementFrame
  <1>5. CASE UNCHANGED <<post, queues, workers, pushed>>
    BY <1>5, PlacementFrame
  <1> QED
    BY <1>1, <1>2, <1>3, <1>4, <1>5 DEF Next, Work, Subscribe, Disconnect, vars, history

-----------------------------------------------------------------------------
(* What records and streams show of jobs that were listed once *)

(* A step that concerns one job leaves what is known of the others. *)
LEMMA ProgressFrame ==
  ASSUME TypeInv, Progress, NEW j \in Jobs,
         \A x \in Jobs \ {j} : /\ record'[x] = record[x] /\ Told(x)' = Told(x)
                               /\ pushed'[x] = pushed[x] /\ post'[x] = post[x]
                               /\ Queued(x)' => Queued(x),
         \A v \in Workers : \/ workers'[v] = workers[v] \/ workers'[v].step = "idle"
                            \/ workers'[v].job = j,
         post'[j] \in {"unused", "limited"} => record'[j] = "none",
         post'[j] \in Unpushed => record'[j] # "gone",
         post'[j] \in Unpushed \/ (Single(j)' /\ Queued(j)') => Unstarted(j)',
         \A v \in Workers : workers'[v].job = j /\ Single(j)' => HeldOK(v)'
  PROVE  Progress'
  <1>1. \A x \in Jobs : /\ post'[x] \in {"unused", "limited"} => record'[x] = "none"
                       /\ post'[x] \in Unpushed => record'[x] # "gone"
    BY DEF Progress
  <1>2. \A x \in Jobs : post'[x] \in Unpushed \/ (Single(x)' /\ Queued(x)') => Unstarted(x)'
    BY DEF Progress, Unstarted, Single
  <1>3. ASSUME NEW v \in Workers, Single(workers[v].job)' PROVE HeldOK(v)'
    <2>1. CASE workers'[v].job = j
      BY <1>3, <2>1 DEF Single
    <2>2. CASE workers'[v].step = "idle"
      BY <2>2 DEF HeldOK
    <2>3. CASE workers'[v] = workers[v] /\ workers[v].step # "idle" /\ workers[v].job # j
      <3>1. workers[v].job \in Jobs \ {j}
        BY <2>3 DEF TypeInv, TypeOK, IdleHoldsNothing, Worker
      <3>2. HeldOK(v)
        BY <1>3, <2>3, <3>1 DEF Progress, Single
      <3> QED BY <2>3, <3>1, <3>2 DEF HeldOK, Unstarted
    <2> QED BY <2>1, <2>2, <2>3
  <1> QED BY <1>1, <1>2, <1>3 DEF Progress

LEMMA SetEffect ==
  ASSUME TypeOK, NEW j \in Jobs, NEW status, NEW write, Set(j, status, write)
  PROVE  /\ record'[j] \in {record[j], status}
         /\ \A x \in Jobs \ {j} : record'[x] = record[x]
         /\ record' \in {record, [record EXCEPT ![j] = status]}
  BY DEF TypeOK, Set

(* The job a busy worker holds was pushed, and if once, is nowhere else. *)
LEMMA HeldFacts ==
  ASSUME TypeInv, Placement, NEW w \in Workers, workers[w].step # "idle"
  PROVE  /\ workers[w].job \in Jobs
         /\ post[workers[w].job] \notin Unpushed
         /\ Single(workers[w].job) =>
              /\ ~Queued(workers[w].job)
              /\ \A v \in Workers : workers[v].job = workers[w].job => v = w
  <1>1. workers[w].job \in Jobs
    BY DEF TypeInv, TypeOK, IdleHoldsNothing, Worker
  <1>2. workers[w].job # NoJob
    BY <1>1, QueueAssumption
  <1> QED BY <1>1, <1>2 DEF Placement, HeldOnce, Free, Holds

(* The effect of posting, of a request that is interrupted and of expiry. *)
LEMMA PostingEffect ==
  ASSUME TypeInv, Placement, NEW j \in Jobs, Post(j) \/ Interrupt(j) \/ Expire(j)
  PROVE  /\ queues' = queues /\ workers' = workers /\ streamed' = streamed
         /\ pushed' = pushed /\ started' = started
         /\ \A x \in Jobs \ {j} : post'[x] = post[x] /\ record'[x] = record[x]
         /\ \A v \in Workers : workers[v].job # j
         /\ record'[j] \in {record[j], "queued", "gone"}
         /\ post'[j] \in Unpushed => post[j] \in Unpushed
  <1>1. /\ queues' = queues /\ workers' = workers /\ streamed' = streamed
        /\ pushed' = pushed /\ started' = started
        /\ \A x \in Jobs \ {j} : post'[x] = post[x] /\ record'[x] = record[x]
    <2>1. CASE HintLimited(j) \/ HintPanics(j) \/ Interrupt(j) \/ Expire(j)
      BY <2>1 DEF HintLimited, HintPanics, Interrupt, Expire, TypeInv, TypeOK, history
    <2>2. CASE StoreHint(j)
      BY <2>2, SetEffect DEF StoreHint, TypeInv, TypeOK, history
    <2>3. CASE StoreJob(j)
      <3>1. PICK write \in Writes :
              /\ Set(j, "queued", write)
              /\ post' = [post EXCEPT ![j] = IF write.ok THEN "stored" ELSE "refused"]
        BY <2>3 DEF StoreJob
      <3> QED BY <2>3, <3>1, SetEffect DEF StoreJob, TypeInv, TypeOK, history
    <2> QED BY <2>1, <2>2, <2>3 DEF Post
  <1>2. \A v \in Workers : workers[v].job # j
    BY DEF Post, HintLimited, HintPanics, StoreHint, StoreJob, Interrupt, Expire,
           Placement, Free, Holds, Unpushed
  <1>3. record'[j] \in {record[j], "queued", "gone"}
    <2>1. CASE HintLimited(j) \/ HintPanics(j) \/ Interrupt(j)
      BY <2>1 DEF HintLimited, HintPanics, Interrupt
    <2>2. CASE StoreHint(j)
      BY <2>2, SetEffect DEF StoreHint, TypeInv
    <2>3. CASE StoreJob(j)
      BY <2>3, SetEffect DEF StoreJob, TypeInv
    <2>4. CASE Expire(j)
      BY <2>4 DEF Expire, TypeInv, TypeOK
    <2> QED BY <2>1, <2>2, <2>3, <2>4 DEF Post
  <1>4. post'[j] \in Unpushed => post[j] \in Unpushed
    <2>1. CASE HintLimited(j) \/ HintPanics(j) \/ StoreHint(j) \/ StoreJob(j)
      BY <2>1 DEF HintLimited, HintPanics, StoreHint, StoreJob, Unpushed
    <2>2. CASE Interrupt(j)
      BY <2>2 DEF Interrupt, Unpushed
    <2>3. CASE Expire(j)
      BY <2>3 DEF Expire
    <2> QED BY <2>1, <2>2, <2>3 DEF Post
  <1> QED BY <1>1, <1>2, <1>3, <1>4

LEMMA PostingProgress ==
  ASSUME TypeInv, Placement, Progress, NEW j \in Jobs, Post(j) \/ Interrupt(j) \/ Expire(j)
  PROVE  Progress'
  <1>1. /\ queues' = queues /\ workers' = workers /\ streamed' = streamed /\ pushed' = pushed
        /\ \A x \in Jobs \ {j} : post'[x] = post[x] /\ record'[x] = record[x]
        /\ \A v \in Workers : workers[v].job # j
        /\ record'[j] \in {record[j], "queued", "gone"}
        /\ post'[j] \in Unpushed => post[j] \in Unpushed
    BY PostingEffect
  <1>2. \A x \in Jobs : (Queued(x)' <=> Queued(x)) /\ Told(x)' = Told(x) /\ (Single(x)' <=> Single(x))
    BY <1>1 DEF Queued, Told, Lifecycle!Told, Single
  <1>3. post'[j] \in {"unused", "limited"} => record'[j] = "none"
    <2>1. CASE HintLimited(j)
      BY <2>1 DEF HintLimited, Progress
    <2>2. CASE HintPanics(j) \/ StoreHint(j) \/ Interrupt(j)
      BY <2>2 DEF HintPanics, StoreHint, Interrupt, TypeInv, TypeOK
    <2>3. CASE StoreJob(j)
      BY <2>3 DEF StoreJob, TypeInv, TypeOK
    <2>4. CASE Expire(j)
      BY <2>4 DEF Expire, Progress
    <2> QED BY <2>1, <2>2, <2>3, <2>4 DEF Post
  <1>4. post'[j] \in Unpushed => record'[j] # "gone"
    <2>1. CASE StoreHint(j) \/ StoreJob(j)
      <3>1. record[j] = "none"
        BY <2>1 DEF StoreHint, StoreJob, Progress
      <3> QED BY <2>1, <3>1, SetEffect DEF StoreHint, StoreJob, TypeInv
    <2>2. CASE HintLimited(j) \/ HintPanics(j) \/ Interrupt(j)
      BY <1>1, <2>2 DEF HintLimited, HintPanics, Interrupt, Progress
    <2>3. CASE Expire(j)
      BY <2>3 DEF Expire, Progress, Unpushed
    <2> QED BY <2>1, <2>2, <2>3 DEF Post
  <1>5. post'[j] \in Unpushed \/ (Single(j)' /\ Queued(j)') => Unstarted(j)'
    BY <1>1, <1>2 DEF Progress, Unstarted
  <1> QED BY <1>1, <1>2, <1>3, <1>4, <1>5, ProgressFrame

LEMMA PushProgress ==
  ASSUME TypeInv, Placement, Progress, NEW j \in Jobs, Push(j)
  PROVE  Progress'
  <1>1. PICK write \in Pushes :
          /\ LPush(j, write)
          /\ post' = [post EXCEPT ![j] = IF write.ok \/ IsHint(j) THEN "returned" ELSE "refused"]
    BY DEF Push
  <1>2. Free(j) /\ pushed[j] = 0 /\ Unstarted(j)
    BY DEF Push, Placement, Progress, Unpushed
  <1>3. /\ \A x \in Jobs : Queued(x)' => Queued(x) \/ x = j
        /\ \A x \in Jobs \ {j} : pushed'[x] = pushed[x]
    BY <1>1, <1>2, PushPlaces DEF TypeInv
  <1>4. /\ record' = record /\ workers' = workers /\ streamed' = streamed
        /\ \A x \in Jobs \ {j} : post'[x] = post[x]
        /\ post'[j] \notin Unpushed
    BY <1>1 DEF Push, TypeInv, TypeOK, Unpushed
  <1>5. \A v \in Workers : workers'[v].job # j
    BY <1>2, <1>4 DEF Free, Holds
  <1>6. \A x \in Jobs : Told(x)' = Told(x)
    BY <1>4 DEF Told, Lifecycle!Told
  <1>7. Unstarted(j)'
    BY <1>2, <1>4, <1>6 DEF Unstarted
  <1> QED BY <1>3, <1>4, <1>5, <1>6, <1>7, ProgressFrame DEF Unpushed

(* The effect of a pop. *)
LEMMA PopEffect ==
  ASSUME TypeInv, Placement, NEW w \in Workers, Pop(w)
  PROVE  /\ post' = post /\ record' = record /\ streamed' = streamed
         /\ pushed' = pushed /\ started' = started
         /\ \A v \in Workers : v # w => workers'[v] = workers[v]
         /\ \E first \in Jobs :
              /\ first = Head(queues[PollsFor[w]]) /\ Queued(first)
              /\ Single(first) => ~Queued(first)'
              /\ \A x \in Jobs : Queued(x)' => Queued(x)
              /\ \/ workers'[w] = workers[w]
                 \/ workers'[w].job = first /\ workers'[w].step = "popped"
  <1>1. /\ post' = post /\ record' = record /\ streamed' = streamed
        /\ pushed' = pushed /\ started' = started
        /\ \A v \in Workers : v # w => workers'[v] = workers[v]
    BY DEF Pop, TypeInv, TypeOK, history
  <1>2. PICK first \in Jobs :
          /\ first = Head(queues[PollsFor[w]]) /\ Queued(first)
          /\ Single(first) => ~Queued(first)'
          /\ \A x \in Jobs : Queued(x)' => Queued(x)
    BY PopPlaces DEF TypeInv
  <1>3. \/ workers'[w] = workers[w]
        \/ workers'[w].job = first /\ workers'[w].step = "popped"
    BY <1>2 DEF Pop, TypeInv, TypeOK, Worker
  <1> QED BY <1>1, <1>2, <1>3

LEMMA PopProgress ==
  ASSUME TypeInv, Placement, Progress, NEW w \in Workers, Pop(w)
  PROVE  Progress'
  <1>1. /\ post' = post /\ record' = record /\ streamed' = streamed /\ pushed' = pushed
        /\ \A v \in Workers : v # w => workers'[v] = workers[v]
    BY PopEffect
  <1>2. PICK first \in Jobs :
          /\ Queued(first) /\ (Single(first) => ~Queued(first)')
          /\ \A x \in Jobs : Queued(x)' => Queued(x)
          /\ \/ workers'[w] = workers[w]
             \/ workers'[w].job = first /\ workers'[w].step = "popped"
    BY PopEffect
  <1>3. \A x \in Jobs : Told(x)' = Told(x) /\ (Single(x)' <=> Single(x))
    BY <1>1 DEF Told, Lifecycle!Told, Single
  <1>4. Single(first) => Unstarted(first) /\ \A v \in Workers : workers[v].job # first
    BY <1>2 DEF Progress, Placement, Holds
  <1>5. Single(first) => Unstarted(first)'
    BY <1>1, <1>3, <1>4 DEF Unstarted
  <1>6. \A v \in Workers : workers'[v].job = first /\ Single(first)' => HeldOK(v)'
    BY <1>1, <1>2, <1>3, <1>4, <1>5 DEF HeldOK
  <1>7. post'[first] \notin Unpushed
    BY <1>1, <1>2 DEF Placement, Free
  <1> QED BY <1>1, <1>2, <1>3, <1>6, <1>7, ProgressFrame DEF Unpushed

Doubled == {j \in Jobs : pushed[j] > 1}

shown == <<record, streamed, Doubled>>

(* The step of a worker that holds a job, as far as that job is concerned. *)
LEMMA WorkerEffect ==
  ASSUME TypeInv, Placement, NEW w \in Workers,
         Drop(w) \/ Begin(w) \/ Process(w) \/ Announce(w) \/ Finish(w) \/ Restart(w)
  PROVE  /\ post' = post /\ queues' = queues /\ pushed' = pushed /\ Doubled' = Doubled
         /\ \A v \in Workers : v # w => workers'[v] = workers[v]
         /\ \A x \in Jobs : Queued(x)' = Queued(x) /\ (Single(x)' <=> Single(x))
         /\ workers[w].job \in Jobs /\ workers[w].step # "idle" /\ workers[w] \in Worker
  <1>1. workers[w].step # "idle"
    BY DEF Drop, Begin, Process, Announce, Finish, Restart
  <1>2. workers[w].job \in Jobs
    BY <1>1, HeldFacts
  <1>3. /\ post' = post /\ queues' = queues /\ pushed' = pushed
        /\ \A v \in Workers : v # w => workers'[v] = workers[v]
    BY DEF Drop, Begin, Process, Announce, Finish, Restart, TypeInv, TypeOK, history
  <1>4. \A x \in Jobs : Queued(x)' = Queued(x) /\ (Single(x)' <=> Single(x))
    BY <1>3 DEF Queued, Single
  <1>5. Doubled' = Doubled
    BY <1>3 DEF Doubled
  <1> QED BY <1>1, <1>2, <1>3, <1>4, <1>5 DEF TypeInv, TypeOK

(* What each of these steps does. *)
LEMMA DropEffect ==
  ASSUME TypeInv, NEW w \in Workers, Drop(w) \/ Restart(w)
  PROVE  record' = record /\ streamed' = streamed /\ started' = started /\ workers'[w] = Polling
  BY DEF Drop, Restart, TypeInv, TypeOK, history

LEMMA BeginEffect ==
  ASSUME TypeInv, NEW w \in Workers, NEW j \in Jobs, workers[w].job = j, Begin(w)
  PROVE  /\ workers[w].step = "popped" /\ record[j] \notin {"none", "gone"}
         /\ workers'[w].step = "running" /\ workers'[w].job = j
         /\ streamed' = streamed
         /\ started' = [started EXCEPT ![j] = @ + 1]
         /\ record' \in {record, [record EXCEPT ![j] = "running"]}
         /\ record'[j] \in {record[j], "running"} /\ \A x \in Jobs \ {j} : record'[x] = record[x]
  <1>1. PICK write \in Writes : Set(j, "running", write)
    BY DEF Begin
  <1>2. /\ record'[j] \in {record[j], "running"}
        /\ \A x \in Jobs \ {j} : record'[x] = record[x]
        /\ record' \in {record, [record EXCEPT ![j] = "running"]}
    BY <1>1, SetEffect DEF TypeInv
  <1>3. workers[w] \in Worker
    BY DEF TypeInv, TypeOK
  <1> QED BY <1>2, <1>3 DEF Begin, TypeInv, TypeOK, Worker

LEMMA ProcessEffect ==
  ASSUME TypeInv, NEW w \in Workers, NEW j \in Jobs, workers[w].job = j, Process(w)
  PROVE  /\ workers[w].step = "running"
         /\ workers'[w].step = "processed" /\ workers'[w].job = j
         /\ workers'[w].result \in ResultsOf(TypeOf[j])
         /\ record' = record /\ started' = started
         /\ IF IsHint(j) THEN PublishEvent(j, "hint.ready") ELSE streamed' = streamed
  <1>1. PICK result \in ResultsOf(TypeOf[j]) :
          workers' = [workers EXCEPT ![w].step = "processed", ![w].result = result]
    BY DEF Process
  <1>2. workers[w] \in Worker
    BY DEF TypeInv, TypeOK
  <1> QED BY <1>1, <1>2 DEF Process, TypeInv, TypeOK, Worker, history

LEMMA AnnounceEffect ==
  ASSUME TypeInv, NEW w \in Workers, NEW j \in Jobs, workers[w].job = j, Announce(w)
  PROVE  /\ workers[w].step = "processed"
         /\ workers'[w].step = "announced" /\ workers'[w].job = j
         /\ workers'[w].result = workers[w].result
         /\ record' = record /\ started' = started
         /\ PublishEvent(j, IF workers[w].result = "done" THEN "job.completed" ELSE "job.failed")
  <1>1. workers[w] \in Worker
    BY DEF TypeInv, TypeOK
  <1> QED BY <1>1 DEF Announce, TypeInv, TypeOK, Worker, history

LEMMA FinishEffect ==
  ASSUME TypeInv, NEW w \in Workers, NEW j \in Jobs, workers[w].job = j, Finish(w)
  PROVE  /\ workers[w].step = "announced" /\ workers'[w] = Polling
         /\ streamed' = streamed /\ started' = started
         /\ record' \in {record, [record EXCEPT ![j] = workers[w].result]}
         /\ record'[j] \in {record[j], workers[w].result} /\ \A x \in Jobs \ {j} : record'[x] = record[x]
  <1>1. PICK write \in Writes : Set(j, workers[w].result, write)
    BY DEF Finish
  <1>2. /\ record'[j] \in {record[j], workers[w].result}
        /\ \A x \in Jobs \ {j} : record'[x] = record[x]
        /\ record' \in {record, [record EXCEPT ![j] = workers[w].result]}
    BY <1>1, SetEffect DEF TypeInv
  <1> QED BY <1>2 DEF Finish, TypeInv, TypeOK, history

LEMMA ToldFrame == streamed' = streamed => \A x : Told(x)' = Told(x)
  BY DEF Told, Lifecycle!Told

(* What the other jobs show is not touched. *)
LEMMA OthersFrame ==
  ASSUME TypeInv, Placement, NEW w \in Workers, NEW j \in Jobs, workers[w].job = j,
         Drop(w) \/ Begin(w) \/ Process(w) \/ Announce(w) \/ Finish(w) \/ Restart(w)
  PROVE  \A x \in Jobs \ {j} : record'[x] = record[x] /\ Told(x)' = Told(x)
  <1>1. CASE Drop(w) \/ Restart(w)
    BY <1>1, DropEffect, ToldFrame
  <1>2. CASE Begin(w) \/ Finish(w)
    BY <1>2, BeginEffect, FinishEffect, ToldFrame
  <1>3. CASE Process(w)
    BY <1>3, ProcessEffect, ToldFrame, PublishEffect DEF TypeInv, Lifecycle!Event
  <1>4. CASE Announce(w)
    BY <1>4, AnnounceEffect, PublishEffect DEF TypeInv, Lifecycle!Event
  <1> QED BY <1>1, <1>2, <1>3, <1>4

(* Telling an event to the owner, for JobLifecycle. *)
LEMMA PublishSimulation ==
  ASSUME TypeInv, NEW j \in Jobs, NEW event \in Lifecycle!Event, PublishEvent(j, event),
         record' = record, Doubled' = Doubled
  PROVE  UNCHANGED shown \/ Lifecycle!Stream(j, event)
  BY PublishEffect DEF TypeInv, shown, Doubled, Lifecycle!Stream

(* The steps of the worker that holds a job that was listed once: what is
   known of the job, and what they do for the client. *)
LEMMA SingleWork ==
  ASSUME TypeInv, Placement, Progress, NEW w \in Workers, NEW j \in Jobs,
         workers[w].job = j, Single(j),
         Drop(w) \/ Begin(w) \/ Process(w) \/ Announce(w) \/ Finish(w) \/ Restart(w)
  PROVE  /\ workers'[w] = Polling \/ (workers'[w].job = j /\ HeldOK(w)')
         /\ [Lifecycle!Next]_shown
  <1>1. HeldOK(w) /\ workers[w] \in Worker /\ Doubled' = Doubled
    BY WorkerEffect DEF Progress
  <1>2. CASE Drop(w) \/ Restart(w)
    BY <1>1, <1>2, DropEffect DEF shown
  <1>3. CASE Begin(w)
    <2>1. /\ workers[w].step = "popped" /\ record[j] \notin {"none", "gone"}
          /\ workers'[w].step = "running" /\ workers'[w].job = j
          /\ streamed' = streamed /\ record'[j] \in {record[j], "running"}
          /\ record' \in {record, [record EXCEPT ![j] = "running"]}
      BY <1>3, BeginEffect
    <2>2. record[j] = "queued" /\ Told(j) = {} /\ Told(j)' = {}
      BY <1>1, <2>1, ToldFrame DEF HeldOK, Unstarted
    <2>3. HeldOK(w)'
      BY <2>1, <2>2 DEF HeldOK, Lifecycle!Open
    <2>4. UNCHANGED shown \/ Lifecycle!Start(j)
      BY <1>1, <2>1, <2>2 DEF shown, Doubled, Told, Lifecycle!Start, Lifecycle!Show
    <2> QED BY <2>1, <2>3, <2>4 DEF Lifecycle!Next
  <1>4. CASE Process(w)
    <2>1. /\ workers[w].step = "running"
          /\ workers'[w].step = "processed" /\ workers'[w].job = j
          /\ workers'[w].result \in ResultsOf(TypeOf[j]) /\ record' = record
          /\ IF IsHint(j) THEN PublishEvent(j, "hint.ready") ELSE streamed' = streamed
      BY <1>4, ProcessEffect
    <2>2. record[j] \in Lifecycle!Open /\ Told(j) = {}
      BY <1>1, <2>1 DEF HeldOK
    <2>3. CASE IsHint(j)
      <3>1. workers'[w].result = "done"
        BY <2>1, <2>3 DEF IsHint, ResultsOf
      <3>2. Told(j)' \subseteq {"hint.ready"} /\ "hint.ready" \in Lifecycle!Event
        BY <2>1, <2>2, <2>3, PublishEffect DEF TypeInv, Lifecycle!Event
      <3>3. HeldOK(w)'
        BY <2>1, <2>2, <3>1, <3>2 DEF HeldOK
      <3>4. UNCHANGED shown \/ Lifecycle!Tell(j, "hint.ready")
        BY <1>1, <2>1, <2>2, <2>3, <3>2, PublishSimulation DEF Told, Lifecycle!Tell
      <3> QED BY <2>1, <3>2, <3>3, <3>4 DEF Lifecycle!Next
    <2>4. CASE ~IsHint(j)
      <3>1. Told(j)' = {}
        BY <2>1, <2>2, <2>4, ToldFrame
      <3>2. HeldOK(w)'
        BY <2>1, <2>2, <3>1 DEF HeldOK, ResultsOf
      <3> QED BY <1>1, <2>1, <2>4, <3>2 DEF shown
    <2> QED BY <2>3, <2>4
  <1>5. CASE Announce(w)
    <2> DEFINE event == IF workers[w].result = "done" THEN "job.completed" ELSE "job.failed"
    <2>1. /\ workers[w].step = "processed"
          /\ workers'[w].step = "announced" /\ workers'[w].job = j
          /\ workers'[w].result = workers[w].result /\ record' = record
          /\ PublishEvent(j, event)
      BY <1>5, AnnounceEffect
    <2>2. /\ record[j] \in Lifecycle!Open /\ Told(j) \subseteq Lifecycle!Before(event)
          /\ workers[w].result \in {"done", "failed"}
      BY <1>1, <2>1 DEF HeldOK, Lifecycle!Before
    <2>3. Told(j) \cup {event} \subseteq Lifecycle!Agrees(workers[w].result)
      BY <2>2 DEF Lifecycle!Before, Lifecycle!Agrees
    <2>4. event \in Lifecycle!Event
      BY DEF Lifecycle!Event
    <2> HIDE DEF event
    <2>5. Told(j)' \subseteq Told(j) \cup {event}
      BY <2>1, <2>4, PublishEffect DEF TypeInv
    <2>6. HeldOK(w)'
      BY <2>1, <2>2, <2>3, <2>5 DEF HeldOK
    <2>7. UNCHANGED shown \/ Lifecycle!Tell(j, event)
      BY <1>1, <2>1, <2>2, <2>4, PublishSimulation DEF Told, Lifecycle!Tell
    <2> QED BY <2>1, <2>4, <2>6, <2>7 DEF Lifecycle!Next
  <1>6. CASE Finish(w)
    <2>1. /\ workers[w].step = "announced" /\ workers'[w] = Polling /\ streamed' = streamed
          /\ record' \in {record, [record EXCEPT ![j] = workers[w].result]}
      BY <1>6, FinishEffect
    <2>2. record[j] \in Lifecycle!Open /\ Told(j) \subseteq Lifecycle!Agrees(workers[w].result)
      BY <1>1, <2>1 DEF HeldOK
    <2>3. UNCHANGED shown \/ Lifecycle!Settle(j, workers[w].result)
      BY <1>1, <2>1, <2>2 DEF shown, Doubled, Told, Lifecycle!Settle, Lifecycle!Show
    <2>4. workers[w].result \in {"done", "failed"}
      BY <1>1, <2>1 DEF HeldOK
    <2> QED BY <2>1, <2>3, <2>4 DEF Lifecycle!Next
  <1> QED BY <1>2, <1>3, <1>4, <1>5, <1>6

LEMMA WorkerProgress ==
  ASSUME TypeInv, Placement, Progress, NEW w \in Workers,
         Drop(w) \/ Begin(w) \/ Process(w) \/ Announce(w) \/ Finish(w) \/ Restart(w)
  PROVE  Progress'
  <1>1. PICK j \in Jobs : j = workers[w].job /\ post[j] \notin Unpushed
    BY WorkerEffect, HeldFacts
  <1>2. /\ post' = post /\ pushed' = pushed
        /\ \A v \in Workers : v # w => workers'[v] = workers[v]
        /\ \A x \in Jobs : Queued(x)' = Queued(x) /\ (Single(x)' <=> Single(x))
        /\ workers[w].step # "idle"
    BY WorkerEffect
  <1>3. \A x \in Jobs \ {j} : record'[x] = record[x] /\ Told(x)' = Told(x)
    BY <1>1, OthersFrame
  <1>4. workers'[w] = Polling \/ workers'[w].job = j
    BY <1>1, DropEffect, BeginEffect, ProcessEffect, AnnounceEffect, FinishEffect
  <1>5. Single(j) => ~Queued(j) /\ \A v \in Workers : workers[v].job = j => v = w
    BY <1>1, <1>2, HeldFacts
  <1>6. Single(j) => workers'[w] = Polling \/ (workers'[w].job = j /\ HeldOK(w)')
    BY <1>1, SingleWork
  <1>7. \A v \in Workers : workers'[v].job = j /\ Single(j)' => HeldOK(v)'
    BY <1>2, <1>5, <1>6, QueueAssumption DEF Polling
  <1>8. \A v \in Workers : \/ workers'[v] = workers[v] \/ workers'[v].step = "idle"
                           \/ workers'[v].job = j
    BY <1>2, <1>4 DEF Polling
  <1>9. post'[j] \notin Unpushed /\ (Single(j)' => ~Queued(j)')
    BY <1>1, <1>2, <1>5
  <1> QED BY <1>2, <1>3, <1>7, <1>8, <1>9, ProgressFrame DEF Unpushed

LEMMA ProgressStep ==
  ASSUME TypeInv, Placement, Progress, [Next]_vars
  PROVE  Progress'
  <1>1. CASE UNCHANGED <<post, record, queues, workers, streamed, pushed>>
    <2>1. \A x \in Jobs : /\ Told(x)' = Told(x) /\ (Queued(x)' <=> Queued(x))
                         /\ (Unstarted(x)' <=> Unstarted(x))
      BY <1>1 DEF Queued, Told, Lifecycle!Told, Unstarted
    <2>2. ASSUME NEW w \in Workers, Single(workers[w].job)' PROVE HeldOK(w)'
      <3>1. HeldOK(w) /\ workers' = workers /\ record' = record /\ streamed' = streamed
        BY <1>1, <2>2 DEF Progress, Single
      <3>2. \A x : Told(x)' = Told(x)
        BY <3>1 DEF Told, Lifecycle!Told
      <3> QED BY <3>1, <3>2 DEF HeldOK, Unstarted
    <2> QED BY <1>1, <2>1, <2>2 DEF Progress, Single
  <1>2. CASE \E j \in Jobs : Post(j) \/ Interrupt(j) \/ Expire(j)
    BY <1>2, PostingProgress
  <1>3. CASE \E j \in Jobs : Push(j)
    BY <1>3, PushProgress
  <1>4. CASE \E w \in Workers : Pop(w)
    BY <1>4, PopProgress
  <1>5. CASE \E w \in Workers : Drop(w) \/ Begin(w) \/ Process(w) \/ Announce(w) \/ Finish(w) \/ Restart(w)
    BY <1>5, WorkerProgress
  <1> QED BY <1>1, <1>2, <1>3, <1>4, <1>5 DEF Next, Work, Subscribe, Disconnect, vars, history

-----------------------------------------------------------------------------
(* What holds of every job, however often its id was listed *)

LEMMA KindsStep ==
  ASSUME TypeInv, Placement, Kinds, [Next]_vars
  PROVE  Kinds'
  <1>1. CASE UNCHANGED <<record, workers, streamed>>
    <2>1. \A x \in Jobs : Told(x)' = Told(x)
      BY <1>1, ToldFrame
    <2> QED BY <1>1, <2>1 DEF Kinds, KindOK, AtWork
  <1>2. ASSUME NEW j \in Jobs, Post(j) \/ Interrupt(j) \/ Expire(j) PROVE Kinds'
    <2>1. /\ workers' = workers /\ streamed' = streamed
          /\ \A x \in Jobs \ {j} : record'[x] = record[x]
          /\ \A v \in Workers : workers[v].job # j
          /\ record'[j] \in {record[j], "queued", "gone"}
      BY <1>2, PostingEffect
    <2>2. \A x \in Jobs : Told(x)' = Told(x)
      BY <2>1, ToldFrame
    <2>3. \A x \in Jobs : KindOK(x)'
      BY <2>1, <2>2 DEF Kinds, KindOK
    <2>4. ASSUME NEW v \in Workers PROVE AtWork(v)'
      <3>1. CASE workers[v].job \in Jobs \ {j}
        BY <2>1, <3>1 DEF Kinds, AtWork
      <3>2. CASE workers[v].step = "idle"
        BY <2>1, <3>2 DEF AtWork
      <3> QED BY <2>1, <3>1, <3>2 DEF TypeInv, TypeOK, IdleHoldsNothing, Worker
    <2> QED BY <2>3, <2>4 DEF Kinds
  <1>3. ASSUME NEW w \in Workers, Pop(w) PROVE Kinds'
    <2>1. /\ record' = record /\ streamed' = streamed
          /\ \A v \in Workers : v # w => workers'[v] = workers[v]
          /\ workers'[w] = workers[w] \/ workers'[w].step = "popped"
      BY <1>3, PopEffect
    <2>2. \A x \in Jobs : Told(x)' = Told(x)
      BY <2>1, ToldFrame
    <2> QED BY <2>1, <2>2 DEF Kinds, KindOK, AtWork
  <1>4. ASSUME NEW w \in Workers,
               Drop(w) \/ Begin(w) \/ Process(w) \/ Announce(w) \/ Finish(w) \/ Restart(w)
        PROVE  Kinds'
    <2>1. PICK j \in Jobs : j = workers[w].job
      BY <1>4, WorkerEffect
    <2>2. /\ \A v \in Workers : v # w => workers'[v] = workers[v]
          /\ \A x \in Jobs \ {j} : record'[x] = record[x] /\ Told(x)' = Told(x)
      BY <1>4, <2>1, WorkerEffect, OthersFrame
    <2>3. KindOK(j) /\ AtWork(w)
      BY DEF Kinds
    (* It is enough to know the record, what was told and the worker. *)
    <2>4. ASSUME KindOK(j)', AtWork(w)', record[j] \notin {"none", "gone"} => record'[j] \notin {"none", "gone"}
          PROVE  Kinds'
      <3>1. \A x \in Jobs : KindOK(x)'
        BY <2>2, <2>4 DEF Kinds, KindOK
      <3>2. ASSUME NEW v \in Workers PROVE AtWork(v)'
        <4>1. CASE v = w
          BY <2>4, <4>1
        <4>2. CASE v # w /\ workers[v].step = "idle"
          BY <2>2, <4>2 DEF AtWork
        <4>3. CASE v # w /\ workers[v].job \in Jobs
          BY <2>2, <2>4, <4>3 DEF Kinds, AtWork
        <4> QED BY <4>1, <4>2, <4>3 DEF TypeInv, TypeOK, IdleHoldsNothing, Worker
      <3> QED BY <3>1, <3>2 DEF Kinds
    <2>5. CASE Drop(w) \/ Restart(w)
      BY <2>3, <2>4, <2>5, DropEffect, ToldFrame DEF KindOK, AtWork, Polling
    <2>6. CASE Begin(w)
      BY <2>1, <2>3, <2>4, <2>6, BeginEffect, ToldFrame DEF KindOK, AtWork
    <2>7. CASE Process(w)
      <3>1. /\ workers[w].step = "running" /\ workers'[w].step = "processed" /\ workers'[w].job = j
            /\ workers'[w].result \in ResultsOf(TypeOf[j]) /\ record' = record
            /\ IF IsHint(j) THEN PublishEvent(j, "hint.ready") ELSE streamed' = streamed
        BY <2>1, <2>7, ProcessEffect
      <3>2. KindOK(j)'
        BY <2>3, <3>1, PublishEffect, ToldFrame DEF TypeInv, KindOK, Lifecycle!Event
      <3> QED BY <2>1, <2>3, <2>4, <3>1, <3>2 DEF AtWork
    <2>8. CASE Announce(w)
      <3> DEFINE event == IF workers[w].result = "done" THEN "job.completed" ELSE "job.failed"
      <3>1. /\ workers[w].step = "processed" /\ workers'[w].step = "announced" /\ workers'[w].job = j
            /\ workers'[w].result = workers[w].result /\ record' = record
            /\ PublishEvent(j, event)
        BY <2>1, <2>8, AnnounceEffect
      <3>2. event \in Lifecycle!Event /\ event # "hint.ready"
        BY DEF Lifecycle!Event
      <3>3. IsHint(j) => event = "job.completed"
        BY <2>1, <2>3, <3>1 DEF AtWork, IsHint, ResultsOf
      <3> HIDE DEF event
      <3>4. Told(j)' \in {Told(j), Told(j) \cup {event}}
        BY <3>1, <3>2, PublishEffect DEF TypeInv
      <3>5. KindOK(j)'
        BY <2>3, <3>1, <3>2, <3>3, <3>4 DEF KindOK
      <3> QED BY <2>1, <2>3, <2>4, <3>1, <3>5 DEF AtWork
    <2>9. CASE Finish(w)
      <3>1. /\ workers[w].step = "announced" /\ workers'[w] = Polling /\ streamed' = streamed
            /\ record'[j] \in {record[j], workers[w].result}
        BY <2>1, <2>9, FinishEffect
      <3>2. workers[w].result \in ResultsOf(TypeOf[j])
        BY <2>1, <2>3, <3>1 DEF AtWork
      <3>3. KindOK(j)' /\ AtWork(w)'
        BY <2>3, <3>1, <3>2, ToldFrame DEF KindOK, AtWork, Polling, IsHint, ResultsOf
      <3> QED BY <2>4, <3>1, <3>2, <3>3 DEF ResultsOf
    <2> QED BY <1>4, <2>5, <2>6, <2>7, <2>8, <2>9
  <1>5. ASSUME NEW j \in Jobs, Push(j) PROVE UNCHANGED <<record, workers, streamed>>
    BY <1>5 DEF Push
  <1> QED
    BY <1>1, <1>2, <1>3, <1>4, <1>5 DEF Next, Work, Subscribe, Disconnect, vars

(* The steps of a worker that holds a job that was listed again, for the
   client: whatever they show, they do not take a hint back. *)
LEMMA RepeatWork ==
  ASSUME TypeInv, Placement, Kinds, Kinds', NEW w \in Workers, NEW j \in Jobs,
         workers[w].job = j, ~Single(j),
         Drop(w) \/ Begin(w) \/ Process(w) \/ Announce(w) \/ Finish(w) \/ Restart(w)
  PROVE  [Lifecycle!Next]_shown
  <1>1. Doubled' = Doubled /\ AtWork(w)
    BY WorkerEffect DEF Kinds
  <1>2. j \in Doubled
    BY DEF Doubled, Single, TypeInv, TypeOK
  <1>3. Lifecycle!HintStands(j)'
    BY DEF Kinds, KindOK, Lifecycle!HintStands, Told
  <1>4. ASSUME record[j] \notin {"none", "gone"},
               NEW status \in {"running", "done", "failed"}, streamed' = streamed,
               record' \in {record, [record EXCEPT ![j] = status]}
        PROVE  [Lifecycle!Next]_shown
    <2>1. UNCHANGED shown \/ Lifecycle!Show(j, status)
      BY <1>1, <1>4 DEF shown, Doubled, Lifecycle!Show
    <2>2. UNCHANGED shown \/ Lifecycle!Redo(j)
      BY <1>2, <1>3, <1>4, <2>1 DEF Lifecycle!Redo, Doubled
    <2> QED BY <2>2 DEF Lifecycle!Next
  <1>5. ASSUME record[j] \notin {"none", "gone"}, record' = record,
               NEW event \in Lifecycle!Event, PublishEvent(j, event)
        PROVE  [Lifecycle!Next]_shown
    <2>1. UNCHANGED shown \/ Lifecycle!Stream(j, event)
      BY <1>1, <1>5, PublishSimulation
    <2>2. UNCHANGED shown \/ Lifecycle!Redo(j)
      BY <1>2, <1>3, <1>5, <2>1 DEF Lifecycle!Redo, Doubled
    <2> QED BY <2>2 DEF Lifecycle!Next
  <1>6. CASE Drop(w) \/ Restart(w)
    BY <1>1, <1>6, DropEffect DEF shown
  <1>7. CASE Begin(w)
    BY <1>4, <1>7, BeginEffect
  <1>8. CASE Process(w)
    <2>1. /\ workers[w].step = "running" /\ record' = record
          /\ IF IsHint(j) THEN PublishEvent(j, "hint.ready") ELSE streamed' = streamed
      BY <1>8, ProcessEffect
    <2> QED BY <1>1, <1>5, <2>1 DEF AtWork, Lifecycle!Event, shown
  <1>9. CASE Announce(w)
    <2> DEFINE event == IF workers[w].result = "done" THEN "job.completed" ELSE "job.failed"
    <2>1. workers[w].step = "processed" /\ record' = record /\ PublishEvent(j, event)
      BY <1>9, AnnounceEffect
    <2>2. event \in Lifecycle!Event
      BY DEF Lifecycle!Event
    <2> HIDE DEF event
    <2> QED BY <1>1, <1>5, <2>1, <2>2 DEF AtWork
  <1>10. CASE Finish(w)
    <2>1. /\ workers[w].step = "announced" /\ streamed' = streamed
          /\ record' \in {record, [record EXCEPT ![j] = workers[w].result]}
      BY <1>10, FinishEffect
    <2>2. workers[w].result \in {"done", "failed"}
      BY <1>1, <2>1 DEF AtWork, ResultsOf
    <2> QED BY <1>1, <1>4, <2>1, <2>2 DEF AtWork
  <1> QED BY <1>6, <1>7, <1>8, <1>9, <1>10


-----------------------------------------------------------------------------
(* How many ids of a job are still to be taken up *)

LEMMA InQueueFinite ==
  ASSUME TypeOK, NEW j \in Jobs
  PROVE  IsFiniteSet(InQueue(j)) /\ Cardinality(InQueue(j)) \in Nat
  <1>1. queues[TypeOf[j]] \in Seq(Jobs)
    BY QueueAssumption DEF TypeOK
  <1>2. DOMAIN queues[TypeOf[j]] = 1 .. Len(queues[TypeOf[j]]) /\ Len(queues[TypeOf[j]]) \in Nat
    BY <1>1
  <1>3. IsFiniteSet(DOMAIN queues[TypeOf[j]])
    BY <1>2, FS_Interval
  <1>4. InQueue(j) \in SUBSET DOMAIN queues[TypeOf[j]]
    BY DEF InQueue
  <1> QED BY <1>3, <1>4, FS_Subset, FS_CardinalityType

LEMMA CountType ==
  ASSUME TypeOK, NEW j \in Jobs, Count(j)
  PROVE  /\ started[j] \in Nat /\ pushed[j] \in Nat
         /\ Cardinality(InQueue(j)) \in Nat /\ Cardinality(Taken(j)) \in Nat
  BY InQueueFinite, FS_CardinalityType DEF TypeOK, Count

(* Ids leave the lists and the workers' hands uncounted. *)
LEMMA CountFrame ==
  ASSUME TypeOK, NEW j \in Jobs, Count(j),
         pushed'[j] = pushed[j], started'[j] = started[j],
         InQueue(j)' \subseteq InQueue(j), Taken(j)' \subseteq Taken(j)
  PROVE  Count(j)'
  <1> DEFINE taken == Taken(j)  after == Taken(j)'  listed == InQueue(j)  left == InQueue(j)'
  <1>1. IsFiniteSet(taken) /\ IsFiniteSet(listed)
    BY InQueueFinite DEF Count
  <1>2. after \in SUBSET taken /\ left \in SUBSET listed
    OBVIOUS
  <1> HIDE DEF taken, after, listed, left
  <1>3. /\ IsFiniteSet(after) /\ Cardinality(after) <= Cardinality(taken)
        /\ Cardinality(after) \in Nat /\ Cardinality(taken) \in Nat
    BY <1>1, <1>2, FS_Subset, FS_CardinalityType
  <1>4. /\ Cardinality(left) <= Cardinality(listed)
        /\ Cardinality(left) \in Nat /\ Cardinality(listed) \in Nat
    BY <1>1, <1>2, FS_Subset, FS_CardinalityType
  <1>5. /\ started[j] + Cardinality(listed) + Cardinality(taken) <= pushed[j]
        /\ pushed[j] <= 1 + Resends /\ started[j] \in Nat /\ pushed[j] \in Nat
    BY DEF Count, TypeOK, listed, taken
  <1>6. started[j] + Cardinality(left) + Cardinality(after) <= pushed[j]
    BY <1>3, <1>4, <1>5
  <1> QED BY <1>3, <1>5, <1>6 DEF Count, left, after

LEMMA PushCounts ==
  ASSUME TypeInv, Placement, NEW j \in Jobs, NEW write \in Pushes, LPush(j, write),
         Free(j), pushed[j] = 0, Count(j), workers' = workers, started' = started
  PROVE  Count(j)'
  <1> DEFINE t == TypeOf[j]  queue == queues[t]  times == write.times
  <1>1. /\ t \in Types /\ queue \in Seq(Jobs) /\ times \in Nat
        /\ DOMAIN queue = 1 .. Len(queue) /\ Len(queue) \in Nat
        /\ DOMAIN queues'[t] = 1 .. Len(queue) + times
        /\ \A i \in DOMAIN queues'[t] : queues'[t][i] = IF i <= Len(queue) THEN queue[i] ELSE j
        /\ pushed'[j] = pushed[j] + times
    BY PushLists DEF TypeInv
  <1>2. times <= 1 + Resends /\ Resends \in Nat
    BY PushesType, QueueAssumption
  <1>3. \A i \in DOMAIN queue : queue[i] # j
    BY DEF Free, Queued
  <1> HIDE DEF queue, times
  <1>4. InQueue(j)' = Len(queue) + 1 .. Len(queue) + times
    <2>1. \A i \in DOMAIN queues'[t] : queues'[t][i] = j <=> i > Len(queue)
      BY <1>1, <1>3
    <2>2. \A i : i \in DOMAIN queues'[t] /\ i > Len(queue) <=> i \in Len(queue) + 1 .. Len(queue) + times
      BY <1>1
    <2> QED BY <2>1, <2>2 DEF InQueue
  <1>5. Cardinality(Len(queue) + 1 .. Len(queue) + times) = times
    <2> DEFINE a == Len(queue) + 1  b == Len(queue) + times
    <2>1. a \in Int /\ b \in Int
      BY <1>1
    <2>2. Cardinality(a .. b) = IF a > b THEN 0 ELSE b - a + 1
      BY <2>1, FS_Interval
    <2> QED BY <1>1, <2>2
  <1>6. Taken(j)' = {} /\ Taken(j) = {}
    BY DEF Taken, Holders, Holds, Free
  <1>7. started[j] = 0 /\ IsFiniteSet(Taken(j)') /\ Cardinality(Taken(j)') = 0
    <2>1. IsFiniteSet(Taken(j)') /\ Cardinality(Taken(j)') = 0
      BY <1>6, FS_EmptySet
    <2> QED BY <2>1, CountType DEF Count, TypeInv
  <1>8. started'[j] = 0 /\ pushed'[j] = times
    BY <1>1, <1>7
  <1>9. Cardinality(InQueue(j)') = times
    BY <1>4, <1>5
  <1>10. started'[j] + Cardinality(InQueue(j)') + Cardinality(Taken(j)') <= pushed'[j]
    BY <1>1, <1>7, <1>8, <1>9
  <1> QED BY <1>2, <1>7, <1>8, <1>10, QueueAssumption DEF Count

(* What is left of a job on its list once a head was popped. *)
LEMMA PopLeaves ==
  ASSUME TypeInv, NEW w \in Workers, Pop(w), NEW x \in Jobs
  PROVE  /\ Cardinality(InQueue(x)') \in Nat
         /\ Cardinality(InQueue(x)') <= Cardinality(InQueue(x))
         /\ x = Head(queues[PollsFor[w]]) /\ TypeOf[x] = PollsFor[w] =>
              Cardinality(InQueue(x)') <= Cardinality(InQueue(x)) - 1
  <1> DEFINE t == PollsFor[w]  queue == queues[t]
             before == InQueue(x)  after == InQueue(x)'
  <1>1. t \in Types /\ queue \in Seq(Jobs) /\ queue # << >>
    BY QueueAssumption DEF TypeInv, TypeOK, Pop
  <1>2. queues' = [queues EXCEPT ![t] = Tail(queue)] /\ queues \in [Types -> Seq(Jobs)]
    BY DEF Pop, TypeInv, TypeOK
  <1>3. IsFiniteSet(before) /\ Cardinality(before) \in Nat
    BY InQueueFinite DEF TypeInv
  <1>4. CASE TypeOf[x] # t
    <2>1. after = before
      BY <1>1, <1>2, <1>4, QueueAssumption DEF InQueue
    <2> QED BY <1>3, <1>4, <2>1
  <1>5. CASE TypeOf[x] = t
    <2>1. before = {i \in DOMAIN queue : queue[i] = x} /\ after = {i \in DOMAIN Tail(queue) : Tail(queue)[i] = x}
      BY <1>1, <1>2, <1>5 DEF InQueue
    <2>2. \A i \in DOMAIN Tail(queue) : /\ i \in Nat /\ i # 0
                                       /\ i + 1 \in DOMAIN queue /\ Tail(queue)[i] = queue[i + 1]
      BY <1>1
    <2> DEFINE shift == [i \in after |-> i + 1]  rest == before \ {1}
    <2>3. \A i \in after : i + 1 \in rest /\ i \in Nat
      BY <2>1, <2>2
    <2> HIDE DEF before, after
    <2>4. shift \in Injection(after, rest)
      <3>1. shift \in [after -> rest]
        BY <2>3
      <3>2. ASSUME NEW i \in after, NEW k \in after, shift[i] = shift[k] PROVE i = k
        BY <2>3, <3>2
      <3> QED BY <3>1, <3>2 DEF Injection, IsInjective
    <2>5. /\ IsFiniteSet(rest)
          /\ Cardinality(rest) = IF 1 \in before THEN Cardinality(before) - 1 ELSE Cardinality(before)
      BY <1>3, FS_RemoveElement
    <2> HIDE DEF shift, rest
    <2>6. IsFiniteSet(after) /\ Cardinality(after) <= Cardinality(rest) /\ Cardinality(after) \in Nat
      BY <2>4, <2>5, FS_Injection, FS_CardinalityType
    <2>7. x = Head(queue) => 1 \in before
      BY <1>1, <2>1
    <2>8. Cardinality(rest) <= Cardinality(before)
      BY <1>3, <2>5
    <2>9. Cardinality(rest) \in Nat
      BY <2>5, FS_CardinalityType
    <2>10. Cardinality(after) <= Cardinality(before)
      BY <1>3, <2>6, <2>8, <2>9
    <2>11. x = Head(queue) => Cardinality(after) <= Cardinality(before) - 1
      BY <1>3, <2>5, <2>6, <2>7
    <2> QED BY <2>6, <2>10, <2>11 DEF before, after
  <1> QED BY <1>4, <1>5

LEMMA PopCounts ==
  ASSUME TypeInv, Placement, NEW w \in Workers, Pop(w), NEW x \in Jobs, Count(x)
  PROVE  Count(x)'
  <1>1. PICK first \in Jobs :
          /\ first = Head(queues[PollsFor[w]]) /\ Queued(first)
          /\ \/ workers'[w] = workers[w]
             \/ workers'[w].job = first /\ workers'[w].step = "popped"
    BY PopEffect
  <1>2. /\ pushed' = pushed /\ started' = started
        /\ \A v \in Workers : v # w => workers'[v] = workers[v]
    BY PopEffect
  <1>3. TypeOf[first] = PollsFor[w]
    <2>1. PollsFor[w] \in Types /\ queues[PollsFor[w]] \in Seq(Jobs) /\ queues[PollsFor[w]] # << >>
      BY QueueAssumption DEF Pop, TypeInv, TypeOK
    <2>2. 1 \in DOMAIN queues[PollsFor[w]] /\ queues[PollsFor[w]][1] = first
      BY <1>1, <2>1
    <2> QED BY <2>1, <2>2 DEF Placement, OnItsList
  <1> DEFINE listed == Cardinality(InQueue(x))  left == Cardinality(InQueue(x)')
             taken == Taken(x)  after == Taken(x)'
  <1>4. /\ left \in Nat /\ left <= listed /\ (x = first => left <= listed - 1)
    BY <1>1, <1>3, PopLeaves
  <1>5. /\ started[x] \in Nat /\ pushed[x] \in Nat /\ listed \in Nat /\ Cardinality(taken) \in Nat
        /\ IsFiniteSet(taken)
        /\ started[x] + listed + Cardinality(taken) <= pushed[x] /\ pushed[x] <= 1 + Resends
    BY CountType DEF Count, TypeInv
  <1>6. after \subseteq taken \cup {w} /\ (x # first => after \subseteq taken)
    BY <1>1, <1>2 DEF Taken, Holders, Holds
  <1> HIDE DEF listed, left, taken, after
  <1>7. IsFiniteSet(after) /\ Cardinality(after) \in Nat /\ Cardinality(after) <= Cardinality(taken) + 1
    <2>1. /\ IsFiniteSet(taken \cup {w}) /\ Cardinality(taken \cup {w}) \in Nat
          /\ Cardinality(taken \cup {w}) <= Cardinality(taken) + 1
      <3>1. /\ IsFiniteSet(taken \cup {w})
            /\ Cardinality(taken \cup {w}) = IF w \in taken THEN Cardinality(taken) ELSE Cardinality(taken) + 1
        BY <1>5, FS_AddElement
      <3> QED BY <1>5, <3>1
    <2>2. after \in SUBSET (taken \cup {w})
      BY <1>6
    <2>3. /\ IsFiniteSet(after) /\ Cardinality(after) \in Nat
          /\ Cardinality(after) <= Cardinality(taken \cup {w})
      BY <2>1, <2>2, FS_Subset, FS_CardinalityType
    <2> QED BY <1>5, <2>1, <2>3
  <1>8. x # first => Cardinality(after) <= Cardinality(taken)
    <2>1. x # first => after \in SUBSET taken
      BY <1>6
    <2> QED BY <1>5, <2>1, FS_Subset
  <1>9. started[x] + left + Cardinality(after) <= pushed[x]
    BY <1>4, <1>5, <1>7, <1>8
  <1> QED BY <1>2, <1>5, <1>7, <1>9 DEF Count, left, after

LEMMA CountsStep ==
  ASSUME TypeInv, Placement, Counts, [Next]_vars
  PROVE  Counts'
  <1> SUFFICES ASSUME NEW x \in Jobs PROVE Count(x)'
    BY DEF Counts
  <1>0. Count(x)
    BY DEF Counts
  <1>1. CASE UNCHANGED <<queues, workers, pushed, started>>
    BY <1>0, <1>1, CountFrame DEF TypeInv, InQueue, Taken, Holders, Holds
  <1>2. ASSUME NEW j \in Jobs, Post(j) \/ Interrupt(j) \/ Expire(j)
        PROVE  UNCHANGED <<queues, workers, pushed, started>>
    BY <1>2, PostingEffect
  <1>3. ASSUME NEW j \in Jobs, Push(j) PROVE Count(x)'
    <2>1. PICK write \in Pushes : LPush(j, write)
      BY <1>3 DEF Push
    <2>2. Free(j) /\ pushed[j] = 0 /\ workers' = workers /\ started' = started
      BY <1>3 DEF Push, Placement, Unpushed
    <2>3. CASE x = j
      BY <1>0, <2>1, <2>2, <2>3, PushCounts
    <2>4. CASE x # j
      <3>1. pushed'[x] = pushed[x]
        BY <2>1, <2>4, PushLists DEF TypeInv
      <3>2. InQueue(x)' \subseteq InQueue(x)
        <4>1. CASE TypeOf[x] = TypeOf[j]
          BY <2>1, <2>4, <4>1, PushLists DEF TypeInv, InQueue
        <4>2. CASE TypeOf[x] # TypeOf[j]
          <5>1. queues'[TypeOf[x]] = queues[TypeOf[x]]
            BY <2>1, <4>2, PushLists, QueueAssumption DEF TypeInv
          <5> QED BY <5>1 DEF InQueue
        <4> QED BY <4>1, <4>2
      <3>3. Taken(x)' = Taken(x)
        BY <2>2 DEF Taken, Holders, Holds
      <3> QED BY <1>0, <2>2, <3>1, <3>2, <3>3, CountFrame DEF TypeInv
    <2> QED BY <2>3, <2>4
  <1>4. ASSUME NEW w \in Workers, Pop(w) PROVE Count(x)'
    BY <1>0, <1>4, PopCounts
  <1>5. ASSUME NEW w \in Workers,
               Drop(w) \/ Begin(w) \/ Process(w) \/ Announce(w) \/ Finish(w) \/ Restart(w)
        PROVE  Count(x)'
    <2>1. PICK j \in Jobs : j = workers[w].job
      BY <1>5, WorkerEffect
    <2>2. /\ pushed' = pushed /\ InQueue(x)' = InQueue(x)
          /\ \A v \in Workers : v # w => workers'[v] = workers[v]
      BY <1>5, WorkerEffect DEF InQueue
    <2>3. workers'[w] = Polling \/ (workers'[w].job = j /\ workers'[w].step # "popped")
      BY <1>5, <2>1, DropEffect, BeginEffect, ProcessEffect, AnnounceEffect, FinishEffect
    <2>4. Taken(x)' \subseteq Taken(x) \ {w}
      BY <2>2, <2>3 DEF Taken, Holders, Holds, Polling
    <2>5. CASE Begin(w) /\ x = j
      <3> DEFINE taken == Taken(x)  after == Taken(x)'  listed == Cardinality(InQueue(x))
      <3>1. w \in taken
        BY <2>1, <2>5, BeginEffect DEF Taken, Holders, Holds
      <3>2. started'[x] = started[x] + 1
        BY <2>1, <2>5, BeginEffect DEF TypeInv, TypeOK
      <3>3. /\ started[x] \in Nat /\ pushed[x] \in Nat /\ listed \in Nat /\ Cardinality(taken) \in Nat
            /\ IsFiniteSet(taken)
            /\ started[x] + listed + Cardinality(taken) <= pushed[x] /\ pushed[x] <= 1 + Resends
        BY <1>0, CountType DEF Count, TypeInv
      <3>4. after \in SUBSET (taken \ {w})
        BY <2>4
      <3> HIDE DEF taken, after, listed
      <3>5. IsFiniteSet(taken \ {w}) /\ Cardinality(taken \ {w}) = Cardinality(taken) - 1
        BY <3>1, <3>3, FS_RemoveElement
      <3>6. /\ IsFiniteSet(after) /\ Cardinality(after) \in Nat
            /\ Cardinality(after) <= Cardinality(taken \ {w})
        BY <3>4, <3>5, FS_Subset, FS_CardinalityType
      <3>7. started'[x] + listed + Cardinality(after) <= pushed[x]
        BY <3>2, <3>3, <3>5, <3>6
      <3>8. Cardinality(InQueue(x)') = listed
        BY <2>2 DEF listed
      <3> QED BY <2>2, <3>3, <3>6, <3>7, <3>8 DEF Count, after
    <2>6. CASE ~(Begin(w) /\ x = j)
      <3>1. started'[x] = started[x]
        <4>1. CASE Begin(w)
          <5>1. started' = [started EXCEPT ![j] = @ + 1] /\ x # j
            BY <2>1, <2>6, <4>1, BeginEffect
          <5> QED BY <5>1 DEF TypeInv, TypeOK
        <4>2. CASE Drop(w) \/ Process(w) \/ Announce(w) \/ Finish(w) \/ Restart(w)
          BY <2>1, <4>2, DropEffect, ProcessEffect, AnnounceEffect, FinishEffect
        <4> QED BY <1>5, <4>1, <4>2
      <3> QED BY <1>0, <2>2, <2>4, <3>1, CountFrame DEF TypeInv
    <2> QED BY <2>5, <2>6
  <1> QED
    BY <1>1, <1>2, <1>3, <1>4, <1>5 DEF Next, Work, Subscribe, Disconnect, vars, history

-----------------------------------------------------------------------------
(* The invariant, and what the jobs promise to a client *)

LEMMA InvInit == Init => IInv
  <1> SUFFICES ASSUME Init PROVE IInv
    OBVIOUS
  <1>1. TypeInv
    BY TypeInit
  <1>2. /\ \A t \in Types : queues[t] = << >>
        /\ \A w \in Workers : workers[w] = Polling
        /\ \A j \in Jobs : /\ post[j] = "unused" /\ record[j] = "none"
                           /\ streamed[j] = << >> /\ pushed[j] = 0 /\ started[j] = 0
    BY DEF Init
  <1>3. \A j \in Jobs : Free(j) /\ Told(j) = {}
    BY <1>2, QueueAssumption DEF Free, Queued, Holds, Polling, Told, Lifecycle!Told
  <1>4. Placement
    <2>1. OnItsList /\ ListedOnce
      BY <1>2 DEF OnItsList, ListedOnce
    <2>2. HeldOnce
      BY <1>2 DEF HeldOnce, Polling
    <2> QED BY <1>2, <1>3, <2>1, <2>2 DEF Placement, Free
  <1>5. Progress
    BY <1>2, <1>3 DEF Progress, HeldOK, Unstarted, Polling
  <1>6. Kinds
    BY <1>2, <1>3 DEF Kinds, KindOK, AtWork, Polling
  <1>7. ASSUME NEW j \in Jobs PROVE Count(j)
    <2>1. InQueue(j) = {} /\ Taken(j) = {}
      BY <1>2, QueueAssumption DEF InQueue, Taken, Holders, Holds, Polling
    <2> QED BY <1>2, <2>1, FS_EmptySet, QueueAssumption DEF Count
  <1> QED BY <1>1, <1>4, <1>5, <1>6, <1>7 DEF IInv, Counts

LEMMA InvStep == IInv /\ [Next]_vars => IInv'
  BY TypeStep, PlacementStep, ProgressStep, KindsStep, CountsStep DEF IInv

(* Over all replicas and whatever fails, stops, expires or is sent again, a
   job is processed at most once for each time its id was listed (pollQueue
   and the client library's resent LPUSH). *)
THEOREM ProcessedAtMostOnce == Spec => []OneProcessing
  <1>1. IInv => OneProcessing
    <2> SUFFICES ASSUME IInv, NEW j \in Jobs
                 PROVE  started[j] <= pushed[j] /\ pushed[j] <= 1 + Resends
      BY DEF OneProcessing
    <2>1. Count(j) /\ TypeOK
      BY DEF IInv, TypeInv, Counts
    <2> QED BY <2>1, CountType DEF Count
  <1> QED BY <1>1, InvInit, InvStep, PTL DEF Spec

(* A push that lists an id twice is a step of JobLifecycle. *)
LEMMA PushSimulation ==
  ASSUME TypeInv, Placement, Progress, NEW j \in Jobs, Push(j)
  PROVE  UNCHANGED shown \/ Lifecycle!Double(j)
  <1>1. PICK write \in Pushes : LPush(j, write)
    BY DEF Push
  <1>2. /\ record' = record /\ streamed' = streamed /\ post[j] = "stored"
    BY DEF Push
  <1>3. record[j] \in {"none", "queued"} /\ Told(j) = {} /\ pushed[j] = 0
    BY <1>2 DEF Progress, Placement, Unstarted, Unpushed
  <1>4. \A x \in Jobs \ {j} : pushed'[x] = pushed[x]
    BY <1>1, PushLists DEF TypeInv
  <1>5. Doubled' \in {Doubled, Doubled \cup {j}}
    BY <1>3, <1>4 DEF Doubled
  <1> QED BY <1>2, <1>3, <1>5 DEF shown, Doubled, Told, Lifecycle!Double

(* A step of the queue is a step of JobLifecycle or does not show. *)
LEMMA StepSimulation == IInv /\ IInv' /\ [Next]_vars => [Lifecycle!Next]_shown
  <1> SUFFICES ASSUME TypeInv, Placement, Progress, Kinds, Kinds', [Next]_vars
               PROVE  [Lifecycle!Next]_shown
    BY DEF IInv
  <1>1. ASSUME NEW j \in Jobs, StoreHint(j) \/ StoreJob(j)
        PROVE  [Lifecycle!Next]_shown
    <2>1. PICK write \in Writes : Set(j, "queued", write)
      BY <1>1 DEF StoreHint, StoreJob
    <2>2. record[j] = "none" /\ Told(j) = {} /\ streamed' = streamed /\ Doubled' = Doubled
      BY <1>1 DEF StoreHint, StoreJob, Progress, Unstarted, Unpushed, history, Doubled
    <2>3. UNCHANGED shown \/ Lifecycle!Accept(j)
      BY <2>1, <2>2, SetEffect DEF TypeInv, shown, Doubled, Told, Lifecycle!Accept, Lifecycle!Show
    <2> QED BY <2>3 DEF Lifecycle!Next
  <1>2. ASSUME NEW j \in Jobs, Expire(j) PROVE Lifecycle!Next
    BY <1>2 DEF Expire, history, Lifecycle!Next, Lifecycle!Forget, Lifecycle!Show
  <1>3. CASE UNCHANGED <<record, streamed, pushed>>
    BY <1>3 DEF shown, Doubled
  <1>4. ASSUME NEW w \in Workers,
               Drop(w) \/ Begin(w) \/ Process(w) \/ Announce(w) \/ Finish(w) \/ Restart(w)
        PROVE  [Lifecycle!Next]_shown
    <2>1. workers[w].job \in Jobs
      BY <1>4, WorkerEffect
    <2> QED BY <1>4, <2>1, SingleWork, RepeatWork
  <1>5. ASSUME NEW j \in Jobs, HintLimited(j) \/ HintPanics(j) \/ Interrupt(j)
        PROVE  UNCHANGED <<record, streamed, pushed>>
    BY <1>5 DEF HintLimited, HintPanics, Interrupt, history
  <1>6. ASSUME NEW w \in Workers, Pop(w) PROVE UNCHANGED <<record, streamed, pushed>>
    BY <1>6 DEF Pop, history
  <1>7. ASSUME NEW j \in Jobs, Push(j) PROVE [Lifecycle!Next]_shown
    BY <1>7, PushSimulation DEF Lifecycle!Next
  <1> QED
    BY <1>1, <1>2, <1>3, <1>4, <1>5, <1>6, <1>7
       DEF Next, Post, Work, Subscribe, Disconnect, vars, history

(* Lists, replicas, commands that fail or are sent again, restarts and expiry
   implement the life of a job a client relies on (JobLifecycle). *)
THEOREM QueueImplementsLifecycle == Spec => ImplementsLifecycle
  <1>1. Init => Lifecycle!Init
    BY DEF Init, Lifecycle!Init
  <1>2. [Lifecycle!Next]_shown => [Lifecycle!Next]_Lifecycle!lifecycleVars
    BY DEF shown, Doubled, Lifecycle!lifecycleVars
  <1> QED
    BY <1>1, <1>2, InvInit, InvStep, StepSimulation, PTL
       DEF Spec, ImplementsLifecycle, Lifecycle!Spec

-----------------------------------------------------------------------------
(* Nothing is lost, while nothing fails *)

Busy == {"running", "processed", "announced"}

Popped(j) == \E w \in Workers : Holds(w, j) /\ workers[w].step = "popped"

Waiting(j) == post[j] = "stored" \/ Queued(j) \/ Popped(j)

InHand(j) == \E w \in Workers : Holds(w, j) /\ workers[w].step \in Busy

(* The record of a job tells where its id is. *)
RecordSays(j) == /\ record[j] = "queued" <=> Waiting(j)
                 /\ record[j] = "running" <=> InHand(j)

RecordsSay == \A j \in Jobs : RecordSays(j)

Reliable == Failures = FALSE /\ Resends = 0 /\ Crashes = FALSE /\ Expires = FALSE

LEMMA ReliableWrites ==
  ASSUME Reliable
  PROVE  (\A write \in Writes : write.times = 1 /\ write.ok) /\ (\A write \in Pushes : write.times = 1)
  <1>1. \A write \in Writes : write = [times |-> 1, ok |-> TRUE]
    BY DEF Reliable, Writes
  <1>2. ASSUME NEW write \in Pushes PROVE write.times = 1
    <2>1. write \in [times : 1 .. 1 + Resends, ok : {TRUE}]
      BY DEF Reliable, Pushes
    <2> QED BY <2>1 DEF Reliable
  <1> QED BY <1>1, <1>2

(* Every id was listed once at most, and its worker knows where it is. *)
LEMMA ReliableSingle ==
  ASSUME Reliable, IInv
  PROVE  /\ \A j \in Jobs : Single(j)
         /\ \A w \in Workers : workers[w].step # "idle" => HeldOK(w)
  <1>1. \A j \in Jobs : Single(j)
    BY DEF Reliable, IInv, Counts, Count, Single
  <1> QED BY <1>1, HeldFacts DEF IInv, Progress

LEMMA ReliableSet ==
  ASSUME Reliable, TypeOK, NEW j \in Jobs, NEW status, NEW write \in Writes, Set(j, status, write)
  PROVE  record'[j] = status /\ \A x \in Jobs \ {j} : record'[x] = record[x]
  <1>1. write.times = 1
    BY ReliableWrites
  <1> QED BY <1>1 DEF Set, TypeOK

(* A step that concerns one job leaves what the other records say. *)
LEMMA RecordsFrame ==
  ASSUME RecordsSay, NEW j \in Jobs,
         \A x \in Jobs \ {j} : /\ record'[x] = record[x] /\ post'[x] = post[x]
                               /\ Queued(x)' <=> Queued(x)
                               /\ \A v \in Workers : workers[v].job = x \/ workers'[v].job = x
                                                        => workers'[v] = workers[v],
         RecordSays(j)'
  PROVE  RecordsSay'
  <1>1. ASSUME NEW x \in Jobs \ {j} PROVE RecordSays(x)'
    <2>1. (Popped(x)' <=> Popped(x)) /\ (InHand(x)' <=> InHand(x))
      BY DEF Popped, InHand, Holds
    <2> QED BY <2>1 DEF RecordsSay, RecordSays, Waiting
  <1> QED BY <1>1 DEF RecordsSay

(* An id that is not pushed or popped stays where it is on the lists. *)
LEMMA PushKeeps ==
  ASSUME Reliable, NEW j \in Jobs, NEW write \in Pushes, TypeOK, LPush(j, write)
  PROVE  Queued(j)' /\ \A x \in Jobs : Queued(x) => Queued(x)'
  <1> DEFINE t == TypeOf[j]  queue == queues[t]
  <1>1. /\ write.times = 1 /\ queue \in Seq(Jobs)
        /\ DOMAIN queue = 1 .. Len(queue) /\ Len(queue) \in Nat
        /\ DOMAIN queues'[t] = 1 .. Len(queue) + write.times
        /\ \A i \in DOMAIN queues'[t] : queues'[t][i] = IF i <= Len(queue) THEN queue[i] ELSE j
        /\ \A u \in Types \ {t} : queues'[u] = queues[u]
    BY PushLists, ReliableWrites
  <1> HIDE DEF queue
  <1>2. Len(queue) + 1 \in DOMAIN queues'[t] /\ queues'[t][Len(queue) + 1] = j
    BY <1>1
  <1>3. ASSUME NEW x \in Jobs, Queued(x) PROVE Queued(x)'
    <2>1. PICK i \in DOMAIN queues[TypeOf[x]] : queues[TypeOf[x]][i] = x
      BY <1>3 DEF Queued
    <2>2. CASE TypeOf[x] = t
      <3>1. i \in DOMAIN queue /\ queue[i] = x
        BY <2>1, <2>2 DEF queue
      <3>2. i \in DOMAIN queues'[t] /\ queues'[t][i] = x
        BY <1>1, <3>1
      <3> QED BY <2>2, <3>2 DEF Queued
    <2>3. CASE TypeOf[x] # t
      BY <1>1, <2>1, <2>3, QueueAssumption DEF Queued
    <2> QED BY <2>2, <2>3
  <1> QED BY <1>2, <1>3 DEF Queued

LEMMA PopKeeps ==
  ASSUME NEW w \in Workers, TypeOK, Pop(w), NEW x \in Jobs,
         x # Head(queues[PollsFor[w]]), Queued(x)
  PROVE  Queued(x)'
  <1> DEFINE t == PollsFor[w]  queue == queues[t]
  <1>1. t \in Types /\ queue \in Seq(Jobs) /\ queue # << >>
    BY QueueAssumption DEF TypeOK, Pop
  <1>2. queues' = [queues EXCEPT ![t] = Tail(queue)] /\ queues \in [Types -> Seq(Jobs)]
    BY DEF Pop, TypeOK
  <1>3. PICK i \in DOMAIN queues[TypeOf[x]] : queues[TypeOf[x]][i] = x
    BY DEF Queued
  <1> HIDE DEF t
  <1>4. CASE TypeOf[x] = t
    <2>1. i # 1 /\ i \in 1 .. Len(queue)
      BY <1>1, <1>3, <1>4 DEF t
    <2>2. i - 1 \in DOMAIN Tail(queue) /\ Tail(queue)[i - 1] = x
      BY <1>1, <1>3, <1>4, <2>1
    <2> QED BY <1>1, <1>2, <1>4, <2>2 DEF Queued
  <1>5. CASE TypeOf[x] # t
    BY <1>1, <1>2, <1>3, <1>5 DEF Queued
  <1> QED BY <1>4, <1>5

LEMMA RecordsJobStep ==
  ASSUME Reliable, IInv, RecordsSay, NEW j \in Jobs, Post(j) \/ Push(j)
  PROVE  RecordsSay'
  <1> USE DEF IInv, TypeInv
  <1>1. /\ workers' = workers
        /\ \A x \in Jobs \ {j} : post'[x] = post[x]
        /\ post[j] \in Unpushed
    BY DEF Post, HintLimited, HintPanics, StoreHint, StoreJob, Push, TypeOK, Unpushed
  <1>2. (Popped(j)' <=> Popped(j)) /\ (InHand(j)' <=> InHand(j))
    BY <1>1 DEF Popped, InHand, Holds
  <1>3. ~Popped(j) /\ ~InHand(j) /\ ~Queued(j)
    BY <1>1 DEF Placement, Free, Popped, InHand
  <1>4. CASE HintLimited(j) \/ HintPanics(j)
    <2>1. /\ record' = record /\ queues' = queues
          /\ post[j] # "stored" /\ post'[j] # "stored"
      BY <1>4 DEF HintLimited, HintPanics, TypeOK
    <2>2. \A x : Queued(x)' = Queued(x)
      BY <2>1 DEF Queued
    <2>3. RecordSays(j)'
      BY <1>2, <2>1, <2>2 DEF RecordsSay, RecordSays, Waiting
    <2> QED BY <1>1, <2>1, <2>2, <2>3, RecordsFrame
  <1>5. CASE StoreHint(j) \/ StoreJob(j)
    <2>1. PICK write \in Writes : Set(j, "queued", write)
      BY <1>5 DEF StoreHint, StoreJob
    <2>2. queues' = queues /\ post'[j] = "stored"
      BY <1>5, ReliableWrites DEF StoreHint, StoreJob, TypeOK
    <2>3. record'[j] = "queued" /\ \A x \in Jobs \ {j} : record'[x] = record[x]
      BY <2>1, ReliableSet
    <2>4. \A x : Queued(x)' = Queued(x)
      BY <2>2 DEF Queued
    <2>5. RecordSays(j)'
      BY <1>2, <1>3, <2>2, <2>3 DEF RecordSays, Waiting
    <2> QED BY <1>1, <2>3, <2>4, <2>5, RecordsFrame
  <1>6. CASE Push(j)
    <2>1. PICK write \in Pushes :
            /\ LPush(j, write)
            /\ post' = [post EXCEPT ![j] = IF write.ok \/ IsHint(j) THEN "returned" ELSE "refused"]
      BY <1>6 DEF Push
    <2>2. /\ record' = record /\ post[j] = "stored" /\ post'[j] # "stored"
      BY <1>6, <2>1 DEF Push, TypeOK
    <2>3. Free(j) /\ pushed[j] = 0
      BY <1>1 DEF Placement
    <2>5. Queued(j)' /\ \A x \in Jobs \ {j} : Queued(x)' <=> Queued(x)
      BY <2>1, <2>3, PushKeeps, PushPlaces
    <2>6. RecordSays(j)'
      BY <1>2, <1>3, <2>2, <2>5 DEF RecordsSay, RecordSays, Waiting
    <2> QED BY <1>1, <2>2, <2>5, <2>6, RecordsFrame
  <1> QED BY <1>4, <1>5, <1>6 DEF Post

LEMMA RecordsPop ==
  ASSUME Reliable, IInv, RecordsSay, NEW w \in Workers, Pop(w)
  PROVE  RecordsSay'
  <1> USE DEF IInv, TypeInv
  <1>1. PICK first \in Jobs :
          /\ first = Head(queues[PollsFor[w]]) /\ Queued(first)
          /\ \A x \in Jobs : Queued(x)' => Queued(x) /\ x # first
    BY PopPlaces, ReliableSingle
  <1>2. \A x \in Jobs \ {first} : Queued(x)' <=> Queued(x)
    BY <1>1, PopKeeps
  <1>3. /\ post' = post /\ record' = record
        /\ workers[w].step = "idle" /\ workers[w].job = NoJob
        /\ workers'[w].step = "popped" /\ workers'[w].job = first
        /\ \A v \in Workers : v # w => workers'[v] = workers[v]
    BY <1>1 DEF Pop, TypeOK, Worker, Reliable, IdleHoldsNothing
  <1>4. \A v \in Workers : workers[v].job # first
    BY <1>1, ReliableSingle DEF Placement, Holds
  <1>5. Popped(first)' /\ ~InHand(first)'
    BY <1>3, <1>4 DEF Popped, InHand, Holds, Busy
  <1>6. record[first] = "queued"
    BY <1>1 DEF RecordsSay, RecordSays, Waiting
  <1>7. RecordSays(first)'
    BY <1>3, <1>5, <1>6 DEF RecordSays, Waiting
  <1>8. \A x \in Jobs \ {first}, v \in Workers :
          workers[v].job = x \/ workers'[v].job = x => workers'[v] = workers[v]
    BY <1>3, QueueAssumption
  <1>9. \A x \in Jobs \ {first} : /\ record'[x] = record[x] /\ post'[x] = post[x]
                                  /\ Queued(x)' <=> Queued(x)
                                  /\ \A v \in Workers : workers[v].job = x \/ workers'[v].job = x
                                                           => workers'[v] = workers[v]
    BY <1>2, <1>3, <1>8
  <1> QED BY <1>1, <1>7, <1>9, RecordsFrame

LEMMA RecordsWork ==
  ASSUME Reliable, IInv, RecordsSay, NEW w \in Workers,
         Drop(w) \/ Begin(w) \/ Process(w) \/ Announce(w) \/ Finish(w)
  PROVE  RecordsSay'
  <1> USE DEF IInv, TypeInv
  <1>1. workers[w].step # "idle"
    BY DEF Drop, Begin, Process, Announce, Finish
  <1>2. PICK j \in Jobs :
          /\ j = workers[w].job /\ post[j] \notin Unpushed /\ ~Queued(j)
          /\ \A v \in Workers : workers[v].job = j => v = w
    BY <1>1, HeldFacts, ReliableSingle
  <1>3. /\ post' = post /\ queues' = queues
        /\ \A v \in Workers : v # w => workers'[v] = workers[v]
        /\ workers[w] \in Worker
    BY DEF Drop, Begin, Process, Announce, Finish, TypeOK
  <1>4. \A x : Queued(x)' = Queued(x)
    BY <1>3 DEF Queued
  <1>5. HeldOK(w) /\ RecordSays(j)
    BY <1>1, <1>2, ReliableSingle DEF RecordsSay
  <1>6. (Popped(j) <=> workers[w].step = "popped") /\ (InHand(j) <=> workers[w].step \in Busy)
    BY <1>2 DEF Popped, InHand, Holds
  (* It is enough to know the worker's next step and the record. *)
  <1>7. ASSUME workers'[w].job \in {j, NoJob},
               \A x \in Jobs \ {j} : record'[x] = record[x],
               RecordSays(j)'
        PROVE  RecordsSay'
    <2>1. \A x \in Jobs \ {j}, v \in Workers :
            workers[v].job = x \/ workers'[v].job = x => workers'[v] = workers[v]
      BY <1>2, <1>3, <1>7, QueueAssumption
    <2>2. \A x \in Jobs \ {j} : /\ record'[x] = record[x] /\ post'[x] = post[x]
                                /\ Queued(x)' <=> Queued(x)
                                /\ \A v \in Workers : workers[v].job = x \/ workers'[v].job = x
                                                         => workers'[v] = workers[v]
      BY <1>3, <1>4, <1>7, <2>1
    <2> QED BY <1>2, <1>7, <2>2, RecordsFrame
  <1>8. ASSUME workers'[w].job = j
        PROVE  /\ Popped(j)' <=> workers'[w].step = "popped"
               /\ InHand(j)' <=> workers'[w].step \in Busy
    BY <1>2, <1>3, <1>8 DEF Popped, InHand, Holds
  <1>9. CASE Drop(w)
    <2>1. record[j] = "queued"
      BY <1>2, <1>5, <1>6, <1>9 DEF Drop, RecordSays, Waiting
    <2> QED BY <1>2, <1>9, <2>1 DEF Drop, Reliable
  <1>10. CASE Begin(w)
    <2>1. PICK write \in Writes : Set(j, "running", write)
      BY <1>2, <1>10 DEF Begin
    <2>2. record'[j] = "running" /\ \A x \in Jobs \ {j} : record'[x] = record[x]
      BY <1>2, <2>1, ReliableSet
    <2>3. workers'[w].job = j /\ workers'[w].step = "running"
      BY <1>2, <1>3, <1>10 DEF Begin, TypeOK, Worker
    <2>4. RecordSays(j)'
      BY <1>2, <1>3, <1>4, <1>8, <2>2, <2>3 DEF RecordSays, Waiting, Unpushed, Busy
    <2> QED BY <1>7, <2>2, <2>3, <2>4
  <1>11. CASE Process(w) \/ Announce(w)
    <2>1. /\ record' = record /\ workers'[w].job = j
          /\ workers[w].step \in {"running", "processed"}
          /\ workers'[w].step \in {"processed", "announced"}
      BY <1>2, <1>3, <1>11 DEF Process, Announce, TypeOK, Worker
    <2>2. RecordSays(j)'
      BY <1>3, <1>4, <1>5, <1>6, <1>8, <2>1 DEF RecordSays, Waiting, Busy
    <2> QED BY <1>7, <2>1, <2>2
  <1>12. CASE Finish(w)
    <2>1. workers[w].result \in {"done", "failed"}
      BY <1>5, <1>12 DEF HeldOK, Finish
    <2>2. PICK write \in Writes : Set(j, workers[w].result, write)
      BY <1>2, <1>12 DEF Finish
    <2>3. record'[j] \in {"done", "failed"} /\ \A x \in Jobs \ {j} : record'[x] = record[x]
      BY <1>2, <2>1, <2>2, ReliableSet
    <2>4. workers'[w] = Polling
      BY <1>12 DEF Finish, TypeOK
    <2>5. ~Popped(j)' /\ ~InHand(j)'
      <3>1. \A v \in Workers : workers'[v].job # j
        BY <1>2, <1>3, <2>4, QueueAssumption DEF Polling
      <3> QED BY <3>1 DEF Popped, InHand, Holds
    <2>6. RecordSays(j)'
      BY <1>2, <1>3, <1>4, <2>3, <2>5 DEF RecordSays, Waiting, Unpushed
    <2> QED BY <1>7, <2>3, <2>4, <2>6 DEF Polling
  <1> QED BY <1>9, <1>10, <1>11, <1>12

LEMMA RecordsStep ==
  ASSUME Reliable, IInv, RecordsSay, [Next]_vars
  PROVE  RecordsSay'
  <1>1. CASE UNCHANGED <<post, record, queues, workers>>
    BY <1>1 DEF RecordsSay, RecordSays, Waiting, InHand, Popped, Queued, Holds
  <1>2. CASE (\E j \in Jobs : Interrupt(j) \/ Expire(j)) \/ (\E w \in Workers : Restart(w))
    BY <1>2 DEF Interrupt, Expire, Restart, Reliable
  <1>3. CASE \E j \in Jobs : Post(j) \/ Push(j)
    BY <1>3, RecordsJobStep
  <1>4. CASE \E w \in Workers : Pop(w)
    BY <1>4, RecordsPop
  <1>5. CASE \E w \in Workers : Drop(w) \/ Begin(w) \/ Process(w) \/ Announce(w) \/ Finish(w)
    BY <1>5, RecordsWork
  <1> QED BY <1>1, <1>2, <1>3, <1>4, <1>5 DEF Next, Work, Subscribe, Disconnect, vars

LEMMA RecordsInit == Init => RecordsSay
  <1> SUFFICES ASSUME Init, NEW j \in Jobs PROVE RecordSays(j)
    BY DEF RecordsSay
  <1>1. ~Queued(j) /\ ~Popped(j) /\ ~InHand(j)
    BY QueueAssumption DEF Init, Queued, Popped, InHand, Holds, Polling
  <1> QED BY <1>1 DEF Init, RecordSays, Waiting

(* A set without two different members has at most one. *)
LEMMA AtMostOne ==
  ASSUME NEW S, \A a, b \in S : a = b
  PROVE  Cardinality(S) \in 0 .. 1 /\ (S = {} => Cardinality(S) = 0)
  <1>1. CASE S = {}
    BY <1>1, FS_EmptySet
  <1>2. CASE S # {}
    <2>1. PICK a \in S : S = {a}
      BY <1>2
    <2> QED BY <2>1, FS_Singleton, FS_EmptySet
  <1> QED BY <1>1, <1>2

LEMMA PlacesAreDisjoint ==
  ASSUME Reliable, IInv, NEW j \in Jobs
  PROVE  Cardinality(InQueue(j)) + Cardinality({w \in Workers : Holds(w, j)}) <= 1
  <1> DEFINE listed == InQueue(j)
             holders == {w \in Workers : Holds(w, j)}
  <1>0. Single(j)
    BY ReliableSingle
  <1>1. \A i, k \in listed : i = k
    BY <1>0, QueueAssumption DEF InQueue, IInv, Placement, ListedOnce
  <1>2. \A v, w \in holders : v = w
    BY <1>0, QueueAssumption DEF IInv, Placement, HeldOnce, Holds
  <1>3. listed = {} \/ holders = {}
    BY <1>0 DEF InQueue, IInv, Placement, Queued
  <1> HIDE DEF listed, holders
  <1> QED BY <1>1, <1>2, <1>3, AtMostOne DEF listed, holders

(* While no command is lost or sent twice, no server stops and no record
   expires, a record says where the id of its job is, and the id is in one
   place (the lists of JobQueue and the hands of its workers). *)
THEOREM NothingIsLost ==
  ASSUME Reliable
  PROVE  Spec => []NothingLost
  <1>2. IInv /\ RecordsSay => NothingLost
    <2> SUFFICES ASSUME IInv, RecordsSay PROVE NothingLost
      OBVIOUS
    <2>1. ASSUME NEW j \in Jobs
          PROVE  /\ Queued(j) <=> InQueue(j) # {}
                 /\ Popped(j) <=> Holders(j, {"popped"}) # {}
                 /\ InHand(j) <=> Holders(j, {"running", "processed", "announced"}) # {}
      BY DEF Queued, InQueue, Popped, InHand, Holders, Busy
    <2> QED BY <2>1, PlacesAreDisjoint DEF NothingLost, RecordsSay, RecordSays, Waiting
  <1>3. IInv /\ RecordsSay /\ [Next]_vars => (IInv /\ RecordsSay)'
    BY InvStep, RecordsStep
  <1> QED BY <1>2, <1>3, InvInit, RecordsInit, PTL DEF Spec

-----------------------------------------------------------------------------
(* The bucket of hints, while its script does not fail *)

Accepted(u) == {j \in Jobs : OwnerOf[j] = u /\ IsHint(j) /\ post[j] \in {"stored", "returned"}}

BucketOf(u) == IsFiniteSet(Accepted(u)) /\ Cardinality(Accepted(u)) + budget[u] <= HintBudget

BucketInv == \A u \in Users : BucketOf(u)

(* Accepting one hint more for a token less at least, or no hint for at most the
   tokens there were, keeps to the bucket. *)
LEMMA BucketKept ==
  ASSUME NEW u \in Users, TypeOK, TypeOK', BucketOf(u),
         \/ Accepted(u)' \subseteq Accepted(u) /\ budget'[u] <= budget[u]
         \/ \E j : Accepted(u)' \subseteq Accepted(u) \cup {j} /\ budget'[u] <= budget[u] - 1
  PROVE  BucketOf(u)'
  <1> DEFINE before == Accepted(u)
             after == Accepted(u)'
  <1>1. budget[u] \in Int /\ budget'[u] \in Int /\ HintBudget \in Nat
    BY QueueAssumption DEF TypeOK
  <1>2. IsFiniteSet(before) /\ Cardinality(before) \in Nat /\ Cardinality(before) + budget[u] <= HintBudget
    BY FS_CardinalityType DEF BucketOf
  <1> HIDE DEF before, after
  <1>3. CASE after \subseteq before /\ budget'[u] <= budget[u]
    <2>1. IsFiniteSet(after) /\ Cardinality(after) <= Cardinality(before) /\ Cardinality(after) \in Nat
      BY <1>2, <1>3, FS_Subset, FS_CardinalityType
    <2>2. Cardinality(after) + budget'[u] <= HintBudget
      BY <1>1, <1>2, <1>3, <2>1
    <2> QED BY <2>1, <2>2 DEF BucketOf, after
  <1>4. ASSUME NEW j, after \subseteq before \cup {j}, budget'[u] <= budget[u] - 1
        PROVE  BucketOf(u)'
    <2>1. /\ IsFiniteSet(before \cup {j}) /\ Cardinality(before \cup {j}) \in Nat
          /\ Cardinality(before \cup {j}) <= Cardinality(before) + 1
      <3>1. IsFiniteSet(before \cup {j})
            /\ (Cardinality(before \cup {j}) = Cardinality(before)
                \/ Cardinality(before \cup {j}) = Cardinality(before) + 1)
        BY <1>2, FS_AddElement
      <3> QED BY <1>2, <3>1
    <2>2. IsFiniteSet(after) /\ Cardinality(after) <= Cardinality(before \cup {j}) /\ Cardinality(after) \in Nat
      BY <1>4, <2>1, FS_Subset, FS_CardinalityType
    <2>3. Cardinality(after) + budget'[u] <= HintBudget
      BY <1>1, <1>2, <1>4, <2>1, <2>2
    <2> QED BY <2>2, <2>3 DEF BucketOf, after
  <1> QED BY <1>3, <1>4 DEF before, after

(* A script that does not fail takes a token at least. *)
LEMMA TakesAToken ==
  ASSUME Failures = FALSE, TypeOK, NEW u \in Users, TakeToken(u)
  PROVE  /\ budget'[u] <= budget[u] - 1 /\ budget'[u] <= budget[u]
         /\ \A v \in Users \ {u} : budget'[v] = budget[v]
  <1>1. PICK n \in 0 .. 1 + Resends : n > 0 /\ n <= budget[u] /\ budget' = [budget EXCEPT ![u] = @ - n]
    BY DEF TakeToken
  <1>2. n \in Nat /\ budget[u] \in Nat
    BY QueueAssumption DEF TypeOK
  <1> QED BY <1>1, <1>2 DEF TypeOK

LEMMA BucketStep ==
  ASSUME Failures = FALSE, TypeOK, TypeOK', BucketInv, [Next]_vars
  PROVE  BucketInv'
  <1> SUFFICES ASSUME NEW u \in Users PROVE BucketOf(u)'
    BY DEF BucketInv
  <1>1. BucketOf(u)
    BY DEF BucketInv
  <1>2. CASE UNCHANGED <<post, budget>>
    BY <1>1, <1>2 DEF BucketOf, Accepted
  <1>3. ASSUME NEW j \in Jobs, HintLimited(j) \/ HintPanics(j) \/ Push(j) \/ StoreJob(j) \/ Interrupt(j)
        PROVE  BucketOf(u)'
    <2>1. \A x \in Jobs \ {j} : post'[x] = post[x]
      BY <1>3 DEF HintLimited, HintPanics, Push, StoreJob, Interrupt, TypeOK
    <2>2. IsHint(j) /\ post'[j] \in {"stored", "returned"} => post[j] \in {"stored", "returned"}
      BY <1>3 DEF HintLimited, HintPanics, Push, StoreJob, Interrupt, TypeOK
    <2>3. Accepted(u)' \subseteq Accepted(u)
      BY <2>1, <2>2 DEF Accepted
    <2>4. budget'[u] <= budget[u]
      <3>1. budget[u] \in Nat /\ OwnerOf[j] \in Users
        BY QueueAssumption DEF TypeOK
      <3>2. CASE HintPanics(j)
        <4>1. /\ budget'[OwnerOf[j]] <= budget[OwnerOf[j]]
              /\ \A v \in Users \ {OwnerOf[j]} : budget'[v] = budget[v]
          BY <3>1, <3>2, TakesAToken DEF HintPanics
        <4> QED BY <3>1, <4>1
      <3>3. CASE HintLimited(j)
        BY <3>1, <3>3 DEF HintLimited, TypeOK
      <3>4. CASE Push(j) \/ StoreJob(j) \/ Interrupt(j)
        BY <3>1, <3>4 DEF Push, StoreJob, Interrupt
      <3> QED BY <1>3, <3>2, <3>3, <3>4
    <2> QED BY <1>1, <2>3, <2>4, BucketKept
  <1>4. ASSUME NEW j \in Jobs, StoreHint(j)
        PROVE  BucketOf(u)'
    <2>1. \A x \in Jobs \ {j} : post'[x] = post[x]
      BY <1>4 DEF StoreHint, TypeOK
    <2>2. /\ budget'[OwnerOf[j]] <= budget[OwnerOf[j]] - 1
          /\ \A v \in Users \ {OwnerOf[j]} : budget'[v] = budget[v]
      BY <1>4, TakesAToken, QueueAssumption DEF StoreHint
    <2>3. CASE u = OwnerOf[j]
      <3>1. Accepted(u)' \subseteq Accepted(u) \cup {j} /\ budget'[u] <= budget[u] - 1
        BY <2>1, <2>2, <2>3 DEF Accepted, TypeOK
      <3> QED BY <1>1, <3>1, BucketKept
    <2>4. CASE u # OwnerOf[j]
      <3>1. Accepted(u)' \subseteq Accepted(u) /\ budget'[u] = budget[u]
        BY <2>1, <2>2, <2>4 DEF Accepted, TypeOK
      <3>2. budget[u] \in Int
        BY QueueAssumption DEF TypeOK
      <3> QED BY <1>1, <3>1, <3>2, BucketKept
    <2> QED BY <2>3, <2>4
  <1> QED
    BY <1>2, <1>3, <1>4 DEF Next, Post, Expire, Work, Pop, Drop, Begin, Process, Announce,
                            Finish, Restart, Subscribe, Disconnect, vars

(* However many requests race, and whatever stops, is sent twice or expires:
   as long as the limiter's script does not fail, the hints accepted for a
   session and its tokens never exceed the bucket (RequestHint). *)
THEOREM HintsAreLimited ==
  ASSUME Failures = FALSE
  PROVE  Spec => []HintsLimited
  <1>1. Init => BucketInv
    <2> SUFFICES ASSUME Init, NEW u \in Users PROVE BucketOf(u)
      BY DEF BucketInv
    <2>1. Accepted(u) = {}
      BY DEF Init, Accepted
    <2>2. IsFiniteSet(Accepted(u)) /\ Cardinality(Accepted(u)) = 0
      BY <2>1, FS_EmptySet
    <2> QED BY <2>2, QueueAssumption DEF Init, BucketOf
  <1>2. TypeOK /\ TypeOK' /\ BucketInv /\ [Next]_vars => BucketInv'
    BY BucketStep
  <1>3. BucketInv => HintsLimited
    BY DEF BucketInv, BucketOf, Accepted, HintsLimited
  <1> QED BY <1>1, <1>2, <1>3, TypeCorrect, PTL DEF Spec
=============================================================================
