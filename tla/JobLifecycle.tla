---------------------------- MODULE JobLifecycle ----------------------------
(***************************************************************************)
(* What the asynchronous jobs promise to a client, without queues or       *)
(* workers: the status GET /jobs/{id} shows and the events that reach the  *)
(* stream of the job's owner.                                              *)
(*                                                                         *)
(* The record of a job whose id was listed once moves forward only:        *)
(* queued, then running, then done or failed.  The owner hears hint.ready  *)
(* at one telling and then a closing event at another, none of them once   *)
(* the record is final, and the record never contradicts what was heard;   *)
(* a telling is repeated when its command is sent again.  A job whose id   *)
(* was listed more than once is processed again: it may be opened again    *)
(* and tell everything again, but a hint is never taken back.  Any record  *)
(* vanishes for good when its key expires.                                 *)
(***************************************************************************)
EXTENDS Naturals, Sequences

CONSTANTS
  Jobs,
  Copies     \* most times one telling of an event reaches the stream

VARIABLES
  record,    \* what GET /jobs/{id} answers
  streamed,  \* the events of a job that went to its owner's stream, in order
  doubled    \* history: jobs whose id was listed more than once

lifecycleVars == <<record, streamed, doubled>>

Record == {"none", "queued", "running", "done", "failed", "gone"}
Event == {"hint.ready", "job.completed", "job.failed"}

Open == {"queued", "running"}

Told(j) == {streamed[j][i] : i \in DOMAIN streamed[j]}

(* What may have been told before an event. *)
Before(e) == IF e = "job.completed" THEN {"hint.ready"} ELSE {}

(* What may have been told to the owner of a job with a final status. *)
Agrees(status) == IF status = "done" THEN {"hint.ready", "job.completed"} ELSE {"job.failed"}

(* A hint that was shown is not followed by a failure of its job. *)
HintStands(j) == "hint.ready" \in Told(j) => record[j] # "failed" /\ "job.failed" \notin Told(j)

Init == /\ record = [j \in Jobs |-> "none"]
        /\ streamed = [j \in Jobs |-> << >>]
        /\ doubled = {}

Show(j, status) == /\ record' = [record EXCEPT ![j] = status]
                   /\ UNCHANGED <<streamed, doubled>>

Stream(j, e) == /\ \E n \in 1 .. Copies : streamed' = [streamed EXCEPT ![j] = @ \o [i \in 1 .. n |-> e]]
                /\ UNCHANGED <<record, doubled>>

Accept(j) == record[j] = "none" /\ Told(j) = {} /\ Show(j, "queued")

Start(j) == record[j] = "queued" /\ Told(j) = {} /\ Show(j, "running")

Tell(j, e) == record[j] \in Open /\ Told(j) \subseteq Before(e) /\ Stream(j, e)

Settle(j, status) == record[j] \in Open /\ Told(j) \subseteq Agrees(status) /\ Show(j, status)

Forget(j) == record[j] # "none" /\ Show(j, "gone")

Double(j) == /\ record[j] \in {"none", "queued"} /\ Told(j) = {}
             /\ doubled' = doubled \cup {j}
             /\ UNCHANGED <<record, streamed>>

Redo(j) == /\ j \in doubled /\ record[j] \notin {"none", "gone"}
           /\ \/ \E status \in {"running", "done", "failed"} : Show(j, status)
              \/ \E e \in Event : Stream(j, e)
           /\ HintStands(j)'

Next == \E j \in Jobs :
          \/ Accept(j) \/ Start(j) \/ Forget(j) \/ Double(j) \/ Redo(j)
          \/ \E e \in Event : Tell(j, e)
          \/ \E status \in {"done", "failed"} : Settle(j, status)

Spec == Init /\ [][Next]_lifecycleVars
=============================================================================
