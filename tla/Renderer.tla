------------------------------ MODULE Renderer ------------------------------
(***************************************************************************)
(* One artwork render job: its creation and cancellation by the API        *)
(* (render.ts, render-batch.ts), executeRenderJob and the reconciliation   *)
(* cycle of the renderer process (renderer-worker.ts), and the BullMQ job  *)
(* between them (render-queue.ts).                                         *)
(*                                                                         *)
(* A worker process executes one job at a time, so its name stands for the *)
(* executionToken of what it executes.  The output is deterministic: two   *)
(* executions of one job render the same bytes under the same key.  The    *)
(* counters of the batch are the subject of RenderBatch.                   *)
(***************************************************************************)
EXTENDS Integers, FiniteSets

CONSTANTS
  Workers,      \* renderer processes
  Reconcilers,  \* the periodic reconcilers, one in each process
  MaxTries,     \* attempts of a BullMQ job
  MaxMishaps    \* bound: crashes, lost answers, locks and connections together

ASSUME RendererAssumption ==
  /\ "none" \notin Workers
  /\ MaxTries \in Nat \ {0}
  /\ MaxMishaps \in Nat

VARIABLES
  job,        \* the row of RenderJob
  asset,      \* its MediaAsset: "none", "pending" or "ready"
  stored,     \* the object exists in the storage
  batch,      \* its batch: "none", "active" or "cancelled" (cancelRequestedAt)
  queue,      \* the BullMQ job render-<id>
  creating,   \* the create request has not called queue.add yet
  worker,     \* [Workers -> where executeRenderJob is]
  cycle,      \* [Reconcilers -> where the reconciliation cycle is]
  mishaps     \* what went wrong so far

vars == <<job, asset, stored, batch, queue, creating, worker, cycle, mishaps>>

Final == {"COMPLETED", "FAILED", "CANCELLED"}
Row   == [status: {"NONE", "PENDING", "PROCESSING"} \cup Final,
          token: Workers \cup {"none"}, lease: {"none", "live", "expired"}]
Freed(status) == [status |-> status, token |-> "none", lease |-> "none"]

QueueJob == [state: {"absent", "waiting", "active", "completed", "failed"},
             payload: {"plain", "batchId"}, made: 0..MaxTries, stalls: 0..1,
             owner: Workers \cup {"none"}]
NoJob    == [state |-> "absent", payload |-> "plain", made |-> 0, stalls |-> 0,
             owner |-> "none"]
NewJob   == [NoJob EXCEPT !.state = "waiting"]
(* queue.add leaves a job of that id alone, job.remove() a locked one. *)
Added(payload) ==
  IF queue.state = "absent" THEN [NewJob EXCEPT !.payload = payload] ELSE queue
Removed  == IF queue.state = "active" THEN queue ELSE NoJob

Mishap == mishaps < MaxMishaps /\ mishaps' = mishaps + 1

-----------------------------------------------------------------------------
(* The API *)

(* The row, of one artwork or of a batch and its items. *)
Create ==
  /\ job.status = "NONE"
  /\ job' = Freed("PENDING")
  /\ batch' \in {"none", "active"}
  /\ creating' = TRUE
  /\ UNCHANGED <<asset, stored, queue, worker, cycle, mishaps>>

(* queue.add, for an item of a batch with the batchId in the payload, or
   nothing: Redis or the process is lost and the answer is 202. *)
Enqueue ==
  /\ creating
  /\ creating' = FALSE
  /\ \/ queue' = Added(IF batch = "none" THEN "plain" ELSE "batchId") /\ mishaps' = mishaps
     \/ queue' = queue /\ Mishap
  /\ UNCHANGED <<job, asset, stored, batch, worker, cycle>>

(* Cancel of the batch: the request is recorded and PENDING jobs end.  That
   it commits while a job is in PROCESSING is more than RenderBatch allows. *)
RequestCancel ==
  /\ batch = "active"
  /\ batch' = "cancelled"
  /\ job' = IF job.status = "PENDING" THEN Freed("CANCELLED") ELSE job
  /\ UNCHANGED <<asset, stored, queue, creating, worker, cycle, mishaps>>

-----------------------------------------------------------------------------
(* executeRenderJob *)

Goto(w, pc) == worker' = [worker EXCEPT ![w] = pc]
Owns(w)     == job.token = w

(* A transaction that commits is answered, or its answer is lost. *)
Committed(w, next, lost) == \/ Goto(w, next) /\ mishaps' = mishaps
                            \/ Goto(w, lost) /\ Mishap

(* The payload schema is strict and knows no batchId: such a job is refused. *)
Take(w) ==
  /\ worker[w] = "ready" /\ queue.state = "waiting"
  /\ queue' = [queue EXCEPT !.state = "active", !.owner = w]
  /\ Goto(w, IF queue.payload = "batchId" THEN "fail" ELSE "look")
  /\ UNCHANGED <<job, asset, stored, batch, creating, cycle, mishaps>>

(* The read of the acquisition transaction: finished jobs are skipped, a live
   lease is an ActiveLeaseError, which BullMQ tries again. *)
Look(w) ==
  /\ worker[w] = "look"
  /\ Goto(w, CASE job.status \in Final                              -> "done"
               [] job.status = "PENDING"                            -> "start"
               [] job.status = "PROCESSING" /\ job.lease = "expired" -> "recover"
               [] OTHER                                             -> "retry")
  /\ UNCHANGED <<job, asset, stored, batch, queue, creating, cycle, mishaps>>

(* The compare-and-set: still PENDING, or still under the lease that ended. *)
Acquire(w) ==
  /\ worker[w] \in {"start", "recover"}
  /\ IF \/ worker[w] = "start" /\ job.status = "PENDING"
        \/ worker[w] = "recover" /\ job.status = "PROCESSING" /\ job.lease = "expired"
     THEN /\ job' = [status |-> "PROCESSING", token |-> w, lease |-> "live"]
          /\ Committed(w, "load", "retry")
     ELSE Goto(w, "retry") /\ UNCHANGED <<job, mishaps>>
  /\ UNCHANGED <<asset, stored, batch, queue, creating, cycle>>

(* Variant with a bug: the cancel request is not read with the job. *)
LoadIgnoringCancel(w) ==
  /\ worker[w] = "load"
  /\ IF Owns(w) THEN Goto(w, "render") \/ Goto(w, "reject") ELSE Goto(w, "release")
  /\ UNCHANGED <<job, asset, stored, batch, queue, creating, cycle, mishaps>>

(* The job is read again by its token, with its batch, template and media. *)
Load(w) ==
  /\ worker[w] = "load"
  /\ IF ~Owns(w) THEN Goto(w, "release")
     ELSE IF batch = "cancelled" THEN Goto(w, "cancel")
     ELSE Goto(w, "render") \/ Goto(w, "reject")
  /\ UNCHANGED <<job, asset, stored, batch, queue, creating, cycle, mishaps>>

(* Media that is missing or has another hash, and a render that fails, are
   permanent; a download that fails is not. *)
Render(w) ==
  /\ worker[w] = "render"
  /\ \/ /\ Goto(w, "check") \/ Goto(w, "reject")
        /\ mishaps' = mishaps
     \/ Goto(w, "release") /\ Mishap
  /\ UNCHANGED <<job, asset, stored, batch, queue, creating, cycle>>

(* The cancel request is read once more before anything is stored. *)
CheckCancel(w) ==
  /\ worker[w] = "check"
  /\ Goto(w, IF batch = "cancelled" THEN "cancel" ELSE "reserve")
  /\ UNCHANGED <<job, asset, stored, batch, queue, creating, cycle, mishaps>>

(* updateMany where executionToken, whatever it counts. *)
CancelSelf(w) ==
  /\ worker[w] = "cancel"
  /\ job' = IF Owns(w) THEN Freed("CANCELLED") ELSE job
  /\ Committed(w, "done", "release")
  /\ UNCHANGED <<asset, stored, batch, queue, creating, cycle>>

(* The MediaAsset of the job's id is created, unless it is there. *)
ReserveMedia(w) ==
  /\ worker[w] = "reserve"
  /\ IF Owns(w) THEN /\ asset' = IF asset = "none" THEN "pending" ELSE asset
                     /\ Committed(w, "put", "release")
     ELSE Goto(w, "release") /\ UNCHANGED <<asset, mishaps>>
  /\ UNCHANGED <<job, stored, batch, queue, creating, cycle>>

(* storage.put with If-None-Match: an object that exists is read back and is
   the same.  An error may come after the object was stored, and an object
   that cannot be read back counts as a conflict. *)
PutObject(w) ==
  /\ worker[w] = "put"
  /\ \/ stored' = TRUE /\ Goto(w, "finalize") /\ mishaps' = mishaps
     \/ stored' \in {stored, TRUE} /\ Goto(w, "release") /\ Mishap
     \/ stored /\ stored' = TRUE /\ Goto(w, "reject") /\ Mishap
  /\ UNCHANGED <<job, asset, batch, queue, creating, cycle>>

(* Variants with a bug: the job is not fenced, or not in the transaction of
   the asset. *)
FinalizeUnfenced(w) ==
  /\ worker[w] = "finalize"
  /\ job' = Freed("COMPLETED") /\ asset' = "ready"
  /\ Committed(w, "done", "release")
  /\ UNCHANGED <<stored, batch, queue, creating, cycle>>
FinalizeWithoutRollback(w) ==
  /\ worker[w] = "finalize"
  /\ asset' = "ready"
  /\ IF Owns(w) THEN job' = Freed("COMPLETED") /\ Committed(w, "done", "release")
     ELSE Goto(w, "release") /\ UNCHANGED <<job, mishaps>>
  /\ UNCHANGED <<stored, batch, queue, creating, cycle>>

(* Asset and job in one transaction, which a lost token rolls back. *)
Finalize(w) ==
  /\ worker[w] = "finalize"
  /\ IF Owns(w) THEN /\ job' = Freed("COMPLETED") /\ asset' = "ready"
                     /\ Committed(w, "done", "release")
     ELSE Goto(w, "release") /\ UNCHANGED <<job, asset, mishaps>>
  /\ UNCHANGED <<stored, batch, queue, creating, cycle>>

(* markPermanentFailure swallows an error of its own. *)
MarkFailed(w) ==
  /\ worker[w] = "reject"
  /\ \/ job' = (IF Owns(w) THEN Freed("FAILED") ELSE job) /\ mishaps' = mishaps
     \/ job' = job /\ Mishap
  /\ Goto(w, "fail")
  /\ UNCHANGED <<asset, stored, batch, queue, creating, cycle>>

(* releaseTransientJob swallows an error of its own, then the job throws. *)
ReleaseJob(w) ==
  /\ worker[w] = "release"
  /\ \/ job' = (IF Owns(w) THEN Freed("PENDING") ELSE job) /\ mishaps' = mishaps
     \/ job' = job /\ Mishap
  /\ Goto(w, "retry")
  /\ UNCHANGED <<asset, stored, batch, queue, creating, cycle>>

(* A transaction or a read that throws and changes nothing. *)
DatabaseFails(w) ==
  /\ \/ worker[w] \in {"look", "start", "recover"} /\ Goto(w, "retry")
     \/ /\ worker[w] \in {"load", "check", "cancel", "reserve", "finalize"}
        /\ Goto(w, "release")
  /\ Mishap
  /\ UNCHANGED <<job, asset, stored, batch, queue, creating, cycle>>

-----------------------------------------------------------------------------
(* BullMQ: only the worker that holds the lock ends its job. *)

Locks(w) == queue.owner = w
Ended(state) == [queue EXCEPT !.state = state, !.owner = "none"]

EndJob(w, pc, result) ==
  /\ worker[w] = pc
  /\ Goto(w, "ready")
  /\ queue' = IF Locks(w) THEN result ELSE queue
  /\ UNCHANGED <<job, asset, stored, batch, creating, cycle, mishaps>>

Complete(w)    == EndJob(w, "done", Ended("completed"))
FailForGood(w) == EndJob(w, "fail", Ended("failed"))   \* UnrecoverableError
Retry(w) ==
  EndJob(w, "retry",
         [Ended(IF queue.made + 1 < MaxTries THEN "waiting" ELSE "failed")
            EXCEPT !.made = @ + 1])

(* The lock of a worker that died, or that lost it, is found stalled: the job
   is given out once more, then failed. *)
Stall ==
  /\ queue.state = "active"
  /\ IF worker[queue.owner] = "ready" THEN mishaps' = mishaps ELSE Mishap
  /\ queue' = [Ended(IF queue.stalls = 0 THEN "waiting" ELSE "failed") EXCEPT !.stalls = 1]
  /\ UNCHANGED <<job, asset, stored, batch, creating, worker, cycle>>

Crash(w) ==
  /\ worker[w] # "ready"
  /\ Goto(w, "ready")
  /\ Mishap
  /\ UNCHANGED <<job, asset, stored, batch, queue, creating, cycle>>

LeaseExpires ==
  /\ job.lease = "live"
  /\ job' = [job EXCEPT !.lease = "expired"]
  /\ UNCHANGED <<asset, stored, batch, queue, creating, worker, cycle, mishaps>>

-----------------------------------------------------------------------------
(* runRendererReconciliationCycle *)

Cycle == [pc: {"idle", "check", "remove", "add", "reset"},
          seen: {"none", "PENDING", "PROCESSING"}]
Rest  == [pc |-> "idle", seen |-> "none"]

Reconciled(c, from, to) ==
  /\ cycle[c].pc = from
  /\ cycle' = [cycle EXCEPT ![c] = IF to = "idle" THEN Rest ELSE [@ EXCEPT !.pc = to]]
  /\ UNCHANGED <<asset, stored, batch, creating, worker, mishaps>>

(* Variant with a bug: only what was never begun is looked for. *)
DiscoverPendingOnly(c) ==
  /\ cycle[c].pc = "idle"
  /\ job.status = "PENDING"
  /\ cycle' = [cycle EXCEPT ![c] = [pc |-> "check", seen |-> "PENDING"]]
  /\ UNCHANGED <<job, asset, stored, batch, queue, creating, worker, mishaps>>

(* discover_reconcilable_render_jobs *)
Discover(c) ==
  /\ cycle[c].pc = "idle"
  /\ \/ job.status = "PENDING"
     \/ job.status = "PROCESSING" /\ job.lease = "expired"
  /\ cycle' = [cycle EXCEPT ![c] = [pc |-> "check", seen |-> job.status]]
  /\ UNCHANGED <<job, asset, stored, batch, queue, creating, worker, mishaps>>

(* getJob and getState: a job that waits or is active is left to BullMQ. *)
CheckJob(c) ==
  /\ Reconciled(c, "check", CASE queue.state = "absent"                  -> "add"
                              [] queue.state \in {"completed", "failed"} -> "remove"
                              [] OTHER                                   -> "idle")
  /\ UNCHANGED <<job, queue>>

RemoveJob(c) ==
  /\ Reconciled(c, "remove", "add")
  /\ queue' = Removed
  /\ job' = job

AddJob(c) ==
  /\ Reconciled(c, "add", IF cycle[c].seen = "PROCESSING" THEN "reset" ELSE "idle")
  /\ queue' = Added("plain")
  /\ job' = job

(* Variant with a bug: the reset does not compare the status. *)
ResetUnconditionally(c) ==
  /\ Reconciled(c, "reset", "idle")
  /\ job' = Freed("PENDING")
  /\ queue' = queue

(* The reset compares the status it saw, not the lease and not the token. *)
Reset(c) ==
  /\ Reconciled(c, "reset", "idle")
  /\ job' = IF job.status = "PROCESSING" THEN Freed("PENDING") ELSE job
  /\ queue' = queue

(* The process dies in its cycle, or a step throws and the cycle goes on. *)
CycleFails(c) ==
  /\ cycle[c].pc # "idle"
  /\ cycle' = [cycle EXCEPT ![c] = Rest]
  /\ Mishap
  /\ UNCHANGED <<job, asset, stored, batch, queue, creating, worker>>

-----------------------------------------------------------------------------
Init ==
  /\ job = Freed("NONE") /\ asset = "none" /\ stored = FALSE /\ batch = "none"
  /\ queue = NoJob /\ creating = FALSE
  /\ worker = [w \in Workers |-> "ready"]
  /\ cycle = [c \in Reconcilers |-> Rest]
  /\ mishaps = 0

Execute(w) ==
  \/ Take(w) \/ Look(w) \/ Acquire(w) \/ Load(w) \/ Render(w) \/ CheckCancel(w)
  \/ CancelSelf(w) \/ ReserveMedia(w) \/ PutObject(w) \/ Finalize(w)
  \/ MarkFailed(w) \/ ReleaseJob(w) \/ Complete(w) \/ FailForGood(w) \/ Retry(w)

Reconcile(c) == Discover(c) \/ CheckJob(c) \/ RemoveJob(c) \/ AddJob(c) \/ Reset(c)

Next ==
  \/ Create \/ Enqueue \/ RequestCancel \/ Stall \/ LeaseExpires
  \/ \E w \in Workers : Execute(w) \/ DatabaseFails(w) \/ Crash(w)
  \/ \E c \in Reconcilers : Reconcile(c) \/ CycleFails(c)

Spec == Init /\ [][Next]_vars

(* Processes go on with what they began and are started again, the cycle runs
   every minute, time passes.  Nobody has to ask for anything. *)
Fairness ==
  /\ WF_vars(Enqueue) /\ WF_vars(Stall) /\ WF_vars(LeaseExpires)
  /\ \A w \in Workers : WF_vars(Execute(w))
  /\ \A c \in Reconcilers : WF_vars(Reconcile(c))

FairSpec == Spec /\ Fairness

-----------------------------------------------------------------------------
(* Properties *)

Steps == {"ready", "look", "start", "recover", "load", "render", "check", "cancel",
          "reserve", "put", "finalize", "reject", "release", "done", "retry", "fail"}

(* Types. *)
TypeOK ==
  /\ job \in Row
  /\ asset \in {"none", "pending", "ready"}
  /\ stored \in BOOLEAN /\ creating \in BOOLEAN
  /\ batch \in {"none", "active", "cancelled"}
  /\ queue \in QueueJob
  /\ worker \in [Workers -> Steps]
  /\ cycle \in [Reconcilers -> Cycle]
  /\ mishaps \in 0..MaxMishaps

(* The library offers the artwork exactly when the job is COMPLETED, and then
   the object is there: not before, not after a failed or lost execution. *)
ReadyIffCompleted ==
  /\ asset = "ready" <=> job.status = "COMPLETED"
  /\ asset = "ready" => stored

(* Token, lease and status of the row go together, so that an execution which
   was abandoned is found by its lease and one that ended is fenced out. *)
LeaseIffProcessing ==
  /\ job.lease # "none" <=> job.status = "PROCESSING"
  /\ job.token # "none" <=> job.status = "PROCESSING"

(* A job that ended stays as it ended, whatever late executions, reconcilers
   and cancel requests do. *)
FinalIsFinal == [][job.status \in Final => job' = job]_vars

(* What the API answers of the job. *)
ShownAs ==
  CASE job.status = "NONE"                      -> "absent"
    [] job.status \in {"PENDING", "PROCESSING"} -> "running"
    [] job.status = "COMPLETED"                 -> "completed"
    [] job.status = "FAILED"                    -> "failed"
    [] job.status = "CANCELLED"                 -> "cancelled"

Promise == INSTANCE RenderOnce WITH
  shown <- ShownAs, offered <- asset = "ready", asked <- batch = "cancelled"

(* The renderer keeps its promise (module RenderOnce): whichever executions crash,
   lose their lease or are begun again, a job ends once, completed together with
   its artwork, and cancelled only on request. *)
RendersOnce == Promise!Spec

(* An execution changes the row only while the row carries its token, or by
   the acquisition that gives it the token. *)
Fenced ==
  [][\A w \in Workers :
       worker'[w] # worker[w] /\ job' # job => job.token = w \/ job'.token = w]_vars

(* A job that is back in PENDING after its batch was cancelled (an execution
   failed or was abandoned) is never rendered: it ends CANCELLED. *)
CancelHolds ==
  [](batch = "cancelled" /\ job.status = "PENDING" => []~(job.status \in {"COMPLETED", "FAILED"}))

(* Every job that was asked for ends, although executions crash and the queue
   loses or exhausts its job: the reconciler gives it another one. *)
Settles == job.status \in {"PENDING", "PROCESSING"} ~> job.status \in Final
=============================================================================
