--------------------------- MODULE RendererProofs ---------------------------
(***************************************************************************)
(* What holds of Renderer for every set of processes and reconcilers and   *)
(* every number of attempts and mishaps.                                   *)
(***************************************************************************)
EXTENDS Renderer, TLAPS

-----------------------------------------------------------------------------
(* The inductive invariant *)

(* A job that BullMQ may still give out has attempts left, and its lock has
   an owner while it is active: so attempts are counted within MaxTries. *)
QueueInv ==
  /\ queue.state \in {"waiting", "active"} => queue.made < MaxTries
  /\ queue.owner # "none" => queue.state = "active"

(* What is about to be offered in the library is in the storage. *)
FinalizeStored == \A w \in Workers : worker[w] = "finalize" => stored

Inv == TypeOK /\ LeaseIffProcessing /\ ReadyIffCompleted /\ QueueInv /\ FinalizeStored

-----------------------------------------------------------------------------
(* The parts of the state *)

(* Steps that move no worker to the finalisation. *)
NobodyFinalizes == \A w \in Workers : worker'[w] = "finalize" => worker[w] = "finalize"

(* A worker that moves on keeps the type of all workers, and all but itself
   where they are. *)
LEMMA GotoType ==
  ASSUME TypeOK, NEW w \in Workers, NEW pc \in Steps, Goto(w, pc)
  PROVE  /\ worker' \in [Workers -> Steps]
         /\ worker'[w] = pc
         /\ \A v \in Workers \ {w} : worker'[v] = worker[v]
BY DEF TypeOK, Goto

(* A transaction that commits leads to one of its two places. *)
LEMMA CommittedType ==
  ASSUME TypeOK, NEW w \in Workers, NEW next \in Steps, NEW lost \in Steps,
         Committed(w, next, lost)
  PROVE  /\ worker' \in [Workers -> Steps]
         /\ worker'[w] \in {next, lost}
         /\ \A v \in Workers \ {w} : worker'[v] = worker[v]
         /\ mishaps' \in 0..MaxMishaps
<1>1. PICK pc \in {next, lost} : Goto(w, pc)
  BY DEF Committed
<1>2. mishaps' \in 0..MaxMishaps
  BY RendererAssumption DEF Committed, Mishap, TypeOK
<1> QED
  BY <1>1, <1>2, GotoType

(* A row that is freed with a status other than PROCESSING is in order. *)
LEMMA FreedRow ==
  ASSUME NEW s \in {"NONE", "PENDING"} \cup Final
  PROVE  /\ Freed(s) \in Row
         /\ Freed(s).status = s /\ Freed(s).token = "none" /\ Freed(s).lease = "none"
BY DEF Freed, Row, Final

(* Whoever owns the row finds it in PROCESSING. *)
LEMMA OwnerProcesses ==
  ASSUME LeaseIffProcessing, NEW w \in Workers, Owns(w)
  PROVE  job.status = "PROCESSING"
BY RendererAssumption DEF LeaseIffProcessing, Owns

(* A mishap stays within its bound. *)
LEMMA MishapType ==
  ASSUME TypeOK, mishaps' = mishaps \/ Mishap
  PROVE  mishaps' \in 0..MaxMishaps
BY RendererAssumption DEF TypeOK, Mishap

(* queue.add and job.remove leave a queue in order. *)
LEMMA QueueType ==
  ASSUME TypeOK, QueueInv, NEW p \in {"plain", "batchId"},
         queue' \in {queue, Added(p), Removed}
  PROVE  queue' \in QueueJob /\ QueueInv'
<1>1. /\ NoJob \in QueueJob /\ NewJob \in QueueJob
      /\ NoJob.state = "absent" /\ NoJob.owner = "none"
      /\ NewJob.state = "waiting" /\ NewJob.owner = "none" /\ NewJob.made = 0
  BY RendererAssumption DEF NoJob, NewJob, QueueJob
<1>2. queue \in QueueJob
  BY DEF TypeOK
<1>3. CASE queue' \in {queue, Removed}
  BY <1>1, <1>2, <1>3 DEF Removed, QueueInv
<1>4. CASE queue.state = "absent" /\ queue' = [NewJob EXCEPT !.payload = p]
  <2>1. /\ queue' \in QueueJob /\ queue'.state = "waiting"
        /\ queue'.owner = "none" /\ queue'.made = 0
    BY <1>1, <1>4 DEF QueueJob
  <2> QED
    BY <2>1, RendererAssumption DEF QueueInv
<1> QED
  BY <1>3, <1>4 DEF Added

(* A job that leaves its worker has no owner, and keeps its counts. *)
LEMMA EndedType ==
  ASSUME queue \in QueueJob, NEW state \in {"waiting", "completed", "failed"}
  PROVE  /\ Ended(state) \in QueueJob
         /\ Ended(state).state = state /\ Ended(state).owner = "none"
         /\ Ended(state).made = queue.made
BY DEF Ended, QueueJob

-----------------------------------------------------------------------------
(* One lemma for each kind of step *)

(* The API. *)
LEMMA ApiStep ==
  ASSUME Inv, Create \/ Enqueue \/ RequestCancel
  PROVE  Inv'
<1>1. CASE Create
  <2>1. job' = Freed("PENDING") /\ job'.status = "PENDING" /\ job' \in Row
    BY <1>1, FreedRow DEF Create
  <2> QED
    BY <1>1, <2>1, FreedRow
       DEF Create, Inv, TypeOK, LeaseIffProcessing, ReadyIffCompleted, QueueInv, FinalizeStored
<1>2. CASE Enqueue
  <2>1. queue' \in QueueJob /\ QueueInv'
    BY <1>2, QueueType DEF Enqueue, Inv
  <2>2. mishaps' \in 0..MaxMishaps
    BY <1>2, MishapType DEF Enqueue, Inv
  <2> QED
    BY <1>2, <2>1, <2>2
       DEF Enqueue, Inv, TypeOK, LeaseIffProcessing, ReadyIffCompleted, FinalizeStored
<1>3. CASE RequestCancel
  <2>1. job' = job \/ (job.status = "PENDING" /\ job' = Freed("CANCELLED"))
    BY <1>3 DEF RequestCancel
  <2>2. job' \in Row /\ LeaseIffProcessing' /\ ReadyIffCompleted'
    BY <1>3, <2>1, FreedRow
       DEF RequestCancel, Inv, TypeOK, LeaseIffProcessing, ReadyIffCompleted, Final
  <2> QED
    BY <1>3, <2>2 DEF RequestCancel, Inv, TypeOK, QueueInv, FinalizeStored
<1> QED
  BY <1>1, <1>2, <1>3

(* Steps of an execution that leave row, asset and object alone. *)
LEMMA MoveStep ==
  ASSUME Inv, NEW w \in Workers,
         \/ Look(w) \/ Load(w) \/ Render(w) \/ CheckCancel(w)
         \/ DatabaseFails(w) \/ Crash(w)
  PROVE  Inv'
<1>1. PICK pc \in Steps \ {"finalize"} : Goto(w, pc)
  BY DEF Look, Load, Render, CheckCancel, DatabaseFails, Crash, Steps
<1>2. /\ UNCHANGED <<job, asset, stored, batch, queue, creating, cycle>>
      /\ mishaps' = mishaps \/ Mishap
  BY DEF Look, Load, Render, CheckCancel, DatabaseFails, Crash
<1>3. worker' \in [Workers -> Steps] /\ NobodyFinalizes
  BY <1>1, GotoType DEF Inv, NobodyFinalizes
<1>4. mishaps' \in 0..MaxMishaps
  BY <1>2, MishapType DEF Inv
<1> QED
  BY <1>2, <1>3, <1>4
     DEF Inv, TypeOK, LeaseIffProcessing, ReadyIffCompleted, QueueInv, FinalizeStored,
         NobodyFinalizes

(* The acquisition gives the row token and lease at once. *)
LEMMA AcquireStep ==
  ASSUME Inv, NEW w \in Workers, Acquire(w)
  PROVE  Inv'
<1>1. UNCHANGED <<asset, stored, batch, queue, creating, cycle>>
  BY DEF Acquire
<1>2. CASE UNCHANGED job
  <2>1. mishaps' \in 0..MaxMishaps /\ worker' \in [Workers -> Steps] /\ NobodyFinalizes
    BY GotoType, CommittedType, MishapType DEF Acquire, Inv, Steps, NobodyFinalizes
  <2> QED
    BY <1>1, <1>2, <2>1
       DEF Inv, TypeOK, LeaseIffProcessing, ReadyIffCompleted, QueueInv, FinalizeStored,
           NobodyFinalizes
<1>3. CASE /\ job.status \in {"PENDING", "PROCESSING"}
           /\ job' = [status |-> "PROCESSING", token |-> w, lease |-> "live"]
           /\ Committed(w, "load", "retry")
  <2>1. mishaps' \in 0..MaxMishaps /\ worker' \in [Workers -> Steps] /\ NobodyFinalizes
    BY <1>3, CommittedType DEF Inv, Steps, NobodyFinalizes
  <2>2. job' \in Row /\ LeaseIffProcessing' /\ ReadyIffCompleted'
    BY <1>1, <1>3, RendererAssumption
       DEF Inv, TypeOK, Row, LeaseIffProcessing, ReadyIffCompleted
  <2> QED
    BY <1>1, <2>1, <2>2 DEF Inv, TypeOK, QueueInv, FinalizeStored, NobodyFinalizes
<1> QED
  BY <1>2, <1>3 DEF Acquire

(* The owner ends the row without the asset, or gives it back. *)
LEMMA GiveUpStep ==
  ASSUME Inv, NEW w \in Workers, CancelSelf(w) \/ MarkFailed(w) \/ ReleaseJob(w)
  PROVE  Inv'
<1>1. PICK s \in {"PENDING", "CANCELLED", "FAILED"} :
        job' = job \/ (Owns(w) /\ job' = Freed(s))
  BY DEF CancelSelf, MarkFailed, ReleaseJob
<1>2. UNCHANGED <<asset, stored, batch, queue, creating, cycle>>
  BY DEF CancelSelf, MarkFailed, ReleaseJob
<1>3. job' \in Row /\ LeaseIffProcessing' /\ ReadyIffCompleted'
  BY <1>1, <1>2, FreedRow, OwnerProcesses
     DEF Inv, TypeOK, LeaseIffProcessing, ReadyIffCompleted, Final
<1>4. mishaps' \in 0..MaxMishaps /\ worker' \in [Workers -> Steps] /\ NobodyFinalizes
  BY GotoType, CommittedType, MishapType
     DEF CancelSelf, MarkFailed, ReleaseJob, Inv, Steps, NobodyFinalizes
<1> QED
  BY <1>2, <1>3, <1>4 DEF Inv, TypeOK, QueueInv, FinalizeStored, NobodyFinalizes

(* The asset is reserved, if the row is still owned. *)
LEMMA ReserveStep ==
  ASSUME Inv, NEW w \in Workers, ReserveMedia(w)
  PROVE  Inv'
<1>1. UNCHANGED <<job, stored, batch, queue, creating, cycle>>
  BY DEF ReserveMedia
<1>2. mishaps' \in 0..MaxMishaps /\ worker' \in [Workers -> Steps] /\ NobodyFinalizes
  BY GotoType, CommittedType, MishapType DEF ReserveMedia, Inv, Steps, NobodyFinalizes
<1>3. asset' \in {"none", "pending", "ready"} /\ (asset' = "ready" <=> asset = "ready")
  BY DEF ReserveMedia, Inv, TypeOK
<1> QED
  BY <1>1, <1>2, <1>3
     DEF Inv, TypeOK, LeaseIffProcessing, ReadyIffCompleted, QueueInv, FinalizeStored,
         NobodyFinalizes

(* A worker goes to the finalisation only when its object is stored. *)
LEMMA PutStep ==
  ASSUME Inv, NEW w \in Workers, PutObject(w)
  PROVE  Inv'
<1>1. PICK pc \in {"finalize", "release", "reject"} :
        Goto(w, pc) /\ (pc = "finalize" => stored')
  BY DEF PutObject
<1>2. /\ UNCHANGED <<job, asset, batch, queue, creating, cycle>>
      /\ mishaps' = mishaps \/ Mishap
      /\ stored' \in BOOLEAN /\ (stored => stored')
  BY DEF PutObject, Inv, TypeOK
<1>3. /\ worker' \in [Workers -> Steps] /\ worker'[w] = pc
      /\ \A v \in Workers \ {w} : worker'[v] = worker[v]
  BY <1>1, GotoType DEF Inv, Steps
<1>4. FinalizeStored'
  BY <1>1, <1>2, <1>3 DEF Inv, FinalizeStored
<1>5. mishaps' \in 0..MaxMishaps
  BY <1>2, MishapType DEF Inv
<1> QED
  BY <1>2, <1>3, <1>4, <1>5
     DEF Inv, TypeOK, LeaseIffProcessing, ReadyIffCompleted, QueueInv

(* Row and asset change together. *)
LEMMA FinalizeStep ==
  ASSUME Inv, NEW w \in Workers, Finalize(w)
  PROVE  Inv'
<1>1. UNCHANGED <<stored, batch, queue, creating, cycle>> /\ stored
  BY DEF Finalize, Inv, FinalizeStored
<1>2. mishaps' \in 0..MaxMishaps /\ worker' \in [Workers -> Steps] /\ NobodyFinalizes
  BY GotoType, CommittedType, MishapType DEF Finalize, Inv, Steps, NobodyFinalizes
<1>3. \/ job' = Freed("COMPLETED") /\ asset' = "ready"
      \/ UNCHANGED <<job, asset>>
  BY DEF Finalize
<1>4. /\ job' \in Row /\ asset' \in {"none", "pending", "ready"}
      /\ LeaseIffProcessing' /\ ReadyIffCompleted'
  BY <1>1, <1>3, FreedRow
     DEF Inv, TypeOK, LeaseIffProcessing, ReadyIffCompleted, Final
<1> QED
  BY <1>1, <1>2, <1>4 DEF Inv, TypeOK, QueueInv, FinalizeStored, NobodyFinalizes

(* BullMQ gives out the job, ends it, tries it again or finds it stalled. *)
LEMMA BullStep ==
  ASSUME Inv,
         Stall \/ \E w \in Workers : Take(w) \/ Complete(w) \/ FailForGood(w) \/ Retry(w)
  PROVE  Inv'
<1>0. queue \in QueueJob /\ RendererAssumption
  BY RendererAssumption DEF Inv, TypeOK
<1>1. CASE Stall
  <2>1. queue' \in QueueJob /\ QueueInv'
    <3>1. PICK state \in {"waiting", "failed"} :
            queue' = [Ended(state) EXCEPT !.stalls = 1]
      BY <1>1 DEF Stall
    <3>2. /\ queue' \in QueueJob /\ queue'.state = state
          /\ queue'.owner = "none" /\ queue'.made = queue.made
      BY <1>0, <3>1, EndedType DEF QueueJob
    <3> QED
      BY <1>1, <3>2 DEF Stall, Inv, QueueInv
  <2>2. mishaps' \in 0..MaxMishaps
    BY <1>1, MishapType DEF Stall, Inv
  <2> QED
    BY <1>1, <2>1, <2>2
       DEF Stall, Inv, TypeOK, LeaseIffProcessing, ReadyIffCompleted, FinalizeStored
<1>2. ASSUME NEW w \in Workers, Take(w)
      PROVE  Inv'
  <2>1. queue' \in QueueJob /\ QueueInv'
    BY <1>0, <1>2, RendererAssumption DEF Take, QueueJob, Inv, QueueInv
  <2>2. worker' \in [Workers -> Steps] /\ NobodyFinalizes
    BY <1>2, GotoType DEF Take, Inv, Steps, NobodyFinalizes
  <2> QED
    BY <1>2, <2>1, <2>2
       DEF Take, Inv, TypeOK, LeaseIffProcessing, ReadyIffCompleted, FinalizeStored,
           NobodyFinalizes
<1>3. ASSUME NEW w \in Workers, Complete(w) \/ FailForGood(w) \/ Retry(w)
      PROVE  Inv'
  <2>1. /\ Goto(w, "ready")
        /\ UNCHANGED <<job, asset, stored, batch, creating, cycle, mishaps>>
    BY <1>3 DEF Complete, FailForGood, Retry, EndJob
  <2>2. worker' \in [Workers -> Steps] /\ NobodyFinalizes
    BY <2>1, GotoType DEF Inv, Steps, NobodyFinalizes
  <2>3. CASE queue' = queue
    BY <2>1, <2>2, <2>3
       DEF Inv, TypeOK, LeaseIffProcessing, ReadyIffCompleted, QueueInv, FinalizeStored,
           NobodyFinalizes
  <2>4. CASE Locks(w) /\ queue' # queue
    <3>1. queue.made < MaxTries /\ queue.made \in Nat
      BY <1>0, <2>4, RendererAssumption DEF Locks, Inv, QueueInv, QueueJob
    <3>2. queue' \in QueueJob /\ QueueInv'
      <4>1. CASE Complete(w) \/ FailForGood(w)
        <5>1. queue' = Ended("completed") \/ queue' = Ended("failed")
          BY <2>4, <4>1 DEF Complete, FailForGood, EndJob
        <5> QED
          BY <1>0, <5>1, EndedType DEF QueueInv
      <4>2. CASE Retry(w)
        <5>1. PICK state \in {"waiting", "failed"} :
                /\ queue' = [Ended(state) EXCEPT !.made = @ + 1]
                /\ state = "waiting" => queue.made + 1 < MaxTries
          BY <2>4, <4>2 DEF Retry, EndJob
        <5>2. /\ queue' \in QueueJob /\ queue'.state = state
              /\ queue'.owner = "none" /\ queue'.made = queue.made + 1
          BY <1>0, <3>1, <5>1, EndedType, RendererAssumption DEF QueueJob
        <5> QED
          BY <5>1, <5>2 DEF QueueInv
      <4> QED
        BY <1>3, <4>1, <4>2
    <3> QED
      BY <2>1, <2>2, <3>2
         DEF Inv, TypeOK, LeaseIffProcessing, ReadyIffCompleted, FinalizeStored,
             NobodyFinalizes
  <2> QED
    BY <1>3, <2>3, <2>4 DEF Complete, FailForGood, Retry, EndJob
<1> QED
  BY <1>1, <1>2, <1>3

(* Time, which ends a lease but does not take it from the row. *)
LEMMA LeaseStep ==
  ASSUME Inv, LeaseExpires
  PROVE  Inv'
<1>1. /\ job \in Row /\ job.lease = "live"
      /\ job' \in Row /\ job'.lease = "expired"
      /\ job'.status = job.status /\ job'.token = job.token
  BY DEF LeaseExpires, Inv, TypeOK, Row
<1> QED
  BY <1>1 DEF LeaseExpires, Inv, TypeOK, LeaseIffProcessing, ReadyIffCompleted, QueueInv,
              FinalizeStored

(* The reconciliation cycle. *)
LEMMA CycleStep ==
  ASSUME Inv, NEW c \in Reconcilers, Reconcile(c) \/ CycleFails(c)
  PROVE  Inv'
<1>1. UNCHANGED <<asset, stored, batch, creating, worker>>
  BY DEF Reconcile, Discover, CheckJob, RemoveJob, AddJob, Reset, Reconciled, CycleFails
<1>2. cycle' \in [Reconcilers -> Cycle]
  BY DEF Reconcile, Discover, CheckJob, RemoveJob, AddJob, Reset, Reconciled, CycleFails,
         Rest, Cycle, Inv, TypeOK
<1>3. queue' \in QueueJob /\ QueueInv'
  BY QueueType DEF Reconcile, Discover, CheckJob, RemoveJob, AddJob, Reset, CycleFails, Inv
<1>4. mishaps' \in 0..MaxMishaps
  BY MishapType
     DEF Reconcile, Discover, CheckJob, RemoveJob, AddJob, Reset, Reconciled, CycleFails, Inv
<1>5. job' = job \/ (job.status = "PROCESSING" /\ job' = Freed("PENDING"))
  BY DEF Reconcile, Discover, CheckJob, RemoveJob, AddJob, Reset, CycleFails
<1>6. job' \in Row /\ LeaseIffProcessing' /\ ReadyIffCompleted'
  BY <1>1, <1>5, FreedRow DEF Inv, TypeOK, LeaseIffProcessing, ReadyIffCompleted, Final
<1> QED
  BY <1>1, <1>2, <1>3, <1>4, <1>6 DEF Inv, TypeOK, FinalizeStored

-----------------------------------------------------------------------------
(* Inv holds initially and is kept by every step. *)
THEOREM Inductive == Spec => []Inv
<1>1. Init => Inv
  <2> SUFFICES ASSUME Init PROVE Inv
    OBVIOUS
  <2>1. job \in Row /\ LeaseIffProcessing /\ ReadyIffCompleted
    BY FreedRow DEF Init, LeaseIffProcessing, ReadyIffCompleted, Final
  <2>2. queue \in QueueJob /\ QueueInv
    BY RendererAssumption DEF Init, NoJob, QueueJob, QueueInv
  <2>3. worker \in [Workers -> Steps] /\ FinalizeStored
    BY DEF Init, Steps, FinalizeStored
  <2>4. cycle \in [Reconcilers -> Cycle] /\ mishaps \in 0..MaxMishaps
    BY RendererAssumption DEF Init, Rest, Cycle
  <2> QED
    BY <2>1, <2>2, <2>3, <2>4 DEF Init, Inv, TypeOK
<1>2. Inv /\ [Next]_vars => Inv'
  <2> SUFFICES ASSUME Inv, [Next]_vars PROVE Inv'
    OBVIOUS
  <2>1. CASE Create \/ Enqueue \/ RequestCancel
    BY <2>1, ApiStep
  <2>2. CASE Stall
    BY <2>2, BullStep
  <2>3. CASE LeaseExpires
    BY <2>3, LeaseStep
  <2>4. ASSUME NEW w \in Workers, Execute(w) \/ DatabaseFails(w) \/ Crash(w)
        PROVE  Inv'
    BY <2>4, MoveStep, AcquireStep, GiveUpStep, ReserveStep, PutStep, FinalizeStep, BullStep
       DEF Execute
  <2>5. ASSUME NEW c \in Reconcilers, Reconcile(c) \/ CycleFails(c)
        PROVE  Inv'
    BY <2>5, CycleStep
  <2>6. CASE UNCHANGED vars
    BY <2>6 DEF vars, Inv, TypeOK, LeaseIffProcessing, ReadyIffCompleted, QueueInv,
                FinalizeStored
  <2> QED
    BY <2>1, <2>2, <2>3, <2>4, <2>5, <2>6 DEF Next
<1> QED
  BY <1>1, <1>2, PTL DEF Spec

(* Every state of every behaviour is well typed. *)
THEOREM TypeCorrect == Spec => []TypeOK
<1>1. Inv => TypeOK
  BY DEF Inv
<1> QED
  BY <1>1, Inductive, PTL

(* The library offers an artwork exactly when its job is COMPLETED, and the
   object of an artwork it offers exists. *)
THEOREM OfferedIsComplete == Spec => []ReadyIffCompleted
<1>1. Inv => ReadyIffCompleted
  BY DEF Inv
<1> QED
  BY <1>1, Inductive, PTL

(* A row has token and lease exactly while it is in PROCESSING. *)
THEOREM LeasedIffProcessing == Spec => []LeaseIffProcessing
<1>1. Inv => LeaseIffProcessing
  BY DEF Inv
<1> QED
  BY <1>1, Inductive, PTL

-----------------------------------------------------------------------------
(* Who may change the row *)

(* A step changes the row by creating it, by cancelling it before it begins,
   by an acquisition, by its owner, by time, or by the reset. *)
LEMMA RowChanges ==
  ASSUME Inv, Next, job' # job
  PROVE  /\ job.status \notin Final
         /\ \A w \in Workers : worker'[w] # worker[w] => job.token = w \/ job'.token = w
<1>1. CASE Create \/ Enqueue \/ RequestCancel
  BY <1>1 DEF Create, Enqueue, RequestCancel, Final
<1>2. CASE Stall \/ LeaseExpires
  BY <1>2 DEF Stall, LeaseExpires, Inv, LeaseIffProcessing, Final
<1>3. ASSUME NEW c \in Reconcilers, Reconcile(c) \/ CycleFails(c)
      PROVE  job.status = "PROCESSING" /\ worker' = worker
  BY <1>3 DEF Reconcile, Discover, CheckJob, RemoveJob, AddJob, Reset, Reconciled, CycleFails
<1>4. ASSUME NEW w \in Workers, Execute(w) \/ DatabaseFails(w) \/ Crash(w)
      PROVE  /\ job.status \notin Final /\ (job.token = w \/ job'.token = w)
             /\ \A v \in Workers \ {w} : worker'[v] = worker[v]
  <2>1. CASE Acquire(w)
    <3>1. /\ job.status \in {"PENDING", "PROCESSING"} /\ job'.token = w
          /\ Committed(w, "load", "retry")
      BY <2>1 DEF Acquire
    <3> QED
      BY <3>1, CommittedType DEF Inv, Steps, Final
  <2>2. CASE CancelSelf(w) \/ MarkFailed(w) \/ ReleaseJob(w) \/ Finalize(w)
    <3>1. Owns(w)
      BY <2>2 DEF CancelSelf, MarkFailed, ReleaseJob, Finalize
    <3>2. job.status = "PROCESSING" /\ job.token = w
      BY <3>1, OwnerProcesses DEF Inv, Owns
    <3>3. \A v \in Workers \ {w} : worker'[v] = worker[v]
      BY <2>2 DEF CancelSelf, MarkFailed, ReleaseJob, Finalize, Committed, Goto, Inv, TypeOK
    <3> QED
      BY <3>2, <3>3 DEF Final
  <2> QED
    BY <1>4, <2>1, <2>2
       DEF Execute, Take, Look, Load, Render, CheckCancel, ReserveMedia, PutObject, Complete,
           FailForGood, Retry, EndJob, DatabaseFails, Crash
<1> QED
  BY <1>1, <1>2, <1>3, <1>4 DEF Next, Final

(* A job that ended stays as it ended. *)
THEOREM EndsOnce == Spec => FinalIsFinal
<1>1. Inv /\ [Next]_vars => [job.status \in Final => job' = job]_vars
  BY RowChanges DEF vars
<1> QED
  BY <1>1, Inductive, PTL DEF Spec, FinalIsFinal

(* No execution changes a row that does not carry its token. *)
THEOREM ExecutionsFenced == Spec => Fenced
<1>1. Inv /\ [Next]_vars
        => [\A w \in Workers : worker'[w] # worker[w] /\ job' # job
              => job.token = w \/ job'.token = w]_vars
  BY RowChanges DEF vars
<1> QED
  BY <1>1, Inductive, PTL DEF Spec, Fenced
-----------------------------------------------------------------------------
(* What a cancel request still reaches *)

(* Where an execution is before it reads the cancel request, or after. *)
Harmless == {"ready", "look", "start", "recover", "load", "cancel", "release",
             "done", "retry", "fail"}

(* The batch is cancelled, and whoever has the row has not begun to render. *)
Kept ==
  /\ batch = "cancelled"
  /\ \/ job.status \in {"PENDING", "CANCELLED"}
     \/ job.status = "PROCESSING" /\ worker[job.token] \in Harmless

(* A step of another worker leaves the owner where it is. *)
LEMMA KeptElsewhere ==
  ASSUME Inv, Kept, batch' = batch, job' = job,
         NEW w \in Workers, \A v \in Workers \ {w} : worker'[v] = worker[v],
         Owns(w) => worker'[w] \in Harmless
  PROVE  Kept'
<1>1. job.status = "PROCESSING" => job.token \in Workers
  BY DEF Inv, TypeOK, Row, LeaseIffProcessing
<1> QED
  BY <1>1 DEF Kept, Owns

(* The owner reads the request before it renders, so it cancels or releases
   the row; and so does whoever acquires it next. *)
LEMMA KeptByWork ==
  ASSUME Inv, Kept, NEW w \in Workers, Execute(w) \/ DatabaseFails(w) \/ Crash(w)
  PROVE  Kept'
<1>1. batch' = batch
  BY DEF Execute, Take, Look, Acquire, Load, Render, CheckCancel, CancelSelf, ReserveMedia,
         PutObject, Finalize, MarkFailed, ReleaseJob, Complete, FailForGood, Retry, EndJob,
         DatabaseFails, Crash
<1>2. worker \in [Workers -> Steps]
  BY DEF Inv, TypeOK
<1>3. Owns(w) => worker[w] \in Harmless
  BY OwnerProcesses DEF Inv, Kept, Owns
<1>4. \A v \in Workers \ {w} : worker'[v] = worker[v]
  BY <1>2 DEF Execute, Take, Look, Acquire, Load, Render, CheckCancel, CancelSelf,
              ReserveMedia, PutObject, Finalize, MarkFailed, ReleaseJob, Complete,
              FailForGood, Retry, EndJob, DatabaseFails, Crash, Committed, Goto
<1>5. CASE Acquire(w)
  <2>1. CASE job' = [status |-> "PROCESSING", token |-> w, lease |-> "live"]
    <3>1. worker'[w] \in {"load", "retry"}
      BY <1>2, <1>5 DEF Acquire, Committed, Goto
    <3> QED
      BY <1>1, <2>1, <3>1 DEF Kept, Harmless
  <2>2. CASE job' = job /\ Goto(w, "retry")
    BY <1>1, <1>2, <1>4, <2>2, KeptElsewhere DEF Goto, Harmless
  <2> QED
    BY <1>5, <2>1, <2>2 DEF Acquire
<1>6. CASE CancelSelf(w) \/ ReleaseJob(w)
  <2>1. CASE job' = job
    <3>1. worker'[w] \in Harmless
      BY <1>2, <1>6 DEF CancelSelf, ReleaseJob, Committed, Goto, Harmless
    <3> QED
      BY <1>1, <1>4, <2>1, <3>1, KeptElsewhere
  <2>2. CASE job' = Freed("CANCELLED") \/ job' = Freed("PENDING")
    BY <1>1, <2>2 DEF Freed, Kept
  <2> QED
    BY <1>6, <2>1, <2>2 DEF CancelSelf, ReleaseJob
<1>7. CASE \/ Render(w) \/ CheckCancel(w) \/ ReserveMedia(w) \/ PutObject(w)
           \/ Finalize(w) \/ MarkFailed(w)
  <2>1. ~Owns(w)
    BY <1>3, <1>7 DEF Render, CheckCancel, ReserveMedia, PutObject, Finalize, MarkFailed,
                      Harmless
  <2>2. job' = job
    BY <1>7, <2>1 DEF Render, CheckCancel, ReserveMedia, PutObject, Finalize, MarkFailed
  <2> QED
    BY <1>1, <1>4, <2>1, <2>2, KeptElsewhere
<1>8. CASE \/ Take(w) \/ Look(w) \/ Load(w) \/ Complete(w) \/ FailForGood(w) \/ Retry(w)
           \/ DatabaseFails(w) \/ Crash(w)
  <2>1. job' = job
    BY <1>8 DEF Take, Look, Load, Complete, FailForGood, Retry, EndJob, DatabaseFails, Crash
  <2>2. Owns(w) => worker'[w] \in Harmless
    BY <1>2, <1>3, <1>8 DEF Take, Look, Load, Complete, FailForGood, Retry, EndJob,
                            DatabaseFails, Crash, Goto, Harmless, Kept
  <2> QED
    BY <1>1, <1>4, <2>1, <2>2, KeptElsewhere
<1> QED
  BY <1>5, <1>6, <1>7, <1>8 DEF Execute

(* Nobody else begins to render. *)
LEMMA KeptNext ==
  ASSUME Inv, Kept, [Next]_vars
  PROVE  Kept'
<1>1. CASE Create \/ Enqueue \/ RequestCancel
  BY <1>1 DEF Create, Enqueue, RequestCancel, Kept
<1>2. CASE Stall \/ UNCHANGED vars
  BY <1>2 DEF Stall, vars, Kept
<1>3. CASE LeaseExpires
  BY <1>3 DEF LeaseExpires, Kept, Inv, TypeOK, Row
<1>4. ASSUME NEW c \in Reconcilers, Reconcile(c) \/ CycleFails(c)
      PROVE  Kept'
  <2>1. UNCHANGED <<batch, worker>>
    BY <1>4 DEF Reconcile, Discover, CheckJob, RemoveJob, AddJob, Reset, Reconciled, CycleFails
  <2>2. job' = job \/ job' = Freed("PENDING")
    BY <1>4 DEF Reconcile, Discover, CheckJob, RemoveJob, AddJob, Reset, CycleFails
  <2> QED
    BY <2>1, <2>2 DEF Kept, Freed
<1> QED
  BY <1>1, <1>2, <1>3, <1>4, KeptByWork DEF Next

(* A job that waits after its batch was cancelled is never rendered, however
   executions crash, lose their lease or are begun again. *)
THEOREM CancelIsKept == Spec => CancelHolds
<1>1. batch = "cancelled" /\ job.status = "PENDING" => Kept
  BY DEF Kept
<1>2. Kept => ~(job.status \in {"COMPLETED", "FAILED"})
  BY DEF Kept
<1>3. Inv /\ Kept /\ [Next]_vars => Kept'
  BY KeptNext
<1> QED
  BY <1>1, <1>2, <1>3, Inductive, PTL DEF Spec, CancelHolds

-----------------------------------------------------------------------------
(* The refinement of RenderOnce *)

(* A row that does not exist has no batch, and only an execution that read the
   request cancels its job. *)
AskInv ==
  /\ job.status = "NONE" => batch = "none"
  /\ \A w \in Workers : worker[w] = "cancel" => batch = "cancelled"

(* No step takes the row away. *)
LEMMA RowStays ==
  ASSUME Inv, [Next]_vars, job'.status = "NONE"
  PROVE  job' = job
<1>1. CASE Create \/ Enqueue \/ RequestCancel \/ Stall \/ UNCHANGED vars
  BY <1>1, FreedRow DEF Create, Enqueue, RequestCancel, Stall, vars, Final
<1>2. CASE LeaseExpires
  <2>1. job.status = "PROCESSING" /\ job'.status = job.status
    BY <1>2 DEF LeaseExpires, Inv, TypeOK, Row, LeaseIffProcessing
  <2> QED
    BY <2>1
<1>3. ASSUME NEW c \in Reconcilers, Reconcile(c) \/ CycleFails(c)
      PROVE  job' = job
  BY <1>3, FreedRow
     DEF Reconcile, Discover, CheckJob, RemoveJob, AddJob, Reset, CycleFails
<1>4. ASSUME NEW w \in Workers, Execute(w) \/ DatabaseFails(w) \/ Crash(w)
      PROVE  job' = job
  <2>1. CASE Acquire(w)
    BY <2>1 DEF Acquire
  <2>2. CASE CancelSelf(w) \/ Finalize(w) \/ MarkFailed(w) \/ ReleaseJob(w)
    BY <2>2, FreedRow DEF CancelSelf, Finalize, MarkFailed, ReleaseJob, Final
  <2> QED
    BY <1>4, <2>1, <2>2
       DEF Execute, Take, Look, Load, Render, CheckCancel, ReserveMedia, PutObject, Complete,
           FailForGood, Retry, EndJob, DatabaseFails, Crash
<1> QED
  BY <1>1, <1>2, <1>3, <1>4 DEF Next

(* The batch changes only where the API says so. *)
LEMMA BatchChanges ==
  ASSUME [Next]_vars
  PROVE  Create \/ RequestCancel \/ batch' = batch
BY DEF Next, vars, Enqueue, Stall, LeaseExpires, Execute, Take, Look, Acquire, Load, Render,
       CheckCancel, CancelSelf, ReserveMedia, PutObject, Finalize, MarkFailed, ReleaseJob,
       Complete, FailForGood, Retry, EndJob, DatabaseFails, Crash, Reconcile, Discover,
       CheckJob, RemoveJob, AddJob, Reset, Reconciled, CycleFails

(* An execution turns to the cancellation only after it read the request. *)
LEMMA TurnsToCancel ==
  ASSUME Inv, [Next]_vars, NEW w \in Workers, worker'[w] = "cancel"
  PROVE  worker[w] = "cancel" \/ batch = "cancelled"
<1>1. CASE worker' = worker
  BY <1>1
<1>2. ASSUME NEW v \in Workers, Execute(v) \/ DatabaseFails(v) \/ Crash(v)
      PROVE  worker[w] = "cancel" \/ batch = "cancelled"
  <2>1. /\ \A u \in Workers \ {v} : worker'[u] = worker[u]
        /\ worker'[v] = "cancel" => batch = "cancelled"
    <3>1. worker \in [Workers -> Steps]
      BY DEF Inv, TypeOK
    <3>2. CASE \/ Take(v) \/ Look(v) \/ Load(v) \/ Render(v) \/ CheckCancel(v)
               \/ Complete(v) \/ FailForGood(v) \/ Retry(v) \/ DatabaseFails(v) \/ Crash(v)
      BY <3>1, <3>2 DEF Take, Look, Load, Render, CheckCancel, Complete, FailForGood, Retry,
                        EndJob, DatabaseFails, Crash, Goto
    <3>3. CASE \/ Acquire(v) \/ CancelSelf(v) \/ ReserveMedia(v) \/ PutObject(v)
               \/ Finalize(v) \/ MarkFailed(v) \/ ReleaseJob(v)
      BY <3>1, <3>3 DEF Acquire, CancelSelf, ReserveMedia, PutObject, Finalize, MarkFailed,
                        ReleaseJob, Committed, Goto
    <3> QED
      BY <1>2, <3>2, <3>3 DEF Execute
  <2> QED
    BY <2>1
<1> QED
  BY <1>1, <1>2 DEF Next, vars, Create, Enqueue, RequestCancel, Stall, LeaseExpires, Reconcile,
                    Discover, CheckJob, RemoveJob, AddJob, Reset, Reconciled, CycleFails

(* AskInv holds initially and is kept by every step. *)
LEMMA Asked == Spec => []AskInv
<1>1. Init => AskInv
  BY FreedRow DEF Init, AskInv
<1>2. Inv /\ AskInv /\ [Next]_vars => AskInv'
  <2> SUFFICES ASSUME Inv, AskInv, [Next]_vars PROVE AskInv'
    OBVIOUS
  <2>1. job'.status = "NONE" => job.status = "NONE" /\ job' = job
    BY RowStays
  <2>2. CASE batch' = batch
    BY <2>1, <2>2, TurnsToCancel DEF AskInv
  <2>3. CASE Create
    <3>1. job'.status # "NONE" /\ batch # "cancelled" /\ worker' = worker
      BY <2>3, FreedRow DEF Create, AskInv
    <3> QED
      BY <3>1 DEF AskInv
  <2>4. CASE RequestCancel
    BY <2>1, <2>4 DEF RequestCancel, AskInv
  <2> QED
    BY <2>2, <2>3, <2>4, BatchChanges
<1> QED
  BY <1>1, <1>2, Inductive, PTL DEF Spec

(* What the promise sees of the state. *)
Visible == <<ShownAs, asset = "ready", batch = "cancelled">>

(* The words the API uses. *)
LEMMA ShownWords ==
  ASSUME Inv
  PROVE  /\ ShownAs = "absent" <=> job.status = "NONE"
         /\ ShownAs = "running" <=> job.status \in {"PENDING", "PROCESSING"}
         /\ ShownAs = "completed" <=> job.status = "COMPLETED"
         /\ ShownAs = "failed" <=> job.status = "FAILED"
         /\ ShownAs = "cancelled" <=> job.status = "CANCELLED"
<1>1. job.status \in {"NONE", "PENDING", "PROCESSING", "COMPLETED", "FAILED", "CANCELLED"}
  BY DEF Inv, TypeOK, Row, Final
<1> QED
  BY <1>1 DEF ShownAs

LEMMA ShownWordsNext ==
  ASSUME Inv'
  PROVE  /\ ShownAs' = "absent" <=> job'.status = "NONE"
         /\ ShownAs' = "running" <=> job'.status \in {"PENDING", "PROCESSING"}
         /\ ShownAs' = "completed" <=> job'.status = "COMPLETED"
         /\ ShownAs' = "failed" <=> job'.status = "FAILED"
         /\ ShownAs' = "cancelled" <=> job'.status = "CANCELLED"
<1>1. job'.status \in {"NONE", "PENDING", "PROCESSING", "COMPLETED", "FAILED", "CANCELLED"}
  BY DEF Inv, TypeOK, Row, Final
<1> QED
  BY <1>1 DEF ShownAs

(* A step that keeps the job running, or as it ended, and the offer, is none. *)
LEMMA Unseen ==
  ASSUME Inv, Inv', batch' = batch, asset' = "ready" <=> asset = "ready",
         \/ job'.status = job.status
         \/ job.status \in {"PENDING", "PROCESSING"} /\ job'.status \in {"PENDING", "PROCESSING"}
  PROVE  UNCHANGED Visible
<1>1. ShownAs' = ShownAs
  BY ShownWords, ShownWordsNext DEF ShownAs
<1> QED
  BY <1>1 DEF Visible

(* The API asks, and asks to cancel. *)
LEMMA ApiPromise ==
  ASSUME Inv, Inv', AskInv, Create \/ Enqueue \/ RequestCancel
  PROVE  [Promise!Next]_Visible
<1>1. CASE Create
  <2>1. job.status = "NONE" /\ job'.status = "PENDING" /\ asset' = asset
    BY <1>1, FreedRow DEF Create
  <2>2. batch # "cancelled" /\ batch' # "cancelled"
    BY <1>1 DEF Create, AskInv
  <2>3. Promise!Ask
    BY <2>1, <2>2, ShownWords, ShownWordsNext DEF Promise!Ask
  <2> QED
    BY <2>3 DEF Promise!Next
<1>2. CASE Enqueue
  BY <1>2, Unseen DEF Enqueue
<1>3. CASE RequestCancel
  <2>1. batch = "active" /\ batch' = "cancelled" /\ asset' = asset
    BY <1>3 DEF RequestCancel
  <2>2. ShownAs # "absent"
    BY <2>1, ShownWords DEF AskInv
  <2>3. \/ job' = job
        \/ job.status = "PENDING" /\ job'.status = "CANCELLED"
    BY <1>3, FreedRow DEF RequestCancel, Final
  <2>4. \/ ShownAs' = ShownAs
        \/ ShownAs = "running" /\ ShownAs' = "cancelled"
    BY <2>3, ShownWords, ShownWordsNext DEF ShownAs
  <2>5. Promise!AskCancel
    BY <2>1, <2>2, <2>4 DEF Promise!AskCancel
  <2> QED
    BY <2>5 DEF Promise!Next
<1> QED
  BY <1>1, <1>2, <1>3

(* An owner ends its job: completed with the asset, failed, or cancelled
   because it was asked to. *)
LEMMA EndPromise ==
  ASSUME Inv, Inv', AskInv, NEW w \in Workers, CancelSelf(w) \/ Finalize(w) \/ MarkFailed(w)
  PROVE  [Promise!Next]_Visible
<1>1. CASE UNCHANGED <<job, asset>>
  BY <1>1, Unseen DEF CancelSelf, Finalize, MarkFailed
<1>2. CASE Owns(w)
  <2>1. ShownAs = "running" /\ job.status = "PROCESSING" /\ batch' = batch
    BY <1>2, OwnerProcesses, ShownWords DEF Inv, CancelSelf, Finalize, MarkFailed
  <2>2. CASE CancelSelf(w)
    <3>1. /\ job'.status = "CANCELLED" /\ batch = "cancelled" /\ asset' = asset
      BY <1>2, <2>2, FreedRow DEF CancelSelf, AskInv, Final
    <3>2. Promise!Cancel
      BY <2>1, <3>1, ShownWordsNext DEF Promise!Cancel
    <3> QED
      BY <3>2 DEF Promise!Next
  <2>3. CASE Finalize(w)
    <3>1. job'.status = "COMPLETED" /\ asset' = "ready"
      BY <1>2, <2>3, FreedRow DEF Finalize, Final
    <3>2. Promise!Complete
      BY <2>1, <3>1, ShownWordsNext DEF Promise!Complete
    <3> QED
      BY <3>2 DEF Promise!Next
  <2>4. CASE MarkFailed(w) /\ job' # job
    <3>1. job'.status = "FAILED" /\ asset' = asset
      BY <1>2, <2>4, FreedRow DEF MarkFailed, Final
    <3>2. Promise!Fail
      BY <2>1, <3>1, ShownWordsNext DEF Promise!Fail
    <3> QED
      BY <3>2 DEF Promise!Next
  <2> QED
    BY <1>1, <2>2, <2>3, <2>4 DEF MarkFailed
<1> QED
  BY <1>1, <1>2 DEF CancelSelf, Finalize, MarkFailed

(* What else executions do is not seen. *)
LEMMA WorkUnseen ==
  ASSUME Inv, Inv', NEW w \in Workers, Execute(w) \/ DatabaseFails(w) \/ Crash(w),
         ~(CancelSelf(w) \/ Finalize(w) \/ MarkFailed(w))
  PROVE  UNCHANGED Visible
<1>1. CASE Acquire(w)
  <2>1. \/ job' = job
        \/ job.status \in {"PENDING", "PROCESSING"} /\ job'.status = "PROCESSING"
    BY <1>1 DEF Acquire
  <2> QED
    BY <1>1, <2>1, Unseen DEF Acquire
<1>2. CASE ReleaseJob(w)
  <2>1. \/ job' = job
        \/ job.status = "PROCESSING" /\ job'.status = "PENDING"
    BY <1>2, OwnerProcesses, FreedRow DEF ReleaseJob, Inv
  <2> QED
    BY <1>2, <2>1, Unseen DEF ReleaseJob
<1>3. CASE ReserveMedia(w)
  BY <1>3, Unseen DEF ReserveMedia
<1>4. CASE \/ Take(w) \/ Look(w) \/ Load(w) \/ Render(w) \/ CheckCancel(w) \/ PutObject(w)
           \/ Complete(w) \/ FailForGood(w) \/ Retry(w) \/ DatabaseFails(w) \/ Crash(w)
  <2>1. UNCHANGED <<job, asset, batch>>
    BY <1>4 DEF Take, Look, Load, Render, CheckCancel, PutObject, Complete, FailForGood,
                Retry, EndJob, DatabaseFails, Crash
  <2> QED
    BY <2>1, Unseen
<1> QED
  BY <1>1, <1>2, <1>3, <1>4 DEF Execute

(* The renderer implements RenderOnce: what can be seen of a job, its status,
   its artwork and its cancel request, changes only as promised. *)
THEOREM Implements == Spec => RendersOnce
<1>1. Init => Promise!Init
  BY FreedRow DEF Init, Promise!Init, ShownAs
<1>2. Inv /\ Inv' /\ AskInv /\ [Next]_vars => [Promise!Next]_Visible
  <2> SUFFICES ASSUME Inv, Inv', AskInv, [Next]_vars
               PROVE  [Promise!Next]_Visible
    OBVIOUS
  <2>1. CASE Create \/ Enqueue \/ RequestCancel
    BY <2>1, ApiPromise
  <2>2. CASE Stall \/ UNCHANGED vars
    BY <2>2, Unseen DEF Stall, vars
  <2>3. CASE LeaseExpires
    <3>1. job'.status = job.status
      BY <2>3 DEF LeaseExpires, Inv, TypeOK, Row
    <3> QED
      BY <2>3, <3>1, Unseen DEF LeaseExpires
  <2>4. ASSUME NEW w \in Workers, Execute(w) \/ DatabaseFails(w) \/ Crash(w)
        PROVE  [Promise!Next]_Visible
    BY <2>4, EndPromise, WorkUnseen
  <2>5. ASSUME NEW c \in Reconcilers, Reconcile(c) \/ CycleFails(c)
        PROVE  [Promise!Next]_Visible
    <3>1. UNCHANGED <<asset, batch>>
      BY <2>5 DEF Reconcile, Discover, CheckJob, RemoveJob, AddJob, Reset, Reconciled,
                  CycleFails
    <3>2. \/ job' = job
          \/ job.status = "PROCESSING" /\ job'.status = "PENDING"
      BY <2>5, FreedRow
         DEF Reconcile, Discover, CheckJob, RemoveJob, AddJob, Reset, CycleFails
    <3> QED
      BY <3>1, <3>2, Unseen
  <2> QED
    BY <2>1, <2>2, <2>3, <2>4, <2>5 DEF Next
<1> QED
  BY <1>1, <1>2, Inductive, Asked, PTL DEF Spec, RendersOnce, Promise!Spec, Visible
=============================================================================
