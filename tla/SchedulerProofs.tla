-------------------------- MODULE SchedulerProofs --------------------------
(***************************************************************************)
(* What holds of Scheduler for every set of requests and workers, every    *)
(* number of versions, tries and crashes, and, where nothing else is said, *)
(* every set of faults.                                                    *)
(***************************************************************************)
EXTENDS Scheduler, TLAPS

USE DEF Versions

-----------------------------------------------------------------------------
(* Type correctness *)

TypeInv == TypeOK /\ Shape

(* The parts of TypeInv, one variable at a time. *)
GoodSched(s)   == s \in Schedule /\ (s.status # "NONE" => s.version \in Versions)
GoodJob(j)     == j \in Job /\ ProperJob(j)
GoodRequest(r) == r \in Handler /\ ProperRequest(r)
GoodWork(r)    == r \in Worker /\ ProperWork(r)

(* TypeInv says that every part is good. *)
LEMMA Parts ==
  TypeInv <=> /\ GoodSched(sched)
              /\ due \in {"future", "due", "late"}
              /\ job \in [Versions -> Job] /\ \A v \in Versions : GoodJob(job[v])
              /\ handler \in [Handlers -> Handler] /\ \A h \in Handlers : GoodRequest(handler[h])
              /\ worker \in [Workers -> Worker] /\ \A w \in Workers : GoodWork(worker[w])
              /\ crashes \in 0..MaxCrashes
BY DEF TypeInv, TypeOK, Shape, GoodSched, GoodJob, GoodRequest, GoodWork

(* The same of the next state. *)
LEMMA PartsNext ==
  TypeInv' <=> /\ GoodSched(sched')
               /\ due' \in {"future", "due", "late"}
               /\ job' \in [Versions -> Job] /\ \A v \in Versions : GoodJob(job'[v])
               /\ handler' \in [Handlers -> Handler]
               /\ \A h \in Handlers : GoodRequest(handler'[h])
               /\ worker' \in [Workers -> Worker] /\ \A w \in Workers : GoodWork(worker'[w])
               /\ crashes' \in 0..MaxCrashes
BY DEF TypeInv, TypeOK, Shape, GoodSched, GoodJob, GoodRequest, GoodWork

(* One job, request or worker replaced by a good one leaves all good. *)
LEMMA Replaced ==
  ASSUME TypeInv
  PROVE  /\ \A v \in Versions : \A j : GoodJob(j) /\ job' = [job EXCEPT ![v] = j]
              => job' \in [Versions -> Job] /\ \A u \in Versions : GoodJob(job'[u])
         /\ \A h \in Handlers : \A r : GoodRequest(r) /\ handler' = [handler EXCEPT ![h] = r]
              => /\ handler' \in [Handlers -> Handler]
                 /\ \A g \in Handlers : GoodRequest(handler'[g])
         /\ \A w \in Workers : \A r : GoodWork(r) /\ worker' = [worker EXCEPT ![w] = r]
              => /\ worker' \in [Workers -> Worker]
                 /\ \A x \in Workers : GoodWork(worker'[x])
BY Parts DEF GoodJob, GoodRequest, GoodWork

(* The fixed records are good. *)
LEMMA Constants ==
  /\ GoodRequest(Idle) /\ GoodWork(Down) /\ GoodWork(Ready)
  /\ GoodJob(NoJob) /\ GoodJob(NewJob)
<1>1. GoodRequest(Idle)
  BY SchedulerAssumption DEF Idle, Handler, ProperRequest, GoodRequest
<1>2. GoodWork(Down) /\ GoodWork(Ready)
  BY SchedulerAssumption DEF Down, Ready, Worker, ProperWork, GoodWork
<1>3. GoodJob(NoJob) /\ GoodJob(NewJob)
  BY SchedulerAssumption DEF NoJob, NewJob, Job, ProperJob, GoodJob
<1> QED
  BY <1>1, <1>2, <1>3

(* A worker goes on with the version it has, or is ready again. *)
LEMMA StepType ==
  ASSUME TypeInv, NEW w \in Workers, NEW from, NEW to, Step(w, from, to),
         from \notin {"down", "ready"},
         to \in {"ready", "readd", "remark", "acquire", "prepare", "execute",
                 "done", "throw", "listen"}
  PROVE  /\ worker' \in [Workers -> Worker] /\ \A x \in Workers : GoodWork(worker'[x])
         /\ worker[w].version \in Versions
<1>1. worker[w] \in Worker /\ worker[w].version \in Versions
  BY Parts DEF Step, GoodWork, ProperWork
<1> DEFINE next == IF to = "ready" THEN Ready ELSE [worker[w] EXCEPT !.pc = to]
<1>2. GoodWork(next)
  BY <1>1, Constants DEF GoodWork, Worker, ProperWork
<1>3. worker' = [worker EXCEPT ![w] = next]
  BY Parts DEF Step
<1> QED
  BY <1>1, <1>2, <1>3, Replaced

(* Freeing the row gives it a status and takes the lease. *)
LEMMA FreedType ==
  ASSUME TypeInv, NEW s \in Pending \cup Terminal, sched.status # "NONE"
  PROVE  GoodSched(Freed(s)) /\ GoodSched([Freed(s) EXCEPT !.token = "none"])
<1>1. sched \in Schedule /\ sched.version \in Versions
  BY Parts DEF GoodSched
<1>2. Freed(s) \in Schedule /\ Freed(s).version = sched.version
  BY <1>1 DEF Freed, Schedule
<1>3. /\ [Freed(s) EXCEPT !.token = "none"] \in Schedule
      /\ [Freed(s) EXCEPT !.token = "none"].version = sched.version
  BY <1>1 DEF Freed, Schedule
<1> QED
  BY <1>1, <1>2, <1>3 DEF GoodSched

(* The row of an existing schedule may become ENQUEUED. *)
LEMMA EnqueuedType ==
  ASSUME TypeInv, sched.status # "NONE"
  PROVE  GoodSched([sched EXCEPT !.status = "ENQUEUED"])
BY Parts DEF GoodSched, Schedule, Pending

(* queue.add and job.remove leave good jobs. *)
LEMMA QueueType ==
  ASSUME TypeInv, NEW v \in Versions, job' = Added(v) \/ job' = Removed(v)
  PROVE  job' \in [Versions -> Job] /\ \A u \in Versions : GoodJob(job'[u])
BY Parts, Replaced, Constants DEF Added, Removed

(* Every action of an API request keeps the type. *)
LEMMA RequestType ==
  ASSUME TypeInv, NEW h \in Handlers, Ask(h) \/ Serve(h) \/ HandlerFails(h)
  PROVE  TypeInv'
<1>0. GoodRequest(handler[h]) /\ GoodSched(sched)
  BY Parts
<1>1. ASSUME UNCHANGED <<sched, due, job>>, Answer(h), UNCHANGED <<worker, crashes>>
      PROVE  TypeInv'
  BY <1>1, Parts, PartsNext, Replaced, Constants DEF Answer
<1>2. CASE Create(h)
  <2> DEFINE rec == [pc |-> "add", op |-> "create", version |-> 1]
  <2>1. GoodRequest(rec)
    BY SchedulerAssumption DEF Handler, GoodRequest, ProperRequest
  <2>2. GoodSched(sched')
    BY <1>2, SchedulerAssumption DEF Create, Schedule, Pending, GoodSched
  <2>3. handler' = [handler EXCEPT ![h] = rec]
    BY <1>2 DEF Create
  <2> QED
    BY <1>2, <2>1, <2>2, <2>3, Parts, PartsNext, Replaced DEF Create
<1>3. ASSUME NEW op, NEW pc, Read(h, op, pc),
             <<op, pc>> \in {<<"reschedule", "rescheduling">>, <<"cancel", "cancelling">>}
      PROVE  TypeInv'
  <2> DEFINE rec == [pc |-> pc, op |-> op, version |-> sched.version]
  <2>1. sched.version \in Versions
    BY <1>0, <1>3 DEF Read, GoodSched, Pending
  <2>2. GoodRequest(rec)
    BY <1>3, <2>1 DEF Handler, GoodRequest, ProperRequest
  <2>3. handler' = [handler EXCEPT ![h] = rec]
    BY <1>3 DEF Read
  <2> QED
    BY <1>3, <2>2, <2>3, Parts, PartsNext, Replaced DEF Read
<1>4. CASE Reschedule(h)
  <2> DEFINE v == handler[h].version
  <2>0. v \in Versions /\ handler[h] \in Handler
    BY <1>0, <1>4 DEF Reschedule, GoodRequest, ProperRequest
  <2>1. CASE sched.version = v /\ sched.status \in Pending
    <3> DEFINE rec == [handler[h] EXCEPT !.pc = "drop"]
    <3>1. v < MaxVersions /\ handler' = [handler EXCEPT ![h] = rec] /\ due' = "future"
      BY <1>4, <2>1 DEF Reschedule, Goto
    <3>2. GoodRequest(rec)
      BY <2>0, <3>1 DEF Handler, GoodRequest, ProperRequest
    <3>3. v + 1 \in Versions
      BY <2>0, <3>1, SchedulerAssumption
    <3>4. sched' = [status |-> "SCHEDULED", version |-> v + 1,
                    token |-> "none", lease |-> "none"]
      BY <1>4, <2>1 DEF Reschedule
    <3>5. GoodSched(sched')
      BY <3>3, <3>4 DEF Schedule, Pending, GoodSched
    <3> QED
      BY <1>4, <3>1, <3>2, <3>5, Parts, PartsNext, Replaced DEF Reschedule
  <2>2. CASE ~(sched.version = v /\ sched.status \in Pending)
    BY <1>1, <1>4, <2>2 DEF Reschedule
  <2> QED
    BY <2>1, <2>2
<1>5. CASE Cancel(h)
  <2>1. CASE sched.status \in Pending
    <3> DEFINE rec == [handler[h] EXCEPT !.pc = "drop"]
    <3>1. handler' = [handler EXCEPT ![h] = rec]
      BY <1>5, <2>1 DEF Cancel, Goto
    <3>2. GoodRequest(rec)
      BY <1>0, <1>5 DEF Cancel, Handler, GoodRequest, ProperRequest
    <3>3. GoodSched(sched')
      BY <1>5, <2>1, FreedType DEF Cancel, Pending, Terminal
    <3> QED
      BY <1>5, <3>1, <3>2, <3>3, Parts, PartsNext, Replaced DEF Cancel
  <2>2. CASE sched.status \notin Pending
    BY <1>1, <1>5, <2>2 DEF Cancel
  <2> QED
    BY <2>1, <2>2
<1>6. CASE Drop(h)
  <2>0. handler[h].version \in Versions /\ handler[h] \in Handler
    BY <1>0, <1>6 DEF Drop, GoodRequest, ProperRequest
  <2>1. job' \in [Versions -> Job] /\ \A u \in Versions : GoodJob(job'[u])
    BY <1>6, <2>0, QueueType DEF Drop
  <2>2. CASE handler[h].op = "reschedule"
    <3> DEFINE v   == handler[h].version + 1
               rec == [[handler[h] EXCEPT !.pc = "add"] EXCEPT !.version = v]
    <3>1. handler[h].version + 1 \in Versions
      BY <1>0, <1>6, <2>0, <2>2, SchedulerAssumption DEF Drop, GoodRequest, ProperRequest
    <3>2. /\ [handler[h] EXCEPT !.pc = "add"] \in Handler
          /\ [handler[h] EXCEPT !.pc = "add"].pc = "add"
      BY <2>0 DEF Handler
    <3>5. ASSUME NEW r \in Handler, r.pc = "add"
          PROVE  GoodRequest([r EXCEPT !.version = v])
      BY <3>1, <3>5 DEF Handler, GoodRequest, ProperRequest
    <3>3. GoodRequest(rec)
      BY <3>2, <3>5
    <3>4. handler' = [handler EXCEPT ![h] = rec]
      BY <1>6, <2>2, Parts DEF Drop
    <3> QED
      BY <1>6, <2>1, <3>2, <3>3, <3>4, Parts, PartsNext, Replaced DEF Drop
  <2>3. CASE handler[h].op # "reschedule"
    <3>1. handler' = [handler EXCEPT ![h] = Idle]
      BY <1>6, <2>3 DEF Drop, Answer
    <3> QED
      BY <1>6, <2>1, <3>1, Constants, Parts, PartsNext, Replaced DEF Drop
  <2> QED
    BY <2>2, <2>3
<1>7. CASE Add(h)
  <2> DEFINE rec == [handler[h] EXCEPT !.pc = "mark"]
  <2>0. handler[h].version \in Versions /\ handler[h] \in Handler
    BY <1>0, <1>7 DEF Add, GoodRequest, ProperRequest
  <2>1. job' \in [Versions -> Job] /\ \A u \in Versions : GoodJob(job'[u])
    BY <1>7, <2>0, QueueType DEF Add
  <2>2. GoodRequest(rec) /\ handler' = [handler EXCEPT ![h] = rec]
    BY <1>7, <2>0 DEF Add, Goto, Handler, GoodRequest, ProperRequest
  <2> QED
    BY <1>7, <2>1, <2>2, Parts, PartsNext, Replaced DEF Add
<1>8. CASE Mark(h)
  <2>1. GoodSched(sched')
    BY <1>0, <1>8, EnqueuedType DEF Mark
  <2> QED
    BY <1>8, <2>1, Constants, Parts, PartsNext, Replaced DEF Mark, Answer
<1>9. CASE HandlerFails(h)
  BY <1>1, <1>9 DEF HandlerFails
<1> QED
  BY <1>2, <1>3, <1>4, <1>5, <1>6, <1>7, <1>8, <1>9 DEF Ask, Serve

(* Every action of a worker process keeps the type. *)
LEMMA WorkerType ==
  ASSUME TypeInv, NEW w \in Workers, Reconcile(w) \/ Process(w) \/ Break(w)
  PROVE  TypeInv'
<1>0. GoodWork(worker[w]) /\ GoodSched(sched)
  BY Parts
<1>1. ASSUME GoodSched(sched'), UNCHANGED <<due, job, handler, crashes>>,
             NEW from, NEW to, Step(w, from, to), from \notin {"down", "ready"},
             to \in {"ready", "readd", "remark", "acquire", "prepare", "execute",
                     "done", "throw", "listen"}
      PROVE  TypeInv'
  BY <1>1, StepType, Parts, PartsNext
<1>2. ASSUME NEW s \in Pending \cup Terminal, sched.status # "NONE"
      PROVE  GoodSched(Freed(s)) /\ GoodSched([Freed(s) EXCEPT !.token = "none"])
  BY <1>2, FreedType
<1>3. ASSUME NEW from \in {"prepare", "execute"}, NEW statuses \in SUBSET Terminal,
             Settle(w, from, statuses)
      PROVE  TypeInv'
  <2>1. PICK s \in statuses : sched' = IF Owns(w) THEN Freed(s) ELSE sched
    BY <1>3 DEF Settle
  <2>2. GoodSched(sched')
    BY <1>0, <1>2, <2>1 DEF Owns
  <2>3. Step(w, from, "done") /\ UNCHANGED <<due, job, handler, crashes>>
    BY <1>3 DEF Settle
  <2> QED
    BY <1>1, <2>2, <2>3
<1>4. CASE Boot(w)
  <2> DEFINE next == IF sched.status \in Pending
                     THEN IF due = "late" THEN "late" ELSE "check"
                     ELSE IF sched.status = "PROCESSING" /\ sched.lease # "live"
                          THEN "orphan" ELSE "ready"
             rec  == IF next = "ready" THEN Ready
                     ELSE [pc |-> next, version |-> sched.version, made |-> 0]
  <2>1. GoodWork(rec)
    <3>1. CASE next = "ready"
      BY <3>1, Constants
    <3>2. CASE next # "ready"
      <4>1. sched.version \in Versions /\ sched.version \in 0..MaxVersions
        BY <1>0, <3>2 DEF GoodSched, Pending, Schedule
      <4> QED
        BY <3>2, <4>1, SchedulerAssumption DEF GoodWork, ProperWork, Worker
    <3> QED
      BY <3>1, <3>2
  <2>2. worker' = [worker EXCEPT ![w] = rec]
    BY <1>4 DEF Boot
  <2> HIDE DEF rec
  <2> QED
    BY <1>4, <2>1, <2>2, Parts, PartsNext, Replaced DEF Boot
<1>5. CASE FlagLate(w)
  <2>1. GoodSched(sched')
    BY <1>0, <1>2, <1>5 DEF FlagLate, Pending, Terminal
  <2> QED
    BY <1>1, <1>5, <2>1 DEF FlagLate
<1>6. CASE FlagOrphan(w)
  <2>1. GoodSched(sched')
    BY <1>0, <1>2, <1>6 DEF FlagOrphan, Terminal
  <2> QED
    BY <1>1, <1>6, <2>1 DEF FlagOrphan
<1>7. CASE CheckJob(w)
  BY <1>0, <1>1, <1>7 DEF CheckJob
<1>8. CASE Readd(w)
  <2>1. PICK to \in {"ready", "remark"} : Step(w, "readd", to)
    BY <1>8 DEF Readd
  <2>2. /\ worker' \in [Workers -> Worker] /\ \A x \in Workers : GoodWork(worker'[x])
        /\ worker[w].version \in Versions
    BY <2>1, StepType
  <2>3. job' \in [Versions -> Job] /\ \A u \in Versions : GoodJob(job'[u])
    BY <1>8, <2>2, QueueType DEF Readd
  <2> QED
    BY <1>8, <2>2, <2>3, Parts, PartsNext DEF Readd
<1>9. CASE Remark(w)
  <2>1. GoodSched(sched')
    BY <1>0, <1>9, EnqueuedType DEF Remark
  <2> QED
    BY <1>1, <1>9, <2>1 DEF Remark
<1>10. CASE \E v \in Versions : Take(w, v)
  <2>1. PICK v \in Versions : Take(w, v)
    BY <1>10
  <2> DEFINE rec == [pc |-> "look", version |-> v, made |-> job[v].made]
             j   == [[job[v] EXCEPT !.state = "active"] EXCEPT !.owner = w]
  <2>2. GoodJob(job[v]) /\ job[v].state = "waiting"
    BY <2>1, Parts DEF Take
  <2>3. GoodWork(rec)
    BY <2>2 DEF GoodJob, Job, GoodWork, ProperWork, Worker
  <2>4. GoodJob(j)
    BY <2>2 DEF GoodJob, ProperJob, Job
  <2>5. worker' = [worker EXCEPT ![w] = rec] /\ job' = [job EXCEPT ![v] = j]
    BY <2>1, Parts DEF Take
  <2> HIDE DEF rec, j
  <2>6. job' \in [Versions -> Job] /\ \A u \in Versions : GoodJob(job'[u])
    BY <2>4, <2>5, Replaced
  <2>7. worker' \in [Workers -> Worker] /\ \A x \in Workers : GoodWork(worker'[x])
    BY <2>3, <2>5, Replaced
  <2> QED
    BY <2>1, <2>6, <2>7, Parts, PartsNext DEF Take
<1>11. CASE Look(w)
  <2>1. GoodSched(sched')
    BY <1>0, <1>2, <1>11 DEF Look, Eligible, Pending, Terminal
  <2>2. PICK to \in {"done", "acquire"} : Step(w, "look", to)
    BY <1>11 DEF Look
  <2> QED
    BY <1>1, <1>11, <2>1, <2>2 DEF Look
<1>12. CASE Acquire(w)
  <2>1. GoodSched(Acquired(w)) \/ sched.status = "NONE"
    BY <1>0 DEF Acquired, GoodSched, Schedule
  <2>2. GoodSched(sched')
    BY <1>0, <1>12, <2>1 DEF Acquire, Eligible, Pending
  <2>3. PICK to \in {"done", "prepare"} : Step(w, "acquire", to)
    BY <1>12 DEF Acquire
  <2> QED
    BY <1>1, <1>12, <2>2, <2>3 DEF Acquire
<1>13. CASE Prepare(w)
  <2>1. CASE Step(w, "prepare", "execute") /\ UNCHANGED <<sched, due, job, handler, crashes>>
    BY <1>0, <1>1, <2>1
  <2>2. CASE Settle(w, "prepare", {"FAILED", "REQUIRES_RECONCILIATION"})
    BY <1>3, <2>2 DEF Terminal
  <2> QED
    BY <1>13, <2>1, <2>2 DEF Prepare
<1>14. CASE Finalize(w)
  BY <1>3, <1>14 DEF Finalize, Terminal
<1>15. CASE Retry(w)
  <2>1. GoodSched(sched')
    BY <1>0, <1>2, <1>15 DEF Retry, Owns, Pending
  <2> QED
    BY <1>1, <1>15, <2>1 DEF Retry
<1>16. ASSUME NEW j, NEW to \in {"ready", "listen"}, NEW from \in {"done", "throw"},
              Step(w, from, to), UNCHANGED <<sched, due, handler, crashes>>,
              job' = IF Locks(w) THEN [job EXCEPT ![worker[w].version] = j] ELSE job,
              Locks(w) /\ worker[w].version \in Versions => GoodJob(j)
       PROVE  TypeInv'
  <2>1. /\ worker' \in [Workers -> Worker] /\ \A x \in Workers : GoodWork(worker'[x])
        /\ worker[w].version \in Versions
    BY <1>16, StepType
  <2>2. job' \in [Versions -> Job] /\ \A u \in Versions : GoodJob(job'[u])
    BY <1>16, <2>1, Parts, Replaced
  <2> QED
    BY <1>16, <2>1, <2>2, Parts, PartsNext
<1>17. CASE Complete(w)
  <2> DEFINE v == worker[w].version
             j == [[job[v] EXCEPT !.state = "completed"] EXCEPT !.owner = "none"]
  <2>1. ASSUME v \in Versions
        PROVE  GoodJob(j)
    BY <2>1, Parts DEF GoodJob, ProperJob, Job
  <2>2. v \in Versions
    BY <1>0, <1>17 DEF Complete, Step, GoodWork, ProperWork
  <2>3. job' = IF Locks(w) THEN [job EXCEPT ![v] = j] ELSE job
    BY <1>17, <2>2, Parts DEF Complete
  <2> HIDE DEF j
  <2> QED
    BY <1>16, <1>17, <2>1, <2>3 DEF Complete
<1>18. CASE Fail(w)
  <2> DEFINE v    == worker[w].version
             last == job[v].made + 1 >= MaxTries
             j    == [state |-> IF last THEN "failed" ELSE "waiting",
                      made |-> job[v].made + 1, stalls |-> job[v].stalls, owner |-> "none"]
  <2>1. ASSUME v \in Versions, Locks(w)
        PROVE  GoodJob(j)
    <3>1. GoodJob(job[v]) /\ job[v].owner # "none"
      BY <2>1, Parts, SchedulerAssumption DEF Locks
    <3>2. job[v].made < MaxTries
      BY <3>1 DEF GoodJob, ProperJob
    <3> QED
      BY <3>1, <3>2, SchedulerAssumption DEF GoodJob, ProperJob, Job
  <2>2. v \in Versions
    BY <1>0, <1>18 DEF Fail, Step, GoodWork, ProperWork
  <2>3. job' = IF Locks(w) THEN [job EXCEPT ![v] = j] ELSE job
    BY <1>18, <2>2, Parts DEF Fail
  <2>4. PICK to \in {"ready", "listen"} : Step(w, "throw", to)
    BY <1>18 DEF Fail
  <2> HIDE DEF j
  <2> QED
    BY <1>16, <1>18, <2>1, <2>3, <2>4 DEF Fail
<1>19. CASE Listen(w)
  <2>1. GoodSched(sched')
    BY <1>0, <1>2, <1>19 DEF Listen, Terminal
  <2> QED
    BY <1>1, <1>19, <2>1 DEF Listen
<1>20. CASE AcquisitionFails(w)
  <2>1. PICK from \in {"look", "acquire"} : Step(w, from, "done")
    BY <1>20 DEF AcquisitionFails, Step
  <2> QED
    BY <1>0, <1>1, <1>20, <2>1 DEF AcquisitionFails
<1>21. CASE WriteFails(w)
  <2>1. PICK from \in {"prepare", "execute"} : Step(w, from, "throw")
    BY <1>21 DEF WriteFails, Step
  <2> QED
    BY <1>0, <1>1, <1>21, <2>1 DEF WriteFails
<1>22. CASE Join(w) \/ ReconcileFails(w)
  BY <1>22, Constants, Parts, PartsNext, Replaced DEF Join, ReconcileFails
<1>23. CASE Crash(w)
  <2>1. crashes' \in 0..MaxCrashes
    BY <1>23, Parts, SchedulerAssumption DEF Crash
  <2> QED
    BY <1>23, <2>1, Constants, Parts, PartsNext, Replaced DEF Crash
<1> QED
  BY <1>4, <1>5, <1>6, <1>7, <1>8, <1>9, <1>10, <1>11, <1>12, <1>13, <1>14, <1>15,
     <1>17, <1>18, <1>19, <1>20, <1>21, <1>22, <1>23 DEF Reconcile, Process, Break

(* The actions of nobody in particular keep the type. *)
LEMMA WorldType ==
  ASSUME TypeInv, (\E v \in Versions : Stall(v)) \/ Tick \/ LeaseExpires
  PROVE  TypeInv'
<1>1. ASSUME NEW v \in Versions, Stall(v)
      PROVE  TypeInv'
  <2> DEFINE j == [state |-> IF job[v].stalls = 0 THEN "waiting" ELSE "failed",
                   made |-> job[v].made, stalls |-> 1, owner |-> "none"]
  <2>1. GoodJob(job[v]) /\ job[v].state = "active"
    BY <1>1, Parts DEF Stall
  <2>2. GoodJob(j)
    BY <2>1 DEF GoodJob, ProperJob, Job
  <2>3. job' = [job EXCEPT ![v] = j]
    BY <1>1, Parts DEF Stall
  <2> HIDE DEF j
  <2> QED
    BY <1>1, <2>2, <2>3, Parts, PartsNext, Replaced DEF Stall
<1>2. CASE Tick
  BY <1>2, Parts, PartsNext DEF Tick
<1>3. CASE LeaseExpires
  <2>1. GoodSched(sched')
    BY <1>3, Parts DEF LeaseExpires, GoodSched, Schedule
  <2> QED
    BY <1>3, <2>1, Parts, PartsNext DEF LeaseExpires
<1> QED
  BY <1>1, <1>2, <1>3

(* The initial state is well typed. *)
LEMMA InitType == Init => TypeInv
<1> SUFFICES ASSUME Init PROVE TypeInv
  OBVIOUS
<1>1. GoodSched(sched)
  BY SchedulerAssumption DEF Init, GoodSched, Schedule
<1>2. job \in [Versions -> Job] /\ \A v \in Versions : GoodJob(job[v])
  BY Constants DEF Init, GoodJob
<1>3. handler \in [Handlers -> Handler] /\ \A h \in Handlers : GoodRequest(handler[h])
  BY Constants DEF Init, GoodRequest
<1>4. worker \in [Workers -> Worker] /\ \A w \in Workers : GoodWork(worker[w])
  BY Constants DEF Init, GoodWork
<1>5. due = "future" /\ crashes \in 0..MaxCrashes
  BY SchedulerAssumption DEF Init
<1> QED
  BY <1>1, <1>2, <1>3, <1>4, <1>5, Parts

(* So is every next one. *)
LEMMA NextType == TypeInv /\ [Next]_vars => TypeInv'
<1> SUFFICES ASSUME TypeInv, [Next]_vars PROVE TypeInv'
  OBVIOUS
<1>1. CASE Next
  BY <1>1, RequestType, WorkerType, WorldType DEF Next
<1>2. CASE UNCHANGED vars
  BY <1>2, Parts, PartsNext DEF vars
<1> QED
  BY <1>1, <1>2

(* Every reachable state is well typed. *)
LEMMA TypeInductive == Spec => []TypeInv
BY InitType, NextType, PTL DEF Spec

(* Every behaviour keeps the types, whatever goes wrong: in particular a job
   is never tried more often than its attempts allow. *)
THEOREM TypeCorrect == Spec => []TypeOK
<1>1. TypeInv => TypeOK
  BY DEF TypeInv
<1> QED
  BY <1>1, TypeInductive, PTL

-----------------------------------------------------------------------------
(* One execution at a time, and never of a schedule that was taken back *)

Safe == NoConcurrentExecution /\ ExecutionAccounted

(* Who runs afterwards ran before, on the same version. *)
Narrower == \A w \in Running' : w \in Running /\ worker'[w].version = worker[w].version

(* A step that starts no execution is safe when it leaves the row alone, or
   flags it, or nobody executes. *)
LEMMA NarrowerStep ==
  ASSUME Safe, Narrower,
         \/ sched' = sched
         \/ sched'.status \in {"REQUIRES_RECONCILIATION", "DEAD_LETTER"}
         \/ sched.status \in Pending \cup {"NONE"}
  PROVE  Safe'
<1>1. NoConcurrentExecution'
  BY DEF Safe, Narrower, NoConcurrentExecution
<1>2. ASSUME NEW w \in Running'
      PROVE  Owns(w)' \/ sched'.status \in {"REQUIRES_RECONCILIATION", "DEAD_LETTER"}
  <2>1. w \in Running /\ worker'[w].version = worker[w].version /\ w \in Workers
    BY <1>2 DEF Narrower, Running
  <2>2. Owns(w) \/ sched.status \in {"REQUIRES_RECONCILIATION", "DEAD_LETTER"}
    BY <2>1 DEF Safe, ExecutionAccounted
  <2> QED
    BY <2>1, <2>2 DEF Owns, Pending
<1>3. ExecutionAccounted'
  BY <1>2 DEF ExecutionAccounted
<1> QED
  BY <1>1, <1>3 DEF Safe

(* A step of one worker that does not lead into an execution starts none. *)
LEMMA StepNarrower ==
  ASSUME TypeInv, NEW w \in Workers, NEW from, NEW to, Step(w, from, to),
         from \in {"late", "orphan", "check", "readd", "remark", "look", "acquire",
                   "prepare", "execute", "done", "throw", "listen"},
         to \in {"ready", "readd", "remark", "acquire", "execute", "done", "throw", "listen"},
         to = "execute" => from = "prepare"
  PROVE  Narrower
<1>1. worker[w] \in Worker
  BY Parts
<1>2. ASSUME NEW x \in Running'
      PROVE  x \in Running /\ worker'[x].version = worker[x].version
  <2>1. CASE x # w
    BY <1>2, <2>1, Parts DEF Running, Step
  <2>2. CASE x = w
    <3>1. to # "ready"
      BY <1>2, <2>2, Parts DEF Running, Step, Ready, Down
    <3>2. worker'[w] = [worker[w] EXCEPT !.pc = to]
      BY <3>1, Parts DEF Step
    <3>3. worker'[w].pc = to /\ worker'[w].version = worker[w].version
      BY <1>1, <3>2 DEF Worker
    <3> QED
      BY <1>2, <2>2, <3>1, <3>3 DEF Running, Step
  <2> QED
    BY <2>1, <2>2
<1> QED
  BY <1>2 DEF Narrower

(* The last write of a worker: either it owns the row and nobody else
   executes, or the row is not touched. *)
LEMMA OwnerStep ==
  ASSUME TypeInv, Safe, NEW w \in Workers, NEW to, Step(w, "execute", to) \/ Step(w, "prepare", to),
         to \in {"done", "throw"}, Owns(w) \/ sched' = sched
  PROVE  Safe'
<1>1. Narrower
  BY StepNarrower
<1>2. CASE sched' = sched
  BY <1>1, <1>2, NarrowerStep
<1>3. CASE Owns(w)
  <2>1. w \in Running
    BY DEF Step, Running
  <2>2. worker[w] \in Worker /\ worker'[w] = [worker[w] EXCEPT !.pc = to]
    BY Parts DEF Step
  <2>3. w \notin Running'
    BY <2>2 DEF Running, Worker
  <2>4. Running' = {}
    BY <1>1, <2>1, <2>3 DEF Narrower, Safe, NoConcurrentExecution
  <2> QED
    BY <2>4 DEF Safe, NoConcurrentExecution, ExecutionAccounted
<1> QED
  BY <1>2, <1>3

(* The acquisition: the row was waiting, so nobody was executing, and now it
   belongs to the winner. *)
LEMMA AcquireStep ==
  ASSUME TypeInv, Safe, NEW w \in Workers, Acquire(w)
  PROVE  Safe'
<1>1. CASE Eligible(w)
  <2>1. Running = {}
    BY <1>1 DEF Eligible, Safe, ExecutionAccounted, Owns, Pending
  <2>2. worker[w] \in Worker /\ worker'[w] = [worker[w] EXCEPT !.pc = "prepare"]
    BY <1>1, Parts DEF Acquire, Step
  <2>3. \A x \in Workers : x # w => worker'[x] = worker[x]
    BY Parts DEF Acquire, Step
  <2>4. Running' \subseteq {w}
    BY <2>1, <2>3 DEF Running
  <2>5. worker'[w].version = worker[w].version
    BY <2>2 DEF Worker
  <2>6. sched' = Acquired(w) /\ sched \in Schedule
    BY <1>1, Parts DEF Acquire, GoodSched
  <2>7. Owns(w)'
    BY <1>1, <2>5, <2>6 DEF Owns, Acquired, Schedule, Eligible
  <2> QED
    BY <2>4, <2>7 DEF Safe, NoConcurrentExecution, ExecutionAccounted
<1>2. CASE ~Eligible(w)
  <2>1. Narrower
    BY <1>2, StepNarrower DEF Acquire
  <2> QED
    BY <1>2, <2>1, NarrowerStep DEF Acquire
<1> QED
  BY <1>1, <1>2

(* A request changes the row only while it waits. *)
LEMMA RequestStep ==
  ASSUME TypeInv, Safe, "slowCreate" \notin Faults,
         NEW h \in Handlers, Ask(h) \/ Serve(h) \/ HandlerFails(h)
  PROVE  Safe'
<1>1. worker' = worker
  BY DEF Ask, Serve, Create, Read, Reschedule, Cancel, Drop, Add, Mark, HandlerFails
<1>2. Narrower
  BY <1>1 DEF Narrower, Running
<1>3. sched' = sched \/ sched.status \in Pending \cup {"NONE"}
  BY DEF Ask, Serve, Create, Read, Reschedule, Cancel, Drop, Add, Mark, HandlerFails, Pending
<1> QED
  BY <1>2, <1>3, NarrowerStep

(* A worker starts an execution only by winning the row, and ends one only
   with a write that compares the token. *)
LEMMA WorkStep ==
  ASSUME TypeInv, Safe, NEW w \in Workers, Reconcile(w) \/ Process(w) \/ Break(w)
  PROVE  Safe'
<1>0. worker[w] \in Worker /\ sched \in Schedule
  BY Parts DEF GoodSched
<1>1. ASSUME NEW r, r.pc \notin {"prepare", "execute"}, worker' = [worker EXCEPT ![w] = r],
             sched' = sched
      PROVE  Safe'
  <2>1. Narrower
    BY <1>1, Parts DEF Narrower, Running
  <2> QED
    BY <1>1, <2>1, NarrowerStep
<1>2. ASSUME NEW from, NEW to, Step(w, from, to),
             from \in {"late", "orphan", "check", "readd", "remark", "look", "acquire",
                       "prepare", "execute", "done", "throw", "listen"},
             to \in {"ready", "readd", "remark", "acquire", "done", "throw", "listen"},
             \/ sched' = sched
             \/ sched'.status \in {"REQUIRES_RECONCILIATION", "DEAD_LETTER"}
             \/ sched.status \in Pending \cup {"NONE"}
      PROVE  Safe'
  <2>1. Narrower
    BY <1>2, StepNarrower
  <2> QED
    BY <1>2, <2>1, NarrowerStep
<1>3. ASSUME NEW s
      PROVE  Freed(s).status = s
  BY <1>0 DEF Freed, Schedule
<1>4. ASSUME NEW from \in {"prepare", "execute"}, NEW statuses, Settle(w, from, statuses)
      PROVE  Safe'
  <2>1. Owns(w) \/ sched' = sched
    BY <1>4 DEF Settle
  <2> QED
    BY <1>4, <2>1, OwnerStep DEF Settle
<1>5. CASE Boot(w)
  <2> DEFINE next == IF sched.status \in Pending
                     THEN IF due = "late" THEN "late" ELSE "check"
                     ELSE IF sched.status = "PROCESSING" /\ sched.lease # "live"
                          THEN "orphan" ELSE "ready"
             rec  == IF next = "ready" THEN Ready
                     ELSE [pc |-> next, version |-> sched.version, made |-> 0]
  <2>1. rec.pc \notin {"prepare", "execute"}
    BY DEF Ready, Down
  <2>2. worker' = [worker EXCEPT ![w] = rec] /\ sched' = sched
    BY <1>5 DEF Boot
  <2> HIDE DEF rec
  <2> QED
    BY <1>1, <2>1, <2>2
<1>6. CASE FlagLate(w)
  BY <1>2, <1>6 DEF FlagLate
<1>7. CASE FlagOrphan(w)
  BY <1>2, <1>3, <1>7 DEF FlagOrphan
<1>8. CASE CheckJob(w)
  BY <1>2, <1>8 DEF CheckJob
<1>9. CASE Readd(w)
  <2>1. PICK to \in {"ready", "remark"} : Step(w, "readd", to)
    BY <1>9 DEF Readd
  <2> QED
    BY <1>2, <1>9, <2>1 DEF Readd
<1>10. CASE Remark(w)
  BY <1>2, <1>10 DEF Remark, Pending
<1>11. CASE \E v \in Versions : Take(w, v)
  <2>1. PICK v \in Versions : Take(w, v)
    BY <1>11
  <2> QED
    BY <1>1, <2>1 DEF Take
<1>12. CASE Look(w)
  <2>1. PICK to \in {"done", "acquire"} : Step(w, "look", to)
    BY <1>12 DEF Look
  <2>2. sched' = sched \/ sched.status \in Pending
    BY <1>12 DEF Look, Eligible
  <2> QED
    BY <1>2, <2>1, <2>2
<1>13. CASE Acquire(w)
  BY <1>13, AcquireStep
<1>14. CASE Prepare(w)
  <2>1. CASE Step(w, "prepare", "execute") /\ sched' = sched
    <3>1. Narrower
      BY <2>1, StepNarrower
    <3> QED
      BY <2>1, <3>1, NarrowerStep
  <2> QED
    BY <1>4, <1>14, <2>1 DEF Prepare
<1>15. CASE Finalize(w)
  BY <1>4, <1>15 DEF Finalize
<1>16. CASE Retry(w)
  BY <1>16, OwnerStep DEF Retry
<1>17. CASE Complete(w)
  BY <1>2, <1>17 DEF Complete
<1>18. CASE Fail(w)
  <2>1. PICK to \in {"ready", "listen"} : Step(w, "throw", to)
    BY <1>18 DEF Fail
  <2> QED
    BY <1>2, <1>18, <2>1 DEF Fail
<1>19. CASE Listen(w)
  BY <1>2, <1>3, <1>19 DEF Listen
<1>20. CASE AcquisitionFails(w)
  <2>1. PICK from \in {"look", "acquire"} : Step(w, from, "done")
    BY <1>20 DEF AcquisitionFails, Step
  <2> QED
    BY <1>2, <1>20, <2>1 DEF AcquisitionFails
<1>21. CASE WriteFails(w)
  <2>1. PICK from \in {"prepare", "execute"} : Step(w, from, "throw")
    BY <1>21 DEF WriteFails, Step
  <2> QED
    BY <1>2, <1>21, <2>1 DEF WriteFails
<1>22. CASE Join(w) \/ ReconcileFails(w)
  BY <1>1, <1>22 DEF Join, ReconcileFails, Ready, Down
<1>23. CASE Crash(w)
  BY <1>1, <1>23 DEF Crash, Down
<1> QED
  BY <1>5, <1>6, <1>7, <1>8, <1>9, <1>10, <1>11, <1>12, <1>13, <1>14, <1>15, <1>16,
     <1>17, <1>18, <1>19, <1>20, <1>21, <1>22, <1>23 DEF Reconcile, Process, Break

(* The clock and the queue start and end no execution. *)
LEMMA WorldStep ==
  ASSUME TypeInv, Safe, (\E v \in Versions : Stall(v)) \/ Tick \/ LeaseExpires
  PROVE  Safe'
<1>1. worker' = worker
  BY DEF Stall, Tick, LeaseExpires
<1>2. CASE LeaseExpires
  <2>1. /\ sched'.status = sched.status /\ sched'.token = sched.token
        /\ sched'.version = sched.version
    BY <1>2, Parts DEF LeaseExpires, GoodSched, Schedule
  <2> QED
    BY <1>1, <2>1 DEF Safe, NoConcurrentExecution, ExecutionAccounted, Running, Owns
<1>3. CASE (\E v \in Versions : Stall(v)) \/ Tick
  <2>1. sched' = sched
    BY <1>3 DEF Stall, Tick
  <2> QED
    BY <1>1, <2>1, NarrowerStep DEF Narrower, Running
<1> QED
  BY <1>2, <1>3

(* TypeInv and Safe together are inductive as long as the last write of a
   create request is not overtaken. *)
THEOREM SafeInductive ==
  ASSUME "slowCreate" \notin Faults PROVE Spec => [](TypeInv /\ Safe)
<1>1. Init => TypeInv /\ Safe
  <2>1. Init => TypeInv
    BY InitType
  <2>2. Init => Running = {}
    BY DEF Init, Running, Down
  <2> QED
    BY <2>1, <2>2 DEF Safe, NoConcurrentExecution, ExecutionAccounted
<1>2. TypeInv /\ Safe /\ [Next]_vars => (TypeInv /\ Safe)'
  <2> SUFFICES ASSUME TypeInv, Safe, [Next]_vars PROVE TypeInv' /\ Safe'
    OBVIOUS
  <2>1. CASE Next
    BY <2>1, NextType, RequestStep, WorkStep, WorldStep DEF Next
  <2>2. CASE UNCHANGED vars
    BY <2>2, NextType, NarrowerStep DEF vars, Narrower, Running
  <2> QED
    BY <2>1, <2>2
<1> QED
  BY <1>1, <1>2, PTL DEF Spec

(* However often BullMQ hands a job out, at most one worker executes. *)
THEOREM OneExecution ==
  ASSUME "slowCreate" \notin Faults PROVE Spec => []NoConcurrentExecution
<1>1. Spec => [](TypeInv /\ Safe)
  BY SafeInductive
<1>2. Safe => NoConcurrentExecution
  BY DEF Safe
<1> QED
  BY <1>1, <1>2, PTL

(* A schedule that is cancelled, rescheduled or queued again is not being
   executed by anyone. *)
THEOREM ExecutionsAccounted ==
  ASSUME "slowCreate" \notin Faults PROVE Spec => []ExecutionAccounted
<1>1. Spec => [](TypeInv /\ Safe)
  BY SafeInductive
<1>2. Safe => ExecutionAccounted
  BY DEF Safe
<1> QED
  BY <1>1, <1>2, PTL

(* No request, worker, boot scan or listener moves a final status. *)
THEOREM FinalIsFinal ==
  ASSUME "slowCreate" \notin Faults PROVE Spec => TerminalIsFinal
<1>1. ASSUME TypeInv, [Next]_vars, sched.status \in Terminal
      PROVE  sched'.status = sched.status
  <2>1. ~(sched.status \in Pending \cup {"NONE", "PROCESSING"})
    BY <1>1 DEF Terminal, Pending
  <2>2. ASSUME NEW h \in Handlers, Ask(h) \/ Serve(h) \/ HandlerFails(h)
        PROVE  sched' = sched
    BY <2>1, <2>2 DEF Ask, Serve, Create, Read, Reschedule, Cancel, Drop, Add, Mark,
                      HandlerFails, Pending
  <2>3. ASSUME NEW w \in Workers, Reconcile(w) \/ Process(w) \/ Break(w)
        PROVE  sched' = sched
    <3>1. CASE Reconcile(w)
      BY <2>1, <3>1 DEF Reconcile, Boot, Join, FlagLate, FlagOrphan, CheckJob, Readd, Remark, Pending
    <3>2. CASE Process(w)
      BY <2>1, <3>2 DEF Process, Take, Look, Acquire, Prepare, Finalize, Settle, Retry,
                        Complete, Fail, Listen, Eligible, Owns, Pending
    <3>3. CASE Break(w)
      BY <3>3 DEF Break, AcquisitionFails, WriteFails, ReconcileFails, Crash
    <3> QED
      BY <2>3, <3>1, <3>2, <3>3
  <2>4. ASSUME NEW v \in Versions, Stall(v)
        PROVE  sched' = sched
    BY <2>4 DEF Stall
  <2>5. CASE LeaseExpires
    BY <1>1, <2>5, Parts DEF LeaseExpires, GoodSched, Schedule
  <2>6. CASE Tick \/ UNCHANGED vars
    BY <2>6 DEF Tick, vars
  <2> QED
    BY <1>1, <2>2, <2>3, <2>4, <2>5, <2>6 DEF Next
<1>2. Spec => []TypeInv
  BY TypeInductive
<1>3. TypeInv /\ [Next]_vars
        => [sched.status \in Terminal => sched'.status = sched.status]_vars
  BY <1>1
<1> QED
  BY <1>2, <1>3, PTL DEF Spec, TerminalIsFinal
-----------------------------------------------------------------------------
(* Nothing is done for a version that was replaced, or before its time *)

(* No request, job or worker is ahead of the row. *)
Bounded ==
  /\ sched.status = "NONE" => sched.version = 0
  /\ \A h \in Handlers :
       /\ handler[h].pc # "idle" => handler[h].version <= sched.version
       /\ handler[h].pc = "drop" /\ handler[h].op = "reschedule" =>
            handler[h].version < sched.version
  /\ \A v \in Versions : job[v].state # "absent" => v <= sched.version
  /\ \A w \in Workers : worker[w].pc \notin {"down", "ready"} =>
       worker[w].version <= sched.version

(* A boot scan is about the present version, unless a reschedule may come
   between its steps; the job of the present version is only taken when it is
   due. *)
Timely ==
  \A w \in Workers :
    /\ "slowReconcile" \notin Faults /\ worker[w].pc \in Scanning =>
         worker[w].version = sched.version
    /\ worker[w].pc \in {"look", "acquire"} /\ worker[w].version = sched.version =>
         due # "future"

Current == TypeInv /\ Bounded /\ Timely

(* The version of the row is a number. *)
LEMMA VersionType ==
  ASSUME TypeInv
  PROVE  /\ sched.version \in Nat
         /\ sched.status # "NONE" => sched.version \in Versions
         /\ \A h \in Handlers : handler[h].version \in Nat
         /\ \A w \in Workers : worker[w].version \in Nat
BY Parts, SchedulerAssumption DEF GoodSched, GoodRequest, GoodWork, Schedule, Handler, Worker

(* A write that keeps the version, and does not take the schedule back. *)
LEMMA VersionKept ==
  ASSUME Current, UNCHANGED <<due, worker>>, sched'.version = sched.version,
         sched'.status = "NONE" => sched.status = "NONE"
  PROVE  Timely' /\ (sched'.status = "NONE" => sched'.version = 0)
BY DEF Current, Timely, Bounded

(* Freeing the row keeps its version. *)
LEMMA FreedKeeps ==
  ASSUME TypeInv, NEW s
  PROVE  /\ Freed(s).version = sched.version /\ Freed(s).status = s
         /\ [Freed(s) EXCEPT !.token = "none"].version = sched.version
         /\ [Freed(s) EXCEPT !.token = "none"].status = s
BY Parts DEF GoodSched, Schedule, Freed

(* Requests: the only steps that give the row another version. *)
LEMMA RequestCurrent ==
  ASSUME Current, NEW h \in Handlers, Ask(h) \/ Serve(h) \/ HandlerFails(h)
  PROVE  (Bounded /\ Timely)'
<1>0. TypeInv /\ Bounded /\ Timely
  BY DEF Current
<1>1. /\ handler \in [Handlers -> Handler] /\ sched \in Schedule
      /\ worker' = worker /\ GoodRequest(handler[h])
  BY <1>0, Parts DEF Ask, Serve, Create, Read, Reschedule, Cancel, Drop, Add, Mark,
                     HandlerFails, GoodSched
<1>2. ASSUME NEW r, handler' = [handler EXCEPT ![h] = r],
             r.pc # "idle" => r.version <= sched'.version,
             r.pc = "drop" /\ r.op = "reschedule" => r.version < sched'.version,
             sched'.version \in Nat, sched.version <= sched'.version
      PROVE  \A g \in Handlers :
               /\ handler'[g].pc # "idle" => handler'[g].version <= sched'.version
               /\ handler'[g].pc = "drop" /\ handler'[g].op = "reschedule" =>
                    handler'[g].version < sched'.version
  BY <1>0, <1>1, <1>2, VersionType DEF Bounded
<1>3. CASE Create(h)
  <2> DEFINE r == [pc |-> "add", op |-> "create", version |-> 1]
  <2>1. /\ handler' = [handler EXCEPT ![h] = r] /\ sched.version = 0 /\ sched'.version = 1
        /\ sched'.status = "SCHEDULED" /\ UNCHANGED <<due, job>>
    BY <1>0, <1>3 DEF Create, Bounded
  <2>2. \A w \in Workers : worker[w].pc \in {"down", "ready"}
    BY <1>0, <2>1, Parts, VersionType DEF Bounded, GoodWork, ProperWork
  <2>3. Timely'
    BY <1>1, <2>2 DEF Timely, Scanning
  <2>4. /\ r.pc # "drop" /\ r.version <= sched'.version
        /\ sched'.version \in Nat /\ sched.version <= sched'.version
    BY <2>1
  <2> HIDE DEF r
  <2>5. \A g \in Handlers :
          /\ handler'[g].pc # "idle" => handler'[g].version <= sched'.version
          /\ handler'[g].pc = "drop" /\ handler'[g].op = "reschedule" =>
               handler'[g].version < sched'.version
    BY <1>2, <2>1, <2>4
  <2>6. \A v \in Versions : job'[v].state # "absent" => v <= sched'.version
    BY <1>0, <2>1, SchedulerAssumption DEF Bounded
  <2>7. \A w \in Workers : worker'[w].pc \in {"down", "ready"}
    BY <1>1, <2>2
  <2> QED
    BY <2>1, <2>3, <2>5, <2>6, <2>7 DEF Bounded
<1>4. CASE Reschedule(h)
  <2>1. CASE sched.version = handler[h].version /\ sched.status \in Pending
    <3> DEFINE r == [handler[h] EXCEPT !.pc = "drop"]
    <3>1. /\ sched'.version = sched.version + 1 /\ sched'.status = "SCHEDULED"
          /\ due' = "future" /\ job' = job /\ handler' = [handler EXCEPT ![h] = r]
      BY <1>1, <1>4, <2>1 DEF Reschedule, Goto
    <3>2. r.version = sched.version
      BY <1>1, <2>1 DEF Handler
    <3>3. "slowReconcile" \notin Faults => \A w \in Workers : worker[w].pc \notin Scanning
      BY <1>4 DEF Reschedule, Reconciling
    <3>4. Timely'
      BY <1>0, <1>1, <3>1, <3>3, VersionType DEF Timely, Bounded, Scanning
    <3> QED
      BY <1>0, <1>1, <1>2, <3>1, <3>2, <3>4, VersionType DEF Bounded
  <2>2. CASE Answer(h) /\ UNCHANGED <<sched, due>>
    BY <1>0, <1>1, <1>2, <1>4, <2>2, VersionType
       DEF Reschedule, Answer, Idle, Bounded, Timely
  <2> QED
    BY <1>4, <2>1, <2>2 DEF Reschedule
<1>5. CASE \/ Read(h, "reschedule", "rescheduling") \/ Read(h, "cancel", "cancelling")
           \/ HandlerFails(h)
  <2>0. ASSUME NEW op, NEW pc, Read(h, op, pc), pc # "drop"
        PROVE  \E r : /\ handler' = [handler EXCEPT ![h] = r]
                      /\ r.pc # "idle" => r.version = sched.version
                      /\ r.pc # "drop"
    <3> DEFINE r == [pc |-> pc, op |-> op, version |-> sched.version]
    <3>1. handler' = [handler EXCEPT ![h] = r]
      BY <2>0 DEF Read
    <3>2. r.version = sched.version /\ r.pc # "drop"
      BY <2>0
    <3> QED
      BY <3>1, <3>2
  <2>1. PICK r : /\ handler' = [handler EXCEPT ![h] = r]
                 /\ r.pc # "idle" => r.version = sched.version
                 /\ r.pc # "drop"
    <3>1. CASE Read(h, "reschedule", "rescheduling")
      BY <2>0, <3>1
    <3>2. CASE Read(h, "cancel", "cancelling")
      BY <2>0, <3>2
    <3>3. CASE HandlerFails(h)
      <4>1. handler' = [handler EXCEPT ![h] = Idle] /\ Idle.pc = "idle"
        BY <3>3 DEF HandlerFails, Answer, Idle
      <4> QED
        BY <4>1
    <3> QED
      BY <1>5, <3>1, <3>2, <3>3
  <2>2. UNCHANGED <<sched, due, job>>
    BY <1>5 DEF Read, HandlerFails
  <2> QED
    BY <1>0, <1>1, <1>2, <2>1, <2>2, VersionType DEF Bounded, Timely
<1>6. CASE Cancel(h) \/ Mark(h)
  <2>1. PICK pc \in {"drop", "idle"} :
          /\ pc = "drop" => Goto(h, "drop") /\ handler[h].pc = "cancelling"
          /\ pc = "idle" => Answer(h)
    BY <1>6 DEF Cancel, Mark
  <2>2. /\ sched'.version = sched.version /\ UNCHANGED <<due, job>>
        /\ sched'.status = "NONE" => sched.status = "NONE"
    <3>1. CASE Cancel(h)
      BY <1>0, <3>1, FreedKeeps DEF Cancel
    <3>2. CASE Mark(h)
      BY <1>1, <3>2 DEF Mark, Schedule
    <3> QED
      BY <1>6, <3>1, <3>2
  <2>3. PICK r : /\ handler' = [handler EXCEPT ![h] = r]
                 /\ r.pc # "idle" => r.version <= sched.version
                 /\ ~(r.pc = "drop" /\ r.op = "reschedule")
    <3>1. CASE pc = "drop"
      <4> DEFINE r == [handler[h] EXCEPT !.pc = "drop"]
      <4>1. r.version = handler[h].version /\ r.op = handler[h].op
        BY <1>1 DEF Handler
      <4>2. handler[h].op = "cancel" /\ handler[h].version <= sched.version
        BY <1>0, <1>1, <2>1, <3>1 DEF GoodRequest, ProperRequest, Bounded
      <4>3. handler' = [handler EXCEPT ![h] = r]
        BY <1>1, <2>1, <3>1 DEF Goto
      <4> QED
        BY <4>1, <4>2, <4>3
    <3>2. CASE pc = "idle"
      BY <2>1, <3>2 DEF Answer, Idle
    <3> QED
      BY <3>1, <3>2
  <2> QED
    BY <1>0, <1>1, <1>2, <2>2, <2>3, VersionType, VersionKept DEF Bounded
<1>7. CASE Drop(h)
  <2> DEFINE r == IF handler[h].op = "reschedule"
                  THEN [handler[h] EXCEPT !.pc = "add", !.version = @ + 1] ELSE Idle
  <2>1. handler' = [handler EXCEPT ![h] = r] /\ UNCHANGED <<sched, due>>
    BY <1>1, <1>7 DEF Drop, Answer
  <2>2. r.pc # "idle" => r.pc = "add" /\ r.version = handler[h].version + 1
    BY <1>1 DEF Handler, Idle
  <2>3. r.pc # "idle" => r.version <= sched.version
    BY <1>0, <1>7, <2>2, VersionType DEF Drop, Bounded, Idle
  <2>4. \A v \in Versions : job'[v].state # "absent" => job[v].state # "absent"
    BY <1>0, <1>7, Parts DEF Drop, Removed, NoJob
  <2>5. r.pc # "drop"
    BY <2>2, <1>1 DEF Idle
  <2> HIDE DEF r
  <2> QED
    BY <1>0, <1>1, <1>2, <2>1, <2>3, <2>4, <2>5, VersionType DEF Bounded, Timely
<1>8. CASE Add(h)
  <2> DEFINE r == [handler[h] EXCEPT !.pc = "mark"]
  <2>1. handler' = [handler EXCEPT ![h] = r] /\ UNCHANGED <<sched, due>>
    BY <1>1, <1>8 DEF Add, Goto
  <2>2. r.pc = "mark" /\ r.version = handler[h].version /\ r.version <= sched.version
    BY <1>0, <1>1, <1>8 DEF Add, Handler, Bounded
  <2>3. \A v \in Versions : job'[v].state # "absent" => v <= sched.version
    BY <1>0, <1>8, <2>2, Parts DEF Add, Added, Bounded
  <2> QED
    BY <1>0, <1>1, <1>2, <2>1, <2>2, <2>3, VersionType DEF Bounded, Timely
<1> QED
  BY <1>3, <1>4, <1>5, <1>6, <1>7, <1>8 DEF Ask, Serve

(* A worker that goes on, without touching row, clock or queue. *)
LEMMA MovedCurrent ==
  ASSUME Current, NEW w \in Workers, NEW r, worker' = [worker EXCEPT ![w] = r],
         UNCHANGED <<due, handler>>, sched'.version = sched.version,
         sched'.status = "NONE" => sched.status = "NONE",
         \A v \in Versions : job'[v].state # "absent" => v <= sched.version,
         r.pc \notin {"down", "ready"} => r.version <= sched.version,
         "slowReconcile" \notin Faults /\ r.pc \in Scanning => r.version = sched.version,
         r.pc \in {"look", "acquire"} /\ r.version = sched.version => due # "future"
  PROVE  (Bounded /\ Timely)'
<1>1. worker \in [Workers -> Worker] /\ Bounded /\ Timely
  BY Parts DEF Current
<1>2. \A x \in Workers : worker'[x] = IF x = w THEN r ELSE worker[x]
  BY <1>1
<1>3. Bounded'
  BY <1>1, <1>2 DEF Bounded
<1>4. Timely'
  BY <1>1, <1>2 DEF Timely
<1> QED
  BY <1>3, <1>4

(* Workers: what they begin is about the version of the row or an older one. *)
LEMMA WorkCurrent ==
  ASSUME Current, NEW w \in Workers, Reconcile(w) \/ Process(w) \/ Break(w)
  PROVE  (Bounded /\ Timely)'
<1>0. /\ TypeInv /\ Bounded /\ Timely
      /\ worker[w] \in Worker /\ sched \in Schedule /\ job \in [Versions -> Job]
      /\ worker \in [Workers -> Worker]
  BY Parts DEF Current, GoodSched
<1>1. ASSUME NEW from, NEW to, Step(w, from, to), from \notin {"down", "ready"},
             to \notin Scanning \cup {"look", "acquire"} \/
               (from \in Scanning /\ to \in Scanning \ {"late"}) \/
               (from = "look" /\ to = "acquire"),
             UNCHANGED <<due, handler>>, sched'.version = sched.version,
             sched'.status = "NONE" => sched.status = "NONE",
             \A v \in Versions : job'[v].state # "absent" => v <= sched.version
      PROVE  (Bounded /\ Timely)'
  <2> DEFINE r == IF to = "ready" THEN Ready ELSE [worker[w] EXCEPT !.pc = to]
  <2>1. worker' = [worker EXCEPT ![w] = r] /\ worker[w].pc = from
    BY <1>0, <1>1 DEF Step
  <2>2. CASE to = "ready"
    <3>1. worker' = [worker EXCEPT ![w] = Ready] /\ Ready.pc = "ready"
      BY <2>1, <2>2 DEF Ready, Down
    <3> QED
      BY <1>1, <3>1, MovedCurrent DEF Scanning
  <2>3. CASE to # "ready"
    <3>1. r.pc = to /\ r.version = worker[w].version
      BY <1>0, <2>3 DEF Worker
    <3>2. worker[w].version <= sched.version
      BY <1>0, <1>1, <2>1 DEF Bounded
    <3>3. "slowReconcile" \notin Faults /\ from \in Scanning =>
            worker[w].version = sched.version
      BY <1>0, <2>1 DEF Timely
    <3>4. from = "look" /\ worker[w].version = sched.version => due # "future"
      BY <1>0, <2>1 DEF Timely
    <3> HIDE DEF r
    <3> QED
      BY <1>1, <2>1, <3>1, <3>2, <3>3, <3>4, MovedCurrent DEF Scanning
  <2> QED
    BY <2>2, <2>3
<1>2. \A v \in Versions : job[v].state # "absent" => v <= sched.version
  BY <1>0 DEF Bounded
<1>3. ASSUME NEW s
      PROVE  Freed(s).version = sched.version /\ Freed(s).status = s
             /\ [Freed(s) EXCEPT !.token = "none"].version = sched.version
             /\ [Freed(s) EXCEPT !.token = "none"].status = s
  BY <1>0, FreedKeeps
<1>4. CASE Boot(w)
  <2> DEFINE next == IF sched.status \in Pending
                     THEN IF due = "late" THEN "late" ELSE "check"
                     ELSE IF sched.status = "PROCESSING" /\ sched.lease # "live"
                          THEN "orphan" ELSE "ready"
             r == IF next = "ready" THEN Ready
                  ELSE [pc |-> next, version |-> sched.version, made |-> 0]
  <2>1. worker' = [worker EXCEPT ![w] = r] /\ UNCHANGED <<sched, due, job, handler>>
    BY <1>4 DEF Boot
  <2>2. /\ r.pc \in {"ready", "late", "check", "orphan"}
        /\ r.pc # "ready" => r.version = sched.version
    BY DEF Ready, Down
  <2> HIDE DEF r
  <2>3. sched.version <= sched.version
    BY <1>0, VersionType
  <2>4. /\ UNCHANGED <<due, handler>> /\ sched' = sched
        /\ \A v \in Versions : job'[v].state # "absent" => v <= sched.version
    BY <1>2, <2>1
  <2> QED
    BY <2>1, <2>2, <2>3, <2>4, MovedCurrent DEF Scanning
<1>5. CASE FlagLate(w) \/ FlagOrphan(w)
  <2>1. PICK from \in {"late", "orphan"} : Step(w, from, "ready")
    BY <1>5 DEF FlagLate, FlagOrphan
  <2> QED
    BY <1>1, <1>2, <1>3, <1>5, <2>1 DEF FlagLate, FlagOrphan, Scanning
<1>6. CASE CheckJob(w)
  <2>1. PICK to \in {"ready", "readd"} : Step(w, "check", to)
    BY <1>6 DEF CheckJob
  <2> QED
    BY <1>1, <1>2, <1>6, <2>1 DEF CheckJob, Scanning
<1>7. CASE Readd(w)
  <2>1. PICK to \in {"ready", "remark"} : Step(w, "readd", to)
    BY <1>7 DEF Readd
  <2>2. worker[w].version <= sched.version
    BY <1>0, <2>1 DEF Step, Bounded
  <2>3. \A v \in Versions : job'[v].state # "absent" => v <= sched.version
    BY <1>0, <1>2, <1>7, <2>2, VersionType DEF Readd, Added
  <2> QED
    BY <1>1, <1>7, <2>1, <2>3 DEF Readd, Scanning
<1>8. CASE Remark(w)
  <2>1. sched'.version = sched.version /\ (sched'.status = "NONE" => sched.status = "NONE")
    BY <1>0, <1>8 DEF Remark, Schedule
  <2> QED
    BY <1>1, <1>2, <1>8, <2>1 DEF Remark, Scanning
<1>9. ASSUME NEW v \in Versions, Take(w, v)
      PROVE  (Bounded /\ Timely)'
  <2> DEFINE r == [pc |-> "look", version |-> v, made |-> job[v].made]
  <2>1. worker' = [worker EXCEPT ![w] = r] /\ UNCHANGED <<sched, due, handler>>
    BY <1>9 DEF Take
  <2>2. v <= sched.version /\ (v = sched.version => due # "future")
    BY <1>2, <1>9 DEF Take
  <2>3. \A u \in Versions : job'[u].state # "absent" => u <= sched.version
    BY <1>0, <1>2, <1>9, <2>2 DEF Take, Job
  <2> QED
    BY <2>1, <2>2, <2>3, MovedCurrent DEF Scanning
<1>10. CASE Look(w)
  <2>1. PICK to \in {"done", "acquire"} : Step(w, "look", to)
    BY <1>10 DEF Look
  <2> QED
    BY <1>1, <1>2, <1>3, <1>10, <2>1 DEF Look, Scanning
<1>11. CASE Acquire(w)
  <2>1. PICK to \in {"prepare", "done"} : Step(w, "acquire", to)
    BY <1>11 DEF Acquire
  <2>2. sched'.version = sched.version /\ (sched'.status = "NONE" => sched.status = "NONE")
    BY <1>0, <1>11 DEF Acquire, Acquired, Schedule
  <2> QED
    BY <1>1, <1>2, <1>11, <2>1, <2>2 DEF Acquire, Scanning
<1>12. CASE Prepare(w) \/ Finalize(w) \/ Retry(w)
  <2>1. PICK from \in {"prepare", "execute"}, to \in {"execute", "done", "throw"} :
          Step(w, from, to)
    BY <1>12 DEF Prepare, Finalize, Settle, Retry
  <2>2. /\ sched'.version = sched.version /\ (sched'.status = "NONE" => sched.status = "NONE")
        /\ UNCHANGED <<due, job, handler>>
    BY <1>3, <1>12 DEF Prepare, Finalize, Settle, Retry
  <2> QED
    BY <1>1, <1>2, <2>1, <2>2 DEF Scanning
<1>13. CASE Complete(w) \/ Fail(w)
  <2>1. PICK from \in {"done", "throw"}, to \in {"ready", "listen"} : Step(w, from, to)
    BY <1>13 DEF Complete, Fail
  <2>2. worker[w].version \in Versions /\ worker[w].version <= sched.version
    BY <1>0, <2>1, Parts DEF Step, Bounded, GoodWork, ProperWork
  <2>3. \A v \in Versions : job'[v].state # "absent" => v <= sched.version
    BY <1>0, <1>2, <1>13, <2>2 DEF Complete, Fail
  <2> QED
    BY <1>1, <1>13, <2>1, <2>3 DEF Complete, Fail, Scanning
<1>14. CASE Listen(w)
  BY <1>1, <1>2, <1>3, <1>14 DEF Listen, Scanning
<1>15. CASE AcquisitionFails(w) \/ WriteFails(w)
  <2>1. PICK from \in {"look", "acquire", "prepare", "execute"}, to \in {"done", "throw"} :
          Step(w, from, to)
    BY <1>15 DEF AcquisitionFails, WriteFails, Step
  <2> QED
    BY <1>1, <1>2, <1>15, <2>1 DEF AcquisitionFails, WriteFails, Scanning
<1>16. CASE Join(w) \/ ReconcileFails(w) \/ Crash(w)
  <2>1. PICK r \in {Ready, Down} : worker' = [worker EXCEPT ![w] = r]
    BY <1>16 DEF Join, ReconcileFails, Crash
  <2> QED
    BY <1>2, <1>16, <2>1, MovedCurrent DEF Join, ReconcileFails, Crash, Ready, Down, Scanning
<1> QED
  BY <1>4, <1>5, <1>6, <1>7, <1>8, <1>9, <1>10, <1>11, <1>12, <1>13, <1>14, <1>15, <1>16
     DEF Reconcile, Process, Break

(* The queue and the clock. *)
LEMMA WorldCurrent ==
  ASSUME Current, (\E v \in Versions : Stall(v)) \/ Tick \/ LeaseExpires
  PROVE  (Bounded /\ Timely)'
<1>0. /\ Bounded /\ Timely /\ job \in [Versions -> Job] /\ sched \in Schedule
      /\ due \in {"future", "due", "late"}
  BY Parts DEF Current, GoodSched
<1>1. ASSUME NEW v \in Versions, Stall(v)
      PROVE  (Bounded /\ Timely)'
  <2>1. \A u \in Versions : job'[u].state # "absent" => job[u].state # "absent"
    BY <1>0, <1>1 DEF Stall
  <2> QED
    BY <1>0, <1>1, <2>1 DEF Stall, Bounded, Timely
<1>2. CASE Tick
  BY <1>0, <1>2 DEF Tick, Bounded, Timely
<1>3. CASE LeaseExpires
  <2>1. sched'.version = sched.version /\ sched'.status = sched.status
    BY <1>0, <1>3 DEF LeaseExpires, Schedule
  <2> QED
    BY <1>0, <1>3, <2>1 DEF LeaseExpires, Bounded, Timely
<1> QED
  BY <1>1, <1>2, <1>3

(* So the row is never behind what is done for it. *)
LEMMA CurrentInductive == Spec => []Current
<1>1. Init => Current
  <2> SUFFICES ASSUME Init PROVE Bounded /\ Timely
    BY InitType DEF Current
  <2> QED
    BY DEF Init, Bounded, Timely, Idle, Down, NoJob, Scanning
<1>2. Current /\ [Next]_vars => Current'
  <2> SUFFICES ASSUME Current, [Next]_vars PROVE TypeInv' /\ (Bounded /\ Timely)'
    BY DEF Current
  <2>1. TypeInv'
    BY NextType DEF Current
  <2>2. CASE UNCHANGED vars
    <3>1. UNCHANGED <<sched, due, job, handler, worker>>
      BY <2>2 DEF vars
    <3>2. Bounded'
      BY <3>1 DEF Current, Bounded
    <3>3. Timely'
      BY <3>1 DEF Current, Timely
    <3> QED
      BY <2>1, <3>2, <3>3
  <2>3. CASE Next
    BY <2>1, <2>3, RequestCurrent, WorkCurrent, WorldCurrent DEF Next
  <2> QED
    BY <2>1, <2>2, <2>3
<1> QED
  BY <1>1, <1>2, PTL DEF Spec

(* Who changes the row in a step. *)
LEMMA RowStep ==
  ASSUME Current, [Next]_vars, sched' # sched
  PROVE  \/ /\ worker' = worker
            /\ \/ \E h \in Handlers : Ask(h) \/ Serve(h)
               \/ LeaseExpires
         \/ \E w \in Workers :
              /\ \/ FlagLate(w) \/ FlagOrphan(w) \/ Remark(w) \/ Look(w) \/ Acquire(w)
                 \/ Prepare(w) \/ Finalize(w) \/ Retry(w) \/ Listen(w)
              /\ \A x \in Workers \ {w} : worker'[x] = worker[x]
<1>1. ASSUME NEW h \in Handlers, Ask(h) \/ Serve(h) \/ HandlerFails(h)
      PROVE  worker' = worker /\ (Ask(h) \/ Serve(h))
  BY <1>1 DEF Ask, Serve, Create, Read, Reschedule, Cancel, Drop, Add, Mark, HandlerFails
<1>2. ASSUME NEW w \in Workers, Reconcile(w) \/ Process(w) \/ Break(w)
      PROVE  /\ \/ FlagLate(w) \/ FlagOrphan(w) \/ Remark(w) \/ Look(w) \/ Acquire(w)
                \/ Prepare(w) \/ Finalize(w) \/ Retry(w) \/ Listen(w)
             /\ \A x \in Workers \ {w} : worker'[x] = worker[x]
  <2>1. worker \in [Workers -> Worker]
    BY Parts DEF Current
  <2>2. \/ FlagLate(w) \/ FlagOrphan(w) \/ Remark(w) \/ Look(w) \/ Acquire(w)
        \/ Prepare(w) \/ Finalize(w) \/ Retry(w) \/ Listen(w)
    BY <1>2 DEF Reconcile, Process, Break, Boot, Join, CheckJob, Readd, Take, Complete, Fail,
                AcquisitionFails, WriteFails, ReconcileFails, Crash
  <2>3. \E from, to : Step(w, from, to)
    BY <2>2 DEF FlagLate, FlagOrphan, Remark, Look, Acquire, Prepare, Finalize, Settle,
                Retry, Listen
  <2> QED
    BY <2>1, <2>2, <2>3 DEF Step
<1>3. CASE LeaseExpires
  BY <1>3 DEF LeaseExpires
<1> QED
  BY <1>1, <1>2, <1>3 DEF Next, Stall, Tick, vars

(* A worker on a job changes the schedule only in the version of the job
   (processScheduleJob and the failed listener), however often the schedule is
   rescheduled. *)
THEOREM OwnVersionOnly == Spec => VersionRespected
<1>1. ASSUME Current, [Next]_vars
      PROVE  \A w \in Workers :
               worker[w].pc \notin Scanning /\ worker'[w] # worker[w] /\ sched' # sched =>
                 worker[w].version = sched.version
  <2> SUFFICES ASSUME NEW w \in Workers, worker[w].pc \notin Scanning,
                      worker'[w] # worker[w], sched' # sched
               PROVE  worker[w].version = sched.version
    OBVIOUS
  <2>1. \/ FlagLate(w) \/ FlagOrphan(w) \/ Remark(w) \/ Look(w) \/ Acquire(w)
        \/ Prepare(w) \/ Finalize(w) \/ Retry(w) \/ Listen(w)
    BY <1>1, RowStep
  <2>2. CASE FlagLate(w) \/ FlagOrphan(w) \/ Remark(w)
    BY <2>2 DEF FlagLate, FlagOrphan, Remark, Step, Scanning
  <2>3. CASE Look(w) \/ Acquire(w) \/ Listen(w)
    BY <2>3 DEF Look, Acquire, Listen, Eligible
  <2>4. CASE Prepare(w) \/ Finalize(w) \/ Retry(w)
    BY <2>4 DEF Prepare, Finalize, Settle, Retry, Owns
  <2> QED
    BY <2>1, <2>2, <2>3, <2>4
<1>2. Current /\ [Next]_vars
        => [\A w \in Workers :
              worker[w].pc \notin Scanning /\ worker'[w] # worker[w] /\ sched' # sched =>
                worker[w].version = sched.version]_vars
  BY <1>1
<1> QED
  BY <1>2, CurrentInductive, PTL DEF Spec, VersionRespected

(* What a schedule that begins to be processed says of the clock. *)
LEMMA RowAgainstClock ==
  ASSUME Current, [Next]_vars
  PROVE  sched.status # "PROCESSING" /\ sched'.status = "PROCESSING" => due # "future"
<1>0. TypeInv /\ Timely /\ sched \in Schedule
  BY Parts DEF Current, GoodSched
<1>1. \A s : /\ Freed(s).status = s
             /\ [Freed(s) EXCEPT !.token = "none"].status = s
  BY <1>0, FreedKeeps
<1>2. ASSUME NEW h \in Handlers, Ask(h) \/ Serve(h)
      PROVE  sched' = sched \/ sched'.status \in {"SCHEDULED", "ENQUEUED", "CANCELLED"}
  <2>1. CASE Create(h) \/ Reschedule(h)
    BY <2>1 DEF Create, Reschedule
  <2>2. CASE Cancel(h)
    BY <1>1, <2>2 DEF Cancel
  <2>3. CASE Mark(h)
    BY <1>0, <2>3 DEF Mark, Schedule
  <2> QED
    BY <1>2, <2>1, <2>2, <2>3 DEF Ask, Serve, Read, Drop, Add
<1>3. LeaseExpires => sched'.status = sched.status
  BY <1>0 DEF LeaseExpires, Schedule
<1>4. ASSUME NEW w \in Workers, FlagLate(w)
      PROVE  sched' = sched \/ sched'.status = "REQUIRES_RECONCILIATION"
  BY <1>1, <1>4 DEF FlagLate
<1>5. ASSUME NEW w \in Workers, FlagOrphan(w)
      PROVE  \/ sched' = sched
             \/ sched.status = "PROCESSING" /\ sched'.status = "REQUIRES_RECONCILIATION"
  BY <1>1, <1>5 DEF FlagOrphan
<1>6. ASSUME NEW w \in Workers, Look(w)
      PROVE  \/ sched' = sched
             \/ sched'.status = "REQUIRES_RECONCILIATION"
  BY <1>1, <1>6 DEF Look
<1>7. ASSUME NEW w \in Workers, Acquire(w)
      PROVE  sched' = sched \/ (due # "future" /\ sched'.status = "PROCESSING")
  BY <1>0, <1>7 DEF Acquire, Step, Eligible, Acquired, Timely, Schedule
<1>8. ASSUME NEW w \in Workers, Remark(w) \/ Retry(w)
      PROVE  sched' = sched \/ sched'.status = "ENQUEUED"
  BY <1>0, <1>1, <1>8 DEF Remark, Retry, Schedule
<1>9. ASSUME NEW w \in Workers, Prepare(w) \/ Finalize(w) \/ Listen(w)
      PROVE  sched' = sched \/ (sched.status = "PROCESSING" /\ sched'.status # "PROCESSING")
  BY <1>1, <1>9 DEF Prepare, Finalize, Settle, Listen, Owns
<1>10. CASE sched' = sched
  BY <1>10 DEF Pending
<1>11. CASE sched' # sched
  BY <1>2, <1>3, <1>4, <1>5, <1>6, <1>7, <1>8, <1>9, <1>11, RowStep DEF Pending
<1> QED
  BY <1>10, <1>11

(* The acquisition finds that the instant of the row has come, although a job
   of an earlier version may be given out before. *)
THEOREM RunsWhenDue == Spec => RunsOnlyWhenDue
<1>1. Current /\ [Next]_vars
        => [sched.status # "PROCESSING" /\ sched'.status = "PROCESSING" => due # "future"]_vars
  BY RowAgainstClock
<1> QED
  BY <1>1, CurrentInductive, PTL DEF Spec, RunsOnlyWhenDue
-----------------------------------------------------------------------------
(* An ENQUEUED schedule has its job.  First the queue and the workers alone: a
   worker that is busy holds the lock of its job, and a job nobody is busy with
   has not stalled before, as long as locks are not lost and one worker at
   most dies. *)

Holds(w) == LET j == job[worker[w].version]
            IN j.state = "active" /\ j.owner = w /\ j.made = worker[w].made
Orphan(u) == /\ job[u].state = "active"
             /\ ~\E w \in Workers : worker[w].pc \in Busy /\ worker[w].version = u
Locked ==
  /\ \A u \in Versions : job[u].state = "active" => job[u].owner \in Workers
  /\ \A w \in Workers : worker[w].pc \in Busy => Holds(w)
  /\ \A u \in Versions : Orphan(u) => crashes # 0 /\ job[u].stalls = 0
  /\ crashes = 0 => \A u \in Versions : job[u].stalls = 0

(* Whoever is busy goes on with the same job, and the active jobs stay. *)
SameWork ==
  \A w \in Workers :
    /\ worker'[w].pc \in Busy <=> worker[w].pc \in Busy
    /\ worker[w].pc \in Busy => /\ worker'[w].version = worker[w].version
                                /\ worker'[w].made = worker[w].made
SameLocks ==
  \A u \in Versions :
    /\ job'[u].state = "active" <=> job[u].state = "active"
    /\ job[u].state = "active" => job'[u] = job[u]
    /\ job'[u].stalls \in {0, job[u].stalls}

(* A worker that is busy is busy with one of the versions. *)
LEMMA BusyVersion ==
  ASSUME TypeInv
  PROVE  \A w \in Workers : worker[w].pc \in Busy => worker[w].version \in Versions
BY Parts DEF GoodWork, ProperWork, Busy

LEMMA KeptLocked ==
  ASSUME TypeInv, Locked, SameWork, SameLocks, crashes' = crashes
  PROVE  Locked'
<1>1. \A u \in Versions : job'[u].state = "active" => job'[u].owner \in Workers
  BY DEF Locked, SameLocks
<1>2. \A w \in Workers : worker'[w].pc \in Busy => Holds(w)'
  BY BusyVersion DEF Locked, SameLocks, SameWork, Holds
<1>3. \A u \in Versions : Orphan(u)' => Orphan(u)
  BY DEF SameLocks, SameWork, Orphan
<1>4. \A u \in Versions : Orphan(u)' => crashes' # 0 /\ job'[u].stalls = 0
  BY <1>3 DEF Locked, SameLocks
<1>5. crashes' = 0 => \A u \in Versions : job'[u].stalls = 0
  BY DEF Locked, SameLocks
<1> QED
  BY <1>1, <1>2, <1>4, <1>5 DEF Locked

(* A step that stays busy, or stays idle. *)
LEMMA StepSame ==
  ASSUME TypeInv, NEW w \in Workers, NEW from, NEW to, Step(w, from, to),
         from \in Busy <=> to \in Busy
  PROVE  SameWork
<1>1. worker \in [Workers -> Worker] /\ worker[w] \in Worker /\ worker[w].pc = from
  BY Parts DEF Step
<1>2. CASE to = "ready"
  <2>1. worker' = [worker EXCEPT ![w] = Ready] /\ Ready.pc = "ready" /\ "ready" \notin Busy
    BY <1>2 DEF Step, Ready, Down, Busy
  <2> QED
    BY <1>1, <1>2, <2>1 DEF SameWork
<1>3. CASE to # "ready"
  <2> DEFINE r == [worker[w] EXCEPT !.pc = to]
  <2>1. r.pc = to /\ r.version = worker[w].version /\ r.made = worker[w].made
    BY <1>1 DEF Worker
  <2>2. worker' = [worker EXCEPT ![w] = r]
    BY <1>1, <1>3 DEF Step
  <2> HIDE DEF r
  <2> QED
    BY <1>1, <2>1, <2>2 DEF SameWork
<1> QED
  BY <1>2, <1>3

(* queue.add and job.remove leave the active jobs alone. *)
LEMMA QueueSame ==
  ASSUME TypeInv, NEW v \in Versions, job' = Added(v) \/ job' = Removed(v)
  PROVE  SameLocks
<1>1. /\ job \in [Versions -> Job]
      /\ NewJob.state = "waiting" /\ NewJob.stalls = 0
      /\ NoJob.state = "absent" /\ NoJob.stalls = 0
  BY Parts DEF NewJob, NoJob
<1>2. CASE job' = Added(v)
  BY <1>1, <1>2 DEF Added, SameLocks
<1>3. CASE job' = Removed(v)
  BY <1>1, <1>3 DEF Removed, SameLocks
<1> QED
  BY <1>2, <1>3

LEMMA RequestLocked ==
  ASSUME TypeInv, Locked, NEW h \in Handlers, Ask(h) \/ Serve(h) \/ HandlerFails(h)
  PROVE  Locked'
<1>1. worker' = worker /\ crashes' = crashes
  BY DEF Ask, Serve, Create, Read, Reschedule, Cancel, Drop, Add, Mark, HandlerFails
<1>2. SameWork
  BY <1>1 DEF SameWork
<1>3. CASE job' = job
  BY <1>1, <1>2, <1>3, KeptLocked DEF SameLocks
<1>4. CASE Drop(h) \/ Add(h)
  <2>1. handler[h].version \in Versions
    BY <1>4, Parts DEF Drop, Add, GoodRequest, ProperRequest
  <2>2. SameLocks
    BY <1>4, <2>1, QueueSame DEF Drop, Add
  <2> QED
    BY <1>1, <1>2, <2>2, KeptLocked
<1> QED
  BY <1>3, <1>4 DEF Ask, Serve, Create, Read, Reschedule, Cancel, Mark, HandlerFails

(* A job given to a worker, or taken from it. *)
LEMMA WorkLocked ==
  ASSUME TypeInv, Locked, "lostLock" \notin Faults, MaxCrashes <= 1,
         NEW w \in Workers, Reconcile(w) \/ Process(w) \/ Break(w)
  PROVE  Locked'
<1>0. /\ worker \in [Workers -> Worker] /\ job \in [Versions -> Job] /\ worker[w] \in Worker
      /\ crashes \in 0..MaxCrashes
  BY Parts
<1>1. ASSUME NEW from, NEW to, Step(w, from, to), from \in Busy <=> to \in Busy,
             UNCHANGED <<job, crashes>>
      PROVE  Locked'
  <2>1. SameLocks
    BY <1>1 DEF SameLocks
  <2> QED
    BY <1>1, <2>1, StepSame, KeptLocked
<1>2. ASSUME NEW r, worker' = [worker EXCEPT ![w] = r], worker[w].pc \notin Busy,
             r.pc \notin Busy, UNCHANGED <<job, crashes>>
      PROVE  Locked'
  BY <1>0, <1>2, KeptLocked DEF SameWork, SameLocks
<1>3. CASE Boot(w)
  <2> DEFINE next == IF sched.status \in Pending
                     THEN IF due = "late" THEN "late" ELSE "check"
                     ELSE IF sched.status = "PROCESSING" /\ sched.lease # "live"
                          THEN "orphan" ELSE "ready"
             r == IF next = "ready" THEN Ready
                  ELSE [pc |-> next, version |-> sched.version, made |-> 0]
  <2>1. worker' = [worker EXCEPT ![w] = r] /\ worker[w].pc = "down"
        /\ UNCHANGED <<job, crashes>>
    BY <1>3 DEF Boot
  <2>2. r.pc \notin Busy /\ "down" \notin Busy
    BY DEF Ready, Down, Busy
  <2> HIDE DEF r
  <2> QED
    BY <1>2, <2>1, <2>2
<1>4. CASE FlagLate(w) \/ FlagOrphan(w) \/ CheckJob(w) \/ Remark(w) \/ Listen(w)
  <2>1. PICK from \in Scanning \cup {"listen"}, to \in {"ready", "readd"} : Step(w, from, to)
    BY <1>4 DEF FlagLate, FlagOrphan, CheckJob, Remark, Listen, Scanning
  <2>2. from \notin Busy /\ to \notin Busy
    BY DEF Scanning, Busy
  <2> QED
    BY <1>1, <1>4, <2>1, <2>2 DEF FlagLate, FlagOrphan, CheckJob, Remark, Listen
<1>5. CASE Readd(w)
  <2>1. PICK to \in {"ready", "remark"} : Step(w, "readd", to)
    BY <1>5 DEF Readd
  <2>2. SameWork
    BY <2>1, StepSame DEF Busy
  <2>3. worker[w].version \in Versions
    BY <2>1, Parts DEF Step, GoodWork, ProperWork
  <2>4. SameLocks
    BY <1>5, <2>3, QueueSame DEF Readd
  <2> QED
    BY <1>5, <2>2, <2>4, KeptLocked DEF Readd
<1>6. CASE Look(w) \/ Acquire(w) \/ Prepare(w) \/ Finalize(w) \/ Retry(w)
  <2>1. PICK from \in Busy, to \in Busy : Step(w, from, to)
    BY <1>6 DEF Look, Acquire, Prepare, Finalize, Settle, Retry, Busy
  <2> QED
    BY <1>1, <1>6, <2>1 DEF Look, Acquire, Prepare, Finalize, Settle, Retry
<1>7. CASE AcquisitionFails(w) \/ WriteFails(w)
  <2>1. PICK from \in Busy, to \in Busy : Step(w, from, to)
    BY <1>7 DEF AcquisitionFails, WriteFails, Step, Busy
  <2> QED
    BY <1>1, <1>7, <2>1 DEF AcquisitionFails, WriteFails
<1>8. CASE Join(w) \/ ReconcileFails(w)
  <2>1. Ready.pc \notin Busy /\ worker[w].pc \notin Busy
    BY <1>8 DEF Join, ReconcileFails, Ready, Down, Busy, Scanning
  <2> QED
    BY <1>2, <1>8, <2>1 DEF Join, ReconcileFails
<1>9. CASE Crash(w)
  <2>1. crashes = 0 /\ crashes' # 0 /\ job' = job
    BY <1>0, <1>9, SchedulerAssumption DEF Crash
  <2>2. worker' = [worker EXCEPT ![w] = Down] /\ Down.pc \notin Busy
    BY <1>9 DEF Crash, Down, Busy
  <2>3. \A x \in Workers : worker'[x].pc \in Busy => Holds(x)'
    BY <1>0, <2>1, <2>2 DEF Locked, Holds
  <2> QED
    BY <2>1, <2>3 DEF Locked
<1>10. ASSUME NEW v \in Versions, Take(w, v)
       PROVE  Locked'
  <2> DEFINE r == [pc |-> "look", version |-> v, made |-> job[v].made]
  <2>1. worker' = [worker EXCEPT ![w] = r] /\ worker[w].pc = "ready" /\ crashes' = crashes
        /\ job[v].state = "waiting"
    BY <1>10 DEF Take
  <2>2. /\ \A u \in Versions \ {v} : job'[u] = job[u]
        /\ job'[v].state = "active" /\ job'[v].owner = w
        /\ job'[v].made = job[v].made /\ job'[v].stalls = job[v].stalls
    BY <1>0, <1>10 DEF Take, Job
  <2>3. /\ r.pc \in Busy /\ "ready" \notin Busy
        /\ r.version = v /\ r.made = job[v].made
    BY DEF Busy
  <2>4. \A x \in Workers : worker'[x] = IF x = w THEN r ELSE worker[x]
    BY <1>0, <2>1
  <2> HIDE DEF r
  <2>5. \A x \in Workers : worker[x].pc \in Busy => worker[x].version # v
    BY <2>1 DEF Locked, Holds
  <2>6. \A x \in Workers : worker'[x].pc \in Busy => Holds(x)'
    BY <2>2, <2>3, <2>4, <2>5, BusyVersion DEF Locked, Holds
  <2>7. \A u \in Versions : Orphan(u)' => Orphan(u) /\ u # v
    BY <2>1, <2>2, <2>3, <2>4 DEF Orphan
  <2> QED
    BY <2>1, <2>2, <2>6, <2>7 DEF Locked
<1>11. ASSUME NEW v \in Versions, v = worker[w].version, worker[w].pc \in Busy,
              NEW r, r.pc \notin Busy, worker' = [worker EXCEPT ![w] = r],
              \A u \in Versions \ {v} : job'[u] = job[u],
              job'[v].state # "active", job'[v].stalls = job[v].stalls, crashes' = crashes
       PROVE  Locked'
  <2>1. \A x \in Workers : worker'[x] = IF x = w THEN r ELSE worker[x]
    BY <1>0, <1>11
  <2>2. \A x \in Workers \ {w} : worker[x].pc \in Busy => worker[x].version # v
    BY <1>11 DEF Locked, Holds
  <2>3. \A x \in Workers : worker'[x].pc \in Busy => Holds(x)'
    BY <1>11, <2>1, <2>2, BusyVersion DEF Locked, Holds
  <2>4. \A u \in Versions : Orphan(u)' => Orphan(u) /\ u # v
    BY <1>11, <2>1 DEF Orphan
  <2>5. \A u \in Versions : job'[u].stalls = job[u].stalls
    BY <1>11
  <2>6. \A u \in Versions : job'[u].state = "active" => job'[u].owner \in Workers
    BY <1>11 DEF Locked
  <2> QED
    BY <1>11, <2>3, <2>4, <2>5, <2>6 DEF Locked
<1>12. CASE Complete(w) \/ Fail(w)
  <2>1. worker[w].pc \in Busy
    BY <1>12 DEF Complete, Fail, Step, Busy
  <2>2. worker[w].version \in Versions /\ Locks(w)
    BY <2>1, BusyVersion DEF Locked, Holds, Locks
  <2>3. PICK r : worker' = [worker EXCEPT ![w] = r] /\ r.pc \notin Busy
    <3>1. PICK from, to : Step(w, from, to) /\ to \in {"ready", "listen"}
      BY <1>12 DEF Complete, Fail
    <3>2. Ready.pc = "ready" /\ [worker[w] EXCEPT !.pc = "listen"].pc = "listen"
      BY <1>0 DEF Ready, Down, Worker
    <3>3. CASE to = "ready"
      BY <3>1, <3>2, <3>3 DEF Step, Busy
    <3>4. CASE to = "listen"
      <4>1. worker' = [worker EXCEPT ![w] = [worker[w] EXCEPT !.pc = "listen"]]
        BY <1>0, <3>1, <3>4 DEF Step
      <4>2. "listen" \notin Busy
        BY DEF Busy
      <4> QED
        BY <3>2, <4>1, <4>2
    <3> QED
      BY <3>1, <3>3, <3>4
  <2>4. /\ \A u \in Versions \ {worker[w].version} : job'[u] = job[u]
        /\ job'[worker[w].version].state # "active"
        /\ job'[worker[w].version].stalls = job[worker[w].version].stalls
    <3>1. CASE Complete(w)
      BY <1>0, <2>2, <3>1 DEF Complete, Job
    <3>2. CASE Fail(w)
      BY <1>0, <2>2, <3>2 DEF Fail, Job
    <3> QED
      BY <1>12, <3>1, <3>2
  <2>5. crashes' = crashes
    BY <1>12 DEF Complete, Fail
  <2> QED
    BY <1>11, <2>1, <2>2, <2>3, <2>4, <2>5
<1> QED
  BY <1>3, <1>4, <1>5, <1>6, <1>7, <1>8, <1>9, <1>10, <1>12 DEF Reconcile, Process, Break

(* Only a job nobody is busy with stalls, and it is given out once more. *)
LEMMA OnlyOrphansStall ==
  ASSUME TypeInv, Locked, "lostLock" \notin Faults, NEW v \in Versions, Stall(v)
  PROVE  /\ crashes # 0
         /\ job'[v].state = "waiting" /\ \A u \in Versions \ {v} : job'[u] = job[u]
         /\ \A x \in Workers : worker[x].pc \in Busy => worker[x].version # v
<1>1. job[v].owner \in Workers /\ job[v].state = "active"
  BY DEF Stall, Locked
<1>2. \A x \in Workers : worker[x].pc \in Busy => worker[x].version # v
  BY <1>1 DEF Stall, Locked, Holds
<1>3. Orphan(v)
  BY <1>1, <1>2 DEF Orphan
<1>4. job[v].stalls = 0 /\ crashes # 0
  BY <1>3 DEF Locked
<1>5. job \in [Versions -> Job]
  BY Parts
<1> QED
  BY <1>2, <1>4, <1>5 DEF Stall

LEMMA WorldLocked ==
  ASSUME TypeInv, Locked, "lostLock" \notin Faults,
         (\E v \in Versions : Stall(v)) \/ Tick \/ LeaseExpires
  PROVE  Locked'
<1>1. ASSUME NEW v \in Versions, Stall(v)
      PROVE  Locked'
  <2>1. worker' = worker /\ crashes' = crashes /\ crashes # 0
    BY <1>1, OnlyOrphansStall DEF Stall
  <2>2. /\ job'[v].state = "waiting" /\ \A u \in Versions \ {v} : job'[u] = job[u]
        /\ \A x \in Workers : worker[x].pc \in Busy => worker[x].version # v
    BY <1>1, OnlyOrphansStall
  <2>3. \A x \in Workers : worker'[x].pc \in Busy => Holds(x)'
    BY <2>1, <2>2, BusyVersion DEF Locked, Holds
  <2>4. \A u \in Versions : Orphan(u)' => Orphan(u) /\ u # v
    BY <2>1, <2>2 DEF Orphan
  <2>5. \A u \in Versions : job'[u].state = "active" => job'[u].owner \in Workers
    BY <2>2 DEF Locked
  <2>6. \A u \in Versions : Orphan(u)' => crashes' # 0 /\ job'[u].stalls = 0
    BY <2>1, <2>2, <2>4 DEF Locked
  <2>7. crashes' # 0
    BY <2>1
  <2> QED
    BY <2>3, <2>5, <2>6, <2>7 DEF Locked
<1>2. CASE Tick \/ LeaseExpires
  BY <1>2, KeptLocked DEF Tick, LeaseExpires, SameWork, SameLocks
<1> QED
  BY <1>1, <1>2

LEMMA LockedInductive ==
  ASSUME "lostLock" \notin Faults, MaxCrashes <= 1 PROVE Spec => [](TypeInv /\ Locked)
<1>1. Init => TypeInv /\ Locked
  <2>1. Init => Locked
    BY DEF Init, Locked, Orphan, NoJob, Down, Busy
  <2> QED
    BY <2>1, InitType
<1>2. TypeInv /\ Locked /\ [Next]_vars => (TypeInv /\ Locked)'
  <2> SUFFICES ASSUME TypeInv, Locked, [Next]_vars PROVE TypeInv' /\ Locked'
    OBVIOUS
  <2>1. TypeInv'
    BY NextType
  <2>2. CASE UNCHANGED vars
    BY <2>1, <2>2, KeptLocked DEF vars, SameWork, SameLocks
  <2>3. CASE Next
    BY <2>1, <2>3, RequestLocked, WorkLocked, WorldLocked DEF Next
  <2> QED
    BY <2>1, <2>2, <2>3
<1> QED
  BY <1>1, <1>2, PTL DEF Spec

(* Then the row and the queue.  The job of a schedule that waits was not used
   up; it exists once the schedule is ENQUEUED, or a request or a boot scan is
   about to write that; who removes it has replaced or cancelled the version;
   and a worker only lets it go when the schedule does not wait, or has a try
   left. *)

Waits == sched.status \in Pending

RequestFollows(h) ==
  /\ handler[h].pc = "rescheduling" => handler[h].op = "reschedule"
  /\ handler[h].pc = "drop" /\ handler[h].op # "reschedule" => sched.status \in Terminal
  /\ handler[h].pc = "mark" /\ handler[h].version = sched.version /\ Waits =>
       job[sched.version].state # "absent"
WorkFollows(w) ==
  /\ worker[w].pc = "remark" /\ Waits => job[sched.version].state # "absent"
  /\ worker[w].pc = "done" /\ worker[w].version = sched.version => ~Waits
  /\ worker[w].pc = "throw" /\ worker[w].version = sched.version /\ Waits =>
       worker[w].made < MaxTries - 1
JobFollows ==
  Waits => /\ job[sched.version].state \notin {"completed", "failed"}
           /\ sched.status = "ENQUEUED" => job[sched.version].state # "absent"
Followed ==
  /\ JobFollows
  /\ \A h \in Handlers : RequestFollows(h)
  /\ \A w \in Workers : WorkFollows(w)

Accounted == Current /\ Safe /\ Locked /\ Followed

(* A schedule that waits has one of the versions. *)
LEMMA WaitsVersion ==
  ASSUME TypeInv, Waits
  PROVE  sched.version \in Versions
BY Parts DEF GoodSched, Waits, Pending

(* No request is about to remove the job of a schedule that waits. *)
LEMMA WaitsNotDropped ==
  ASSUME Accounted, Waits, NEW h \in Handlers, handler[h].pc = "drop"
  PROVE  handler[h].op = "reschedule" /\ handler[h].version < sched.version
BY DEF Accounted, Followed, RequestFollows, Current, Bounded, Waits, Pending, Terminal

(* A step to a status in which the schedule does not wait. *)
LEMMA NotWaiting ==
  ASSUME sched'.status \notin Pending,
         \A h \in Handlers :
           /\ handler'[h].pc = "rescheduling" => handler'[h].op = "reschedule"
           /\ handler'[h].pc = "drop" /\ handler'[h].op # "reschedule" =>
                sched'.status \in Terminal
  PROVE  Followed'
BY DEF Followed, JobFollows, RequestFollows, WorkFollows, Waits

(* The same status and version, and a job that is no further from its end. *)
LEMMA SameWaiting ==
  ASSUME Accounted, sched'.status = sched.status, sched'.version = sched.version,
         Waits => /\ job'[sched.version].state \notin {"completed", "failed"}
                  /\ job[sched.version].state # "absent" =>
                       job'[sched.version].state # "absent"
  PROVE  /\ JobFollows'
         /\ \A h \in Handlers : handler'[h] = handler[h] => RequestFollows(h)'
         /\ \A w \in Workers : worker'[w] = worker[w] => WorkFollows(w)'
BY DEF Accounted, Followed, JobFollows, RequestFollows, WorkFollows, Waits

(* Adding a job never uses one up, and afterwards there is one. *)
LEMMA AddedFollows ==
  ASSUME TypeInv, NEW v \in Versions, job' = Added(v)
  PROVE  /\ job'[v].state # "absent"
         /\ \A u \in Versions :
              /\ job[u].state # "absent" => job'[u] = job[u]
              /\ job[u].state \notin {"completed", "failed"} =>
                   job'[u].state \notin {"completed", "failed"}
<1>1. job \in [Versions -> Job] /\ NewJob.state = "waiting"
  BY Parts DEF NewJob, NoJob
<1> QED
  BY <1>1 DEF Added

LEMMA RequestFollowed ==
  ASSUME Accounted, "slowCreate" \notin Faults, "slowReconcile" \notin Faults,
         NEW h \in Handlers, Ask(h) \/ Serve(h) \/ HandlerFails(h)
  PROVE  Followed'
<1>0. /\ TypeInv /\ Bounded /\ Timely /\ Followed
      /\ handler \in [Handlers -> Handler] /\ sched \in Schedule /\ job \in [Versions -> Job]
      /\ worker' = worker /\ GoodRequest(handler[h]) /\ handler[h] \in Handler
  BY Parts DEF Accounted, Current, GoodSched, GoodRequest, Ask, Serve, Create, Read,
               Reschedule, Cancel, Drop, Add, Mark, HandlerFails
<1>1. ASSUME NEW r, handler' = [handler EXCEPT ![h] = r],
             r.pc = "rescheduling" => r.op = "reschedule",
             r.pc = "drop" => r.op = "reschedule",
             r.pc = "mark" /\ r.version = sched.version => job'[r.version].state # "absent",
             sched'.status = sched.status, sched'.version = sched.version,
             Waits => /\ job'[sched.version].state \notin {"completed", "failed"}
                      /\ job[sched.version].state # "absent" =>
                           job'[sched.version].state # "absent"
      PROVE  Followed'
  <2>1. \A g \in Handlers : handler'[g] = IF g = h THEN r ELSE handler[g]
    BY <1>0, <1>1
  <2>2. \A g \in Handlers \ {h} : RequestFollows(g)'
    BY <1>1, <2>1, SameWaiting
  <2>3. RequestFollows(h)'
    BY <1>1, <2>1 DEF RequestFollows
  <2>4. JobFollows' /\ \A w \in Workers : WorkFollows(w)'
    BY <1>0, <1>1, SameWaiting
  <2> QED
    BY <2>2, <2>3, <2>4 DEF Followed
<1>2. Waits => job[sched.version].state \notin {"completed", "failed"}
  BY <1>0 DEF Followed, JobFollows
<1>3. ASSUME handler' = [handler EXCEPT ![h] = Idle], UNCHANGED <<sched, job>>
      PROVE  Followed'
  <2>1. Idle.pc = "idle"
    BY DEF Idle
  <2> QED
    BY <1>1, <1>2, <1>3, <2>1
<1>4. CASE Create(h)
  <2>1. \A g \in Handlers \ {h} : handler'[g].pc = "idle"
    <3> SUFFICES ASSUME NEW g \in Handlers \ {h} PROVE handler[g].pc = "idle"
      BY <1>0, <1>4 DEF Create
    <3> QED
      BY <1>0, <1>4, Parts, VersionType DEF Create, Bounded, GoodRequest, ProperRequest
  <2>2. \A w \in Workers : worker[w].pc \in {"down", "ready"}
    BY <1>0, <1>4, Parts, VersionType DEF Create, Bounded, GoodWork, ProperWork
  <2>3. handler'[h].pc = "add" /\ sched'.version = 1 /\ sched'.status = "SCHEDULED"
        /\ job' = job
    BY <1>0, <1>4 DEF Create
  <2>4. job[1].state = "absent"
    BY <1>0, <1>4, SchedulerAssumption DEF Create, Bounded
  <2>5. \A g \in Handlers : RequestFollows(g)'
    BY <2>1, <2>3 DEF RequestFollows
  <2>6. \A w \in Workers : WorkFollows(w)'
    BY <1>0, <2>2 DEF WorkFollows
  <2>7. JobFollows'
    BY <2>3, <2>4 DEF JobFollows
  <2> QED
    BY <2>5, <2>6, <2>7 DEF Followed
<1>5. ASSUME NEW op, NEW pc, Read(h, op, pc),
             <<op, pc>> \in {<<"reschedule", "rescheduling">>, <<"cancel", "cancelling">>}
      PROVE  Followed'
  <2> DEFINE r == [pc |-> pc, op |-> op, version |-> sched.version]
  <2>1. handler' = [handler EXCEPT ![h] = r] /\ UNCHANGED <<sched, job>>
    BY <1>5 DEF Read
  <2>2. r.pc \notin {"drop", "mark"} /\ (r.pc = "rescheduling" => r.op = "reschedule")
    BY <1>5
  <2> HIDE DEF r
  <2> QED
    BY <1>1, <1>2, <2>1, <2>2
<1>6. CASE Reschedule(h)
  <2>1. CASE sched.version = handler[h].version /\ sched.status \in Pending
    <3> DEFINE r == [handler[h] EXCEPT !.pc = "drop"]
    <3>1. /\ sched'.version = sched.version + 1 /\ sched'.status = "SCHEDULED"
          /\ job' = job /\ handler' = [handler EXCEPT ![h] = r]
          /\ sched.version < MaxVersions
      BY <1>0, <1>6, <2>1 DEF Reschedule, Goto
    <3>2. sched.version + 1 \in Versions /\ sched.version \in Nat
      BY <1>0, <2>1, <3>1, VersionType, SchedulerAssumption DEF Pending
    <3>3. r.pc = "drop" /\ r.op = "reschedule"
      BY <1>0, <1>6 DEF Reschedule, Handler, Followed, RequestFollows
    <3> HIDE DEF r
    <3>4. \A g \in Handlers \ {h} :
            /\ handler'[g] = handler[g]
            /\ handler[g].pc = "drop" => handler[g].op = "reschedule"
            /\ handler[g].pc = "mark" => handler[g].version <= sched.version
      BY <1>0, <2>1, <3>1, WaitsNotDropped DEF Bounded, Waits
    <3>5. ASSUME NEW g \in Handlers
          PROVE  RequestFollows(g)'
      <4>1. CASE g = h
        BY <1>0, <3>1, <3>3, <4>1 DEF RequestFollows
      <4>2. CASE g # h
        BY <1>0, <3>1, <3>2, <3>4, <4>2, VersionType DEF RequestFollows, Followed
      <4> QED
        BY <4>1, <4>2
    <3>6. job[sched.version + 1].state = "absent"
      BY <1>0, <3>2 DEF Bounded
    <3>7. JobFollows'
      BY <3>1, <3>6 DEF JobFollows
    <3>8. \A w \in Workers : worker[w].pc \notin Scanning
      BY <1>6 DEF Reschedule, Reconciling, Scanning
    <3>9. \A w \in Workers : worker[w].pc \in {"done", "throw"} =>
            worker[w].version <= sched.version
      BY <1>0 DEF Bounded
    <3>10. \A w \in Workers : WorkFollows(w)'
      BY <1>0, <3>1, <3>2, <3>8, <3>9, VersionType DEF WorkFollows, Scanning
    <3> QED
      BY <3>5, <3>7, <3>10 DEF Followed
  <2>2. CASE Answer(h) /\ UNCHANGED <<sched, due>>
    BY <1>3, <1>6, <2>2 DEF Reschedule, Answer
  <2> QED
    BY <1>6, <2>1, <2>2 DEF Reschedule
<1>7. CASE Cancel(h)
  <2>1. CASE sched.status \in Pending
    <3>1. sched'.status = "CANCELLED"
      BY <1>0, <1>7, <2>1, FreedKeeps DEF Cancel
    <3>2. \A g \in Handlers : handler'[g].pc = "rescheduling" =>
            handler'[g].op = "reschedule"
      <4>1. handler'[h].pc = "drop" /\ \A g \in Handlers \ {h} : handler'[g] = handler[g]
        BY <1>0, <1>7, <2>1 DEF Cancel, Goto, Handler
      <4> QED
        BY <1>0, <4>1 DEF Followed, RequestFollows
    <3> QED
      BY <3>1, <3>2, NotWaiting DEF Pending, Terminal
  <2>2. CASE sched.status \notin Pending
    BY <1>3, <1>7, <2>2 DEF Cancel, Answer
  <2> QED
    BY <2>1, <2>2
<1>8. CASE Drop(h)
  <2> DEFINE r == IF handler[h].op = "reschedule"
                  THEN [handler[h] EXCEPT !.pc = "add", !.version = @ + 1] ELSE Idle
  <2>1. handler' = [handler EXCEPT ![h] = r] /\ sched' = sched
    BY <1>0, <1>8 DEF Drop, Answer
  <2>2. r.pc \in {"add", "idle"}
    BY <1>0 DEF Handler, Idle
  <2> HIDE DEF r
  <2>3. handler[h].pc = "drop" /\ handler[h].version \in Versions
    BY <1>0, <1>8 DEF Drop, GoodRequest, ProperRequest
  <2>4. ASSUME Waits
        PROVE  job'[sched.version] = job[sched.version]
    <3>1. handler[h].version # sched.version
      BY <1>0, <2>3, <2>4, WaitsNotDropped, VersionType
    <3> QED
      BY <1>0, <1>8, <2>3, <2>4, <3>1, WaitsVersion DEF Drop, Removed
  <2> QED
    BY <1>1, <1>2, <2>1, <2>2, <2>4
<1>9. CASE Add(h)
  <2> DEFINE r == [handler[h] EXCEPT !.pc = "mark"]
  <2>1. handler' = [handler EXCEPT ![h] = r] /\ sched' = sched
    BY <1>0, <1>9 DEF Add, Goto
  <2>2. r.pc = "mark" /\ r.version = handler[h].version
    BY <1>0 DEF Handler
  <2> HIDE DEF r
  <2>3. handler[h].version \in Versions /\ job' = Added(handler[h].version)
    BY <1>0, <1>9 DEF Add, GoodRequest, ProperRequest
  <2>4. job'[r.version].state # "absent"
    BY <1>0, <2>2, <2>3, AddedFollows
  <2>5. Waits => /\ job'[sched.version].state \notin {"completed", "failed"}
                 /\ job[sched.version].state # "absent" =>
                      job'[sched.version].state # "absent"
    BY <1>0, <1>2, <2>3, AddedFollows, WaitsVersion
  <2> QED
    BY <1>1, <2>1, <2>2, <2>4, <2>5
<1>10. CASE Mark(h)
  <2>1. handler' = [handler EXCEPT ![h] = Idle] /\ job' = job /\ handler[h].pc = "mark"
    BY <1>10 DEF Mark, Answer
  <2>2. CASE sched' = sched
    BY <1>3, <2>1, <2>2
  <2>3. CASE sched' # sched
    <3>1. /\ sched.status = "SCHEDULED" /\ sched.version = handler[h].version
          /\ sched' = [sched EXCEPT !.status = "ENQUEUED"]
      BY <1>10, <2>3 DEF Mark
    <3>2. sched'.status = "ENQUEUED" /\ sched'.version = sched.version /\ Waits
      BY <1>0, <3>1 DEF Schedule, Waits, Pending
    <3>3. job[sched.version].state \notin {"absent", "completed", "failed"}
      BY <1>0, <1>2, <2>1, <3>1, <3>2 DEF Followed, RequestFollows
    <3>4. JobFollows'
      BY <2>1, <3>2, <3>3 DEF JobFollows
    <3>5. ASSUME NEW g \in Handlers
          PROVE  RequestFollows(g)'
      <4>1. CASE g = h
        BY <1>0, <2>1, <4>1 DEF RequestFollows, Idle
      <4>2. CASE g # h
        <5>1. handler'[g] = handler[g]
          BY <1>0, <2>1, <4>2
        <5> QED
          BY <1>0, <2>1, <3>1, <3>2, <5>1
             DEF Followed, RequestFollows, Waits, Pending, Terminal
      <4> QED
        BY <4>1, <4>2
    <3>6. \A w \in Workers : WorkFollows(w)'
      BY <1>0, <2>1, <3>2 DEF Followed, WorkFollows, Waits
    <3> QED
      BY <3>4, <3>5, <3>6 DEF Followed
  <2> QED
    BY <2>2, <2>3
<1>11. CASE HandlerFails(h)
  BY <1>3, <1>11 DEF HandlerFails, Answer
<1> QED
  BY <1>4, <1>5, <1>6, <1>7, <1>8, <1>9, <1>10, <1>11 DEF Ask, Serve

(* A worker that executes and does not own the row finds it flagged. *)
LEMMA RunningRow ==
  ASSUME Accounted, NEW w \in Workers, worker[w].pc \in {"prepare", "execute"}
  PROVE  /\ ~Waits
         /\ Owns(w) \/ sched.status \in Terminal
BY DEF Accounted, Safe, ExecutionAccounted, Running, Owns, Waits, Pending, Terminal

LEMMA WorkFollowed ==
  ASSUME Accounted, NEW w \in Workers,
         "acquisitionError" \notin Faults, "slowReconcile" \notin Faults,
         Reconcile(w) \/ Process(w) \/ Break(w)
  PROVE  Followed'
<1>0. /\ TypeInv /\ Bounded /\ Timely /\ Followed /\ Locked
      /\ worker \in [Workers -> Worker] /\ sched \in Schedule /\ job \in [Versions -> Job]
      /\ worker[w] \in Worker
  BY Parts DEF Accounted, Current, GoodSched
<1>h. handler' = handler
  BY DEF Reconcile, Process, Break, Boot, Join, FlagLate, FlagOrphan, CheckJob, Readd, Remark,
         Take, Look, Acquire, Prepare, Finalize, Settle, Retry, Complete, Fail, Listen,
         AcquisitionFails, WriteFails, ReconcileFails, Crash
<1>1. ASSUME NEW r, worker' = [worker EXCEPT ![w] = r],
             r.pc = "remark" /\ Waits => job'[sched.version].state # "absent",
             r.pc = "done" /\ r.version = sched.version => ~Waits,
             r.pc = "throw" /\ r.version = sched.version /\ Waits => r.made < MaxTries - 1,
             sched'.status = sched.status, sched'.version = sched.version,
             Waits => /\ job'[sched.version].state \notin {"completed", "failed"}
                      /\ job[sched.version].state # "absent" =>
                           job'[sched.version].state # "absent"
      PROVE  Followed'
  <2>1. \A x \in Workers : worker'[x] = IF x = w THEN r ELSE worker[x]
    BY <1>0, <1>1
  <2>2. \A x \in Workers \ {w} : WorkFollows(x)'
    BY <1>1, <2>1, SameWaiting
  <2>3. WorkFollows(w)'
    BY <1>1, <2>1 DEF WorkFollows, Waits
  <2>4. JobFollows' /\ \A h \in Handlers : RequestFollows(h)'
    BY <1>h, <1>1, SameWaiting
  <2> QED
    BY <2>2, <2>3, <2>4 DEF Followed
<1>2. Waits => job[sched.version].state \notin {"completed", "failed"}
  BY <1>0 DEF Followed, JobFollows
<1>3. ASSUME sched'.status \in Terminal
      PROVE  Followed'
  <2>1. \A h \in Handlers : handler'[h].pc = "rescheduling" =>
          handler'[h].op = "reschedule"
    BY <1>0, <1>h DEF Followed, RequestFollows
  <2> QED
    BY <1>3, <2>1, NotWaiting DEF Pending, Terminal
<1>4. ASSUME NEW from, NEW to, Step(w, from, to), UNCHANGED <<sched, job>>,
             to = "remark" /\ Waits => job[sched.version].state # "absent",
             to = "done" /\ worker[w].version = sched.version => ~Waits,
             to = "throw" /\ worker[w].version = sched.version => ~Waits
      PROVE  Followed'
  <2>1. CASE to = "ready"
    <3>1. worker' = [worker EXCEPT ![w] = Ready] /\ Ready.pc = "ready"
      BY <1>4, <2>1 DEF Step, Ready, Down
    <3> QED
      BY <1>1, <1>2, <1>4, <3>1
  <2>2. CASE to # "ready"
    <3> DEFINE r == [worker[w] EXCEPT !.pc = to]
    <3>1. r.pc = to /\ r.version = worker[w].version
      BY <1>0 DEF Worker
    <3>2. worker' = [worker EXCEPT ![w] = r]
      BY <1>0, <1>4, <2>2 DEF Step
    <3> HIDE DEF r
    <3> QED
      BY <1>1, <1>2, <1>4, <3>1, <3>2
  <2> QED
    BY <2>1, <2>2
<1>5. ASSUME NEW s
      PROVE  /\ Freed(s).status = s /\ [Freed(s) EXCEPT !.token = "none"].status = s
             /\ [Freed(s) EXCEPT !.token = "none"].version = sched.version
  BY <1>0, FreedKeeps
<1>6. CASE Boot(w)
  <2> DEFINE next == IF sched.status \in Pending
                     THEN IF due = "late" THEN "late" ELSE "check"
                     ELSE IF sched.status = "PROCESSING" /\ sched.lease # "live"
                          THEN "orphan" ELSE "ready"
             r == IF next = "ready" THEN Ready
                  ELSE [pc |-> next, version |-> sched.version, made |-> 0]
  <2>1. worker' = [worker EXCEPT ![w] = r] /\ UNCHANGED <<sched, job>>
    BY <1>6 DEF Boot
  <2>2. r.pc \notin {"remark", "done", "throw"}
    BY DEF Ready, Down
  <2> HIDE DEF r
  <2> QED
    BY <1>1, <1>2, <2>1, <2>2
<1>7. CASE FlagLate(w) \/ FlagOrphan(w) \/ Listen(w)
  <2>1. PICK from : Step(w, from, "ready")
    BY <1>7 DEF FlagLate, FlagOrphan, Listen
  <2>2. job' = job /\ (sched' = sched \/ sched'.status \in Terminal)
    BY <1>5, <1>7 DEF FlagLate, FlagOrphan, Listen, Terminal
  <2> QED
    BY <1>3, <1>4, <2>1, <2>2
<1>8. CASE CheckJob(w)
  <2>1. PICK to \in {"ready", "readd"} : Step(w, "check", to)
    BY <1>8 DEF CheckJob
  <2> QED
    BY <1>4, <1>8, <2>1 DEF CheckJob
<1>9. CASE Readd(w)
  <2>1. PICK to \in {"ready", "remark"} : Step(w, "readd", to)
    BY <1>9 DEF Readd
  <2>2. worker[w].version = sched.version /\ worker[w].version \in Versions
    BY <1>0, <2>1, Parts DEF Step, Timely, Scanning, GoodWork, ProperWork
  <2>3. /\ job'[sched.version].state # "absent"
        /\ job[sched.version].state \notin {"completed", "failed"} =>
             job'[sched.version].state \notin {"completed", "failed"}
    BY <1>0, <1>9, <2>2, AddedFollows DEF Readd
  <2> DEFINE r == IF to = "ready" THEN Ready ELSE [worker[w] EXCEPT !.pc = to]
  <2>4. worker' = [worker EXCEPT ![w] = r] /\ sched' = sched
    BY <1>0, <1>9, <2>1 DEF Step, Readd
  <2>5. r.pc \in {"ready", "remark"}
    BY <1>0 DEF Ready, Down, Worker
  <2> HIDE DEF r
  <2> QED
    BY <1>1, <1>2, <2>3, <2>4, <2>5
<1>10. CASE Remark(w)
  <2>1. Step(w, "remark", "ready") /\ job' = job /\ worker[w].pc = "remark"
    BY <1>10 DEF Remark, Step
  <2>2. CASE sched' = sched
    BY <1>4, <2>1, <2>2
  <2>3. CASE sched' # sched
    <3>1. sched.status = "SCHEDULED" /\ sched' = [sched EXCEPT !.status = "ENQUEUED"]
      BY <1>10, <2>3 DEF Remark
    <3>2. sched'.status = "ENQUEUED" /\ sched'.version = sched.version /\ Waits
      BY <1>0, <3>1 DEF Schedule, Waits, Pending
    <3>3. job[sched.version].state \notin {"absent", "completed", "failed"}
      BY <1>0, <1>2, <2>1, <3>2 DEF Followed, WorkFollows
    <3>4. JobFollows'
      BY <2>1, <3>2, <3>3 DEF JobFollows
    <3>5. \A h \in Handlers : RequestFollows(h)'
      BY <1>0, <1>h, <2>1, <3>1, <3>2
         DEF Followed, RequestFollows, Waits, Pending, Terminal
    <3>6. worker' = [worker EXCEPT ![w] = Ready] /\ Ready.pc = "ready"
      BY <2>1 DEF Step, Ready, Down
    <3>7. \A x \in Workers : WorkFollows(x)'
      BY <1>0, <2>1, <3>2, <3>6 DEF Followed, WorkFollows, Waits
    <3> QED
      BY <3>4, <3>5, <3>7 DEF Followed
  <2> QED
    BY <2>2, <2>3
<1>11. ASSUME NEW v \in Versions, Take(w, v)
       PROVE  Followed'
  <2> DEFINE r == [pc |-> "look", version |-> v, made |-> job[v].made]
  <2>1. worker' = [worker EXCEPT ![w] = r] /\ sched' = sched
    BY <1>11 DEF Take
  <2>2. r.pc = "look"
    OBVIOUS
  <2> HIDE DEF r
  <2>3. /\ \A u \in Versions \ {v} : job'[u] = job[u]
        /\ job'[v].state = "active"
    BY <1>0, <1>11 DEF Take, Job
  <2> QED
    BY <1>0, <1>1, <1>2, <2>1, <2>2, <2>3, WaitsVersion
<1>12. CASE Look(w)
  <2>1. PICK to \in {"done", "acquire"} : Step(w, "look", to)
    BY <1>12 DEF Look
  <2>2. job' = job
    BY <1>12 DEF Look
  <2>3. CASE due = "late" /\ Eligible(w)
    <3>1. sched'.status \in Terminal
      BY <1>5, <1>12, <2>3 DEF Look, Eligible, Pending, Terminal
    <3> QED
      BY <1>3, <3>1
  <2>4. CASE ~(due = "late" /\ Eligible(w))
    <3>1. sched' = sched
      BY <1>12, <2>4 DEF Look
    <3>2. ASSUME Waits, worker[w].version = sched.version
          PROVE  to # "done"
      <4>1. due # "late" /\ sched.status \notin Terminal
        BY <2>4, <3>2 DEF Eligible, Waits, Pending, Terminal
      <4>2. Step(w, "look", "acquire")
        BY <1>12, <3>2, <4>1 DEF Look
      <4>3. worker'[w].pc = "acquire" /\ (to = "done" => worker'[w].pc = "done")
        BY <1>0, <2>1, <4>2 DEF Step, Worker
      <4> QED
        BY <4>3
    <3> QED
      BY <1>4, <2>1, <2>2, <3>1, <3>2
  <2> QED
    BY <2>3, <2>4
<1>13. CASE Acquire(w)
  <2>1. CASE Eligible(w)
    <3>1. sched'.status = "PROCESSING" /\ Waits
      BY <1>0, <1>13, <2>1 DEF Acquire, Acquired, Schedule, Eligible, Waits
    <3>2. \A h \in Handlers :
            /\ handler[h].pc = "rescheduling" => handler[h].op = "reschedule"
            /\ handler[h].pc = "drop" => handler[h].op = "reschedule"
      BY <1>0, <3>1, WaitsNotDropped DEF Followed, RequestFollows
    <3> QED
      BY <1>h, <3>1, <3>2, NotWaiting DEF Pending
  <2>2. CASE ~Eligible(w)
    <3>1. Step(w, "acquire", "done") /\ UNCHANGED <<sched, job>>
      BY <1>13, <2>2 DEF Acquire
    <3>2. worker[w].version = sched.version => ~Waits
      BY <2>2 DEF Eligible, Waits
    <3> QED
      BY <1>4, <3>1, <3>2
  <2> QED
    BY <2>1, <2>2
<1>14. ASSUME NEW from \in {"prepare", "execute"}, NEW statuses \in SUBSET Terminal,
              Settle(w, from, statuses)
       PROVE  Followed'
  <2>1. Step(w, from, "done") /\ job' = job /\ (sched' = sched \/ sched'.status \in Terminal)
    BY <1>5, <1>14 DEF Settle
  <2>2. ~Waits
    BY <2>1, RunningRow DEF Step
  <2> QED
    BY <1>3, <1>4, <2>1, <2>2
<1>15. CASE Prepare(w)
  <2>1. CASE Step(w, "prepare", "execute") /\ UNCHANGED <<sched, due, job, handler, crashes>>
    BY <1>4, <2>1
  <2>2. CASE Settle(w, "prepare", {"FAILED", "REQUIRES_RECONCILIATION"})
    BY <1>14, <2>2 DEF Terminal
  <2> QED
    BY <1>15, <2>1, <2>2 DEF Prepare
<1>16. CASE Finalize(w)
  BY <1>14, <1>16 DEF Finalize, Terminal
<1>17. CASE Retry(w)
  <2>1. /\ Step(w, "execute", "throw") /\ worker[w].pc = "execute" /\ job' = job
        /\ worker[w].made < MaxTries - 1
    BY <1>17 DEF Retry, Step
  <2>2. CASE ~Owns(w)
    <3>1. sched' = sched /\ ~Waits
      BY <1>17, <2>1, <2>2, RunningRow DEF Retry
    <3> QED
      BY <1>4, <2>1, <3>1
  <2>3. CASE Owns(w)
    <3>1. sched'.status = "ENQUEUED" /\ sched'.version = sched.version
      BY <1>5, <1>17, <2>3 DEF Retry
    <3>2. /\ sched.version = worker[w].version /\ sched.status = "PROCESSING"
          /\ \A x \in Workers : worker[x].pc \in Busy /\ worker[x].version = sched.version =>
               x = w
          /\ job[sched.version].state = "active"
      BY <1>0, <2>1, <2>3 DEF Owns, Locked, Holds, Busy
    <3>3. JobFollows'
      BY <2>1, <3>1, <3>2 DEF JobFollows
    <3>4. \A h \in Handlers : RequestFollows(h)'
      BY <1>0, <1>h, <2>1, <3>1, <3>2 DEF Followed, RequestFollows, Terminal
    <3> DEFINE r == [worker[w] EXCEPT !.pc = "throw"]
    <3>5. r.pc = "throw" /\ r.made = worker[w].made
      BY <1>0 DEF Worker
    <3>6. \A x \in Workers : worker'[x] = IF x = w THEN r ELSE worker[x]
      BY <1>0, <2>1 DEF Step
    <3> HIDE DEF r
    <3>7. \A x \in Workers : WorkFollows(x)'
      BY <1>0, <2>1, <3>1, <3>2, <3>5, <3>6 DEF WorkFollows, Busy
    <3> QED
      BY <3>3, <3>4, <3>7 DEF Followed
  <2> QED
    BY <2>2, <2>3
<1>18. CASE Complete(w)
  <2>1. /\ Step(w, "done", "ready") /\ worker[w].pc = "done" /\ sched' = sched
        /\ worker' = [worker EXCEPT ![w] = Ready] /\ Ready.pc = "ready"
    BY <1>18 DEF Complete, Step, Ready, Down
  <2>2. Waits => worker[w].version # sched.version
    BY <1>0, <2>1 DEF Followed, WorkFollows
  <2>3. Waits => job'[sched.version] = job[sched.version]
    BY <1>0, <1>18, <2>2, WaitsVersion DEF Complete
  <2> QED
    BY <1>1, <1>2, <2>1, <2>3
<1>19. CASE Fail(w)
  <2> DEFINE v == worker[w].version
  <2>1. worker[w].pc = "throw" /\ sched' = sched
    BY <1>19 DEF Fail, Step
  <2>2. v \in Versions /\ Locks(w) /\ job[v].made = worker[w].made
    BY <1>0, <2>1, BusyVersion DEF Locked, Holds, Locks, Busy
  <2>3. \A u \in Versions \ {v} : job'[u] = job[u]
    BY <1>0, <1>19 DEF Fail
  <2>4. ASSUME Waits, v = sched.version
        PROVE  job'[v].state = "waiting"
    <3>1. worker[w].made < MaxTries - 1
      BY <1>0, <2>1, <2>4 DEF Followed, WorkFollows
    <3>2. job[v].made \in Nat
      BY <1>0, <2>2, SchedulerAssumption DEF Job
    <3>3. ~(job[v].made + 1 >= MaxTries)
      BY <2>2, <3>1, <3>2, SchedulerAssumption
    <3> QED
      BY <1>0, <1>19, <2>2, <3>3 DEF Fail
  <2>5. Waits => /\ job'[sched.version].state \notin {"completed", "failed"}
                 /\ job[sched.version].state # "absent" =>
                      job'[sched.version].state # "absent"
    BY <1>0, <1>2, <2>3, <2>4, WaitsVersion
  <2>6. PICK to \in {"ready", "listen"} : Step(w, "throw", to)
    BY <1>19 DEF Fail
  <2>7. PICK r : worker' = [worker EXCEPT ![w] = r] /\ r.pc \in {"ready", "listen"}
    <3> DEFINE r == IF to = "ready" THEN Ready ELSE [worker[w] EXCEPT !.pc = to]
    <3>1. worker' = [worker EXCEPT ![w] = r]
      BY <1>0, <2>6 DEF Step
    <3>2. r.pc \in {"ready", "listen"}
      BY <1>0 DEF Ready, Down, Worker
    <3> QED
      BY <3>1, <3>2
  <2> QED
    BY <1>1, <2>1, <2>5, <2>7
<1>20. CASE AcquisitionFails(w)
  BY <1>20 DEF AcquisitionFails
<1>21. CASE WriteFails(w)
  <2>1. /\ worker[w].pc \in {"prepare", "execute"} /\ UNCHANGED <<sched, job>>
        /\ Step(w, worker[w].pc, "throw")
    BY <1>0, <1>21 DEF WriteFails, Step
  <2>2. ~Waits
    BY <2>1, RunningRow
  <2> QED
    BY <1>4, <2>1, <2>2
<1>22. CASE Join(w) \/ ReconcileFails(w) \/ Crash(w)
  <2>1. PICK r \in {Ready, Down} : worker' = [worker EXCEPT ![w] = r]
    BY <1>22 DEF Join, ReconcileFails, Crash
  <2>2. r.pc \in {"ready", "down"} /\ UNCHANGED <<sched, job>>
    BY <1>22 DEF Join, ReconcileFails, Crash, Ready, Down
  <2> QED
    BY <1>1, <1>2, <2>1, <2>2
<1> QED
  BY <1>6, <1>7, <1>8, <1>9, <1>10, <1>11, <1>12, <1>13, <1>15, <1>16, <1>17, <1>18,
     <1>19, <1>20, <1>21, <1>22 DEF Reconcile, Process, Break

LEMMA WorldFollowed ==
  ASSUME Accounted, "lostLock" \notin Faults,
         (\E v \in Versions : Stall(v)) \/ Tick \/ LeaseExpires
  PROVE  Followed'
<1>0. /\ TypeInv /\ Followed /\ Locked /\ sched \in Schedule /\ job \in [Versions -> Job]
      /\ Waits => job[sched.version].state \notin {"completed", "failed"}
  BY Parts DEF Accounted, Current, GoodSched, Followed, JobFollows
<1>1. worker' = worker /\ handler' = handler
  BY DEF Stall, Tick, LeaseExpires
<1>2. sched'.status = sched.status /\ sched'.version = sched.version
  BY <1>0 DEF Stall, Tick, LeaseExpires, Schedule
<1>3. Waits => /\ job'[sched.version].state \notin {"completed", "failed"}
               /\ job[sched.version].state # "absent" => job'[sched.version].state # "absent"
  <2>1. ASSUME NEW v \in Versions, Stall(v)
        PROVE  \A u \in Versions : job'[u] = job[u] \/ job'[u].state = "waiting"
    BY <1>0, <2>1, OnlyOrphansStall
  <2>2. CASE Tick \/ LeaseExpires
    BY <1>0, <2>2 DEF Tick, LeaseExpires
  <2> QED
    BY <1>0, <2>1, <2>2, WaitsVersion
<1> QED
  BY <1>1, <1>2, <1>3, SameWaiting DEF Followed

(* So an ENQUEUED schedule has a job that waits for a worker, or that a worker
   has not decided to let go (createSchedule, rescheduleSchedule, cancelSchedule
   and processScheduleJob, over the two stores no transaction spans): whatever
   requests do to it at the same time and whichever of them die half way, as
   long as locks are kept, acquisitions do not throw and one worker dies. *)
THEOREM PendingIsFollowed ==
  ASSUME Faults \subseteq {"handlerFails", "dbFailure"}, MaxCrashes <= 1
  PROVE  Spec => []PendingHasJob
<1>0. {"lostLock", "acquisitionError", "slowCreate", "slowReconcile"} \cap Faults = {}
  OBVIOUS
<1>1. Init => Followed
  BY DEF Init, Followed, JobFollows, RequestFollows, WorkFollows, Waits, Pending, Idle, Down
<1>2. Accounted /\ [Next]_vars => Followed'
  <2> SUFFICES ASSUME Accounted, [Next]_vars PROVE Followed'
    OBVIOUS
  <2>1. CASE UNCHANGED vars
    BY <2>1 DEF vars, Accounted, Followed, JobFollows, RequestFollows, WorkFollows, Waits
  <2>2. CASE Next
    BY <1>0, <2>2, RequestFollowed, WorkFollowed, WorldFollowed DEF Next
  <2> QED
    BY <2>1, <2>2
<1>3. Accounted => PendingHasJob
  <2> SUFFICES ASSUME Accounted, sched.status = "ENQUEUED"
               PROVE  LET j == job[sched.version] IN
                      \/ j.state = "waiting"
                      \/ /\ j.state = "active"
                         /\ j.owner \in Workers
                         /\ worker[j.owner].version = sched.version =>
                              worker[j.owner].pc # "done"
    BY DEF PendingHasJob
  <2>1. TypeInv /\ Locked /\ Followed /\ Waits
    BY DEF Accounted, Current, Waits, Pending
  <2>2. sched.version \in Versions /\ job \in [Versions -> Job]
    BY <2>1, WaitsVersion, Parts
  <2>3. job[sched.version].state \in {"waiting", "active"}
    BY <2>1, <2>2 DEF Followed, JobFollows, Job
  <2> QED
    BY <2>1, <2>2, <2>3 DEF Locked, Followed, WorkFollows
<1>4. Accounted <=> Current /\ (TypeInv /\ Safe) /\ (TypeInv /\ Locked) /\ Followed
  BY DEF Accounted, Current
<1>5. Spec => []Current
  BY <1>0, CurrentInductive
<1>6. Spec => [](TypeInv /\ Safe)
  BY <1>0, SafeInductive
<1>7. Spec => [](TypeInv /\ Locked)
  BY <1>0, LockedInductive
<1> QED
  BY <1>1, <1>2, <1>3, <1>4, <1>5, <1>6, <1>7, PTL DEF Spec
=============================================================================
