----------------------------- MODULE Scheduler -----------------------------
(***************************************************************************)
(* One scheduled publication: the create, reschedule and cancel handlers   *)
(* of the API (scheduler.ts), the worker process that runs its jobs        *)
(* (scheduler-worker.ts) and the BullMQ queue between them                 *)
(* (scheduler-queue.ts).  PostgreSQL holds the schedule, Redis the jobs,   *)
(* and no transaction spans the two.                                       *)
(*                                                                         *)
(* Rows of different schedules never meet in these statements, so one      *)
(* schedule is enough.  Time is abstracted to what the code compares:      *)
(* whether the scheduled instant is in the future, due, or more than 15    *)
(* minutes ago, and whether the 5 minute lease is still in the future.     *)
(*                                                                         *)
(* A worker process scans once at its start and then runs five jobs at     *)
(* once (concurrency, scheduler-worker.ts:866).  A worker here is one of   *)
(* these five: it starts with a scan of its process or, in a process that  *)
(* has scanned, without.  A process that dies is several of them dying.    *)
(***************************************************************************)
EXTENDS Integers, FiniteSets

CONSTANTS
  Handlers,     \* concurrent API requests
  Workers,      \* what works on jobs: each of the jobs a process runs at once
  MaxVersions,  \* bound: versions of the schedule, one more per reschedule
  MaxTries,     \* opts.attempts of a job
  MaxCrashes,   \* bound: how often a worker dies
  Faults        \* what else may go wrong, see below

(***************************************************************************)
(* "handlerFails"     an API request dies, or loses Redis or the database, *)
(*                    between two of its steps                             *)
(* "lostLock"         BullMQ takes the lock of a worker that still runs    *)
(* "acquisitionError" the acquisition transaction throws                   *)
(* "dbFailure"        a later transaction of the worker throws             *)
(* "slowCreate"       a create request that was overtaken by a worker, a   *)
(*                    cancel or a reschedule still does its last write     *)
(* "slowReconcile"    a reschedule commits between the read of the boot    *)
(*                    scan and what the scan does about it                 *)
(***************************************************************************)
AllFaults == {"handlerFails", "lostLock", "acquisitionError", "dbFailure",
              "slowCreate", "slowReconcile"}

ASSUME SchedulerAssumption ==
  /\ "none" \notin Workers
  /\ MaxVersions \in Nat \ {0}
  /\ MaxTries \in Nat \ {0}
  /\ MaxCrashes \in Nat
  /\ Faults \subseteq AllFaults

Versions == 1..MaxVersions

VARIABLES
  sched,    \* the row of PublicationSchedule
  due,      \* scheduledForUtc against the clock
  job,      \* [Versions -> the BullMQ job sched:<id>:v<version>]
  handler,  \* [Handlers -> where an API request is]
  worker,   \* [Workers -> where a worker is]
  crashes   \* how many times a worker died

vars == <<sched, due, job, handler, worker, crashes>>

-----------------------------------------------------------------------------
(* The row and the job *)

Pending  == {"SCHEDULED", "ENQUEUED"}
Terminal == {"PUBLISHED", "PARTIALLY_PUBLISHED", "FAILED", "CANCELLED",
             "DEAD_LETTER", "REQUIRES_RECONCILIATION"}
Schedule == [status: Pending \cup Terminal \cup {"NONE", "PROCESSING"},
             version: 0..MaxVersions,
             token: Workers \cup {"none"},
             lease: {"none", "live", "expired"}]

Job    == [state: {"absent", "waiting", "active", "completed", "failed"},
           made: 0..MaxTries, stalls: 0..1, owner: Workers \cup {"none"}]
NoJob  == [state |-> "absent", made |-> 0, stalls |-> 0, owner |-> "none"]
NewJob == [NoJob EXCEPT !.state = "waiting"]

(* queue.add: an id that exists, even as a finished job, is left alone. *)
Added(v)   == IF job[v].state = "absent" THEN [job EXCEPT ![v] = NewJob] ELSE job
(* getJob(id) and job.remove(): refused for a job a worker has locked. *)
Removed(v) == IF job[v].state = "active" THEN job ELSE [job EXCEPT ![v] = NoJob]

Freed(status)  == [sched EXCEPT !.status = status, !.lease = "none"]

-----------------------------------------------------------------------------
(* API requests *)

Handler == [pc: {"idle", "rescheduling", "cancelling", "drop", "add", "mark"},
            op: {"none", "create", "reschedule", "cancel"},
            version: 0..MaxVersions]
Idle    == [pc |-> "idle", op |-> "none", version |-> 0]

Goto(h, pc)   == handler' = [handler EXCEPT ![h].pc = pc]
Answer(h)     == handler' = [handler EXCEPT ![h] = Idle]

(* POST /schedules: the row, then the job, then ENQUEUED. *)
Create(h) ==
  /\ handler[h].pc = "idle" /\ sched.status = "NONE"
  /\ sched' = [status |-> "SCHEDULED", version |-> 1, token |-> "none", lease |-> "none"]
  /\ handler' = [handler EXCEPT ![h] = [pc |-> "add", op |-> "create", version |-> 1]]
  /\ UNCHANGED <<due, job, worker, crashes>>

(* POST /reschedule and POST /cancel read the row and, unless it is in
   processing or final, go on with the version they read. *)
Read(h, op, pc) ==
  /\ handler[h].pc = "idle" /\ sched.status \in Pending
  /\ handler' = [handler EXCEPT ![h] = [pc |-> pc, op |-> op, version |-> sched.version]]
  /\ UNCHANGED <<sched, due, job, worker, crashes>>

Scanning    == {"late", "orphan", "check", "readd", "remark"}
Reconciling == \E w \in Workers : worker[w].pc \in Scanning

(* The compare-and-set of a reschedule: version and status. *)
Reschedule(h) ==
  LET v == handler[h].version IN
  /\ handler[h].pc = "rescheduling"
  /\ Reconciling => "slowReconcile" \in Faults
  /\ IF sched.version = v /\ sched.status \in Pending
     THEN /\ v < MaxVersions
          /\ sched' = [status |-> "SCHEDULED", version |-> v + 1,
                       token |-> "none", lease |-> "none"]
          /\ due' = "future"
          /\ Goto(h, "drop")
     ELSE Answer(h) /\ UNCHANGED <<sched, due>>
  /\ UNCHANGED <<job, worker, crashes>>

(* Variant with a bug: the compare-and-set of a cancel skips the status. *)
CancelWithoutStatus(h) ==
  /\ handler[h].pc = "cancelling"
  /\ sched' = [Freed("CANCELLED") EXCEPT !.token = "none"]
  /\ Goto(h, "drop")
  /\ UNCHANGED <<due, job, worker, crashes>>

(* The compare-and-set of a cancel: only the status. *)
Cancel(h) ==
  /\ handler[h].pc = "cancelling"
  /\ IF sched.status \in Pending
     THEN /\ sched' = [Freed("CANCELLED") EXCEPT !.token = "none"]
          /\ Goto(h, "drop")
     ELSE Answer(h) /\ sched' = sched
  /\ UNCHANGED <<due, job, worker, crashes>>

(* Both remove the job of the version they had read. *)
Drop(h) ==
  /\ handler[h].pc = "drop"
  /\ job' = Removed(handler[h].version)
  /\ IF handler[h].op = "reschedule"
     THEN handler' = [handler EXCEPT ![h].pc = "add", ![h].version = @ + 1]
     ELSE Answer(h)
  /\ UNCHANGED <<sched, due, worker, crashes>>

Add(h) ==
  /\ handler[h].pc = "add"
  /\ job' = Added(handler[h].version)
  /\ Goto(h, "mark")
  /\ UNCHANGED <<sched, due, worker, crashes>>

(* Variant with a bug: a reschedule does not compare the version again. *)
MarkAnyVersion(h) ==
  /\ handler[h].pc = "mark"
  /\ sched' = IF sched.status = "SCHEDULED"
              THEN [sched EXCEPT !.status = "ENQUEUED"] ELSE sched
  /\ Answer(h)
  /\ UNCHANGED <<due, job, worker, crashes>>

(* ENQUEUED: a create writes it by id alone (an update of one existing row),
   a reschedule compares. *)
Mark(h) ==
  LET current == sched.status = "SCHEDULED" /\ sched.version = handler[h].version IN
  /\ handler[h].pc = "mark" /\ sched.status # "NONE"
  /\ handler[h].op = "create" => current \/ "slowCreate" \in Faults
  /\ sched' = IF handler[h].op = "create" \/ current
              THEN [sched EXCEPT !.status = "ENQUEUED"] ELSE sched
  /\ Answer(h)
  /\ UNCHANGED <<due, job, worker, crashes>>

HandlerFails(h) ==
  /\ "handlerFails" \in Faults
  /\ handler[h].pc # "idle"
  /\ Answer(h)
  /\ UNCHANGED <<sched, due, job, worker, crashes>>

-----------------------------------------------------------------------------
(* runStartupReconciliation *)

Worker == [pc: {"down", "late", "orphan", "check", "readd", "remark", "ready", "look",
                "acquire", "prepare", "execute", "done", "throw", "listen"},
           version: 0..MaxVersions, made: 0..MaxTries]
Down   == [pc |-> "down", version |-> 0, made |-> 0]
Ready  == [Down EXCEPT !.pc = "ready"]

Step(w, from, to) ==
  /\ worker[w].pc = from
  /\ worker' = [worker EXCEPT ![w] = IF to = "ready" THEN Ready ELSE [@ EXCEPT !.pc = to]]

(* discover_reconcilable_schedules, and what the scan makes of the row. *)
Boot(w) ==
  /\ worker[w].pc = "down"
  /\ LET next == IF sched.status \in Pending
                 THEN IF due = "late" THEN "late" ELSE "check"
                 ELSE IF sched.status = "PROCESSING" /\ sched.lease # "live"
                      THEN "orphan" ELSE "ready"
     IN worker' = [worker EXCEPT ![w] =
                     IF next = "ready" THEN Ready
                     ELSE [pc |-> next, version |-> sched.version, made |-> 0]]
  /\ UNCHANGED <<sched, due, job, handler, crashes>>

(* One more job at once of a process whose scan is over. *)
Join(w) ==
  /\ worker[w].pc = "down"
  /\ \E x \in Workers : worker[x].pc \notin Scanning \cup {"down"}
  /\ worker' = [worker EXCEPT ![w] = Ready]
  /\ UNCHANGED <<sched, due, job, handler, crashes>>

(* More than 15 minutes late: flagged by status, whatever the version. *)
FlagLate(w) ==
  /\ Step(w, "late", "ready")
  /\ sched' = IF sched.status \in Pending THEN Freed("REQUIRES_RECONCILIATION") ELSE sched
  /\ UNCHANGED <<due, job, handler, crashes>>

(* A lease that ended: flagged by status, unless an attempt has a lease. *)
FlagOrphan(w) ==
  /\ Step(w, "orphan", "ready")
  /\ \/ sched.status = "PROCESSING" /\ sched' = Freed("REQUIRES_RECONCILIATION")
     \/ sched' = sched
  /\ UNCHANGED <<due, job, handler, crashes>>

CheckJob(w) ==
  /\ Step(w, "check", IF job[worker[w].version].state = "absent" THEN "readd" ELSE "ready")
  /\ UNCHANGED <<sched, due, job, handler, crashes>>

(* Variant with a bug: a missing job is only noted in the row. *)
ReaddWithoutJob(w) ==
  /\ Step(w, "readd", IF sched.status = "ENQUEUED" THEN "ready" ELSE "remark")
  /\ UNCHANGED <<sched, due, job, handler, crashes>>

(* A job that Redis lost is added again with the version of the scan. *)
Readd(w) ==
  /\ Step(w, "readd", IF sched.status = "ENQUEUED" THEN "ready" ELSE "remark")
  /\ job' = Added(worker[w].version)
  /\ UNCHANGED <<sched, due, handler, crashes>>

Remark(w) ==
  /\ Step(w, "remark", "ready")
  /\ sched' = IF sched.status = "SCHEDULED"
              THEN [sched EXCEPT !.status = "ENQUEUED"] ELSE sched
  /\ UNCHANGED <<due, job, handler, crashes>>

(* main.ts logs a reconciliation that throws and starts the worker anyway. *)
ReconcileFails(w) ==
  /\ "dbFailure" \in Faults
  /\ worker[w].pc \in Scanning
  /\ worker' = [worker EXCEPT ![w] = Ready]
  /\ UNCHANGED <<sched, due, job, handler, crashes>>

-----------------------------------------------------------------------------
(* processScheduleJob *)

(* BullMQ hands a job over once its delay has passed. *)
Take(w, v) ==
  /\ worker[w].pc = "ready"
  /\ job[v].state = "waiting"
  /\ v = sched.version => due # "future"
  /\ job' = [job EXCEPT ![v].state = "active", ![v].owner = w]
  /\ worker' = [worker EXCEPT ![w] = [pc |-> "look", version |-> v, made |-> job[v].made]]
  /\ UNCHANGED <<sched, due, handler, crashes>>

Eligible(w) == sched.version = worker[w].version /\ sched.status \in Pending

(* Variant with a bug: a job of an earlier version may flag as well. *)
LookAnyVersion(w) ==
  LET given == sched.status \in Terminal \ {"FAILED"}
      late  == ~given /\ due = "late" IN
  /\ Step(w, "look", IF given \/ late THEN "done" ELSE "acquire")
  /\ sched' = IF late /\ sched.status \in Pending
              THEN Freed("REQUIRES_RECONCILIATION") ELSE sched
  /\ UNCHANGED <<due, job, handler, crashes>>

(* The read of the acquisition transaction and the checks on it. *)
Look(w) ==
  LET given == sched.version # worker[w].version \/ sched.status \in Terminal \ {"FAILED"}
      late  == ~given /\ due = "late" IN
  /\ Step(w, "look", IF given \/ late THEN "done" ELSE "acquire")
  /\ sched' = IF late /\ Eligible(w) THEN Freed("REQUIRES_RECONCILIATION") ELSE sched
  /\ UNCHANGED <<due, job, handler, crashes>>

Acquired(w) == [sched EXCEPT !.status = "PROCESSING", !.token = w, !.lease = "live"]

(* Variants with a bug: what was read is taken for what still holds. *)
AcquireUnconditionally(w) ==
  /\ Step(w, "acquire", "prepare")
  /\ sched' = Acquired(w)
  /\ UNCHANGED <<due, job, handler, crashes>>
AcquireAnyVersion(w) ==
  /\ Step(w, "acquire", IF sched.status \in Pending THEN "prepare" ELSE "done")
  /\ sched' = IF sched.status \in Pending THEN Acquired(w) ELSE sched
  /\ UNCHANGED <<due, job, handler, crashes>>

(* The compare-and-set of the acquisition: version and status. *)
Acquire(w) ==
  /\ Step(w, "acquire", IF Eligible(w) THEN "prepare" ELSE "done")
  /\ sched' = IF Eligible(w) THEN Acquired(w) ELSE sched
  /\ UNCHANGED <<due, job, handler, crashes>>

(* An acquisition that throws returns as if the job were done. *)
AcquisitionFails(w) ==
  /\ "acquisitionError" \in Faults
  /\ worker[w].pc \in {"look", "acquire"}
  /\ worker' = [worker EXCEPT ![w].pc = "done"]
  /\ UNCHANGED <<sched, due, job, handler, crashes>>

(* Every later write compares version, executionToken and PROCESSING. *)
Owns(w) == /\ sched.status = "PROCESSING" /\ sched.token = w
           /\ sched.version = worker[w].version

(* Variant with a bug: no compare. *)
SettleUnconditionally(w, from, statuses) ==
  /\ Step(w, from, "done")
  /\ \E status \in statuses : sched' = Freed(status)
  /\ UNCHANGED <<due, job, handler, crashes>>

Settle(w, from, statuses) ==
  /\ Step(w, from, "done")
  /\ \E status \in statuses : sched' = IF Owns(w) THEN Freed(status) ELSE sched
  /\ UNCHANGED <<due, job, handler, crashes>>

(* preparePublication: reserved, refused, or an account is uncertain. *)
Prepare(w) ==
  \/ /\ Step(w, "prepare", "execute")
     /\ UNCHANGED <<sched, due, job, handler, crashes>>
  \/ Settle(w, "prepare", {"FAILED", "REQUIRES_RECONCILIATION"})

(* executePublication returned or threw, and no retry is due. *)
Finalize(w) ==
  Settle(w, "execute", {"PUBLISHED", "PARTIALLY_PUBLISHED", "DEAD_LETTER",
                        "REQUIRES_RECONCILIATION"})

(* Variant with a bug: the job of a retry returns instead of throwing. *)
RetryReturning(w) ==
  /\ worker[w].made < MaxTries - 1
  /\ Step(w, "execute", "done")
  /\ sched' = IF Owns(w) THEN [Freed("ENQUEUED") EXCEPT !.token = "none"] ELSE sched
  /\ UNCHANGED <<due, job, handler, crashes>>

(* A transient failure with tries left: back to ENQUEUED, then throw. *)
Retry(w) ==
  /\ worker[w].made < MaxTries - 1
  /\ Step(w, "execute", "throw")
  /\ sched' = IF Owns(w) THEN [Freed("ENQUEUED") EXCEPT !.token = "none"] ELSE sched
  /\ UNCHANGED <<due, job, handler, crashes>>

(* A transaction throws out of the job and the row stays in PROCESSING. *)
WriteFails(w) ==
  /\ "dbFailure" \in Faults
  /\ worker[w].pc \in {"prepare", "execute"}
  /\ worker' = [worker EXCEPT ![w].pc = "throw"]
  /\ UNCHANGED <<sched, due, job, handler, crashes>>

-----------------------------------------------------------------------------
(* BullMQ after the job: only the worker that holds the lock ends it. *)

Locks(w) == job[worker[w].version].owner = w

Complete(w) ==
  /\ Step(w, "done", "ready")
  /\ job' = IF Locks(w) THEN [job EXCEPT ![worker[w].version].state = "completed",
                                         ![worker[w].version].owner = "none"] ELSE job
  /\ UNCHANGED <<sched, due, handler, crashes>>

(* Put back with a backoff, or failed for good when the tries are used up. *)
Fail(w) ==
  LET v    == worker[w].version
      last == job[v].made + 1 >= MaxTries IN
  /\ Step(w, "throw", IF Locks(w) /\ last THEN "listen" ELSE "ready")
  /\ job' = IF Locks(w)
            THEN [job EXCEPT ![v] = [state |-> IF last THEN "failed" ELSE "waiting",
                                     made |-> @.made + 1, stalls |-> @.stalls,
                                     owner |-> "none"]]
            ELSE job
  /\ UNCHANGED <<sched, due, handler, crashes>>

(* worker.on("failed"): the version and PROCESSING, but not the token. *)
Listen(w) ==
  /\ Step(w, "listen", "ready")
  /\ sched' = IF sched.version = worker[w].version /\ sched.status = "PROCESSING"
              THEN Freed("DEAD_LETTER") ELSE sched
  /\ UNCHANGED <<due, job, handler, crashes>>

Busy == {"look", "acquire", "prepare", "execute", "done", "throw"}

(* A lock that is not renewed: the job is given out once more, then failed. *)
Stall(v) ==
  LET w == job[v].owner IN
  /\ job[v].state = "active"
  /\ worker[w].pc \in Busy /\ worker[w].version = v => "lostLock" \in Faults
  /\ job' = [job EXCEPT ![v] = [state |-> IF @.stalls = 0 THEN "waiting" ELSE "failed",
                                made |-> @.made, stalls |-> 1, owner |-> "none"]]
  /\ UNCHANGED <<sched, due, handler, worker, crashes>>

-----------------------------------------------------------------------------
(* Time and processes *)

Crash(w) ==
  /\ worker[w].pc # "down" /\ crashes < MaxCrashes
  /\ crashes' = crashes + 1
  /\ worker' = [worker EXCEPT ![w] = Down]
  /\ UNCHANGED <<sched, due, job, handler>>

Tick ==
  /\ sched.status # "NONE" /\ due # "late"
  /\ due' = IF due = "future" THEN "due" ELSE "late"
  /\ UNCHANGED <<sched, job, handler, worker, crashes>>

LeaseExpires ==
  /\ sched.lease = "live"
  /\ sched' = [sched EXCEPT !.lease = "expired"]
  /\ UNCHANGED <<due, job, handler, worker, crashes>>

Init ==
  /\ sched = [status |-> "NONE", version |-> 0, token |-> "none", lease |-> "none"]
  /\ due = "future"
  /\ job = [v \in Versions |-> NoJob]
  /\ handler = [h \in Handlers |-> Idle]
  /\ worker = [w \in Workers |-> Down]
  /\ crashes = 0

Ask(h) == \/ Create(h)
          \/ Read(h, "reschedule", "rescheduling")
          \/ Read(h, "cancel", "cancelling")

Serve(h) == Reschedule(h) \/ Cancel(h) \/ Drop(h) \/ Add(h) \/ Mark(h)

Reconcile(w) == \/ Boot(w) \/ Join(w) \/ FlagLate(w) \/ FlagOrphan(w)
                \/ CheckJob(w) \/ Readd(w) \/ Remark(w)

Process(w) == \/ \E v \in Versions : Take(w, v)
              \/ Look(w) \/ Acquire(w) \/ Prepare(w) \/ Finalize(w) \/ Retry(w)
              \/ Complete(w) \/ Fail(w) \/ Listen(w)

Break(w) == AcquisitionFails(w) \/ WriteFails(w) \/ ReconcileFails(w) \/ Crash(w)

Next == \/ \E h \in Handlers : Ask(h) \/ Serve(h) \/ HandlerFails(h)
        \/ \E w \in Workers : Reconcile(w) \/ Process(w) \/ Break(w)
        \/ \E v \in Versions : Stall(v)
        \/ Tick \/ LeaseExpires

Spec == Init /\ [][Next]_vars

(* Handlers and workers go on with what they began, time passes, and a
   worker that is down is started again (restart: unless-stopped).  Nobody has
   to ask for anything, and nothing has to fail. *)
Fairness == /\ \A h \in Handlers : WF_vars(Serve(h))
            /\ \A w \in Workers : WF_vars(Reconcile(w)) /\ WF_vars(Process(w))
            /\ \A v \in Versions : WF_vars(Stall(v))
            /\ WF_vars(Tick) /\ WF_vars(LeaseExpires)

FairSpec == Spec /\ Fairness

-----------------------------------------------------------------------------
(* Properties *)

(* Types. *)
TypeOK ==
  /\ sched \in Schedule
  /\ due \in {"future", "due", "late"}
  /\ job \in [Versions -> Job]
  /\ handler \in [Handlers -> Handler]
  /\ worker \in [Workers -> Worker]
  /\ crashes \in 0..MaxCrashes

Running == {w \in Workers : worker[w].pc \in {"prepare", "execute"}}

(* Two workers never prepare or execute the schedule at the same time: the
   acquisition of processScheduleJob has one winner, although BullMQ may hand
   the job out twice and jobs of two versions may be due. *)
NoConcurrentExecution == \A w, x \in Running : w = x

(* While a worker executes, the row is in its hands (PROCESSING, its version,
   its token) or was flagged for a person by the boot scan or the failed
   listener.  A user who was told that the schedule is cancelled or
   rescheduled is never told so of a publication in progress. *)
ExecutionAccounted ==
  \A w \in Running :
    Owns(w) \/ sched.status \in {"REQUIRES_RECONCILIATION", "DEAD_LETTER"}

(* PROCESSING has a lease and nothing else has: the boot scan finds an
   abandoned execution by the lease (scheduler-worker.ts:219-237). *)
LeaseIffProcessing == sched.lease # "none" <=> sched.status = "PROCESSING"

(* An ENQUEUED schedule has the job that will publish it: waiting, or with a
   worker that has not decided to let it go. *)
PendingHasJob ==
  sched.status = "ENQUEUED" =>
    LET j == job[sched.version] IN
    \/ j.state = "waiting"
    \/ /\ j.state = "active"
       /\ j.owner \in Workers
       /\ worker[j.owner].version = sched.version => worker[j.owner].pc # "done"

(* What the types rest on: who works on a version works on one that exists,
   a reschedule that goes on has a next version, only an active job is
   locked, and a job that can still run has a try left. *)
ProperRequest(r) ==
  /\ r.pc # "idle" => r.version \in Versions
  /\ r.pc = "drop" /\ r.op = "reschedule" => r.version < MaxVersions
  /\ r.pc = "cancelling" => r.op = "cancel"
ProperWork(r) == r.pc \notin {"down", "ready"} => r.version \in Versions
ProperJob(j) ==
  /\ j.owner # "none" => j.state = "active"
  /\ j.state \in {"waiting", "active"} => j.made < MaxTries
Shape ==
  /\ sched.status # "NONE" => sched.version \in Versions
  /\ \A h \in Handlers : ProperRequest(handler[h])
  /\ \A w \in Workers : ProperWork(worker[w])
  /\ \A v \in Versions : ProperJob(job[v])

(* A schedule that reached a final status keeps it, whatever a late request,
   a late worker or a second boot scan still does. *)
TerminalIsFinal ==
  [][sched.status \in Terminal => sched'.status = sched.status]_vars

(* A worker on a job changes the schedule only in the version of the job: an
   old one leaves a rescheduled publication alone (the version in the where of
   processScheduleJob and of the failed listener).  Of a boot scan this is not
   so: its writes compare the status only. *)
VersionRespected ==
  [][\A w \in Workers :
       worker[w].pc \notin Scanning /\ worker'[w] # worker[w] /\ sched' # sched =>
         worker[w].version = sched.version]_vars

(* Nothing is published before its time: at the acquisition the instant of
   the row, not that of an earlier version, has come. *)
RunsOnlyWhenDue ==
  [][sched.status # "PROCESSING" /\ sched'.status = "PROCESSING" => due # "future"]_vars

(* Requests that died left a SCHEDULED row without its job, and no worker has
   scanned since; or the worker that executed died. *)
Unqueued  == /\ sched.status = "SCHEDULED" /\ job[sched.version].state = "absent"
             /\ \A h \in Handlers : handler[h].pc \notin {"drop", "add"}
             /\ \A w \in Workers : worker[w].pc \notin Scanning \cup {"down"}
Abandoned == sched.status = "PROCESSING" /\ Running = {}

(* A schedule that was accepted reaches a final status, whatever requests
   overtake each other, unless it is one of these two: nothing but the boot
   scan of another start looks at those (runStartupReconciliation). *)
Settles ==
  sched.status \in Pending \cup {"PROCESSING"}
    ~> sched.status \in Terminal \/ Unqueued \/ Abandoned

(* A schedule that waits while no worker runs is not forgotten when one starts:
   although the request that should have queued it died, or a worker died with
   its job, somebody begins it, flags it, or the user replaces or cancels it
   (scheduler-worker.ts:123-190). *)
TakenUp ==
  \A v \in Versions :
    sched.status \in Pending /\ sched.version = v /\ (\A w \in Workers : worker[w].pc = "down")
      ~> sched.status \notin Pending \/ sched.version # v
=============================================================================
