------------------------------ MODULE Polling ------------------------------
(***************************************************************************)
(* The two pages that follow a rendering until it ends: the generator of   *)
(* one artwork (artwork-generator.tsx, artwork-polling-controller.ts) and  *)
(* the window of a batch (batch-artwork-modal.tsx,                         *)
(* batch-polling-controller.ts).  A page shows one job, or one batch, and  *)
(* its controller asks the server about it again and again.                *)
(*                                                                         *)
(* A behaviour follows one of the two pages.  A job stands for its         *)
(* idempotency key: the generator keeps the key while the form is as it    *)
(* was, and asking again finds the same job.  "running" is any status that *)
(* is not an end, CANCELLING too.  What an answer says beside the status,  *)
(* delays and lists are left out.  A request that is aborted is gone,      *)
(* unless it had been answered: then its continuation may still run.       *)
(* Those of a disposed controller do nothing and are left out.             *)
(***************************************************************************)
EXTENDS Integers

CONSTANTS
  Jobs,         \* jobs, or batches, by idempotency key
  MaxAttempts,  \* polls of a job: 25 for an artwork, 300 for a batch
  MaxClicks,    \* bound on what the user asks for
  MaxErrors,    \* bound on requests that fail
  PollFaults,   \* {"lateCancel"}: another batch is opened while a cancel is on
                \* its way
  null          \* what is not there

ASSUME PollingAssumption ==
  /\ MaxAttempts \in Nat \ {0} /\ MaxClicks \in Nat /\ MaxErrors \in Nat
  /\ null \notin Jobs
  /\ \A j \in Jobs, s \in {"absent", "running", "completed", "failed", "cancelled"} :
       null # [id |-> j, status |-> s]
  /\ PollFaults \subseteq {"lateCancel"}

VARIABLES
  screen,      \* "artwork" or "batch": the page that is followed
  mounted,     \* the page is on the screen
  status,      \* [Jobs -> status at the server], "absent" before it is created
  key,         \* idempotencyKey of the form, a job
  shown,       \* activeJob or activeBatch: [id, status], or null
  slow,        \* pollingTimeoutReached
  submit,      \* POST of a job in flight: [job, answer], or null
  cancel,      \* POST cancel in flight: [job, answer], or null
  auth,        \* authorizedJobId of the controller
  gen,         \* generation
  timer,       \* timerId # null
  live,        \* abortController # null
  attempts,    \* attempts
  told,        \* [Jobs -> calls of onJobCompleted or onBatchTerminal of this
               \* controller]: completedJobIds, terminalBatchIds are those not 0
  reqs,        \* GETs in flight: [job, gen, manual, answer]
  clicks,      \* what the user has asked for
  errors       \* requests that have failed

controller == <<auth, gen, timer, live, attempts, told, reqs>>
user       == <<key, submit, cancel>>
pollVars   == <<screen, mounted, status, shown, slow, clicks, errors, user, controller>>

Ended      == {"completed", "failed", "cancelled"}
Running(s) == s # null /\ s.status = "running"
Show(j, s) == shown' = IF mounted THEN [id |-> j, status |-> s] ELSE shown
Click      == mounted /\ clicks < MaxClicks /\ clicks' = clicks + 1
Unanswered == "waits"

-----------------------------------------------------------------------------
(* The controller *)

(* What is left of the requests when they are aborted. *)
Aborted == {r \in reqs : r.answer # Unanswered}

(* stopPolling.  (That of a batch raises the generation with the next start,
   and refuses what comes until then by authorizedBatchId.) *)
Stop(rest) ==
  /\ timer' = FALSE /\ live' = FALSE /\ auth' = null
  /\ gen' = gen + 1
  /\ attempts' = IF screen = "artwork" THEN 0 ELSE attempts
  /\ reqs' = rest

(* startPolling on the controller at hand. *)
Start(j) ==
  /\ auth' = j /\ timer' = TRUE /\ live' = FALSE
  /\ gen' = gen + 1 /\ attempts' = 0
  /\ reqs' = Aborted
  /\ UNCHANGED told

(* A new controller, the one before disposed of. *)
Fresh(j) ==
  /\ auth' = j /\ timer' = (j # null) /\ live' = FALSE
  /\ gen' = 0 /\ attempts' = 0
  /\ told' = [i \in Jobs |-> 0]
  /\ reqs' = {}

(* Variant with a bug: neither the job nor the generation is compared. *)
AuthorizedAny(r) == auth # null

Authorized(r) == auth = r.job /\ r.gen = gen

(* Variant with a bug: without the set of the jobs that were told. *)
TellAlways(j) == told' = [told EXCEPT ![j] = @ + 1]

(* handleJobCompletion: the effects of an end are told once. *)
Tell(j) == told' = [told EXCEPT ![j] = IF @ = 0 THEN 1 ELSE @]

Get(j, manual) ==
  [job |-> j, gen |-> gen', manual |-> manual, answer |-> Unanswered]

(* The timer fires: the next GET. *)
Poll ==
  /\ timer
  /\ screen = "batch" => attempts < MaxAttempts
  /\ timer' = FALSE /\ live' = TRUE
  /\ attempts' = IF screen = "batch" THEN attempts + 1 ELSE attempts
  /\ UNCHANGED gen /\ reqs' = reqs \cup {Get(auth, FALSE)}
  /\ UNCHANGED <<screen, mounted, status, shown, slow, clicks, errors, user, auth, told>>

(* A batch that was asked for often enough is no longer followed; the page
   gives no onTimeoutReached. *)
BatchTimeout ==
  /\ screen = "batch" /\ timer /\ attempts >= MaxAttempts
  /\ Stop(Aborted)
  /\ UNCHANGED <<screen, mounted, status, shown, slow, clicks, errors, user, told>>

(* The answer of an aborted request, or of one of before. *)
DropLate(r) ==
  /\ r.answer # Unanswered /\ ~Authorized(r)
  /\ reqs' = reqs \ {r}
  /\ UNCHANGED <<screen, mounted, status, shown, slow, clicks, errors, key, submit, cancel,
                 auth, gen, timer, live, attempts, told>>

(* The job has ended: it is shown, told, and no longer followed. *)
PollEnded(r) ==
  /\ ~r.manual /\ r.answer \in Ended /\ Authorized(r)
  /\ Show(r.job, r.answer)
  /\ IF r.answer = "completed" \/ screen = "batch" THEN Tell(r.job) ELSE UNCHANGED told
  /\ slow' = FALSE
  /\ Stop(reqs \ {r})
  /\ UNCHANGED <<screen, mounted, status, clicks, errors, user>>

(* Variant with a bug: the page is not told that the polls gave up. *)
PollGoesOnSilently(r) ==
  /\ ~r.manual /\ r.answer \in {"running", "error"} /\ Authorized(r)
  /\ IF r.answer = "running" THEN Show(r.job, "running") ELSE UNCHANGED shown
  /\ IF screen = "artwork" /\ attempts + 1 >= MaxAttempts
     THEN Stop(reqs \ {r})
     ELSE /\ timer' = TRUE /\ live' = FALSE /\ reqs' = reqs \ {r}
          /\ attempts' = IF screen = "artwork" THEN attempts + 1 ELSE attempts
          /\ UNCHANGED <<auth, gen>>
  /\ UNCHANGED <<screen, mounted, status, slow, clicks, errors, user, told>>

(* It still runs, or the request failed: the next poll, or the artwork page gives
   up and says so. *)
PollGoesOn(r) ==
  /\ ~r.manual /\ r.answer \in {"running", "error"} /\ Authorized(r)
  /\ IF r.answer = "running" THEN Show(r.job, "running") ELSE UNCHANGED shown
  /\ IF screen = "artwork" /\ attempts + 1 >= MaxAttempts
     THEN Stop(reqs \ {r}) /\ slow' = (slow \/ mounted)
     ELSE /\ timer' = TRUE /\ live' = FALSE /\ reqs' = reqs \ {r}
          /\ attempts' = IF screen = "artwork" THEN attempts + 1 ELSE attempts
          /\ UNCHANGED <<auth, gen, slow>>
  /\ UNCHANGED <<screen, mounted, status, clicks, errors, user, told>>

(* The answer to "Atualizar status": the job stays authorized, without timer. *)
ManualAnswered(r) ==
  /\ r.manual /\ r.answer # Unanswered /\ Authorized(r)
  /\ reqs' = reqs \ {r} /\ live' = FALSE
  /\ IF r.answer = "error" THEN UNCHANGED shown ELSE Show(r.job, r.answer)
  /\ IF r.answer = "completed" THEN Tell(r.job) ELSE UNCHANGED told
  /\ slow' = (slow /\ r.answer \notin Ended)
  /\ UNCHANGED <<screen, mounted, status, clicks, errors, key, submit, cancel,
                 auth, gen, timer, attempts>>

-----------------------------------------------------------------------------
(* The user *)

(* A field of the form changes: a new key. *)
ChangeForm(j) ==
  /\ Click /\ screen = "artwork" /\ ~Running(shown)
  /\ status[j] = "absent" /\ j # key /\ (submit # null => submit.job # j)
  /\ key' = j
  /\ UNCHANGED <<screen, mounted, status, shown, slow, errors, submit, cancel,
                 controller>>

(* "Nova arte", or another template: what is shown is left, the job goes on. *)
NewArtwork(j) ==
  /\ Click /\ screen = "artwork"
  /\ status[j] = "absent" /\ (submit # null => submit.job # j)
  /\ Stop(Aborted) /\ shown' = null /\ slow' = FALSE /\ key' = j
  /\ UNCHANGED <<screen, mounted, status, errors, submit, cancel, told>>

(* "Gerar arte": the POST, with the key of the form. *)
SubmitArtwork ==
  /\ Click /\ screen = "artwork" /\ ~Running(shown) /\ submit = null
  /\ submit' = [job |-> key, answer |-> Unanswered] /\ slow' = FALSE
  /\ UNCHANGED <<screen, mounted, status, shown, errors, key, cancel, controller>>

(* "Iniciar" or "Repetir itens falhos": each with a key of its own. *)
SubmitBatch(j) ==
  /\ Click /\ screen = "batch" /\ submit = null /\ status[j] = "absent"
  /\ submit' = [job |-> j, answer |-> Unanswered]
  /\ UNCHANGED <<screen, mounted, status, shown, slow, errors, key, cancel, controller>>

(* The server creates the job, or finds it; or the request fails, carried out
   or not. *)
Created(j) == status' = [status EXCEPT ![j] = IF @ = "absent" THEN "running" ELSE @]

ServeSubmit ==
  /\ submit # null /\ submit.answer = Unanswered
  /\ \/ /\ Created(submit.job) /\ UNCHANGED errors
        /\ submit' = [submit EXCEPT !.answer = status'[submit.job]]
     \/ /\ errors < MaxErrors /\ errors' = errors + 1
        /\ Created(submit.job) \/ UNCHANGED status
        /\ submit' = [submit EXCEPT !.answer = "error"]
  /\ UNCHANGED <<screen, mounted, shown, slow, clicks, key, cancel, controller>>

SubmitFailed ==
  /\ submit # null /\ submit.answer = "error"
  /\ submit' = null
  /\ UNCHANGED <<screen, mounted, status, shown, slow, clicks, errors, key, cancel,
                 controller>>

(* The job of the answer is shown whatever is by then; one that is running is
   followed, by a new controller if the page was left. *)
ArtworkSubmitted ==
  /\ screen = "artwork" /\ submit # null /\ submit.answer \in Ended \cup {"running"}
  /\ submit' = null
  /\ Show(submit.job, submit.answer)
  /\ \/ submit.answer = "running" /\ mounted /\ Start(submit.job)
     \/ submit.answer = "running" /\ ~mounted /\ Fresh(submit.job)
     \/ /\ submit.answer = "completed" /\ Tell(submit.job)
        /\ UNCHANGED <<auth, gen, timer, live, attempts, reqs>>
     \/ submit.answer = "failed" /\ UNCHANGED controller
  /\ UNCHANGED <<screen, mounted, status, slow, clicks, errors, key, cancel>>

(* startTrackingBatch. *)
Track(j, s) == Show(j, s) /\ Fresh(j)

BatchSubmitted ==
  /\ screen = "batch" /\ submit # null /\ submit.answer \in Ended \cup {"running"}
  /\ cancel # null => "lateCancel" \in PollFaults
  /\ submit' = null
  /\ Track(submit.job, submit.answer)
  /\ UNCHANGED <<screen, mounted, status, slow, clicks, errors, key, cancel>>

(* What the list of batches says, or said when it was asked for. *)
Listed(j) == IF status[j] = "absent" THEN {} ELSE {"running", status[j]}

(* "Acompanhar" in the history, whose list may be of some time ago. *)
OpenBatch(j, s) ==
  /\ Click /\ screen = "batch" /\ s \in Listed(j)
  /\ cancel # null => "lateCancel" \in PollFaults
  /\ Track(j, s)
  /\ UNCHANGED <<screen, mounted, status, slow, errors, user>>

(* "Atualizar status", offered when the polls gave up. *)
ManualCheck ==
  /\ Click /\ screen = "artwork" /\ Running(shown) /\ slow
  /\ ~\E r \in reqs : r.manual
  /\ auth' = shown.id /\ timer' = FALSE /\ live' = TRUE
  /\ gen' = gen + 1 /\ attempts' = 0
  /\ reqs' = Aborted \cup {Get(shown.id, TRUE)}
  /\ UNCHANGED <<screen, mounted, status, shown, slow, errors, key, submit, cancel, told>>

(* "Cancelar lote".  (The window does not offer it for CANCELLING.) *)
CancelBatch ==
  /\ Click /\ screen = "batch" /\ Running(shown) /\ cancel = null
  /\ cancel' = [job |-> shown.id, answer |-> Unanswered]
  /\ UNCHANGED <<screen, mounted, status, shown, slow, errors, key, submit, controller>>

(* An end stays as it is.  Otherwise the batch ends by what its items have come
   to, or it stays in CANCELLING, because the counts do not add up; or the request
   is refused (see CancelAudit of RenderBatch). *)
ServeCancel ==
  /\ cancel # null /\ cancel.answer = Unanswered
  /\ \/ \E s \in Ended \cup {"running"} :
          /\ status[cancel.job] \in Ended => s = status[cancel.job]
          /\ status' = [status EXCEPT ![cancel.job] = s]
          /\ cancel' = [cancel EXCEPT !.answer = s]
     \/ cancel' = [cancel EXCEPT !.answer = "error"] /\ UNCHANGED status
  /\ UNCHANGED <<screen, mounted, shown, slow, clicks, errors, key, submit, controller>>

(* The answer is shown, whatever is by then; the controller goes on, or has
   stopped already. *)
BatchCancelled ==
  /\ cancel # null /\ cancel.answer # Unanswered
  /\ cancel' = null
  /\ IF cancel.answer = "error" THEN UNCHANGED shown ELSE Show(cancel.job, cancel.answer)
  /\ UNCHANGED <<screen, mounted, status, slow, clicks, errors, key, submit, controller>>

(* The page is left: its controller is disposed of. *)
Leave ==
  /\ mounted /\ mounted' = FALSE
  /\ Fresh(null)
  /\ UNCHANGED <<screen, status, shown, slow, clicks, errors, key, submit, cancel>>

-----------------------------------------------------------------------------
(* The server *)

Responds(r, answer) == reqs' = (reqs \ {r}) \cup {[r EXCEPT !.answer = answer]}

(* GET of a job, or of a batch: the row as it is, or the request fails. *)
Serve(r) ==
  /\ r.answer = Unanswered
  /\ \/ Responds(r, status[r.job]) /\ UNCHANGED errors
     \/ errors < MaxErrors /\ errors' = errors + 1 /\ Responds(r, "error")
  /\ UNCHANGED <<screen, mounted, status, shown, slow, clicks, user, auth, gen, timer, live,
                 attempts, told>>

(* The renderer ends a job, or the last item of a batch. *)
JobEnds(j) ==
  /\ status[j] = "running"
  /\ \E s \in {"completed", "failed"} : status' = [status EXCEPT ![j] = s]
  /\ UNCHANGED <<screen, mounted, shown, slow, clicks, errors, user, controller>>

-----------------------------------------------------------------------------
PollInit ==
  /\ screen \in {"artwork", "batch"} /\ mounted = TRUE
  /\ status = [j \in Jobs |-> "absent"]
  /\ key \in Jobs
  /\ shown = null /\ slow = FALSE /\ submit = null /\ cancel = null
  /\ auth = null /\ gen = 0 /\ timer = FALSE /\ live = FALSE /\ attempts = 0
  /\ told = [j \in Jobs |-> 0] /\ reqs = {}
  /\ clicks = 0 /\ errors = 0

User ==
  \/ \E j \in Jobs :
       \/ ChangeForm(j) \/ NewArtwork(j) \/ SubmitBatch(j)
       \/ \E s \in Ended \cup {"running"} : OpenBatch(j, s)
  \/ SubmitArtwork \/ ManualCheck \/ CancelBatch \/ Leave

Handle(r) == DropLate(r) \/ PollEnded(r) \/ PollGoesOn(r) \/ ManualAnswered(r)

Submitted == SubmitFailed \/ ArtworkSubmitted \/ BatchSubmitted \/ BatchCancelled

PollNext ==
  \/ User \/ Submitted \/ ServeSubmit \/ ServeCancel
  \/ Poll \/ BatchTimeout
  \/ \E r \in reqs : Serve(r) \/ Handle(r)
  \/ \E j \in Jobs : JobEnds(j)

PollSpec == PollInit /\ [][PollNext]_pollVars

(* Timers fire, requests are answered or fail, answers are handled, and a
   rendering ends (see Settles of Renderer and CountsSettle of RenderBatch). *)
Fairness ==
  /\ WF_pollVars(Poll) /\ WF_pollVars(BatchTimeout) /\ WF_pollVars(Submitted)
  /\ WF_pollVars(ServeSubmit) /\ WF_pollVars(ServeCancel)
  /\ WF_pollVars(\E r \in reqs : Serve(r)) /\ WF_pollVars(\E r \in reqs : Handle(r))
  /\ \A j \in Jobs : WF_pollVars(JobEnds(j))

FairSpec == PollSpec /\ Fairness

-----------------------------------------------------------------------------
(* Properties *)

(* The page and its controller never part: what is asked about is what is shown,
   whichever answers of earlier jobs, forms, batches or checks come late.  (The
   answer of a cancel that comes after another batch was opened does part them,
   until the next poll: "lateCancel" of PollFaults.) *)
FollowsWhatIsShown ==
  mounted /\ (timer \/ live) => shown # null /\ shown.id = auth

(* A batch was asked for as often as its controller does. *)
GaveUp == screen = "batch" /\ attempts >= MaxAttempts

(* The controller of the window has told the end of its batch, and has stopped. *)
EndTold == screen = "batch" /\ \E j \in Jobs : told[j] # 0

(* Nobody is left looking at a job that runs: somebody asks about it, or the
   page says that it takes long and offers the check by hand.  Two exceptions the
   code does make, both of the window of a batch: one that was asked for often
   enough says nothing, and after the end was told the late answer of a cancel may
   put CANCELLING back on the screen, where it stays. *)
Attended == mounted /\ Running(shown) => timer \/ live \/ slow \/ GaveUp \/ EndTold

(* The completion of an artwork is told to the rest of the page when it is
   shown, and once, however often the same form is sent again; that of a batch
   once for every time it is opened. *)
ToldOnce ==
  /\ \A j \in Jobs : told[j] <= 1
  /\ screen = "artwork" /\ mounted /\ shown # null /\ shown.status = "completed" =>
       told[shown.id] = 1

(* A job that is shown running, and whose end was not shown before, is in the end
   shown as it ended, or the page gives up, or the user has gone on to something
   else. *)
EndIsShown ==
  \A j \in Jobs :
    (mounted /\ ~EndTold /\ shown = [id |-> j, status |-> "running"])
      ~> (~mounted \/ slow \/ GaveUp \/ shown # [id |-> j, status |-> "running"])
=============================================================================
