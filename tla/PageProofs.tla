----------------------------- MODULE PageProofs -----------------------------
(***************************************************************************)
(* What holds of the two pages of the web client that are modelled: of     *)
(* Polling for any number of jobs, polls, clicks and errors, and of        *)
(* DesignTemplates for any number of templates, versions and requests.     *)
(* The two share nothing but this module.                                  *)
(***************************************************************************)
EXTENDS Polling, DesignTemplates, TLAPS

-----------------------------------------------------------------------------
(* Polling: the inductive invariant *)

Statuses   == {"absent", "running", "completed", "failed", "cancelled"}
Answers == Statuses \cup {Unanswered, "error"}

Gets == [job: Jobs, gen: Nat, manual: BOOLEAN, answer: Answers]

ControllerTypes ==
  /\ auth \in Jobs \cup {null} /\ gen \in Nat /\ attempts \in Nat
  /\ timer \in BOOLEAN /\ live \in BOOLEAN
  /\ reqs \subseteq Gets

ShownType == shown # null => shown \in [id: Jobs, status: Statuses]
ToldType  == told \in [Jobs -> 0..1]

PollTypes ==
  /\ screen \in {"artwork", "batch"} /\ mounted \in BOOLEAN /\ slow \in BOOLEAN
  /\ status \in [Jobs -> Statuses] /\ key \in Jobs
  /\ submit # null => submit \in [job: Jobs, answer: Answers]
  /\ cancel # null => cancel \in [job: Jobs, answer: Answers]
  /\ ShownType /\ ToldType /\ ControllerTypes

(* One request of the generation is on its way while the controller waits for
   it, and null while the timer runs; a check by hand belongs to an artwork whose
   polls gave up. *)
ReqInv ==
  /\ timer \/ live => auth # null
  /\ \A r \in reqs : r.gen <= gen
  /\ \A r \in reqs : Authorized(r) =>
       /\ live /\ ~timer
       /\ r.manual => screen = "artwork" /\ (mounted => slow)
  /\ \A r, s \in reqs : Authorized(r) /\ Authorized(s) => r = s

(* An artwork that is followed is shown running, and then no form is sent. *)
ArtworkInv ==
  screen = "artwork" /\ mounted =>
    /\ timer \/ live => Running(shown) /\ shown.id = auth
    /\ submit # null => ~timer /\ ~live /\ ~Running(shown)

(* A batch stays on the screen while its cancel is on its way. *)
BatchInv ==
  "lateCancel" \notin PollFaults /\ screen = "batch" =>
    /\ mounted /\ (timer \/ live) => shown # null /\ shown.id = auth
    /\ cancel # null => shown # null /\ shown.id = cancel.job

(* The window asks about its batch until it has told the end or asked often
   enough, whatever is on the screen: a cancel shows what it will. *)
WindowInv ==
  screen = "batch" /\ mounted /\ shown # null => timer \/ live \/ GaveUp \/ EndTold

PageInv ==
  /\ cancel # null => screen = "batch" /\ shown # null
  /\ ArtworkInv /\ BatchInv /\ WindowInv /\ Attended /\ ToldOnce

PollInv == PollTypes /\ ReqInv /\ PageInv

-----------------------------------------------------------------------------
(* Polling: types *)

LEMMA StopTypes ==
  ASSUME ControllerTypes, NEW rest \in SUBSET reqs, Stop(rest)
  PROVE  ControllerTypes'
<1>1. auth' \in Jobs \cup {null} /\ gen' \in Nat
  BY DEF ControllerTypes, Stop
<1>2. attempts' \in Nat
  BY DEF ControllerTypes, Stop
<1>3. timer' \in BOOLEAN /\ live' \in BOOLEAN
  BY DEF ControllerTypes, Stop
<1>4. reqs' \subseteq Gets
  BY DEF ControllerTypes, Stop
<1> QED
  BY <1>1, <1>2, <1>3, <1>4 DEF ControllerTypes

LEMMA FreshTypes ==
  ASSUME ControllerTypes, NEW j \in Jobs \cup {null}, Fresh(j)
  PROVE  ControllerTypes' /\ ToldType'
<1>1. auth' \in Jobs \cup {null} /\ gen' \in Nat
  BY DEF ControllerTypes, Fresh
<1>2. attempts' \in Nat
  BY DEF ControllerTypes, Fresh
<1>3. timer' \in BOOLEAN /\ live' \in BOOLEAN
  BY DEF ControllerTypes, Fresh
<1>4. reqs' \subseteq Gets
  BY DEF ControllerTypes, Fresh
<1>5. ToldType'
  BY DEF Fresh, ToldType
<1> QED
  BY <1>1, <1>2, <1>3, <1>4, <1>5 DEF ControllerTypes

LEMMA StartTypes ==
  ASSUME ControllerTypes, NEW j \in Jobs, Start(j)
  PROVE  ControllerTypes'
<1>1. auth' \in Jobs \cup {null} /\ gen' \in Nat
  BY DEF ControllerTypes, Start, Aborted
<1>2. attempts' \in Nat
  BY DEF ControllerTypes, Start, Aborted
<1>3. timer' \in BOOLEAN /\ live' \in BOOLEAN
  BY DEF ControllerTypes, Start, Aborted
<1>4. reqs' \subseteq Gets
  BY DEF ControllerTypes, Start, Aborted
<1> QED
  BY <1>1, <1>2, <1>3, <1>4 DEF ControllerTypes

LEMMA TellTypes ==
  ASSUME ToldType, NEW j \in Jobs, Tell(j)
  PROVE  /\ ToldType' /\ told'[j] = 1
         /\ \A i \in Jobs : i # j => told'[i] = told[i]
BY DEF ToldType, Tell

LEMMA ShowTypes ==
  ASSUME ShownType, NEW j \in Jobs, NEW s \in Statuses, Show(j, s)
  PROVE  ShownType'
BY DEF ShownType, Show

-----------------------------------------------------------------------------
(* Polling: steps that leave the page and its controller as they are *)

Untouched == UNCHANGED <<screen, mounted, shown, auth, gen, timer, live, attempts,
told, reqs>>

LEMMA UntouchedStep ==
  ASSUME PollInv, Untouched, PollTypes',
  slow' = slow \/ (screen = "artwork" /\ ~Running(shown)),
         cancel' # null =>
           \/ cancel # null /\ cancel'.job = cancel.job
           \/ screen = "batch" /\ shown # null /\ cancel'.job = shown.id,
         submit' # null => submit # null \/ screen = "batch" \/ ~Running(shown)
  PROVE  PollInv'
<1>1. ReqInv'
  BY DEF PollInv, Untouched, ReqInv, Authorized, PageInv, ArtworkInv
<1>2. PageInv'
  BY DEF PollInv, Untouched, PageInv, ArtworkInv, BatchInv, WindowInv, Attended, EndTold, GaveUp,
       ToldOnce, Running
<1> QED
  BY <1>1, <1>2 DEF PollInv

LEMMA UntouchedSteps ==
  ASSUME PollInv,
         \/ \E j \in Jobs : ChangeForm(j) \/ SubmitBatch(j) \/ JobEnds(j)
         \/ SubmitArtwork \/ ServeSubmit \/ SubmitFailed \/ CancelBatch \/ ServeCancel
  PROVE  PollInv'
<1>1. ASSUME NEW j \in Jobs, ChangeForm(j) PROVE PollInv'
  <2>1. PollTypes' /\ Untouched
    BY <1>1 DEF ChangeForm, controller, PollInv, PollTypes, ShownType, ToldType,
         ControllerTypes, Untouched
  <2> QED
    BY <1>1, <2>1, UntouchedStep DEF ChangeForm, PollInv, PageInv
<1>2. ASSUME NEW j \in Jobs, SubmitBatch(j) PROVE PollInv'
  <2>1. PollTypes' /\ Untouched
    BY <1>2 DEF SubmitBatch, controller, PollInv, PollTypes, ShownType, ToldType,
         ControllerTypes, Untouched, Answers
  <2> QED
    BY <1>2, <2>1, UntouchedStep DEF SubmitBatch
<1>3. ASSUME NEW j \in Jobs, JobEnds(j) PROVE PollInv'
  <2>1. PollTypes' /\ Untouched
    BY <1>3 DEF JobEnds, controller, user, PollInv, PollTypes, ShownType,
         ToldType, ControllerTypes, Untouched, Statuses
  <2> QED
    BY <1>3, <2>1, UntouchedStep DEF JobEnds, user
<1>4. CASE SubmitArtwork
  <2>1. PollTypes' /\ Untouched
    BY <1>4 DEF SubmitArtwork, controller, PollInv, PollTypes, ShownType, ToldType,
         ControllerTypes, Untouched, Answers
  <2> QED
    BY <1>4, <2>1, UntouchedStep DEF SubmitArtwork
<1>5. CASE ServeSubmit
  <2>1. /\ Untouched /\ submit # null /\ slow' = slow /\ key' = key /\ cancel' = cancel
    BY <1>5 DEF ServeSubmit, controller, Untouched
  <2>2. status' \in [Jobs -> Statuses]
    BY <1>5 DEF ServeSubmit, Created, PollInv, PollTypes, ShownType, ToldType,
         ControllerTypes, Statuses
  <2>3. submit' # null => submit' \in [job: Jobs, answer: Answers]
    BY <1>5, <2>2 DEF ServeSubmit, PollInv, PollTypes, ShownType, ToldType,
         ControllerTypes, Answers
  <2>4. PollTypes'
    BY <2>1, <2>2, <2>3 DEF PollInv, PollTypes, ShownType, ToldType, ControllerTypes,
         Untouched
  <2> QED
    BY <2>1, <2>4, UntouchedStep
<1>6. CASE SubmitFailed
  <2>1. PollTypes' /\ Untouched
    BY <1>6 DEF SubmitFailed, controller, PollInv, PollTypes, ShownType, ToldType,
         ControllerTypes, Untouched
  <2> QED
    BY <1>6, <2>1, UntouchedStep DEF SubmitFailed
<1>7. CASE CancelBatch
  <2>1. shown # null /\ shown \in [id: Jobs, status: Statuses]
    BY <1>7 DEF CancelBatch, Running, PollInv, PollTypes, ShownType, ToldType,
         ControllerTypes
  <2>2. PollTypes' /\ Untouched
    BY <1>7, <2>1 DEF CancelBatch, controller, PollInv, PollTypes, ShownType,
         ToldType, ControllerTypes, Untouched, Answers
  <2> QED
    BY <1>7, <2>1, <2>2, UntouchedStep DEF CancelBatch
<1>8. CASE ServeCancel
  <2>1. /\ Untouched /\ cancel # null /\ cancel \in [job: Jobs, answer: Answers]
        /\ slow' = slow /\ key' = key /\ submit' = submit
    BY <1>8 DEF ServeCancel, controller, PollInv, PollTypes, ShownType, ToldType,
         ControllerTypes, Untouched
  <2>2. status' \in [Jobs -> Statuses]
    BY <1>8, <2>1 DEF ServeCancel, Ended, PollInv, PollTypes, Statuses
  <2>3. cancel' \in [job: Jobs, answer: Answers] /\ cancel'.job = cancel.job
    BY <1>8, <2>1 DEF ServeCancel, Ended, Answers, Statuses
  <2>4. PollTypes'
    BY <2>1, <2>2, <2>3 DEF PollInv, PollTypes, ShownType, ToldType, ControllerTypes,
         Untouched
  <2> QED
    BY <2>1, <2>3, <2>4, UntouchedStep
<1> QED
  BY <1>1, <1>2, <1>3, <1>4, <1>5, <1>6, <1>7, <1>8


-----------------------------------------------------------------------------
(* Polling: steps of the controller *)

LEMMA PollStep ==
  ASSUME PollInv, Poll
  PROVE  PollInv'
<1>1. PollTypes'
  <2>1. auth \in Jobs
    BY DEF Poll, PollInv, PollTypes, ControllerTypes, ReqInv
  <2>2. reqs' \subseteq Gets
    <3>1. gen' \in Nat /\ Get(auth, FALSE) \in Gets
      BY <2>1 DEF Poll, Get, Gets, Answers, PollInv, PollTypes, ControllerTypes
    <3> QED
      BY <3>1 DEF Poll, PollInv, PollTypes, ControllerTypes
  <2>3. attempts' \in Nat
    BY DEF Poll, PollInv, PollTypes, ControllerTypes
  <2>4. ControllerTypes'
    BY <2>2, <2>3 DEF Poll, PollInv, PollTypes, ControllerTypes
  <2> QED
    BY <2>1, <2>2, <2>3, <2>4 DEF Poll, user, ShownType, ToldType, PollInv, PollTypes
<1>2. ReqInv'
  BY <1>1 DEF Poll, user, Get, Unanswered, PollInv, PollTypes,
       ControllerTypes, Gets, ReqInv, Authorized
<1>3. PageInv'
  BY <1>1 DEF Poll, user, Get, Unanswered, PollInv, PollTypes, ShownType,
       ToldType, ControllerTypes, Gets, ReqInv, Authorized,
       PageInv, ArtworkInv, BatchInv, WindowInv, Attended, EndTold, GaveUp, ToldOnce, Running
<1> QED
  BY <1>1, <1>2, <1>3 DEF PollInv

LEMMA BatchTimeoutStep ==
  ASSUME PollInv, BatchTimeout
  PROVE  PollInv'
<1>1. PollTypes'
  <2>1. ControllerTypes'
    BY StopTypes DEF BatchTimeout, Aborted, PollInv, PollTypes
  <2> QED
    BY <2>1 DEF BatchTimeout, user, ShownType, ToldType, PollInv, PollTypes
<1>2. ReqInv'
  BY <1>1 DEF BatchTimeout, user, Stop, Aborted, PollInv, PollTypes,
       ControllerTypes, Gets, ReqInv, Authorized
<1>3. PageInv'
  BY <1>1 DEF BatchTimeout, user, Stop, Aborted, PollInv, PollTypes, ShownType,
       ToldType, ControllerTypes, Gets, ReqInv, Authorized,
       PageInv, ArtworkInv, BatchInv, WindowInv, Attended, EndTold, GaveUp, ToldOnce, Running
<1> QED
  BY <1>1, <1>2, <1>3 DEF PollInv

LEMMA DropLateStep ==
  ASSUME PollInv, NEW r \in reqs, DropLate(r)
  PROVE  PollInv'
<1>1. PollTypes'
  <2>1. ControllerTypes'
    BY DEF DropLate, PollInv, PollTypes, ControllerTypes
  <2> QED
    BY <2>1 DEF DropLate, ShownType, ToldType, PollInv, PollTypes
<1>2. ReqInv'
  BY <1>1 DEF DropLate, PollInv, PollTypes, ControllerTypes, Gets, ReqInv, Authorized
<1>3. PageInv'
  BY <1>1 DEF DropLate, PollInv, PollTypes, ShownType, ToldType, ControllerTypes,
       Gets, ReqInv, Authorized,
       PageInv, ArtworkInv, BatchInv, WindowInv, Attended, EndTold, GaveUp, ToldOnce, Running
<1> QED
  BY <1>1, <1>2, <1>3 DEF PollInv

LEMMA ServeStep ==
  ASSUME PollInv, NEW r \in reqs, Serve(r)
  PROVE  PollInv'
<1>1. PollTypes'
  <2>1. r \in Gets /\ status[r.job] \in Statuses
    BY DEF PollInv, PollTypes, ControllerTypes, Gets
  <2>2. [r EXCEPT !.answer = status[r.job]] \in Gets /\ [r EXCEPT !.answer = "error"] \in Gets
    BY <2>1 DEF Gets, Answers
  <2>3. reqs' \subseteq Gets
    BY <2>2 DEF Serve, Responds, PollInv, PollTypes, ControllerTypes
  <2>4. ControllerTypes'
    BY <2>3 DEF Serve, Responds, PollInv, PollTypes, ControllerTypes
  <2> QED
    BY <2>1, <2>2, <2>3, <2>4 DEF Serve, Responds, user, ShownType, ToldType,
         PollInv, PollTypes
<1>2. ReqInv'
  BY <1>1 DEF Serve, Responds, user, PollInv, PollTypes, ControllerTypes, Gets,
       ReqInv, Authorized
<1>3. PageInv'
  BY <1>1 DEF Serve, Responds, user, PollInv, PollTypes, ShownType, ToldType,
       ControllerTypes, Gets, ReqInv, Authorized,
       PageInv, ArtworkInv, BatchInv, WindowInv, Attended, EndTold, GaveUp, ToldOnce, Running
<1> QED
  BY <1>1, <1>2, <1>3 DEF PollInv

LEMMA PollEndedStep ==
  ASSUME PollInv, NEW r \in reqs, PollEnded(r)
  PROVE  PollInv'
<1>1. PollTypes'
  <2>1. r \in Gets /\ r.job \in Jobs /\ r.answer \in Statuses
    BY DEF PollEnded, Ended, Statuses, PollInv, PollTypes, ControllerTypes, Gets
  <2>2. ShownType'
    BY <2>1, ShowTypes DEF PollEnded, PollInv, PollTypes
  <2>3. ToldType'
    BY <2>1, TellTypes DEF PollEnded, PollInv, PollTypes, ToldType
  <2>4. ControllerTypes'
    BY StopTypes DEF PollEnded, PollInv, PollTypes
  <2> QED
    BY <2>1, <2>2, <2>3, <2>4 DEF PollEnded, user, PollInv, PollTypes
<1>2. ReqInv'
  BY <1>1, PollingAssumption DEF PollingAssumption, PollEnded, user, Show, Tell, Stop,
       Ended,
       PollInv, PollTypes, ControllerTypes, Gets, ReqInv, Authorized
<1>3. PageInv'
  BY <1>1, PollingAssumption DEF PollingAssumption, PollEnded, user, Show, Tell, Stop,
       Ended,
       PollInv, PollTypes, ShownType, ToldType, ControllerTypes, Gets, ReqInv,
       Authorized,
       PageInv, ArtworkInv, BatchInv, WindowInv, Attended, EndTold, GaveUp, ToldOnce, Running
<1> QED
  BY <1>1, <1>2, <1>3 DEF PollInv

LEMMA PollGoesOnStep ==
  ASSUME PollInv, NEW r \in reqs, PollGoesOn(r)
  PROVE  PollInv'
<1>1. PollTypes'
  <2>1. r \in Gets /\ r.job \in Jobs /\ "running" \in Statuses
    BY DEF Statuses, PollInv, PollTypes, ControllerTypes, Gets
  <2>2. ShownType'
    BY <2>1, ShowTypes DEF PollGoesOn, PollInv, PollTypes, ShownType
  <2>3. ControllerTypes'
    <3>1. CASE screen = "artwork" /\ attempts + 1 >= MaxAttempts
      BY <3>1, StopTypes DEF PollGoesOn, PollInv, PollTypes
    <3>2. CASE ~(screen = "artwork" /\ attempts + 1 >= MaxAttempts)
      <4>1. attempts' \in Nat
        BY <3>2 DEF PollGoesOn, PollInv, PollTypes, ControllerTypes
      <4> QED
        BY <3>2, <4>1 DEF PollGoesOn, PollInv, PollTypes, ControllerTypes
    <3> QED
      BY <3>1, <3>2
  <2>4. slow' \in BOOLEAN
    BY DEF PollGoesOn, PollInv, PollTypes
  <2> QED
    BY <2>1, <2>2, <2>3, <2>4 DEF PollGoesOn, user, ToldType, PollInv, PollTypes
<1>2. ReqInv'
  BY <1>1, PollingAssumption DEF PollingAssumption, PollGoesOn, user, Show, Stop,
       PollInv,
       PollTypes, ControllerTypes, Gets, ReqInv, Authorized
<1>3. PageInv'
  BY <1>1, PollingAssumption DEF PollingAssumption, PollGoesOn, user, Show, Stop,
       PollInv,
       PollTypes, ShownType, ToldType, ControllerTypes, Gets, ReqInv, Authorized,
       PageInv, ArtworkInv, BatchInv, WindowInv, Attended, EndTold, GaveUp, ToldOnce, Running
<1> QED
  BY <1>1, <1>2, <1>3 DEF PollInv

LEMMA ManualAnsweredStep ==
  ASSUME PollInv, NEW r \in reqs, ManualAnswered(r)
  PROVE  PollInv'
<1>1. PollTypes'
  <2>1. /\ r \in Gets /\ r.job \in Jobs
        /\ r.answer # "error" => r.answer \in Statuses
    BY DEF ManualAnswered, Answers, PollInv, PollTypes, ControllerTypes, Gets
  <2>2. ShownType'
    BY <2>1, ShowTypes DEF ManualAnswered, PollInv, PollTypes, ShownType
  <2>3. ToldType'
    BY <2>1, TellTypes DEF ManualAnswered, PollInv, PollTypes, ToldType
  <2>4. ControllerTypes'
    BY DEF ManualAnswered, PollInv, PollTypes, ControllerTypes
  <2>5. slow' \in BOOLEAN
    BY DEF ManualAnswered, PollInv, PollTypes
  <2> QED
    BY <2>1, <2>2, <2>3, <2>4, <2>5 DEF ManualAnswered, PollInv, PollTypes
<1>2. ReqInv'
  BY <1>1, PollingAssumption DEF PollingAssumption, ManualAnswered, Show, Tell, Ended,
       PollInv,
       PollTypes, ControllerTypes, Gets, ReqInv, Authorized
<1>3. PageInv'
  BY <1>1, PollingAssumption DEF PollingAssumption, ManualAnswered, Show, Tell, Ended,
       PollInv,
       PollTypes, ShownType, ToldType, ControllerTypes, Gets, ReqInv, Authorized,
       PageInv, ArtworkInv, BatchInv, WindowInv, Attended, EndTold, GaveUp, ToldOnce, Running
<1> QED
  BY <1>1, <1>2, <1>3 DEF PollInv

-----------------------------------------------------------------------------
(* Polling: steps of the page *)

LEMMA NewArtworkStep ==
  ASSUME PollInv, NEW j \in Jobs, NewArtwork(j)
  PROVE  PollInv'
<1>1. PollTypes'
  <2>1. ControllerTypes'
    BY StopTypes DEF NewArtwork, Aborted, PollInv, PollTypes
  <2> QED
    BY <2>1 DEF NewArtwork, ShownType, ToldType, PollInv, PollTypes
<1>2. ReqInv'
  BY <1>1, PollingAssumption DEF PollingAssumption, NewArtwork, Stop, Aborted, PollInv,
       PollTypes,
       ControllerTypes, Gets, ReqInv, Authorized
<1>3. PageInv'
  BY <1>1, PollingAssumption DEF PollingAssumption, NewArtwork, Stop, Aborted, PollInv,
       PollTypes,
       ShownType, ToldType, ControllerTypes, Gets, ReqInv, Authorized,
       PageInv, ArtworkInv, BatchInv, WindowInv, Attended, EndTold, GaveUp, ToldOnce, Running
<1> QED
  BY <1>1, <1>2, <1>3 DEF PollInv

LEMMA ArtworkSubmittedStep ==
  ASSUME PollInv, ArtworkSubmitted
  PROVE  PollInv'
<1>1. PollTypes'
  <2>1. submit.job \in Jobs /\ submit.answer \in Statuses
    BY DEF ArtworkSubmitted, Ended, Statuses, PollInv, PollTypes
  <2>2. ShownType'
    BY <2>1, ShowTypes DEF ArtworkSubmitted, PollInv, PollTypes
  <2>3. ControllerTypes' /\ ToldType'
    BY <2>1, StartTypes, FreshTypes, TellTypes DEF ArtworkSubmitted, controller,
         PollInv, PollTypes, ControllerTypes, ToldType, Start
  <2> QED
    BY <2>1, <2>2, <2>3 DEF ArtworkSubmitted, PollInv, PollTypes
<1>2. ReqInv'
  BY <1>1, PollingAssumption DEF PollingAssumption, ArtworkSubmitted, controller, Show,
       Start,
       Fresh, Tell, Aborted, Ended, PollInv, PollTypes, ControllerTypes, Gets,
       ReqInv, Authorized
<1>3. PageInv'
  BY <1>1, PollingAssumption DEF PollingAssumption, ArtworkSubmitted, controller, Show,
       Start,
       Fresh, Tell, Aborted, Ended, PollInv, PollTypes, ShownType, ToldType,
       ControllerTypes, Gets, ReqInv, Authorized,
       PageInv, ArtworkInv, BatchInv, WindowInv, Attended, EndTold, GaveUp, ToldOnce, Running
<1> QED
  BY <1>1, <1>2, <1>3 DEF PollInv

LEMMA BatchSubmittedStep ==
  ASSUME PollInv, BatchSubmitted
  PROVE  PollInv'
<1>1. PollTypes'
  <2>1. submit.job \in Jobs /\ submit.answer \in Statuses
    BY DEF BatchSubmitted, Ended, Statuses, PollInv, PollTypes
  <2>2. ShownType'
    BY <2>1, ShowTypes DEF BatchSubmitted, Track, PollInv, PollTypes
  <2>3. ControllerTypes' /\ ToldType'
    BY <2>1, FreshTypes DEF BatchSubmitted, Track, PollInv, PollTypes
  <2> QED
    BY <2>1, <2>2, <2>3 DEF BatchSubmitted, PollInv, PollTypes
<1>2. ReqInv'
  BY <1>1, PollingAssumption DEF PollingAssumption, BatchSubmitted, Track, Show, Fresh,
       Ended,
       PollInv, PollTypes, ControllerTypes, Gets, ReqInv, Authorized
<1>3. PageInv'
  BY <1>1, PollingAssumption DEF PollingAssumption, BatchSubmitted, Track, Show, Fresh,
       Ended,
       PollInv, PollTypes, ShownType, ToldType, ControllerTypes, Gets, ReqInv,
       Authorized,
       PageInv, ArtworkInv, BatchInv, WindowInv, Attended, EndTold, GaveUp, ToldOnce, Running
<1> QED
  BY <1>1, <1>2, <1>3 DEF PollInv

LEMMA OpenBatchStep ==
  ASSUME PollInv, NEW j \in Jobs,
         NEW s \in Ended \cup {"running"}, OpenBatch(j, s)
  PROVE  PollInv'
<1>1. PollTypes'
  <2>1. s \in Statuses
    BY DEF Ended, Statuses
  <2>2. ShownType'
    BY <2>1, ShowTypes DEF OpenBatch, Listed, Track, PollInv, PollTypes
  <2>3. ControllerTypes' /\ ToldType'
    BY FreshTypes DEF OpenBatch, Listed, Track, PollInv, PollTypes
  <2> QED
    BY <2>1, <2>2, <2>3 DEF OpenBatch, Listed, user, PollInv, PollTypes
<1>2. ReqInv'
  BY <1>1, PollingAssumption DEF PollingAssumption, OpenBatch, Listed, user, Track,
       Show,
       Fresh, Ended, PollInv, PollTypes, ControllerTypes, Gets, ReqInv, Authorized
<1>3. PageInv'
  BY <1>1, PollingAssumption DEF PollingAssumption, OpenBatch, Listed, user, Track,
       Show,
       Fresh, Ended, PollInv, PollTypes, ShownType, ToldType, ControllerTypes, Gets,
       ReqInv, Authorized,
       PageInv, ArtworkInv, BatchInv, WindowInv, Attended, EndTold, GaveUp, ToldOnce, Running
<1> QED
  BY <1>1, <1>2, <1>3 DEF PollInv

LEMMA ManualCheckStep ==
  ASSUME PollInv, ManualCheck
  PROVE  PollInv'
<1>1. PollTypes'
  <2>1. shown.id \in Jobs
    BY DEF ManualCheck, Running, PollInv, PollTypes, ShownType
  <2>2. gen' \in Nat
    BY DEF ManualCheck, PollInv, PollTypes, ControllerTypes
  <2>3. Get(shown.id, TRUE) \in Gets
    BY <2>1, <2>2 DEF Get, Gets, Answers
  <2>4. reqs' \subseteq Gets
    BY <2>3 DEF ManualCheck, Aborted, PollInv, PollTypes, ControllerTypes
  <2>5. ControllerTypes'
    BY <2>1, <2>2, <2>4 DEF ManualCheck, ControllerTypes
  <2> QED
    BY <2>1, <2>2, <2>3, <2>4, <2>5 DEF ManualCheck, ShownType, ToldType, PollInv,
         PollTypes
<1>2. ReqInv'
  <2> DEFINE new == Get(shown.id, TRUE)
  <2>1. /\ shown.id \in Jobs /\ gen \in Nat /\ reqs \subseteq Gets
        /\ auth' = shown.id /\ ~timer' /\ live' /\ gen' = gen + 1
        /\ screen' = screen /\ screen = "artwork" /\ slow' = slow /\ slow
        /\ reqs' = Aborted \cup {new}
    BY DEF ManualCheck, Running, PollInv, PollTypes, ShownType, ControllerTypes
  <2>2. \A r \in Aborted : r.gen \in Nat /\ r.gen <= gen
    BY <2>1 DEF Aborted, PollInv, ReqInv, Gets
  <2>3. new.gen = gen'
    BY DEF Get
  <2> HIDE DEF new
  <2>6. gen \in Nat /\ gen' \in Nat /\ gen' = gen + 1
    BY <2>1
  <2>7. ASSUME NEW r \in Aborted PROVE r.gen <= gen' /\ r.gen # gen'
    <3>1. r.gen \in Nat /\ r.gen <= gen
      BY <2>2
    <3> QED
      BY <2>6, <3>1
  <2>4. \A r \in reqs' : r.gen <= gen' /\ (r.gen = gen' => r = new)
    BY <2>1, <2>3, <2>6, <2>7
  <2>5. auth' # null
    BY <2>1, PollingAssumption DEF PollingAssumption
  <2> QED
    BY <2>1, <2>4, <2>5 DEF ReqInv, Authorized
<1>3. PageInv'
  BY <1>1, PollingAssumption DEF PollingAssumption, ManualCheck, Get, Aborted, PollInv,
       PollTypes, ShownType, ToldType, ControllerTypes, Gets, ReqInv, Authorized,
       PageInv, ArtworkInv, BatchInv, WindowInv, Attended, EndTold, GaveUp, ToldOnce, Running
<1> QED
  BY <1>1, <1>2, <1>3 DEF PollInv

LEMMA BatchCancelledStep ==
  ASSUME PollInv, BatchCancelled
  PROVE  PollInv'
<1>1. PollTypes'
  <2>1. cancel.job \in Jobs /\ (cancel.answer # "error" => cancel.answer \in Statuses)
    BY DEF BatchCancelled, Answers, PollInv, PollTypes
  <2>2. ShownType'
    BY <2>1, ShowTypes DEF BatchCancelled, PollInv, PollTypes, ShownType
  <2>3. ControllerTypes' /\ ToldType'
    BY DEF BatchCancelled, controller, PollInv, PollTypes, ControllerTypes, ToldType
  <2> QED
    BY <2>1, <2>2, <2>3 DEF BatchCancelled, PollInv, PollTypes
<1>2. ReqInv'
  <2>1. UNCHANGED <<screen, mounted, slow, auth, gen, timer, live, reqs>>
    BY DEF BatchCancelled, controller
  <2> QED
    BY <2>1 DEF PollInv, ReqInv, Authorized
<1>3. PageInv'
  <2>1. /\ UNCHANGED <<screen, mounted, status, slow, submit, controller>>
        /\ screen = "batch" /\ shown # null /\ cancel' = null
    BY DEF BatchCancelled, PollInv, PollTypes, PageInv
  <2>2. shown' = shown \/ shown' = [id |-> cancel.job, status |-> cancel.answer]
    BY DEF BatchCancelled, Show
  <2>3. "lateCancel" \notin PollFaults => shown # null /\ shown.id = cancel.job
    BY <2>1 DEF BatchCancelled, PollInv, PageInv, BatchInv
  <2>4. ArtworkInv' /\ ToldOnce'
    BY <2>1 DEF ArtworkInv, ToldOnce, controller, PollInv, PageInv
  <2>5. BatchInv'
    <3>1. "lateCancel" \notin PollFaults /\ mounted => shown'.id = shown.id
      BY <2>2, <2>3
    <3>2. "lateCancel" \notin PollFaults /\ mounted => shown' # null
      BY <1>1, <2>1, <2>2, PollingAssumption DEF PollingAssumption, BatchCancelled, Show,
         PollInv, PollTypes, Answers, Statuses, Unanswered
    <3> QED
      BY <2>1, <3>1, <3>2 DEF BatchInv, controller, PollInv, PageInv
  <2>6. WindowInv'
    BY <2>1 DEF WindowInv, GaveUp, EndTold, controller, PollInv, PageInv
  <2>7. Attended'
    BY <2>1, <2>6 DEF WindowInv, Attended, Running, GaveUp, EndTold, controller
  <2> QED
    BY <2>1, <2>4, <2>5, <2>6, <2>7 DEF PageInv
<1> QED
  BY <1>1, <1>2, <1>3 DEF PollInv

LEMMA LeaveStep ==
  ASSUME PollInv, Leave
  PROVE  PollInv'
<1>1. PollTypes'
  <2>1. ControllerTypes' /\ ToldType'
    BY FreshTypes DEF Leave, PollInv, PollTypes
  <2> QED
    BY <2>1 DEF Leave, ShownType, PollInv, PollTypes
<1>2. ReqInv'
  BY <1>1 DEF Leave, Fresh, PollInv, PollTypes, ControllerTypes, Gets, ReqInv,
       Authorized
<1>3. PageInv'
  BY <1>1 DEF Leave, Fresh, PollInv, PollTypes, ShownType, ToldType,
       ControllerTypes, Gets, ReqInv, Authorized,
       PageInv, ArtworkInv, BatchInv, WindowInv, Attended, EndTold, GaveUp, ToldOnce, Running
<1> QED
  BY <1>1, <1>2, <1>3 DEF PollInv
-----------------------------------------------------------------------------
(* Polling: the theorems *)

LEMMA PollInitially == PollInit => PollInv
<1> SUFFICES ASSUME PollInit PROVE PollInv
  OBVIOUS
<1>1. PollTypes
  <2>1. ControllerTypes
    BY DEF PollInit, ControllerTypes
  <2>2. ShownType /\ ToldType
    BY DEF PollInit, ShownType, ToldType
  <2> QED
    BY <2>1, <2>2 DEF PollInit, PollTypes, Statuses
<1>2. ReqInv
  BY DEF PollInit, ReqInv
<1>3. PageInv
  BY DEF PollInit, PageInv, ArtworkInv, BatchInv, WindowInv, Attended, EndTold, ToldOnce, Running
<1> QED
  BY <1>1, <1>2, <1>3 DEF PollInv

LEMMA PollNextStep ==
  ASSUME PollInv, [PollNext]_pollVars
  PROVE  PollInv'
<1>1. CASE UNCHANGED pollVars
  <2>1. PollTypes' /\ Untouched
    BY <1>1 DEF pollVars, user, controller, Untouched, PollInv, PollTypes, ShownType,
         ToldType, ControllerTypes
  <2> QED
    BY <1>1, <2>1, UntouchedStep DEF pollVars, user
<1>2. CASE User
  BY <1>2, UntouchedSteps, NewArtworkStep, OpenBatchStep, ManualCheckStep,
       LeaveStep DEF User
<1>3. CASE Submitted
  BY <1>3, UntouchedSteps, ArtworkSubmittedStep, BatchSubmittedStep, BatchCancelledStep
       DEF Submitted
<1>4. ASSUME NEW r \in reqs, Serve(r) \/ Handle(r) PROVE PollInv'
  BY <1>4, ServeStep, DropLateStep, PollEndedStep, PollGoesOnStep, ManualAnsweredStep
       DEF Handle
<1> QED
  BY <1>1, <1>2, <1>3, <1>4, UntouchedSteps, PollStep, BatchTimeoutStep DEF PollNext

LEMMA PollInductive == PollSpec => []PollInv
<1>1. PollInv /\ [PollNext]_pollVars => PollInv'
  BY PollNextStep
<1> QED
  BY <1>1, PollInitially, PTL DEF PollSpec

(* Every variable keeps its type, and a completion is told at most once. *)
THEOREM PollingTypes == PollSpec => []PollTypes
<1>1. PollInv => PollTypes
  BY DEF PollInv
<1>2. PollSpec => []PollInv
  BY PollInductive
<1> QED
  BY <1>1, <1>2, PTL

(* Generations and aborted requests keep every late answer away from a page that
   has gone on, whatever is clicked and however answers are delayed; a batch
   opened while a cancel of another is on its way is the one exception
   (artwork-polling-controller.ts, batch-polling-controller.ts). *)
THEOREM PageIsFollowed ==
  ASSUME "lateCancel" \notin PollFaults
  PROVE  PollSpec => []FollowsWhatIsShown
<1>1. PollInv => FollowsWhatIsShown
  <2> SUFFICES ASSUME PollInv, mounted, timer \/ live
               PROVE  shown # null /\ shown.id = auth
    BY DEF FollowsWhatIsShown
  <2>1. screen = "artwork" \/ screen = "batch"
    BY DEF PollInv, PollTypes
  <2> QED
    BY <2>1 DEF PollInv, PageInv, ArtworkInv, BatchInv, Running
<1>2. PollSpec => []PollInv
  BY PollInductive
<1> QED
  BY <1>1, <1>2, PTL

(* A job that is shown running is asked about, or the page has said that it
   takes long, even with a check by hand that fails or comes too early; and a
   batch, unless its window has told the end before, or gave up: whatever a
   cancel answers, even after another batch was opened. *)
THEOREM RunningIsAttended == PollSpec => []Attended
<1>1. PollInv => Attended
  BY DEF PollInv, PageInv
<1>2. PollSpec => []PollInv
  BY PollInductive
<1> QED
  BY <1>1, <1>2, PTL

(* The set of the jobs that were told outlives every restart of the polls, so
   that a form sent again tells nothing twice and misses nothing. *)
THEOREM CompletionToldOnce == PollSpec => []ToldOnce
<1>1. PollInv => ToldOnce
  BY DEF PollInv, PageInv
<1>2. PollSpec => []PollInv
  BY PollInductive
<1> QED
  BY <1>1, <1>2, PTL

-----------------------------------------------------------------------------
(* DesignTemplates *)

USE DesignTemplatesAssumption

(* DesignTemplates: the inductive invariant *)

Row == [status : {"ABSENT", "ACTIVE", "ARCHIVED"}, latest : Version,
        key : SystemKeys \cup {none}]

RowTypes ==
  /\ template \in [Templates -> Row]
  /\ rowLock \in [Templates -> Handlers \cup {none}]
  /\ advisory \in Handlers \cup {none} /\ asked \in 0..MaxRequests

PageTypes ==
  /\ base \in Version /\ editing \in BOOLEAN
  /\ detail \in Detail \cup {none} /\ conflict \in Conflict \cup {none}
  /\ dreq \in Fetch \cup {none} /\ creq \in Fetch \cup {none}
  /\ saving \in Saving \cup {none}
  /\ sel \in Templates \cup {none} /\ active \in Templates \cup {none}

(* What a request may be doing: only the page sends a base that it shows, and it
   sends nothing else. *)
HandType(h, s) ==
  \/ \E a \in {"ok", "conflict", "refused"} : s = [pc |-> "done", answer |-> a]
  \/ s \in [pc : {"version"}, t : Templates, base : Version] /\ h = page
  \/ s \in [pc : {"insert"}, t : Templates, v : Version]
  \/ /\ h # page
     /\ \/ s \in [pc : {"update"}, t : Templates, status : {none, "ACTIVE", "ARCHIVED"},
                  admin : BOOLEAN]
        \/ s = [pc |-> "read"]
        \/ s \in [pc : {"defaults_create"}, missing : SUBSET SystemKeys]

(* A version that is being added holds the lock of its template, which is active
   with the version that was compared; who reactivates may; and the defaults
   that are missing stay so under the advisory lock. *)
HandHolds(h) ==
  LET s == hand[h] IN
  /\ s.pc = "insert" => /\ rowLock[s.t] = h
                        /\ template[s.t].status = "ACTIVE" /\ Latest(s.t) = s.v
  /\ s.pc = "update" => Exists(s.t) /\ (s.status = "ACTIVE" => s.admin)
  /\ s.pc \in {"read", "defaults_create"} => advisory = h
  /\ s.pc = "defaults_create" => s.missing \cap KeysOf = {}

HandsOK ==
  /\ hand = [h \in Handlers |-> hand[h]]
  /\ \A h \in Handlers : HandType(h, hand[h]) /\ HandHolds(h)

KeyInv ==
  /\ \A t \in Templates : ~Exists(t) => template[t].key = none /\ template[t].latest = 0
  /\ \A t, u \in Templates :
       template[t].key = template[u].key /\ t # u => template[t].key = none

ServerInv == RowTypes /\ PageTypes /\ HandsOK /\ KeyInv

(* The requests of others go on as they were when a step leaves their locks, and
   what they lock, alone. *)
LEMMA OneHand ==
  ASSUME HandsOK, NEW h \in Handlers, NEW s, hand' = [hand EXCEPT ![h] = s],
         HandType(h, s), HandHolds(h)',
         \A t \in Templates : rowLock[t] \notin {none, h} =>
           /\ rowLock'[t] = rowLock[t]
           /\ template[t].status = "ACTIVE" => template'[t] = template[t],
         \A t \in Templates : Exists(t) => template'[t].status # "ABSENT",
         advisory \notin {none, h} => advisory' = advisory /\ KeysOf' = KeysOf
  PROVE  HandsOK'
<1>1. hand' = [g \in Handlers |-> hand'[g]] /\ hand'[h] = s
  BY DEF HandsOK
<1>2. ASSUME NEW g \in Handlers, g # h
      PROVE  HandType(g, hand'[g]) /\ HandHolds(g)'
  <2>1. hand'[g] = hand[g] /\ HandType(g, hand[g]) /\ HandHolds(g) /\ g # none
    BY <1>2 DEF HandsOK
  <2>2. hand[g].pc \in {"insert", "update"} => hand[g].t \in Templates
    BY <2>1 DEF HandType
  <2> QED
    BY <1>2, <2>1, <2>2 DEF HandHolds, Latest, Exists
<1> QED
  BY <1>1, <1>2 DEF HandsOK

(* A request that ends. *)
LEMMA Answered3 ==
  ASSUME HandsOK, NEW h \in Handlers, NEW a \in {"ok", "conflict", "refused"}, Answer(h, a)
  PROVE  \E s : /\ hand' = [hand EXCEPT ![h] = s] /\ HandType(h, s) /\ s.pc = "done"
                /\ HandHolds(h)'
<1> DEFINE b == IF h = page \/ a = "duplicate key" THEN a ELSE "ok"
           s == [pc |-> "done", answer |-> b]
<1>1. hand' = [hand EXCEPT ![h] = s]
  BY DEF Answer
<1>2. HandType(h, s) /\ s.pc = "done"
  BY DEF HandType
<1>3. hand'[h] = s
  BY <1>1 DEF HandsOK
<1> HIDE DEF s
<1>4. HandHolds(h)'
  BY <1>2, <1>3 DEF HandHolds
<1> QED
  BY <1>1, <1>2, <1>4

LEMMA SameKeys ==
  ASSUME \A t \in Templates : template'[t].key = template[t].key
  PROVE  KeysOf' = KeysOf
BY DEF KeysOf

(* What a request does to a row: its status or its number, not its key. *)
LEMMA RowChanges ==
  ASSUME RowTypes, KeyInv, NEW t \in Templates, Exists(t), NEW r \in Row,
         r.key = template[t].key, r.status # "ABSENT",
         template' = [template EXCEPT ![t] = r]
  PROVE  /\ template' \in [Templates -> Row] /\ KeyInv' /\ KeysOf' = KeysOf
         /\ \A u \in Templates : Exists(u) => template'[u].status # "ABSENT"
<1>1. template' \in [Templates -> Row]
  BY DEF RowTypes
<1>2. \A u \in Templates : /\ template'[u].key = template[u].key
                           /\ template'[u].status = "ABSENT" => template'[u] = template[u]
  BY DEF RowTypes
<1>3. KeyInv'
  BY <1>2 DEF KeyInv, Exists
<1> QED
  BY <1>1, <1>2, <1>3, SameKeys DEF Exists

(* POST of a version. *)
LEMMA LockRowStep ==
  ASSUME ServerInv, NEW h \in Handlers, NEW t \in Templates, NEW b \in 1..MaxVersions,
         LockRow(h, t, b)
  PROVE  ServerInv'
<1>1. UNCHANGED <<template, advisory, view>> /\ asked' \in 0..MaxRequests
  BY DEF LockRow, AsksVersion, Asks, ServerInv, RowTypes
<1>2. /\ KeyInv' /\ KeysOf' = KeysOf /\ PageTypes'
      /\ \A u \in Templates : Exists(u) => template'[u].status # "ABSENT"
  BY <1>1 DEF ServerInv, KeyInv, Exists, KeysOf, PageTypes, view
<1>3. CASE /\ template[t].status = "ACTIVE" /\ Latest(t) = b
           /\ rowLock' = [rowLock EXCEPT ![t] = h]
           /\ Proceed(h, [pc |-> "insert", t |-> t, v |-> Latest(t)])
  <2> DEFINE s == [pc |-> "insert", t |-> t, v |-> Latest(t)]
  <2>1. rowLock' \in [Templates -> Handlers \cup {none}] /\ rowLock'[t] = h
        /\ \A u \in Templates \ {t} : rowLock'[u] = rowLock[u]
    BY <1>3 DEF ServerInv, RowTypes
  <2>2. Latest(t) \in Version
    BY DEF ServerInv, RowTypes, Row, Latest
  <2>3. HandType(h, s)
    BY <2>2 DEF HandType
  <2>4. hand' = [hand EXCEPT ![h] = s] /\ hand'[h] = s
    BY <1>3 DEF Proceed, ServerInv, HandsOK
  <2>5. HandHolds(h)'
    BY <1>1, <1>3, <2>1, <2>4 DEF HandHolds, Latest
  <2>6. rowLock[t] = none
    BY DEF LockRow
  <2> HIDE DEF s
  <2>7. HandsOK'
    BY <1>1, <1>2, <2>1, <2>3, <2>4, <2>5, <2>6, OneHand DEF ServerInv
  <2> QED
    BY <1>1, <1>2, <2>1, <2>7 DEF ServerInv, RowTypes
<1>4. ASSUME NEW a \in {"conflict", "refused"}, Answer(h, a), UNCHANGED rowLock
      PROVE  ServerInv'
  <2>1. HandsOK'
    BY <1>1, <1>2, <1>4, Answered3, OneHand DEF ServerInv
  <2> QED
    BY <1>1, <1>2, <1>4, <2>1 DEF ServerInv, RowTypes
<1> QED
  BY <1>3, <1>4 DEF LockRow

(* The insert of a version. *)
LEMMA InsertStep ==
  ASSUME ServerInv, NEW h \in Handlers, Insert(h)
  PROVE  /\ ServerInv'
         /\ LET t == hand[h].t IN
            /\ t \in Templates /\ template[t].status = "ACTIVE" /\ Latest(t) = hand[h].v
            /\ \A u \in Templates \ {t} : template'[u] = template[u]
            /\ template'[t].status = "ACTIVE"
<1> DEFINE t == hand[h].t
           r == [template[t] EXCEPT !.latest = hand[h].v + 1]
<1>1. /\ t \in Templates /\ hand[h].v \in Version /\ rowLock[t] = h
      /\ template[t].status = "ACTIVE" /\ Latest(t) = hand[h].v /\ hand[h].v < MaxVersions
      /\ template[t] \in Row
  BY DEF Insert, ServerInv, HandsOK, HandType, HandHolds, RowTypes
<1>2. r \in Row /\ r.key = template[t].key /\ r.status = "ACTIVE"
  BY <1>1 DEF Row, Version
<1>3. template' = [template EXCEPT ![t] = r]
  BY <1>1 DEF Insert, ServerInv, RowTypes
<1>4. \A u \in Templates \ {t} : template'[u] = template[u]
  BY <1>3 DEF ServerInv, RowTypes
<1>4a. template'[t] = r
  BY <1>1, <1>3 DEF ServerInv, RowTypes
<1> HIDE DEF r
<1>5. /\ template' \in [Templates -> Row] /\ KeyInv' /\ KeysOf' = KeysOf
      /\ \A u \in Templates : Exists(u) => template'[u].status # "ABSENT"
  BY <1>1, <1>2, <1>3, RowChanges DEF ServerInv, Exists
<1>6. /\ rowLock' \in [Templates -> Handlers \cup {none}]
      /\ \A u \in Templates \ {t} : rowLock'[u] = rowLock[u]
      /\ UNCHANGED <<advisory, asked, view>>
  BY DEF Insert, ServerInv, RowTypes
<1>7. HandsOK'
  <2>1. Answer(h, "ok")
    BY DEF Insert
  <2> HIDE DEF t
  <2> QED
    BY <1>1, <1>4, <1>5, <1>6, <2>1, Answered3, OneHand DEF ServerInv
<1>8. PageTypes'
  BY <1>6 DEF ServerInv, PageTypes, view
<1> QED
  BY <1>1, <1>2, <1>4, <1>4a, <1>5, <1>6, <1>7, <1>8 DEF ServerInv, RowTypes

(* PATCH, first the read and then the write. *)
LEMMA PatchReadStep ==
  ASSUME ServerInv, NEW h \in Handlers, NEW t \in Templates, NEW rename \in BOOLEAN,
         NEW admin \in BOOLEAN, NEW asks \in {none, "ACTIVE", "ARCHIVED"},
         PatchRead(h, t, rename, asks, admin)
  PROVE  ServerInv'
<1> DEFINE changed == asks # none /\ asks # template[t].status
           to == IF changed THEN asks ELSE none
           s == [pc |-> "update", t |-> t, admin |-> admin, status |-> to]
<1>1. UNCHANGED <<template, rowLock, advisory, view>> /\ asked' \in 0..MaxRequests
      /\ h # page
  BY DEF PatchRead, Asks, ServerInv, RowTypes
<1>2. /\ KeyInv' /\ KeysOf' = KeysOf /\ PageTypes'
      /\ \A u \in Templates : Exists(u) => template'[u].status # "ABSENT"
  BY <1>1 DEF ServerInv, KeyInv, Exists, KeysOf, PageTypes, view
<1>3. CASE Answer(h, "refused")
  <2>1. HandsOK'
    BY <1>1, <1>2, <1>3, Answered3, OneHand DEF ServerInv
  <2> QED
    BY <1>1, <1>2, <2>1 DEF ServerInv, RowTypes
<1>4. CASE ~(changed /\ asks = "ACTIVE" /\ ~admin) /\ Proceed(h, s)
  <2>1. hand' = [hand EXCEPT ![h] = s] /\ hand'[h] = s
    BY <1>4 DEF Proceed, ServerInv, HandsOK
  <2>2. s.pc = "update" /\ s.t = t /\ s.status = to /\ s.admin = admin
        /\ to \in {none, "ACTIVE", "ARCHIVED"}
    OBVIOUS
  <2>3. HandType(h, s)
    BY <1>1 DEF HandType
  <2>4. to = "ACTIVE" => admin
    <3>1. CASE changed
      BY <1>4, <3>1
    <3>2. CASE ~changed
      BY <1>4, <3>2
    <3> QED
      BY <3>1, <3>2
  <2> HIDE DEF s, to
  <2>5. HandHolds(h)'
    BY <1>1, <1>2, <2>1, <2>2, <2>4 DEF HandHolds, PatchRead, Exists
  <2>6. HandsOK'
    BY <1>1, <1>2, <2>1, <2>3, <2>5, OneHand DEF ServerInv
  <2> QED
    BY <1>1, <1>2, <2>6 DEF ServerInv, RowTypes
<1> QED
  BY <1>3, <1>4 DEF PatchRead

LEMMA PatchWriteStep ==
  ASSUME ServerInv, NEW h \in Handlers, PatchWrite(h)
  PROVE  /\ ServerInv'
         /\ hand[h].pc = "update" /\ hand[h].t \in Templates
         /\ \A u \in Templates \ {hand[h].t} : template'[u] = template[u]
         /\ template'[hand[h].t].latest = template[hand[h].t].latest
         /\ template[hand[h].t].status = "ARCHIVED" /\ template'[hand[h].t].status = "ACTIVE" =>
              hand[h].admin
<1> DEFINE t == hand[h].t
           to == hand[h].status
           r == [template[t] EXCEPT !.status = to]
<1>1. /\ hand[h].pc = "update" /\ t \in Templates /\ template[t] \in Row
      /\ to \in {none, "ACTIVE", "ARCHIVED"} /\ (to = "ACTIVE" => hand[h].admin)
      /\ Exists(t)
  BY DEF PatchWrite, ServerInv, HandsOK, HandType, HandHolds, RowTypes
<1>2. /\ rowLock[t] = none /\ UNCHANGED <<rowLock, advisory, asked, view>>
      /\ template' = IF to = none THEN template ELSE [template EXCEPT ![t] = r]
      /\ Answer(h, "ok")
  BY <1>1 DEF PatchWrite, ServerInv, RowTypes
<1>3. PageTypes'
  BY <1>2 DEF ServerInv, PageTypes, view
<1>4. CASE to = none
  <2>1. template' = template
    BY <1>2, <1>4
  <2>2. /\ KeyInv' /\ KeysOf' = KeysOf
        /\ \A u \in Templates : Exists(u) => template'[u].status # "ABSENT"
    BY <2>1 DEF ServerInv, KeyInv, Exists, KeysOf
  <2>3. HandsOK'
    BY <1>2, <2>1, <2>2, Answered3, OneHand DEF ServerInv
  <2> QED
    BY <1>1, <1>2, <1>3, <2>1, <2>2, <2>3 DEF ServerInv, RowTypes
<1>5. CASE to # none
  <2>1. r \in Row /\ r.key = template[t].key /\ r.status = to /\ to # "ABSENT"
        /\ r.latest = template[t].latest
    BY <1>1, <1>5 DEF Row
  <2>2. template' = [template EXCEPT ![t] = r]
    BY <1>2, <1>5
  <2> HIDE DEF r
  <2>3. /\ template' \in [Templates -> Row] /\ KeyInv' /\ KeysOf' = KeysOf
        /\ \A u \in Templates : Exists(u) => template'[u].status # "ABSENT"
    BY <1>1, <1>5, <2>1, <2>2, RowChanges DEF ServerInv
  <2>4. template'[t] = r /\ \A u \in Templates \ {t} : template'[u] = template[u]
    BY <1>1, <2>2 DEF ServerInv, RowTypes
  <2>5. HandsOK'
    BY <1>1, <1>2, <2>3, <2>4, Answered3, OneHand DEF ServerInv
  <2> QED
    BY <1>1, <1>2, <1>3, <2>1, <2>3, <2>4, <2>5 DEF ServerInv, RowTypes
<1> QED
  BY <1>4, <1>5

(* POST default. *)
LEMMA DefaultsLockStep ==
  ASSUME ServerInv, NEW h \in Handlers, DefaultsLock(h)
  PROVE  ServerInv'
<1> DEFINE s == [pc |-> "read"]
<1>1. /\ UNCHANGED <<template, rowLock, view>> /\ asked' \in 0..MaxRequests /\ h # page
      /\ advisory = none /\ advisory' = h
      /\ hand' = [hand EXCEPT ![h] = s] /\ hand'[h] = s
  BY DEF DefaultsLock, Asks, Proceed, ServerInv, RowTypes, HandsOK
<1>2. /\ KeyInv' /\ KeysOf' = KeysOf /\ PageTypes'
      /\ \A u \in Templates : Exists(u) => template'[u].status # "ABSENT"
  BY <1>1 DEF ServerInv, KeyInv, Exists, KeysOf, PageTypes, view
<1>3. HandType(h, s) /\ s.pc = "read"
  BY <1>1 DEF HandType
<1> HIDE DEF s
<1>4. HandHolds(h)'
  BY <1>1, <1>3 DEF HandHolds
<1>5. HandsOK'
  BY <1>1, <1>2, <1>3, <1>4, OneHand DEF ServerInv
<1> QED
  BY <1>1, <1>2, <1>5 DEF ServerInv, RowTypes

LEMMA DefaultsReadStep ==
  ASSUME ServerInv, NEW h \in Handlers, DefaultsRead(h)
  PROVE  ServerInv'
<1> DEFINE s == [pc |-> "defaults_create", missing |-> SystemKeys \ KeysOf]
<1>0. HandType(h, hand[h]) /\ HandHolds(h) /\ hand[h].pc = "read"
  BY DEF DefaultsRead, ServerInv, HandsOK
<1>1. /\ UNCHANGED <<server, view>> /\ h # page /\ advisory = h
      /\ hand' = [hand EXCEPT ![h] = s] /\ hand'[h] = s
  BY <1>0 DEF DefaultsRead, Proceed, ServerInv, HandsOK, HandType, HandHolds
<1>2. /\ KeyInv' /\ KeysOf' = KeysOf /\ PageTypes' /\ RowTypes'
      /\ \A u \in Templates : Exists(u) => template'[u].status # "ABSENT"
  BY <1>1 DEF ServerInv, KeyInv, Exists, KeysOf, PageTypes, RowTypes, view, server
<1>3. HandType(h, s) /\ s.pc = "defaults_create" /\ s.missing \cap KeysOf = {}
  BY <1>1 DEF HandType
<1> HIDE DEF s
<1>4. HandHolds(h)'
  BY <1>1, <1>2, <1>3 DEF HandHolds, server
<1>5. HandsOK'
  BY <1>1, <1>2, <1>3, <1>4, OneHand DEF ServerInv, server
<1> QED
  BY <1>1, <1>2, <1>5 DEF ServerInv

(* What was missing is still missing: the insert of the defaults succeeds, into
   rows that were not there. *)
LEMMA DefaultsCreateStep ==
  ASSUME ServerInv, NEW h \in Handlers, DefaultsCreate(h)
  PROVE  /\ ServerInv'
         /\ \A t \in Templates : Exists(t) => template'[t] = template[t]
<1> DEFINE missing == hand[h].missing
<1>0. HandType(h, hand[h]) /\ HandHolds(h) /\ hand[h].pc = "defaults_create"
  BY DEF DefaultsCreate, ServerInv, HandsOK
<1>1. missing \subseteq SystemKeys /\ missing \cap KeysOf = {} /\ advisory = h
  BY <1>0 DEF HandType, HandHolds
<1>2. PICK id \in [missing -> {t \in Templates : ~Exists(t)}] :
        /\ \A k1, k2 \in missing : id[k1] = id[k2] => k1 = k2
        /\ template' = [t \in Templates |->
             IF \E k \in missing : id[k] = t
             THEN New(CHOOSE k \in missing : id[k] = t) ELSE template[t]]
  BY <1>1 DEF DefaultsCreate
<1>3. Answer(h, "ok") /\ advisory' = none /\ UNCHANGED <<rowLock, asked, view>>
  BY <1>1 DEF DefaultsCreate
<1>4. ASSUME NEW k \in missing
      PROVE  id[k] \in Templates /\ ~Exists(id[k]) /\ template'[id[k]] = New(k)
  <2>1. id[k] \in Templates /\ ~Exists(id[k])
    BY <1>2
  <2>2. (CHOOSE l \in missing : id[l] = id[k]) = k
    BY <1>2
  <2> QED
    BY <1>2, <2>1, <2>2
<1>5. ASSUME NEW t \in Templates, \A k \in missing : id[k] # t
      PROVE  template'[t] = template[t]
  BY <1>2, <1>5
<1>6. \A k \in missing : /\ New(k) \in Row /\ New(k).key = k /\ k # none /\ k \notin KeysOf
                         /\ New(k).status = "ACTIVE"
  BY <1>1 DEF New, Row, Version
<1>7. template' \in [Templates -> Row]
  <2>1. \A t \in Templates : template'[t] \in Row
    BY <1>4, <1>5, <1>6 DEF ServerInv, RowTypes
  <2> QED
    BY <1>2, <2>1
<1>8. \A t \in Templates : Exists(t) => template'[t] = template[t]
  BY <1>4, <1>5
<1>9. KeyInv'
  <2>1. ASSUME NEW t \in Templates
        PROVE  \/ template'[t] = template[t] /\ \A k \in missing : id[k] # t
               \/ \E k \in missing : id[k] = t /\ template'[t] = New(k)
    BY <1>4, <1>5
  <2>2. ASSUME NEW t \in Templates
        PROVE  template[t].key \in KeysOf \cup {none}
    BY DEF KeysOf
  <2>3. ASSUME NEW t \in Templates, template'[t].status = "ABSENT"
        PROVE  template'[t].key = none /\ template'[t].latest = 0
    <3>1. template'[t] = template[t]
      BY <1>6, <2>1, <2>3
    <3> QED
      BY <2>3, <3>1 DEF ServerInv, KeyInv, Exists, Latest
  <2>4. ASSUME NEW t \in Templates, NEW u \in Templates,
               template'[t].key = template'[u].key, t # u
        PROVE  template'[t].key = none
    <3>1. CASE template'[t] = template[t] /\ template'[u] = template[u]
      BY <2>4, <3>1 DEF ServerInv, KeyInv
    <3>2. CASE \E k \in missing : id[k] = t /\ template'[t] = New(k)
      <4>1. PICK k \in missing : id[k] = t /\ template'[t] = New(k)
        BY <3>2
      <4>2. CASE template'[u] = template[u]
        BY <1>6, <2>2, <2>4, <4>1, <4>2
      <4>3. CASE \E l \in missing : id[l] = u /\ template'[u] = New(l)
        BY <1>6, <2>4, <4>1, <4>3
      <4> QED
        BY <2>1, <4>2, <4>3
    <3>3. CASE template'[t] = template[t] /\ \E l \in missing : id[l] = u /\ template'[u] = New(l)
      BY <1>6, <2>2, <2>4, <3>3
    <3> QED
      BY <2>1, <3>1, <3>2, <3>3
  <2> QED
    BY <2>3, <2>4 DEF KeyInv, Exists, Latest
<1>10. HandsOK'
  <2>1. \A t \in Templates : template[t].status = "ACTIVE" => template'[t] = template[t]
    BY <1>8 DEF Exists
  <2>2. \A t \in Templates : Exists(t) => template'[t].status # "ABSENT"
    BY <1>8 DEF Exists
  <2>3. rowLock' = rowLock
    BY <1>3
  <2> QED
    BY <1>1, <1>3, <2>1, <2>2, <2>3, Answered3, OneHand DEF ServerInv
<1>11. PageTypes' /\ RowTypes'
  BY <1>3, <1>7 DEF ServerInv, PageTypes, RowTypes, view
<1> QED
  BY <1>8, <1>9, <1>10, <1>11 DEF ServerInv

(* POST, POST duplicate. *)
LEMMA CreateStep ==
  ASSUME ServerInv, NEW h \in Handlers, NEW t \in Templates, Create(h, t)
  PROVE  /\ ServerInv'
         /\ \A u \in Templates : Exists(u) => template'[u] = template[u]
<1>1. /\ ~Exists(t) /\ template' = [template EXCEPT ![t] = New(none)]
      /\ UNCHANGED <<rowLock, advisory, view>> /\ asked' \in 0..MaxRequests /\ Answer(h, "ok")
  BY DEF Create, Asks, ServerInv, RowTypes
<1>2. New(none) \in Row /\ New(none).key = none /\ New(none).status = "ACTIVE"
  BY DEF New, Row, Version
<1>3. /\ template' \in [Templates -> Row] /\ template'[t] = New(none)
      /\ \A u \in Templates \ {t} : template'[u] = template[u]
  BY <1>1, <1>2 DEF ServerInv, RowTypes
<1>4. \A u \in Templates : template'[u].key = template[u].key
  BY <1>1, <1>2, <1>3 DEF ServerInv, KeyInv
<1>5. \A u \in Templates : Exists(u) => template'[u] = template[u]
  BY <1>1, <1>3
<1>6. KeyInv'
  BY <1>2, <1>3, <1>4 DEF ServerInv, KeyInv, Exists
<1>7. HandsOK'
  <2>1. KeysOf' = KeysOf
    BY <1>4, SameKeys
  <2>2. \A u \in Templates : template[u].status = "ACTIVE" => template'[u] = template[u]
    BY <1>5 DEF Exists
  <2>3. \A u \in Templates : Exists(u) => template'[u].status # "ABSENT"
    BY <1>5 DEF Exists
  <2>4. rowLock' = rowLock /\ advisory' = advisory
    BY <1>1
  <2> QED
    BY <1>1, <2>1, <2>2, <2>3, <2>4, Answered3, OneHand DEF ServerInv
<1>8. PageTypes' /\ RowTypes'
  BY <1>1, <1>3 DEF ServerInv, PageTypes, RowTypes, view
<1> QED
  BY <1>5, <1>6, <1>7, <1>8 DEF ServerInv

LEMMA FailStep ==
  ASSUME ServerInv, NEW h \in Handlers, Fail(h)
  PROVE  ServerInv'
<1>1. /\ UNCHANGED <<template, asked, view>> /\ Answer(h, "refused")
      /\ rowLock' = [t \in Templates |-> IF rowLock[t] = h THEN none ELSE rowLock[t]]
      /\ advisory' = IF advisory = h THEN none ELSE advisory
  BY DEF Fail
<1>2. /\ KeyInv' /\ KeysOf' = KeysOf /\ PageTypes' /\ RowTypes'
      /\ \A u \in Templates : Exists(u) => template'[u].status # "ABSENT"
  BY <1>1 DEF ServerInv, KeyInv, Exists, KeysOf, PageTypes, RowTypes, view
<1>3. \A t \in Templates : rowLock[t] \notin {none, h} => rowLock'[t] = rowLock[t]
  BY <1>1
<1>4. HandsOK'
  BY <1>1, <1>2, <1>3, Answered3, OneHand DEF ServerInv
<1> QED
  BY <1>2, <1>4 DEF ServerInv

(* The page touches nothing of the server but its own request. *)
LEMMA PageHand ==
  ASSUME ServerInv, UNCHANGED server, NEW s, hand' = [hand EXCEPT ![page] = s],
         HandType(page, s), s.pc \in {"version", "done"}
  PROVE  HandsOK'
<1>1. page \in Handlers /\ hand'[page] = s
  BY DEF Handlers, ServerInv, HandsOK
<1>2. HandHolds(page)'
  BY <1>1 DEF HandHolds
<1>3. KeysOf' = KeysOf /\ UNCHANGED <<template, rowLock, advisory>>
  BY DEF KeysOf, server
<1>4. \A u \in Templates : Exists(u) => template'[u].status # "ABSENT"
  BY <1>3 DEF Exists
<1> QED
  BY <1>1, <1>2, <1>3, <1>4, OneHand DEF ServerInv

LEMMA AnsweredHand ==
  ASSUME ServerInv, NEW pc, hand[page].pc = "done", Answered(pc)
  PROVE  \E s : hand' = [hand EXCEPT ![page] = s] /\ HandType(page, s) /\ s.pc = "done"
<1>1. page \in Handlers
  BY DEF Handlers
<1>2. PICK a \in {"ok", "conflict", "refused"} : hand[page] = [pc |-> "done", answer |-> a]
  BY <1>1 DEF ServerInv, HandsOK, HandType
<1> DEFINE s == [pc |-> "done", answer |-> "ok"]
<1>3. [hand[page] EXCEPT !.answer = "ok"] = s
  BY <1>2
<1>4. hand' = [hand EXCEPT ![page] = s]
  BY <1>3, <1>1 DEF Answered, ServerInv, HandsOK
<1>5. HandType(page, s) /\ s.pc = "done"
  BY DEF HandType
<1> QED
  BY <1>4, <1>5

LEMMA PageServer ==
  ASSUME ServerInv, Page
  PROVE  /\ UNCHANGED server /\ HandsOK'
         /\ hand' = hand \/ Save \/ (hand[page].pc = "done" /\ hand'[page].pc = "done")
<1>0. page \in Handlers
  BY DEF Handlers
<1>1. CASE hand' = hand
  <2>1. UNCHANGED server
    BY <1>1 DEF Page, Back, StartEdit, CancelEdit, Save, Retry, Reapply, Discard, SelectCreated,
         Select, GetDetail, DetailArrives, DetailFails, GetForConflict, ConflictArrives,
         ConflictFails, SaveSucceeds, SaveConflicts, SaveFails, SaveEnds
  <2>2. KeysOf' = KeysOf
    BY <2>1 DEF KeysOf, server
  <2>3. HandsOK'
    BY <1>1, <2>1, <2>2 DEF ServerInv, HandsOK, HandHolds, Latest, Exists, server
  <2> QED
    BY <1>1, <2>1, <2>3
<1>2. CASE Save
  <2> DEFINE s == [pc |-> "version", t |-> detail.id, base |-> base]
  <2>1. UNCHANGED server /\ hand' = [hand EXCEPT ![page] = s]
    BY <1>2 DEF Save, Proceed
  <2>2. HandType(page, s) /\ s.pc = "version"
    BY <1>2 DEF Save, HandType, ServerInv, PageTypes, Detail
  <2> HIDE DEF s
  <2> QED
    BY <1>2, <2>1, <2>2, PageHand
<1>3. CASE SaveSucceeds \/ SaveConflicts \/ SaveFails
  <2>1. UNCHANGED server /\ hand[page].pc = "done" /\ \E pc : Answered(pc)
    BY <1>3 DEF SaveSucceeds, SaveConflicts, SaveFails
  <2>2. PICK s : hand' = [hand EXCEPT ![page] = s] /\ HandType(page, s) /\ s.pc = "done"
    BY <2>1, AnsweredHand
  <2>3. hand'[page] = s
    BY <1>0, <2>2 DEF ServerInv, HandsOK
  <2> QED
    BY <2>1, <2>2, <2>3, PageHand
<1> QED
  BY <1>1, <1>2, <1>3 DEF Page, Back, StartEdit, CancelEdit, Retry, Reapply, Discard,
     SelectCreated, Select, GetDetail, DetailArrives, DetailFails, GetForConflict,
     ConflictArrives, ConflictFails, SaveEnds

LEMMA PageTypesStep ==
  ASSUME ServerInv, Page
  PROVE  PageTypes'
<1>0. PageTypes /\ \A t \in Templates : Latest(t) \in Version
  BY DEF ServerInv, RowTypes, Row, Latest
<1>1. 0 \in Version
  BY DEF Version
<1>2. CASE Back \/ StartEdit \/ CancelEdit
  BY <1>0, <1>2 DEF Back, StartEdit, CancelEdit, PageTypes, Detail
<1>3. CASE \E t \in Templates : SelectCreated(t) \/ \E edit \in BOOLEAN : Select(t, edit)
  BY <1>0, <1>1, <1>3 DEF SelectCreated, Select, RequestDetail, PageTypes, Fetch
<1>4. CASE Save
  BY <1>0, <1>4 DEF Save, PageTypes, Detail, Saving
<1>5. CASE Retry
  BY <1>0, <1>1, <1>5 DEF Retry, RequestConflict, PageTypes, Detail, Conflict, Fetch
<1>6. CASE Reapply \/ Discard
  BY <1>0, <1>6 DEF Reapply, Discard, Loaded, PageTypes, Conflict
<1>7. CASE GetDetail \/ DetailFails
  <2>1. dreq # none => dreq \in Fetch /\ Latest(dreq.t) \in Version
    BY <1>0 DEF PageTypes, Fetch
  <2>2. dreq # none => [dreq EXCEPT !.v = Latest(dreq.t)] \in Fetch
    BY <2>1 DEF Fetch
  <2>3. /\ dreq' \in Fetch \cup {none}
        /\ UNCHANGED <<sel, detail, editing, base, conflict, active, creq, saving>>
    BY <1>7, <2>2 DEF GetDetail, DetailFails
  <2> QED
    BY <1>0, <2>3 DEF PageTypes
<1>8. CASE DetailArrives
  <2>1. dreq # none => [id |-> dreq.t, v |-> dreq.v] \in Detail /\ dreq.v \in Version
    BY <1>0 DEF PageTypes, Fetch, Detail
  <2>2. /\ dreq' = none /\ UNCHANGED <<sel, active, creq, saving>>
        /\ detail' \in Detail \cup {none} /\ base' \in Version /\ editing' \in BOOLEAN
        /\ conflict' \in Conflict \cup {none}
    BY <1>0, <1>8, <2>1 DEF DetailArrives, PageTypes
  <2> QED
    BY <1>0, <2>2 DEF PageTypes
<1>9. CASE GetForConflict
  <2>1. creq # none => creq \in Fetch /\ Latest(creq.t) \in Version
    BY <1>0 DEF PageTypes, Fetch
  <2>2. creq # none => [creq EXCEPT !.v = Latest(creq.t)] \in Fetch
    BY <2>1 DEF Fetch
  <2>3. /\ creq' \in Fetch \cup {none}
        /\ UNCHANGED <<sel, detail, editing, base, conflict, active, dreq, saving>>
    BY <1>9, <2>2 DEF GetForConflict
  <2> QED
    BY <1>0, <2>3 DEF PageTypes
<1>10. CASE ConflictArrives
  <2>1. creq # none => /\ [server |-> creq.v, error |-> FALSE, loading |-> FALSE] \in Conflict
                       /\ detail # none => [detail EXCEPT !.v = creq.v] \in Detail
    BY <1>0 DEF PageTypes, Fetch, Detail, Conflict
  <2>2. /\ creq' = none /\ UNCHANGED <<sel, editing, base, active, dreq, saving>>
        /\ detail' \in Detail \cup {none} /\ conflict' \in Conflict \cup {none}
    BY <1>0, <1>10, <2>1 DEF ConflictArrives, PageTypes
  <2> QED
    BY <1>0, <2>2 DEF PageTypes
<1>11. CASE ConflictFails
  BY <1>0, <1>1, <1>11 DEF ConflictFails, PageTypes, Conflict
<1>12. CASE SaveSucceeds
  BY <1>0, <1>1, <1>12 DEF SaveSucceeds, InFlight, RequestDetail, Answered, PageTypes,
     Saving, Fetch
<1>13. CASE SaveConflicts
  BY <1>0, <1>1, <1>13 DEF SaveConflicts, InFlight, RequestConflict, Answered, PageTypes,
     Saving, Fetch, Conflict
<1>14. CASE SaveFails \/ SaveEnds
  BY <1>0, <1>14 DEF SaveFails, SaveEnds, Answered, PageTypes
<1> QED
  BY <1>2, <1>3, <1>4, <1>5, <1>6, <1>7, <1>8, <1>9, <1>10, <1>11, <1>12, <1>13, <1>14
     DEF Page

LEMMA ServerStep ==
  ASSUME ServerInv, [Next]_vars
  PROVE  ServerInv'
<1>1. CASE Page
  <2>1. UNCHANGED server /\ HandsOK' /\ PageTypes'
    BY <1>1, PageServer, PageTypesStep
  <2>2. RowTypes' /\ KeyInv'
    BY <2>1 DEF ServerInv, RowTypes, KeyInv, Exists, server
  <2> QED
    BY <2>1, <2>2 DEF ServerInv
<1>2. ASSUME NEW h \in Handlers, Request(h)
      PROVE  ServerInv'
  BY <1>2, LockRowStep, InsertStep, PatchReadStep, PatchWriteStep, DefaultsLockStep,
     DefaultsReadStep, DefaultsCreateStep, CreateStep, FailStep DEF Request
<1>3. CASE UNCHANGED vars
  BY <1>3 DEF vars, server, view, ServerInv, RowTypes, PageTypes, HandsOK, HandHolds, KeyInv,
              KeysOf, Exists, Latest
<1> QED
  BY <1>1, <1>2, <1>3 DEF Next

LEMMA ServerInitially == Init => ServerInv
<1> SUFFICES ASSUME Init PROVE ServerInv
  OBVIOUS
<1>1. PICK n \in [Templates -> 0..1] :
        template = [t \in Templates |-> IF n[t] = 0 THEN Absent ELSE New(none)]
  BY DEF Init
<1>2. /\ Absent \in Row /\ Absent.key = none /\ Absent.latest = 0
      /\ New(none) \in Row /\ New(none).key = none /\ New(none).status = "ACTIVE"
  BY DEF Absent, New, Row, Version
<1>3. \A t \in Templates :
        /\ template[t] \in Row /\ template[t].key = none
        /\ template[t].status = "ABSENT" => template[t].latest = 0
  BY <1>1, <1>2
<1>6. RowTypes /\ KeyInv
  <2>1. template \in [Templates -> Row] /\ rowLock \in [Templates -> Handlers \cup {none}]
    BY <1>1, <1>3 DEF Init
  <2>2. advisory = none /\ asked \in 0..MaxRequests
    BY DEF Init
  <2> QED
    BY <1>3, <2>1, <2>2 DEF RowTypes, KeyInv, Exists
<1>4. PageTypes
  <2>1. /\ base = 0 /\ 0 \in Version /\ editing = FALSE
        /\ \A x \in {sel, detail, conflict, active, dreq, creq, saving} : x = none
    BY DEF Init, Version
  <2> QED
    BY <2>1 DEF PageTypes
<1>5. HandsOK
  BY DEF Init, HandsOK, HandType, HandHolds
<1> QED
  BY <1>4, <1>5, <1>6 DEF ServerInv

LEMMA ServerInductive == Spec => []ServerInv
BY ServerInitially, ServerStep, PTL DEF Spec

(* While a save is on its way its template is shown, and what the request
   carries is the version that was shown when the save began. *)
SaveInv ==
  /\ InFlight => detail # none /\ detail.id = saving.t
  /\ hand[page].pc = "version" => InFlight /\ hand[page].base = saving.shown
  /\ hand[page].pc = "insert" => InFlight /\ hand[page].v = saving.shown

(* A draft stands on the latest version that was shown, unless a conflict is on
   the screen, and a conflict that is loaded shows that version. *)
ShownInv ==
  /\ creq # none => active = creq.t /\ detail # none /\ detail.id = creq.t
  /\ detail # none /\ editing /\ conflict = none => base = detail.v
  /\ detail # none /\ Loaded => conflict.server = detail.v

LEMMA PageShownStep ==
  ASSUME ServerInv, SaveInv, ShownInv, "leaveWhileSaving" \notin Faults, Page
  PROVE  (SaveInv /\ ShownInv)'
<1>0. PageTypes
  BY DEF ServerInv
<1>h. \/ hand' = hand
      \/ Save
      \/ hand[page].pc = "done" /\ hand'[page].pc = "done"
  BY PageServer
<1>m. MayLeave => ~InFlight
  BY DEF MayLeave
<1>1. ASSUME hand' = hand \/ (hand[page].pc = "done" /\ hand'[page].pc = "done"),
             saving' = saving,
             InFlight => detail' # none /\ detail'.id = saving.t
      PROVE  SaveInv'
  BY <1>1 DEF SaveInv, InFlight
<1>2. CASE Back \/ StartEdit \/ CancelEdit
  <2>1. SaveInv'
    BY <1>h, <1>m, <1>1, <1>2 DEF Back, StartEdit, CancelEdit, Save, SaveInv
  <2>2. ShownInv'
    BY <1>2 DEF Back, StartEdit, CancelEdit, ShownInv, Loaded
  <2> QED
    BY <2>1, <2>2
<1>3. CASE \E t \in Templates : SelectCreated(t) \/ \E edit \in BOOLEAN : Select(t, edit)
  <2>1. SaveInv'
    BY <1>h, <1>m, <1>1, <1>3 DEF SelectCreated, Select, SaveInv
  <2>2. ShownInv'
    BY <1>3 DEF SelectCreated, Select, RequestDetail, ShownInv, Loaded
  <2> QED
    BY <2>1, <2>2
<1>4. CASE Save
  <2> DEFINE s == [pc |-> "version", t |-> detail.id, base |-> base]
             n == [pc |-> "request", t |-> detail.id, shown |-> detail.v]
  <2>1. /\ detail # none /\ base = detail.v /\ n \in Saving
        /\ saving' = n /\ hand'[page] = s
        /\ UNCHANGED <<detail, editing, base, conflict, active, creq>>
    BY <1>0, <1>4 DEF Save, Proceed, ShownInv, Handlers, ServerInv, HandsOK, PageTypes,
       Detail, Saving
  <2>2. /\ n # none /\ n.pc = "request" /\ n.t = detail.id /\ n.shown = detail.v
        /\ s.pc = "version" /\ s.base = base
    BY <2>1
  <2> HIDE DEF s, n
  <2>3. SaveInv'
    BY <2>1, <2>2 DEF SaveInv, InFlight
  <2>4. ShownInv'
    BY <2>1 DEF ShownInv, Loaded
  <2> QED
    BY <2>3, <2>4
<1>c. ASSUME NEW t, RequestConflict(t), detail # none, detail.id = t,
             UNCHANGED <<detail, editing, base>>
      PROVE  ShownInv'
  <2>1. creq' # none => active' = creq'.t /\ creq'.t = t
    BY <1>c DEF RequestConflict
  <2>2. conflict' \in Conflict /\ conflict'.loading
    <3>1. CASE conflict = none
      <4>1. conflict' = [server |-> 0, error |-> FALSE, loading |-> TRUE]
        BY <1>c, <3>1 DEF RequestConflict
      <4>2. 0 \in Version
        BY DEF Version
      <4> QED
        BY <4>1, <4>2 DEF Conflict
    <3>2. CASE conflict \in Conflict
      <4>1. conflict' = [[conflict EXCEPT !.loading = TRUE] EXCEPT !.error = FALSE]
        BY <1>c, <3>2 DEF RequestConflict
      <4> QED
        BY <3>2, <4>1 DEF Conflict
    <3> QED
      BY <1>0, <3>1, <3>2 DEF PageTypes
  <2>3. ~Loaded' /\ conflict' # none
    BY <2>2 DEF Loaded
  <2> QED
    BY <1>c, <2>1, <2>3 DEF ShownInv
<1>5. CASE Retry
  <2>1. SaveInv'
    BY <1>h, <1>1, <1>5 DEF Retry, SaveInv
  <2>2. ShownInv'
    BY <1>c, <1>5 DEF Retry
  <2> QED
    BY <2>1, <2>2
<1>6. CASE Reapply \/ Discard
  <2>1. SaveInv'
    BY <1>h, <1>1, <1>6 DEF Reapply, Discard, SaveInv
  <2>2. ShownInv'
    BY <1>6 DEF Reapply, Discard, ShownInv, Loaded
  <2> QED
    BY <2>1, <2>2
<1>7. CASE GetDetail \/ DetailFails
  <2>1. SaveInv'
    BY <1>h, <1>1, <1>7 DEF GetDetail, DetailFails, SaveInv
  <2>2. ShownInv'
    BY <1>7 DEF GetDetail, DetailFails, ShownInv, Loaded
  <2> QED
    BY <2>1, <2>2
<1>8. CASE DetailArrives
  <2>1. CASE active = dreq.t
    <3> DEFINE d == [id |-> dreq.t, v |-> dreq.v]
    <3>1. /\ d \in Detail /\ detail' = d /\ base' = dreq.v /\ editing' = FALSE
          /\ conflict' = none /\ UNCHANGED <<active, creq, saving>>
          /\ (detail # none /\ detail.id # dreq.t => ~InFlight)
      BY <1>0, <1>8, <1>m, <2>1 DEF DetailArrives, PageTypes, Fetch, Detail
    <3>2. d # none /\ d.id = dreq.t
      BY <3>1
    <3> HIDE DEF d
    <3>3. SaveInv'
      BY <1>h, <1>1, <1>8, <3>1, <3>2 DEF SaveInv, DetailArrives
    <3>4. ShownInv'
      BY <2>1, <3>1, <3>2 DEF ShownInv, Loaded
    <3> QED
      BY <3>3, <3>4
  <2>2. CASE active # dreq.t
    <3>1. SaveInv'
      BY <1>h, <1>1, <1>8, <2>2 DEF DetailArrives, SaveInv
    <3>2. ShownInv'
      BY <1>8, <2>2 DEF DetailArrives, ShownInv, Loaded
    <3> QED
      BY <3>1, <3>2
  <2> QED
    BY <2>1, <2>2
<1>9. CASE GetForConflict
  <2>1. SaveInv'
    BY <1>h, <1>1, <1>9 DEF GetForConflict, SaveInv
  <2>2. creq # none /\ creq'.t = creq.t
    BY <1>0, <1>9 DEF GetForConflict, PageTypes, Fetch
  <2>3. ShownInv'
    BY <1>9, <2>2 DEF GetForConflict, ShownInv, Loaded
  <2> QED
    BY <2>1, <2>3
<1>10. CASE ConflictArrives
  <2> DEFINE c == [server |-> creq.v, error |-> FALSE, loading |-> FALSE]
             d == [detail EXCEPT !.v = creq.v]
  <2>1. /\ creq # none /\ active = creq.t /\ detail \in Detail /\ detail # none
        /\ detail.id = creq.t /\ creq \in Fetch
    BY <1>0, <1>10 DEF ConflictArrives, ShownInv, PageTypes
  <2>2. /\ creq' = none /\ conflict' = c /\ detail' = d
        /\ UNCHANGED <<editing, base, active, saving>>
    BY <1>10, <2>1 DEF ConflictArrives
  <2>3. c \in Conflict /\ d \in Detail /\ d.id = detail.id /\ d.v = creq.v
    BY <2>1 DEF Conflict, Detail, Fetch
  <2>4. c # none /\ d # none /\ c.server = creq.v
    BY <2>3
  <2> HIDE DEF c, d
  <2>5. SaveInv'
    BY <1>h, <1>1, <1>10, <2>2, <2>3, <2>4 DEF ConflictArrives, SaveInv
  <2>6. ShownInv'
    BY <2>2, <2>3, <2>4 DEF ShownInv
  <2> QED
    BY <2>5, <2>6
<1>11. CASE ConflictFails
  <2>1. SaveInv'
    BY <1>h, <1>1, <1>11 DEF ConflictFails, SaveInv
  <2>2. creq # none /\ active = creq.t /\ creq' = none
    BY <1>11 DEF ConflictFails, ShownInv
  <2>3. conflict' \in Conflict /\ conflict'.error
    <3>1. CASE conflict = none
      <4>1. conflict' = [server |-> 0, error |-> TRUE, loading |-> FALSE]
        BY <1>11, <2>2, <3>1 DEF ConflictFails
      <4>2. 0 \in Version
        BY DEF Version
      <4> QED
        BY <4>1, <4>2 DEF Conflict
    <3>2. CASE conflict \in Conflict
      <4>1. conflict' = [[conflict EXCEPT !.error = TRUE] EXCEPT !.loading = FALSE]
        BY <1>11, <2>2, <3>2 DEF ConflictFails
      <4> QED
        BY <3>2, <4>1 DEF Conflict
    <3> QED
      BY <1>0, <3>1, <3>2 DEF PageTypes
  <2>4. ~Loaded' /\ conflict' # none
    BY <2>3 DEF Loaded
  <2>5. ShownInv'
    BY <2>2, <2>4 DEF ShownInv
  <2> QED
    BY <2>1, <2>5
<1>12. ASSUME NEW pc \in {"reload", "done"}, InFlight, hand[page].pc = "done", Answered(pc)
       PROVE  SaveInv'
  <2>1. hand'[page].pc = "done"
    BY <1>h, <1>12 DEF Save, InFlight
  <2>2. saving' = none \/ saving'.pc = "reload"
    BY <1>0, <1>12 DEF Answered, InFlight, PageTypes, Saving
  <2> QED
    BY <2>1, <2>2 DEF SaveInv, InFlight
<1>13. CASE SaveSucceeds
  <2>1. SaveInv'
    BY <1>12, <1>13 DEF SaveSucceeds
  <2>2. ShownInv'
    BY <1>13 DEF SaveSucceeds, RequestDetail, ShownInv, Loaded
  <2> QED
    BY <2>1, <2>2
<1>14. CASE SaveConflicts
  <2>1. SaveInv'
    BY <1>12, <1>14 DEF SaveConflicts
  <2>2. ShownInv'
    BY <1>c, <1>14 DEF SaveConflicts, SaveInv
  <2> QED
    BY <2>1, <2>2
<1>15. CASE SaveFails
  <2>1. SaveInv'
    BY <1>12, <1>15 DEF SaveFails
  <2>2. ShownInv'
    BY <1>15 DEF SaveFails, ShownInv, Loaded
  <2> QED
    BY <2>1, <2>2
<1>16. CASE SaveEnds
  <2>1. SaveInv'
    BY <1>16 DEF SaveEnds, SaveInv, InFlight
  <2>2. ShownInv'
    BY <1>16 DEF SaveEnds, ShownInv, Loaded
  <2> QED
    BY <2>1, <2>2
<1> QED
  BY <1>2, <1>3, <1>4, <1>5, <1>6, <1>7, <1>8, <1>9, <1>10, <1>11, <1>13, <1>14, <1>15, <1>16
     DEF Page

(* The server takes a save on with the base it was sent with, and ends it. *)
LEMMA RequestShownStep ==
  ASSUME ServerInv, SaveInv, ShownInv, NEW h \in Handlers, Request(h)
  PROVE  (SaveInv /\ ShownInv)'
<1>0. page \in Handlers /\ HandType(page, hand[page])
  BY DEF Handlers, ServerInv, HandsOK
<1>1. UNCHANGED view
  BY DEF Request, LockRow, Insert, PatchRead, PatchWrite, DefaultsLock, DefaultsRead,
         DefaultsCreate, Create, Fail
<1>2. ShownInv'
  BY <1>1 DEF ShownInv, Loaded, view
<1>3. \/ hand'[page].pc = "done"
      \/ hand'[page] = hand[page]
      \/ hand[page].pc = "version" /\ hand'[page].pc = "insert" /\ hand'[page].v = hand[page].base
  <2>1. CASE h # page
    <3>1. \E s : hand' = [hand EXCEPT ![h] = s]
      BY DEF Request, LockRow, Insert, PatchRead, PatchWrite, DefaultsLock, DefaultsRead,
             DefaultsCreate, Create, Fail, Answer, Proceed
    <3> QED
      BY <1>0, <2>1, <3>1 DEF ServerInv, HandsOK
  <2>2. ASSUME h = page, NEW a, Answer(h, a)
        PROVE  hand'[page].pc = "done"
    BY <1>0, <2>2 DEF Answer, ServerInv, HandsOK
  <2>3. ASSUME h = page, NEW t \in Templates, NEW b \in 1..MaxVersions, LockRow(h, t, b)
        PROVE  \/ hand'[page].pc = "done"
               \/ /\ hand[page].pc = "version" /\ hand'[page].pc = "insert"
                  /\ hand'[page].v = hand[page].base
    <3>1. CASE \E a : Answer(h, a)
      BY <2>2, <2>3, <3>1
    <3>2. CASE Latest(t) = b /\ Proceed(h, [pc |-> "insert", t |-> t, v |-> Latest(t)])
      <4>1. hand[page] = [pc |-> "version", t |-> t, base |-> b]
        BY <2>3 DEF LockRow, AsksVersion, Asks
      <4>2. hand'[page] = [pc |-> "insert", t |-> t, v |-> Latest(t)]
        BY <1>0, <2>3, <3>2 DEF Proceed, ServerInv, HandsOK
      <4> QED
        BY <3>2, <4>1, <4>2
    <3> QED
      BY <2>3, <3>1, <3>2 DEF LockRow
  <2>4. CASE h = page
    <3>1. ~Asks(h) /\ hand[h].pc \notin {"update", "read", "defaults_create"}
      BY <1>0, <2>4 DEF Asks, HandType
    <3> QED
      BY <2>2, <2>3, <2>4, <3>1 DEF Request, Insert, PatchRead, PatchWrite, DefaultsLock,
         DefaultsRead, DefaultsCreate, Create, Fail
  <2> QED
    BY <2>1, <2>4
<1>4. SaveInv'
  BY <1>1, <1>3 DEF SaveInv, InFlight, view
<1> QED
  BY <1>2, <1>4

LEMMA ShownInductive ==
  ASSUME "leaveWhileSaving" \notin Faults
  PROVE  Spec => [](ServerInv /\ SaveInv /\ ShownInv)
<1>1. Init => ServerInv /\ SaveInv /\ ShownInv
  <2>1. Init => SaveInv /\ ShownInv
    BY DEF Init, SaveInv, ShownInv, InFlight, Loaded, Handlers
  <2> QED
    BY <2>1, ServerInitially
<1>2. ServerInv /\ SaveInv /\ ShownInv /\ [Next]_vars => (ServerInv /\ SaveInv /\ ShownInv)'
  <2> SUFFICES ASSUME ServerInv, SaveInv, ShownInv, [Next]_vars
               PROVE  ServerInv' /\ (SaveInv /\ ShownInv)'
    OBVIOUS
  <2>1. ServerInv'
    BY ServerStep
  <2>2. CASE UNCHANGED vars
    BY <2>1, <2>2 DEF vars, view, SaveInv, ShownInv, InFlight, Loaded
  <2>3. CASE Next
    BY <2>1, <2>3, PageShownStep, RequestShownStep DEF Next
  <2> QED
    BY <2>1, <2>2, <2>3
<1> QED
  BY <1>1, <1>2, PTL DEF Spec

(* What a step of a request does to the rows. *)
LEMMA RowsOfStep ==
  ASSUME ServerInv, [Next]_vars
  PROVE  \/ \A t \in Templates : Exists(t) => template'[t] = template[t]
         \/ \E h \in Handlers : Insert(h)
         \/ \E h \in Handlers : PatchWrite(h)
<1>1. CASE Page
  BY <1>1, PageServer DEF server
<1>2. ASSUME NEW h \in Handlers, Request(h)
      PROVE  \/ \A t \in Templates : Exists(t) => template'[t] = template[t]
             \/ Insert(h) \/ PatchWrite(h)
  <2>1. CASE DefaultsCreate(h) \/ \E t \in Templates : Create(h, t)
    BY <2>1, DefaultsCreateStep, CreateStep
  <2>2. CASE ~(\/ DefaultsCreate(h) \/ Insert(h) \/ PatchWrite(h)
               \/ \E t \in Templates : Create(h, t))
    BY <1>2, <2>2 DEF Request, LockRow, PatchRead, DefaultsLock, DefaultsRead, Fail, server
  <2> QED
    BY <2>1, <2>2
<1>3. CASE UNCHANGED vars
  BY <1>3 DEF vars, server
<1> QED
  BY <1>1, <1>2, <1>3 DEF Next

(* Types, whatever the page does while it saves. *)
THEOREM TemplateTypes == Spec => []TypeOK
<1>1. ServerInv => TypeOK
  BY DEF ServerInv, RowTypes, PageTypes, Row, HandsOK, HandType, TypeOK
<1> QED
  BY <1>1, ServerInductive, PTL

(* No request is answered that a key is there twice. *)
LEMMA NotTwice ==
  ASSUME NEW h, NEW s, HandType(h, s)
  PROVE  s # [pc |-> "done", answer |-> "duplicate key"]
<1> DEFINE twice == [pc |-> "done", answer |-> "duplicate key"]
<1>1. twice.pc = "done" /\ twice.answer = "duplicate key"
  OBVIOUS
<1> HIDE DEF twice
<1>2. ASSUME NEW a \in {"ok", "conflict", "refused"}, s = [pc |-> "done", answer |-> a]
      PROVE  s # twice
  <2>1. s.answer = a
    BY <1>2
  <2>2. a # "duplicate key"
    OBVIOUS
  <2> QED
    BY <1>1, <2>1, <2>2
<1>3. ASSUME s.pc # "done"
      PROVE  s # twice
  BY <1>1, <1>3
<1>4. (\E a \in {"ok", "conflict", "refused"} : s = [pc |-> "done", answer |-> a]) \/ s.pc # "done"
  BY DEF HandType
<1> QED
  BY <1>2, <1>3, <1>4 DEF twice

(* Every request to initialise the defaults is answered, and there is one
   template per key, for any number of requests at a time: the advisory lock
   makes the unique index a matter of course. *)
THEOREM DefaultsAreOnce == Spec => []DefaultsNeverFail
<1>1. ServerInv => DefaultsNeverFail
  <2> SUFFICES ASSUME ServerInv PROVE DefaultsNeverFail
    OBVIOUS
  <2>1. ASSUME NEW h \in Handlers
        PROVE  hand[h] # [pc |-> "done", answer |-> "duplicate key"]
    BY <2>1, NotTwice DEF ServerInv, HandsOK
  <2> QED
    BY <2>1 DEF DefaultsNeverFail, ServerInv, KeyInv
<1> QED
  BY <1>1, ServerInductive, PTL

(* An archived template gets no version, and only who may reactivates it,
   although a patch reads the row without a lock. *)
THEOREM ArchivedStays == Spec => ArchiveHolds
<1> DEFINE Holds(t) ==
      template[t].status = "ARCHIVED" =>
        /\ Latest(t)' = Latest(t)
        /\ template'[t].status = "ACTIVE" =>
             \E h \in Handlers : hand[h].pc = "update" /\ hand[h].t = t /\ hand[h].admin
<1>1. ServerInv /\ [Next]_vars => \A t \in Templates : Holds(t)
  <2> SUFFICES ASSUME ServerInv, [Next]_vars, NEW t \in Templates,
                      template[t].status = "ARCHIVED"
               PROVE  /\ template'[t].latest = template[t].latest
                      /\ template'[t].status = "ACTIVE" =>
                           \E h \in Handlers :
                             hand[h].pc = "update" /\ hand[h].t = t /\ hand[h].admin
    BY DEF Latest
  <2>1. CASE \A u \in Templates : Exists(u) => template'[u] = template[u]
    BY <2>1 DEF Exists
  <2>2. ASSUME NEW h \in Handlers, Insert(h)
        PROVE  template'[t] = template[t]
    BY <2>2, InsertStep
  <2>3. ASSUME NEW h \in Handlers, PatchWrite(h)
        PROVE  \/ template'[t] = template[t]
               \/ /\ hand[h].pc = "update" /\ hand[h].t = t
                  /\ template'[t].latest = template[t].latest
                  /\ template'[t].status = "ACTIVE" => hand[h].admin
    BY <2>3, PatchWriteStep
  <2> QED
    BY <2>1, <2>2, <2>3, RowsOfStep
<1>2. ServerInv /\ [Next]_vars => [\A t \in Templates : Holds(t)]_vars
  BY <1>1
<1> QED
  BY <1>2, ServerInductive, PTL DEF Spec, ArchiveHolds

(* The version a save adds comes after the one that was shown, unless the page
   goes to another template while it saves. *)
THEOREM SavedAfterShown ==
  ASSUME "leaveWhileSaving" \notin Faults PROVE Spec => SavedOnWhatWasShown
<1> DEFINE Seen(t) ==
      Latest(t) # 0 /\ Latest(t)' # Latest(t) /\ hand[page].pc = "insert"
        /\ hand'[page].pc = "done" => Latest(t) = saving.shown
<1>1. ServerInv /\ SaveInv /\ [Next]_vars => \A t \in Templates : Seen(t)
  <2> SUFFICES ASSUME ServerInv, SaveInv, [Next]_vars, NEW t \in Templates,
                      Latest(t) # 0, Latest(t)' # Latest(t), hand[page].pc = "insert",
                      hand'[page].pc = "done"
               PROVE  Latest(t) = saving.shown
    OBVIOUS
  <2>0. page \in Handlers /\ HandType(page, hand[page])
    BY DEF Handlers, ServerInv, HandsOK
  <2>1. template'[t] # template[t]
    BY DEF Latest
  <2>2. ASSUME NEW h \in Handlers, Insert(h) \/ PatchWrite(h), h # page
        PROVE  FALSE
    <3>1. hand'[page] = hand[page]
      BY <2>0, <2>2 DEF Insert, PatchWrite, Answer, ServerInv, HandsOK
    <3> QED
      BY <3>1
  <2>3. CASE \A u \in Templates : Exists(u) => template'[u] = template[u]
    BY <2>1, <2>3 DEF ServerInv, KeyInv, Latest
  <2>4. CASE Insert(page)
    BY <2>0, <2>1, <2>4, InsertStep DEF SaveInv
  <2>5. ~PatchWrite(page)
    BY DEF PatchWrite
  <2> QED
    BY <2>2, <2>3, <2>4, <2>5, RowsOfStep
<1>2. ServerInv /\ SaveInv /\ [Next]_vars => [\A t \in Templates : Seen(t)]_vars
  BY <1>1
<1> QED
  BY <1>2, ShownInductive, PTL DEF Spec, SavedOnWhatWasShown
=============================================================================
