---------------------------- MODULE Publication ----------------------------
(***************************************************************************)
(* Publication of one approved post on a set of social accounts:           *)
(* preparePublication and executePublication (publication-service.ts), the *)
(* manual publish and resolve handlers (publication.ts), the Meta adapter  *)
(* (meta-publisher.ts) and the two partial unique indexes that protect the *)
(* PublicationAttempt table.                                               *)
(*                                                                         *)
(* Rows of different posts never meet (both indexes and every query are by *)
(* post), so one post is enough.  Wall-clock time is abstracted to the     *)
(* only thing the code asks of it: whether a lease is still in the future. *)
(***************************************************************************)
EXTENDS Integers, FiniteSets

CONSTANTS
  Accounts,     \* the social accounts of the client
  Instagram,    \* those on INSTAGRAM_BUSINESS; the others are Facebook pages
  Requests,     \* concurrent POST /publish handlers of the API
  Jobs,         \* concurrent schedule jobs of the worker
  Keys,         \* HTTP idempotency keys
  MaxAttempts,  \* bound: rows of PublicationAttempt per account
  Faults        \* what the environment may do, see below

(***************************************************************************)
(* "slowExecutor"   an executor may still run after its lease ended        *)
(* "stalePrep"      a prepare transaction may commit on reads that other   *)
(*                  transactions have since changed (READ COMMITTED)       *)
(* "ambiguousReset" a connection failure that isTimeoutError does not      *)
(*                  recognise may hide a post that Meta did publish        *)
(* "lostStatus"     the status query of a container that was already       *)
(*                  published may fail, or answer EXPIRED or ERROR         *)
(* "lostTicket"     Redis may refuse the media ticket of an attempt that   *)
(*                  resumes an already published container                 *)
(***************************************************************************)
AllFaults == {"slowExecutor", "stalePrep", "ambiguousReset", "lostStatus",
              "lostTicket"}

ASSUME ConstantsAssumption ==
  /\ Instagram \subseteq Accounts
  /\ Requests \cap Jobs = {}
  /\ "none" \notin Accounts /\ "none" \notin Keys
  /\ MaxAttempts \in Nat
  /\ Faults \subseteq AllFaults

Executors == Requests \cup Jobs
AttemptNo == 1..MaxAttempts
Container == 0..MaxAttempts   \* 0 is null, c the container attempt c created

VARIABLES
  rows,       \* [Accounts -> [AttemptNo -> row of PublicationAttempt]]
  last,       \* [Accounts -> number of rows]
  connected,  \* [Accounts -> account ACTIVE with a credential that decrypts]
  idem,       \* [Keys -> Redis meta:publish:idempotency:...]
  posts,      \* [Accounts -> what Meta made public: on Instagram the
              \* containers, on Facebook the attempts]
  pc, plan, todo, num, at, reply, key   \* the executors' local state

db    == <<rows, last>>
local == <<pc, plan, todo, num, at, reply, key>>
vars  == <<rows, last, connected, idem, posts,
           pc, plan, todo, num, at, reply, key>>

-----------------------------------------------------------------------------
(* Rows and indexes *)

Open   == {"PROCESSING", "CONTAINER_CREATED"}
Active == Open \cup {"UNCERTAIN"}
Status == Active \cup {"PUBLISHED", "FAILED"}
Row    == [status: Status \cup {"ABSENT"}, container: Container,
           lease: {"none", "live", "expired"}]
Absent == [status |-> "ABSENT", container |-> 0, lease |-> "none"]

With(S, a) == {n \in AttemptNo : rows[a][n].status \in S}

(* PublicationAttempt_single_active_idx and _single_published_idx *)
IndexesHold(table) ==
  \A m, n \in AttemptNo :
    \/ m = n
    \/ /\ ~(table[m].status \in Active /\ table[n].status \in Active)
       /\ ~(table[m].status = "PUBLISHED" /\ table[n].status = "PUBLISHED")

(* tx.publicationAttempt.update({ where: { id } }): no status, no lease and
   no token is compared, only the indexes can refuse the write. *)
Write(a, n, row) ==
  /\ rows' = [rows EXCEPT ![a] = [rows[a] EXCEPT ![n] = row]]
  /\ IndexesHold(rows'[a])
  /\ last' = last

Closed(status, row) == [row EXCEPT !.status = status, !.lease = "none"]

-----------------------------------------------------------------------------
(* preparePublication: the plan of one account *)

(* Variant with a bug: the lease of an open row is not looked at. *)
LeaseActiveIgnored(a) == FALSE

LeaseActive(a) == \E n \in With(Open, a) : rows[a][n].lease = "live"

(* The errors that abort the whole preparation with 409. *)
Conflict(e, a) ==
  IF With({"PUBLISHED"}, a) # {} THEN e \in Requests
  ELSE With({"UNCERTAIN"}, a) # {} \/ LeaseActive(a)

OpenRow(a) == IF With(Open, a) = {} THEN 0 ELSE CHOOSE n \in With(Open, a) : TRUE

ContainerOf(a, n) == IF n = 0 THEN 0 ELSE rows[a][n].container

(* Variant with a bug: a new attempt starts without the old container. *)
PreviousContainerForgotten(a) == 0

(* The container of the open row or, failing that, of the last row. *)
PreviousContainer(a) ==
  IF ContainerOf(a, OpenRow(a)) # 0 THEN ContainerOf(a, OpenRow(a))
  ELSE ContainerOf(a, last[a])

(* Variant with a bug: an expired Facebook attempt is resumed. *)
PlanKindResumingPages(a) ==
  IF With({"PUBLISHED"}, a) # {} THEN "skip"
  ELSE IF ~connected[a] THEN "fail"
  ELSE IF OpenRow(a) # 0 THEN "resume" ELSE "create"

PlanKind(a) ==
  IF With({"PUBLISHED"}, a) # {} THEN "skip"
  ELSE IF OpenRow(a) # 0 /\ a \notin Instagram THEN "expired"
  ELSE IF ~connected[a] THEN "fail"
  ELSE IF OpenRow(a) # 0 THEN "resume" ELSE "create"

NoPlan     == [kind |-> "none", open |-> 0, prev |-> 0]
PlanFor(a) == [kind |-> PlanKind(a), open |-> OpenRow(a),
               prev |-> PreviousContainer(a)]
PlanSet    == [kind: {"none", "skip", "expired", "fail", "resume", "create"},
               open: Container, prev: Container]

Planned(e, kinds) == {a \in Accounts : plan[e][a].kind \in kinds}

(* Variant with a bug: the reserved row is stored without the container. *)
NewRowWithoutContainer(p) ==
  IF p.kind = "fail" THEN [status |-> "FAILED", container |-> 0, lease |-> "none"]
  ELSE [status |-> "PROCESSING", container |-> 0, lease |-> "live"]

NewRow(p) ==
  IF p.kind = "fail" THEN [status |-> "FAILED", container |-> 0, lease |-> "none"]
  ELSE [status |-> "PROCESSING", container |-> p.prev, lease |-> "live"]

(* The rows of an account after its part of the prepare transaction. *)
Prepared(a, p) ==
  [n \in AttemptNo |->
     IF p.kind \in {"resume", "create", "fail"} /\ n = last[a] + 1 THEN NewRow(p)
     ELSE IF p.kind = "resume" /\ n = p.open THEN Closed("FAILED", rows[a][n])
     ELSE IF p.kind = "expired" /\ n = p.open THEN Closed("UNCERTAIN", rows[a][n])
     ELSE rows[a][n]]

(* What a request leaves in Redis when it ends; jobs hold no key. *)
EndKey(e, value) ==
  idem' = IF e \in Requests THEN [idem EXCEPT ![key[e]] = value] ELSE idem

Idle(e) ==
  /\ pc' = [pc EXCEPT ![e] = "idle"]
  /\ plan' = [plan EXCEPT ![e] = [a \in Accounts |-> NoPlan]]
  /\ todo' = [todo EXCEPT ![e] = {}]
  /\ num' = [num EXCEPT ![e] = [a \in Accounts |-> 0]]
  /\ at' = [at EXCEPT ![e] = "none"]
  /\ reply' = [reply EXCEPT ![e] = "none"]
  /\ key' = [key EXCEPT ![e] = "none"]

(* Variant with a bug: SET without NX. *)
PrepareReadWithoutNX(e, targets, k) ==
  /\ pc[e] = "idle" /\ targets # {}
  /\ IF e \in Requests THEN /\ k \in Keys
                            /\ idem' = [idem EXCEPT ![k] = "IN_PROGRESS"]
                       ELSE k = "none" /\ idem' = idem
  /\ \A a \in targets : ~Conflict(e, a)
  /\ pc' = [pc EXCEPT ![e] = "read"]
  /\ plan' = [plan EXCEPT ![e] =
                [a \in Accounts |-> IF a \in targets THEN PlanFor(a) ELSE NoPlan]]
  /\ key' = [key EXCEPT ![e] = k]
  /\ UNCHANGED <<rows, last, connected, posts, todo, num, at, reply>>

(* SET key IN_PROGRESS NX, then the reads of the prepare transaction.  A
   preparation that finds a conflict deletes the key again and changes
   nothing, so it is no step. *)
PrepareRead(e, targets, k) ==
  /\ pc[e] = "idle" /\ targets # {}
  /\ IF e \in Requests THEN /\ k \in Keys /\ idem[k] = "free"
                            /\ idem' = [idem EXCEPT ![k] = "IN_PROGRESS"]
                       ELSE k = "none" /\ idem' = idem
  /\ \A a \in targets : ~Conflict(e, a)
  /\ pc' = [pc EXCEPT ![e] = "read"]
  /\ plan' = [plan EXCEPT ![e] =
                [a \in Accounts |-> IF a \in targets THEN PlanFor(a) ELSE NoPlan]]
  /\ key' = [key EXCEPT ![e] = k]
  /\ UNCHANGED <<rows, last, connected, posts, todo, num, at, reply>>

(* What the transaction read is still what the table holds. *)
ReadsValid(e) ==
  \A a \in Accounts : plan[e][a].kind # "none" =>
     ~Conflict(e, a) /\ plan[e][a] = PlanFor(a)

CanCommit(e) ==
  /\ pc[e] = "read"
  /\ ReadsValid(e) \/ "stalePrep" \in Faults

(* A Facebook page whose lease ended: every such row becomes UNCERTAIN and
   nothing is reserved for any account. *)
PrepareUncertain(e) ==
  LET expired == Planned(e, {"expired"}) IN
  /\ CanCommit(e)
  /\ expired # {}
  /\ rows' = [a \in Accounts |->
                IF a \in expired THEN Prepared(a, plan[e][a]) ELSE rows[a]]
  /\ \A a \in Accounts : IndexesHold(rows'[a])
  /\ EndKey(e, "free")
  /\ Idle(e)
  /\ UNCHANGED <<last, connected, posts>>

(* Every target is reserved, skipped or recorded as failed, at once. *)
PrepareCommit(e) ==
  LET added == Planned(e, {"resume", "create", "fail"}) IN
  /\ CanCommit(e)
  /\ Planned(e, {"expired"}) = {}
  /\ \A a \in added : last[a] < MaxAttempts
  /\ rows' = [a \in Accounts |-> Prepared(a, plan[e][a])]
  /\ \A a \in Accounts : IndexesHold(rows'[a])
  /\ last' = [a \in Accounts |-> IF a \in added THEN last[a] + 1 ELSE last[a]]
  /\ pc' = [pc EXCEPT ![e] = "ticket"]
  /\ todo' = [todo EXCEPT ![e] = Planned(e, {"resume", "create"})]
  /\ num' = [num EXCEPT ![e] =
               [a \in Accounts |-> IF a \in added THEN last[a] + 1 ELSE 0]]
  /\ plan' = [plan EXCEPT ![e] = [a \in Accounts |-> NoPlan]]
  /\ UNCHANGED <<connected, idem, posts, at, reply, key>>

(* The prepare transaction rolls back: an index refuses an insert, a timeout. *)
PrepareAbort(e) ==
  /\ pc[e] = "read"
  /\ EndKey(e, "free")
  /\ Idle(e)
  /\ UNCHANGED <<rows, last, connected, posts>>

-----------------------------------------------------------------------------
(* executePublication *)

Owns(e, a, n)  == a \in todo[e] /\ num[e][a] = n
RowOf(e, a)    == rows[a][num[e][a]]
Carried(e, a)  == ContainerOf(a, num[e][a])
Consumed(e, a) == Carried(e, a) \in posts[a]

(* createPublicMediaTicket, and the test hook onBeforePublish. *)
TicketIssued(e) ==
  /\ pc[e] = "ticket"
  /\ pc' = [pc EXCEPT ![e] = "run"]
  /\ UNCHANGED <<rows, last, connected, idem, posts, plan, todo, num, at, reply, key>>

(* No ticket: every reserved row becomes FAILED in one transaction or, when
   that fails too, stays as it is; the request or job ends with a 503. *)
TicketFails(e) ==
  /\ pc[e] = "ticket"
  /\ (\E a \in todo[e] \cap Instagram : Consumed(e, a)) => "lostTicket" \in Faults
  /\ \/ rows' = [a \in Accounts |-> [n \in AttemptNo |->
                   IF Owns(e, a, n) THEN Closed("FAILED", rows[a][n]) ELSE rows[a][n]]]
     \/ rows' = rows
  /\ EndKey(e, "free")
  /\ Idle(e)
  /\ UNCHANGED <<last, connected, posts>>

Answered(e, a, r) ==
  /\ pc' = [pc EXCEPT ![e] = "replied"]
  /\ at' = [at EXCEPT ![e] = a]
  /\ reply' = [reply EXCEPT ![e] = r]

(* What an answer of Meta to a publishing call may hide: a timeout either
   way, and a failure only when the error was not recognised as a timeout. *)
MayHide(r, applied) ==
  CASE r = "ok"      -> applied
    [] r = "timeout" -> TRUE
    [] r = "failed"  -> applied => "ambiguousReset" \in Faults
    [] r = "auth"    -> ~applied

(* publishFacebook: one POST /photos or /feed. *)
FacebookPost(e, a) ==
  /\ pc[e] = "run"
  /\ a \in todo[e] \ Instagram
  /\ \E r \in {"ok", "timeout", "failed", "auth"}, applied \in BOOLEAN :
       /\ MayHide(r, applied)
       /\ posts' = IF applied THEN [posts EXCEPT ![a] = @ \cup {num[e][a]}] ELSE posts
       /\ Answered(e, a, r)
  /\ UNCHANGED <<rows, last, connected, idem, plan, todo, num, key>>

(* publishInstagram: the status of the container of an earlier attempt.
   EXPIRED, ERROR and a query that throws all discard it. *)
CheckContainer(e, a) ==
  /\ pc[e] = "run"
  /\ a \in todo[e] \cap Instagram
  /\ Carried(e, a) # 0
  /\ \E next \in {"poll", "create"} :
       /\ next = "create" /\ Consumed(e, a) => "lostStatus" \in Faults
       /\ pc' = [pc EXCEPT ![e] = next]
  /\ at' = [at EXCEPT ![e] = a]
  /\ UNCHANGED <<rows, last, connected, idem, posts, plan, todo, num, reply, key>>

(* POST /media, when there is no container to continue with. *)
CreateContainer(e, a) ==
  /\ \/ pc[e] = "run" /\ a \in todo[e] \cap Instagram /\ Carried(e, a) = 0
     \/ pc[e] = "create" /\ a = at[e]
  /\ \/ /\ pc' = [pc EXCEPT ![e] = "created"]
        /\ at' = [at EXCEPT ![e] = a]
        /\ reply' = reply
     \/ \E r \in {"timeout", "failed", "auth"} : Answered(e, a, r)
  /\ UNCHANGED <<rows, last, connected, idem, posts, plan, todo, num, key>>

(* The container is stored and the lease renewed before it is published. *)
OnContainerCreated(e) ==
  LET a == at[e] IN
  /\ pc[e] = "created"
  /\ \/ /\ Write(a, num[e][a], [status |-> "CONTAINER_CREATED",
                                container |-> num[e][a], lease |-> "live"])
        /\ pc' = [pc EXCEPT ![e] = "poll"]
        /\ UNCHANGED <<at, reply>>
     \/ /\ UNCHANGED <<rows, last>>
        /\ \E r \in {"timeout", "failed"} : Answered(e, a, r)
  /\ UNCHANGED <<connected, idem, posts, plan, todo, num, key>>

(* pollInstagramContainer, then POST /media_publish.  Meta publishes a
   container once; the status it answers for a published container is none
   of those the adapter knows, so the poll runs into its own time limit. *)
PublishContainer(e) ==
  LET a == at[e]
      c == Carried(e, a) IN
  /\ pc[e] = "poll"
  /\ \E r \in {"ok", "timeout", "failed", "auth"}, applied \in BOOLEAN :
       /\ MayHide(r, applied)
       /\ c \in posts[a] => /\ ~applied
                            /\ r = "timeout" \/ "lostStatus" \in Faults
       /\ posts' = IF applied THEN [posts EXCEPT ![a] = @ \cup {c}] ELSE posts
       /\ Answered(e, a, r)
  /\ UNCHANGED <<rows, last, connected, idem, plan, todo, num, key>>

(* The result of one target *)

TargetDone(e) ==
  /\ pc' = [pc EXCEPT ![e] = "run"]
  /\ todo' = [todo EXCEPT ![e] = @ \ {at[e]}]
  /\ at' = [at EXCEPT ![e] = "none"]
  /\ reply' = [reply EXCEPT ![e] = "none"]
  /\ UNCHANGED <<idem, posts, plan, num, key>>

Persist(e, replies, status) ==
  /\ pc[e] = "replied" /\ reply[e] \in replies
  /\ Write(at[e], num[e][at[e]], Closed(status, RowOf(e, at[e])))
  /\ TargetDone(e)

(* Variant with a bug: a timeout taken for a success. *)
PersistPublishedOnTimeout(e) ==
  Persist(e, {"ok", "timeout"}, "PUBLISHED") /\ UNCHANGED connected

PersistPublished(e) == Persist(e, {"ok"}, "PUBLISHED") /\ UNCHANGED connected

(* After a timeout, and after a success whose PUBLISHED write failed. *)
PersistUncertain(e) == Persist(e, {"ok", "timeout"}, "UNCERTAIN") /\ UNCHANGED connected

(* Both writes of a success failed: the answer is reported, the row is not. *)
PersistNothing(e) ==
  /\ pc[e] = "replied" /\ reply[e] = "ok"
  /\ TargetDone(e)
  /\ UNCHANGED <<rows, last, connected>>

(* An authentication error also expires the account; a request of a user
   who may not edit the client leaves it as it is. *)
PersistFailed(e) ==
  /\ Persist(e, {"failed", "auth"}, "FAILED")
  /\ \/ /\ reply[e] = "auth"
        /\ connected' = [connected EXCEPT ![at[e]] = FALSE]
     \/ /\ reply[e] = "failed" \/ e \in Requests
        /\ UNCHANGED connected

(* The write in the catch block fails: the remaining targets are abandoned
   with the rows they have. *)
ExecAbort(e) ==
  /\ pc[e] = "replied" /\ reply[e] # "ok"
  /\ EndKey(e, "free")
  /\ Idle(e)
  /\ UNCHANGED <<rows, last, connected, posts>>

Finish(e) ==
  /\ pc[e] = "run" /\ todo[e] = {}
  /\ EndKey(e, "done")
  /\ Idle(e)
  /\ UNCHANGED <<rows, last, connected, posts>>

(* The process stops.  Nothing is released: not the key, not the rows. *)
Crash(e) ==
  /\ pc[e] # "idle"
  /\ Idle(e)
  /\ UNCHANGED <<rows, last, connected, idem, posts>>

-----------------------------------------------------------------------------
(* Time, administrators and accounts *)

LeaseExpires(a, n) ==
  /\ rows[a][n].lease = "live"
  /\ (\E e \in Executors : Owns(e, a, n)) => "slowExecutor" \in Faults
  /\ rows' = [rows EXCEPT ![a] = [rows[a] EXCEPT ![n].lease = "expired"]]
  /\ UNCHANGED <<last, connected, idem, posts, local>>

(* Redis forgets a key after 24 hours; no request lives that long. *)
KeyExpires(k) ==
  /\ idem[k] # "free"
  /\ \A e \in Requests : key[e] # k
  /\ idem' = [idem EXCEPT ![k] = "free"]
  /\ UNCHANGED <<rows, last, connected, posts, local>>

(* POST .../attempts/:attemptId/resolve, by an OWNER or ADMIN who has looked at
   the account: the decision agrees with what Meta shows at that moment. *)
Resolvable(a, n) ==
  /\ rows[a][n].status \in Status \ {"PUBLISHED"}
  /\ ~(rows[a][n].status \in Open /\ rows[a][n].lease = "live")

ConfirmPublished(a, n) ==
  /\ Resolvable(a, n)
  /\ With({"PUBLISHED"}, a) = {}
  /\ posts[a] # {}
  /\ Write(a, n, Closed("PUBLISHED", rows[a][n]))
  /\ UNCHANGED <<connected, idem, posts, local>>

ConfirmFailed(a, n) ==
  /\ Resolvable(a, n)
  /\ posts[a] = {}
  /\ Write(a, n, Closed("FAILED", rows[a][n]))
  /\ UNCHANGED <<connected, idem, posts, local>>

Dismiss(a, n) ==
  /\ Resolvable(a, n)
  /\ Write(a, n, Closed(rows[a][n].status, rows[a][n]))
  /\ UNCHANGED <<connected, idem, posts, local>>

(* The account is disconnected or expires, and is connected again. *)
SetConnected(a, value) ==
  /\ connected[a] # value
  /\ connected' = [connected EXCEPT ![a] = value]
  /\ UNCHANGED <<rows, last, idem, posts, local>>

-----------------------------------------------------------------------------
Init ==
  /\ rows = [a \in Accounts |-> [n \in AttemptNo |-> Absent]]
  /\ last = [a \in Accounts |-> 0]
  /\ connected = [a \in Accounts |-> TRUE]
  /\ idem = [k \in Keys |-> "free"]
  /\ posts = [a \in Accounts |-> {}]
  /\ pc = [e \in Executors |-> "idle"]
  /\ plan = [e \in Executors |-> [a \in Accounts |-> NoPlan]]
  /\ todo = [e \in Executors |-> {}]
  /\ num = [e \in Executors |-> [a \in Accounts |-> 0]]
  /\ at = [e \in Executors |-> "none"]
  /\ reply = [e \in Executors |-> "none"]
  /\ key = [e \in Executors |-> "none"]

Prepare(e) ==
  \/ \E targets \in SUBSET Accounts, k \in Keys \cup {"none"} :
       PrepareRead(e, targets, k)
  \/ PrepareUncertain(e) \/ PrepareCommit(e) \/ PrepareAbort(e)

Execute(e) ==
  \/ TicketIssued(e) \/ TicketFails(e)
  \/ \E a \in Accounts : FacebookPost(e, a) \/ CheckContainer(e, a) \/ CreateContainer(e, a)
  \/ OnContainerCreated(e) \/ PublishContainer(e)
  \/ PersistPublished(e) \/ PersistUncertain(e) \/ PersistNothing(e) \/ PersistFailed(e)
  \/ ExecAbort(e) \/ Finish(e) \/ Crash(e)

Environment ==
  \/ \E a \in Accounts, n \in AttemptNo :
       \/ LeaseExpires(a, n)
       \/ ConfirmPublished(a, n) \/ ConfirmFailed(a, n) \/ Dismiss(a, n)
  \/ \E a \in Accounts, value \in BOOLEAN : SetConnected(a, value)
  \/ \E k \in Keys : KeyExpires(k)

Next == (\E e \in Executors : Prepare(e) \/ Execute(e)) \/ Environment

Spec == Init /\ [][Next]_vars

-----------------------------------------------------------------------------
(* Properties *)

(* Every variable keeps its type: rows, plans and the executors' state. *)
TypeOK ==
  /\ rows \in [Accounts -> [AttemptNo -> Row]]
  /\ last \in [Accounts -> Container]
  /\ connected \in [Accounts -> BOOLEAN]
  /\ idem \in [Keys -> {"free", "IN_PROGRESS", "done"}]
  /\ posts \in [Accounts -> SUBSET Container]
  /\ pc \in [Executors -> {"idle", "read", "ticket", "run", "create", "created",
                           "poll", "replied"}]
  /\ plan \in [Executors -> [Accounts -> PlanSet]]
  /\ todo \in [Executors -> SUBSET Accounts]
  /\ num \in [Executors -> [Accounts -> Container]]
  /\ at \in [Executors -> Accounts \cup {"none"}]
  /\ reply \in [Executors -> {"none", "ok", "timeout", "failed", "auth"}]
  /\ key \in [Executors -> Keys \cup {"none"}]

(* A post becomes public at most once on each account, whatever crashes,
   timeouts, retries and resumptions happen. *)
AtMostOnce == \A a \in Accounts : \A m, n \in posts[a] : m = n

(* Some row still vouches for a public post: it is PUBLISHED, it waits for an
   administrator as UNCERTAIN, or it is open and (on Instagram) carries the
   container, so that a later preparation cannot start over. *)
Vouches(a, n) ==
  \/ rows[a][n].status \in {"PUBLISHED", "UNCERTAIN"}
  \/ /\ rows[a][n].status \in Open
     /\ a \in Instagram => rows[a][n].container \in posts[a]

PostsAreRemembered ==
  \A a \in Accounts : posts[a] # {} => \E n \in AttemptNo : Vouches(a, n)

(* Two executors never hold a target on the same account at the same time. *)
NoOverlap ==
  \A e, f \in Executors : e # f => todo[e] \cap todo[f] = {}

(* The dashboard never shows as PUBLISHED what Meta does not have. *)
PublishedIsTrue ==
  \A a \in Accounts : With({"PUBLISHED"}, a) # {} => posts[a] # {}

(* A row that became PUBLISHED is never changed again, although every write
   of an executor is by id alone. *)
PublishedIsFinal ==
  [][\A a \in Accounts, n \in AttemptNo :
       rows[a][n].status = "PUBLISHED" => rows'[a][n] = rows[a][n]]_vars

(* Two requests never run under one idempotency key, and the key of a running
   request is marked: nobody else frees it. *)
KeyIsExclusive ==
  \A e \in Requests : key[e] # "none" =>
    /\ idem[key[e]] = "IN_PROGRESS"
    /\ \A f \in Requests : key[f] = key[e] => f = e

(* What the rows of an account say of its post. *)
ShownAs(a) ==
  IF With({"PUBLISHED"}, a) # {} THEN "published"
  ELSE IF With(Active, a) # {} THEN "pending" ELSE "idle"

Promise == INSTANCE PublishOnce WITH shown <- [a \in Accounts |-> ShownAs(a)]

(* The service keeps its promise (module PublishOnce): whatever rows, leases,
   containers and executors there are, one post per account at most, made while
   the rows say that it is being made, given up only when there is none, and
   said to be public only when it is. *)
PublishesOnce == Promise!Spec
-----------------------------------------------------------------------------
(* The inductive invariant behind AtMostOnce, PostsAreRemembered and
   PublishesOnce in a sound environment (see PublicationProofs) *)

Calling == {"create", "created", "poll", "replied"}

(* Slots up to last hold rows and the others are free, both indexes hold, and
   the rows of an account agree with what it shows. *)
AccountOK(a) ==
  /\ \A n \in AttemptNo : n > last[a] <=> rows[a][n].status = "ABSENT"
  /\ IndexesHold(rows[a])
  /\ 0 \notin posts[a] /\ \A m, n \in posts[a] : m = n
  /\ posts[a] # {} => \E n \in AttemptNo : Vouches(a, n)
  /\ With({"PUBLISHED"}, a) # {} => posts[a] # {}

(* A target is held through a row that is open and whose lease has not ended. *)
Held(e, a) ==
  /\ num[e][a] \in AttemptNo
  /\ RowOf(e, a).status \in Open /\ RowOf(e, a).lease = "live"

(* Where an executor is, and what it may rely on there. *)
ExecutorOK(e) ==
  /\ \A a \in todo[e] : Held(e, a)
  /\ pc[e] \in {"idle", "read"} => todo[e] = {}
  /\ pc[e] \in Calling => at[e] \in todo[e]
  /\ pc[e] \in {"create", "created", "poll"} => at[e] \in Instagram
  /\ pc[e] \in {"create", "created"} => posts[at[e]] = {}
  /\ pc[e] = "poll" => Carried(e, at[e]) # 0
  /\ pc[e] = "replied" => /\ reply[e] \in {"failed", "auth"} => posts[at[e]] = {}
                          /\ reply[e] = "ok" => posts[at[e]] # {}

(* Before its call, a target is not public yet, or its container says so. *)
TargetFresh(e, a) ==
  IF a \in Instagram THEN posts[a] = {} \/ Consumed(e, a)
  ELSE posts[a] = {} \/ (pc[e] = "replied" /\ at[e] = a)

IndInv ==
  /\ NoOverlap
  /\ \A a \in Accounts : AccountOK(a)
  /\ \A e \in Executors : ExecutorOK(e) /\ \A a \in todo[e] : TargetFresh(e, a)
=============================================================================
