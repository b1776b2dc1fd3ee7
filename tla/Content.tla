------------------------------ MODULE Content ------------------------------
(***************************************************************************)
(* What a team prepares for a client: posts with their review              *)
(* (content.ts) and the library of images (media.ts).                      *)
(*                                                                         *)
(* A handler reads a post, decides, and writes by id in the same           *)
(* transaction, READ COMMITTED and without a lock: what others commit      *)
(* between the two is seen by the write alone.  The texts of a post are    *)
(* one value; brands, the report of an import and names are left out.  An  *)
(* image is the bytes that were sent, and an object in the storage what    *)
(* was put there last.                                                     *)
(***************************************************************************)
EXTENDS Integers, FiniteSets

CONSTANTS
  Posts,       \* posts of the client
  Texts,       \* what a post may say
  Batches,     \* content batches of the client
  Handlers,    \* handlers of requests about posts
  Assets,      \* rows of MediaAsset
  Uploads,     \* handlers of PUT content, in one API process
  Images,      \* images one may send
  MaxUploads,  \* uploads at a time, 2 in the code
  none         \* null

ASSUME ContentAssumption ==
  /\ MaxUploads \in Nat \ {0} /\ IsFiniteSet(Uploads)
  /\ none \notin Assets \cup Images

VARIABLES
  post,     \* [Posts -> status]
  text,     \* [Posts -> text]
  batch,    \* [Batches -> status of ContentBatch]
  jobs,     \* posts that a RenderJob refers to
  hand,     \* [Handlers -> local state of a request about a post]
  asset,    \* [Assets -> [status, sha, old, archived]], old: an hour has passed
  object,   \* [Assets -> the image under storageKey, or none]
  uploads,  \* the counter of the process
  up        \* [Uploads -> local state of an upload]

posts == <<post, text, batch, jobs, hand>>
media == <<asset, object, uploads, up>>
vars  == <<posts, media>>

Roles    == {"ADMIN", "EDITOR", "APPROVER"}   \* ADMIN stands for OWNER too
Statuses == {"DRAFT", "IN_REVIEW", "APPROVED", "REJECTED"}
Exists(p) == post[p] # "ABSENT"

-----------------------------------------------------------------------------
(* Posts *)

Proceed(h, s) == hand' = [hand EXCEPT ![h] = s]
Finish(h)     == Proceed(h, [pc |-> "idle"])

(* POST of a post.  (The text it comes with is the one that is there.) *)
Create(p) ==
  /\ ~Exists(p)
  /\ post' = [post EXCEPT ![p] = "DRAFT"]
  /\ UNCHANGED <<text, batch, jobs, hand, media>>

CreateBatch(b) ==
  /\ batch[b] = "ABSENT"
  /\ batch' = [batch EXCEPT ![b] = "PENDING"]
  /\ UNCHANGED <<post, text, jobs, hand, media>>

(* A CSV file, read before the transaction: the batch with its report, and a
   draft for every valid row, if any; the same batch may be imported again. *)
Import(b, new) ==
  /\ batch[b] # "ABSENT" /\ \A p \in new : ~Exists(p)
  /\ batch' = [batch EXCEPT ![b] = "COMPLETED"]
  /\ post' = [p \in Posts |-> IF p \in new THEN "DRAFT" ELSE post[p]]
  /\ UNCHANGED <<text, jobs, hand, media>>

(* A RenderJob is created for a post: its foreign key is RESTRICT. *)
CreateJob(p) ==
  /\ Exists(p)
  /\ jobs' = jobs \cup {p}
  /\ UNCHANGED <<post, text, batch, hand, media>>

(* PATCH of the texts: an EDITOR may change what is not under review. *)
EditRead(h, p, role) ==
  /\ hand[h].pc = "idle" /\ Exists(p) /\ role # "APPROVER"
  /\ role = "EDITOR" => post[p] \in {"DRAFT", "REJECTED"}
  /\ Proceed(h, [pc |-> "edit", p |-> p])
  /\ UNCHANGED <<post, text, batch, jobs, media>>

(* The update by id alone, whatever the status is by then: an edit that began
   on a draft may land on a post approved meanwhile. *)
EditWrite(h, new) ==
  /\ hand[h].pc = "edit"
  /\ text' = IF Exists(hand[h].p) THEN [text EXCEPT ![hand[h].p] = new] ELSE text
  /\ Finish(h)
  /\ UNCHANGED <<post, batch, jobs, media>>

(* The transitions of the review, and who makes them. *)
MaySet(role, from, target) ==
  CASE target = "IN_REVIEW" -> role # "APPROVER" /\ from \in {"DRAFT", "REJECTED"}
    [] target \in {"APPROVED", "REJECTED"} -> role # "EDITOR" /\ from = "IN_REVIEW"
    [] target = "DRAFT" -> role = "ADMIN" \/ from = "REJECTED"

StatusRead(h, p, role, target) ==
  /\ hand[h].pc = "idle" /\ Exists(p)
  /\ MaySet(role, post[p], target)
  /\ Proceed(h, [pc |-> "status", p |-> p, target |-> target])
  /\ UNCHANGED <<post, text, batch, jobs, media>>

(* The update by id alone; a post that is gone fails it. *)
StatusWrite(h) ==
  /\ hand[h].pc = "status"
  /\ post' = IF Exists(hand[h].p) THEN [post EXCEPT ![hand[h].p] = hand[h].target]
             ELSE post
  /\ Finish(h)
  /\ UNCHANGED <<text, batch, jobs, media>>

(* DELETE: a draft without render jobs, as read. *)
DeleteRead(h, p) ==
  /\ hand[h].pc = "idle"
  /\ post[p] = "DRAFT" /\ p \notin jobs
  /\ Proceed(h, [pc |-> "delete", p |-> p])
  /\ UNCHANGED <<post, text, batch, jobs, media>>

(* deleteMany where DRAFT, as the policy post_delete; a foreign key of a job
   that came meanwhile fails it: 409. *)
DeleteWrite(h) ==
  /\ hand[h].pc = "delete"
  /\ LET p == hand[h].p IN
       post' = IF post[p] = "DRAFT" /\ p \notin jobs
               THEN [post EXCEPT ![p] = "ABSENT"] ELSE post
  /\ Finish(h)
  /\ UNCHANGED <<text, batch, jobs, media>>

-----------------------------------------------------------------------------
(* The library *)

Reached(u, pc) == up' = [up EXCEPT ![u].pc = pc]
Where(a, status) == asset[a].status = status

(* POST: a reservation.  (At most 20 in an hour are counted, in a statement of
   its own: the number is left out.) *)
Reserve(a) ==
  /\ Where(a, "ABSENT")
  /\ asset' = [asset EXCEPT ![a].status = "pending"]
  /\ UNCHANGED <<posts, object, uploads, up>>

(* An hour after its reservation. *)
Expire(a) ==
  /\ Where(a, "pending") /\ ~asset[a].old
  /\ asset' = [asset EXCEPT ![a].old = TRUE]
  /\ UNCHANGED <<posts, object, uploads, up>>

(* PUT content: a first transaction sees that the upload is still to come. *)
UploadCheck(u, a, image) ==
  /\ up[u].pc = "idle" /\ Where(a, "pending")
  /\ up' = [up EXCEPT ![u] = [pc |-> "enter", a |-> a, image |-> image]]
  /\ UNCHANGED <<posts, asset, object, uploads>>

(* 429 when the process has enough of them, otherwise one more is counted. *)
UploadEnter(u) ==
  /\ up[u].pc = "enter"
  /\ \/ uploads >= MaxUploads /\ Reached(u, "idle") /\ UNCHANGED uploads
     \/ uploads < MaxUploads /\ Reached(u, "receive") /\ uploads' = uploads + 1
  /\ UNCHANGED <<posts, asset, object>>

(* Variant with a bug: an early answer does not count down. *)
LeaveOnSuccess(u) ==
  /\ Reached(u, "idle")
  /\ uploads' = IF up[u].pc = "receive" THEN uploads ELSE uploads - 1

(* The finally of the handler. *)
Leave(u) ==
  /\ Reached(u, "idle")
  /\ uploads' = uploads - 1

(* Variant with a bug: the claim does not ask for a pending row. *)
ClaimAny(u) ==
  /\ up[u].pc = "receive" /\ ~asset[up[u].a].old
  /\ asset' = [asset EXCEPT ![up[u].a].status = "uploading"]
  /\ Reached(u, "put") /\ UNCHANGED uploads
  /\ UNCHANGED <<posts, object>>

(* The image is read and validated; then the row is claimed, once, in its hour. *)
Claim(u) ==
  /\ up[u].pc = "receive"
  /\ LET a == up[u].a IN
       \/ /\ Where(a, "pending") /\ ~asset[a].old
          /\ asset' = [asset EXCEPT ![a].status = "uploading"]
          /\ Reached(u, "put") /\ UNCHANGED uploads
       \/ ~(Where(a, "pending") /\ ~asset[a].old) /\ Leave(u) /\ UNCHANGED asset
  /\ UNCHANGED <<posts, object>>

(* Too large, or no image: 413 or 400. *)
Reject(u) ==
  /\ up[u].pc = "receive"
  /\ Leave(u)
  /\ UNCHANGED <<posts, asset, object>>

(* storage.put; one that fails may have stored the image.  (The storage refuses
   a key that is there, which the model does not ask of it.) *)
Put(u) ==
  /\ up[u].pc = "put"
  /\ \/ object' = [object EXCEPT ![up[u].a] = up[u].image] /\ Reached(u, "commit")
     \/ object' = [object EXCEPT ![up[u].a] = up[u].image] /\ Reached(u, "unstored")
     \/ UNCHANGED object /\ Reached(u, "unstored")
  /\ UNCHANGED <<posts, asset, uploads>>

(* The row becomes ready with the data of the image; the commit may be lost to
   the handler, or fail. *)
Commit(u) ==
  /\ up[u].pc = "commit"
  /\ LET a == up[u].a
         ready == [asset EXCEPT ![a].status = "ready", ![a].sha = up[u].image]
     IN \/ Where(a, "uploading") /\ asset' = ready /\ Leave(u)
        \/ Where(a, "uploading") /\ asset' = ready /\ Reached(u, "uncommitted") /\ UNCHANGED uploads
        \/ UNCHANGED <<asset, uploads>> /\ Reached(u, "uncommitted")
  /\ UNCHANGED <<posts, object>>

(* Variant with a bug: the row is marked failed by its id. *)
MarkFailedById(u) ==
  /\ \/ asset' = [asset EXCEPT ![up[u].a].status = "failed"]
     \/ UNCHANGED asset
  /\ Leave(u)
  /\ UNCHANGED <<posts, object>>

(* The row is marked failed if it is still uploading, at best effort. *)
MarkFailed(u) ==
  /\ \/ /\ Where(up[u].a, "uploading")
        /\ asset' = [asset EXCEPT ![up[u].a].status = "failed"]
     \/ UNCHANGED asset
  /\ Leave(u)
  /\ UNCHANGED <<posts, object>>

(* Each stage of an upload has this of its own, and its error for the answer. *)
FailPut(u)    == up[u].pc = "unstored" /\ MarkFailed(u)
FailCommit(u) == up[u].pc = "uncommitted" /\ MarkFailed(u)

(* GET content: the bytes under the key are the ones the row describes. *)
Intact(a) == asset[a].sha # none /\ object[a] = asset[a].sha

(* DELETE hides it; the object stays. *)
Archive(a) ==
  /\ Where(a, "ready")
  /\ asset' = [asset EXCEPT ![a].archived = TRUE]
  /\ UNCHANGED <<posts, object, uploads, up>>

(* The process stops: transactions are rolled back, uploads are gone. *)
Crash ==
  /\ hand' = [h \in Handlers |-> [pc |-> "idle"]]
  /\ up' = [u \in Uploads |-> [up[u] EXCEPT !.pc = "idle"]]
  /\ uploads' = 0
  /\ UNCHANGED <<post, text, batch, jobs, asset, object>>

-----------------------------------------------------------------------------
Init ==
  /\ post = [p \in Posts |-> "ABSENT"] /\ text \in [Posts -> Texts] /\ jobs = {}
  /\ batch = [b \in Batches |-> "ABSENT"]
  /\ hand = [h \in Handlers |-> [pc |-> "idle"]]
  /\ asset = [a \in Assets |-> [status |-> "ABSENT", sha |-> none, old |-> FALSE,
                                archived |-> FALSE]]
  /\ object = [a \in Assets |-> none]
  /\ uploads = 0
  /\ up = [u \in Uploads |-> [pc |-> "idle", a |-> none, image |-> none]]

Review ==
  \/ \E p \in Posts : Create(p) \/ CreateJob(p)
  \/ \E b \in Batches : CreateBatch(b) \/ \E new \in SUBSET Posts : Import(b, new)
  \/ \E h \in Handlers :
       \/ \E p \in Posts : DeleteRead(h, p)
       \/ \E p \in Posts, role \in Roles, target \in Statuses : StatusRead(h, p, role, target)
       \/ \E p \in Posts, role \in Roles : EditRead(h, p, role)
       \/ \E new \in Texts : EditWrite(h, new)
       \/ StatusWrite(h) \/ DeleteWrite(h)

Library ==
  \/ \E a \in Assets : Reserve(a) \/ Expire(a) \/ Archive(a)
  \/ \E u \in Uploads :
       \/ \E a \in Assets, image \in Images : UploadCheck(u, a, image)
       \/ UploadEnter(u) \/ Claim(u) \/ Reject(u) \/ Put(u) \/ Commit(u)
       \/ FailPut(u) \/ FailCommit(u)

Next == Review \/ Library \/ Crash

Spec == Init /\ [][Next]_vars

-----------------------------------------------------------------------------
(* Properties *)

(* What the library offers can be served: the object of an image that is ready
   is the one its row describes, whoever else uploads to the same row, and
   whatever fails or stops between the storage and the database. *)
ReadyIsIntact ==
  \A a \in Assets : Where(a, "ready") => Intact(a)

(* An image that became ready stays so, and with the same bytes: the handler
   that did not hear of its own commit and marks its upload failed, or an upload
   of the same row that comes late, takes nothing back.  (Who archives an image
   leaves its status and its object as they are.) *)
ReadyStays ==
  [][\A a \in Assets : Where(a, "ready") =>
       /\ asset'[a].status = "ready" /\ asset'[a].sha = asset[a].sha
       /\ object'[a] = object[a]]_vars

(* The counter is the number of uploads in progress: no error path keeps a
   place, and there are never more than the limit. *)
UploadsCounted ==
  /\ uploads = Cardinality({u \in Uploads : up[u].pc \notin {"idle", "enter"}})
  /\ uploads <= MaxUploads
=============================================================================
