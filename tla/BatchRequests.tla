--------------------------- MODULE BatchRequests ---------------------------
(***************************************************************************)
(* Requests that create render work: POST /render-batches and              *)
(* POST /render-batches/:batchId/retry-failed (render-batch.ts) and        *)
(* POST /render-jobs (render.ts), each under an idempotency key, with what *)
(* happens meanwhile to their posts and to the items of earlier ones.      *)
(*                                                                         *)
(* A single render job is a batch of one post here: it is created by the   *)
(* same steps, under keys of its own.  Template, format and texts are part *)
(* of what a request asks for and never change, so its posts stand for all *)
(* of it.  Each statement of a transaction reads what is committed then.   *)
(* The life of an item in queue and renderer is the subject of Renderer,   *)
(* and the cancel of a batch of RenderBatch: here an item just ends, and a *)
(* batch becomes CANCELLING or is no longer so.                            *)
(***************************************************************************)
EXTENDS Integers, FiniteSets

CONSTANTS
  Requests,    \* concurrent handlers
  BatchKeys,   \* idempotency keys of batches
  JobKeys,     \* idempotency keys of single render jobs
  Posts,       \* posts of the client
  Rows,        \* ids of RenderBatch, and of RenderJob for the single ones
  Limit,       \* posts a batch may hold, 100 in the code
  none         \* null

Keys == BatchKeys \cup JobKeys

ASSUME BatchRequestsAssumption ==
  /\ BatchKeys \cap JobKeys = {} /\ none \notin Keys \cup Rows
  /\ IsFiniteSet(Posts) /\ Limit \in Nat \ {0}

VARIABLES
  row,         \* [Rows -> row of RenderBatch, none if absent]
  item,        \* [Rows -> [Posts -> RenderJob.status]]
  cancelling,  \* rows whose status is CANCELLING
  members,     \* posts of the content batch that requests may name
  req          \* [Requests -> local state of a handler]

vars == <<row, item, cancelling, members, req>>

Final == {"FAILED", "ENDED"}   \* ENDED stands for COMPLETED and CANCELLED
Ops   == {"selection", "content", "single", "retry"}

(* What a request asks for: a selection names posts, a retry names a batch. *)
Asked == [op: Ops, key: Keys, want: SUBSET Posts, parent: Rows \cup {none}]

(* A row of RenderBatch: what created it, its posts, its sourceType. *)
Batch == [asked: Asked, posts: SUBSET Posts, source: Ops]

ASSUME NoneAssumption == none \notin Batch

Idle(r)    == req' = [req EXCEPT ![r] = [pc |-> "idle"]]
Go(r, pc)  == req' = [req EXCEPT ![r].pc = pc]
Held(b)    == row[b] # none
Keyed(k)   == {b \in Rows : Held(b) /\ row[b].asked.key = k}
Failed(b)  == {p \in Posts : item[b][p] = "FAILED"}

-----------------------------------------------------------------------------
(* One request *)

(* A batch of posts, of a content batch, a single job, or the failed items of
   a batch that exists. *)
Receive(r, asked) ==
  /\ req[r].pc = "idle"
  /\ (asked.key \in JobKeys) = (asked.op = "single")
  /\ CASE asked.op = "selection" -> /\ asked.want # {} /\ asked.parent = none
                                    /\ Cardinality(asked.want) <= Limit
       [] asked.op = "single"    -> Cardinality(asked.want) = 1 /\ asked.parent = none
       [] asked.op = "content"   -> asked.want = {} /\ asked.parent = none
       [] asked.op = "retry"     -> asked.want = {} /\ asked.parent # none
  /\ asked.op = "retry" =>
       Held(asked.parent) /\ row[asked.parent].asked.key \in BatchKeys
  /\ req' = [req EXCEPT ![r] = [pc |-> IF asked.op = "content" THEN "count" ELSE "lookup",
                                asked |-> asked, posts |-> asked.want]]
  /\ UNCHANGED <<row, item, cancelling, members>>

(* tx.post.count, and 400 beyond the limit. *)
Count(r) ==
  /\ req[r].pc = "count"
  /\ Go(r, IF Cardinality(members) > Limit THEN "refused" ELSE "find")
  /\ UNCHANGED <<row, item, cancelling, members>>

(* tx.post.findMany, a statement of its own that an import may precede; 422
   without posts. *)
FindPosts(r) ==
  /\ req[r].pc = "find"
  /\ req' = [req EXCEPT ![r].posts = members,
                        ![r].pc = IF members = {} THEN "refused" ELSE "lookup"]
  /\ UNCHANGED <<row, item, cancelling, members>>

(* The fingerprint of a batch, or the fields of a single job. *)
Equivalent(asked, posts, b) == row[b].source = asked.op /\ row[b].posts = posts

(* A retry compares the parent alone. *)
SameParent(asked, b) == row[b].asked.parent = asked.parent

Answer(r, b) ==
  req' = [req EXCEPT ![r] = [pc |-> "answered", asked |-> req[r].asked, row |-> b]]

(* A row under the key answers an equivalent request and refuses another. *)
Resolve(r, posts) ==
  \E b \in Keyed(req[r].asked.key) :
    IF \/ req[r].asked.op = "retry" /\ SameParent(req[r].asked, b)
       \/ req[r].asked.op # "retry" /\ Equivalent(req[r].asked, posts, b)
    THEN Answer(r, b) ELSE Go(r, "refused")

(* findFirst by key, of RenderBatch or RenderJob. *)
Lookup(r) ==
  LET asked == req[r].asked IN
  /\ req[r].pc = "lookup" /\ asked.op # "retry"
  /\ \/ Keyed(asked.key) # {} /\ Resolve(r, req[r].posts)
     \/ Keyed(asked.key) = {} /\ Go(r, "create")
  /\ UNCHANGED <<row, item, cancelling, members>>

(* A retry is refused while its parent is CANCELLING, before it looks for a
   row under its key; without such a row it reads the failed items, and is
   refused with 422 when there are none. *)
ParentCancelling(r) == req[r].asked.op = "retry" /\ req[r].asked.parent \in cancelling

LookupRetry(r) ==
  LET asked == req[r].asked IN
  /\ req[r].pc = "lookup" /\ asked.op = "retry"
  /\ \/ ParentCancelling(r) /\ Go(r, "refused")
     \/ ~ParentCancelling(r) /\ Keyed(asked.key) # {} /\ Resolve(r, {})
     \/ /\ ~ParentCancelling(r) /\ Keyed(asked.key) = {}
        /\ req' = [req EXCEPT ![r].posts = Failed(asked.parent),
                              ![r].pc = IF Failed(asked.parent) = {}
                                        THEN "refused" ELSE "create"]
  /\ UNCHANGED <<row, item, cancelling, members>>

(* The row and its items, in one transaction; a retry is of the source of its
   parent. *)
Write(r, b) ==
  LET asked == req[r].asked IN
  /\ ~Held(b)
  /\ row' = [row EXCEPT ![b] =
       [asked |-> asked, posts |-> req[r].posts,
        source |-> IF asked.op = "retry" THEN row[asked.parent].source ELSE asked.op]]
  /\ item' = [item EXCEPT ![b] = [p \in Posts |->
                IF p \in req[r].posts THEN "PENDING" ELSE "ABSENT"]]
  /\ req' = [req EXCEPT ![r] = [pc |-> "enqueue", asked |-> asked, row |-> b]]
  /\ UNCHANGED <<cancelling, members>>

(* The unique index finds no row under the key. *)
Free(r, ops) ==
  req[r].pc = "create" /\ req[r].asked.op \in ops /\ Keyed(req[r].asked.key) = {}

(* Variant with a bug: without the unique index on the key. *)
CreateWithoutIndex(r, b) ==
  req[r].pc = "create" /\ req[r].asked.op \in {"selection", "content"} /\ Write(r, b)

Create(r, b)       == Free(r, {"selection", "content"}) /\ Write(r, b)
CreateSingle(r, b) == Free(r, {"single"}) /\ Write(r, b)
CreateRetry(r, b)  == Free(r, {"retry"}) /\ Write(r, b)

(* P2002: the transaction is rolled back and the row of the winner read in a
   clean one. *)
Conflict(r) ==
  /\ req[r].pc = "create"
  /\ Keyed(req[r].asked.key) # {}
  /\ Go(r, "recover")
  /\ UNCHANGED <<row, item, cancelling, members>>

(* Variant with a bug: a lost race is a conflict. *)
RecoverRefusing(r) ==
  /\ req[r].pc = "recover" /\ req[r].asked.op # "retry"
  /\ Go(r, "refused")
  /\ UNCHANGED <<row, item, cancelling, members>>

(* The same comparison; the posts of a content batch are read again. *)
Recover(r) ==
  /\ req[r].pc = "recover" /\ req[r].asked.op # "retry"
  /\ Resolve(r, IF req[r].asked.op = "content" THEN members ELSE req[r].posts)
  /\ UNCHANGED <<row, item, cancelling, members>>

RecoverRetry(r) ==
  /\ req[r].pc = "recover" /\ req[r].asked.op = "retry"
  /\ Resolve(r, {})
  /\ UNCHANGED <<row, item, cancelling, members>>

(* Template, media or text are not valid, or the transaction fails. *)
Refuse(r) ==
  /\ req[r].pc = "create"
  /\ Go(r, "refused")
  /\ UNCHANGED <<row, item, cancelling, members>>

(* After the commit: queue.add for every item.  One that fails is logged, and
   left to the reconciliation of the renderer. *)
Enqueue(r) ==
  /\ req[r].pc = "enqueue"
  /\ Answer(r, req[r].row)
  /\ UNCHANGED <<row, item, cancelling, members>>

(* The answer is sent: 200, 201, 202, or an error. *)
Reply(r) ==
  /\ req[r].pc \in {"answered", "refused"}
  /\ Idle(r)
  /\ UNCHANGED <<row, item, cancelling, members>>

(* The process stops, in a transaction or after it. *)
Crash(r) ==
  /\ req[r].pc \notin {"idle", "answered", "refused"}
  /\ Idle(r)
  /\ UNCHANGED <<row, item, cancelling, members>>

-----------------------------------------------------------------------------
(* What happens to the rows *)

(* An import adds posts to the content batch; a draft without render jobs may
   be deleted.  A request that has read the draft would fail on its foreign
   key: that is Refuse, and the delete comes after it. *)
Import(p) ==
  /\ p \notin members
  /\ members' = members \cup {p}
  /\ UNCHANGED <<row, item, cancelling, req>>

DeleteDraft(p) ==
  /\ p \in members
  /\ \A b \in Rows : item[b][p] = "ABSENT"
  /\ \A r \in Requests : req[r].pc \in {"count", "find", "lookup", "create", "recover"} =>
                           p \notin req[r].posts
  /\ members' = members \ {p}
  /\ UNCHANGED <<row, item, cancelling, req>>

(* The renderer, or a cancel, ends an item. *)
ItemEnds(b, p, status) ==
  /\ item[b][p] = "PENDING"
  /\ item' = [item EXCEPT ![b][p] = status]
  /\ UNCHANGED <<row, cancelling, members, req>>

(* A cancel whose counts do not add up, or a count after it, writes CANCELLING,
   and another count writes another status: Aggregate in RenderBatch. *)
CountsOfCancel(b) ==
  /\ Held(b) /\ row[b].asked.key \in BatchKeys
  /\ cancelling' = IF b \in cancelling THEN cancelling \ {b} ELSE cancelling \cup {b}
  /\ UNCHANGED <<row, item, members, req>>

-----------------------------------------------------------------------------
Init ==
  /\ row = [b \in Rows |-> none]
  /\ item = [b \in Rows |-> [p \in Posts |-> "ABSENT"]]
  /\ cancelling = {}
  /\ members \in SUBSET Posts
  /\ req = [r \in Requests |-> [pc |-> "idle"]]

Request(r) ==
  \/ \E asked \in Asked : Receive(r, asked)
  \/ Count(r) \/ FindPosts(r) \/ Lookup(r) \/ LookupRetry(r)
  \/ \E b \in Rows : Create(r, b) \/ CreateSingle(r, b) \/ CreateRetry(r, b)
  \/ Conflict(r) \/ Recover(r) \/ RecoverRetry(r) \/ Refuse(r)
  \/ Enqueue(r) \/ Reply(r) \/ Crash(r)

World ==
  \/ \E p \in Posts : Import(p) \/ DeleteDraft(p)
  \/ \E b \in Rows, p \in Posts, status \in Final : ItemEnds(b, p, status)
  \/ \E b \in Rows : CountsOfCancel(b)

Next == (\E r \in Requests : Request(r)) \/ World

Spec == Init /\ [][Next]_vars

-----------------------------------------------------------------------------
(* Properties *)

(* The rows, their items, and the state of every handler. *)
TypeOK ==
  /\ \A b \in Rows : Held(b) =>
       /\ row[b].asked \in Asked /\ row[b].posts \in (SUBSET Posts) \ {{}}
       /\ row[b].source \in {"selection", "content", "single"}
  /\ item \in [Rows -> [Posts -> Final \cup {"ABSENT", "PENDING"}]]
  /\ cancelling \subseteq Rows /\ members \subseteq Posts
  /\ \A r \in Requests : req[r].pc \in {"idle", "count", "find", "lookup", "create",
                                        "recover", "enqueue", "answered", "refused"}

(* A double click, a retry after a lost answer and two concurrent requests:
   whatever is answered under one key is one batch, and that batch is what
   each of them asked for; its items were created with it, all of them. *)
AnswersAgree ==
  \A r \in Requests : req[r].pc = "answered" =>
    LET asked == req[r].asked
        b == req[r].row
    IN /\ Keyed(asked.key) = {b}
       /\ asked.op = "retry" => row[b].asked.parent = asked.parent
       /\ asked.op \in {"selection", "single"} => row[b].posts = asked.want
       /\ {p \in Posts : item[b][p] # "ABSENT"} = row[b].posts

(* A request that was carried out, whoever saw the answer, is answered again
   when it is repeated: no later state of its items, and no race with another
   one, makes it a conflict.  Two are left out, for what the code does.  The
   posts of a content batch are read again and may have changed; and a retry
   is refused at its lookup while its parent is CANCELLING, carried out before
   or not (render-batch.ts:1395-1403). *)
RepeatIsAnswered ==
  [][\A r \in Requests :
       /\ req[r].pc = "recover" \/ (req[r].pc = "lookup" /\ ~ParentCancelling(r))
       /\ req[r].asked.op # "content"
       /\ req'[r].pc = "refused"
       => ~ \E b \in Rows : Held(b) /\ row[b].asked = req[r].asked]_vars
=============================================================================
