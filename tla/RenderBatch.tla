----------------------------- MODULE RenderBatch -----------------------------
(***************************************************************************)
(* The items of one render batch and the counters and status stored with   *)
(* it: updateBatchCounters, the transactions of the renderer that call it  *)
(* (renderer-worker.ts), computeBatchAggregateStatus (contracts/design.ts) *)
(* and the cancel handler (render-batch.ts).                               *)
(*                                                                         *)
(* A transaction reads what others have committed at the moment of each    *)
(* statement (READ COMMITTED), sees its own writes, and holds the rows it  *)
(* wrote until it ends.  The five counts are five statements.  PENDING and *)
(* PROCESSING batches are OPEN here, nothing tells them apart.  What an    *)
(* execution does between its transactions is the subject of Renderer; a   *)
(* lease may end at any moment.                                            *)
(***************************************************************************)
EXTENDS Integers, FiniteSets

CONSTANTS
  Items,        \* the render jobs of the batch
  Workers,      \* executions of the renderer
  Reconcilers,  \* reconciliation cycles
  Requests      \* concurrent cancel requests

ASSUME RenderBatchAssumption ==
  /\ IsFiniteSet(Items) /\ Items # {}
  /\ "none" \notin Items /\ "none" \notin Workers
  /\ Workers \cap Reconcilers = {} /\ Requests \cap (Workers \cup Reconcilers) = {}

VARIABLES
  item,     \* [Items -> row of RenderJob: status and executionToken]
  batch,    \* row of RenderBatch: status, counters, cancelRequestedAt
  exec,     \* [Workers -> the execution: its item and how far it is]
  tx        \* [Actors -> the open transaction that counts the items]

vars == <<item, batch, exec, tx>>

Actors   == Workers \cup Reconcilers \cup Requests
Final    == {"COMPLETED", "FAILED", "CANCELLED"}
Statuses == {"PENDING", "PROCESSING"} \cup Final
Ended    == {"COMPLETED", "PARTIALLY_FAILED", "FAILED", "CANCELLED"}
Active   == {"OPEN", "CANCELLING"}
Total    == Cardinality(Items)

Tally == [Final -> 0..Total]
Zero  == [s \in Final |-> 0]
Sum(t) == t.COMPLETED + t.FAILED + t.CANCELLED

(* stage: 0 no transaction, 1 to 5 the status to count, then the batch row;
   open: an item that has not ended was counted, which decides the outcome. *)
Order == <<"PENDING", "PROCESSING", "COMPLETED", "FAILED", "CANCELLED">>
READ  == 6
WRITE == 7
NoTx  == [stage |-> 0, writes |-> {}, to |-> "none", open |-> FALSE, tally |-> Zero,
          cancel |-> FALSE]

Off == [pc |-> "idle", item |-> "none"]

(* An execution is over when its last transaction is open: exec is idle. *)
Busy(w)       == tx[w].stage # 0 \/ exec[w].pc # "idle"
Set(u, t)     == tx' = [tx EXCEPT ![u] = t]
Owns(w)       == exec[w].item \in Items /\ item[exec[w].item].token = w
Unlocked(i)   == \A u \in Actors : i \notin tx[u].writes
(* A cancel holds the row of the batch from its first statement on. *)
BatchFree(u)  == \A r \in Requests \ {u} : tx[r].stage = 0
Freed(status) == [status |-> status, token |-> "none"]

(* A transaction that wrote these items and goes on to count. *)
Opened(u, writes, to) ==
  [NoTx EXCEPT !.stage = 1, !.writes = writes, !.to = IF writes = {} THEN "none" ELSE to]

-----------------------------------------------------------------------------
(* computeBatchAggregateStatus *)

StillActive(cancel) == IF cancel THEN "CANCELLING" ELSE "OPEN"
HowItEnded(t) ==
  CASE t.COMPLETED = Total -> "COMPLETED"
    [] t.FAILED = Total    -> "FAILED"
    [] t.CANCELLED = Total -> "CANCELLED"
    [] t.FAILED > 0        -> "PARTIALLY_FAILED"
    [] OTHER               -> "CANCELLED"

(* Variant with a bug: the sum of the counters is not compared. *)
AggregateUnchecked(open, t, cancel) ==
  IF open THEN StillActive(cancel) ELSE HowItEnded(t)

(* Counters that do not add up to totalItems keep the batch active. *)
Aggregate(open, t, cancel) ==
  IF open \/ Sum(t) # Total THEN StillActive(cancel) ELSE HowItEnded(t)

-----------------------------------------------------------------------------
(* Executions: transactions that do not count *)

(* The acquisition: of a PENDING item, or of one whose lease has ended. *)
Acquire(w, i) ==
  /\ ~Busy(w)
  /\ item[i].status \in {"PENDING", "PROCESSING"} /\ Unlocked(i)
  /\ item' = [item EXCEPT ![i] = [status |-> "PROCESSING", token |-> w]]
  /\ exec' = [exec EXCEPT ![w] = [pc |-> "began", item |-> i]]
  /\ UNCHANGED <<batch, tx>>

(* No cancel was requested when the execution looked, before it stores. *)
Proceed(w) ==
  /\ exec[w].pc = "began"
  /\ ~batch.cancel
  /\ exec' = [exec EXCEPT ![w].pc = "storing"]
  /\ UNCHANGED <<item, batch, tx>>

(* releaseTransientJob: back to PENDING, if the token still matches. *)
Release(w) ==
  /\ exec[w].pc # "idle"
  /\ item' = IF Owns(w) THEN [item EXCEPT ![exec[w].item] = Freed("PENDING")] ELSE item
  /\ exec' = [exec EXCEPT ![w] = Off]
  /\ UNCHANGED <<batch, tx>>

(* The reconciler resets an item whose lease has ended. *)
Reset(i) ==
  /\ item[i].status = "PROCESSING" /\ Unlocked(i)
  /\ item' = [item EXCEPT ![i] = Freed("PENDING")]
  /\ UNCHANGED <<batch, exec, tx>>

-----------------------------------------------------------------------------
(* Transactions that count *)

(* COMPLETED after the upload, FAILED at any time, where executionToken. *)
Finish(w, to) ==
  /\ \/ exec[w].pc = "storing" /\ to \in {"COMPLETED", "FAILED"}
     \/ exec[w].pc = "began" /\ to = "FAILED"
  /\ Owns(w)
  /\ Set(w, Opened(w, {exec[w].item}, to))
  /\ exec' = [exec EXCEPT ![w] = Off]
  /\ UNCHANGED <<item, batch>>

(* The cooperative cancellation counts even if it no longer owns the item. *)
CancelSelf(w) ==
  /\ exec[w].pc = "began"
  /\ batch.cancel
  /\ Set(w, Opened(w, IF Owns(w) THEN {exec[w].item} ELSE {}, "CANCELLED"))
  /\ exec' = [exec EXCEPT ![w] = Off]
  /\ UNCHANGED <<item, batch>>

(* Variant with a bug: a batch whose cancel was requested is not looked for. *)
RecountUncancelledOnly(c) ==
  /\ batch.status = "OPEN" /\ tx[c].stage = 0
  /\ Set(c, Opened(c, {}, "none"))
  /\ UNCHANGED <<item, batch, exec>>

(* discover_active_render_batches, and the counts of such a batch. *)
Recount(c) ==
  /\ batch.status \in Active /\ tx[c].stage = 0
  /\ Set(c, Opened(c, {}, "none"))
  /\ UNCHANGED <<item, batch, exec>>

(* POST /cancel of a batch that has not ended: the request, then all PENDING
   items at once. *)
Cancel(r) ==
  /\ tx[r].stage = 0 /\ BatchFree(r)
  /\ batch.status \in Active
  /\ Set(r, Opened(r, {i \in Items : item[i].status = "PENDING"}, "CANCELLED"))
  /\ UNCHANGED <<item, batch, exec>>

(* One count: the rows as committed, and the transaction's own.  The counts
   that follow an item that is still active decide nothing, and are left out:
   the counters of a batch that has not ended are abstracted to zero. *)
Seen(u, i) == IF i \in tx[u].writes THEN tx[u].to ELSE item[i].status

Count(u) ==
  /\ tx[u].stage \in 1..5
  /\ LET s == Order[tx[u].stage]
         n == Cardinality({i \in Items : Seen(u, i) = s})
     IN Set(u, IF s \in Final THEN [tx[u] EXCEPT !.stage = @ + 1, !.tally[s] = @ + n]
               ELSE IF n = 0 THEN [tx[u] EXCEPT !.stage = @ + 1]
               ELSE [tx[u] EXCEPT !.stage = READ, !.open = TRUE])
  /\ UNCHANGED <<item, batch, exec>>

ReadBatch(u) ==
  /\ tx[u].stage = READ
  /\ Set(u, [tx[u] EXCEPT !.stage = WRITE, !.cancel = batch.cancel \/ u \in Requests])
  /\ UNCHANGED <<item, batch, exec>>

(* The audit entries that the policy of AuditLog lets system:renderer write,
   and the one the cancel handler writes in its name. *)
RendererAudits == {"batch.started", "batch.completed", "batch.cancelled",
                   "batch.completed_with_failures", "batch.reconciled", "batch.retried"}

CancelAudit(open, t) ==
  IF open THEN "batch.cancel_requested"
  ELSE IF Aggregate(open, t, TRUE) = "CANCELLED" THEN "batch.cancelled" ELSE "batch.completed"

Refused(u) == u \in Requests /\ CancelAudit(tx[u].open, tx[u].tally) \notin RendererAudits

(* The row of the batch is written by id, and everything is committed. *)
Commit(u) ==
  /\ tx[u].stage = WRITE /\ BatchFree(u)
  /\ ~Refused(u)
  /\ item' = [i \in Items |-> IF i \in tx[u].writes THEN Freed(tx[u].to) ELSE item[i]]
  /\ batch' = [status |-> Aggregate(tx[u].open, tx[u].tally, tx[u].cancel),
               tally  |-> tx[u].tally,
               cancel |-> batch.cancel \/ u \in Requests]
  /\ Set(u, NoTx)
  /\ exec' = exec

(* Variant with a bug: the items are cancelled in a transaction of their own. *)
RefuseKeepingItems(r) ==
  /\ tx[r].stage = WRITE /\ Refused(r)
  /\ item' = [i \in Items |-> IF i \in tx[r].writes THEN Freed(tx[r].to) ELSE item[i]]
  /\ Set(r, NoTx)
  /\ UNCHANGED <<batch, exec>>

(* An audit entry that the policy refuses rolls the cancel back: a 503. *)
Refuse(r) ==
  /\ tx[r].stage = WRITE /\ Refused(r)
  /\ Set(r, NoTx)
  /\ UNCHANGED <<item, batch, exec>>

(* The process dies, or its transaction rolls back and undoes what it wrote.
   A recount or a cancel that fails leaves nothing: it was not made. *)
Fail(w) ==
  /\ Busy(w)
  /\ Set(w, NoTx)
  /\ exec' = [exec EXCEPT ![w] = Off]
  /\ UNCHANGED <<item, batch>>

-----------------------------------------------------------------------------
Init ==
  /\ item = [i \in Items |-> Freed("PENDING")]
  /\ batch = [status |-> "OPEN", tally |-> Zero, cancel |-> FALSE]
  /\ exec = [w \in Workers |-> Off]
  /\ tx = [u \in Actors |-> NoTx]

Execute(w) ==
  \/ \E i \in Items : Acquire(w, i)
  \/ Proceed(w) \/ Release(w) \/ CancelSelf(w)
  \/ \E to \in {"COMPLETED", "FAILED"} : Finish(w, to)

Advance(u) == Count(u) \/ ReadBatch(u) \/ Commit(u)

Next ==
  \/ \E w \in Workers : Execute(w) \/ Fail(w)
  \/ \E i \in Items : Reset(i)
  \/ \E c \in Reconcilers : Recount(c)
  \/ \E r \in Requests : Cancel(r) \/ Refuse(r)
  \/ \E u \in Actors : Advance(u)

Spec == Init /\ [][Next]_vars

(* Transactions go on, also when they wait for a row that is locked again and
   again (PostgreSQL serves them in turn), and the cycle runs every minute. *)
Fairness ==
  /\ \A u \in Actors : WF_vars(Count(u) \/ ReadBatch(u)) /\ SF_vars(Commit(u))
  /\ \A r \in Requests : WF_vars(Refuse(r))
  /\ \A c \in Reconcilers : WF_vars(Recount(c))

FairSpec == Spec /\ Fairness

-----------------------------------------------------------------------------
(* Properties *)

(* Types. *)
TypeOK ==
  /\ item \in [Items -> [status: Statuses, token: Workers \cup {"none"}]]
  /\ batch \in [status: Active \cup Ended, tally: Tally, cancel: BOOLEAN]
  /\ exec \in [Workers -> [pc: {"idle", "began", "storing"}, item: Items \cup {"none"}]]
  /\ tx \in [Actors -> [stage: 0..WRITE, writes: SUBSET Items,
                        to: Final \cup {"none"}, open: BOOLEAN, tally: Tally,
                        cancel: BOOLEAN]]

Number(s) == Cardinality({i \in Items : item[i].status = s})
Exact     == batch.tally = [s \in Final |-> Number(s)]
AllFinal  == \A i \in Items : item[i].status \in Final

(* A batch is shown as ended only when every item has ended, with counters
   that are those of the items, although five counts made one after the
   other while items move need not fit together. *)
EndedExactly == batch.status \in Ended => AllFinal /\ Exact

(* No item is cancelled unless the cancel of the batch is recorded: a cancel
   that is rolled back leaves the items as they were. *)
CancelledIfAsked == (\E i \in Items : item[i].status = "CANCELLED") => batch.cancel

(* When all items have ended, the batch ends too and stays so with the right
   counters, whatever stale counts were written in between. *)
CountsSettle == AllFinal ~> [](batch.status \in Ended /\ Exact)
=============================================================================
