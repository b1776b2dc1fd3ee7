-------------------------- MODULE RenderBatchProofs --------------------------
(***************************************************************************)
(* What holds of RenderBatch for a batch of any size, and any number of    *)
(* executions, reconciliation cycles and cancel requests.                  *)
(*                                                                         *)
(* The five counts of a transaction are made at five moments, but an item  *)
(* that has ended stays as it is, and the items a transaction has written  *)
(* are its own until it commits: what was counted as ended is still there, *)
(* so that three counts that add up to the batch are those of the items.   *)
(***************************************************************************)
EXTENDS RenderBatch, TLAPS, FiniteSetTheorems

-----------------------------------------------------------------------------
(* The inductive invariant *)

TxType == [stage: 0..WRITE, writes: SUBSET Items, to: Final \cup {"none"},
           open: BOOLEAN, tally: Tally, cancel: BOOLEAN]

SeenAs(u, s) == {i \in Items : Seen(u, i) = s}

(* An item has an owner only while it is rendered. *)
RowInv == \A i \in Items : item[i].token # "none" => item[i].status = "PROCESSING"

(* The rows a transaction wrote are locked: an execution wrote one it owns, a
   cancel those that are pending, and there is one cancel at a time. *)
LockInv ==
  /\ \A w \in Workers : exec[w].pc # "idle" => tx[w].stage = 0 /\ exec[w].item \in Items
  /\ \A u \in Actors : tx[u].stage = 0 => tx[u].writes = {}
  /\ \A u \in Actors, i \in Items : i \in tx[u].writes =>
       /\ tx[u].to \in Final
       /\ u \in Workers => item[i].token = u
       /\ u \in Requests => item[i].status = "PENDING"
       /\ u \notin Reconcilers
  /\ \A r, q \in Requests : tx[r].stage # 0 /\ tx[q].stage # 0 => r = q

(* A count is never above the items that are so by now. *)
CountInv(u) ==
  /\ \A s \in Final : tx[u].tally[s] <= Cardinality(SeenAs(u, s))
  /\ tx[u].stage <= 3 => tx[u].tally["COMPLETED"] = 0
  /\ tx[u].stage <= 4 => tx[u].tally["FAILED"] = 0
  /\ tx[u].stage <= 5 => tx[u].tally["CANCELLED"] = 0

(* An execution only cancels an item when the cancel is recorded. *)
CancelInv ==
  /\ \A u \in Actors : tx[u].to = "CANCELLED" => u \in Requests \/ batch.cancel
  /\ CancelledIfAsked

Inv ==
  /\ TypeOK /\ RowInv /\ LockInv
  /\ \A u \in Actors : CountInv(u)
  /\ CancelInv /\ EndedExactly

-----------------------------------------------------------------------------
(* Counting *)

LEMMA TotalType == Total \in Nat
BY FS_CardinalityType, RenderBatchAssumption DEF Total

LEMMA Subsets ==
  ASSUME NEW S \in SUBSET Items
  PROVE  IsFiniteSet(S) /\ Cardinality(S) \in 0..Total
<1>1. IsFiniteSet(S) /\ Cardinality(S) <= Cardinality(Items)
  BY FS_Subset, RenderBatchAssumption
<1> QED
  BY <1>1, TotalType, FS_CardinalityType DEF Total

LEMMA ZeroTally == Zero \in Tally /\ \A s \in Final : Zero[s] = 0
BY TotalType DEF Zero, Tally, Final

(* Three disjoint sets that have as many elements as there are items are all
   the items. *)
LEMMA ThreeParts ==
  ASSUME NEW A \in SUBSET Items, NEW B \in SUBSET Items, NEW C \in SUBSET Items,
         A \cap B = {}, (A \cup B) \cap C = {}
  PROVE  /\ Cardinality(A) + Cardinality(B) + Cardinality(C) <= Total
         /\ Cardinality(A) + Cardinality(B) + Cardinality(C) = Total => A \cup B \cup C = Items
<1>1. /\ IsFiniteSet(A) /\ IsFiniteSet(B) /\ IsFiniteSet(C)
      /\ Cardinality(A) \in Nat /\ Cardinality(B) \in Nat /\ Cardinality(C) \in Nat
  BY Subsets, FS_CardinalityType
<1>2. IsFiniteSet(A \cup B) /\ Cardinality(A \cup B) = Cardinality(A) + Cardinality(B)
  <2>1. Cardinality(A \cap B) = 0
    BY FS_EmptySet
  <2>2. IsFiniteSet(A \cup B)
    BY <1>1, FS_Union
  <2>3. Cardinality(A \cup B) = Cardinality(A) + Cardinality(B) - Cardinality(A \cap B)
    BY <1>1, FS_Union
  <2> QED
    BY <1>1, <2>1, <2>2, <2>3
<1>3. Cardinality((A \cup B) \cup C) = Cardinality(A) + Cardinality(B) + Cardinality(C)
  <2>1. Cardinality((A \cup B) \cap C) = 0
    BY FS_EmptySet
  <2>2. Cardinality((A \cup B) \cup C) = Cardinality(A \cup B) + Cardinality(C) - Cardinality((A \cup B) \cap C)
    BY <1>1, <1>2, FS_Union
  <2> QED
    BY <1>1, <1>2, <2>1, <2>2
<1>4. (A \cup B) \cup C \in SUBSET Items
  OBVIOUS
<1>5. Cardinality((A \cup B) \cup C) <= Cardinality(Items)
  BY <1>4, FS_Subset, RenderBatchAssumption
<1>6. Cardinality((A \cup B) \cup C) = Cardinality(Items) => (A \cup B) \cup C = Items
  BY <1>4, FS_Subset, RenderBatchAssumption
<1> QED
  BY <1>3, <1>5, <1>6 DEF Total

(* Counts that add up are the numbers of the items, which have all ended. *)
LEMMA AddsUp ==
  ASSUME NEW t \in Tally, NEW seen \in [Items -> Statuses],
         \A s \in Final : t[s] <= Cardinality({i \in Items : seen[i] = s}),
         Sum(t) = Total
  PROVE  /\ \A i \in Items : seen[i] \in Final
         /\ t = [s \in Final |-> Cardinality({i \in Items : seen[i] = s})]
<1> DEFINE In(s) == {i \in Items : seen[i] = s}
<1>1. /\ \A s \in Final : Cardinality(In(s)) \in Nat
      /\ In("COMPLETED") \cup In("FAILED") \cup In("CANCELLED") \subseteq Items
  BY Subsets, TotalType
<1>2. /\ Cardinality(In("COMPLETED")) + Cardinality(In("FAILED")) + Cardinality(In("CANCELLED")) <= Total
      /\ Cardinality(In("COMPLETED")) + Cardinality(In("FAILED")) + Cardinality(In("CANCELLED")) = Total
           => In("COMPLETED") \cup In("FAILED") \cup In("CANCELLED") = Items
  <2>1. /\ In("COMPLETED") \in SUBSET Items /\ In("FAILED") \in SUBSET Items
        /\ In("CANCELLED") \in SUBSET Items /\ In("COMPLETED") \cap In("FAILED") = {}
        /\ (In("COMPLETED") \cup In("FAILED")) \cap In("CANCELLED") = {}
    OBVIOUS
  <2> HIDE DEF In
  <2> QED
    BY <2>1, ThreeParts
<1>3. t["COMPLETED"] \in Nat /\ t["FAILED"] \in Nat /\ t["CANCELLED"] \in Nat
  BY TotalType DEF Tally, Final
<1>4. /\ t["COMPLETED"] <= Cardinality(In("COMPLETED")) /\ t["FAILED"] <= Cardinality(In("FAILED"))
      /\ t["CANCELLED"] <= Cardinality(In("CANCELLED"))
  BY DEF Final
<1>5. t["COMPLETED"] + t["FAILED"] + t["CANCELLED"] = Total
  BY DEF Sum
<1>6. /\ Cardinality(In("COMPLETED")) \in Nat /\ Cardinality(In("FAILED")) \in Nat
      /\ Cardinality(In("CANCELLED")) \in Nat
  BY <1>1 DEF Final
<1> HIDE DEF In
<1>7. /\ t["COMPLETED"] = Cardinality(In("COMPLETED")) /\ t["FAILED"] = Cardinality(In("FAILED"))
      /\ t["CANCELLED"] = Cardinality(In("CANCELLED"))
      /\ In("COMPLETED") \cup In("FAILED") \cup In("CANCELLED") = Items
  BY <1>2, <1>3, <1>4, <1>5, <1>6, TotalType
<1>8. \A i \in Items : seen[i] \in Final
  BY <1>7 DEF In, Final
<1>9. \A s \in Final : t[s] = Cardinality(In(s))
  BY <1>7 DEF Final
<1>10. t = [s \in Final |-> Cardinality(In(s))]
  BY <1>9 DEF Tally
<1> QED
  BY <1>8, <1>10 DEF In

-----------------------------------------------------------------------------
(* Steps *)

LEMMA SeenType ==
  ASSUME Inv, NEW u \in Actors
  PROVE  /\ \A i \in Items : Seen(u, i) \in Statuses
         /\ \A i \in Items \ tx[u].writes : Seen(u, i) = item[i].status
         /\ \A s \in Final : tx[u].tally[s] \in 0..Total
<1>1. /\ tx[u].tally \in [Final -> 0..Total]
      /\ \A i \in Items : item[i].status \in Statuses
  BY DEF Inv, TypeOK, Tally
<1>2. \A i \in Items : i \in tx[u].writes => tx[u].to \in Final
  BY DEF Inv, LockInv
<1> QED
  BY <1>1, <1>2 DEF Seen, Statuses

(* A transaction that goes on sees what it has seen as ended. *)
LEMMA CountsKept ==
  ASSUME Inv, NEW u \in Actors, tx'[u] = tx[u],
         \A i \in Items \ tx[u].writes :
            item[i].status \in Final => item'[i].status = item[i].status
  PROVE  CountInv(u)'
<1>1. CountInv(u)
  BY DEF Inv
<1>2. ASSUME NEW s \in Final
      PROVE  tx'[u].tally[s] <= Cardinality(SeenAs(u, s)')
  <2>1. SeenAs(u, s) \subseteq SeenAs(u, s)'
    BY DEF SeenAs, Seen
  <2>2. SeenAs(u, s) \in SUBSET Items /\ SeenAs(u, s)' \in SUBSET Items
    BY DEF SeenAs
  <2>3. Cardinality(SeenAs(u, s)) \in 0..Total /\ Cardinality(SeenAs(u, s)') \in 0..Total
    BY <2>2, Subsets
  <2>4. Cardinality(SeenAs(u, s)) <= Cardinality(SeenAs(u, s)')
    BY <2>1, <2>2, Subsets, FS_Subset
  <2>5. tx[u].tally[s] <= Cardinality(SeenAs(u, s)) /\ tx[u].tally[s] \in 0..Total
    BY <1>1, SeenType DEF CountInv
  <2> QED
    BY <2>3, <2>4, <2>5, TotalType
<1> QED
  BY <1>1, <1>2 DEF CountInv

(* A step on the rows of items that have not ended. *)
LEMMA RowsStep ==
  ASSUME Inv, UNCHANGED <<batch, tx>>, TypeOK', RowInv', LockInv',
         \A i \in Items : item[i].status \in Final \/ item'[i].status \in Final =>
                          item'[i].status = item[i].status
  PROVE  Inv'
<1>1. \A u \in Actors : CountInv(u)'
  BY CountsKept
<1>2. CancelInv'
  BY DEF Inv, CancelInv, CancelledIfAsked, Final
<1>3. EndedExactly'
  <2> SUFFICES ASSUME batch.status \in Ended PROVE AllFinal' /\ Exact'
    BY DEF EndedExactly
  <2>1. AllFinal /\ Exact
    BY DEF Inv, EndedExactly
  <2>2. \A i \in Items : item'[i].status = item[i].status
    BY <2>1 DEF AllFinal
  <2>3. \A s \in Final : Number(s)' = Number(s)
    BY <2>2 DEF Number
  <2> QED
    BY <2>1, <2>2, <2>3 DEF AllFinal, Exact
<1> QED
  BY <1>1, <1>2, <1>3 DEF Inv

(* A step of a transaction that does not end it. *)
LEMMA TxStep ==
  ASSUME Inv, UNCHANGED <<item, batch>>, NEW u \in Actors,
         \A v \in Actors \ {u} : tx'[v] = tx[v],
         TypeOK', LockInv', CountInv(u)',
         tx'[u].to = "CANCELLED" => u \in Requests \/ batch.cancel
  PROVE  Inv'
<1>1. \A v \in Actors : CountInv(v)'
  BY CountsKept
<1>2. RowInv' /\ CancelInv' /\ EndedExactly'
  BY DEF Inv, RowInv, CancelInv, CancelledIfAsked, EndedExactly, AllFinal, Exact, Number
<1> QED
  BY <1>1, <1>2 DEF Inv

LEMMA AcquireStep ==
  ASSUME Inv, NEW w \in Workers, NEW i \in Items, Acquire(w, i)
  PROVE  Inv'
<1>1. /\ exec[w].pc = "idle" /\ tx[w].stage = 0 /\ item[i].status \notin Final
      /\ \A u \in Actors : i \notin tx[u].writes
      /\ item' = [item EXCEPT ![i] = [status |-> "PROCESSING", token |-> w]]
      /\ exec' = [exec EXCEPT ![w] = [pc |-> "began", item |-> i]]
      /\ UNCHANGED <<batch, tx>>
  BY DEF Acquire, Busy, Unlocked, Final
<1>2. TypeOK'
  BY <1>1 DEF Inv, TypeOK, Statuses
<1>3. /\ \A j \in Items : item'[j] = IF j = i THEN [status |-> "PROCESSING", token |-> w] ELSE item[j]
      /\ \A v \in Workers : exec'[v] = IF v = w THEN [pc |-> "began", item |-> i] ELSE exec[v]
  BY <1>1 DEF Inv, TypeOK
<1>4. RowInv'
  BY <1>3 DEF Inv, RowInv
<1>5. LockInv'
  BY <1>1, <1>3 DEF Inv, LockInv
<1> QED
  BY <1>1, <1>2, <1>3, <1>4, <1>5, RowsStep DEF Final

LEMMA ReleaseStep ==
  ASSUME Inv, NEW w \in Workers, Release(w)
  PROVE  Inv'
<1>1. /\ exec[w].pc # "idle" /\ exec[w].item \in Items /\ tx[w].stage = 0 /\ tx[w].writes = {}
      /\ exec' = [exec EXCEPT ![w] = Off]
      /\ UNCHANGED <<batch, tx>>
  BY DEF Release, Inv, LockInv, Actors
<1>2. \A v \in Workers : exec'[v] = IF v = w THEN Off ELSE exec[v]
  BY <1>1 DEF Inv, TypeOK
<1>3. CASE Owns(w)
  <2>1. item' = [item EXCEPT ![exec[w].item] = Freed("PENDING")]
    BY <1>3 DEF Release
  <2>2. \A j \in Items : item'[j] = IF j = exec[w].item THEN Freed("PENDING") ELSE item[j]
    BY <2>1 DEF Inv, TypeOK
  <2>3. item[exec[w].item].token = w /\ item[exec[w].item].status = "PROCESSING"
    BY <1>1, <1>3, RenderBatchAssumption DEF Owns, Inv, RowInv
  <2>4. TypeOK'
    BY <1>1, <2>1 DEF Inv, TypeOK, Statuses, Off, Freed
  <2>5. RowInv'
    BY <2>2 DEF Inv, RowInv, Freed
  <2>6. \A u \in Actors : exec[w].item \notin tx[u].writes
    <3> SUFFICES ASSUME NEW u \in Actors, exec[w].item \in tx[u].writes PROVE FALSE
      OBVIOUS
    <3>1. u \in Workers \/ u \in Requests
      BY <1>1 DEF Inv, LockInv, Actors
    <3>2. u \in Workers => u = w
      BY <1>1, <2>3 DEF Inv, LockInv
    <3>3. u \notin Requests
      BY <1>1, <2>3 DEF Inv, LockInv
    <3> QED
      BY <1>1, <3>1, <3>2, <3>3
  <2>7. LockInv'
    BY <1>1, <1>2, <2>2, <2>6 DEF Inv, LockInv, Off
  <2> QED
    BY <1>1, <2>2, <2>3, <2>4, <2>5, <2>7, RowsStep DEF Final, Freed
<1>4. CASE ~Owns(w)
  <2>1. item' = item
    BY <1>4 DEF Release
  <2>2. TypeOK'
    BY <1>1, <2>1 DEF Inv, TypeOK, Off
  <2>3. RowInv' /\ LockInv'
    BY <1>1, <1>2, <2>1 DEF Inv, RowInv, LockInv, Off
  <2> QED
    BY <1>1, <2>1, <2>2, <2>3, RowsStep
<1> QED
  BY <1>3, <1>4

LEMMA ResetStep ==
  ASSUME Inv, NEW i \in Items, Reset(i)
  PROVE  Inv'
<1>1. /\ item[i].status = "PROCESSING" /\ \A u \in Actors : i \notin tx[u].writes
      /\ item' = [item EXCEPT ![i] = Freed("PENDING")]
      /\ UNCHANGED <<batch, exec, tx>>
  BY DEF Reset, Unlocked
<1>2. \A j \in Items : item'[j] = IF j = i THEN Freed("PENDING") ELSE item[j]
  BY <1>1 DEF Inv, TypeOK
<1>3. TypeOK'
  BY <1>1 DEF Inv, TypeOK, Statuses, Freed
<1>4. RowInv'
  BY <1>2 DEF Inv, RowInv, Freed
<1>5. LockInv'
  BY <1>1, <1>2 DEF Inv, LockInv
<1> QED
  BY <1>1, <1>2, <1>3, <1>4, <1>5, RowsStep DEF Final, Freed

LEMMA ProceedStep ==
  ASSUME Inv, NEW w \in Workers, Proceed(w)
  PROVE  Inv'
<1>1. /\ exec[w].pc = "began" /\ exec' = [exec EXCEPT ![w].pc = "storing"]
      /\ UNCHANGED <<item, batch, tx>>
  BY DEF Proceed
<1>2. TypeOK'
  BY <1>1 DEF Inv, TypeOK
<1>3. RowInv' /\ LockInv'
  BY <1>1 DEF Inv, TypeOK, RowInv, LockInv
<1> QED
  BY <1>1, <1>2, <1>3, RowsStep

-----------------------------------------------------------------------------
(* Transactions *)

(* A transaction opens with the rows it wrote, and has counted nothing. *)
LEMMA OpenStep ==
  ASSUME Inv, UNCHANGED <<item, batch>>, NEW u \in Actors, tx[u].stage = 0,
         NEW writes \in SUBSET Items, NEW to \in Final \cup {"none"},
         tx' = [tx EXCEPT ![u] = Opened(u, writes, to)],
         exec' = exec \/ (u \in Workers /\ exec' = [exec EXCEPT ![u] = Off]),
         u \in Workers => exec'[u].pc = "idle",
         \A i \in writes : /\ to \in Final
                           /\ u \in Workers => item[i].token = u
                           /\ u \in Requests => item[i].status = "PENDING"
                           /\ u \notin Reconcilers,
         u \in Requests => BatchFree(u),
         to = "CANCELLED" => u \in Requests \/ batch.cancel
  PROVE  Inv'
<1>1. /\ tx'[u].stage = 1 /\ tx'[u].writes = writes /\ tx'[u].tally = Zero
      /\ tx'[u].to = IF writes = {} THEN "none" ELSE to
      /\ Opened(u, writes, to) \in
           TxType
  <2>1. NoTx \in TxType /\ NoTx.tally = Zero
    BY ZeroTally DEF NoTx, TxType, WRITE
  <2>2. tx'[u] = Opened(u, writes, to)
    BY DEF Inv, TypeOK
  <2> DEFINE whereto == IF writes = {} THEN "none" ELSE to
  <2>3. whereto \in Final \cup {"none"} /\ 1 \in 0..WRITE
    BY DEF WRITE
  <2>4. Opened(u, writes, to) = [NoTx EXCEPT !.stage = 1, !.writes = writes, !.to = whereto]
    BY DEF Opened
  <2> HIDE DEF whereto
  <2>5. /\ tx'[u].stage = 1 /\ tx'[u].writes = writes /\ tx'[u].tally = Zero
        /\ tx'[u].to = whereto /\ Opened(u, writes, to) \in TxType
    <3> DEFINE N == NoTx
               O == Opened(u, writes, to)
    <3>1. N \in TxType /\ N.tally = Zero /\ O = [N EXCEPT !.stage = 1, !.writes = writes, !.to = whereto]
      BY <2>1, <2>4
    <3>2. tx'[u] = O
      BY <2>2
    <3> HIDE DEF N, O
    <3>3. O.stage = 1 /\ O.writes = writes /\ O.tally = Zero /\ O.to = whereto
      BY <3>1 DEF TxType
    <3>4. O \in TxType
      BY <2>3, <3>1 DEF TxType
    <3> QED
      BY <3>2, <3>3, <3>4 DEF O
  <2> QED
    BY <2>5 DEF whereto
<1>2. \A v \in Actors \ {u} : tx'[v] = tx[v]
  BY DEF Inv, TypeOK
<1>3. TypeOK'
  BY <1>1 DEF Inv, TypeOK, TxType, Off
<1>4. LockInv'
  <2>1. \A w \in Workers : exec'[w].pc # "idle" => tx'[w].stage = 0 /\ exec'[w].item \in Items
    BY <1>2 DEF Inv, TypeOK, LockInv, Off, Actors
  <2>2. \A v \in Actors : tx'[v].stage = 0 => tx'[v].writes = {}
    BY <1>1, <1>2 DEF Inv, LockInv
  <2>3. \A v \in Actors, i \in Items : i \in tx'[v].writes =>
          /\ tx'[v].to \in Final
          /\ v \in Workers => item'[i].token = v
          /\ v \in Requests => item'[i].status = "PENDING"
          /\ v \notin Reconcilers
    BY <1>1, <1>2 DEF Inv, LockInv
  <2>4. \A r, q \in Requests : tx'[r].stage # 0 /\ tx'[q].stage # 0 => r = q
    BY <1>2 DEF Inv, LockInv, BatchFree, Actors
  <2> QED
    BY <2>1, <2>2, <2>3, <2>4 DEF LockInv
<1>5. CountInv(u)'
  <2>1. \A s \in Final : tx'[u].tally[s] = 0
    BY <1>1, ZeroTally
  <2>2. \A s \in Final : Cardinality(SeenAs(u, s)') \in 0..Total
    BY Subsets DEF SeenAs
  <2>3. \A s \in Final : tx'[u].tally[s] <= Cardinality(SeenAs(u, s)')
    BY <2>1, <2>2, TotalType
  <2> QED
    BY <2>1, <2>3 DEF CountInv, Final
<1> QED
  BY <1>1, <1>2, <1>3, <1>4, <1>5, TxStep

LEMMA OpenSteps ==
  ASSUME Inv,
         \/ \E w \in Workers : CancelSelf(w) \/ \E to \in {"COMPLETED", "FAILED"} : Finish(w, to)
         \/ \E c \in Reconcilers : Recount(c)
         \/ \E r \in Requests : Cancel(r)
  PROVE  Inv'
<1>1. ASSUME NEW w \in Workers, NEW to \in {"COMPLETED", "FAILED"}, Finish(w, to) PROVE Inv'
  <2>1. /\ tx[w].stage = 0 /\ exec[w].item \in Items /\ item[exec[w].item].token = w
        /\ tx' = [tx EXCEPT ![w] = Opened(w, {exec[w].item}, to)]
        /\ exec' = [exec EXCEPT ![w] = Off] /\ exec'[w].pc = "idle"
        /\ UNCHANGED <<item, batch>> /\ w \in Actors
    BY <1>1 DEF Finish, Set, Owns, Inv, TypeOK, LockInv, Off, Actors
  <2>2. w \notin Requests /\ w \notin Reconcilers
    BY RenderBatchAssumption
  <2>3. to \in Final \cup {"none"} /\ to \in Final /\ to # "CANCELLED" /\ {exec[w].item} \in SUBSET Items
    BY <2>1 DEF Final
  <2> QED
    BY <2>1, <2>2, <2>3, OpenStep
<1>2. ASSUME NEW w \in Workers, CancelSelf(w) PROVE Inv'
  <2> DEFINE writes == IF Owns(w) THEN {exec[w].item} ELSE {}
  <2>1. /\ tx[w].stage = 0 /\ batch.cancel
        /\ writes \in SUBSET Items /\ \A i \in writes : item[i].token = w
        /\ tx' = [tx EXCEPT ![w] = Opened(w, writes, "CANCELLED")]
        /\ exec' = [exec EXCEPT ![w] = Off] /\ exec'[w].pc = "idle"
        /\ UNCHANGED <<item, batch>> /\ w \in Actors
    BY <1>2 DEF CancelSelf, Set, Owns, Inv, TypeOK, LockInv, Off, Actors
  <2>2. w \notin Requests /\ w \notin Reconcilers
    BY RenderBatchAssumption
  <2>3. "CANCELLED" \in Final \cup {"none"} /\ "CANCELLED" \in Final
    BY DEF Final
  <2> HIDE DEF writes
  <2> QED
    BY <2>1, <2>2, <2>3, OpenStep
<1>3. ASSUME NEW c \in Reconcilers, Recount(c) PROVE Inv'
  <2>1. /\ tx[c].stage = 0 /\ tx' = [tx EXCEPT ![c] = Opened(c, {}, "none")]
        /\ UNCHANGED <<item, batch, exec>> /\ c \in Actors
    BY <1>3 DEF Recount, Set, Actors
  <2>2. /\ c \notin Requests /\ c \notin Workers
        /\ {} \in SUBSET Items /\ "none" \in Final \cup {"none"}
    BY RenderBatchAssumption
  <2> QED
    BY <2>1, <2>2, OpenStep
<1>4. ASSUME NEW r \in Requests, Cancel(r) PROVE Inv'
  <2> DEFINE writes == {i \in Items : item[i].status = "PENDING"}
  <2>1. /\ tx[r].stage = 0 /\ BatchFree(r)
        /\ writes \in SUBSET Items /\ \A i \in writes : item[i].status = "PENDING"
        /\ tx' = [tx EXCEPT ![r] = Opened(r, writes, "CANCELLED")]
        /\ UNCHANGED <<item, batch, exec>> /\ r \in Actors
    BY <1>4 DEF Cancel, Set, Actors
  <2>2. r \notin Workers /\ r \notin Reconcilers
    BY RenderBatchAssumption
  <2>3. "CANCELLED" \in Final \cup {"none"} /\ "CANCELLED" \in Final
    BY DEF Final
  <2> HIDE DEF writes
  <2> QED
    BY <2>1, <2>2, <2>3, OpenStep
<1> QED
  BY <1>1, <1>2, <1>3, <1>4


LEMMA CountStep ==
  ASSUME Inv, NEW u \in Actors, Count(u)
  PROVE  Inv'
<1> DEFINE s == Order[tx[u].stage]
           n == Cardinality({i \in Items : Seen(u, i) = s})
<1>1. /\ tx[u].stage \in 1..5 /\ UNCHANGED <<item, batch, exec>>
      /\ tx' = [tx EXCEPT ![u] =
           IF s \in Final THEN [tx[u] EXCEPT !.stage = @ + 1, !.tally[s] = @ + n]
           ELSE IF n = 0 THEN [tx[u] EXCEPT !.stage = @ + 1]
           ELSE [tx[u] EXCEPT !.stage = READ, !.open = TRUE]]
  BY DEF Count, Set
<1>2. n \in 0..Total /\ n = Cardinality(SeenAs(u, s))
  BY Subsets DEF SeenAs
<1>3. /\ tx[u] \in TxType
      /\ tx[u].tally \in Tally /\ CountInv(u)
  BY DEF Inv, TypeOK, TxType
<1>4. s \in Final => \/ s = "COMPLETED" /\ tx[u].stage = 3
                     \/ s = "FAILED" /\ tx[u].stage = 4
                     \/ s = "CANCELLED" /\ tx[u].stage = 5
  BY <1>1 DEF Order, Final
<1>5. s \in Final => tx[u].tally[s] = 0
  BY <1>3, <1>4 DEF CountInv
<1> DEFINE t == IF s \in Final THEN [tx[u].tally EXCEPT ![s] = n] ELSE tx[u].tally
<1>6. t \in Tally /\ \A z \in Final : t[z] = IF z = s THEN n ELSE tx[u].tally[z]
  BY <1>2, <1>3 DEF Tally
<1> HIDE DEF n, s
<1>7. /\ tx'[u].writes = tx[u].writes /\ tx'[u].to = tx[u].to
      /\ tx'[u].tally = t /\ tx'[u].stage \in 0..WRITE
      /\ tx'[u].stage = tx[u].stage + 1 \/ tx'[u].stage = READ
      /\ tx'[u] \in TxType
  <2>1. CASE s \in Final
    <3>1. tx'[u] = [tx[u] EXCEPT !.stage = @ + 1, !.tally[s] = @ + n]
      BY <1>1, <2>1 DEF Inv, TypeOK, TxType
    <3>2. tx[u].tally[s] + n = n
      BY <1>2, <1>5, <2>1, TotalType
    <3>3. [tx[u].tally EXCEPT ![s] = @ + n] = t
      BY <1>3, <2>1, <3>2 DEF Tally
    <3>4. tx'[u] = [tx[u] EXCEPT !.stage = @ + 1, !.tally = t]
      BY <1>3, <3>1, <3>3
    <3> HIDE DEF t
    <3>5. tx[u].stage + 1 \in 0..WRITE
      BY <1>1 DEF WRITE
    <3> QED
      BY <1>3, <1>6, <3>4, <3>5 DEF TxType
  <2>2. CASE s \notin Final
    <3>1. \/ tx'[u] = [tx[u] EXCEPT !.stage = @ + 1]
          \/ tx'[u] = [tx[u] EXCEPT !.stage = READ, !.open = TRUE]
      BY <1>1, <2>2 DEF Inv, TypeOK
    <3>2. tx[u].stage + 1 \in 0..WRITE /\ READ \in 0..WRITE
      BY <1>1 DEF WRITE, READ
    <3> QED
      BY <1>3, <2>2, <3>1, <3>2 DEF TxType
  <2> QED
    BY <2>1, <2>2
<1> HIDE DEF t
<1>8. \A v \in Actors \ {u} : tx'[v] = tx[v]
  BY <1>1 DEF Inv, TypeOK
<1>9. TypeOK'
  <2>1. tx' \in [Actors -> TxType]
    <3>1. DOMAIN tx' = Actors /\ tx' = [v \in Actors |-> tx'[v]]
      BY <1>1 DEF Inv, TypeOK, TxType
    <3>2. \A v \in Actors : tx'[v] \in
            TxType
      BY <1>7, <1>8 DEF Inv, TypeOK, TxType
    <3> QED
      BY <3>1, <3>2
  <2> QED
    BY <1>1, <2>1 DEF Inv, TypeOK, TxType
<1>10. LockInv'
  <2>1. tx'[u].stage # 0 /\ tx[u].stage # 0
    BY <1>1, <1>3, <1>7 DEF READ
  <2>2. \A v \in Actors : /\ tx'[v].writes = tx[v].writes /\ tx'[v].to = tx[v].to
                          /\ tx'[v].stage = 0 <=> tx[v].stage = 0
    BY <1>7, <1>8, <2>1
  <2>3. Workers \subseteq Actors /\ Requests \subseteq Actors
    BY DEF Actors
  <2> QED
    BY <1>1, <2>2, <2>3 DEF Inv, LockInv
<1>11. CountInv(u)'
  <2>1. \A z \in Final : SeenAs(u, z)' = SeenAs(u, z)
    BY <1>1, <1>7 DEF SeenAs, Seen
  <2>2. \A z \in Final : tx'[u].tally[z] <= Cardinality(SeenAs(u, z)')
    BY <1>2, <1>3, <1>6, <1>7, <2>1, TotalType DEF CountInv
  <2>3. /\ tx'[u].stage <= 3 => tx'[u].tally["COMPLETED"] = 0
        /\ tx'[u].stage <= 4 => tx'[u].tally["FAILED"] = 0
        /\ tx'[u].stage <= 5 => tx'[u].tally["CANCELLED"] = 0
    <3>1. /\ tx'[u].stage <= 3 => tx[u].stage <= 2
          /\ tx'[u].stage <= 4 => tx[u].stage <= 3
          /\ tx'[u].stage <= 5 => tx[u].stage <= 4
      BY <1>1, <1>7 DEF READ
    <3>2. \A z \in Final : t[z] # 0 => s = z \/ tx[u].tally[z] # 0
      BY <1>6
    <3> QED
      BY <1>1, <1>3, <1>4, <1>6, <1>7, <3>1, <3>2 DEF CountInv, Final
  <2> QED
    BY <2>2, <2>3 DEF CountInv
<1>12. tx'[u].to = "CANCELLED" => u \in Requests \/ batch.cancel
  BY <1>7 DEF Inv, CancelInv
<1> QED
  BY <1>1, <1>8, <1>9, <1>10, <1>11, <1>12, TxStep

LEMMA ReadBatchStep ==
  ASSUME Inv, NEW u \in Actors, ReadBatch(u)
  PROVE  Inv'
<1>1. /\ tx[u].stage = READ /\ UNCHANGED <<item, batch, exec>>
      /\ tx' = [tx EXCEPT ![u] = [tx[u] EXCEPT !.stage = WRITE,
                                  !.cancel = batch.cancel \/ u \in Requests]]
  BY DEF ReadBatch, Set
<1>2. tx[u] \in TxType
  BY DEF Inv, TypeOK, TxType
<1>3. tx'[u] = [tx[u] EXCEPT !.stage = WRITE, !.cancel = batch.cancel \/ u \in Requests]
  BY <1>1 DEF Inv, TypeOK
<1>4. /\ tx'[u].stage = WRITE /\ tx'[u].writes = tx[u].writes /\ tx'[u].to = tx[u].to
      /\ tx'[u].tally = tx[u].tally
  BY <1>2, <1>3 DEF TxType
<1>5. \A v \in Actors \ {u} : tx'[v] = tx[v]
  BY <1>1 DEF Inv, TypeOK
<1>6. TypeOK'
  <2>1. [tx[u] EXCEPT !.stage = WRITE, !.cancel = batch.cancel \/ u \in Requests]
          \in TxType
    <3>1. (batch.cancel \/ u \in Requests) \in BOOLEAN /\ WRITE \in 0..WRITE
      BY DEF WRITE
    <3> QED
      BY <1>2, <3>1 DEF TxType
  <2> QED
    BY <1>1, <2>1 DEF Inv, TypeOK, TxType
<1>7. LockInv'
  <2>1. \A v \in Actors : /\ tx'[v].writes = tx[v].writes /\ tx'[v].to = tx[v].to
                          /\ tx'[v].stage = 0 <=> tx[v].stage = 0
    BY <1>1, <1>4, <1>5 DEF READ, WRITE
  <2>2. Workers \subseteq Actors /\ Requests \subseteq Actors
    BY DEF Actors
  <2> QED
    BY <1>1, <2>1, <2>2 DEF Inv, LockInv
<1>8. CountInv(u)'
  <2>1. \A z \in Final : SeenAs(u, z)' = SeenAs(u, z)
    BY <1>1, <1>4 DEF SeenAs, Seen
  <2>2. CountInv(u)
    BY DEF Inv
  <2> QED
    BY <1>4, <2>1, <2>2 DEF CountInv, WRITE
<1>9. tx'[u].to = "CANCELLED" => u \in Requests \/ batch.cancel
  BY <1>4 DEF Inv, CancelInv
<1> QED
  BY <1>1, <1>5, <1>6, <1>7, <1>8, <1>9, TxStep

(* A transaction that leaves nothing behind. *)
LEMMA RollbackStep ==
  ASSUME Inv, (\E w \in Workers : Fail(w)) \/ (\E r \in Requests : Refuse(r))
  PROVE  Inv'
<1>1. PICK u \in Actors :
         /\ tx' = [tx EXCEPT ![u] = NoTx] /\ UNCHANGED <<item, batch>>
         /\ exec' = exec \/ (u \in Workers /\ exec' = [exec EXCEPT ![u] = Off])
         /\ u \in Workers => exec' = [exec EXCEPT ![u] = Off]
  BY RenderBatchAssumption DEF Fail, Refuse, Set, Actors
<1>2. tx'[u] = NoTx /\ \A v \in Actors \ {u} : tx'[v] = tx[v]
  BY <1>1 DEF Inv, TypeOK
<1>3. TypeOK'
  <2>1. NoTx \in TxType
    BY ZeroTally DEF NoTx, TxType, WRITE
  <2> QED
    BY <1>1, <2>1 DEF Inv, TypeOK, TxType, Off
<1>4. LockInv'
  <2>1. \A w \in Workers : exec'[w].pc # "idle" => tx'[w].stage = 0 /\ exec'[w].item \in Items
    BY <1>1, <1>2 DEF Inv, TypeOK, LockInv, Off, Actors
  <2>2. \A v \in Actors : tx'[v] = tx[v] \/ (tx'[v].stage = 0 /\ tx'[v].writes = {})
    BY <1>2 DEF NoTx
  <2>3. Workers \subseteq Actors /\ Requests \subseteq Actors
    BY DEF Actors
  <2> QED
    BY <1>1, <2>1, <2>2, <2>3 DEF Inv, LockInv
<1>5. CountInv(u)'
  <2>1. \A z \in Final : tx'[u].tally[z] = 0
    BY <1>2, ZeroTally DEF NoTx
  <2>2. \A z \in Final : Cardinality(SeenAs(u, z)') \in 0..Total
    BY Subsets DEF SeenAs
  <2>3. \A z \in Final : tx'[u].tally[z] <= Cardinality(SeenAs(u, z)')
    BY <2>1, <2>2, TotalType
  <2> QED
    BY <2>1, <2>3 DEF CountInv, Final
<1>6. tx'[u].to # "CANCELLED"
  BY <1>2 DEF NoTx
<1> QED
  BY <1>1, <1>2, <1>3, <1>4, <1>5, <1>6, TxStep


LEMMA CommitStep ==
  ASSUME Inv, NEW u \in Actors, Commit(u)
  PROVE  Inv'
<1> DEFINE t == tx[u].tally
           status == Aggregate(tx[u].open, t, tx[u].cancel)
<1>1. /\ tx[u].stage = WRITE /\ BatchFree(u)
      /\ item' = [i \in Items |-> IF i \in tx[u].writes THEN Freed(tx[u].to) ELSE item[i]]
      /\ batch' = [status |-> status, tally |-> t, cancel |-> batch.cancel \/ u \in Requests]
      /\ tx' = [tx EXCEPT ![u] = NoTx] /\ exec' = exec
  BY DEF Commit, Set
<1>2. /\ tx'[u] = NoTx /\ \A v \in Actors \ {u} : tx'[v] = tx[v]
      /\ \A i \in Items : item'[i] = IF i \in tx[u].writes THEN Freed(tx[u].to) ELSE item[i]
      /\ tx[u] \in TxType /\ t \in Tally /\ t \in [Final -> 0..Total]
  BY <1>1 DEF Inv, TypeOK, TxType, Tally
<1>3. \A i \in Items : i \in tx[u].writes =>
         /\ tx[u].to \in Final /\ item[i].status \notin Final
         /\ u \in Workers => item[i].token = u /\ item[i].status = "PROCESSING"
         /\ u \in Requests => item[i].status = "PENDING"
         /\ u \in Workers \/ u \in Requests
  <2> SUFFICES ASSUME NEW i \in Items, i \in tx[u].writes
               PROVE  /\ tx[u].to \in Final /\ item[i].status \notin Final
                      /\ u \in Workers => item[i].token = u /\ item[i].status = "PROCESSING"
                      /\ u \in Requests => item[i].status = "PENDING"
                      /\ u \in Workers \/ u \in Requests
    OBVIOUS
  <2>1. /\ tx[u].to \in Final /\ (u \in Workers => item[i].token = u)
        /\ (u \in Requests => item[i].status = "PENDING") /\ (u \in Workers \/ u \in Requests)
    BY DEF Inv, LockInv, Actors
  <2>2. u \in Workers => item[i].status = "PROCESSING"
    BY <2>1, RenderBatchAssumption DEF Inv, RowInv
  <2> QED
    BY <2>1, <2>2 DEF Final
<1>4. \A i \in Items : item'[i].status = Seen(u, i) /\ Seen(u, i) \in Statuses
  BY <1>2, SeenType DEF Seen, Freed
<1>5. \A i \in Items : item[i].status \in Final => item'[i] = item[i]
  BY <1>2, <1>3
<1>6. TypeOK'
  <2>1. item' \in [Items -> [status: Statuses, token: Workers \cup {"none"}]]
    <3>1. \A i \in Items : i \in tx[u].writes =>
            Freed(tx[u].to) \in [status: Statuses, token: Workers \cup {"none"}]
      BY <1>3 DEF Freed, Statuses
    <3> QED
      BY <1>1, <3>1 DEF Inv, TypeOK
  <2>2. status \in Active \cup Ended
    BY DEF Aggregate, StillActive, HowItEnded, Active, Ended
  <2>3. batch' \in [status: Active \cup Ended, tally: Tally, cancel: BOOLEAN]
    <3>1. (batch.cancel \/ u \in Requests) \in BOOLEAN
      OBVIOUS
    <3> HIDE DEF status, t
    <3> QED
      BY <1>1, <1>2, <2>2, <3>1
  <2>4. tx' \in [Actors -> TxType]
    <3>1. NoTx \in TxType
      BY ZeroTally DEF NoTx, TxType, WRITE
    <3> QED
      BY <1>1, <3>1 DEF Inv, TypeOK, TxType
  <2> QED
    BY <1>1, <2>1, <2>3, <2>4 DEF Inv, TypeOK, TxType
<1>7. RowInv'
  BY <1>2 DEF Inv, RowInv, Freed
<1>8. LockInv'
  <2>1. Workers \subseteq Actors /\ Requests \subseteq Actors
    BY DEF Actors
  <2>2. NoTx.stage = 0 /\ NoTx.writes = {}
    BY DEF NoTx
  <2>3. ASSUME NEW v \in Actors, NEW i \in Items, i \in tx'[v].writes
        PROVE  /\ tx'[v].to \in Final
               /\ v \in Workers => item'[i].token = v
               /\ v \in Requests => item'[i].status = "PENDING"
               /\ v \notin Reconcilers
    <3>1. v # u /\ tx'[v] = tx[v]
      BY <1>2, <2>2, <2>3
    <3>2. /\ tx[v].to \in Final /\ v \notin Reconcilers
          /\ v \in Workers => item[i].token = v
          /\ v \in Requests => item[i].status = "PENDING"
      BY <2>3, <3>1 DEF Inv, LockInv
    <3>3. v \in Workers => item[i].status = "PROCESSING"
      BY <3>2, RenderBatchAssumption DEF Inv, RowInv
    <3>4. v \in Workers \/ v \in Requests
      BY <3>2 DEF Actors
    <3>5. ~(u \in Requests /\ v \in Requests)
      <4>1. u \in Requests /\ v \in Requests => tx[v].stage # 0 /\ tx[u].stage # 0
        BY <1>1, <2>3, <3>1 DEF Inv, LockInv, WRITE
      <4> QED
        BY <3>1, <4>1 DEF Inv, LockInv
    <3>6. i \notin tx[u].writes
      BY <1>3, <3>1, <3>2, <3>3, <3>4, <3>5
    <3> QED
      BY <1>2, <3>1, <3>2, <3>6
  <2>4. \A w \in Workers : exec'[w].pc # "idle" => tx'[w].stage = 0 /\ exec'[w].item \in Items
    BY <1>1, <1>2, <2>1, <2>2 DEF Inv, LockInv
  <2>5. \A v \in Actors : tx'[v].stage = 0 => tx'[v].writes = {}
    BY <1>2, <2>2 DEF Inv, LockInv
  <2>6. \A r, q \in Requests : tx'[r].stage # 0 /\ tx'[q].stage # 0 => r = q
    BY <1>2, <2>1, <2>2 DEF Inv, LockInv
  <2> QED
    BY <2>3, <2>4, <2>5, <2>6 DEF LockInv
<1>9. ASSUME NEW v \in Actors PROVE CountInv(v)'
  <2>1. CASE v = u
    <3>1. \A z \in Final : tx'[v].tally[z] = 0
      BY <1>2, <2>1, ZeroTally DEF NoTx
    <3>2. \A z \in Final : Cardinality(SeenAs(v, z)') \in 0..Total
      BY Subsets DEF SeenAs
    <3>3. \A z \in Final : tx'[v].tally[z] <= Cardinality(SeenAs(v, z)')
      BY <3>1, <3>2, TotalType
    <3> QED
      BY <3>1, <3>3 DEF CountInv, Final
  <2>2. CASE v # u
    BY <1>2, <1>5, <2>2, CountsKept
  <2> QED
    BY <2>1, <2>2
<1>10. CancelInv'
  <2>1. batch'.cancel <=> batch.cancel \/ u \in Requests
    BY <1>1
  <2>2. \A v \in Actors : tx'[v].to = "CANCELLED" => v \in Requests \/ batch'.cancel
    BY <1>2, <2>1 DEF Inv, CancelInv, NoTx
  <2>3. ASSUME NEW i \in Items, item'[i].status = "CANCELLED" PROVE batch'.cancel
    <3>1. CASE i \in tx[u].writes
      <4>1. tx[u].to = "CANCELLED"
        BY <1>2, <2>3, <3>1 DEF Freed
      <4> QED
        BY <2>1, <4>1 DEF Inv, CancelInv
    <3>2. CASE i \notin tx[u].writes
      BY <1>2, <2>1, <2>3, <3>2 DEF Inv, CancelInv, CancelledIfAsked
    <3> QED
      BY <3>1, <3>2
  <2> QED
    BY <2>2, <2>3 DEF CancelInv, CancelledIfAsked
<1>11. EndedExactly'
  <2> SUFFICES ASSUME batch'.status \in Ended PROVE AllFinal' /\ Exact'
    BY DEF EndedExactly
  <2>1. Sum(t) = Total
    <3>1. batch'.status = status
      BY <1>1
    <3> QED
      BY <3>1 DEF Aggregate, StillActive, Ended
  <2> DEFINE seen == [i \in Items |-> Seen(u, i)]
  <2>2. seen \in [Items -> Statuses]
    BY <1>4
  <2>3. \A s \in Final : t[s] <= Cardinality({i \in Items : seen[i] = s})
    <3>1. \A s \in Final : {i \in Items : seen[i] = s} = SeenAs(u, s)
      BY DEF SeenAs
    <3> QED
      BY <3>1 DEF Inv, CountInv
  <2>4. /\ \A i \in Items : seen[i] \in Final
        /\ t = [s \in Final |-> Cardinality({i \in Items : seen[i] = s})]
    <3> HIDE DEF seen, t
    <3> QED
      BY <1>2, <2>1, <2>2, <2>3, AddsUp
  <2>5. \A i \in Items : item'[i].status = seen[i]
    BY <1>4
  <2>6. batch'.tally = t
    BY <1>1
  <2> HIDE DEF seen, t
  <2>7. AllFinal'
    BY <2>4, <2>5 DEF AllFinal
  <2>8. \A s \in Final : Number(s)' = Cardinality({i \in Items : seen[i] = s})
    BY <2>5 DEF Number
  <2> QED
    BY <2>4, <2>6, <2>7, <2>8 DEF Exact
<1> QED
  BY <1>6, <1>7, <1>8, <1>9, <1>10, <1>11 DEF Inv

-----------------------------------------------------------------------------
(* The theorems *)

LEMMA InitInv == Init => Inv
<1> SUFFICES ASSUME Init PROVE Inv
  OBVIOUS
<1>1. NoTx \in TxType /\ NoTx.tally = Zero /\ NoTx.stage = 0 /\ NoTx.writes = {} /\ NoTx.to = "none"
  BY ZeroTally DEF NoTx, TxType, WRITE
<1>2. TypeOK
  BY <1>1, ZeroTally DEF Init, TypeOK, TxType, Freed, Statuses, Active, Off
<1>3. RowInv /\ LockInv
  BY <1>1 DEF Init, RowInv, LockInv, Freed, Off, Actors
<1>4. ASSUME NEW u \in Actors PROVE CountInv(u)
  <2>1. \A z \in Final : tx[u].tally[z] = 0
    BY <1>1, ZeroTally DEF Init
  <2>2. \A z \in Final : Cardinality(SeenAs(u, z)) \in 0..Total
    BY Subsets DEF SeenAs
  <2>3. \A z \in Final : tx[u].tally[z] <= Cardinality(SeenAs(u, z))
    BY <2>1, <2>2, TotalType
  <2> QED
    BY <2>1, <2>3 DEF CountInv, Final
<1>5. CancelInv /\ EndedExactly
  BY <1>1 DEF Init, CancelInv, CancelledIfAsked, EndedExactly, Freed, Ended
<1> QED
  BY <1>2, <1>3, <1>4, <1>5 DEF Inv

LEMMA NextInv == Inv /\ [Next]_vars => Inv'
<1> SUFFICES ASSUME Inv, [Next]_vars PROVE Inv'
  OBVIOUS
<1>1. CASE UNCHANGED vars
  <2>1. TypeOK' /\ RowInv' /\ LockInv'
    BY <1>1 DEF vars, Inv, TypeOK, RowInv, LockInv
  <2> QED
    BY <1>1, <2>1, RowsStep DEF vars
<1>2. ASSUME NEW w \in Workers, Execute(w) PROVE Inv'
  BY <1>2, AcquireStep, ProceedStep, ReleaseStep, OpenSteps DEF Execute
<1>3. ASSUME NEW u \in Actors, Advance(u) PROVE Inv'
  BY <1>3, CountStep, ReadBatchStep, CommitStep DEF Advance
<1> QED
  BY <1>1, <1>2, <1>3, RollbackStep, ResetStep, OpenSteps DEF Next

LEMMA Invariant == Spec => []Inv
<1> QED
  BY InitInv, NextInv, PTL DEF Spec

(* Every variable keeps its type, and a count never exceeds the batch. *)
THEOREM TypeCorrect == Spec => []TypeOK
<1>1. Inv => TypeOK
  BY DEF Inv
<1> QED
  BY <1>1, Invariant, PTL

(* updateBatchCounters counts with five statements while others commit, and
   what it writes as the end of the batch is still exact: every item has ended
   and the counters are theirs (renderer-worker.ts, contracts/design.ts). *)
THEOREM EndsExactly == Spec => []EndedExactly
<1>1. Inv => EndedExactly
  BY DEF Inv
<1> QED
  BY <1>1, Invariant, PTL

(* No item is cancelled by a cancel that was rolled back (render-batch.ts). *)
THEOREM CancelsWhatWasAsked == Spec => []CancelledIfAsked
<1>1. Inv => CancelledIfAsked
  BY DEF Inv, CancelInv
<1> QED
  BY <1>1, Invariant, PTL

=============================================================================
