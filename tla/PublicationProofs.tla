------------------------- MODULE PublicationProofs -------------------------
(***************************************************************************)
(* What holds of Publication for every set of accounts, executors and keys *)
(* and every bound on the attempts: its invariants, and that it implements *)
(* PublishOnce.                                                            *)
(***************************************************************************)
EXTENDS Publication, TLAPS

USE DEF Executors, AttemptNo, Container

-----------------------------------------------------------------------------
(* Type correctness *)

(* The row an open attempt points to, and the container it carries, are
   attempt numbers or 0. *)
LEMMA PlanType ==
  ASSUME TypeOK, NEW a \in Accounts
  PROVE  PlanFor(a) \in PlanSet
<1>1. OpenRow(a) \in Container
  <2>1. CASE With(Open, a) = {}
    BY <2>1, ConstantsAssumption DEF OpenRow
  <2>2. CASE With(Open, a) # {}
    <3>1. OpenRow(a) \in With(Open, a)
      BY <2>2 DEF OpenRow
    <3> QED
      BY <3>1 DEF With
  <2> QED
    BY <2>1, <2>2
<1>2. ASSUME NEW n \in Container
      PROVE  ContainerOf(a, n) \in Container
  BY <1>2, ConstantsAssumption DEF ContainerOf, TypeOK, Row
<1>3. last[a] \in Container
  BY DEF TypeOK
<1>4. PreviousContainer(a) \in Container
  BY <1>1, <1>2, <1>3 DEF PreviousContainer
<1>5. PlanKind(a) \in {"skip", "expired", "fail", "resume", "create"}
  BY DEF PlanKind
<1> QED
  BY <1>1, <1>4, <1>5 DEF PlanFor, PlanSet

(* Closing a row changes its status and its lease only. *)
LEMMA ClosedType ==
  ASSUME NEW row \in Row, NEW s \in Status
  PROVE  /\ Closed(s, row) \in Row
         /\ Closed(s, row).status = s
         /\ Closed(s, row).container = row.container
         /\ Closed(s, row).lease = "none"
BY DEF Row, Closed

(* A prepare transaction leaves rows of the table's type. *)
LEMMA PreparedType ==
  ASSUME TypeOK, NEW a \in Accounts, NEW p \in PlanSet
  PROVE  Prepared(a, p) \in [AttemptNo -> Row]
<1>1. NewRow(p) \in Row
  BY ConstantsAssumption DEF NewRow, Row, PlanSet, Status, Active, Open
<1>2. ASSUME NEW n \in AttemptNo
      PROVE  rows[a][n] \in Row
  BY DEF TypeOK
<1>3. "FAILED" \in Status /\ "UNCERTAIN" \in Status
  BY DEF Status, Active
<1>4. ASSUME NEW n \in AttemptNo
      PROVE  /\ Closed("FAILED", rows[a][n]) \in Row
             /\ Closed("UNCERTAIN", rows[a][n]) \in Row
  BY <1>2, <1>3, ClosedType
<1> QED
  BY <1>1, <1>2, <1>4 DEF Prepared

(* Writing a row of the type, wherever the write lands. *)
LEMMA WriteType ==
  ASSUME TypeOK, NEW a, NEW n, NEW row,
         a \in Accounts /\ n \in AttemptNo => row \in Row,
         Write(a, n, row)
  PROVE  rows' \in [Accounts -> [AttemptNo -> Row]] /\ last' = last
<1>1. CASE a \in Accounts
  BY <1>1 DEF Write, TypeOK
<1>2. CASE a \notin Accounts
  BY <1>2 DEF Write, TypeOK
<1> QED
  BY <1>1, <1>2

(* The rows of the table, and the containers they carry, have their types. *)
LEMMA RowType ==
  ASSUME TypeOK, NEW a \in Accounts
  PROVE  /\ \A n \in AttemptNo : rows[a][n] \in Row
         /\ \A n \in Container : ContainerOf(a, n) \in Container
<1>1. ASSUME NEW n \in AttemptNo
      PROVE  rows[a][n] \in Row
  BY DEF TypeOK
<1>2. ASSUME NEW n \in Container
      PROVE  ContainerOf(a, n) \in Container
  BY <1>1, <1>2, ConstantsAssumption DEF ContainerOf, Row
<1> QED
  BY <1>1, <1>2

(* An executor that goes idle, or whose target is done, stays well typed. *)
LocalType ==
  /\ pc \in [Executors -> {"idle", "read", "ticket", "run", "create", "created",
                           "poll", "replied"}]
  /\ plan \in [Executors -> [Accounts -> PlanSet]]
  /\ todo \in [Executors -> SUBSET Accounts]
  /\ num \in [Executors -> [Accounts -> Container]]
  /\ at \in [Executors -> Accounts \cup {"none"}]
  /\ reply \in [Executors -> {"none", "ok", "timeout", "failed", "auth"}]
  /\ key \in [Executors -> Keys \cup {"none"}]

(* An executor that ends keeps the types, whatever it was doing. *)
LEMMA IdleType ==
  ASSUME TypeOK, NEW e \in Executors, Idle(e)
  PROVE  LocalType'
<1>1. NoPlan \in PlanSet
  BY ConstantsAssumption DEF NoPlan, PlanSet
<1> QED
  BY <1>1, ConstantsAssumption DEF Idle, TypeOK, LocalType

(* An executor that goes on to its next target keeps the types. *)
LEMMA AnsweredType ==
  ASSUME TypeOK, NEW e \in Executors, NEW a \in Accounts \cup {"none"},
         NEW r \in {"ok", "timeout", "failed", "auth"}, Answered(e, a, r),
         UNCHANGED <<plan, todo, num, key>>
  PROVE  LocalType'
BY DEF Answered, TypeOK, LocalType

(* A request that ends frees or keeps its key. *)
LEMMA EndKeyType ==
  ASSUME TypeOK, NEW e \in Executors, NEW v \in {"free", "done"}, EndKey(e, v)
  PROVE  idem' \in [Keys -> {"free", "IN_PROGRESS", "done"}]
BY DEF EndKey, TypeOK

(* Recording an outcome keeps the types of the table and of the executor. *)
LEMMA PersistType ==
  ASSUME TypeOK, NEW e \in Executors, NEW R, NEW s \in Status, Persist(e, R, s)
  PROVE  /\ rows' \in [Accounts -> [AttemptNo -> Row]]
         /\ LocalType'
         /\ last' = last /\ idem' = idem /\ posts' = posts
<1>1. at[e] \in Accounts /\ num[e][at[e]] \in AttemptNo =>
        Closed(s, RowOf(e, at[e])) \in Row
  <2> SUFFICES ASSUME at[e] \in Accounts, num[e][at[e]] \in AttemptNo
               PROVE  Closed(s, RowOf(e, at[e])) \in Row
    OBVIOUS
  <2>1. RowOf(e, at[e]) \in Row
    BY RowType DEF RowOf
  <2> QED
    BY <2>1, ClosedType
<1>2. rows' \in [Accounts -> [AttemptNo -> Row]] /\ last' = last
  BY <1>1, WriteType DEF Persist
<1>3. LocalType'
  BY DEF Persist, TargetDone, TypeOK, LocalType
<1> QED
  BY <1>2, <1>3 DEF Persist, TargetDone

(* Every state of every behaviour is well typed, with whatever faults. *)
THEOREM TypeCorrect == Spec => []TypeOK
<1>1. Init => TypeOK
  <2> SUFFICES ASSUME Init PROVE TypeOK
    OBVIOUS
  <2>1. Absent \in Row /\ NoPlan \in PlanSet
    BY ConstantsAssumption DEF Absent, Row, NoPlan, PlanSet
  <2> QED
    BY <2>1, ConstantsAssumption DEF Init, TypeOK
<1>2. TypeOK /\ [Next]_vars => TypeOK'
  <2> SUFFICES ASSUME TypeOK, [Next]_vars PROVE TypeOK'
    OBVIOUS
  <2>1. ASSUME NEW e \in Executors, NEW targets \in SUBSET Accounts,
               NEW k \in Keys \cup {"none"}, PrepareRead(e, targets, k)
        PROVE  TypeOK'
    <3>1. \A a \in Accounts : PlanFor(a) \in PlanSet
      BY PlanType
    <3>2. NoPlan \in PlanSet
      BY ConstantsAssumption DEF NoPlan, PlanSet
    <3>3. plan' \in [Executors -> [Accounts -> PlanSet]]
      BY <2>1, <3>1, <3>2 DEF PrepareRead, TypeOK
    <3>4. idem' \in [Keys -> {"free", "IN_PROGRESS", "done"}]
      BY <2>1 DEF PrepareRead, TypeOK
    <3> QED
      BY <2>1, <3>3, <3>4 DEF PrepareRead, TypeOK
  <2>2. ASSUME NEW e \in Executors, PrepareUncertain(e)
        PROVE  TypeOK'
    <3>1. ASSUME NEW a \in Accounts
          PROVE  Prepared(a, plan[e][a]) \in [AttemptNo -> Row]
      BY PreparedType DEF TypeOK
    <3>2. rows' \in [Accounts -> [AttemptNo -> Row]]
      BY <2>2, <3>1 DEF PrepareUncertain, TypeOK
    <3> QED
      BY <2>2, <3>2, IdleType, EndKeyType DEF PrepareUncertain, TypeOK, LocalType
  <2>3. ASSUME NEW e \in Executors, PrepareCommit(e)
        PROVE  TypeOK'
    <3>1. ASSUME NEW a \in Accounts
          PROVE  Prepared(a, plan[e][a]) \in [AttemptNo -> Row]
      BY PreparedType DEF TypeOK
    <3>2. rows' \in [Accounts -> [AttemptNo -> Row]]
      BY <2>3, <3>1 DEF PrepareCommit
    <3>3. ASSUME NEW a \in Planned(e, {"resume", "create", "fail"})
          PROVE  last[a] + 1 \in Container
      BY <2>3, <3>3, ConstantsAssumption DEF PrepareCommit, Planned, TypeOK
    <3>4. last' \in [Accounts -> Container]
      BY <2>3, <3>3 DEF PrepareCommit, TypeOK
    <3>5. num' \in [Executors -> [Accounts -> Container]]
      BY <2>3, <3>3, ConstantsAssumption DEF PrepareCommit, TypeOK
    <3>6. todo' \in [Executors -> SUBSET Accounts]
      BY <2>3 DEF PrepareCommit, TypeOK, Planned
    <3>7. plan' \in [Executors -> [Accounts -> PlanSet]]
      BY <2>3, ConstantsAssumption DEF PrepareCommit, TypeOK, NoPlan, PlanSet
    <3> QED
      BY <2>3, <3>2, <3>4, <3>5, <3>6, <3>7 DEF PrepareCommit, TypeOK
  <2>4. ASSUME NEW e \in Executors,
               PrepareAbort(e) \/ ExecAbort(e) \/ Finish(e) \/ Crash(e)
        PROVE  TypeOK'
    <3>1. idem' \in [Keys -> {"free", "IN_PROGRESS", "done"}]
      BY <2>4, EndKeyType DEF PrepareAbort, ExecAbort, Finish, Crash, TypeOK
    <3>2. Idle(e) /\ UNCHANGED <<rows, last, connected, posts>>
      BY <2>4 DEF PrepareAbort, ExecAbort, Finish, Crash
    <3> QED
      BY <3>1, <3>2, IdleType DEF TypeOK, LocalType
  <2>5. ASSUME NEW e \in Executors, TicketIssued(e)
        PROVE  TypeOK'
    BY <2>5 DEF TicketIssued, TypeOK
  <2>6. ASSUME NEW e \in Executors, TicketFails(e)
        PROVE  TypeOK'
    <3>1. \A a \in Accounts, n \in AttemptNo : Closed("FAILED", rows[a][n]) \in Row
      <4>1. \A a \in Accounts, n \in AttemptNo : rows[a][n] \in Row
        BY RowType
      <4> QED
        BY <4>1, ClosedType DEF Status, Active
    <3>2. rows' \in [Accounts -> [AttemptNo -> Row]]
      <4>1. CASE rows' = rows
        BY <4>1 DEF TypeOK
      <4>2. CASE rows' = [a \in Accounts |-> [n \in AttemptNo |->
                            IF Owns(e, a, n) THEN Closed("FAILED", rows[a][n])
                            ELSE rows[a][n]]]
        BY <4>2, <3>1, RowType
      <4> QED
        BY <2>6, <4>1, <4>2 DEF TicketFails
    <3> QED
      BY <2>6, <3>2, IdleType, EndKeyType DEF TicketFails, TypeOK, LocalType
  <2>7. ASSUME NEW e \in Executors, NEW a \in Accounts,
               FacebookPost(e, a) \/ CheckContainer(e, a) \/ CreateContainer(e, a)
        PROVE  TypeOK'
    <3>1. CASE FacebookPost(e, a)
      <4>1. PICK r \in {"ok", "timeout", "failed", "auth"} : Answered(e, a, r)
        BY <3>1 DEF FacebookPost
      <4>2. LocalType'
        BY <3>1, <4>1, AnsweredType DEF FacebookPost
      <4>3. posts' \in [Accounts -> SUBSET Container]
        BY <3>1 DEF FacebookPost, TypeOK
      <4> QED
        BY <3>1, <4>2, <4>3 DEF FacebookPost, TypeOK, LocalType
    <3>2. CASE CheckContainer(e, a)
      BY <3>2 DEF CheckContainer, TypeOK
    <3>3. CASE CreateContainer(e, a)
      <4>1. CASE \E r \in {"timeout", "failed", "auth"} : Answered(e, a, r)
        <5>1. LocalType'
          BY <3>3, <4>1, AnsweredType DEF CreateContainer
        <5> QED
          BY <3>3, <5>1 DEF CreateContainer, TypeOK, LocalType
      <4>2. CASE /\ pc' = [pc EXCEPT ![e] = "created"]
                 /\ at' = [at EXCEPT ![e] = a] /\ reply' = reply
        BY <3>3, <4>2 DEF CreateContainer, TypeOK
      <4> QED
        BY <3>3, <4>1, <4>2 DEF CreateContainer
    <3> QED
      BY <2>7, <3>1, <3>2, <3>3
  <2>8. ASSUME NEW e \in Executors, OnContainerCreated(e)
        PROVE  TypeOK'
    <3>1. CASE UNCHANGED <<rows, last>> /\ \E r \in {"timeout", "failed"} : Answered(e, at[e], r)
      <4>1. at[e] \in Accounts \cup {"none"}
        BY DEF TypeOK
      <4>2. LocalType'
        BY <2>8, <3>1, <4>1, AnsweredType DEF OnContainerCreated
      <4> QED
        BY <2>8, <3>1, <4>2 DEF OnContainerCreated, TypeOK, LocalType
    <3>2. CASE /\ Write(at[e], num[e][at[e]],
                        [status |-> "CONTAINER_CREATED",
                         container |-> num[e][at[e]], lease |-> "live"])
               /\ pc' = [pc EXCEPT ![e] = "poll"]
               /\ UNCHANGED <<at, reply>>
      <4>1. at[e] \in Accounts /\ num[e][at[e]] \in AttemptNo =>
              [status |-> "CONTAINER_CREATED",
               container |-> num[e][at[e]], lease |-> "live"] \in Row
        BY DEF TypeOK, Row, Status, Active, Open
      <4>2. rows' \in [Accounts -> [AttemptNo -> Row]] /\ last' = last
        BY <3>2, <4>1, WriteType
      <4> QED
        BY <2>8, <3>2, <4>2 DEF OnContainerCreated, TypeOK
    <3> QED
      BY <2>8, <3>1, <3>2 DEF OnContainerCreated
  <2>9. ASSUME NEW e \in Executors, PublishContainer(e)
        PROVE  TypeOK'
    <3>1. PICK r \in {"ok", "timeout", "failed", "auth"}, applied \in BOOLEAN :
            /\ Answered(e, at[e], r)
            /\ posts' = IF applied
                         THEN [posts EXCEPT ![at[e]] = @ \cup {Carried(e, at[e])}]
                         ELSE posts
      BY <2>9 DEF PublishContainer
    <3>2. at[e] \in Accounts \cup {"none"}
      BY DEF TypeOK
    <3>3. LocalType'
      BY <2>9, <3>1, <3>2, AnsweredType DEF PublishContainer
    <3>4. at[e] \in Accounts => Carried(e, at[e]) \in Container
      <4> SUFFICES ASSUME at[e] \in Accounts PROVE Carried(e, at[e]) \in Container
        OBVIOUS
      <4>1. num[e][at[e]] \in Container
        BY DEF TypeOK
      <4> QED
        BY <4>1, RowType DEF Carried
    <3>5. posts' \in [Accounts -> SUBSET Container]
      BY <3>1, <3>4 DEF TypeOK
    <3> QED
      BY <2>9, <3>3, <3>5 DEF PublishContainer, TypeOK, LocalType
  <2>10. ASSUME NEW e \in Executors,
                PersistPublished(e) \/ PersistUncertain(e) \/ PersistFailed(e)
         PROVE  TypeOK'
    <3>1. connected' \in [Accounts -> BOOLEAN]
      BY <2>10 DEF PersistPublished, PersistUncertain, PersistFailed, TypeOK
    <3>2. \E R, s : s \in Status /\ Persist(e, R, s)
      BY <2>10 DEF PersistPublished, PersistUncertain, PersistFailed, Status, Active
    <3>3. /\ rows' \in [Accounts -> [AttemptNo -> Row]] /\ LocalType'
          /\ last' = last /\ idem' = idem /\ posts' = posts
      BY <3>2, PersistType
    <3> QED
      BY <3>1, <3>3 DEF TypeOK, LocalType
  <2>11. ASSUME NEW e \in Executors, PersistNothing(e)
         PROVE  TypeOK'
    BY <2>11 DEF PersistNothing, TargetDone, TypeOK
  <2>12. ASSUME NEW a \in Accounts, NEW n \in AttemptNo,
                LeaseExpires(a, n)
         PROVE  TypeOK'
    <3>1. [rows[a][n] EXCEPT !.lease = "expired"] \in Row
      <4>1. rows[a][n] \in Row
        BY RowType
      <4> QED
        BY <4>1 DEF Row
    <3> QED
      BY <2>12, <3>1 DEF LeaseExpires, TypeOK, local
  <2>13. ASSUME NEW a \in Accounts, NEW n \in AttemptNo,
                ConfirmPublished(a, n) \/ ConfirmFailed(a, n) \/ Dismiss(a, n)
         PROVE  TypeOK'
    <3>1. rows[a][n] \in Row
      BY DEF TypeOK
    <3>2. \E s \in Status : Write(a, n, Closed(s, rows[a][n]))
      BY <2>13 DEF ConfirmPublished, ConfirmFailed, Dismiss, Resolvable, Status, Active
    <3>3. rows' \in [Accounts -> [AttemptNo -> Row]] /\ last' = last
      BY <3>1, <3>2, ClosedType, WriteType
    <3> QED
      BY <2>13, <3>3 DEF ConfirmPublished, ConfirmFailed, Dismiss, TypeOK, local
  <2>14. ASSUME NEW a \in Accounts, NEW value \in BOOLEAN, SetConnected(a, value)
         PROVE  TypeOK'
    BY <2>14 DEF SetConnected, TypeOK, local
  <2>15. ASSUME NEW k \in Keys, KeyExpires(k)
         PROVE  TypeOK'
    BY <2>15 DEF KeyExpires, TypeOK, local
  <2>16. CASE UNCHANGED vars
    BY <2>16 DEF vars, TypeOK
  <2> QED
    BY <2>1, <2>2, <2>3, <2>4, <2>5, <2>6, <2>7, <2>8, <2>9, <2>10, <2>11, <2>12,
       <2>13, <2>14, <2>15, <2>16
       DEF Next, Prepare, Execute, Environment
<1> QED
  BY <1>1, <1>2, PTL DEF Spec

-----------------------------------------------------------------------------
(* At most one post: the inductive invariant *)

(* The environment in which one post is kept: executors end before their leases,
   preparations commit on what they read, an answer that hides a post is recognised
   as a timeout and, where there are Instagram accounts, Meta answers for its
   containers and tickets are issued. *)
Sound ==
  /\ Faults \subseteq {"lostStatus", "lostTicket"}
  /\ Instagram = {} \/ Faults = {}

(* What IndInv says of one executor. *)
Fine(e) == ExecutorOK(e) /\ \A a \in todo[e] : TargetFresh(e, a)

SameLocal(f) ==
  /\ pc'[f] = pc[f] /\ todo'[f] = todo[f] /\ num'[f] = num[f]
  /\ at'[f] = at[f] /\ reply'[f] = reply[f]

(* An account whose rows and posts a step leaves alone stays in order. *)
LEMMA AccountKept ==
  ASSUME NEW a \in Accounts, AccountOK(a),
         rows'[a] = rows[a], last'[a] = last[a], posts'[a] = posts[a]
  PROVE  AccountOK(a)'
BY DEF AccountOK, IndexesHold, With, Vouches

(* So does an executor, when the rows it holds are left alone. *)
LEMMA ExecutorKept ==
  ASSUME TypeOK, NEW f \in Executors, Fine(f), SameLocal(f),
         \A a \in todo[f] : /\ rows'[a][num[f][a]] = rows[a][num[f][a]]
                            /\ posts'[a] = posts[a]
  PROVE  Fine(f)'
<1>1. \A a \in todo[f] : /\ RowOf(f, a)' = RowOf(f, a)
                         /\ Carried(f, a)' = Carried(f, a)
                         /\ posts'[a] = posts[a]
  BY DEF SameLocal, RowOf, Carried, ContainerOf
<1>2. ExecutorOK(f)'
  BY <1>1 DEF Fine, SameLocal, ExecutorOK, Held, Calling
<1>3. \A a \in todo'[f] : TargetFresh(f, a)'
  BY <1>1 DEF Fine, SameLocal, TargetFresh, Consumed
<1> QED
  BY <1>2, <1>3 DEF Fine

(* Executors that take nothing new do not come to share an account. *)
LEMMA OverlapKept ==
  ASSUME NoOverlap, \A f \in Executors : todo'[f] \subseteq todo[f]
  PROVE  NoOverlap'
BY DEF NoOverlap

(* A write to a row of the table that does not take back the last voucher of
   a public post, and claims no post that is not there. *)
LEMMA WriteKeeps ==
  ASSUME TypeOK, NEW a \in Accounts, NEW n \in AttemptNo, NEW row \in Row,
         AccountOK(a), Write(a, n, row), posts' = posts,
         rows[a][n].status # "ABSENT", row.status # "ABSENT",
         row.status = "PUBLISHED" => posts[a] # {},
         \/ posts[a] = {}
         \/ row.status \in {"PUBLISHED", "UNCERTAIN"}
         \/ /\ row.status \in Open
            /\ row.container = rows[a][n].container
            /\ rows[a][n].status # "UNCERTAIN"
            /\ rows[a][n].status # "PUBLISHED"
         \/ row.status = rows[a][n].status /\ row.container = rows[a][n].container
  PROVE  /\ AccountOK(a)'
         /\ \A b \in Accounts \ {a} : rows'[b] = rows[b]
         /\ \A m \in AttemptNo \ {n} : rows'[a][m] = rows[a][m]
         /\ rows'[a][n] = row /\ last' = last
<1>1. /\ rows'[a] = [rows[a] EXCEPT ![n] = row]
      /\ \A b \in Accounts \ {a} : rows'[b] = rows[b]
      /\ IndexesHold(rows'[a])
      /\ last' = last
  BY DEF Write, TypeOK
<1>2. /\ \A m \in AttemptNo \ {n} : rows'[a][m] = rows[a][m]
      /\ rows'[a][n] = row
  BY <1>1 DEF TypeOK
<1>3. \A m \in AttemptNo : m > last'[a] <=> rows'[a][m].status = "ABSENT"
  BY <1>1, <1>2 DEF AccountOK
<1>4. IndexesHold(rows[a])'
  BY <1>1 DEF IndexesHold
<1>5. ASSUME posts[a] # {}
      PROVE  \E m \in AttemptNo : Vouches(a, m)'
  <2>1. PICK m \in AttemptNo : Vouches(a, m)
    BY <1>5 DEF AccountOK
  <2>2. CASE m # n
    BY <1>2, <2>1, <2>2 DEF Vouches
  <2>3. CASE m = n
    BY <1>2, <1>5, <2>1, <2>3 DEF Vouches, Open
  <2> QED
    BY <2>2, <2>3
<1>6. With({"PUBLISHED"}, a)' # {} => posts[a] # {}
  BY <1>2 DEF With, AccountOK
<1>7. AccountOK(a)'
  BY <1>3, <1>4, <1>5, <1>6 DEF AccountOK
<1> QED
  BY <1>1, <1>2, <1>7

(* The write of an executor to the row it holds: whatever the outcome it
   records, all accounts and all other executors stay in order. *)
LEMMA HeldWrite ==
  ASSUME TypeOK, IndInv, NEW e \in Executors, NEW a \in todo[e], NEW row \in Row,
         Write(a, num[e][a], row), posts' = posts,
         row.status # "ABSENT",
         row.status = "PUBLISHED" => posts[a] # {},
         \/ posts[a] = {}
         \/ row.status \in {"PUBLISHED", "UNCERTAIN"}
  PROVE  /\ \A b \in Accounts : AccountOK(b)'
         /\ rows'[a][num[e][a]] = row
         /\ \A b \in Accounts \ {a} : rows'[b] = rows[b]
         /\ \A f \in Executors \ {e} : SameLocal(f) => Fine(f)'
<1>1. a \in Accounts /\ Held(e, a) /\ AccountOK(a)
  BY DEF TypeOK, IndInv, ExecutorOK
<1>2. num[e][a] \in AttemptNo /\ rows[a][num[e][a]].status # "ABSENT"
  BY <1>1 DEF Held, RowOf, Open
<1>3. /\ AccountOK(a)' /\ last' = last
      /\ \A b \in Accounts \ {a} : rows'[b] = rows[b]
      /\ rows'[a][num[e][a]] = row
  BY <1>1, <1>2, WriteKeeps
<1>4. ASSUME NEW b \in Accounts \ {a} PROVE AccountOK(b)'
  BY <1>3, AccountKept DEF IndInv
<1>5. ASSUME NEW f \in Executors \ {e}, SameLocal(f) PROVE Fine(f)'
  <2>1. Fine(f) /\ a \notin todo[f]
    BY DEF IndInv, NoOverlap, Fine
  <2>2. \A b \in todo[f] : rows'[b] = rows[b] /\ posts'[b] = posts[b]
    BY <1>3, <2>1 DEF TypeOK
  <2> QED
    BY <1>5, <2>1, <2>2, ExecutorKept
<1> QED
  BY <1>3, <1>4, <1>5

(* A write of an administrator or of the clock to a row nobody holds. *)
LEMMA FreeWrite ==
  ASSUME TypeOK, IndInv, NEW a \in Accounts, NEW n \in AttemptNo, NEW row \in Row,
         Write(a, n, row), UNCHANGED posts, UNCHANGED local,
         rows[a][n].status # "ABSENT", row.status # "ABSENT",
         row.status = "PUBLISHED" => posts[a] # {},
         \/ posts[a] = {}
         \/ row.status = "PUBLISHED"
         \/ row.status = rows[a][n].status /\ row.container = rows[a][n].container,
         \A e \in Executors : ~Owns(e, a, n)
  PROVE  IndInv'
<1>1. /\ AccountOK(a)' /\ last' = last
      /\ \A b \in Accounts \ {a} : rows'[b] = rows[b]
      /\ \A m \in AttemptNo \ {n} : rows'[a][m] = rows[a][m]
  BY WriteKeeps DEF IndInv
<1>2. ASSUME NEW b \in Accounts PROVE AccountOK(b)'
  BY <1>1, AccountKept DEF IndInv
<1>3. ASSUME NEW f \in Executors PROVE Fine(f)'
  <2>1. Fine(f) /\ SameLocal(f)
    BY DEF IndInv, Fine, SameLocal, local
  <2>2. ASSUME NEW b \in todo[f] PROVE rows'[b][num[f][b]] = rows[b][num[f][b]]
    <3>1. b \in Accounts /\ num[f][b] \in AttemptNo
      BY <2>1 DEF TypeOK, Fine, ExecutorOK, Held
    <3>2. b = a => num[f][b] # n
      BY DEF Owns
    <3> QED
      BY <1>1, <3>1, <3>2
  <2> QED
    BY <2>1, <2>2, ExecutorKept
<1>4. NoOverlap'
  BY OverlapKept DEF local, IndInv
<1> QED
  BY <1>2, <1>3, <1>4 DEF IndInv, Fine

(* A step of an executor that leaves tables and posts alone. *)
LEMMA LocalStep ==
  ASSUME TypeOK, IndInv, NEW e \in Executors, UNCHANGED <<rows, last, posts>>,
         \A f \in Executors \ {e} : SameLocal(f),
         Fine(e)', todo'[e] \subseteq todo[e]
  PROVE  IndInv'
<1>1. \A a \in Accounts : AccountOK(a)'
  BY AccountKept DEF IndInv
<1>2. ASSUME NEW f \in Executors \ {e} PROVE Fine(f)'
  BY ExecutorKept DEF IndInv, Fine
<1>3. NoOverlap'
  BY OverlapKept DEF IndInv, SameLocal
<1> QED
  BY <1>1, <1>2, <1>3 DEF IndInv, Fine

(* An executor that ends holds nothing. *)
LEMMA IdleFine ==
  ASSUME TypeOK, NEW e \in Executors, Idle(e)
  PROVE  /\ Fine(e)' /\ todo'[e] = {}
         /\ \A f \in Executors \ {e} : SameLocal(f)
BY DEF Idle, TypeOK, Fine, ExecutorOK, Calling, SameLocal

-----------------------------------------------------------------------------
(* One step of the preparation *)

(* Reading the plan writes nothing, and claims nothing yet. *)
LEMMA PrepareReadStep ==
  ASSUME TypeOK, IndInv, NEW e \in Executors, NEW targets \in SUBSET Accounts,
         NEW k \in Keys \cup {"none"}, PrepareRead(e, targets, k)
  PROVE  IndInv'
<1>1. /\ UNCHANGED <<rows, last, posts>>
      /\ \A f \in Executors \ {e} : SameLocal(f)
      /\ todo' = todo /\ pc'[e] = "read" /\ todo[e] = {}
  BY DEF PrepareRead, SameLocal, TypeOK, IndInv, ExecutorOK
<1>2. Fine(e)'
  BY <1>1 DEF Fine, ExecutorOK, Calling
<1> QED
  BY <1>1, <1>2, LocalStep

(* A page whose lease ended: the open row becomes UNCERTAIN and still
   vouches for whatever the account shows. *)
LEMMA PrepareUncertainStep ==
  ASSUME TypeOK, IndInv, Sound, NEW e \in Executors, PrepareUncertain(e)
  PROVE  IndInv'
<1> DEFINE expired == Planned(e, {"expired"})
<1>1. /\ ReadsValid(e) /\ Idle(e) /\ last' = last /\ posts' = posts
      /\ rows' = [a \in Accounts |->
                    IF a \in expired THEN Prepared(a, plan[e][a]) ELSE rows[a]]
      /\ \A a \in Accounts : IndexesHold(rows'[a])
  BY DEF Sound, PrepareUncertain, CanCommit
<1>2. ASSUME NEW a \in expired
      PROVE  /\ a \in Accounts \ Instagram /\ ~LeaseActive(a)
             /\ With({"PUBLISHED"}, a) = {}
             /\ OpenRow(a) \in With(Open, a) /\ plan[e][a].open = OpenRow(a)
             /\ plan[e][a].kind = "expired"
  <2>1. a \in Accounts /\ plan[e][a].kind = "expired"
    BY DEF Planned
  <2>2. ~Conflict(e, a) /\ plan[e][a] = PlanFor(a)
    BY <1>1, <2>1 DEF ReadsValid
  <2>3. PlanKind(a) = "expired" /\ plan[e][a].open = OpenRow(a)
    BY <2>1, <2>2 DEF PlanFor
  <2>4. With({"PUBLISHED"}, a) = {} /\ OpenRow(a) # 0 /\ a \notin Instagram
    BY <2>3 DEF PlanKind
  <2>5. OpenRow(a) \in With(Open, a)
    BY <2>4 DEF OpenRow
  <2> QED
    BY <2>1, <2>2, <2>3, <2>4, <2>5 DEF Conflict
<1>3. ASSUME NEW a \in expired
      PROVE  /\ \A n \in AttemptNo \ {OpenRow(a)} : rows'[a][n] = rows[a][n]
             /\ rows'[a][OpenRow(a)] = Closed("UNCERTAIN", rows[a][OpenRow(a)])
  <2>1. OpenRow(a) \in AttemptNo
    BY <1>2 DEF With
  <2>2. rows'[a] = Prepared(a, plan[e][a])
    BY <1>1, <1>2
  <2> QED
    BY <1>2, <2>1, <2>2 DEF Prepared
<1>4. ASSUME NEW a \in Accounts PROVE AccountOK(a)'
  <2>1. CASE a \notin expired
    BY <1>1, <2>1, AccountKept DEF IndInv
  <2>2. CASE a \in expired
    <3>1. PICK o \in AttemptNo : o = OpenRow(a) /\ rows[a][o].status \in Open
      BY <1>2, <2>2 DEF With
    <3>2. rows'[a][o].status = "UNCERTAIN"
      <4>1. rows[a][o] \in Row /\ "UNCERTAIN" \in Status
        BY RowType DEF Status, Active
      <4> QED
        BY <1>3, <2>2, <3>1, <4>1, ClosedType
    <3>3. \A n \in AttemptNo \ {o} : rows'[a][n] = rows[a][n]
      BY <1>3, <2>2, <3>1
    <3>4. AccountOK(a) /\ last'[a] = last[a] /\ posts'[a] = posts[a]
      BY <1>1 DEF IndInv
    <3>5. \A n \in AttemptNo : n > last'[a] <=> rows'[a][n].status = "ABSENT"
      BY <3>1, <3>2, <3>3, <3>4 DEF AccountOK, Open
    <3>6. IndexesHold(rows[a])'
      BY <1>1 DEF IndexesHold
    <3>7. \E n \in AttemptNo : Vouches(a, n)'
      BY <3>2 DEF Vouches
    <3>8. With({"PUBLISHED"}, a)' # {} => posts'[a] # {}
      BY <3>2, <3>3, <3>4 DEF With, AccountOK
    <3> QED
      BY <3>4, <3>5, <3>6, <3>7, <3>8 DEF AccountOK
  <2> QED
    BY <2>1, <2>2
<1>5. ASSUME NEW f \in Executors \ {e} PROVE Fine(f)'
  <2>1. Fine(f) /\ SameLocal(f)
    BY <1>1, IdleFine DEF IndInv, Fine
  <2>2. ASSUME NEW b \in todo[f] PROVE rows'[b] = rows[b]
    <3>1. b \in Accounts /\ Held(f, b)
      BY <2>1 DEF TypeOK, Fine, ExecutorOK
    <3>2. LeaseActive(b)
      BY <3>1 DEF Held, LeaseActive, With, RowOf
    <3> QED
      BY <1>1, <1>2, <3>1, <3>2
  <2> QED
    BY <1>1, <2>1, <2>2, ExecutorKept
<1>6. NoOverlap'
  BY <1>1, IdleFine, OverlapKept DEF IndInv, SameLocal
<1> QED
  BY <1>1, <1>4, <1>5, <1>6, IdleFine DEF IndInv, Fine

(* What the plan of an account that gets a new row says of its rows. *)
LEMMA ReservedPlan ==
  ASSUME TypeOK, NEW a \in Accounts, NEW e \in Executors, AccountOK(a),
         ~Conflict(e, a), PlanKind(a) \in {"resume", "create", "fail"}
  PROVE  /\ With({"PUBLISHED"}, a) = {} /\ With({"UNCERTAIN"}, a) = {}
         /\ ~LeaseActive(a)
         /\ PlanKind(a) = "resume" => OpenRow(a) \in With(Open, a) /\ a \in Instagram
         /\ PlanKind(a) = "create" => posts[a] = {}
         /\ PlanKind(a) = "resume" => posts[a] = {} \/ PreviousContainer(a) \in posts[a]
         /\ PlanKind(a) # "resume" /\ posts[a] # {} =>
              \E n \in AttemptNo : Vouches(a, n) /\ rows[a][n].status \in Open
         /\ OpenRow(a) # 0 => OpenRow(a) \in With(Open, a)
<1>1. /\ With({"PUBLISHED"}, a) = {} /\ With({"UNCERTAIN"}, a) = {}
      /\ ~LeaseActive(a)
  BY DEF PlanKind, Conflict
<1>2. OpenRow(a) # 0 => OpenRow(a) \in With(Open, a)
  BY DEF OpenRow
<1>3. With(Open, a) # {} => OpenRow(a) # 0
  <2>1. With(Open, a) # {} => OpenRow(a) \in With(Open, a)
    BY DEF OpenRow
  <2> QED
    BY <2>1, ConstantsAssumption DEF With
<1>4. PlanKind(a) = "resume" => OpenRow(a) \in With(Open, a) /\ a \in Instagram
  BY <1>2 DEF PlanKind
<1>5. PlanKind(a) = "create" => OpenRow(a) = 0
  BY DEF PlanKind
<1>6. ASSUME posts[a] # {}
      PROVE  \E n \in AttemptNo : /\ Vouches(a, n) /\ rows[a][n].status \in Open
                                  /\ n = OpenRow(a)
  <2>1. PICK n \in AttemptNo : Vouches(a, n)
    BY <1>6 DEF AccountOK
  <2>2. rows[a][n].status \in Open
    BY <1>1, <2>1 DEF Vouches, With
  <2>3. OpenRow(a) \in With(Open, a)
    BY <1>2, <1>3, <2>2 DEF With
  <2>4. n = OpenRow(a)
    BY <2>2, <2>3 DEF AccountOK, IndexesHold, With, Active
  <2> QED
    BY <2>1, <2>2, <2>4
<1>7. PlanKind(a) = "create" => posts[a] = {}
  BY <1>5, <1>6, ConstantsAssumption
<1>8. ASSUME PlanKind(a) = "resume", posts[a] # {}
      PROVE  PreviousContainer(a) \in posts[a]
  <2>1. PICK n \in AttemptNo : Vouches(a, n) /\ rows[a][n].status \in Open /\ n = OpenRow(a)
    BY <1>6, <1>8
  <2>2. n # 0 /\ rows[a][n].container \in posts[a]
    BY <1>4, <1>8, <2>1, ConstantsAssumption DEF Vouches, Open
  <2>3. ContainerOf(a, OpenRow(a)) = rows[a][n].container
    BY <2>1, <2>2 DEF ContainerOf
  <2>4. ContainerOf(a, OpenRow(a)) # 0
    BY <2>2, <2>3 DEF AccountOK
  <2> QED
    BY <2>2, <2>3, <2>4 DEF PreviousContainer
<1> QED
  BY <1>1, <1>2, <1>4, <1>6, <1>7, <1>8

(* The rows of an account that gets a new one. *)
LEMMA ReservedRows ==
  ASSUME TypeOK, NEW a \in Accounts, AccountOK(a), NEW p \in PlanSet, p = PlanFor(a),
         p.kind \in {"resume", "create", "fail"}, last[a] < MaxAttempts,
         OpenRow(a) # 0 => OpenRow(a) \in With(Open, a)
  PROVE  /\ last[a] + 1 \in AttemptNo
         /\ Prepared(a, p)[last[a] + 1] = NewRow(p)
         /\ \A n \in AttemptNo \ {last[a] + 1} :
              Prepared(a, p)[n] = IF p.kind = "resume" /\ n = OpenRow(a)
                                  THEN Closed("FAILED", rows[a][n]) ELSE rows[a][n]
         /\ rows[a][last[a] + 1].status = "ABSENT"
<1>1. last[a] \in Container /\ last[a] + 1 \in AttemptNo
  BY ConstantsAssumption DEF TypeOK
<1>2. p.open = OpenRow(a)
  BY DEF PlanFor
<1>3. rows[a][last[a] + 1].status = "ABSENT"
  BY <1>1 DEF AccountOK
<1> QED
  BY <1>1, <1>2, <1>3 DEF Prepared

Added(e) == Planned(e, {"resume", "create", "fail"})

(* What a preparation leaves in the table: one new row for every account of its
   plan, the open row it takes over closed, and nothing else. *)
LEMMA CommittedRows ==
  ASSUME TypeOK, IndInv, Sound, NEW e \in Executors, PrepareCommit(e)
  PROVE  /\ posts' = posts /\ \A f \in Executors \ {e} : SameLocal(f)
         /\ \A a \in Accounts : IndexesHold(rows'[a])
         /\ last' = [a \in Accounts |-> IF a \in Added(e) THEN last[a] + 1 ELSE last[a]]
         /\ \A a \in Added(e) :
              /\ a \in Accounts /\ AccountOK(a) /\ ~Conflict(e, a) /\ last[a] < MaxAttempts
              /\ plan[e][a] \in PlanSet /\ plan[e][a] = PlanFor(a)
              /\ plan[e][a].kind = PlanKind(a) /\ plan[e][a].prev = PreviousContainer(a)
              /\ PlanKind(a) \in {"resume", "create", "fail"}
              /\ last[a] + 1 \in AttemptNo /\ rows[a][last[a] + 1].status = "ABSENT"
              /\ rows'[a][last[a] + 1] = NewRow(plan[e][a])
              /\ \A n \in AttemptNo \ {last[a] + 1} :
                   rows'[a][n] = IF PlanKind(a) = "resume" /\ n = OpenRow(a)
                                 THEN Closed("FAILED", rows[a][n]) ELSE rows[a][n]
              /\ NewRow(plan[e][a]).status =
                   IF PlanKind(a) = "fail" THEN "FAILED" ELSE "PROCESSING"
              /\ PlanKind(a) # "fail" =>
                   /\ NewRow(plan[e][a]).lease = "live"
                   /\ NewRow(plan[e][a]).container = PreviousContainer(a)
         /\ \A a \in Accounts \ Added(e) : rows'[a] = rows[a] /\ last'[a] = last[a]
<1> DEFINE added == Added(e)
           p(a)  == plan[e][a]
           m(a)  == last[a] + 1
<1>1. /\ ReadsValid(e) /\ posts' = posts
      /\ rows' = [a \in Accounts |-> Prepared(a, p(a))]
      /\ \A a \in Accounts : IndexesHold(rows'[a])
      /\ last' = [a \in Accounts |-> IF a \in added THEN m(a) ELSE last[a]]
      /\ \A a \in added : last[a] < MaxAttempts
      /\ \A f \in Executors \ {e} : SameLocal(f)
      /\ Planned(e, {"expired"}) = {}
  BY DEF Sound, PrepareCommit, CanCommit, TypeOK, SameLocal, Added
<1>2. ASSUME NEW a \in added
      PROVE  /\ a \in Accounts /\ p(a) \in PlanSet /\ p(a) = PlanFor(a)
             /\ p(a).kind = PlanKind(a) /\ p(a).prev = PreviousContainer(a)
             /\ PlanKind(a) \in {"resume", "create", "fail"}
             /\ ~Conflict(e, a) /\ AccountOK(a) /\ last[a] < MaxAttempts
  <2>1. a \in Accounts /\ p(a).kind \in {"resume", "create", "fail"}
    BY DEF Planned, Added
  <2>2. ~Conflict(e, a) /\ p(a) = PlanFor(a)
    BY <1>1, <2>1 DEF ReadsValid
  <2>3. PlanFor(a).kind = PlanKind(a) /\ PlanFor(a).prev = PreviousContainer(a)
    BY DEF PlanFor
  <2>4. p(a) \in PlanSet
    BY <2>1 DEF TypeOK
  <2> QED
    BY <1>1, <2>1, <2>2, <2>3, <2>4 DEF IndInv
<1>3. ASSUME NEW a \in added
      PROVE  /\ m(a) \in AttemptNo /\ rows[a][m(a)].status = "ABSENT"
             /\ rows'[a][m(a)] = NewRow(p(a))
             /\ \A n \in AttemptNo \ {m(a)} :
                  rows'[a][n] = IF PlanKind(a) = "resume" /\ n = OpenRow(a)
                                THEN Closed("FAILED", rows[a][n]) ELSE rows[a][n]
  <2>1. OpenRow(a) # 0 => OpenRow(a) \in With(Open, a)
    BY <1>2, ReservedPlan
  <2>2. rows'[a] = Prepared(a, p(a))
    BY <1>1, <1>2
  <2> HIDE DEF p
  <2> QED
    BY <1>2, <2>1, <2>2, ReservedRows
<1>4. ASSUME NEW a \in Accounts \ added
      PROVE  rows'[a] = rows[a] /\ last'[a] = last[a]
  <2>1. p(a).kind \notin {"resume", "create", "fail", "expired"}
    BY <1>1 DEF Planned, Added
  <2>2. Prepared(a, p(a)) = [n \in AttemptNo |-> rows[a][n]]
    BY <2>1 DEF Prepared
  <2>3. rows[a] = [n \in AttemptNo |-> rows[a][n]]
    BY DEF TypeOK
  <2> QED
    BY <1>1, <2>2, <2>3
<1>5. ASSUME NEW a \in added
      PROVE  /\ NewRow(p(a)).status = IF PlanKind(a) = "fail" THEN "FAILED" ELSE "PROCESSING"
             /\ PlanKind(a) # "fail" => /\ NewRow(p(a)).lease = "live"
                                        /\ NewRow(p(a)).container = PreviousContainer(a)
  BY <1>2 DEF NewRow
<1> QED
  BY <1>1, <1>2, <1>3, <1>4, <1>5

(* The rows a preparation reserves are new, or taken over with a lease that
   ended: nobody else holds them. *)
LEMMA PrepareCommitStep ==
  ASSUME TypeOK, IndInv, Sound, NEW e \in Executors, PrepareCommit(e)
  PROVE  IndInv'
<1> DEFINE added == Added(e)
           p(a)  == plan[e][a]
           m(a)  == last[a] + 1
<1>1. /\ posts' = posts
      /\ \A a \in Accounts : IndexesHold(rows'[a])
      /\ last' = [a \in Accounts |-> IF a \in added THEN m(a) ELSE last[a]]
      /\ pc'[e] = "ticket" /\ todo'[e] = Planned(e, {"resume", "create"})
      /\ num'[e] = [a \in Accounts |-> IF a \in added THEN m(a) ELSE 0]
      /\ \A f \in Executors \ {e} : SameLocal(f)
  BY CommittedRows DEF PrepareCommit, TypeOK, Added
<1>2. ASSUME NEW a \in added
      PROVE  /\ a \in Accounts
             /\ p(a).kind = PlanKind(a)
             /\ PlanKind(a) \in {"resume", "create", "fail"}
             /\ ~Conflict(e, a) /\ AccountOK(a)
  BY CommittedRows
<1>3. ASSUME NEW a \in added
      PROVE  /\ m(a) \in AttemptNo /\ rows[a][m(a)].status = "ABSENT"
             /\ rows'[a][m(a)] = NewRow(p(a))
             /\ \A n \in AttemptNo \ {m(a)} :
                  rows'[a][n] = IF PlanKind(a) = "resume" /\ n = OpenRow(a)
                                THEN Closed("FAILED", rows[a][n]) ELSE rows[a][n]
  BY CommittedRows
<1>4. ASSUME NEW a \in Accounts \ added
      PROVE  rows'[a] = rows[a] /\ last'[a] = last[a]
  BY CommittedRows
<1>5. ASSUME NEW a \in added
      PROVE  /\ NewRow(p(a)).status = IF PlanKind(a) = "fail" THEN "FAILED" ELSE "PROCESSING"
             /\ PlanKind(a) # "fail" => /\ NewRow(p(a)).lease = "live"
                                        /\ NewRow(p(a)).container = PreviousContainer(a)
  BY CommittedRows
<1> HIDE DEF p
<1>6. ASSUME NEW a \in Accounts PROVE AccountOK(a)'
  <2>1. CASE a \notin added
    BY <1>1, <1>4, <2>1, AccountKept DEF IndInv
  <2>2. CASE a \in added
    <3>1. AccountOK(a) /\ last'[a] = m(a) /\ posts'[a] = posts[a] /\ last[a] \in Nat
      BY <1>1, <1>2, <2>2, ConstantsAssumption DEF TypeOK
    <3>2. \A n \in AttemptNo : Closed("FAILED", rows[a][n]).status = "FAILED"
      BY RowType, ClosedType DEF Status
    <3>3. ASSUME NEW n \in AttemptNo
          PROVE  n > last'[a] <=> rows'[a][n].status = "ABSENT"
      <4>1. CASE n = m(a)
        BY <1>3, <1>5, <2>2, <3>1, <4>1
      <4>2. CASE n # m(a) /\ ~(PlanKind(a) = "resume" /\ n = OpenRow(a))
        BY <1>3, <2>2, <3>1, <4>2 DEF AccountOK
      <4>3. CASE n # m(a) /\ PlanKind(a) = "resume" /\ n = OpenRow(a)
        <5>1. rows[a][n].status \in Open
          BY <1>2, <2>2, <4>3, ReservedPlan DEF With
        <5>2. ~(n > last[a])
          BY <3>1, <5>1 DEF AccountOK, Open
        <5> QED
          BY <1>3, <2>2, <3>1, <3>2, <4>3, <5>2
      <4> QED
        BY <4>1, <4>2, <4>3
    <3>4. IndexesHold(rows[a])'
      BY <1>1 DEF IndexesHold
    <3>5. ASSUME posts[a] # {} PROVE \E n \in AttemptNo : Vouches(a, n)'
      <4>1. CASE PlanKind(a) = "resume"
        <5>1. PreviousContainer(a) \in posts[a]
          BY <1>2, <2>2, <3>5, <4>1, ReservedPlan
        <5>2. PICK i \in AttemptNo : i = m(a)
          BY <1>3, <2>2
        <5>3. rows'[a][i].status = "PROCESSING" /\ rows'[a][i].container \in posts'[a]
          BY <1>3, <1>5, <2>2, <3>1, <4>1, <5>1, <5>2
        <5>4. Vouches(a, i)'
          BY <5>3 DEF Vouches, Open
        <5> QED
          BY <5>4
      <4>2. CASE PlanKind(a) # "resume"
        <5>1. PICK n \in AttemptNo : Vouches(a, n) /\ rows[a][n].status \in Open
          BY <1>2, <2>2, <3>5, <4>2, ReservedPlan
        <5>2. n # m(a)
          BY <1>3, <2>2, <5>1 DEF Open
        <5>3. rows'[a][n] = rows[a][n]
          BY <1>3, <2>2, <4>2, <5>2
        <5> QED
          BY <3>1, <5>1, <5>3 DEF Vouches
      <4> QED
        BY <4>1, <4>2
    <3>6. With({"PUBLISHED"}, a)' = {}
      <4>1. With({"PUBLISHED"}, a) = {}
        BY <1>2, <2>2, ReservedPlan
      <4> QED
        BY <1>3, <1>5, <2>2, <3>2, <4>1 DEF With
    <3> QED
      BY <3>1, <3>3, <3>4, <3>5, <3>6 DEF AccountOK
  <2> QED
    BY <2>1, <2>2
<1>7. ASSUME NEW f \in Executors \ {e}, NEW b \in todo[f] PROVE b \notin added
  <2>1. b \in Accounts /\ Held(f, b)
    BY DEF TypeOK, IndInv, ExecutorOK
  <2>2. LeaseActive(b)
    BY <2>1 DEF Held, LeaseActive, With, RowOf
  <2> QED
    BY <1>2, <2>2, ReservedPlan
<1>8. ASSUME NEW f \in Executors \ {e} PROVE Fine(f)'
  <2>1. Fine(f) /\ SameLocal(f)
    BY <1>1 DEF IndInv, Fine
  <2>2. ASSUME NEW b \in todo[f] PROVE rows'[b] = rows[b] /\ posts'[b] = posts[b]
    BY <1>1, <1>4, <1>7 DEF TypeOK
  <2> QED
    BY <2>1, <2>2, ExecutorKept
<1>9. todo'[e] \subseteq added
  BY <1>1 DEF Planned, Added
<1>10. NoOverlap'
  BY <1>1, <1>7, <1>9 DEF NoOverlap, IndInv, SameLocal
<1>11. ASSUME NEW a \in todo'[e]
       PROVE  Held(e, a)' /\ TargetFresh(e, a)'
  <2>1. a \in added /\ PlanKind(a) \in {"resume", "create"}
    <3>1. a \in Planned(e, {"resume", "create"})
      BY <1>1
    <3>2. a \in added /\ p(a).kind \in {"resume", "create"}
      BY <3>1 DEF Planned, Added, p
    <3> QED
      BY <1>2, <3>2
  <2>2. num'[e][a] = m(a) /\ m(a) \in AttemptNo /\ posts'[a] = posts[a] /\ m(a) # 0
    BY <1>1, <1>2, <1>3, <2>1, ConstantsAssumption
  <2>3. /\ rows'[a][m(a)].status = "PROCESSING" /\ rows'[a][m(a)].lease = "live"
        /\ rows'[a][m(a)].container = PreviousContainer(a)
    BY <1>3, <1>5, <2>1
  <2> HIDE DEF m
  <2>4. Held(e, a)'
    BY <2>2, <2>3 DEF Held, RowOf, Open
  <2>5. posts[a] = {} \/ (PreviousContainer(a) \in posts[a] /\ a \in Instagram)
    BY <1>2, <2>1, ReservedPlan
  <2>6. Carried(e, a)' = PreviousContainer(a)
    BY <2>2, <2>3 DEF Carried, ContainerOf
  <2> QED
    BY <2>2, <2>4, <2>5, <2>6 DEF TargetFresh, Consumed
<1>12. Fine(e)'
  BY <1>1, <1>11 DEF Fine, ExecutorOK, Calling
<1> QED
  BY <1>6, <1>8, <1>10, <1>12 DEF IndInv, Fine

-----------------------------------------------------------------------------
(* One step of the execution *)

(* An executor that ends, or crashes, leaves tables and posts as they are. *)
LEMMA EndStep ==
  ASSUME TypeOK, IndInv, NEW e \in Executors,
         PrepareAbort(e) \/ ExecAbort(e) \/ Finish(e) \/ Crash(e)
  PROVE  IndInv'
<1>1. Idle(e) /\ UNCHANGED <<rows, last, posts>>
  BY DEF PrepareAbort, ExecAbort, Finish, Crash
<1> QED
  BY <1>1, IdleFine, LocalStep

(* The rows of a failed preparation become FAILED: nothing of them is public. *)
LEMMA TicketFailsStep ==
  ASSUME TypeOK, IndInv, Sound, NEW e \in Executors, TicketFails(e)
  PROVE  IndInv'
<1>1. /\ Idle(e) /\ UNCHANGED <<last, posts>>
      /\ pc[e] = "ticket"
      /\ \A a \in todo[e] \cap Instagram : ~Consumed(e, a)
  BY DEF Sound, TicketFails
<1>2. CASE rows' = rows
  BY <1>1, <1>2, IdleFine, LocalStep
<1>3. CASE rows' = [a \in Accounts |-> [n \in AttemptNo |->
                      IF Owns(e, a, n) THEN Closed("FAILED", rows[a][n])
                      ELSE rows[a][n]]]
  <2>1. ASSUME NEW a \in todo[e] PROVE posts[a] = {} /\ Held(e, a)
    BY <1>1 DEF IndInv, TargetFresh, ExecutorOK
  <2>2. ASSUME NEW a \in Accounts \ todo[e] PROVE rows'[a] = rows[a]
    <3>1. rows[a] = [n \in AttemptNo |-> rows[a][n]]
      BY DEF TypeOK
    <3> QED
      BY <1>3, <3>1 DEF Owns
  <2>3. ASSUME NEW a \in Accounts PROVE AccountOK(a)'
    <3>1. CASE a \notin todo[e]
      BY <1>1, <2>2, <3>1, AccountKept DEF IndInv
    <3>2. CASE a \in todo[e]
      <4>1. /\ AccountOK(a) /\ posts'[a] = {} /\ last'[a] = last[a]
        BY <1>1, <2>1, <3>2 DEF IndInv
      <4>2. \A n \in AttemptNo :
              rows'[a][n] = IF n = num[e][a] THEN Closed("FAILED", rows[a][n])
                            ELSE rows[a][n]
        BY <1>3, <3>2 DEF Owns
      <4>3. \A n \in AttemptNo : Closed("FAILED", rows[a][n]).status = "FAILED"
        BY RowType, ClosedType DEF Status
      <4>4. \A n \in AttemptNo : n > last'[a] <=> rows'[a][n].status = "ABSENT"
        BY <2>1, <3>2, <4>1, <4>2, <4>3 DEF AccountOK, Held, RowOf, Open
      <4>5. IndexesHold(rows[a])'
        BY <4>1, <4>2, <4>3 DEF AccountOK, IndexesHold, Active, Open
      <4>6. With({"PUBLISHED"}, a)' = {}
        <5>1. With({"PUBLISHED"}, a) = {}
          BY <2>1, <3>2, <4>1 DEF AccountOK
        <5> QED
          BY <4>2, <4>3, <5>1 DEF With
      <4> QED
        BY <4>1, <4>4, <4>5, <4>6 DEF AccountOK
    <3> QED
      BY <3>1, <3>2
  <2>4. ASSUME NEW f \in Executors \ {e} PROVE Fine(f)'
    <3>1. Fine(f) /\ SameLocal(f) /\ todo[f] \cap todo[e] = {}
      BY <1>1, IdleFine DEF IndInv, Fine, NoOverlap
    <3>2. \A a \in todo[f] : rows'[a] = rows[a] /\ posts'[a] = posts[a]
      BY <1>1, <2>2, <3>1 DEF TypeOK
    <3> QED
      BY <3>1, <3>2, ExecutorKept
  <2>5. NoOverlap'
    BY <1>1, IdleFine, OverlapKept DEF IndInv, SameLocal
  <2> QED
    BY <1>1, <2>3, <2>4, <2>5, IdleFine DEF IndInv, Fine
<1> QED
  BY <1>2, <1>3 DEF TicketFails

(* The credential is read: only the stage of the executor changes. *)
LEMMA TicketIssuedStep ==
  ASSUME TypeOK, IndInv, NEW e \in Executors, TicketIssued(e)
  PROVE  IndInv'
<1>1. /\ UNCHANGED <<rows, last, posts>> /\ UNCHANGED <<todo, num, at, reply>>
      /\ pc[e] = "ticket" /\ pc'[e] = "run"
      /\ \A f \in Executors \ {e} : SameLocal(f)
  BY DEF TicketIssued, SameLocal, TypeOK
<1>2. \A a \in todo[e] : Held(e, a)' /\ TargetFresh(e, a)'
  BY <1>1 DEF IndInv, ExecutorOK, Held, RowOf, TargetFresh, Consumed, Carried, ContainerOf
<1>3. Fine(e)'
  BY <1>1, <1>2 DEF Fine, ExecutorOK, Calling
<1> QED
  BY <1>1, <1>3, LocalStep

(* What an executor that moves on to another stage of the same targets must
   establish, when tables and posts stay. *)
LEMMA StageStep ==
  ASSUME TypeOK, IndInv, NEW e \in Executors, NEW a \in todo[e],
         UNCHANGED <<rows, last, posts, plan, todo, num>>,
         \A f \in Executors \ {e} : SameLocal(f),
         pc[e] \in {"run", "create", "created", "poll"},
         pc'[e] \in Calling, at'[e] = a,
         pc'[e] # "replied" => a \in Instagram,
         pc'[e] \in {"create", "created"} => posts[a] = {},
         pc'[e] = "poll" => Carried(e, a) # 0,
         pc'[e] = "replied" /\ reply'[e] \in {"failed", "auth"} => posts[a] = {},
         pc'[e] = "replied" /\ reply'[e] = "ok" => posts[a] # {}
  PROVE  IndInv'
<1>1. \A b \in todo[e] : /\ Held(e, b) /\ TargetFresh(e, b)
                         /\ RowOf(e, b)' = RowOf(e, b) /\ Carried(e, b)' = Carried(e, b)
  BY DEF IndInv, ExecutorOK, RowOf, Carried, ContainerOf
<1>2. \A b \in todo[e] : Held(e, b)' /\ TargetFresh(e, b)'
  BY <1>1 DEF Held, TargetFresh, Consumed
<1>3. Carried(e, at[e])' = Carried(e, a)
  BY DEF Carried, ContainerOf
<1>4. ExecutorOK(e)'
  <2>1. /\ \A b \in todo'[e] : Held(e, b)'
        /\ at'[e] \in todo'[e] /\ posts'[at'[e]] = posts[a]
    BY <1>2
  <2>2. pc'[e] = "poll" => Carried(e, at[e])' # 0
    BY <1>3
  <2>3. pc'[e] \notin {"idle", "read"}
    BY DEF Calling
  <2> QED
    BY <2>1, <2>2, <2>3 DEF ExecutorOK
<1> QED
  BY <1>2, <1>4, LocalStep DEF Fine

(* Asking for a container that exists makes nothing public. *)
LEMMA CheckContainerStep ==
  ASSUME TypeOK, IndInv, Sound, NEW e \in Executors, NEW a \in Accounts,
         CheckContainer(e, a)
  PROVE  IndInv'
<1>1. PICK next \in {"poll", "create"} :
        /\ next = "create" => ~Consumed(e, a)
        /\ pc' = [pc EXCEPT ![e] = next]
  BY DEF Sound, CheckContainer
<1>2. /\ UNCHANGED <<rows, last, posts, plan, todo, num>>
      /\ pc[e] = "run" /\ a \in todo[e] \cap Instagram
      /\ Carried(e, a) # 0 /\ pc'[e] = next /\ at'[e] = a
      /\ \A f \in Executors \ {e} : SameLocal(f)
  BY <1>1 DEF CheckContainer, SameLocal, TypeOK
<1>3. next = "create" => posts[a] = {}
  BY <1>1, <1>2 DEF IndInv, TargetFresh
<1> QED
  BY <1>2, <1>3, StageStep DEF Calling

(* Creating a container makes nothing public. *)
LEMMA CreateContainerStep ==
  ASSUME TypeOK, IndInv, NEW e \in Executors, NEW a \in Accounts,
         CreateContainer(e, a)
  PROVE  IndInv'
<1>1. a \in todo[e] \cap Instagram /\ posts[a] = {} /\ pc[e] \in {"run", "create"}
  <2>1. CASE pc[e] = "create" /\ a = at[e]
    BY <2>1 DEF IndInv, ExecutorOK, Calling
  <2>2. CASE pc[e] = "run" /\ a \in todo[e] \cap Instagram /\ Carried(e, a) = 0
    BY <2>2 DEF IndInv, AccountOK, TargetFresh, Consumed
  <2> QED
    BY <2>1, <2>2 DEF CreateContainer
<1>2. /\ UNCHANGED <<rows, last, posts, plan, todo, num>> /\ at'[e] = a
      /\ \/ pc'[e] = "created"
         \/ pc'[e] = "replied" /\ reply'[e] \in {"timeout", "failed", "auth"}
      /\ \A f \in Executors \ {e} : SameLocal(f)
  BY DEF CreateContainer, Answered, SameLocal, TypeOK
<1> QED
  BY <1>1, <1>2, StageStep DEF Calling

(* The container is stored in the row the executor holds: nothing is public. *)
LEMMA OnContainerCreatedStep ==
  ASSUME TypeOK, IndInv, NEW e \in Executors, OnContainerCreated(e)
  PROVE  IndInv'
<1>1. PICK a \in todo[e] \cap Instagram :
        /\ a = at[e] /\ posts[a] = {} /\ Held(e, a) /\ pc[e] = "created"
  BY DEF OnContainerCreated, IndInv, ExecutorOK, Calling
<1>2. /\ UNCHANGED <<posts, plan, todo, num>>
      /\ \A f \in Executors \ {e} : SameLocal(f)
  BY DEF OnContainerCreated, Answered, SameLocal, TypeOK
<1>3. CASE /\ UNCHANGED <<rows, last>>
           /\ \E r \in {"timeout", "failed"} : Answered(e, at[e], r)
  <2>1. /\ pc'[e] = "replied" /\ reply'[e] \in {"timeout", "failed"} /\ at'[e] = a
    BY <1>1, <1>3 DEF Answered, TypeOK
  <2> QED
    BY <1>1, <1>2, <1>3, <2>1, StageStep DEF Calling
<1>4. CASE /\ Write(at[e], num[e][at[e]],
                    [status |-> "CONTAINER_CREATED",
                     container |-> num[e][at[e]], lease |-> "live"])
           /\ pc' = [pc EXCEPT ![e] = "poll"]
           /\ UNCHANGED <<at, reply>>
  <2> DEFINE row == [status |-> "CONTAINER_CREATED",
                     container |-> num[e][a], lease |-> "live"]
  <2>1. row \in Row /\ num[e][a] \in AttemptNo
    BY <1>1 DEF Held, Row, Status, Active, Open
  <2>2. Write(a, num[e][a], row) /\ row.status = "CONTAINER_CREATED"
        /\ row.lease = "live" /\ row.container = num[e][a]
    BY <1>1, <1>4
  <2> HIDE DEF row
  <2>3. /\ \A b \in Accounts : AccountOK(b)'
        /\ rows'[a][num[e][a]] = row
        /\ \A b \in Accounts \ {a} : rows'[b] = rows[b]
        /\ \A f \in Executors \ {e} : SameLocal(f) => Fine(f)'
    BY <1>1, <1>2, <2>1, <2>2, HeldWrite
  <2>4. ASSUME NEW b \in todo[e] PROVE Held(e, b)' /\ TargetFresh(e, b)'
    <3>1. CASE b = a
      BY <1>1, <1>2, <2>1, <2>2, <2>3, <3>1 DEF Held, RowOf, Open, TargetFresh
    <3>2. CASE b # a
      <4>1. Held(e, b) /\ TargetFresh(e, b) /\ b \in Accounts
        BY DEF IndInv, ExecutorOK, TypeOK
      <4>2. rows'[b] = rows[b] /\ pc[e] # "replied"
        BY <1>1, <2>3, <3>2, <4>1
      <4> QED
        BY <1>2, <4>1, <4>2 DEF Held, RowOf, TargetFresh, Consumed, Carried, ContainerOf
    <3> QED
      BY <3>1, <3>2
  <2>5. Carried(e, at[e])' # 0
    BY <1>1, <1>2, <1>4, <2>1, <2>2, <2>3 DEF Carried, ContainerOf
  <2>6. pc'[e] = "poll" /\ at'[e] = a /\ todo' = todo
    BY <1>1, <1>2, <1>4 DEF TypeOK
  <2>7. Fine(e)'
    BY <1>1, <2>4, <2>5, <2>6 DEF Fine, ExecutorOK, Calling
  <2>8. NoOverlap'
    BY <1>2, OverlapKept DEF IndInv
  <2> QED
    BY <1>2, <2>3, <2>7, <2>8 DEF IndInv, Fine
<1> QED
  BY <1>3, <1>4 DEF OnContainerCreated

(* A call that may make the post of one target public. *)
LEMMA PublishStep ==
  ASSUME TypeOK, IndInv, NEW e \in Executors, NEW a \in todo[e],
         NEW c \in AttemptNo, NEW applied \in BOOLEAN,
         NEW r \in {"ok", "timeout", "failed", "auth"},
         UNCHANGED <<rows, last, todo, num>>,
         \A f \in Executors \ {e} : SameLocal(f),
         posts' = IF applied THEN [posts EXCEPT ![a] = @ \cup {c}] ELSE posts,
         pc'[e] = "replied", at'[e] = a, reply'[e] = r,
         pc[e] # "replied",
         applied => posts[a] = {},
         r = "ok" => applied,
         r \in {"failed", "auth"} => ~applied /\ posts[a] = {},
         a \in Instagram => Carried(e, a) = c
  PROVE  IndInv'
<1>1. /\ a \in Accounts /\ \A b \in Accounts \ {a} : posts'[b] = posts[b]
      /\ posts'[a] = IF applied THEN {c} ELSE posts[a]
      /\ applied => posts[a] = {}
  BY DEF TypeOK
<1>2. ASSUME NEW b \in todo[e]
      PROVE  /\ Held(e, b)' /\ Held(e, b)
             /\ Carried(e, b)' = Carried(e, b) /\ TargetFresh(e, b)
  BY DEF IndInv, ExecutorOK, Held, RowOf, Carried, ContainerOf
<1>3. AccountOK(a)'
  <2>1. CASE ~applied
    BY <1>1, <2>1, AccountKept DEF IndInv
  <2>2. CASE applied
    <3>1. AccountOK(a) /\ Held(e, a) /\ c # 0 /\ posts'[a] = {c}
      BY <1>1, <1>2, <2>2, ConstantsAssumption DEF IndInv
    <3>2. PICK n \in AttemptNo : n = num[e][a] /\ rows[a][n].status \in Open
      BY <3>1 DEF Held, RowOf
    <3>3. a \in Instagram => rows[a][n].container = c
      BY <3>2, ConstantsAssumption DEF Carried, ContainerOf
    <3>4. Vouches(a, n)'
      BY <3>1, <3>2, <3>3 DEF Vouches
    <3> QED
      BY <3>1, <3>4 DEF AccountOK, IndexesHold, With
  <2> QED
    BY <2>1, <2>2
<1>4. ASSUME NEW b \in Accounts PROVE AccountOK(b)'
  <2>1. CASE b = a
    BY <1>3, <2>1
  <2>2. CASE b # a
    BY <1>1, <2>2, AccountKept DEF IndInv
  <2> QED
    BY <2>1, <2>2
<1>5. ASSUME NEW b \in todo[e] PROVE TargetFresh(e, b)'
  <2>1. CASE b = a
    <3>1. CASE b \notin Instagram
      BY <2>1, <3>1 DEF TargetFresh
    <3>2. CASE b \in Instagram
      BY <1>1, <1>2, <2>1, <3>2 DEF TargetFresh, Consumed
    <3> QED
      BY <3>1, <3>2
  <2>2. CASE b # a
    <3>1. posts'[b] = posts[b]
      BY <1>1, <2>2 DEF TypeOK
    <3> QED
      BY <1>2, <3>1 DEF TargetFresh, Consumed
  <2> QED
    BY <2>1, <2>2
<1>6. ExecutorOK(e)'
  <2>1. reply'[e] = "ok" => posts'[a] # {}
    BY <1>1
  <2>2. reply'[e] \in {"failed", "auth"} => posts'[a] = {}
    BY <1>1
  <2> QED
    BY <1>2, <2>1, <2>2 DEF ExecutorOK, Calling
<1>7. ASSUME NEW f \in Executors \ {e} PROVE Fine(f)'
  <2>1. Fine(f) /\ a \notin todo[f]
    BY DEF IndInv, Fine, NoOverlap
  <2>2. \A b \in todo[f] : posts'[b] = posts[b]
    BY <1>1, <2>1 DEF TypeOK
  <2> QED
    BY <2>1, <2>2, ExecutorKept
<1>8. NoOverlap'
  BY OverlapKept DEF IndInv
<1> QED
  BY <1>4, <1>5, <1>6, <1>7, <1>8 DEF IndInv, Fine

(* The call to a page: the post may be public whatever the answer says. *)
LEMMA FacebookPostStep ==
  ASSUME TypeOK, IndInv, Sound, NEW e \in Executors, NEW a \in Accounts,
         FacebookPost(e, a)
  PROVE  IndInv'
<1>1. PICK r \in {"ok", "timeout", "failed", "auth"}, applied \in BOOLEAN :
        /\ MayHide(r, applied)
        /\ posts' = IF applied THEN [posts EXCEPT ![a] = @ \cup {num[e][a]}] ELSE posts
        /\ Answered(e, a, r)
  BY DEF FacebookPost
<1>2. /\ pc[e] = "run" /\ a \in todo[e] /\ a \notin Instagram
      /\ UNCHANGED <<rows, last, todo, num>>
      /\ pc'[e] = "replied" /\ at'[e] = a /\ reply'[e] = r
      /\ \A f \in Executors \ {e} : SameLocal(f)
  BY <1>1 DEF FacebookPost, Answered, SameLocal, TypeOK
<1>3. posts[a] = {} /\ num[e][a] \in AttemptNo
  BY <1>2 DEF IndInv, ExecutorOK, Held, TargetFresh
<1>4. /\ r = "ok" => applied
      /\ r \in {"failed", "auth"} => ~applied
  BY <1>1 DEF Sound, MayHide
<1> QED
  BY <1>1, <1>2, <1>3, <1>4, PublishStep

(* The publication of a container, which makes it public once only. *)
LEMMA PublishContainerStep ==
  ASSUME TypeOK, IndInv, Sound, NEW e \in Executors, PublishContainer(e)
  PROVE  IndInv'
<1>1. PICK a \in todo[e] \cap Instagram :
        a = at[e] /\ pc[e] = "poll" /\ Carried(e, a) # 0 /\ TargetFresh(e, a)
  BY DEF PublishContainer, IndInv, ExecutorOK, Calling
<1>2. PICK r \in {"ok", "timeout", "failed", "auth"}, applied \in BOOLEAN :
        /\ MayHide(r, applied)
        /\ Consumed(e, a) => ~applied /\ r = "timeout"
        /\ posts' = IF applied THEN [posts EXCEPT ![a] = @ \cup {Carried(e, a)}] ELSE posts
        /\ Answered(e, a, r)
  BY <1>1 DEF Sound, PublishContainer, Consumed
<1>3. PICK c \in AttemptNo : c = Carried(e, a)
  <2>1. Carried(e, a) \in Container
    BY RowType DEF Carried, TypeOK
  <2> QED
    BY <1>1, <2>1, ConstantsAssumption
<1>4. /\ UNCHANGED <<rows, last, todo, num>>
      /\ pc'[e] = "replied" /\ at'[e] = a /\ reply'[e] = r
      /\ \A f \in Executors \ {e} : SameLocal(f)
  BY <1>1, <1>2 DEF PublishContainer, Answered, SameLocal, TypeOK
<1>5. /\ r = "ok" => applied
      /\ r \in {"failed", "auth"} => ~applied
  BY <1>2 DEF Sound, MayHide
<1>6. /\ applied => posts[a] = {}
      /\ r \in {"failed", "auth"} => posts[a] = {}
  BY <1>1, <1>2 DEF TargetFresh
<1>7. posts' = IF applied THEN [posts EXCEPT ![a] = @ \cup {c}] ELSE posts
  BY <1>2, <1>3
<1> QED
  BY <1>1, <1>3, <1>4, <1>5, <1>6, <1>7, PublishStep

-----------------------------------------------------------------------------
(* One result stored *)

(* A target is done: the executor holds one account less. *)
LEMMA DoneFine ==
  ASSUME TypeOK, IndInv, NEW e \in Executors, TargetDone(e), pc[e] = "replied",
         \A b \in todo[e] \ {at[e]} : rows'[b] = rows[b]
  PROVE  /\ Fine(e)' /\ posts' = posts /\ todo'[e] = todo[e] \ {at[e]}
         /\ \A f \in Executors \ {e} : SameLocal(f)
         /\ NoOverlap'
<1>1. /\ pc'[e] = "run" /\ todo'[e] = todo[e] \ {at[e]}
      /\ posts' = posts /\ num' = num
      /\ \A f \in Executors \ {e} : SameLocal(f)
  BY DEF TargetDone, TypeOK, SameLocal
<1>2. ASSUME NEW b \in todo'[e] PROVE Held(e, b)' /\ TargetFresh(e, b)'
  <2>1. Held(e, b) /\ TargetFresh(e, b) /\ b # at[e] /\ rows'[b] = rows[b]
    BY <1>1 DEF IndInv, ExecutorOK
  <2> QED
    BY <1>1, <2>1 DEF Held, RowOf, TargetFresh, Consumed, Carried, ContainerOf
<1>3. Fine(e)'
  BY <1>1, <1>2 DEF Fine, ExecutorOK, Calling
<1>4. NoOverlap'
  BY <1>1, OverlapKept DEF IndInv, SameLocal
<1> QED
  BY <1>1, <1>3, <1>4

(* The outcome is recorded in the row the executor holds. *)
LEMMA PersistStep ==
  ASSUME TypeOK, IndInv, NEW e \in Executors, NEW R,
         NEW status \in {"PUBLISHED", "UNCERTAIN", "FAILED"}, Persist(e, R, status),
         status = "PUBLISHED" => reply[e] = "ok",
         status = "FAILED" => reply[e] \in {"failed", "auth"}
  PROVE  IndInv'
<1>1. PICK a \in todo[e] : a = at[e] /\ pc[e] = "replied" /\ Held(e, a) /\ a \in Accounts
  BY DEF Persist, IndInv, ExecutorOK, Calling, TypeOK
<1> DEFINE row == Closed(status, RowOf(e, a))
<1>2. row \in Row /\ row.status = status
  <2>1. RowOf(e, a) \in Row
    BY <1>1, RowType DEF Held, RowOf
  <2>2. status \in Status
    BY DEF Status, Active
  <2> QED
    BY <2>1, <2>2, ClosedType
<1>3. Write(a, num[e][a], row) /\ TargetDone(e)
  BY <1>1 DEF Persist
<1>4. /\ status = "PUBLISHED" => posts[a] # {}
      /\ status = "FAILED" => posts[a] = {}
  BY <1>1 DEF IndInv, ExecutorOK
<1>5. posts' = posts
  BY <1>3 DEF TargetDone
<1> HIDE DEF row
<1>6. /\ \A b \in Accounts : AccountOK(b)'
      /\ \A b \in Accounts \ {a} : rows'[b] = rows[b]
      /\ \A f \in Executors \ {e} : SameLocal(f) => Fine(f)'
  BY <1>2, <1>3, <1>4, <1>5, HeldWrite
<1>7. \A b \in todo[e] \ {at[e]} : rows'[b] = rows[b]
  BY <1>1, <1>6 DEF TypeOK
<1>8. Fine(e)' /\ NoOverlap' /\ \A f \in Executors \ {e} : SameLocal(f)
  BY <1>1, <1>3, <1>7, DoneFine
<1> QED
  BY <1>6, <1>8 DEF IndInv, Fine

(* A success whose writes both failed: the row is left as the executor held it,
   and still vouches for the post. *)
LEMMA PersistNothingStep ==
  ASSUME TypeOK, IndInv, NEW e \in Executors, PersistNothing(e)
  PROVE  IndInv'
<1>1. /\ TargetDone(e) /\ pc[e] = "replied" /\ UNCHANGED <<rows, last>>
  BY DEF PersistNothing
<1>2. /\ Fine(e)' /\ posts' = posts /\ todo'[e] \subseteq todo[e]
      /\ \A f \in Executors \ {e} : SameLocal(f)
  BY <1>1, DoneFine
<1> QED
  BY <1>1, <1>2, LocalStep

-----------------------------------------------------------------------------
(* Time, administrators and accounts *)

(* A lease ends only when its executor has gone, in a sound environment. *)
LEMMA LeaseExpiresStep ==
  ASSUME TypeOK, IndInv, Sound, NEW a \in Accounts, NEW n \in AttemptNo,
         LeaseExpires(a, n)
  PROVE  IndInv'
<1> DEFINE row == [rows[a][n] EXCEPT !.lease = "expired"]
<1>1. rows[a][n] \in Row /\ rows[a][n].lease = "live"
  BY RowType DEF LeaseExpires
<1>2. row \in Row /\ row.status = rows[a][n].status /\ row.container = rows[a][n].container
  BY <1>1 DEF Row
<1>3. AccountOK(a) /\ UNCHANGED posts /\ UNCHANGED local /\ last' = last
  BY DEF IndInv, LeaseExpires
<1>4. rows' = [rows EXCEPT ![a] = [rows[a] EXCEPT ![n] = row]]
  <2>1. [rows[a] EXCEPT ![n].lease = "expired"] = [rows[a] EXCEPT ![n] = row]
    BY DEF TypeOK
  <2> QED
    BY <2>1 DEF LeaseExpires
<1>5. /\ rows'[a] = [rows[a] EXCEPT ![n] = row]
      /\ \A m \in AttemptNo : rows'[a][m].status = rows[a][m].status
                            /\ rows'[a][m].container = rows[a][m].container
      /\ \A m \in AttemptNo \ {n} : rows'[a][m] = rows[a][m]
      /\ \A b \in Accounts \ {a} : rows'[b] = rows[b]
  <2> HIDE DEF row
  <2> QED
    BY <1>2, <1>4 DEF TypeOK
<1>6. ASSUME NEW b \in Accounts PROVE AccountOK(b)'
  <2>1. CASE b = a
    <3>1. AccountOK(a) /\ posts'[a] = posts[a] /\ last'[a] = last[a]
      BY <1>3
    <3>2. \A m \in AttemptNo : Vouches(a, m) => Vouches(a, m)'
      BY <1>5, <3>1 DEF Vouches
    <3>3. With({"PUBLISHED"}, a)' = With({"PUBLISHED"}, a)
      BY <1>5 DEF With
    <3>4. IndexesHold(rows[a])'
      BY <1>5, <3>1 DEF AccountOK, IndexesHold
    <3> QED
      BY <1>5, <2>1, <3>1, <3>2, <3>3, <3>4 DEF AccountOK
  <2>2. CASE b # a
    BY <1>3, <1>5, <2>2, AccountKept DEF IndInv
  <2> QED
    BY <2>1, <2>2
<1>7. ASSUME NEW f \in Executors PROVE Fine(f)'
  <2>1. Fine(f) /\ SameLocal(f) /\ ~Owns(f, a, n)
    BY <1>3 DEF Sound, IndInv, Fine, SameLocal, local, LeaseExpires
  <2>2. ASSUME NEW b \in todo[f] PROVE rows'[b][num[f][b]] = rows[b][num[f][b]]
    <3>1. b \in Accounts /\ num[f][b] \in AttemptNo
      BY <2>1 DEF TypeOK, Fine, ExecutorOK, Held
    <3>2. b = a => num[f][b] # n
      BY <2>1 DEF Owns
    <3> QED
      BY <1>5, <3>1, <3>2
  <2> QED
    BY <1>3, <2>1, <2>2, ExecutorKept
<1>8. NoOverlap'
  BY <1>3, OverlapKept DEF local, IndInv
<1> QED
  BY <1>6, <1>7, <1>8 DEF IndInv, Fine

(* An administrator decides an uncertain row, which nobody holds. *)
LEMMA ResolveStep ==
  ASSUME TypeOK, IndInv, NEW a \in Accounts, NEW n \in AttemptNo,
         ConfirmPublished(a, n) \/ ConfirmFailed(a, n) \/ Dismiss(a, n)
  PROVE  IndInv'
<1>1. /\ Resolvable(a, n) /\ UNCHANGED posts /\ UNCHANGED local
      /\ rows[a][n] \in Row /\ rows[a][n].status \in Status
  BY RowType DEF ConfirmPublished, ConfirmFailed, Dismiss, Resolvable
<1>2. PICK s \in Status :
        /\ Write(a, n, Closed(s, rows[a][n]))
        /\ s = "PUBLISHED" => posts[a] # {}
        /\ posts[a] = {} \/ s = "PUBLISHED" \/ s = rows[a][n].status
  <2>1. CASE ConfirmPublished(a, n)
    BY <2>1 DEF ConfirmPublished, Status
  <2>2. CASE ConfirmFailed(a, n)
    BY <2>2 DEF ConfirmFailed, Status
  <2>3. CASE Dismiss(a, n)
    BY <1>1, <2>3 DEF Dismiss, Resolvable
  <2> QED
    BY <2>1, <2>2, <2>3
<1> DEFINE row == Closed(s, rows[a][n])
<1>3. row \in Row /\ row.status = s /\ row.container = rows[a][n].container
  BY <1>1, ClosedType
<1>4. "ABSENT" \notin Status
  BY DEF Status, Active, Open
<1>5. \A e \in Executors : ~Owns(e, a, n)
  BY <1>1 DEF Owns, Resolvable, IndInv, ExecutorOK, Held, RowOf
<1> HIDE DEF row
<1>6. Write(a, n, row)
  BY <1>2 DEF row
<1> QED
  BY <1>1, <1>2, <1>3, <1>4, <1>5, <1>6, FreeWrite

(* Account connections and keys that expire touch no row and no post. *)
LEMMA OutsideStep ==
  ASSUME TypeOK, IndInv, UNCHANGED <<rows, last, posts>>, UNCHANGED local
  PROVE  IndInv'
<1>1. \A f \in Executors : SameLocal(f) /\ Fine(f)
  BY DEF SameLocal, local, IndInv, Fine
<1>2. \A f \in Executors : Fine(f)'
  BY <1>1, ExecutorKept
<1>3. \A a \in Accounts : AccountOK(a)'
  BY AccountKept DEF IndInv
<1>4. NoOverlap'
  BY OverlapKept DEF local, IndInv
<1> QED
  BY <1>2, <1>3, <1>4 DEF IndInv, Fine

-----------------------------------------------------------------------------
(* IndInv is inductive in a sound environment. *)
THEOREM Inductive == ASSUME Sound PROVE Spec => []IndInv
<1>1. Init => IndInv
  <2> SUFFICES ASSUME Init PROVE IndInv
    OBVIOUS
  <2>1. ASSUME NEW a \in Accounts PROVE AccountOK(a)
    <3>1. \A n \in AttemptNo : rows[a][n].status = "ABSENT"
      BY DEF Init, Absent
    <3>2. last[a] = 0 /\ posts[a] = {}
      BY DEF Init
    <3> QED
      BY <3>1, <3>2, ConstantsAssumption
         DEF AccountOK, IndexesHold, With, Active, Open
  <2>2. ASSUME NEW e \in Executors
        PROVE  ExecutorOK(e) /\ \A a \in todo[e] : TargetFresh(e, a)
    BY DEF Init, ExecutorOK, Calling
  <2>3. NoOverlap
    BY DEF Init, NoOverlap
  <2> QED
    BY <2>1, <2>2, <2>3 DEF IndInv
<1>2. TypeOK /\ IndInv /\ [Next]_vars => IndInv'
  <2> SUFFICES ASSUME TypeOK, IndInv, [Next]_vars PROVE IndInv'
    OBVIOUS
  <2>1. CASE \E e \in Executors : Prepare(e)
    BY <2>1, PrepareReadStep, PrepareUncertainStep, PrepareCommitStep, EndStep
       DEF Prepare
  <2>2. CASE \E e \in Executors : Execute(e)
    <3>1. PICK e \in Executors : Execute(e)
      BY <2>2
    <3>2. CASE PersistPublished(e) \/ PersistUncertain(e) \/ PersistFailed(e)
      <4>1. CASE PersistPublished(e)
        BY <4>1, PersistStep DEF PersistPublished, Persist
      <4>2. CASE PersistUncertain(e)
        BY <4>2, PersistStep DEF PersistUncertain
      <4>3. CASE PersistFailed(e)
        BY <4>3, PersistStep DEF PersistFailed, Persist
      <4> QED
        BY <3>2, <4>1, <4>2, <4>3
    <3>3. CASE \E a \in Accounts :
                 FacebookPost(e, a) \/ CheckContainer(e, a) \/ CreateContainer(e, a)
      BY <3>3, FacebookPostStep, CheckContainerStep, CreateContainerStep
    <3> QED
      BY <3>1, <3>2, <3>3, TicketIssuedStep, TicketFailsStep, OnContainerCreatedStep,
         PublishContainerStep, PersistNothingStep, EndStep
         DEF Execute
  <2>3. CASE Environment
    <3>1. CASE \E a \in Accounts, n \in AttemptNo :
                 \/ LeaseExpires(a, n)
                 \/ ConfirmPublished(a, n) \/ ConfirmFailed(a, n) \/ Dismiss(a, n)
      BY <3>1, LeaseExpiresStep, ResolveStep
    <3>2. CASE \/ \E a \in Accounts, value \in BOOLEAN : SetConnected(a, value)
               \/ \E k \in Keys : KeyExpires(k)
      BY <3>2, OutsideStep DEF SetConnected, KeyExpires
    <3> QED
      BY <2>3, <3>1, <3>2 DEF Environment
  <2>4. CASE UNCHANGED vars
    BY <2>4, OutsideStep DEF vars, local
  <2> QED
    BY <2>1, <2>2, <2>3, <2>4 DEF Next
<1> QED
  BY <1>1, <1>2, TypeCorrect, PTL DEF Spec

(* In a sound environment no account ever shows a post twice, whatever crashes,
   retries and concurrent publications happen: for all accounts, executors, keys
   and attempts. *)
THEOREM PublishedAtMostOnce == ASSUME Sound PROVE Spec => []AtMostOnce
<1>1. IndInv => AtMostOnce
  BY DEF IndInv, AccountOK, AtMostOnce
<1> QED
  BY <1>1, Inductive, PTL

(* In a sound environment a public post is never forgotten by the table. *)
THEOREM PublishedRemembered == ASSUME Sound PROVE Spec => []PostsAreRemembered
<1>1. IndInv => PostsAreRemembered
  BY DEF IndInv, AccountOK, PostsAreRemembered
<1> QED
  BY <1>1, Inductive, PTL

-----------------------------------------------------------------------------
(* The publication service implements PublishOnce, what it published stays as
   it is, and its keys are exclusive. *)

HIDE DEF Executors, AttemptNo, Container

shownBar == [a \in Accounts |-> ShownAs(a)]

-----------------------------------------------------------------------------
(* What the rows say *)

(* The three things the rows of an account can say. *)
LEMMA ShownValue ==
  ASSUME NEW a \in Accounts
  PROVE  ShownAs(a) \in {"idle", "pending", "published"}
BY DEF ShownAs

(* They say nothing false of a post. *)
LEMMA ShownTrue ==
  ASSUME NEW a \in Accounts, AccountOK(a)
  PROVE  /\ ShownAs(a) = "idle" => posts[a] = {}
         /\ ShownAs(a) = "published" => posts[a] # {}
BY DEF ShownAs, AccountOK, Vouches, With, Active

LEMMA ShownTrueNext ==
  ASSUME NEW a \in Accounts, AccountOK(a)'
  PROVE  /\ ShownAs(a)' = "idle" => posts'[a] = {}
         /\ ShownAs(a)' = "published" => posts'[a] # {}
BY DEF ShownAs, AccountOK, Vouches, With, Active

(* Rows with the same statuses say the same. *)
LEMMA SameShown ==
  ASSUME NEW a \in Accounts,
         \A n \in AttemptNo : rows'[a][n].status = rows[a][n].status
  PROVE  ShownAs(a)' = ShownAs(a)
BY DEF ShownAs, With

(* An executor holds an account that is shown as pending, or published. *)
LEMMA HeldShown ==
  ASSUME NEW a \in Accounts, NEW e \in Executors, Held(e, a)
  PROVE  ShownAs(a) # "idle"
<1>1. num[e][a] \in With(Active, a)
  BY DEF Held, With, RowOf, Active
<1> QED
  BY <1>1 DEF ShownAs

-----------------------------------------------------------------------------
(* Steps of the promise *)

(* Nothing that can be seen changes. *)
LEMMA Stutter ==
  ASSUME posts' = posts, \A a \in Accounts : ShownAs(a)' = ShownAs(a)
  PROVE  UNCHANGED <<posts, shownBar>>
BY DEF shownBar

(* A step that writes rows of one account, and does not take back that it is
   published, is one of the promise: the invariant, before and after, says that
   what the rows have come to say is true. *)
LEMMA OneAccountStep ==
  ASSUME IndInv, IndInv', posts' = posts, NEW a \in Accounts,
         \A b \in Accounts \ {a} : rows'[b] = rows[b],
         ShownAs(a) = "published" => ShownAs(a)' = "published"
  PROVE  [Promise!Next]_<<posts, shownBar>>
<1>1. \A b \in Accounts \ {a} : ShownAs(b)' = ShownAs(b)
  BY SameShown
<1>2. /\ ShownAs(a) = "idle" => posts[a] = {}
      /\ ShownAs(a)' = "idle" => posts[a] = {}
      /\ ShownAs(a)' = "published" => posts[a] # {}
  BY ShownTrue, ShownTrueNext DEF IndInv
<1>3. /\ ShownAs(a) \in {"idle", "pending", "published"}
      /\ ShownAs(a)' \in {"idle", "pending", "published"}
  BY DEF ShownAs
<1>4. CASE ShownAs(a)' = ShownAs(a)
  BY <1>1, <1>4, Stutter
<1>5. ASSUME NEW v, ShownAs(a)' = v
      PROVE  shownBar' = [b \in Accounts |-> IF b \in {a} THEN v ELSE shownBar[b]]
  BY <1>1, <1>5 DEF shownBar
<1>6. CASE ShownAs(a) = "idle" /\ ShownAs(a)' = "pending"
  <2>1. Promise!Attempt({a})
    BY <1>2, <1>5, <1>6 DEF Promise!Attempt, Promise!Shown, shownBar
  <2> QED
    BY <2>1 DEF Promise!Next
<1>7. CASE ShownAs(a) = "pending" /\ ShownAs(a)' = "idle"
  <2>1. Promise!GiveUp({a})
    BY <1>2, <1>5, <1>7 DEF Promise!GiveUp, Promise!Shown, shownBar
  <2> QED
    BY <2>1 DEF Promise!Next
<1>8. CASE ShownAs(a) = "pending" /\ ShownAs(a)' = "published"
  <2>1. Promise!Confirm(a)
    BY <1>2, <1>5, <1>8 DEF Promise!Confirm, Promise!Shown, shownBar
  <2> QED
    BY <2>1 DEF Promise!Next
<1> QED
  BY <1>2, <1>3, <1>4, <1>6, <1>7, <1>8

(* A preparation sets out to publish on accounts that were idle, and leaves what
   the other ones show. *)
LEMMA CommitShown ==
  ASSUME TypeOK, IndInv, Sound, NEW e \in Executors, PrepareCommit(e),
         NEW a \in Accounts
  PROVE  ShownAs(a)' = ShownAs(a) \/ (ShownAs(a) = "idle" /\ ShownAs(a)' = "pending")
<1>1. CASE a \notin Added(e)
  BY <1>1, CommittedRows, SameShown
<1>2. CASE a \in Added(e)
  <2> DEFINE m == last[a] + 1
  <2>1. /\ With({"PUBLISHED"}, a) = {} /\ With({"UNCERTAIN"}, a) = {}
        /\ OpenRow(a) # 0 => OpenRow(a) \in With(Open, a)
    BY <1>2, CommittedRows, ReservedPlan
  <2>2. \A n \in AttemptNo : Closed("FAILED", rows[a][n]).status = "FAILED"
    BY RowType, ClosedType DEF Status
  <2>3. With({"PUBLISHED"}, a)' = {}
    BY <1>2, <2>1, <2>2, CommittedRows DEF With
  <2>4. With(Active, a) # {} => With(Active, a)' # {}
    <3>1. CASE PlanKind(a) = "fail"
      BY <1>2, <3>1, CommittedRows DEF With, Active, Open
    <3>2. CASE PlanKind(a) # "fail"
      <4>1. m \in AttemptNo /\ rows'[a][m].status = "PROCESSING"
        BY <1>2, <3>2, CommittedRows
      <4> HIDE DEF m
      <4> QED
        BY <4>1 DEF With, Active, Open
    <3> QED
      BY <3>1, <3>2
  <2> QED
    BY <2>1, <2>3, <2>4 DEF ShownAs
<1> QED
  BY <1>1, <1>2

(* The step of a preparation that commits. *)
LEMMA CommitStep ==
  ASSUME TypeOK, IndInv, Sound, NEW e \in Executors, PrepareCommit(e)
  PROVE  [Promise!Next]_<<posts, shownBar>>
<1> DEFINE S == {a \in Accounts : ShownAs(a)' # ShownAs(a)}
<1>1. posts' = posts /\ \A a \in Accounts :
        ShownAs(a)' = IF a \in S THEN "pending" ELSE ShownAs(a)
  BY CommittedRows, CommitShown
<1>2. \A a \in S : ShownAs(a) = "idle" /\ posts[a] = {}
  BY CommitShown, ShownTrue DEF IndInv
<1>3. Promise!Attempt(S)
  BY <1>1, <1>2 DEF Promise!Attempt, Promise!Shown, shownBar
<1> QED
  BY <1>3 DEF Promise!Next

(* Preparing an account whose lease ended shows nothing new. *)
LEMMA UncertainStep ==
  ASSUME TypeOK, IndInv, IndInv', Sound, NEW e \in Executors, PrepareUncertain(e)
  PROVE  [Promise!Next]_<<posts, shownBar>>
<1>1. ASSUME NEW a \in Accounts PROVE ShownAs(a)' = ShownAs(a)
  <2>1. CASE a \notin Planned(e, {"expired"})
    BY <2>1, SameShown DEF PrepareUncertain
  <2>2. CASE a \in Planned(e, {"expired"})
    <3>1. /\ plan[e][a].kind = "expired" /\ plan[e][a] = PlanFor(a)
          /\ rows'[a] = Prepared(a, plan[e][a])
      BY <2>2 DEF Sound, Planned, PrepareUncertain, CanCommit, ReadsValid
    <3>2. /\ With({"PUBLISHED"}, a) = {} /\ OpenRow(a) # 0
          /\ plan[e][a].open = OpenRow(a)
      BY <3>1 DEF PlanFor, PlanKind
    <3>3. PICK o \in AttemptNo : o = OpenRow(a) /\ rows[a][o].status \in Open
      BY <3>2 DEF OpenRow, With
    <3>4. rows'[a][o] = Closed("UNCERTAIN", rows[a][o])
          /\ \A n \in AttemptNo \ {o} : rows'[a][n] = rows[a][n]
      BY <3>1, <3>2, <3>3 DEF Prepared
    <3>5. rows'[a][o].status = "UNCERTAIN"
      <4>1. rows[a][o] \in Row /\ "UNCERTAIN" \in Status
        BY RowType DEF Status, Active
      <4> QED
        BY <3>4, <4>1, ClosedType
    <3>6. With({"PUBLISHED"}, a)' = {} /\ With(Active, a)' # {}
      BY <3>2, <3>4, <3>5 DEF With, Active
    <3>7. With(Active, a) # {}
      BY <3>3 DEF With, Active
    <3> QED
      BY <3>2, <3>6, <3>7 DEF ShownAs
  <2> QED
    BY <2>1, <2>2
<1> QED
  BY <1>1, Stutter DEF PrepareUncertain

(* The ticket is refused: the accounts of the executor are given up. *)
LEMMA TicketFailsPromise ==
  ASSUME TypeOK, IndInv, IndInv', NEW e \in Executors, TicketFails(e)
  PROVE  [Promise!Next]_<<posts, shownBar>>
<1> DEFINE S == {a \in Accounts : ShownAs(a)' # ShownAs(a)}
<1>1. posts' = posts
  BY DEF TicketFails
<1>2. ASSUME NEW a \in S
      PROVE  ShownAs(a) = "pending" /\ ShownAs(a)' = "idle" /\ posts[a] = {}
  <2>1. ASSUME NEW n \in AttemptNo
        PROVE  \/ rows'[a][n].status = rows[a][n].status
               \/ rows[a][n].status \in Open /\ rows'[a][n].status = "FAILED"
    <3>1. Owns(e, a, n) => rows[a][n].status \in Open
      BY DEF Owns, IndInv, ExecutorOK, Held, RowOf
    <3>2. Closed("FAILED", rows[a][n]).status = "FAILED"
      BY RowType, ClosedType DEF Status
    <3> QED
      BY <3>1, <3>2 DEF TicketFails
  <2>2. With({"PUBLISHED"}, a)' = With({"PUBLISHED"}, a)
    BY <2>1 DEF With, Open
  <2>3. With(Active, a)' \subseteq With(Active, a)
    BY <2>1 DEF With, Open, Active
  <2>4. ShownAs(a) = "pending" /\ ShownAs(a)' = "idle"
    BY <2>2, <2>3 DEF ShownAs
  <2> QED
    BY <1>1, <2>4, ShownTrueNext DEF IndInv
<1>3. Promise!GiveUp(S)
  BY <1>1, <1>2 DEF Promise!GiveUp, Promise!Shown, shownBar
<1> QED
  BY <1>3 DEF Promise!Next

(* The write of one row that was not PUBLISHED. *)
LEMMA WritePromise ==
  ASSUME TypeOK, IndInv, IndInv', posts' = posts, NEW a \in Accounts, NEW n \in AttemptNo,
         NEW row, Write(a, n, row), rows[a][n].status # "PUBLISHED"
  PROVE  [Promise!Next]_<<posts, shownBar>>
<1>1. /\ \A b \in Accounts \ {a} : rows'[b] = rows[b]
      /\ \A m \in AttemptNo \ {n} : rows'[a][m] = rows[a][m]
  BY DEF Write, TypeOK
<1>2. ShownAs(a) = "published" => ShownAs(a)' = "published"
  BY <1>1 DEF ShownAs, With
<1> QED
  BY <1>1, <1>2, OneAccountStep

(* The post becomes public on an account that an executor holds. *)
LEMMA PublishPromise ==
  ASSUME TypeOK, IndInv, IndInv', NEW e \in Executors, NEW a \in todo[e], NEW c,
         posts[a] = {}, posts' = [posts EXCEPT ![a] = @ \cup {c}], rows' = rows
  PROVE  [Promise!Next]_<<posts, shownBar>>
<1>1. a \in Accounts /\ Held(e, a)
  BY DEF TypeOK, IndInv, ExecutorOK
<1>2. ShownAs(a) = "pending"
  BY <1>1, HeldShown, ShownTrue, ShownValue DEF IndInv
<1>3. shownBar' = shownBar
  BY SameShown DEF shownBar
<1>4. posts' = [posts EXCEPT ![a] = {c}] /\ c \in posts'[a]
  BY <1>1 DEF TypeOK
<1>5. Promise!Publish(a, c)
  BY <1>1, <1>2, <1>3, <1>4 DEF Promise!Publish, shownBar
<1> QED
  BY <1>1, <1>4, <1>5 DEF Promise!Next

(* An executor writes the row it holds. *)
LEMMA HeldWritePromise ==
  ASSUME TypeOK, IndInv, IndInv', posts' = posts, NEW e \in Executors,
         at[e] \in todo[e], NEW row, Write(at[e], num[e][at[e]], row)
  PROVE  [Promise!Next]_<<posts, shownBar>>
<1>1. at[e] \in Accounts /\ Held(e, at[e])
  BY DEF TypeOK, IndInv, ExecutorOK
<1>2. num[e][at[e]] \in AttemptNo /\ rows[at[e]][num[e][at[e]]].status # "PUBLISHED"
  BY <1>1 DEF Held, RowOf, Open
<1> QED
  BY <1>1, <1>2, WritePromise

-----------------------------------------------------------------------------
(* The refinement *)

(* In a sound environment the publication service implements PublishOnce: what can be
   seen of it, posts and what the rows say of them, changes only as promised. *)
THEOREM Implements == ASSUME Sound PROVE Spec => PublishesOnce
<1>1. Init => Promise!Init
  <2> SUFFICES ASSUME Init PROVE Promise!Init
    OBVIOUS
  <2>1. \A a \in Accounts : \A S : "ABSENT" \notin S => With(S, a) = {}
    BY DEF Init, With, Absent
  <2>2. \A a \in Accounts : ShownAs(a) = "idle"
    BY <2>1 DEF ShownAs, Active, Open
  <2> QED
    BY <2>2 DEF Promise!Init, Init
<1>2. TypeOK /\ IndInv /\ IndInv' /\ [Next]_vars => [Promise!Next]_<<posts, shownBar>>
  <2> SUFFICES ASSUME TypeOK, IndInv, IndInv', [Next]_vars
               PROVE  [Promise!Next]_<<posts, shownBar>>
    OBVIOUS
  <2>1. CASE UNCHANGED <<rows, posts>>
    BY <2>1, SameShown, Stutter
  <2>2. ASSUME NEW e \in Executors, Prepare(e)
        PROVE  [Promise!Next]_<<posts, shownBar>>
    <3>1. CASE PrepareCommit(e)
      BY <3>1, CommitStep
    <3>2. CASE PrepareUncertain(e)
      BY <3>2, UncertainStep
    <3>3. CASE PrepareAbort(e)
           \/ \E targets \in SUBSET Accounts, k \in Keys \cup {"none"} :
                PrepareRead(e, targets, k)
      BY <2>1, <3>3 DEF PrepareAbort, PrepareRead
    <3> QED
      BY <2>2, <3>1, <3>2, <3>3 DEF Prepare
  <2>3. ASSUME NEW e \in Executors, Execute(e)
        PROVE  [Promise!Next]_<<posts, shownBar>>
    <3>1. CASE TicketFails(e)
      BY <3>1, TicketFailsPromise
    <3>2. CASE OnContainerCreated(e)
      <4>1. at[e] \in todo[e] /\ posts' = posts
        BY <3>2 DEF OnContainerCreated, IndInv, ExecutorOK, Calling
      <4> QED
        BY <2>1, <3>2, <4>1, HeldWritePromise DEF OnContainerCreated
    <3>3. CASE PersistPublished(e) \/ PersistUncertain(e) \/ PersistFailed(e)
      <4>1. at[e] \in todo[e] /\ posts' = posts
        BY <3>3 DEF PersistPublished, PersistUncertain, PersistFailed, Persist,
                    TargetDone, IndInv, ExecutorOK, Calling
      <4>2. \E row : Write(at[e], num[e][at[e]], row)
        BY <3>3 DEF PersistPublished, PersistUncertain, PersistFailed, Persist
      <4> QED
        BY <4>1, <4>2, HeldWritePromise
    <3>4. ASSUME NEW a \in Accounts, FacebookPost(e, a)
          PROVE  [Promise!Next]_<<posts, shownBar>>
      <4>1. a \in todo[e] /\ posts[a] = {} /\ rows' = rows
        BY <3>4 DEF FacebookPost, IndInv, TargetFresh
      <4>2. posts' = posts \/ posts' = [posts EXCEPT ![a] = @ \cup {num[e][a]}]
        BY <3>4 DEF FacebookPost
      <4> QED
        BY <2>1, <4>1, <4>2, PublishPromise
    <3>5. CASE PublishContainer(e)
      <4>1. /\ at[e] \in todo[e] /\ at[e] \in Instagram /\ rows' = rows
            /\ TargetFresh(e, at[e])
        BY <3>5 DEF PublishContainer, IndInv, ExecutorOK, Calling
      <4>2. \/ posts' = posts
            \/ /\ posts' = [posts EXCEPT ![at[e]] = @ \cup {Carried(e, at[e])}]
               /\ ~Consumed(e, at[e])
        BY <3>5 DEF PublishContainer, Consumed
      <4>3. ~Consumed(e, at[e]) => posts[at[e]] = {}
        BY <4>1 DEF TargetFresh
      <4> QED
        BY <2>1, <4>1, <4>2, <4>3, PublishPromise
    <3>6. CASE \/ TicketIssued(e) \/ PersistNothing(e) \/ ExecAbort(e)
               \/ Finish(e) \/ Crash(e)
               \/ \E a \in Accounts : CheckContainer(e, a) \/ CreateContainer(e, a)
      BY <2>1, <3>6 DEF TicketIssued, PersistNothing, TargetDone, ExecAbort, Finish,
                        Crash, CheckContainer, CreateContainer
    <3> QED
      BY <2>3, <3>1, <3>2, <3>3, <3>4, <3>5, <3>6 DEF Execute
  <2>4. ASSUME Environment
        PROVE  [Promise!Next]_<<posts, shownBar>>
    <3>1. ASSUME NEW a \in Accounts, NEW n \in AttemptNo,
                 ConfirmPublished(a, n) \/ ConfirmFailed(a, n) \/ Dismiss(a, n)
          PROVE  [Promise!Next]_<<posts, shownBar>>
      <4>1. rows[a][n].status # "PUBLISHED" /\ posts' = posts
        BY <3>1 DEF ConfirmPublished, ConfirmFailed, Dismiss, Resolvable
      <4>2. \E row : Write(a, n, row)
        BY <3>1 DEF ConfirmPublished, ConfirmFailed, Dismiss
      <4> QED
        BY <4>1, <4>2, WritePromise
    <3>2. ASSUME NEW a \in Accounts, NEW n \in AttemptNo, LeaseExpires(a, n)
          PROVE  [Promise!Next]_<<posts, shownBar>>
      <4>1. \A b \in Accounts, m \in AttemptNo :
              rows'[b][m].status = rows[b][m].status
        BY <3>2, RowType DEF LeaseExpires, TypeOK, Row
      <4> QED
        BY <3>2, <4>1, SameShown, Stutter DEF LeaseExpires
    <3>3. CASE \/ \E a \in Accounts, value \in BOOLEAN : SetConnected(a, value)
               \/ \E k \in Keys : KeyExpires(k)
      BY <2>1, <3>3 DEF SetConnected, KeyExpires
    <3> QED
      BY <2>4, <3>1, <3>2, <3>3 DEF Environment
  <2> QED
    BY <2>1, <2>2, <2>3, <2>4 DEF Next, vars
<1> QED
  BY <1>1, <1>2, TypeCorrect, Inductive, PTL DEF Spec, PublishesOnce, Promise!Spec, shownBar

-----------------------------------------------------------------------------
(* Who holds which row, and what PUBLISHED says, when things go wrong *)

(* What a preparation read of a row that it will close: nobody works on it, and
   nobody will, since rows are held from the preparation that makes them. *)
Reads(e) ==
  pc[e] = "read" =>
    \A a \in Accounts : plan[e][a].kind \in {"resume", "expired"} =>
      /\ plan[e][a].open \in AttemptNo /\ plan[e][a].open <= last[a]
      /\ \A f \in Executors : ~Owns(f, a, plan[e][a].open)

Holds(e) ==
  /\ \A a \in todo[e] : Held(e, a)
  /\ pc[e] \in {"idle", "read"} => todo[e] = {}
  /\ pc[e] \in Calling => at[e] \in todo[e]
  /\ Reads(e)

Vacant == \A a \in Accounts, n \in AttemptNo : n > last[a] => rows[a][n].status = "ABSENT"

HoldInv == NoOverlap /\ Vacant /\ \A e \in Executors : Holds(e)

(* An executor goes on as it was when a step leaves the rows it holds alone and
   lets others take new rows only. *)
LEMMA HoldKept ==
  ASSUME TypeOK, HoldInv, NEW f \in Executors, SameLocal(f), plan'[f] = plan[f],
         \A a \in todo[f] : rows'[a][num[f][a]] = rows[a][num[f][a]],
         \A a \in Accounts : last'[a] \in Nat /\ last[a] <= last'[a],
         \A g \in Executors, a \in Accounts, n \in AttemptNo :
           Owns(g, a, n)' => Owns(g, a, n) \/ n > last[a]
  PROVE  Holds(f)'
<1>1. Holds(f)
  BY DEF HoldInv
<1>2. \A a \in todo'[f] : Held(f, a)'
  <2>1. \A a \in todo[f] : RowOf(f, a)' = RowOf(f, a)
    BY DEF SameLocal, RowOf
  <2> QED
    BY <1>1, <2>1 DEF SameLocal, Holds, Held
<1>3. Reads(f)'
  <2> SUFFICES ASSUME pc[f] = "read", NEW a \in Accounts,
                      plan[f][a].kind \in {"resume", "expired"}
               PROVE  /\ plan[f][a].open \in AttemptNo /\ plan[f][a].open <= last'[a]
                      /\ \A g \in Executors : ~Owns(g, a, plan[f][a].open)'
    BY DEF Reads, SameLocal, Owns
  <2>1. /\ plan[f][a].open \in AttemptNo /\ plan[f][a].open <= last[a]
        /\ \A g \in Executors : ~Owns(g, a, plan[f][a].open)
    BY <1>1 DEF Holds, Reads
  <2>2. /\ plan[f][a].open \in Nat /\ last[a] \in Nat /\ last'[a] \in Nat
        /\ last[a] <= last'[a]
    BY <2>1 DEF AttemptNo, TypeOK, Container
  <2>3. plan[f][a].open <= last'[a] /\ ~(plan[f][a].open > last[a])
    BY <2>1, <2>2
  <2> QED
    BY <2>1, <2>3
<1> QED
  BY <1>1, <1>2, <1>3 DEF Holds, SameLocal

(* A step of an executor that takes nothing, and writes to its own rows only. *)
LEMMA HoldStep ==
  ASSUME TypeOK, HoldInv, NEW e \in Executors, last' = last, Vacant', Holds(e)',
         todo'[e] \subseteq todo[e], todo'[e] # {} => num' = num,
         \A f \in Executors \ {e} :
           /\ SameLocal(f) /\ plan'[f] = plan[f]
           /\ \A a \in todo[f] : rows'[a][num[f][a]] = rows[a][num[f][a]]
  PROVE  HoldInv'
<1>1. NoOverlap'
  BY OverlapKept DEF HoldInv, SameLocal
<1>2. ASSUME NEW f \in Executors \ {e} PROVE Holds(f)'
  <2>1. \A a \in Accounts : last'[a] \in Nat /\ last[a] <= last'[a]
    <3>1. \A a \in Accounts : last[a] \in Nat
      BY DEF TypeOK, Container
    <3> QED
      BY <3>1
  <2>2. \A g \in Executors, a \in Accounts, n \in AttemptNo : Owns(g, a, n)' => Owns(g, a, n)
    <3>1. \A g \in Executors, a \in Accounts :
            a \in todo'[g] => a \in todo[g] /\ num'[g][a] = num[g][a]
      BY DEF SameLocal
    <3> QED
      BY <3>1 DEF Owns
  <2> QED
    BY <2>1, <2>2, HoldKept
<1> QED
  BY <1>1, <1>2 DEF HoldInv

(* An executor that ends holds nothing. *)
LEMMA HoldIdle ==
  ASSUME TypeOK, NEW e \in Executors, Idle(e)
  PROVE  /\ Holds(e)' /\ todo'[e] = {}
         /\ \A f \in Executors \ {e} : SameLocal(f) /\ plan'[f] = plan[f]
BY DEF Idle, TypeOK, Holds, Reads, Calling, SameLocal

(* Another executor holds other rows. *)
LEMMA HeldApart ==
  ASSUME HoldInv, NEW e \in Executors, NEW f \in Executors \ {e}, NEW a \in todo[e]
  PROVE  a \notin todo[f]
BY DEF HoldInv, NoOverlap

(* A preparation reads. *)
LEMMA HoldRead ==
  ASSUME TypeOK, HoldInv, NEW e \in Executors, NEW targets \in SUBSET Accounts,
         NEW k \in Keys \cup {"none"}, PrepareRead(e, targets, k)
  PROVE  HoldInv'
<1>1. /\ UNCHANGED <<rows, last, todo, num, at>> /\ pc'[e] = "read" /\ todo[e] = {}
      /\ \A f \in Executors \ {e} : SameLocal(f) /\ plan'[f] = plan[f]
      /\ plan'[e] = [a \in Accounts |-> IF a \in targets THEN PlanFor(a) ELSE NoPlan]
      /\ \A a \in targets : ~Conflict(e, a)
  BY DEF PrepareRead, SameLocal, TypeOK, HoldInv, Holds
<1>2. ASSUME NEW a \in Accounts, plan'[e][a].kind \in {"resume", "expired"}
      PROVE  /\ plan'[e][a].open \in AttemptNo /\ plan'[e][a].open <= last[a]
             /\ \A f \in Executors : ~Owns(f, a, plan'[e][a].open)
  <2>1. NoPlan.kind = "none"
    BY DEF NoPlan
  <2>2. a \in targets /\ plan'[e][a] = PlanFor(a)
    BY <1>1, <1>2, <2>1
  <2>3. /\ PlanFor(a).kind = PlanKind(a) /\ PlanFor(a).open = OpenRow(a)
        /\ PlanKind(a) \in {"resume", "expired"}
    BY <1>2, <2>2 DEF PlanFor
  <2>4. With({"PUBLISHED"}, a) = {} /\ OpenRow(a) # 0
    BY <2>3 DEF PlanKind
  <2>5. ~LeaseActive(a)
    BY <1>1, <2>2, <2>4 DEF Conflict
  <2>6. OpenRow(a) \in With(Open, a)
    BY <2>4 DEF OpenRow
  <2>7. OpenRow(a) <= last[a]
    <3>1. OpenRow(a) \in AttemptNo /\ rows[a][OpenRow(a)].status # "ABSENT"
      BY <2>6 DEF With, Open
    <3>2. OpenRow(a) \in Nat /\ last[a] \in Nat
      BY <3>1 DEF AttemptNo, TypeOK, Container
    <3> QED
      BY <3>1, <3>2 DEF HoldInv, Vacant
  <2>8. ASSUME NEW f \in Executors, Owns(f, a, OpenRow(a)) PROVE FALSE
    <3>1. rows[a][OpenRow(a)].lease = "live"
      BY <2>8 DEF Owns, HoldInv, Holds, Held, RowOf
    <3> QED
      BY <2>5, <2>6, <3>1 DEF LeaseActive
  <2> QED
    BY <2>2, <2>3, <2>6, <2>7, <2>8 DEF With
<1>3. Reads(e)'
  BY <1>1, <1>2 DEF Reads, Owns
<1>4. Holds(e)'
  BY <1>1, <1>3 DEF Holds, Calling
<1>5. Vacant'
  BY <1>1 DEF HoldInv, Vacant
<1> QED
  BY <1>1, <1>4, <1>5, HoldStep

(* The rows of a plan whatever was read: those it closes are not held. *)
LEMMA HoldPrepared ==
  ASSUME TypeOK, HoldInv, NEW e \in Executors, pc[e] = "read", NEW a \in Accounts
  PROVE  /\ \A f \in Executors : a \in todo[f] =>
              Prepared(a, plan[e][a])[num[f][a]] = rows[a][num[f][a]]
         /\ \A n \in AttemptNo : n > last[a] /\ n # last[a] + 1 =>
              Prepared(a, plan[e][a])[n].status = "ABSENT"
         /\ plan[e][a].kind \notin {"resume", "create", "fail"} =>
              \A n \in AttemptNo : n > last[a] =>
                Prepared(a, plan[e][a])[n].status = "ABSENT"
<1> DEFINE p == plan[e][a]
<1>1. p.kind \in {"resume", "expired"} =>
        p.open \in AttemptNo /\ p.open <= last[a] /\ \A f \in Executors : ~Owns(f, a, p.open)
  BY DEF HoldInv, Holds, Reads
<1>2. last[a] \in Nat /\ \A n \in AttemptNo : n \in Nat
  BY DEF TypeOK, Container, AttemptNo
<1>3. \A n \in AttemptNo : n > last[a] => rows[a][n].status = "ABSENT"
  BY DEF HoldInv, Vacant
<1> HIDE DEF p
<1>4. ASSUME NEW f \in Executors, a \in todo[f]
      PROVE  Prepared(a, p)[num[f][a]] = rows[a][num[f][a]]
  <2>1. num[f][a] \in AttemptNo /\ rows[a][num[f][a]].status # "ABSENT"
    BY <1>4 DEF HoldInv, Holds, Held, RowOf, Open
  <2>2. num[f][a] # last[a] + 1
    BY <1>2, <1>3, <2>1
  <2>3. p.kind \in {"resume", "expired"} => num[f][a] # p.open
    BY <1>1, <1>4 DEF Owns
  <2> QED
    BY <2>1, <2>2, <2>3 DEF Prepared
<1>5. ASSUME NEW n \in AttemptNo, n > last[a],
             n # last[a] + 1 \/ p.kind \notin {"resume", "create", "fail"}
      PROVE  Prepared(a, p)[n].status = "ABSENT"
  <2>1. p.kind \in {"resume", "expired"} => n # p.open
    BY <1>1, <1>2, <1>5
  <2>2. Prepared(a, p)[n] = rows[a][n]
    BY <1>5, <2>1 DEF Prepared
  <2> QED
    BY <1>3, <1>5, <2>2
<1> QED
  BY <1>4, <1>5 DEF p

LEMMA HoldUncertain ==
  ASSUME TypeOK, HoldInv, NEW e \in Executors, PrepareUncertain(e)
  PROVE  HoldInv'
<1>1. /\ pc[e] = "read" /\ Idle(e) /\ last' = last
      /\ rows' = [a \in Accounts |->
                    IF a \in Planned(e, {"expired"}) THEN Prepared(a, plan[e][a]) ELSE rows[a]]
  BY DEF PrepareUncertain, CanCommit
<1>2. \A f \in Executors, a \in Accounts :
        a \in todo[f] => rows'[a][num[f][a]] = rows[a][num[f][a]]
  BY <1>1, HoldPrepared
<1>3. ASSUME NEW a \in Accounts, NEW n \in AttemptNo, n > last[a]
      PROVE  rows'[a][n].status = "ABSENT"
  <2>1. CASE a \in Planned(e, {"expired"})
    <3>1. plan[e][a].kind = "expired"
      BY <2>1 DEF Planned
    <3> QED
      BY <1>1, <1>3, <2>1, <3>1, HoldPrepared
  <2>2. CASE a \notin Planned(e, {"expired"})
    BY <1>1, <1>3, <2>2 DEF HoldInv, Vacant
  <2> QED
    BY <2>1, <2>2
<1>4. Vacant'
  BY <1>1, <1>3 DEF Vacant
<1>5. \A f \in Executors : todo[f] \subseteq Accounts
  BY DEF TypeOK
<1> QED
  BY <1>1, <1>2, <1>4, <1>5, HoldIdle, HoldStep

(* Even on stale reads the indexes keep two executors apart: the row of one would
   be a second active row beside that of the other. *)
LEMMA HoldCommit ==
  ASSUME TypeOK, HoldInv, NEW e \in Executors, PrepareCommit(e)
  PROVE  HoldInv'
<1> DEFINE added == Planned(e, {"resume", "create", "fail"})
           taken == Planned(e, {"resume", "create"})
<1>1. /\ pc[e] = "read" /\ todo[e] = {}
      /\ \A a \in added : last[a] < MaxAttempts
      /\ rows' = [a \in Accounts |-> Prepared(a, plan[e][a])]
      /\ \A a \in Accounts : IndexesHold(rows'[a])
      /\ last' = [a \in Accounts |-> IF a \in added THEN last[a] + 1 ELSE last[a]]
      /\ pc'[e] = "ticket" /\ todo'[e] = taken
      /\ num'[e] = [a \in Accounts |-> IF a \in added THEN last[a] + 1 ELSE 0]
      /\ \A f \in Executors \ {e} : SameLocal(f) /\ plan'[f] = plan[f]
  BY DEF PrepareCommit, CanCommit, TypeOK, SameLocal, HoldInv, Holds
<1>2. /\ taken \subseteq added /\ added \subseteq Accounts
      /\ \A a \in Accounts : a \in added <=> plan[e][a].kind \in {"resume", "create", "fail"}
      /\ \A a \in taken : plan[e][a].kind \in {"resume", "create"}
  BY DEF Planned
<1> HIDE DEF added, taken
<1>3. \A a \in Accounts : last[a] \in Nat /\ last'[a] \in Nat /\ last[a] <= last'[a]
  <2>1. \A a \in Accounts : last[a] \in Nat
    BY DEF TypeOK, Container
  <2>2. \A a \in Accounts : last'[a] = last[a] \/ last'[a] = last[a] + 1
    BY <1>1
  <2> QED
    BY <2>1, <2>2
<1>4. \A f \in Executors, a \in Accounts :
        a \in todo[f] => rows'[a][num[f][a]] = rows[a][num[f][a]]
  BY <1>1, HoldPrepared
<1>5. \A a \in taken : /\ last[a] + 1 \in AttemptNo
                       /\ rows'[a][last[a] + 1].status = "PROCESSING"
                       /\ rows'[a][last[a] + 1].lease = "live"
  <2> SUFFICES ASSUME NEW a \in taken
               PROVE  /\ last[a] + 1 \in AttemptNo
                      /\ rows'[a][last[a] + 1].status = "PROCESSING"
                      /\ rows'[a][last[a] + 1].lease = "live"
    OBVIOUS
  <2>1. last[a] + 1 \in AttemptNo
    BY <1>1, <1>2, <1>3, ConstantsAssumption DEF AttemptNo
  <2>2. rows'[a][last[a] + 1] = NewRow(plan[e][a])
    BY <1>1, <1>2, <2>1 DEF Prepared
  <2>3. NewRow(plan[e][a]).status = "PROCESSING" /\ NewRow(plan[e][a]).lease = "live"
    BY <1>2 DEF NewRow
  <2> QED
    BY <2>1, <2>2, <2>3
<1>6. Holds(e)'
  <2>1. ASSUME NEW a \in taken PROVE Held(e, a)'
    <3>1. num'[e][a] = last[a] + 1
      BY <1>1, <1>2
    <3> QED
      BY <1>5, <3>1 DEF Held, RowOf, Open
  <2> QED
    BY <1>1, <2>1 DEF Holds, Reads, Calling
<1>7. NoOverlap'
  <2>1. ASSUME NEW f \in Executors \ {e}, NEW a \in taken, a \in todo[f] PROVE FALSE
    <3>1. /\ num[f][a] \in AttemptNo /\ rows[a][num[f][a]].status \in Open
      BY <2>1 DEF HoldInv, Holds, Held, RowOf
    <3>2. num[f][a] # last[a] + 1
      <4>1. num[f][a] \in Nat /\ last[a] \in Nat
        BY <1>2, <1>3, <3>1 DEF AttemptNo
      <4>2. ~(num[f][a] > last[a])
        BY <1>2, <3>1 DEF HoldInv, Vacant, Open
      <4> QED
        BY <4>1, <4>2
    <3>3. rows'[a][num[f][a]].status \in Active /\ rows'[a][last[a] + 1].status \in Active
      BY <1>2, <1>4, <1>5, <2>1, <3>1 DEF Active, Open
    <3>4. last[a] + 1 \in AttemptNo /\ a \in Accounts
      BY <1>2, <1>5
    <3> QED
      BY <1>1, <3>1, <3>2, <3>3, <3>4 DEF IndexesHold
  <2>2. \A f \in Executors \ {e} : todo'[f] = todo[f]
    BY <1>1 DEF SameLocal
  <2> QED
    BY <1>1, <2>1, <2>2 DEF HoldInv, NoOverlap
<1>8. ASSUME NEW f \in Executors \ {e} PROVE Holds(f)'
  <2>1. ASSUME NEW g \in Executors, NEW a \in Accounts, NEW n \in AttemptNo, Owns(g, a, n)'
        PROVE  Owns(g, a, n) \/ n > last[a]
    <3>1. CASE g = e
      <4>1. a \in taken /\ n = last[a] + 1
        BY <1>1, <1>2, <2>1, <3>1 DEF Owns
      <4> QED
        BY <1>3, <4>1
    <3>2. CASE g # e
      BY <1>1, <2>1, <3>2 DEF Owns, SameLocal
    <3> QED
      BY <3>1, <3>2
  <2>2. \A a \in todo[f] : rows'[a][num[f][a]] = rows[a][num[f][a]]
    BY <1>4 DEF TypeOK
  <2> QED
    BY <1>1, <1>3, <2>1, <2>2, HoldKept
<1>9. ASSUME NEW a \in Accounts, NEW n \in AttemptNo, n > last'[a]
      PROVE  rows'[a][n].status = "ABSENT"
  <2>1. n \in Nat /\ n > last[a]
    BY <1>3, <1>9 DEF AttemptNo
  <2>2. CASE a \in added
    <3>1. n # last[a] + 1
      BY <1>1, <1>3, <1>9, <2>2
    <3> QED
      BY <1>1, <2>1, <3>1, HoldPrepared
  <2>3. CASE a \notin added
    BY <1>1, <1>2, <2>1, <2>3, HoldPrepared
  <2> QED
    BY <2>2, <2>3
<1>10. Vacant'
  BY <1>9 DEF Vacant
<1> QED
  BY <1>6, <1>7, <1>8, <1>10 DEF HoldInv


(* A write of an executor to one of the rows it holds leaves those of the others
   alone, and no free slot is used. *)
LEMMA HoldWrite ==
  ASSUME TypeOK, HoldInv, NEW e \in Executors, NEW a \in todo[e], NEW row,
         Write(a, num[e][a], row)
  PROVE  /\ rows'[a][num[e][a]] = row /\ last' = last /\ Vacant'
         /\ \A b \in todo[e] \ {a} : rows'[b][num[e][b]] = rows[b][num[e][b]]
         /\ \A f \in Executors \ {e}, b \in Accounts :
              b \in todo[f] => rows'[b][num[f][b]] = rows[b][num[f][b]]
<1>1. /\ a \in Accounts /\ num[e][a] \in AttemptNo
      /\ rows[a][num[e][a]].status # "ABSENT"
  BY DEF TypeOK, HoldInv, Holds, Held, RowOf, Open
<1>2. /\ rows'[a] = [rows[a] EXCEPT ![num[e][a]] = row] /\ last' = last
      /\ \A b \in Accounts \ {a} : rows'[b] = rows[b]
  BY <1>1 DEF Write, TypeOK
<1>3. /\ rows'[a][num[e][a]] = row
      /\ \A m \in AttemptNo \ {num[e][a]} : rows'[a][m] = rows[a][m]
  BY <1>1, <1>2 DEF TypeOK
<1>4. ASSUME NEW b \in Accounts, NEW m \in AttemptNo, m > last[b]
      PROVE  rows'[b][m].status = "ABSENT"
  <2>1. rows[b][m].status = "ABSENT"
    BY <1>4 DEF HoldInv, Vacant
  <2> QED
    BY <1>1, <1>2, <1>3, <2>1
<1>5. todo[e] \subseteq Accounts /\ \A f \in Executors \ {e} : a \notin todo[f]
  BY HeldApart DEF TypeOK
<1> QED
  BY <1>2, <1>3, <1>4, <1>5 DEF Vacant

(* A write to a row that nobody holds. *)
LEMMA HoldFree ==
  ASSUME TypeOK, HoldInv, UNCHANGED local, last' = last,
         NEW a \in Accounts, NEW n \in AttemptNo,
         \A b \in Accounts, m \in AttemptNo : b # a \/ m # n => rows'[b][m] = rows[b][m],
         rows[a][n].status = "ABSENT" => rows'[a][n].status = "ABSENT",
         \A e \in Executors : ~Owns(e, a, n)
  PROVE  HoldInv'
<1>1. NoOverlap'
  BY OverlapKept DEF HoldInv, local
<1>2. Vacant'
  BY DEF HoldInv, Vacant
<1>3. ASSUME NEW f \in Executors PROVE Holds(f)'
  <2>1. SameLocal(f) /\ plan'[f] = plan[f]
    BY DEF local, SameLocal
  <2>2. ASSUME NEW b \in todo[f] PROVE rows'[b][num[f][b]] = rows[b][num[f][b]]
    <3>1. b \in Accounts /\ num[f][b] \in AttemptNo
      BY DEF TypeOK, HoldInv, Holds, Held
    <3>2. b # a \/ num[f][b] # n
      BY DEF Owns
    <3> QED
      BY <3>1, <3>2
  <2>3. \A b \in Accounts : last'[b] \in Nat /\ last[b] <= last'[b]
    <3>1. \A b \in Accounts : last[b] \in Nat
      BY DEF TypeOK, Container
    <3> QED
      BY <3>1
  <2>4. \A g \in Executors, b \in Accounts, m \in AttemptNo : Owns(g, b, m)' => Owns(g, b, m)
    BY DEF Owns, local
  <2> QED
    BY <2>1, <2>2, <2>3, <2>4, HoldKept
<1> QED
  BY <1>1, <1>2, <1>3 DEF HoldInv

(* An executor ends, or crashes, with the rows as they are. *)
LEMMA HoldEnds ==
  ASSUME TypeOK, HoldInv, NEW e \in Executors, Idle(e), UNCHANGED <<rows, last>>
  PROVE  HoldInv'
<1>1. Vacant'
  BY DEF HoldInv, Vacant
<1> QED
  BY <1>1, HoldIdle, HoldStep

(* Without a ticket, an executor closes the rows it holds. *)
LEMMA HoldTicketFails ==
  ASSUME TypeOK, HoldInv, NEW e \in Executors, TicketFails(e)
  PROVE  HoldInv'
<1>1. Idle(e) /\ last' = last
  BY DEF TicketFails
<1>2. CASE rows' = rows
  BY <1>1, <1>2, HoldEnds
<1>3. CASE rows' = [a \in Accounts |-> [n \in AttemptNo |->
                      IF Owns(e, a, n) THEN Closed("FAILED", rows[a][n])
                      ELSE rows[a][n]]]
  <2>1. \A a \in Accounts, n \in AttemptNo : ~Owns(e, a, n) => rows'[a][n] = rows[a][n]
    BY <1>3
  <2>2. ASSUME NEW a \in Accounts, NEW n \in AttemptNo, Owns(e, a, n)
        PROVE  rows[a][n].status # "ABSENT"
    BY <2>2 DEF Owns, HoldInv, Holds, Held, RowOf, Open
  <2>3. Vacant'
    BY <1>1, <2>1, <2>2 DEF HoldInv, Vacant
  <2>4. ASSUME NEW f \in Executors \ {e}, NEW a \in todo[f]
        PROVE  rows'[a][num[f][a]] = rows[a][num[f][a]]
    <3>1. a \in Accounts /\ num[f][a] \in AttemptNo /\ a \notin todo[e]
      BY HeldApart DEF TypeOK, HoldInv, Holds, Held
    <3> QED
      BY <2>1, <3>1 DEF Owns
  <2> QED
    BY <1>1, <2>3, <2>4, HoldIdle, HoldStep
<1> QED
  BY <1>2, <1>3 DEF TicketFails

(* An executor goes on to another stage with the same targets. *)
LEMMA HoldStage ==
  ASSUME TypeOK, HoldInv, NEW e \in Executors,
         UNCHANGED <<rows, last, plan, todo, num>>,
         \A f \in Executors \ {e} : SameLocal(f),
         pc'[e] \notin {"idle", "read"}, pc'[e] \in Calling => at'[e] \in todo[e]
  PROVE  HoldInv'
<1>1. \A a \in todo[e] : Held(e, a)'
  BY DEF HoldInv, Holds, Held, RowOf
<1>2. Holds(e)'
  BY <1>1 DEF Holds, Reads
<1>3. Vacant'
  BY DEF HoldInv, Vacant
<1> QED
  BY <1>2, <1>3, HoldStep

LEMMA HoldAnswered ==
  ASSUME TypeOK, HoldInv, NEW e \in Executors, NEW a \in todo[e], NEW r,
         Answered(e, a, r), UNCHANGED <<rows, last, plan, todo, num>>
  PROVE  HoldInv'
<1>1. /\ pc'[e] = "replied" /\ at'[e] = a
      /\ \A f \in Executors \ {e} : SameLocal(f)
  BY DEF Answered, TypeOK, SameLocal
<1> QED
  BY <1>1, HoldStage

LEMMA HoldCreated ==
  ASSUME TypeOK, HoldInv, NEW e \in Executors, OnContainerCreated(e)
  PROVE  HoldInv'
<1> DEFINE new == [status |-> "CONTAINER_CREATED", container |-> num[e][at[e]],
                   lease |-> "live"]
<1>1. pc[e] = "created" /\ at[e] \in todo[e] /\ UNCHANGED <<plan, todo, num>>
  BY DEF OnContainerCreated, HoldInv, Holds, Calling
<1>2. CASE UNCHANGED <<rows, last>> /\ \E r \in {"timeout", "failed"} : Answered(e, at[e], r)
  BY <1>1, <1>2, HoldAnswered
<1>3. CASE Write(at[e], num[e][at[e]], new) /\ pc' = [pc EXCEPT ![e] = "poll"]
           /\ UNCHANGED <<at, reply>>
  <2>1. new.status \in Open /\ new.lease = "live"
    BY DEF Open
  <2> HIDE DEF new
  <2>2. /\ rows'[at[e]][num[e][at[e]]] = new /\ last' = last /\ Vacant'
        /\ \A b \in todo[e] \ {at[e]} : rows'[b][num[e][b]] = rows[b][num[e][b]]
        /\ \A f \in Executors \ {e}, b \in Accounts :
             b \in todo[f] => rows'[b][num[f][b]] = rows[b][num[f][b]]
    BY <1>1, <1>3, HoldWrite
  <2>3. /\ pc'[e] = "poll" /\ todo' = todo /\ num' = num /\ at' = at
        /\ \A f \in Executors \ {e} : SameLocal(f)
    BY <1>1, <1>3 DEF TypeOK, SameLocal
  <2>4. ASSUME NEW a \in todo[e] PROVE Held(e, a)'
    <3>1. Held(e, a)
      BY DEF HoldInv, Holds
    <3> QED
      BY <2>1, <2>2, <2>3, <3>1 DEF Held, RowOf
  <2>5. Holds(e)'
    BY <1>1, <2>3, <2>4 DEF Holds, Reads
  <2>6. \A f \in Executors : todo[f] \subseteq Accounts
    BY DEF TypeOK
  <2> QED
    BY <1>1, <2>2, <2>3, <2>5, <2>6, HoldStep
<1> QED
  BY <1>2, <1>3 DEF OnContainerCreated

(* A target is done, and the rows of the others are as they were. *)
LEMMA HoldDone ==
  ASSUME TypeOK, HoldInv, NEW e \in Executors, TargetDone(e), last' = last, Vacant',
         \A b \in todo[e] \ {at[e]} : rows'[b][num[e][b]] = rows[b][num[e][b]],
         \A f \in Executors \ {e}, b \in Accounts :
           b \in todo[f] => rows'[b][num[f][b]] = rows[b][num[f][b]]
  PROVE  HoldInv'
<1>1. /\ pc'[e] = "run" /\ todo'[e] = todo[e] \ {at[e]} /\ UNCHANGED <<plan, num>>
      /\ \A f \in Executors \ {e} : SameLocal(f)
  BY DEF TargetDone, TypeOK, SameLocal
<1>2. ASSUME NEW a \in todo'[e] PROVE Held(e, a)'
  <2>1. Held(e, a) /\ rows'[a][num[e][a]] = rows[a][num[e][a]]
    BY <1>1 DEF HoldInv, Holds
  <2> QED
    BY <1>1, <2>1 DEF Held, RowOf
<1>3. Holds(e)'
  BY <1>1, <1>2 DEF Holds, Reads, Calling
<1>4. \A f \in Executors : todo[f] \subseteq Accounts
  BY DEF TypeOK
<1> QED
  BY <1>1, <1>3, <1>4, HoldStep

LEMMA HoldPersist ==
  ASSUME TypeOK, HoldInv, NEW e \in Executors, NEW replies, NEW status,
         Persist(e, replies, status)
  PROVE  HoldInv'
<1>1. /\ at[e] \in todo[e] /\ TargetDone(e)
      /\ \E row : Write(at[e], num[e][at[e]], row)
  BY DEF Persist, HoldInv, Holds, Calling
<1> QED
  BY <1>1, HoldWrite, HoldDone

LEMMA HoldPersistNothing ==
  ASSUME TypeOK, HoldInv, NEW e \in Executors, PersistNothing(e)
  PROVE  HoldInv'
<1>1. TargetDone(e) /\ UNCHANGED <<rows, last>> /\ Vacant'
  BY DEF PersistNothing, HoldInv, Vacant
<1> QED
  BY <1>1, HoldDone

LEMMA HoldExecute ==
  ASSUME TypeOK, HoldInv, NEW e \in Executors, Execute(e)
  PROVE  HoldInv'
<1>1. CASE TicketIssued(e)
  <2>1. /\ UNCHANGED <<rows, last, plan, todo, num>> /\ pc'[e] = "run"
        /\ \A f \in Executors \ {e} : SameLocal(f)
    BY <1>1 DEF TicketIssued, TypeOK, SameLocal
  <2> QED
    BY <2>1, HoldStage DEF Calling
<1>2. ASSUME NEW a \in Accounts, FacebookPost(e, a) PROVE HoldInv'
  <2>1. /\ a \in todo[e] /\ UNCHANGED <<rows, last, plan, todo, num>>
        /\ \E r : Answered(e, a, r)
    BY <1>2 DEF FacebookPost
  <2> QED
    BY <2>1, HoldAnswered
<1>3. ASSUME NEW a \in Accounts, CheckContainer(e, a) PROVE HoldInv'
  <2>1. /\ a \in todo[e] /\ UNCHANGED <<rows, last, plan, todo, num>>
        /\ pc'[e] \in {"poll", "create"} /\ at'[e] = a
        /\ \A f \in Executors \ {e} : SameLocal(f)
    BY <1>3 DEF CheckContainer, TypeOK, SameLocal
  <2> QED
    BY <2>1, HoldStage
<1>4. ASSUME NEW a \in Accounts, CreateContainer(e, a) PROVE HoldInv'
  <2>1. a \in todo[e] /\ UNCHANGED <<rows, last, plan, todo, num>>
    BY <1>4 DEF CreateContainer, HoldInv, Holds, Calling
  <2>2. CASE \E r : Answered(e, a, r)
    BY <2>1, <2>2, HoldAnswered
  <2>3. CASE pc' = [pc EXCEPT ![e] = "created"] /\ at' = [at EXCEPT ![e] = a]
             /\ reply' = reply
    <3>1. /\ pc'[e] = "created" /\ at'[e] = a
          /\ \A f \in Executors \ {e} : SameLocal(f)
      BY <2>1, <2>3 DEF TypeOK, SameLocal
    <3> QED
      BY <2>1, <3>1, HoldStage
  <2> QED
    BY <1>4, <2>2, <2>3 DEF CreateContainer
<1>5. ASSUME PublishContainer(e) PROVE HoldInv'
  <2>1. /\ at[e] \in todo[e] /\ UNCHANGED <<rows, last, plan, todo, num>>
        /\ \E r : Answered(e, at[e], r)
    BY <1>5 DEF PublishContainer, HoldInv, Holds, Calling
  <2> QED
    BY <2>1, HoldAnswered
<1>6. ASSUME PersistPublished(e) \/ PersistUncertain(e) \/ PersistFailed(e) PROVE HoldInv'
  BY <1>6, HoldPersist DEF PersistPublished, PersistUncertain, PersistFailed
<1>7. ASSUME ExecAbort(e) \/ Finish(e) \/ Crash(e) PROVE HoldInv'
  <2>1. Idle(e) /\ UNCHANGED <<rows, last>>
    BY <1>7 DEF ExecAbort, Finish, Crash
  <2> QED
    BY <2>1, HoldEnds
<1> QED
  BY <1>1, <1>2, <1>3, <1>4, <1>5, <1>6, <1>7, HoldTicketFails, HoldCreated,
     HoldPersistNothing DEF Execute

(* The clock ends leases of rows that nobody holds, and administrators decide only
   those whose lease has ended. *)
LEMMA HoldEnvironment ==
  ASSUME TypeOK, HoldInv, "slowExecutor" \notin Faults, Environment
  PROVE  HoldInv'
<1>1. ASSUME NEW a \in Accounts, NEW n \in AttemptNo, LeaseExpires(a, n) PROVE HoldInv'
  <2>1. /\ rows' = [rows EXCEPT ![a] = [rows[a] EXCEPT ![n].lease = "expired"]]
        /\ UNCHANGED local /\ last' = last /\ \A e \in Executors : ~Owns(e, a, n)
    BY <1>1 DEF LeaseExpires, local
  <2>2. /\ \A b \in Accounts, m \in AttemptNo :
             b # a \/ m # n => rows'[b][m] = rows[b][m]
        /\ rows'[a][n].status = rows[a][n].status
    BY <2>1, RowType DEF TypeOK, Row
  <2> QED
    BY <2>1, <2>2, HoldFree
<1>2. ASSUME NEW a \in Accounts, NEW n \in AttemptNo,
             ConfirmPublished(a, n) \/ ConfirmFailed(a, n) \/ Dismiss(a, n)
      PROVE  HoldInv'
  <2>1. Resolvable(a, n) /\ UNCHANGED local /\ \E row : Write(a, n, row)
    BY <1>2 DEF ConfirmPublished, ConfirmFailed, Dismiss, local
  <2>2. rows[a][n].status # "ABSENT" /\ \A e \in Executors : ~Owns(e, a, n)
    BY <2>1 DEF Resolvable, Status, Active, Open, Owns, HoldInv, Holds, Held, RowOf
  <2>3. /\ last' = last
        /\ \A b \in Accounts, m \in AttemptNo : b # a \/ m # n => rows'[b][m] = rows[b][m]
    BY <2>1 DEF Write, TypeOK
  <2> QED
    BY <2>1, <2>2, <2>3, HoldFree
<1>3. ASSUME UNCHANGED <<rows, last, local>> PROVE HoldInv'
  BY <1>3 DEF HoldInv, NoOverlap, Vacant, Holds, Held, RowOf, Reads, Owns, local
<1>4. ASSUME \/ \E a \in Accounts, value \in BOOLEAN : SetConnected(a, value)
             \/ \E k \in Keys : KeyExpires(k)
      PROVE  HoldInv'
  BY <1>3, <1>4 DEF SetConnected, KeyExpires
<1> QED
  BY <1>1, <1>2, <1>4 DEF Environment

LEMMA HoldInductive ==
  ASSUME "slowExecutor" \notin Faults
  PROVE  Spec => []HoldInv
<1>1. Init => HoldInv
  BY DEF Init, HoldInv, NoOverlap, Vacant, Absent, Holds, Reads, Calling
<1>2. TypeOK /\ HoldInv /\ [Next]_vars => HoldInv'
  <2> SUFFICES ASSUME TypeOK, HoldInv, [Next]_vars PROVE HoldInv'
    OBVIOUS
  <2>1. ASSUME UNCHANGED vars PROVE HoldInv'
    BY <2>1 DEF vars, HoldInv, NoOverlap, Vacant, Holds, Held, RowOf, Reads, Owns
  <2>2. ASSUME NEW e \in Executors, Prepare(e) PROVE HoldInv'
    <3>1. ASSUME PrepareAbort(e) PROVE HoldInv'
      BY <3>1, HoldEnds DEF PrepareAbort
    <3> QED
      BY <2>2, <3>1, HoldRead, HoldUncertain, HoldCommit DEF Prepare
  <2> QED
    BY <2>1, <2>2, HoldExecute, HoldEnvironment DEF Next
<1> QED
  BY <1>1, <1>2, TypeCorrect, PTL DEF Spec

(* As long as every executor ends before its lease, no two executors ever work on
   one account: a preparation that commits on stale reads, a post that an answer
   hides and a media ticket that is refused cannot bring them together. *)
THEOREM TargetsExclusive ==
  ASSUME "slowExecutor" \notin Faults
  PROVE  Spec => []NoOverlap
<1>1. HoldInv => NoOverlap
  BY DEF HoldInv
<1>2. Spec => []HoldInv
  BY HoldInductive
<1> QED
  BY <1>1, <1>2, PTL

-----------------------------------------------------------------------------
(* What is PUBLISHED stays *)

(* Only an open row carries a lease that can end. *)
OnlyOpenLeased ==
  \A a \in Accounts, n \in AttemptNo :
    rows[a][n].status \notin Open => rows[a][n].lease = "none"

(* A write to no row of the table changes nothing. *)
LEMMA OutsideWrite ==
  ASSUME TypeOK, NEW a, NEW n, NEW row, Write(a, n, row),
         ~(a \in Accounts /\ n \in AttemptNo)
  PROVE  rows' = rows
<1>1. CASE a \notin Accounts
  BY <1>1 DEF Write, TypeOK
<1>2. CASE a \in Accounts /\ n \notin AttemptNo
  <2>1. [rows[a] EXCEPT ![n] = row] = rows[a]
    BY <1>2 DEF TypeOK
  <2> QED
    BY <1>2, <2>1 DEF Write, TypeOK
<1> QED
  BY <1>1, <1>2

(* A written row keeps to it, whichever write it is. *)
LEMMA WriteLeased ==
  ASSUME TypeOK, OnlyOpenLeased, NEW a, NEW n, NEW row, Write(a, n, row),
         a \in Accounts /\ n \in AttemptNo =>
           (row.status \notin Open => row.lease = "none")
  PROVE  OnlyOpenLeased'
<1>1. CASE a \in Accounts /\ n \in AttemptNo
  BY <1>1 DEF Write, TypeOK, OnlyOpenLeased
<1>2. CASE ~(a \in Accounts /\ n \in AttemptNo)
  BY <1>2, OutsideWrite DEF OnlyOpenLeased
<1> QED
  BY <1>1, <1>2

(* A closed row carries none. *)
LEMMA ClosedLeased ==
  ASSUME TypeOK, OnlyOpenLeased, NEW a, NEW n, NEW s, Write(a, n, Closed(s, rows[a][n]))
  PROVE  OnlyOpenLeased'
<1>1. a \in Accounts /\ n \in AttemptNo => Closed(s, rows[a][n]).lease = "none"
  BY DEF TypeOK, Closed, Row
<1> QED
  BY <1>1, WriteLeased

(* The rows of a prepare transaction keep to it. *)
LEMMA PreparedLeased ==
  ASSUME TypeOK, OnlyOpenLeased, NEW a \in Accounts, NEW p, NEW n \in AttemptNo
  PROVE  Prepared(a, p)[n].status \notin Open => Prepared(a, p)[n].lease = "none"
<1>1. /\ Closed("FAILED", rows[a][n]).lease = "none"
      /\ Closed("UNCERTAIN", rows[a][n]).lease = "none"
  BY RowType, ClosedType DEF Status, Active
<1>2. NewRow(p).status \notin Open => NewRow(p).lease = "none"
  BY DEF NewRow, Open
<1> QED
  BY <1>1, <1>2 DEF Prepared, OnlyOpenLeased

(* In every state only an open row carries a lease, with whatever faults. *)
THEOREM OpenLeased == Spec => []OnlyOpenLeased
<1>1. Init => OnlyOpenLeased
  BY DEF Init, OnlyOpenLeased, Absent
<1>2. TypeOK /\ OnlyOpenLeased /\ [Next]_vars => OnlyOpenLeased'
  <2> SUFFICES ASSUME TypeOK, OnlyOpenLeased, [Next]_vars PROVE OnlyOpenLeased'
    OBVIOUS
  <2>1. CASE UNCHANGED rows
    BY <2>1 DEF OnlyOpenLeased
  <2>2. ASSUME NEW e \in Executors, Prepare(e) PROVE OnlyOpenLeased'
    <3>1. CASE PrepareCommit(e) \/ PrepareUncertain(e)
      <4>1. \A a \in Accounts : rows'[a] = rows[a] \/ rows'[a] = Prepared(a, plan[e][a])
        BY <3>1 DEF PrepareCommit, PrepareUncertain
      <4> QED
        BY <4>1, PreparedLeased DEF OnlyOpenLeased
    <3>2. CASE PrepareAbort(e)
           \/ \E targets \in SUBSET Accounts, k \in Keys \cup {"none"} :
                PrepareRead(e, targets, k)
      BY <2>1, <3>2 DEF PrepareAbort, PrepareRead
    <3> QED
      BY <2>2, <3>1, <3>2 DEF Prepare
  <2>3. ASSUME NEW e \in Executors, Execute(e) PROVE OnlyOpenLeased'
    <3>1. CASE TicketFails(e)
      <4>1. \A a \in Accounts, n \in AttemptNo : Closed("FAILED", rows[a][n]).lease = "none"
        BY RowType, ClosedType DEF Status
      <4> QED
        BY <3>1, <4>1 DEF TicketFails, OnlyOpenLeased
    <3>2. CASE OnContainerCreated(e)
      BY <2>1, <3>2, WriteLeased DEF OnContainerCreated, Open
    <3>3. CASE PersistPublished(e) \/ PersistUncertain(e) \/ PersistFailed(e)
      <4>1. \E s : Write(at[e], num[e][at[e]], Closed(s, rows[at[e]][num[e][at[e]]]))
        BY <3>3 DEF PersistPublished, PersistUncertain, PersistFailed, Persist, RowOf
      <4> QED
        BY <4>1, ClosedLeased
    <3>4. CASE \/ TicketIssued(e) \/ PersistNothing(e) \/ ExecAbort(e)
               \/ Finish(e) \/ Crash(e) \/ PublishContainer(e)
               \/ \E a \in Accounts :
                    FacebookPost(e, a) \/ CheckContainer(e, a) \/ CreateContainer(e, a)
      BY <2>1, <3>4 DEF TicketIssued, PersistNothing, ExecAbort, Finish, Crash,
                        PublishContainer, FacebookPost, CheckContainer, CreateContainer
    <3> QED
      BY <2>3, <3>1, <3>2, <3>3, <3>4 DEF Execute
  <2>4. ASSUME Environment PROVE OnlyOpenLeased'
    <3>1. ASSUME NEW a \in Accounts, NEW n \in AttemptNo,
                 ConfirmPublished(a, n) \/ ConfirmFailed(a, n) \/ Dismiss(a, n)
          PROVE  OnlyOpenLeased'
      <4>1. \E s : Write(a, n, Closed(s, rows[a][n]))
        BY <3>1 DEF ConfirmPublished, ConfirmFailed, Dismiss
      <4> QED
        BY <4>1, ClosedLeased
    <3>2. ASSUME NEW a \in Accounts, NEW n \in AttemptNo, LeaseExpires(a, n)
          PROVE  OnlyOpenLeased'
      <4>1. rows[a][n].lease = "live" /\ rows[a][n].status \in Open
        BY <3>2 DEF LeaseExpires, OnlyOpenLeased
      <4>2. rows' = [rows EXCEPT ![a] = [rows[a] EXCEPT ![n].lease = "expired"]]
        BY <3>2 DEF LeaseExpires
      <4>3. rows'[a][n].status = rows[a][n].status
            /\ \A b \in Accounts, m \in AttemptNo :
                 b # a \/ m # n => rows'[b][m] = rows[b][m]
        BY <4>2, RowType DEF TypeOK, Row
      <4> QED
        BY <4>1, <4>3 DEF OnlyOpenLeased
    <3>3. CASE \/ \E a \in Accounts, value \in BOOLEAN : SetConnected(a, value)
               \/ \E k \in Keys : KeyExpires(k)
      BY <2>1, <3>3 DEF SetConnected, KeyExpires
    <3> QED
      BY <2>4, <3>1, <3>2, <3>3 DEF Environment
  <2> QED
    BY <2>1, <2>2, <2>3, <2>4 DEF Next, vars
<1> QED
  BY <1>1, <1>2, TypeCorrect, PTL DEF Spec

Kept == \A a \in Accounts, n \in AttemptNo :
          rows[a][n].status = "PUBLISHED" => rows'[a][n] = rows[a][n]

(* The write of a row that is not PUBLISHED. *)
LEMMA WriteKept ==
  ASSUME TypeOK, NEW a \in Accounts, NEW n \in AttemptNo, NEW row, Write(a, n, row),
         rows[a][n].status # "PUBLISHED"
  PROVE  Kept
BY DEF Write, TypeOK, Kept

(* As long as executors end before their leases and preparations commit on what
   they read, a row that became PUBLISHED is never written again, although every
   write of an executor names its row by id alone; lost answers and tickets do not
   matter. *)
THEOREM PublishedStays ==
  ASSUME {"slowExecutor", "stalePrep"} \cap Faults = {}
  PROVE  Spec => PublishedIsFinal
<1>1. TypeOK /\ HoldInv /\ OnlyOpenLeased /\ [Next]_vars => [Kept]_vars
  <2> SUFFICES ASSUME TypeOK, HoldInv, OnlyOpenLeased, [Next]_vars PROVE [Kept]_vars
    OBVIOUS
  <2>1. ASSUME UNCHANGED rows PROVE Kept
    BY <2>1 DEF Kept
  <2>2. ASSUME NEW e \in Executors, at[e] \in todo[e], NEW row,
               Write(at[e], num[e][at[e]], row)
        PROVE  Kept
    <3>1. at[e] \in Accounts /\ Held(e, at[e])
      BY <2>2 DEF TypeOK, HoldInv, Holds
    <3>2. num[e][at[e]] \in AttemptNo /\ rows[at[e]][num[e][at[e]]].status # "PUBLISHED"
      BY <3>1 DEF Held, RowOf, Open
    <3> QED
      BY <2>2, <3>1, <3>2, WriteKept
  <2>3. ASSUME NEW e \in Executors, Prepare(e) PROVE Kept
    <3>1. CASE PrepareCommit(e) \/ PrepareUncertain(e)
      <4>1. ReadsValid(e)
        BY <3>1 DEF PrepareCommit, PrepareUncertain, CanCommit
      <4>2. ASSUME NEW a \in Accounts, NEW n \in AttemptNo, rows[a][n].status = "PUBLISHED"
            PROVE  Prepared(a, plan[e][a])[n] = rows[a][n]
        <5>1. With({"PUBLISHED"}, a) # {}
          BY <4>2 DEF With
        <5>2. PlanFor(a).kind = "skip"
          BY <5>1 DEF PlanFor, PlanKind
        <5>3. plan[e][a].kind \in {"none", "skip"}
          BY <4>1, <5>2 DEF ReadsValid
        <5> QED
          BY <5>3 DEF Prepared
      <4>3. \A a \in Accounts : rows'[a] = rows[a] \/ rows'[a] = Prepared(a, plan[e][a])
        BY <3>1 DEF PrepareCommit, PrepareUncertain
      <4> QED
        BY <4>2, <4>3 DEF Kept
    <3>2. CASE PrepareAbort(e)
           \/ \E targets \in SUBSET Accounts, k \in Keys \cup {"none"} :
                PrepareRead(e, targets, k)
      BY <2>1, <3>2 DEF PrepareAbort, PrepareRead
    <3> QED
      BY <2>3, <3>1, <3>2 DEF Prepare
  <2>4. ASSUME NEW e \in Executors, Execute(e) PROVE Kept
    <3>1. CASE TicketFails(e)
      <4>1. ASSUME NEW a \in Accounts, NEW n \in AttemptNo, Owns(e, a, n)
            PROVE  rows[a][n].status # "PUBLISHED"
        BY <4>1 DEF Owns, HoldInv, Holds, Held, RowOf, Open
      <4> QED
        BY <3>1, <4>1 DEF TicketFails, Kept
    <3>2. CASE OnContainerCreated(e)
      <4>1. at[e] \in todo[e]
        BY <3>2 DEF OnContainerCreated, HoldInv, Holds, Calling
      <4> QED
        BY <2>1, <2>2, <3>2, <4>1 DEF OnContainerCreated
    <3>3. CASE PersistPublished(e) \/ PersistUncertain(e) \/ PersistFailed(e)
      <4>1. at[e] \in todo[e]
        BY <3>3 DEF PersistPublished, PersistUncertain, PersistFailed, Persist,
                    HoldInv, Holds, Calling
      <4>2. \E row : Write(at[e], num[e][at[e]], row)
        BY <3>3 DEF PersistPublished, PersistUncertain, PersistFailed, Persist
      <4> QED
        BY <2>2, <4>1, <4>2
    <3>4. CASE \/ TicketIssued(e) \/ PersistNothing(e) \/ ExecAbort(e)
               \/ Finish(e) \/ Crash(e) \/ PublishContainer(e)
               \/ \E a \in Accounts :
                    FacebookPost(e, a) \/ CheckContainer(e, a) \/ CreateContainer(e, a)
      BY <2>1, <3>4 DEF TicketIssued, PersistNothing, ExecAbort, Finish, Crash,
                        PublishContainer, FacebookPost, CheckContainer, CreateContainer
    <3> QED
      BY <2>4, <3>1, <3>2, <3>3, <3>4 DEF Execute
  <2>5. ASSUME Environment PROVE Kept
    <3>1. ASSUME NEW a \in Accounts, NEW n \in AttemptNo,
                 ConfirmPublished(a, n) \/ ConfirmFailed(a, n) \/ Dismiss(a, n)
          PROVE  Kept
      <4>1. rows[a][n].status # "PUBLISHED" /\ \E row : Write(a, n, row)
        BY <3>1 DEF ConfirmPublished, ConfirmFailed, Dismiss, Resolvable
      <4> QED
        BY <4>1, WriteKept
    <3>2. ASSUME NEW a \in Accounts, NEW n \in AttemptNo, LeaseExpires(a, n)
          PROVE  Kept
      <4>1. rows[a][n].status # "PUBLISHED"
        BY <3>2 DEF LeaseExpires, OnlyOpenLeased, Open
      <4>2. rows' = [rows EXCEPT ![a] = [rows[a] EXCEPT ![n].lease = "expired"]]
        BY <3>2 DEF LeaseExpires
      <4>3. \A b \in Accounts, m \in AttemptNo :
              b # a \/ m # n => rows'[b][m] = rows[b][m]
        BY <4>2 DEF TypeOK
      <4> QED
        BY <4>1, <4>3 DEF Kept
    <3>3. CASE \/ \E a \in Accounts, value \in BOOLEAN : SetConnected(a, value)
               \/ \E k \in Keys : KeyExpires(k)
      BY <2>1, <3>3 DEF SetConnected, KeyExpires
    <3> QED
      BY <2>5, <3>1, <3>2, <3>3 DEF Environment
  <2> QED
    BY <2>1, <2>3, <2>4, <2>5 DEF Next, vars
<1>2. Spec => []HoldInv
  BY HoldInductive
<1> QED
  BY <1>1, <1>2, TypeCorrect, OpenLeased, PTL DEF Spec, PublishedIsFinal, Kept

-----------------------------------------------------------------------------
(* What PUBLISHED says is true, whatever happens *)

(* Who was told that its post is public was told the truth. *)
ToldTrue(e) ==
  pc[e] = "replied" /\ reply[e] = "ok" /\ at[e] \in Accounts => posts[at[e]] # {}

TrueInv == PublishedIsTrue /\ \A e \in Executors : ToldTrue(e)

(* Posts stay, and no row comes to say PUBLISHED of an account without one. *)
LEMMA TrueKept ==
  ASSUME TrueInv,
         \A a \in Accounts : posts[a] # {} => posts'[a] # {},
         \A a \in Accounts, n \in AttemptNo :
           rows'[a][n].status = "PUBLISHED" =>
             posts'[a] # {} \/ rows[a][n].status = "PUBLISHED"
  PROVE  PublishedIsTrue'
BY DEF TrueInv, PublishedIsTrue, With

(* A write that says PUBLISHED only of what is there. *)
LEMMA TrueWrite ==
  ASSUME TypeOK, TrueInv, NEW a, NEW n, NEW row, Write(a, n, row), UNCHANGED posts,
         a \in Accounts /\ n \in AttemptNo =>
           (row.status = "PUBLISHED" => posts[a] # {} \/ rows[a][n].status = "PUBLISHED")
  PROVE  PublishedIsTrue'
<1>1. CASE a \in Accounts /\ n \in AttemptNo
  <2>1. \A b \in Accounts, m \in AttemptNo :
          rows'[b][m] = IF b = a /\ m = n THEN row ELSE rows[b][m]
    BY <1>1 DEF Write, TypeOK
  <2> QED
    BY <1>1, <2>1, TrueKept
<1>2. CASE ~(a \in Accounts /\ n \in AttemptNo)
  BY <1>2, OutsideWrite, TrueKept
<1> QED
  BY <1>1, <1>2

(* An executor that ends, or that has a target behind it, was told nothing. *)
LEMMA TrueLocal ==
  ASSUME TypeOK, TrueInv, NEW e \in Executors,
         \A a \in Accounts : posts[a] # {} => posts'[a] # {},
         \A f \in Executors \ {e} : SameLocal(f), pc'[e] # "replied"
  PROVE  \A f \in Executors : ToldTrue(f)'
<1>1. ToldTrue(e)'
  BY DEF ToldTrue
<1>2. ASSUME NEW f \in Executors \ {e} PROVE ToldTrue(f)'
  BY <1>2 DEF TrueInv, ToldTrue, SameLocal
<1> QED
  BY <1>1, <1>2

(* An answer of Meta that says ok when the post is there. *)
LEMMA TrueAnswer ==
  ASSUME TypeOK, TrueInv, NEW e \in Executors, NEW a, NEW r, Answered(e, a, r),
         UNCHANGED <<rows, todo, num>>,
         \A b \in Accounts : posts[b] # {} => posts'[b] # {},
         r = "ok" /\ a \in Accounts => posts'[a] # {}
  PROVE  TrueInv'
<1>1. /\ pc'[e] = "replied" /\ at'[e] = a /\ reply'[e] = r
      /\ \A f \in Executors \ {e} : SameLocal(f)
  BY DEF Answered, TypeOK, SameLocal
<1>2. ToldTrue(e)'
  BY <1>1 DEF ToldTrue
<1>3. ASSUME NEW f \in Executors \ {e} PROVE ToldTrue(f)'
  BY <1>1 DEF TrueInv, ToldTrue, SameLocal
<1>4. PublishedIsTrue'
  BY TrueKept
<1> QED
  BY <1>2, <1>3, <1>4 DEF TrueInv

LEMMA TruePrepare ==
  ASSUME TypeOK, TrueInv, NEW e \in Executors, Prepare(e)
  PROVE  TrueInv'
<1>1. /\ UNCHANGED posts /\ pc'[e] # "replied"
      /\ \A f \in Executors \ {e} : SameLocal(f)
  BY DEF Prepare, PrepareRead, PrepareUncertain, PrepareCommit, PrepareAbort, Idle,
         SameLocal, TypeOK
<1>2. ASSUME NEW a \in Accounts, NEW n \in AttemptNo,
             rows'[a][n].status = "PUBLISHED"
      PROVE  rows[a][n].status = "PUBLISHED"
  <2>1. rows'[a] = rows[a] \/ rows'[a] = Prepared(a, plan[e][a])
    BY DEF Prepare, PrepareRead, PrepareUncertain, PrepareCommit, PrepareAbort
  <2>2. /\ Closed("FAILED", rows[a][n]).status = "FAILED"
        /\ Closed("UNCERTAIN", rows[a][n]).status = "UNCERTAIN"
    BY RowType, ClosedType DEF Status, Active
  <2>3. NewRow(plan[e][a]).status # "PUBLISHED"
    BY DEF NewRow
  <2> QED
    BY <1>2, <2>1, <2>2, <2>3 DEF Prepared
<1>3. PublishedIsTrue'
  BY <1>1, <1>2, TrueKept
<1> QED
  BY <1>1, <1>3, TrueLocal DEF TrueInv

LEMMA TrueTicketFails ==
  ASSUME TypeOK, TrueInv, NEW e \in Executors, TicketFails(e)
  PROVE  TrueInv'
<1>1. Idle(e) /\ UNCHANGED posts
  BY DEF TicketFails
<1>2. pc'[e] = "idle" /\ \A f \in Executors \ {e} : SameLocal(f)
  BY <1>1 DEF Idle, SameLocal, TypeOK
<1>3. ASSUME NEW a \in Accounts, NEW n \in AttemptNo,
             rows'[a][n].status = "PUBLISHED"
      PROVE  rows[a][n].status = "PUBLISHED"
  <2>1. Closed("FAILED", rows[a][n]).status = "FAILED"
    BY RowType, ClosedType DEF Status
  <2> QED
    BY <1>3, <2>1 DEF TicketFails
<1> QED
  BY <1>1, <1>2, <1>3, TrueKept, TrueLocal DEF TrueInv

(* A result that is stored as PUBLISHED was ok. *)
LEMMA TruePersist ==
  ASSUME TypeOK, TrueInv, NEW e \in Executors, NEW replies,
         NEW status \in {"PUBLISHED", "UNCERTAIN", "FAILED"},
         status = "PUBLISHED" => replies = {"ok"}, Persist(e, replies, status)
  PROVE  TrueInv'
<1>1. /\ TargetDone(e) /\ UNCHANGED posts
      /\ Write(at[e], num[e][at[e]], Closed(status, RowOf(e, at[e])))
      /\ at[e] \in Accounts /\ status = "PUBLISHED" => posts[at[e]] # {}
  BY DEF Persist, TargetDone, TrueInv, ToldTrue
<1>2. at[e] \in Accounts /\ num[e][at[e]] \in AttemptNo =>
        Closed(status, RowOf(e, at[e])).status = status
  BY RowType, ClosedType DEF RowOf, Status, Active
<1>3. PublishedIsTrue'
  BY <1>1, <1>2, TrueWrite
<1>4. pc'[e] = "run" /\ \A f \in Executors \ {e} : SameLocal(f)
  BY <1>1 DEF TargetDone, SameLocal, TypeOK
<1> QED
  BY <1>1, <1>3, <1>4, TrueLocal DEF TrueInv

LEMMA TrueExecute ==
  ASSUME TypeOK, TrueInv, NEW e \in Executors, Execute(e)
  PROVE  TrueInv'
<1>1. ASSUME UNCHANGED <<rows, posts>>, pc'[e] # "replied",
             \A f \in Executors \ {e} : SameLocal(f)
      PROVE  TrueInv'
  BY <1>1, TrueKept, TrueLocal DEF TrueInv
<1>2. ASSUME TicketIssued(e) \/ PersistNothing(e) PROVE TrueInv'
  BY <1>1, <1>2 DEF TicketIssued, PersistNothing, TargetDone, SameLocal, TypeOK
<1>3. ASSUME ExecAbort(e) \/ Finish(e) \/ Crash(e) PROVE TrueInv'
  BY <1>1, <1>3 DEF ExecAbort, Finish, Crash, Idle, SameLocal, TypeOK
<1>4. ASSUME NEW a \in Accounts, FacebookPost(e, a) PROVE TrueInv'
  <2>1. PICK r \in {"ok", "timeout", "failed", "auth"}, applied \in BOOLEAN :
          /\ MayHide(r, applied) /\ Answered(e, a, r)
          /\ posts' = IF applied THEN [posts EXCEPT ![a] = @ \cup {num[e][a]}] ELSE posts
    BY <1>4 DEF FacebookPost
  <2>2. UNCHANGED <<rows, todo, num>> /\ (r = "ok" => applied)
    BY <1>4, <2>1 DEF FacebookPost, MayHide
  <2>3. \A b \in Accounts : posts[b] # {} => posts'[b] # {}
    BY <2>1 DEF TypeOK
  <2>4. r = "ok" => posts'[a] # {}
    BY <2>1, <2>2 DEF TypeOK
  <2> QED
    BY <2>1, <2>2, <2>3, <2>4, TrueAnswer
<1>5. ASSUME NEW a \in Accounts, CheckContainer(e, a) PROVE TrueInv'
  BY <1>1, <1>5 DEF CheckContainer, SameLocal, TypeOK
<1>6. ASSUME NEW a \in Accounts, CreateContainer(e, a) PROVE TrueInv'
  <2>1. UNCHANGED <<rows, posts, todo, num>>
    BY <1>6 DEF CreateContainer
  <2>2. CASE \E r \in {"timeout", "failed", "auth"} : Answered(e, a, r)
    BY <2>1, <2>2, TrueAnswer
  <2>3. CASE pc' = [pc EXCEPT ![e] = "created"] /\ at' = [at EXCEPT ![e] = a]
             /\ reply' = reply
    BY <1>1, <2>1, <2>3 DEF SameLocal, TypeOK
  <2> QED
    BY <1>6, <2>2, <2>3 DEF CreateContainer
<1>7. ASSUME OnContainerCreated(e) PROVE TrueInv'
  <2>1. UNCHANGED <<posts, todo, num>>
    BY <1>7 DEF OnContainerCreated
  <2>2. CASE UNCHANGED rows /\ \E r \in {"timeout", "failed"} : Answered(e, at[e], r)
    BY <2>1, <2>2, TrueAnswer
  <2>3. CASE /\ Write(at[e], num[e][at[e]], [status |-> "CONTAINER_CREATED",
                                container |-> num[e][at[e]], lease |-> "live"])
             /\ pc' = [pc EXCEPT ![e] = "poll"] /\ UNCHANGED <<at, reply>>
    <3>1. PublishedIsTrue'
      BY <2>1, <2>3, TrueWrite
    <3>2. pc'[e] = "poll" /\ \A f \in Executors \ {e} : SameLocal(f)
      BY <2>1, <2>3 DEF SameLocal, TypeOK
    <3> QED
      BY <2>1, <3>1, <3>2, TrueLocal DEF TrueInv
  <2> QED
    BY <1>7, <2>2, <2>3 DEF OnContainerCreated
<1>8. ASSUME PublishContainer(e) PROVE TrueInv'
  <2> DEFINE c == Carried(e, at[e])
  <2>1. PICK r \in {"ok", "timeout", "failed", "auth"}, applied \in BOOLEAN :
          /\ MayHide(r, applied) /\ Answered(e, at[e], r)
          /\ c \in posts[at[e]] => ~applied
          /\ posts' = IF applied THEN [posts EXCEPT ![at[e]] = @ \cup {c}] ELSE posts
    BY <1>8 DEF PublishContainer
  <2>2. UNCHANGED <<rows, todo, num>> /\ (r = "ok" => applied)
    BY <1>8, <2>1 DEF PublishContainer, MayHide
  <2> HIDE DEF c
  <2>3. \A b \in Accounts : posts[b] # {} => posts'[b] # {}
    BY <2>1 DEF TypeOK
  <2>4. r = "ok" /\ at[e] \in Accounts => posts'[at[e]] # {}
    BY <2>1, <2>2 DEF TypeOK
  <2> QED
    BY <2>1, <2>2, <2>3, <2>4, TrueAnswer
<1>9. ASSUME PersistPublished(e) \/ PersistUncertain(e) \/ PersistFailed(e) PROVE TrueInv'
  BY <1>9, TruePersist DEF PersistPublished, PersistUncertain, PersistFailed
<1> QED
  BY <1>2, <1>3, <1>4, <1>5, <1>6, <1>7, <1>8, <1>9, TrueTicketFails DEF Execute

LEMMA TrueEnvironment ==
  ASSUME TypeOK, TrueInv, Environment
  PROVE  TrueInv'
<1>1. UNCHANGED posts /\ UNCHANGED local
  BY DEF Environment, LeaseExpires, ConfirmPublished, ConfirmFailed, Dismiss,
         SetConnected, KeyExpires
<1>2. \A e \in Executors : ToldTrue(e)'
  BY <1>1 DEF TrueInv, ToldTrue, local
<1>3. ASSUME NEW a \in Accounts, NEW n \in AttemptNo, LeaseExpires(a, n)
      PROVE  PublishedIsTrue'
  <2>1. rows' = [rows EXCEPT ![a] = [rows[a] EXCEPT ![n].lease = "expired"]]
    BY <1>3 DEF LeaseExpires
  <2>2. \A b \in Accounts, m \in AttemptNo : rows'[b][m].status = rows[b][m].status
    BY <2>1, RowType DEF TypeOK, Row
  <2> QED
    BY <1>1, <2>2, TrueKept
<1>4. ASSUME NEW a \in Accounts, NEW n \in AttemptNo,
             ConfirmPublished(a, n) \/ ConfirmFailed(a, n) \/ Dismiss(a, n)
      PROVE  PublishedIsTrue'
  <2>1. rows[a][n].status \in Status \ {"PUBLISHED"}
    BY <1>4 DEF ConfirmPublished, ConfirmFailed, Dismiss, Resolvable
  <2>2. \A s \in Status : Closed(s, rows[a][n]).status = s
    BY RowType, ClosedType
  <2>3. PICK s \in Status : /\ Write(a, n, Closed(s, rows[a][n]))
                            /\ s = "PUBLISHED" => posts[a] # {}
    BY <1>4, <2>1 DEF ConfirmPublished, ConfirmFailed, Dismiss, Status
  <2> QED
    BY <1>1, <2>2, <2>3, TrueWrite
<1>5. ASSUME UNCHANGED rows PROVE PublishedIsTrue'
  BY <1>1, <1>5, TrueKept
<1>6. PublishedIsTrue'
  BY <1>3, <1>4, <1>5 DEF Environment, SetConnected, KeyExpires
<1> QED
  BY <1>2, <1>6 DEF TrueInv

(* The table never says PUBLISHED of an account on which there is no post, under
   every fault: two executors on one account, lost answers, stale reads and
   administrators included. *)
THEOREM PublishedTruthful == Spec => []PublishedIsTrue
<1>1. Init => TrueInv
  BY DEF Init, TrueInv, PublishedIsTrue, With, Absent, ToldTrue
<1>2. TypeOK /\ TrueInv /\ [Next]_vars => TrueInv'
  <2> SUFFICES ASSUME TypeOK, TrueInv, [Next]_vars PROVE TrueInv'
    OBVIOUS
  <2>1. ASSUME UNCHANGED vars PROVE TrueInv'
    BY <2>1 DEF vars, TrueInv, PublishedIsTrue, With, ToldTrue
  <2> QED
    BY <2>1, TruePrepare, TrueExecute, TrueEnvironment DEF Next
<1>3. TrueInv => PublishedIsTrue
  BY DEF TrueInv
<1> QED
  BY <1>1, <1>2, <1>3, TypeCorrect, PTL DEF Spec

-----------------------------------------------------------------------------
(* Idempotency keys *)

USE DEF Executors

(* A request that ends frees, or closes, the key that it alone holds. *)
LEMMA KeyEnded ==
  ASSUME TypeOK, KeyIsExclusive, NEW e \in Executors, NEW v, EndKey(e, v), Idle(e)
  PROVE  KeyIsExclusive'
<1>1. \A f \in Executors : key'[f] = IF f = e THEN "none" ELSE key[f]
  BY DEF Idle, TypeOK
<1>2. ASSUME NEW f \in Requests, key'[f] # "none"
      PROVE  idem'[key[f]] = idem[key[f]]
  <2>1. f # e /\ key[f] # "none" /\ f \in Executors
    BY <1>1, <1>2
  <2>2. e \in Requests => key[e] # key[f]
    BY <2>1 DEF KeyIsExclusive
  <2> QED
    BY <2>1, <2>2 DEF EndKey, TypeOK
<1> QED
  BY <1>1, <1>2 DEF KeyIsExclusive

(* Two requests never run under one idempotency key, and the key of a running
   request stays marked, with whatever faults. *)
THEOREM KeysExclusive == Spec => []KeyIsExclusive
<1>1. Init => KeyIsExclusive
  BY DEF Init, KeyIsExclusive
<1>2. TypeOK /\ KeyIsExclusive /\ [Next]_vars => KeyIsExclusive'
  <2> SUFFICES ASSUME TypeOK, KeyIsExclusive, [Next]_vars PROVE KeyIsExclusive'
    OBVIOUS
  <2>1. CASE UNCHANGED <<idem, key>>
    BY <2>1 DEF KeyIsExclusive
  <2>2. ASSUME NEW e \in Executors, NEW targets \in SUBSET Accounts,
               NEW k \in Keys \cup {"none"}, PrepareRead(e, targets, k)
        PROVE  KeyIsExclusive'
    <3>1. \A f \in Executors : key'[f] = IF f = e THEN k ELSE key[f]
      BY <2>2 DEF PrepareRead, TypeOK
    <3>2. CASE e \in Requests
      <4>1. k \in Keys /\ idem[k] = "free" /\ idem' = [idem EXCEPT ![k] = "IN_PROGRESS"]
        BY <2>2, <3>2 DEF PrepareRead
      <4>2. \A f \in Requests : key[f] # k
        BY <4>1, ConstantsAssumption DEF KeyIsExclusive
      <4>3. \A f \in Requests : key[f] \in Keys \cup {"none"}
        BY DEF TypeOK
      <4> QED
        BY <3>1, <4>1, <4>2, <4>3 DEF KeyIsExclusive, TypeOK
    <3>3. CASE e \notin Requests
      BY <2>2, <3>1, <3>3 DEF PrepareRead, KeyIsExclusive
    <3> QED
      BY <3>2, <3>3
  <2>3. ASSUME NEW e \in Executors,
               \/ PrepareUncertain(e) \/ PrepareAbort(e) \/ TicketFails(e)
               \/ ExecAbort(e) \/ Finish(e)
        PROVE  KeyIsExclusive'
    BY <2>3, KeyEnded DEF PrepareUncertain, PrepareAbort, TicketFails, ExecAbort, Finish
  <2>4. ASSUME NEW e \in Executors, Crash(e) PROVE KeyIsExclusive'
    <3>1. \A f \in Executors : key'[f] = IF f = e THEN "none" ELSE key[f]
      BY <2>4 DEF Crash, Idle, TypeOK
    <3> QED
      BY <2>4, <3>1 DEF Crash, KeyIsExclusive
  <2>5. ASSUME NEW k \in Keys, KeyExpires(k) PROVE KeyIsExclusive'
    <3>1. \A f \in Requests : key'[f] = key[f] /\ key[f] # k
      BY <2>5 DEF KeyExpires, local
    <3> QED
      BY <2>5, <3>1 DEF KeyExpires, KeyIsExclusive, TypeOK
  <2>6. ASSUME NEW e \in Executors,
               \/ PrepareCommit(e) \/ TicketIssued(e) \/ OnContainerCreated(e)
               \/ PublishContainer(e) \/ PersistPublished(e) \/ PersistUncertain(e)
               \/ PersistNothing(e) \/ PersistFailed(e)
               \/ \E a \in Accounts :
                    FacebookPost(e, a) \/ CheckContainer(e, a) \/ CreateContainer(e, a)
        PROVE  UNCHANGED <<idem, key>>
    BY <2>6 DEF PrepareCommit, TicketIssued, OnContainerCreated, PublishContainer,
         PersistPublished, PersistUncertain, PersistNothing, PersistFailed, Persist,
         TargetDone, FacebookPost, CheckContainer, CreateContainer
  <2>7. ASSUME NEW a \in Accounts, NEW n \in AttemptNo,
               \/ LeaseExpires(a, n) \/ ConfirmPublished(a, n)
               \/ ConfirmFailed(a, n) \/ Dismiss(a, n)
        PROVE  UNCHANGED <<idem, key>>
    BY <2>7 DEF LeaseExpires, ConfirmPublished, ConfirmFailed, Dismiss, local
  <2>8. ASSUME NEW a \in Accounts, NEW value \in BOOLEAN, SetConnected(a, value)
        PROVE  UNCHANGED <<idem, key>>
    BY <2>8 DEF SetConnected, local
  <2> QED
    BY <2>1, <2>2, <2>3, <2>4, <2>5, <2>6, <2>7, <2>8
       DEF Next, Prepare, Execute, Environment, vars
<1> QED
  BY <1>1, <1>2, TypeCorrect, PTL DEF Spec
=============================================================================
