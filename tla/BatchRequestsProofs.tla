------------------------ MODULE BatchRequestsProofs ------------------------
(***************************************************************************)
(* What holds of BatchRequests for every number of requests, keys, posts   *)
(* and rows and every limit.                                               *)
(***************************************************************************)
EXTENDS BatchRequests, FiniteSetTheorems, TLAPS

-----------------------------------------------------------------------------
(* The inductive invariant *)

(* A request in one of its transactions, and one that has its row. *)
Working == [pc: {"count", "find", "lookup", "create", "recover", "refused"},
            asked: Asked, posts: SUBSET Posts]
Served  == [pc: {"enqueue", "answered"}, asked: Asked, row: Rows]

States  == [pc: {"idle"}] \cup Working \cup Served

Types ==
  /\ row \in [Rows -> Batch \cup {none}]
  /\ item \in [Rows -> [Posts -> Final \cup {"ABSENT", "PENDING"}]]
  /\ cancelling \in SUBSET Rows /\ members \in SUBSET Posts
  /\ req \in [Requests -> States]

(* What may be asked. *)
Sound(asked) ==
  /\ asked.op \in {"selection", "single"} =>
       asked.want # {} /\ asked.parent = none /\ Cardinality(asked.want) <= Limit
  /\ asked.op = "content" => asked.want = {} /\ asked.parent = none
  /\ asked.op = "retry" => asked.want = {} /\ asked.parent \in Rows

(* A row is what its request asked for, with its items. *)
RowInv(b) ==
  Held(b) =>
    /\ Sound(row[b].asked)
    /\ row[b].posts # {}
    /\ {p \in Posts : item[b][p] # "ABSENT"} = row[b].posts
    /\ row[b].source # "retry"
    /\ row[b].asked.op # "retry" => row[b].source = row[b].asked.op
    /\ row[b].asked.op \in {"selection", "single"} => row[b].posts = row[b].asked.want

(* The unique indexes. *)
OneRowPerKey ==
  \A b, c \in Rows :
    Held(b) /\ Held(c) /\ row[b].asked.key = row[c].asked.key => b = c

WorkOK(q) ==
  q \in Working =>
    /\ Sound(q.asked)
    /\ q.pc \in {"count", "find"} => q.asked.op = "content"
    /\ q.asked.op = "retry" => Held(q.asked.parent)
    /\ q.asked.op \in {"selection", "single"} => q.posts = q.asked.want
    /\ q.pc = "create" \/ (q.pc = "lookup" /\ q.asked.op = "content") => q.posts # {}

(* The row of an answer is that of the key, and what was asked for. *)
ServedOK(q) ==
  q \in Served =>
    /\ Held(q.row) /\ row[q.row].asked.key = q.asked.key
    /\ q.asked.op = "retry" => row[q.row].asked.parent = q.asked.parent
    /\ q.asked.op \in {"selection", "single"} => row[q.row].posts = q.asked.want

Inv ==
  /\ Types
  /\ \A b \in Rows : RowInv(b)
  /\ OneRowPerKey
  /\ \A r \in Requests : WorkOK(req[r]) /\ ServedOK(req[r])

-----------------------------------------------------------------------------
(* What every step needs *)

LEMMA InWorking ==
  ASSUME Types, NEW r \in Requests,
         req[r].pc \in {"count", "find", "lookup", "create", "recover", "refused"}
  PROVE  req[r] \in Working
<1>1. req[r] \in [pc: {"idle"}] \cup Working \cup Served
  BY DEF Types, States
<1> QED
  BY <1>1 DEF Working, Served

LEMMA InServed ==
  ASSUME Types, NEW r \in Requests, req[r].pc \in {"enqueue", "answered"}
  PROVE  req[r] \in Served
<1>1. req[r] \in [pc: {"idle"}] \cup Working \cup Served
  BY DEF Types, States
<1> QED
  BY <1>1 DEF Working, Served

(* A step of one request that leaves the rows. *)
LEMMA Moves ==
  ASSUME Inv, NEW r \in Requests, NEW q \in States, WorkOK(q), ServedOK(q),
         req' = [req EXCEPT ![r] = q], UNCHANGED <<row, item, cancelling, members>>
  PROVE  Inv'
<1>1. \A s \in Requests : req'[s] = IF s = r THEN q ELSE req[s]
  BY DEF Inv, Types
<1>2. Types'
  BY DEF Inv, Types
<1>3. (\A b \in Rows : RowInv(b)') /\ OneRowPerKey'
  BY DEF Inv, RowInv, OneRowPerKey, Held
<1>4. ASSUME NEW s \in Requests PROVE WorkOK(req[s])' /\ ServedOK(req[s])'
  <2>1. WorkOK(req'[s]) /\ ServedOK(req'[s])
    BY <1>1 DEF Inv
  <2> QED
    BY <2>1 DEF WorkOK, ServedOK, Held
<1> QED
  BY <1>2, <1>3, <1>4 DEF Inv

(* One that goes on with what it has. *)
LEMMA Goes ==
  ASSUME Inv, NEW r \in Requests, req[r] \in Working,
         NEW pc \in {"find", "create", "recover", "refused"},
         pc = "find" => req[r].asked.op = "content",
         pc = "create" => req[r].posts # {},
         Go(r, pc), UNCHANGED <<row, item, cancelling, members>>
  PROVE  Inv'
<1> DEFINE q == [req[r] EXCEPT !.pc = pc]
<1>1. req' = [req EXCEPT ![r] = q]
  BY DEF Go
<1>2. /\ q \in Working /\ q.pc = pc
      /\ q.asked = req[r].asked /\ q.posts = req[r].posts
  BY DEF Working
<1>3. WorkOK(req[r])
  BY DEF Inv
<1>4. WorkOK(q)
  BY <1>2, <1>3 DEF WorkOK
<1>5. q \in States /\ ServedOK(q)
  BY <1>2 DEF States, ServedOK, Served
<1> HIDE DEF q
<1> QED
  BY <1>1, <1>4, <1>5, Moves

(* One that is over. *)
LEMMA Idles ==
  ASSUME Inv, NEW r \in Requests, Idle(r), UNCHANGED <<row, item, cancelling, members>>
  PROVE  Inv'
<1> DEFINE q == [pc |-> "idle"]
<1>1. req' = [req EXCEPT ![r] = q]
  BY DEF Idle
<1>2. q \in States
  BY DEF States
<1>3. WorkOK(q) /\ ServedOK(q)
  BY DEF WorkOK, ServedOK, Working, Served
<1> HIDE DEF q
<1> QED
  BY <1>1, <1>2, <1>3, Moves

(* One that has its row. *)
LEMMA Answers ==
  ASSUME Inv, NEW r \in Requests, NEW b \in Rows, req[r].asked \in Asked,
         Held(b), row[b].asked.key = req[r].asked.key,
         req[r].asked.op = "retry" => row[b].asked.parent = req[r].asked.parent,
         req[r].asked.op \in {"selection", "single"} => row[b].posts = req[r].asked.want,
         Answer(r, b), UNCHANGED <<row, item, cancelling, members>>
  PROVE  Inv'
<1> DEFINE q == [pc |-> "answered", asked |-> req[r].asked, row |-> b]
<1>1. req' = [req EXCEPT ![r] = q]
  BY DEF Answer
<1>2. q \in States /\ q.row = b /\ q.asked = req[r].asked
  BY DEF States, Served
<1>3. WorkOK(q)
  BY DEF WorkOK, Working
<1>4. ServedOK(q)
  BY <1>2 DEF ServedOK
<1> HIDE DEF q
<1> QED
  BY <1>1, <1>2, <1>3, <1>4, Moves

(* The row found under a key answers or refuses. *)
LEMMA Resolves ==
  ASSUME Inv, NEW r \in Requests, req[r] \in Working, NEW posts,
         req[r].asked.op \in {"selection", "single"} => posts = req[r].posts,
         Resolve(r, posts), UNCHANGED <<row, item, cancelling, members>>
  PROVE  Inv'
<1> PICK b \in Keyed(req[r].asked.key) :
      IF \/ req[r].asked.op = "retry" /\ SameParent(req[r].asked, b)
         \/ req[r].asked.op # "retry" /\ Equivalent(req[r].asked, posts, b)
      THEN Answer(r, b) ELSE Go(r, "refused")
  BY DEF Resolve
<1>1. b \in Rows /\ Held(b) /\ row[b].asked.key = req[r].asked.key
  BY DEF Keyed
<1>2. WorkOK(req[r]) /\ req[r].asked \in Asked
  BY DEF Inv, Working
<1>3. CASE Go(r, "refused")
  BY <1>3, Goes
<1>4. CASE req[r].asked.op = "retry" /\ SameParent(req[r].asked, b) /\ Answer(r, b)
  BY <1>1, <1>2, <1>4, Answers DEF SameParent
<1>5. CASE req[r].asked.op # "retry" /\ Equivalent(req[r].asked, posts, b) /\ Answer(r, b)
  <2>1. req[r].asked.op \in {"selection", "single"} => row[b].posts = req[r].asked.want
    BY <1>2, <1>5 DEF Equivalent, WorkOK
  <2> QED
    BY <1>1, <1>2, <1>5, <2>1, Answers
<1> QED
  BY <1>3, <1>4, <1>5

-----------------------------------------------------------------------------
(* The steps *)

LEMMA ReceiveStep ==
  ASSUME Inv, NEW r \in Requests, NEW asked \in Asked, Receive(r, asked)
  PROVE  Inv'
<1> DEFINE q == [pc |-> IF asked.op = "content" THEN "count" ELSE "lookup",
                 asked |-> asked, posts |-> asked.want]
<1>1. req' = [req EXCEPT ![r] = q] /\ UNCHANGED <<row, item, cancelling, members>>
  BY DEF Receive
<1>2. asked.op \in Ops /\ asked.want \in SUBSET Posts /\ asked.parent \in Rows \cup {none}
  BY DEF Asked
<1>3. q \in Working /\ q.asked = asked /\ q.posts = asked.want
      /\ q.pc = (IF asked.op = "content" THEN "count" ELSE "lookup")
  BY <1>2 DEF Working
<1>4. Sound(asked)
  <2>1. CASE asked.op = "selection"
    BY <2>1 DEF Receive, Sound
  <2>2. CASE asked.op = "content"
    BY <2>2 DEF Receive, Sound
  <2>3. CASE asked.op = "retry"
    BY <1>2, <2>3 DEF Receive, Sound
  <2>4. CASE asked.op = "single"
    <3>1. Cardinality(asked.want) = 1 /\ asked.parent = none
      BY <2>4 DEF Receive
    <3>2. asked.want # {}
      BY <3>1, FS_EmptySet
    <3>3. Cardinality(asked.want) <= Limit
      BY <3>1, BatchRequestsAssumption
    <3> QED
      BY <2>4, <3>1, <3>2, <3>3 DEF Sound
  <2> QED
    BY <1>2, <2>1, <2>2, <2>3, <2>4 DEF Ops
<1>5. asked.op = "retry" => Held(asked.parent)
  BY DEF Receive
<1>6. WorkOK(q)
  BY <1>3, <1>4, <1>5 DEF WorkOK
<1>7. q \in States /\ ServedOK(q)
  BY <1>3 DEF States, ServedOK, Working, Served
<1> HIDE DEF q
<1> QED
  BY <1>1, <1>6, <1>7, Moves

LEMMA CountStep ==
  ASSUME Inv, NEW r \in Requests, Count(r)
  PROVE  Inv'
<1>1. req[r].pc = "count" /\ UNCHANGED <<row, item, cancelling, members>>
      /\ (Go(r, "refused") \/ Go(r, "find"))
  BY DEF Count
<1>2. req[r] \in Working /\ WorkOK(req[r])
  BY <1>1, InWorking DEF Inv
<1>3. req[r].asked.op = "content"
  BY <1>1, <1>2 DEF WorkOK
<1> QED
  BY <1>1, <1>2, <1>3, Goes

LEMMA FindPostsStep ==
  ASSUME Inv, NEW r \in Requests, FindPosts(r)
  PROVE  Inv'
<1> DEFINE pc == IF members = {} THEN "refused" ELSE "lookup"
           q == [req[r] EXCEPT !.posts = members, !.pc = pc]
<1>1. req[r].pc = "find" /\ UNCHANGED <<row, item, cancelling, members>>
      /\ req' = [req EXCEPT ![r] = q]
  BY DEF FindPosts
<1>2. req[r] \in Working /\ WorkOK(req[r]) /\ members \in SUBSET Posts
  BY <1>1, InWorking DEF Inv, Types
<1>3. q \in Working /\ q.pc = pc /\ q.posts = members /\ q.asked = req[r].asked
  BY <1>2 DEF Working
<1>4. q.asked.op = "content"
  BY <1>1, <1>2, <1>3 DEF WorkOK
<1>5. WorkOK(q)
  BY <1>2, <1>3, <1>4 DEF WorkOK
<1>6. q \in States /\ ServedOK(q)
  BY <1>3 DEF States, ServedOK, Working, Served
<1> HIDE DEF q
<1> QED
  BY <1>1, <1>5, <1>6, Moves

LEMMA LookupStep ==
  ASSUME Inv, NEW r \in Requests, Lookup(r)
  PROVE  Inv'
<1>1. /\ req[r].pc = "lookup" /\ req[r].asked.op # "retry"
      /\ UNCHANGED <<row, item, cancelling, members>>
      /\ Resolve(r, req[r].posts) \/ Go(r, "create")
  BY DEF Lookup
<1>2. req[r] \in Working /\ WorkOK(req[r]) /\ req[r].asked.op \in Ops
  BY <1>1, InWorking DEF Inv, Working, Asked
<1>3. req[r].posts # {}
  BY <1>1, <1>2 DEF WorkOK, Ops, Sound
<1> QED
  BY <1>1, <1>2, <1>3, Goes, Resolves

LEMMA LookupRetryStep ==
  ASSUME Inv, NEW r \in Requests, LookupRetry(r)
  PROVE  Inv'
<1> DEFINE f == Failed(req[r].asked.parent)
           pc == IF f = {} THEN "refused" ELSE "create"
           q == [req[r] EXCEPT !.posts = f, !.pc = pc]
<1>1. /\ req[r].pc = "lookup" /\ req[r].asked.op = "retry"
      /\ UNCHANGED <<row, item, cancelling, members>>
      /\ Go(r, "refused") \/ Resolve(r, {}) \/ req' = [req EXCEPT ![r] = q]
  BY DEF LookupRetry
<1>2. req[r] \in Working /\ WorkOK(req[r])
  BY <1>1, InWorking DEF Inv
<1>3. CASE Resolve(r, {})
  BY <1>1, <1>2, <1>3, Resolves
<1>4. CASE req' = [req EXCEPT ![r] = q]
  <2>1. f \in SUBSET Posts
    BY DEF Failed
  <2> HIDE DEF f
  <2>2. q \in Working /\ q.pc = pc /\ q.posts = f /\ q.asked = req[r].asked
    BY <1>2, <2>1 DEF Working
  <2>3. WorkOK(q)
    BY <1>1, <1>2, <2>2 DEF WorkOK
  <2>4. q \in States /\ ServedOK(q)
    BY <2>2 DEF States, ServedOK, Working, Served
  <2> HIDE DEF q
  <2> QED
    BY <1>1, <1>4, <2>3, <2>4, Moves
<1>5. CASE Go(r, "refused")
  BY <1>1, <1>2, <1>5, Goes
<1> QED
  BY <1>1, <1>3, <1>4, <1>5

(* The row and its items are written; the index let it be the only one. *)
LEMMA WriteStep ==
  ASSUME Inv, NEW r \in Requests, NEW b \in Rows, Free(r, Ops), Write(r, b)
  PROVE  Inv'
<1> DEFINE asked == req[r].asked
           R == [asked |-> asked, posts |-> req[r].posts,
                 source |-> IF asked.op = "retry" THEN row[asked.parent].source ELSE asked.op]
           q == [pc |-> "enqueue", asked |-> asked, row |-> b]
<1>1. /\ req[r].pc = "create" /\ Keyed(asked.key) = {} /\ ~Held(b)
      /\ row' = [row EXCEPT ![b] = R]
      /\ item' = [item EXCEPT ![b] = [p \in Posts |->
                    IF p \in req[r].posts THEN "PENDING" ELSE "ABSENT"]]
      /\ req' = [req EXCEPT ![r] = q]
      /\ UNCHANGED <<cancelling, members>>
  BY DEF Free, Write
<1>2. /\ req[r] \in Working /\ WorkOK(req[r])
      /\ asked \in Asked /\ req[r].posts \in SUBSET Posts /\ asked.op \in Ops
  BY <1>1, InWorking DEF Inv, Working, Asked
<1>3. /\ Sound(asked) /\ req[r].posts # {}
      /\ asked.op = "retry" => asked.parent \in Rows /\ Held(asked.parent)
      /\ asked.op \in {"selection", "single"} => req[r].posts = asked.want
  BY <1>1, <1>2 DEF WorkOK, Sound
<1>4. /\ R.source \in Ops /\ R.source # "retry"
      /\ asked.op # "retry" => R.source = asked.op
  <2>1. CASE asked.op = "retry"
    <3>1. RowInv(asked.parent) /\ row[asked.parent] \in Batch
      BY <1>3, <2>1 DEF Inv, Types, Held
    <3> QED
      BY <1>3, <2>1, <3>1 DEF RowInv, Batch
  <2>2. CASE asked.op # "retry"
    BY <1>2, <2>2
  <2> QED
    BY <2>1, <2>2
<1>5. R \in Batch /\ R.asked = asked /\ R.posts = req[r].posts
  BY <1>2, <1>4 DEF Batch
<1>6. R # none
  BY <1>5, NoneAssumption
<1> HIDE DEF R
<1>7. \A c \in Rows : row'[c] = IF c = b THEN R ELSE row[c]
  BY <1>1 DEF Inv, Types
<1>8. \A c \in Rows : c # b => item'[c] = item[c]
  BY <1>1 DEF Inv, Types
<1>9. \A c \in Rows : Held(c)' <=> c = b \/ Held(c)
  BY <1>6, <1>7 DEF Held
<1>10. \A s \in Requests : req'[s] = IF s = r THEN q ELSE req[s]
  BY <1>1 DEF Inv, Types
<1>11. q \in Served /\ q.row = b /\ q.asked = asked /\ q.pc = "enqueue"
  BY <1>2 DEF Served
<1> HIDE DEF q
<1>12. Types'
  <2>1. row' \in [Rows -> Batch \cup {none}]
    BY <1>1, <1>5 DEF Inv, Types
  <2>2. item' \in [Rows -> [Posts -> Final \cup {"ABSENT", "PENDING"}]]
    BY <1>1 DEF Inv, Types
  <2>3. /\ req' \in [Requests -> States]
        /\ members' \in SUBSET Posts /\ cancelling' \in SUBSET Rows
    BY <1>1, <1>11 DEF Inv, Types, States
  <2> QED
    BY <2>1, <2>2, <2>3 DEF Types
<1>13. ASSUME NEW c \in Rows PROVE RowInv(c)'
  <2>1. CASE c # b
    <3>1. row'[c] = row[c] /\ item'[c] = item[c] /\ RowInv(c)
      BY <1>7, <1>8, <2>1 DEF Inv
    <3> QED
      BY <3>1 DEF RowInv, Held
  <2>2. CASE c = b
    <3>1. row'[c] = R
      BY <1>7, <2>2
    <3>2. item'[c] = [p \in Posts |-> IF p \in req[r].posts THEN "PENDING" ELSE "ABSENT"]
      BY <1>1, <2>2 DEF Inv, Types
    <3>3. {p \in Posts : item'[c][p] # "ABSENT"} = req[r].posts
      BY <1>2, <3>2
    <3> QED
      BY <1>3, <1>4, <1>5, <3>1, <3>3 DEF RowInv
  <2> QED
    BY <2>1, <2>2
<1>14. OneRowPerKey'
  <2>1. \A c \in Rows : Held(c) => row[c].asked.key # asked.key
    BY <1>1 DEF Keyed
  <2> QED
    BY <1>5, <1>7, <1>9, <2>1 DEF Inv, OneRowPerKey
<1>15. ASSUME NEW s \in Requests PROVE WorkOK(req[s])' /\ ServedOK(req[s])'
  <2>1. CASE s = r
    <3>1. req'[s] = q /\ q \notin Working
      BY <1>10, <1>11, <2>1 DEF Working
    <3> QED
      BY <1>3, <1>5, <1>7, <1>9, <1>11, <3>1 DEF WorkOK, ServedOK
  <2>2. CASE s # r
    <3>1. req'[s] = req[s] /\ WorkOK(req[s]) /\ ServedOK(req[s])
      BY <1>10, <2>2 DEF Inv
    <3>2. WorkOK(req[s])'
      <4> SUFFICES ASSUME req[s] \in Working PROVE WorkOK(req[s])'
        BY <3>1 DEF WorkOK
      <4>1. req[s].asked.op = "retry" => Held(req[s].asked.parent)'
        BY <1>9, <3>1 DEF WorkOK, Sound
      <4> QED
        BY <3>1, <4>1 DEF WorkOK
    <3>3. ServedOK(req[s])'
      <4> SUFFICES ASSUME req[s] \in Served PROVE ServedOK(req[s])'
        BY <3>1 DEF ServedOK
      <4>1. req[s].row \in Rows /\ Held(req[s].row) /\ req[s].row # b
        BY <1>1, <3>1 DEF ServedOK, Served
      <4>2. row'[req[s].row] = row[req[s].row] /\ Held(req[s].row)'
        BY <1>7, <1>9, <3>1, <4>1
      <4> QED
        BY <3>1, <4>2 DEF ServedOK
    <3> QED
      BY <3>2, <3>3
  <2> QED
    BY <2>1, <2>2
<1> QED
  BY <1>12, <1>13, <1>14, <1>15 DEF Inv

LEMMA RecoverStep ==
  ASSUME Inv, NEW r \in Requests, Recover(r) \/ RecoverRetry(r)
  PROVE  Inv'
<1>1. req[r].pc = "recover" /\ UNCHANGED <<row, item, cancelling, members>>
  BY DEF Recover, RecoverRetry
<1>2. req[r] \in Working
  BY <1>1, InWorking DEF Inv
<1>3. CASE Recover(r)
  <2>1. CASE req[r].asked.op = "content"
    BY <1>1, <1>2, <1>3, <2>1, Resolves DEF Recover
  <2>2. CASE req[r].asked.op # "content"
    BY <1>1, <1>2, <1>3, <2>2, Resolves DEF Recover
  <2> QED
    BY <2>1, <2>2
<1>4. CASE RecoverRetry(r)
  BY <1>1, <1>2, <1>4, Resolves DEF RecoverRetry
<1> QED
  BY <1>3, <1>4

LEMMA EnqueueStep ==
  ASSUME Inv, NEW r \in Requests, Enqueue(r)
  PROVE  Inv'
<1>1. req[r].pc = "enqueue" /\ Answer(r, req[r].row) /\ UNCHANGED <<row, item, cancelling, members>>
  BY DEF Enqueue
<1>2. req[r] \in Served /\ ServedOK(req[r])
  BY <1>1, InServed DEF Inv
<1>3. req[r].row \in Rows /\ req[r].asked \in Asked
  BY <1>2 DEF Served
<1> QED
  BY <1>1, <1>2, <1>3, Answers DEF ServedOK

LEMMA RequestStep ==
  ASSUME Inv, NEW r \in Requests, Request(r)
  PROVE  Inv'
<1>1. CASE \E asked \in Asked : Receive(r, asked)
  BY <1>1, ReceiveStep
<1>2. CASE Count(r) \/ FindPosts(r) \/ Lookup(r) \/ LookupRetry(r)
  BY <1>2, CountStep, FindPostsStep, LookupStep, LookupRetryStep
<1>3. CASE \E b \in Rows : Create(r, b) \/ CreateSingle(r, b) \/ CreateRetry(r, b)
  <2> PICK b \in Rows : Create(r, b) \/ CreateSingle(r, b) \/ CreateRetry(r, b)
    BY <1>3
  <2>1. Free(r, Ops) /\ Write(r, b)
    BY DEF Create, CreateSingle, CreateRetry, Free, Ops
  <2> QED
    BY <2>1, WriteStep
<1>4. CASE Conflict(r) \/ Refuse(r)
  <2>1. req[r].pc = "create" /\ UNCHANGED <<row, item, cancelling, members>>
        /\ (Go(r, "recover") \/ Go(r, "refused"))
    BY <1>4 DEF Conflict, Refuse
  <2>2. req[r] \in Working
    BY <2>1, InWorking DEF Inv
  <2> QED
    BY <2>1, <2>2, Goes
<1>5. CASE Recover(r) \/ RecoverRetry(r)
  BY <1>5, RecoverStep
<1>6. CASE Enqueue(r)
  BY <1>6, EnqueueStep
<1>7. CASE Reply(r) \/ Crash(r)
  BY <1>7, Idles DEF Reply, Crash
<1> QED
  BY <1>1, <1>2, <1>3, <1>4, <1>5, <1>6, <1>7 DEF Request

(* Posts come and go, and items end: the rows keep their items. *)
LEMMA WorldStep ==
  ASSUME Inv, World
  PROVE  Inv'
<1>1. UNCHANGED <<row, req>>
  BY DEF World, Import, DeleteDraft, ItemEnds, CountsOfCancel
<1>2. ASSUME NEW b \in Rows, NEW p \in Posts
      PROVE  item'[b][p] # "ABSENT" <=> item[b][p] # "ABSENT"
  <2>1. CASE UNCHANGED item
    BY <2>1
  <2>2. CASE \E c \in Rows, o \in Posts, status \in Final : ItemEnds(c, o, status)
    <3> PICK c \in Rows, o \in Posts, status \in Final : ItemEnds(c, o, status)
      BY <2>2
    <3>1. item[c][o] = "PENDING" /\ item' = [item EXCEPT ![c][o] = status]
      BY DEF ItemEnds
    <3> QED
      BY <3>1 DEF Inv, Types, Final
  <2> QED
    BY <2>1, <2>2 DEF World, Import, DeleteDraft, CountsOfCancel
<1>3. Types'
  <2>1. item' \in [Rows -> [Posts -> Final \cup {"ABSENT", "PENDING"}]]
    <3>1. ASSUME NEW c \in Rows, NEW o \in Posts, NEW status \in Final, ItemEnds(c, o, status)
          PROVE  item' \in [Rows -> [Posts -> Final \cup {"ABSENT", "PENDING"}]]
      BY <3>1 DEF ItemEnds, Inv, Types
    <3>2. CASE UNCHANGED item
      BY <3>2 DEF Inv, Types
    <3> QED
      BY <3>1, <3>2 DEF World, Import, DeleteDraft, CountsOfCancel
  <2>2. members' \in SUBSET Posts /\ cancelling' \in SUBSET Rows
    BY DEF World, Import, DeleteDraft, ItemEnds, CountsOfCancel, Inv, Types
  <2> QED
    BY <1>1, <2>1, <2>2 DEF Inv, Types
<1>4. ASSUME NEW b \in Rows PROVE RowInv(b)'
  <2>1. {p \in Posts : item'[b][p] # "ABSENT"} = {p \in Posts : item[b][p] # "ABSENT"}
    BY <1>2
  <2> QED
    BY <1>1, <2>1 DEF Inv, RowInv, Held
<1>5. OneRowPerKey'
  BY <1>1 DEF Inv, OneRowPerKey, Held
<1>6. ASSUME NEW r \in Requests PROVE WorkOK(req[r])' /\ ServedOK(req[r])'
  BY <1>1 DEF Inv, WorkOK, ServedOK, Held
<1> QED
  BY <1>3, <1>4, <1>5, <1>6 DEF Inv

LEMMA InitInv == Init => Inv
<1> SUFFICES ASSUME Init PROVE Inv
  OBVIOUS
<1>1. Types
  BY DEF Init, Types, States
<1>2. (\A b \in Rows : RowInv(b)) /\ OneRowPerKey
  BY DEF Init, RowInv, OneRowPerKey, Held
<1>3. \A r \in Requests : WorkOK(req[r]) /\ ServedOK(req[r])
  BY DEF Init, WorkOK, ServedOK, Working, Served
<1> QED
  BY <1>1, <1>2, <1>3 DEF Inv

LEMMA NextInv == Inv /\ [Next]_vars => Inv'
<1> SUFFICES ASSUME Inv, [Next]_vars PROVE Inv'
  OBVIOUS
<1>1. CASE UNCHANGED vars
  <2>1. UNCHANGED <<row, item, cancelling, members, req>>
    BY <1>1 DEF vars
  <2>2. (\A b \in Rows : RowInv(b)') /\ OneRowPerKey' /\ Types'
    BY <2>1 DEF Inv, RowInv, OneRowPerKey, Types, Held
  <2>3. \A r \in Requests : WorkOK(req[r])' /\ ServedOK(req[r])'
    BY <2>1 DEF Inv, WorkOK, ServedOK, Held
  <2> QED
    BY <2>2, <2>3 DEF Inv
<1>2. CASE \E r \in Requests : Request(r)
  BY <1>2, RequestStep
<1>3. CASE World
  BY <1>3, WorldStep
<1> QED
  BY <1>1, <1>2, <1>3 DEF Next

LEMMA Invariant == Spec => []Inv
<1> QED
  BY InitInv, NextInv, PTL DEF Spec

(* Every variable keeps its type. *)
THEOREM TypeCorrect == Spec => []TypeOK
<1>1. Inv => TypeOK
  <2> SUFFICES ASSUME Inv PROVE TypeOK
    OBVIOUS
  <2>1. \A b \in Rows : Held(b) => row[b] \in Batch /\ RowInv(b)
    BY DEF Inv, Types, Held
  <2>2. \A r \in Requests : req[r] \in States
    BY DEF Inv, Types
  <2>3. \A b \in Rows : Held(b) =>
          /\ row[b].asked \in Asked /\ row[b].posts \in (SUBSET Posts) \ {{}}
          /\ row[b].source \in {"selection", "content", "single"}
    <3> SUFFICES ASSUME NEW b \in Rows, Held(b)
                 PROVE  /\ row[b].asked \in Asked /\ row[b].posts \in (SUBSET Posts) \ {{}}
                        /\ row[b].source \in {"selection", "content", "single"}
      OBVIOUS
    <3>1. row[b].asked \in Asked /\ row[b].posts \in SUBSET Posts /\ row[b].source \in Ops
      BY <2>1 DEF Batch
    <3>2. row[b].posts # {} /\ row[b].source # "retry"
      BY <2>1 DEF RowInv
    <3> QED
      BY <3>1, <3>2 DEF Ops
  <2>4. \A r \in Requests : req[r].pc \in {"idle", "count", "find", "lookup", "create",
                                           "recover", "enqueue", "answered", "refused"}
    BY <2>2 DEF States, Working, Served
  <2> QED
    BY <2>3, <2>4 DEF TypeOK, Inv, Types
<1> QED
  BY <1>1, Invariant, PTL

(* However many requests share keys, stop, lose their answers and race for the
   unique index: what is answered under a key is one batch, the one that each of
   them asked for, with all of its items (render-batch.ts, render.ts). *)
THEOREM OneAnswerPerKey == Spec => []AnswersAgree
<1>1. Inv => AnswersAgree
  <2> SUFFICES ASSUME Inv, NEW r \in Requests, req[r].pc = "answered"
               PROVE  LET asked == req[r].asked
                          b == req[r].row
                      IN /\ Keyed(asked.key) = {b}
                         /\ asked.op = "retry" => row[b].asked.parent = asked.parent
                         /\ asked.op \in {"selection", "single"} => row[b].posts = asked.want
                         /\ {p \in Posts : item[b][p] # "ABSENT"} = row[b].posts
    BY DEF AnswersAgree
  <2>1. req[r] \in Served /\ ServedOK(req[r])
    BY InServed DEF Inv
  <2>2. req[r].row \in Rows /\ RowInv(req[r].row)
    BY <2>1 DEF Served, Inv
  <2>3. Keyed(req[r].asked.key) = {req[r].row}
    BY <2>1, <2>2 DEF Keyed, ServedOK, Inv, OneRowPerKey
  <2> QED
    BY <2>1, <2>2, <2>3 DEF ServedOK, RowInv
<1> QED
  BY <1>1, Invariant, PTL

-----------------------------------------------------------------------------
(* A repeated request *)

(* The row of an equal request, found under the key, answers. *)
LEMMA EqualAnswers ==
  ASSUME Inv, NEW r \in Requests, req[r] \in Working, req[r].asked.op # "content",
         NEW b \in Rows, Held(b), row[b].asked = req[r].asked,
         NEW posts, req[r].asked.op # "retry" => posts = req[r].posts,
         Resolve(r, posts)
  PROVE  req'[r].pc = "answered"
<1> PICK c \in Keyed(req[r].asked.key) :
      IF \/ req[r].asked.op = "retry" /\ SameParent(req[r].asked, c)
         \/ req[r].asked.op # "retry" /\ Equivalent(req[r].asked, posts, c)
      THEN Answer(r, c) ELSE Go(r, "refused")
  BY DEF Resolve
<1>1. c = b
  BY DEF Keyed, Inv, OneRowPerKey
<1>2. req[r].asked.op \in Ops /\ WorkOK(req[r]) /\ RowInv(b)
  BY DEF Inv, Working, Asked
<1>3. Answer(r, c)
  <2>1. CASE req[r].asked.op = "retry"
    BY <1>1, <2>1 DEF SameParent
  <2>2. CASE req[r].asked.op # "retry"
    <3>1. row[b].source = req[r].asked.op /\ row[b].posts = posts
      BY <1>2, <2>2 DEF RowInv, WorkOK, Ops
    <3> QED
      BY <1>1, <2>2, <3>1 DEF Equivalent
  <2> QED
    BY <2>1, <2>2
<1>4. req' = [req EXCEPT ![r] = [pc |-> "answered", asked |-> req[r].asked, row |-> c]]
  BY <1>3 DEF Answer
<1> QED
  BY <1>4 DEF Inv, Types

LEMMA OthersKeep ==
  ASSUME Inv, NEW r \in Requests, NEW s \in Requests, s # r, Request(s)
  PROVE  req'[r] = req[r]
<1>1. \E q : req' = [req EXCEPT ![s] = q]
  <2>1. CASE \E asked \in Asked : Receive(s, asked)
    BY <2>1 DEF Receive
  <2>2. CASE Count(s) \/ FindPosts(s) \/ Conflict(s) \/ Refuse(s)
    BY <2>2 DEF Count, FindPosts, Conflict, Refuse, Go
  <2>3. ASSUME NEW posts, Resolve(s, posts)
        PROVE  \E q : req' = [req EXCEPT ![s] = q]
    BY <2>3 DEF Resolve, Answer, Go
  <2>4. CASE Lookup(s) \/ LookupRetry(s) \/ Recover(s) \/ RecoverRetry(s)
    BY <2>3, <2>4 DEF Lookup, LookupRetry, Recover, RecoverRetry, Go
  <2>5. CASE \E b \in Rows : Create(s, b) \/ CreateSingle(s, b) \/ CreateRetry(s, b)
    BY <2>5 DEF Create, CreateSingle, CreateRetry, Write
  <2>6. CASE Enqueue(s) \/ Reply(s) \/ Crash(s)
    BY <2>6 DEF Enqueue, Reply, Crash, Answer, Idle
  <2> QED
    BY <2>1, <2>2, <2>4, <2>5, <2>6 DEF Request
<1> QED
  BY <1>1 DEF Inv, Types

(* Whatever became of the first answer, of its handler and of the items: a
   request made again is not refused, neither at its lookup, unless it is a retry and
   its parent is CANCELLING, nor after it lost the race for the index. *)
THEOREM RepeatedIsAnswered == Spec => RepeatIsAnswered
<1>1. ASSUME Inv, Next, NEW r \in Requests,
             req[r].pc = "recover" \/ (req[r].pc = "lookup" /\ ~ParentCancelling(r)),
             req[r].asked.op # "content", req'[r].pc = "refused",
             NEW b \in Rows, Held(b), row[b].asked = req[r].asked
      PROVE  FALSE
  <2>1. req[r] \in Working /\ b \in Keyed(req[r].asked.key)
    BY <1>1, InWorking DEF Inv, Keyed
  <2>2. Request(r)
    <3>1. World => req' = req
      BY DEF World, Import, DeleteDraft, ItemEnds, CountsOfCancel
    <3> QED
      BY <1>1, <3>1, OthersKeep DEF Next
  <2>3. ASSUME NEW posts, req[r].asked.op # "retry" => posts = req[r].posts, Resolve(r, posts)
        PROVE  FALSE
    <3>1. req'[r].pc = "answered"
      BY <1>1, <2>1, <2>3, EqualAnswers
    <3> QED
      BY <1>1, <3>1
  <2>4. CASE Lookup(r)
    BY <2>1, <2>3, <2>4 DEF Lookup
  <2>5. CASE LookupRetry(r) \/ RecoverRetry(r)
    <3>1. CASE LookupRetry(r)
      BY <1>1, <2>1, <2>3, <3>1 DEF LookupRetry
    <3>2. CASE RecoverRetry(r)
      BY <2>3, <3>2 DEF RecoverRetry
    <3> QED
      BY <2>5, <3>1, <3>2
  <2>6. CASE Recover(r)
    BY <1>1, <2>3, <2>6 DEF Recover
  <2>7. CASE Crash(r)
    <3>1. req'[r].pc = "idle"
      BY <1>1, <2>7 DEF Crash, Idle, Inv, Types
    <3> QED
      BY <1>1, <3>1
  <2>8. Lookup(r) \/ LookupRetry(r) \/ Recover(r) \/ RecoverRetry(r) \/ Crash(r)
    BY <1>1, <2>2 DEF Request, Receive, Count, FindPosts, Create, CreateSingle, CreateRetry,
                      Free, Conflict, Refuse, Enqueue, Reply
  <2> QED
    BY <2>4, <2>5, <2>6, <2>7, <2>8
<1>2. Inv /\ [Next]_vars =>
        [\A r \in Requests :
           /\ req[r].pc = "recover" \/ (req[r].pc = "lookup" /\ ~ParentCancelling(r))
           /\ req[r].asked.op # "content"
           /\ req'[r].pc = "refused"
           => ~ \E b \in Rows : Held(b) /\ row[b].asked = req[r].asked]_vars
  BY <1>1
<1> QED
  BY <1>2, Invariant, PTL DEF Spec, RepeatIsAnswered
=============================================================================
